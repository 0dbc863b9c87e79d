SPECIFICATION Spec
CONSTANTS
    Key = {1, 2}
    Limits = {2}
    Serialized = TRUE
    Strong = TRUE
    Hot = FALSE
    Capped = FALSE
    Cooldown = 0
    EmptyFlush = TRUE
    CrashAt <- BeforeInstall
    FailAt = {}
    MaxWrites = 3
    MaxSegs = 5
    MaxCrashes = 0
    MaxFails = 0
INVARIANT ReadsNewest
CHECK_DEADLOCK FALSE
