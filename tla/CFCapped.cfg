SPECIFICATION Spec
CONSTANTS
    Key = {1}
    Limits = {3}
    Serialized = TRUE
    Strong = TRUE
    Hot = FALSE
    Capped = TRUE
    Cooldown = 0
    EmptyFlush = FALSE
    CrashAt <- BeforeInstall
    FailAt = {}
    MaxWrites = 3
    MaxSegs = 5
    MaxCrashes = 0
    MaxFails = 0
INVARIANT ReadsNewest
CHECK_DEADLOCK FALSE
