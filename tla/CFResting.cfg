SPECIFICATION Spec
CONSTANTS
    Key = {1, 2}
    Limits = {2}
    Serialized = TRUE
    Strong = TRUE
    Hot = FALSE
    Capped = FALSE
    Cooldown = 1
    EmptyFlush = FALSE
    CrashAt <- BeforeInstall
    FailAt = {}
    MaxWrites = 8
    MaxSegs = 12
    MaxCrashes = 0
    MaxFails = 0
INVARIANT ReadsNewest
CHECK_DEADLOCK FALSE
CONSTRAINT Filled
