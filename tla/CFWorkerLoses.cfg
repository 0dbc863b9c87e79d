SPECIFICATION Spec
CONSTANTS
    Key = {1, 2}
    Limits = {2}
    Serialized = FALSE
    Strong = TRUE
    Hot = FALSE
    Capped = FALSE
    Cooldown = 0
    EmptyFlush = FALSE
    CrashAt <- BeforeInstall
    FailAt = {}
    MaxWrites = 4
    MaxSegs = 6
    MaxCrashes = 1
    MaxFails = 0
INVARIANT Durable
CHECK_DEADLOCK FALSE
