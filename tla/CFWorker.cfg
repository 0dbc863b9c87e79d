SPECIFICATION Spec
CONSTANTS
    Key = {1, 2}
    Limits = {2, 3}
    Serialized = FALSE
    Strong = TRUE
    Hot = FALSE
    Capped = FALSE
    Cooldown = 1
    EmptyFlush = FALSE
    CrashAt <- AnyStep
    FailAt = {}
    MaxWrites = 3
    MaxSegs = 7
    MaxCrashes = 1
    MaxFails = 0
INVARIANT ManifestClosed
CHECK_DEADLOCK FALSE
