SPECIFICATION Spec
CONSTANTS
    Key = {1, 2}
    Limits = {2}
    Serialized = TRUE
    Strong = TRUE
    Hot = FALSE
    Capped = FALSE
    Cooldown = 0
    EmptyFlush = FALSE
    CrashAt <- UpToInstalled
    FailAt = {}
    MaxWrites = 4
    MaxSegs = 5
    MaxCrashes = 1
    MaxFails = 0
INVARIANT ScanAgrees
CHECK_DEADLOCK FALSE
