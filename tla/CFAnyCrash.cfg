SPECIFICATION FairSpec
CONSTANTS
    Key = {1}
    Limits = {2}
    Serialized = TRUE
    Strong = FALSE
    Hot = TRUE
    Capped = TRUE
    Cooldown = 2
    EmptyFlush = FALSE
    CrashAt <- AnyStep
    FailAt <- AnyFailure
    MaxWrites = 4
    MaxSegs = 9
    MaxCrashes = 1
    MaxFails = 1
INVARIANT ManifestClosed
PROPERTIES NeverForgets Converges
CHECK_DEADLOCK FALSE
