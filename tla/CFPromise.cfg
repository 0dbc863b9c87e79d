SPECIFICATION Spec
CONSTANTS
    Key = {1, 2}
    Limits = {2, 3}
    Serialized = TRUE
    Strong = FALSE
    Hot = FALSE
    Capped = FALSE
    Cooldown = 0
    EmptyFlush = FALSE
    CrashAt <- BeforeInstall
    FailAt = {}
    MaxWrites = 4
    MaxSegs = 7
    MaxCrashes = 1
    MaxFails = 0
INVARIANTS
    TypeOK
    Durable
    ReadsNewest
    ScanAgrees
PROPERTY KeepsPromise
CHECK_DEADLOCK FALSE
