SPECIFICATION Spec
CONSTANTS
    Doc = {d1, d2}
    Txn = {t1, t2}
    None = None
    Settings <- AllSettings
    MaxSeq = 3
    MaxReads = 2
    CacheSize = 1
SYMMETRY Alike
INVARIANTS
    FirstCommitterWins
    SnapshotReads
    PatchOverBase
    OnlyReadersHoldLocks
    NeverRefusedAlone
CHECK_DEADLOCK FALSE
