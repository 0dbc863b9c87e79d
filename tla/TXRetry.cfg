SPECIFICATION Spec
CONSTANTS
    Doc = {d1, d2}
    Txn = {t1, t2}
    None = None
    Settings <- OnlyEverything
    MaxSeq = 5
    MaxReads = 2
    CacheSize = 1
SYMMETRY Alike
INVARIANTS
    RetrySucceeds
CHECK_DEADLOCK FALSE
