SPECIFICATION Spec
CONSTANTS
    Doc = {d1, d2}
    Txn = {t1, t2}
    None = None
    Settings <- OnlyPatching
    MaxSeq = 3
    MaxReads = 2
    CacheSize = 1
SYMMETRY Alike
INVARIANTS
    FieldsKept
CHECK_DEADLOCK FALSE
