SPECIFICATION ClientsSpec
CONSTANTS
    Doc = {d1, d2, d3}
    Txn = {t1, t2, t3}
    None = None
    Habits <- AllHabits
SYMMETRY Alike
INVARIANTS
    LocksExclude
    NobodyStuck
PROPERTY InsistingVictimsReal
