SPECIFICATION Spec
CONSTANTS
    Doc = {1, 2}
    Searcher = {s1, s2}
    Modes <- AllModes
    Cap = 2
    MaxPuts = 3
    MaxIds = 4
    MaxFaults = 2
SYMMETRY Alike
INVARIANTS
    Kept
    FindsAll
    CacheFresh
CHECK_DEADLOCK FALSE
