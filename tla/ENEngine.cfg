SPECIFICATION Spec
CONSTANTS
    Doc = {d1, d2}
    Modes <- Sound
    MaxOps = 4
    MaxBatch = 2
    MaxFaults = 1
SYMMETRY Symmetric
INVARIANTS
    ReadsLast
PROPERTIES
    RecoversWhole
    PrimaryInOrder
CHECK_DEADLOCK FALSE
