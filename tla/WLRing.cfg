SPECIFICATION Spec
CONSTANTS
    Settings <- Sound
    Size = 4
    Lengths = {1, 2, 3}
    MaxWrites = 5
    MaxCrashes = 2
INVARIANTS
    SyncedSurvive
    InOrder
    NeverRefused
CHECK_DEADLOCK FALSE
