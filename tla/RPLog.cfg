SPECIFICATION FairSpec
CONSTANTS
    Doc = {1, 2}
    s1 = s1
    s2 = s2
    Slave = {s1, s2}
    Settings <- Sound
    MaxWrites = 3
    MaxFaults = 2
INVARIANTS
    NothingDropped
    CaughtUp
PROPERTIES
    Reaches
CHECK_DEADLOCK FALSE
