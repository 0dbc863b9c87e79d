SPECIFICATION FairSpec
CONSTANTS
    Step = {1, 2, 3, 4}
    Graphs <- AllGraphs
    MaxFaults = 3
INVARIANTS
    AllOrNothing
    DependentsFirst
PROPERTIES
    NoForwardAfterUndo
    Settles
CHECK_DEADLOCK FALSE
