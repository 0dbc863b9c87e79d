SPECIFICATION FairSpec
CONSTANTS
    Node = {n1, n2, n3}
    None = None
    Op = {op1}
    MaxTerm = 3
    MaxLog = 1
    MaxFlips = 4
INVARIANTS
    SingleLeader
    CommittedByMajority
PROPERTY FailsOver
CHECK_DEADLOCK FALSE
