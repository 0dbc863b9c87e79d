SPECIFICATION Spec
CONSTANTS
    Node = {n1, n2, n3}
    None = None
    Op = {op1, op2}
    MaxTerm = 2
    MaxLog = 2
    MaxFlips = 2
INVARIANT ReachableAgree
CHECK_DEADLOCK FALSE
