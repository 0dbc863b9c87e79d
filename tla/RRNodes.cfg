SPECIFICATION Spec
CONSTANTS
    Node = {n1, n2, n3}
    None = None
    Op = {op1, op2}
    Settings <- AllSettings
SYMMETRY Alike
INVARIANTS
    OneLeaderATerm
    TermsAgree
    FollowersAgree
CHECK_DEADLOCK FALSE
