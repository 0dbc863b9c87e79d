SPECIFICATION GatewaySpec
CONSTANTS
    n1 = n1
    n2 = n2
    n3 = n3
    n4 = n4
    g1 = g1
    g2 = g2
    DataNode <- MCNodes
    Doc = {1, 2}
    Term = {"t"}
    Ring <- MCRing
    GW = {g1, g2}
    Settings <- Sound
    Ttl = 2
    Window = 1
    Threshold = 1
    CacheSize = 2
    MaxWrites = 4
INVARIANTS
    ReadsNewest
    SearchFinds
CHECK_DEADLOCK FALSE
