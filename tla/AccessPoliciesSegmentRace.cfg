SPECIFICATION Spec
CONSTANTS
    NULL = NULL
    BLANK = BLANK
    u1 = u1
    k1 = k1
    m1 = m1
    Users = {u1}
    Macs = {m1}
    Cirs = {k1}
    Names = {n1, n2}
    MaxIp = 3
    MaxRow = 2
    MaxSeg = 2
    MaxCat = 0
    MaxNas = 0
    Workers = {w1, w2}
    Posts <- None
    Puts <- None
    Bulks <- None
    Nets <- TwoNets
    CatNames <- None
    NasBodies <- None
    Requests <- None
    Registry <- EmptyRegistry
INVARIANTS
    SegmentsDisjoint
