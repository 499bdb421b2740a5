SPECIFICATION Spec
CONSTANTS
    NULL = NULL
    BLANK = BLANK
    u1 = u1
    k1 = k1
    m1 = m1
    Users = {u1}
    Macs = {m1}
    Cirs = {k1}
    Names = {n1, n2}
    MaxIp = 3
    MaxRow = 2
    MaxSeg = 0
    MaxCat = 2
    MaxNas = 1
    Workers = {w1}
    Posts <- TargetBodies
    Puts <- TargetPuts
    Bulks <- TwoAddresses
    Nets <- None
    CatNames <- Names
    NasBodies <- NasTwo
    Requests <- None
    Registry <- EmptyRegistry
INVARIANTS
    KeyTracksTarget
