SPECIFICATION Spec
CONSTANTS
    NULL = NULL
    BLANK = BLANK
    u1 = u1
    k1 = k1
    m1 = m1
    Users = {u1}
    Macs = {m1}
    Cirs = {k1}
    Names = {n1}
    MaxIp = 1
    MaxRow = 1
    MaxSeg = 1
    MaxCat = 1
    MaxNas = 1
    Workers = {w1, w2}
    Posts <- RaceBodies
    Puts <- RacePuts
    Bulks <- None
    Nets <- OneNet
    CatNames <- Names
    NasBodies <- NasFiled
    Requests <- None
    Registry <- EmptyRegistry
INVARIANTS
    NoDanglingTarget
    ClientsFresh
PROPERTIES
    NoResurrection
SYMMETRY WorkerSymmetry
