SPECIFICATION Spec
CONSTANTS
    NULL = NULL
    BLANK = BLANK
    u1 = u1
    k1 = k1
    m1 = m1
    Users = {u1}
    Macs = {m1}
    Cirs = {k1}
    Names = {n1, n2}
    MaxIp = 3
    MaxRow = 3
    MaxSeg = 2
    MaxCat = 0
    MaxNas = 0
    Workers = {w1}
    Posts <- SegmentBodies
    Puts <- SegmentPuts
    Bulks <- None
    Nets <- ThreeNets
    CatNames <- None
    NasBodies <- None
    Requests <- AskAnywhere
    Registry <- EmptyRegistry
INVARIANTS
    TypeOK
    SegmentsDisjoint
    ExceptionsInSegment
    ExceptionsDisjoint
    OneBasePerSegment
    PreviewAgreesOnSegments
