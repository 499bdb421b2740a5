SPECIFICATION RadiusSpec
CONSTANTS
    NULL = NULL
    BLANK = BLANK
    u1 = u1
    k1 = k1
    m1 = m1
    m2 = m2
    Users = {u1}
    Macs = {m1, m2}
    Cirs = {k1}
    Names = {n1}
    MaxIp = 1
    MaxRow = 2
    MaxSeg = 1
    MaxCat = 1
    MaxNas = 1
    Workers = {w1}
    Posts <- EveryPost
    Puts <- EveryPut
    Bulks <- None
    Nets <- OneNet
    CatNames <- Names
    NasBodies <- OneNas
    Requests <- AskEverywhere
    Registry <- FiledUnderOne
INVARIANTS
    StableMatchWins
VIEW WithoutObservers
