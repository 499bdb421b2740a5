SPECIFICATION FairSpec
CONSTANTS
    NULL = NULL
    Texts = {x, y}
    Times = {1, 2}
    MaxEvents = 4
    BatchLimit = 2
    MaxFail = 1
INVARIANTS
    TypeOK
    NoFork
PROPERTIES
    NeverRehashed
    EventuallyHashed
