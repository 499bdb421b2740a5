SPECIFICATION FairSpec
CONSTANTS
    e1 = e1
    e2 = e2
    e3 = e3
    Messages = {e1, e2, e3}
    Poison = {e3}
    BatchSize = 2
    MaxFail = 2
    MaxCrash = 1
INVARIANTS
    TypeOK
    HeldOnce
    DuplicateNeedsFailure
PROPERTIES
    ImplementsChannel
    FullBufferDelivered
CHECK_DEADLOCK FALSE
