CONSTANTS
    d1 = d1
    d2 = d2
    t1 = t1
    t2 = t2
    Def <- MCDef
    TypeOf <- MCTwoTypes
    Before = 1
    After = 1
    Capacity = 6
    EventCap = 1
    PENDING_CAP = 2
    EncoderCap = 1
    Lag = 1
    MaxDelay = 1
    MaxTime = 2
    MaxEvents = 3
    MayDie = TRUE
SPECIFICATION FairSpec
CHECK_DEADLOCK FALSE
INVARIANTS
    TypeOK
    Accounted
    InOrder
    OwnDirectory
PROPERTIES
    Settles
