CONSTANTS
    d1 = d1
    d2 = d2
    t1 = t1
    t2 = t2
    Def <- MCOneDef
    TypeOf <- MCOneDefType
    Before = 1
    After = 3
    Capacity = 8
    EventCap = 1
    PENDING_CAP = 1
    EncoderCap = 1
    Lag = 1
    MaxDelay = 1
    MaxTime = 8
    MaxEvents = 2
    MayDie = FALSE
SPECIFICATION Spec
CHECK_DEADLOCK FALSE
INVARIANTS
    WholeClips
