CONSTANTS
    QueueCap = 2
    Capacity = 3
    MaxTime = 3
    MaxFrames = 7
SPECIFICATION FairSpec
INVARIANTS
    TypeOK
    Accounted
    InOrder
    SliceExact
PROPERTIES
    NoBacklog
    KeepsLastFrames
    Arrives
