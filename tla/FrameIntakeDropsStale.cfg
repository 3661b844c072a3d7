CONSTANTS
    QueueCap = 2
    Capacity = 2
    MaxTime = 2
    MaxFrames = 5
SPECIFICATION Spec
PROPERTIES
    DropsStale
