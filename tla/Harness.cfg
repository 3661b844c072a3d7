SPECIFICATION Spec
CONSTANTS
    Clis <- MCClis
    CameraFps <- MCCameraFps
    Took <- MCTook
    SleepMs <- MCSleepMs
    QueueCap = 1
    Warmup = 1
    Duration = 3
    SampleInterval = 2
    MinTicks = 2
    MaxFrames = 4
INVARIANTS
    TypeOK
    Isolated
    LossIsReal
CHECK_DEADLOCK FALSE
