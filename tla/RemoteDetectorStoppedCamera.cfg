CONSTANTS
    FAILURE_THRESHOLD = 2
    MinInterval = 1
    Timeout = 1
    Ttl = 1
    MaxLag = 1
SPECIFICATION FairSpec
PROPERTIES
    StoppedCameraSilences
