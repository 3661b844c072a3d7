CONSTANTS
    FAILURE_THRESHOLD = 3
    MinInterval = 1
    Timeout = 1
    Ttl = 1
    MaxLag = 1
SPECIFICATION EncodingSpec
INVARIANTS
    TypeOK
    NeverFresherThanReply
    FailuresBounded
PROPERTIES
    DispatchCapped
    BlipTolerated
    DownIsTerminal
    WorkerEnds
