CONSTANTS
    s1 = s1
    s2 = s2
    slow = slow
    cheap = cheap
    wild = wild
    e1 = e1
    SignalType <- MCSignalType
    Detector <- MCDetector
    EventDef <- MCEventDef
    Cond <- MCCond
    Duration <- MCDuration
    Cooldown <- MCCooldown
    NoRate <- MCNoRate
    Interval <- MCInterval
    Cost <- MCCost
    NeedsFrame <- MCNeedsFrame
    Deps <- MCDeps
    Emits <- MCEmits
    Ttl <- MCTtl
    Configs <- MCConfigs
    Value = {1}
    U64Max = 5
    MaxAge = 0
    MediumBackoff = 1
    HighBackoff = 4
    MaxTook = 3
    MaxDetectors = 3
CHECK_DEADLOCK FALSE
SPECIFICATION FairSpec
INVARIANTS
    TypeOK
PROPERTIES
    RateCapped
    StaysDisabled
    BackoffHonoured
    QuietAfterStop
    TickEnds
