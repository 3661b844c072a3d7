CONSTANTS
    s1 = s1
    confirmed = confirmed
    instant = instant
    SignalType <- MCSignalType
    EventDef <- MCEventDef
    Cond <- MCCond
    Duration <- MCDuration
    Cooldown <- MCCooldown
    Value = {0, 1}
    TTL = {0, 2}
    U64Max = 5
    MaxUpdates = 4
SPECIFICATION Spec
INVARIANTS
    TypeOK
    Spacing
    Sustained
    NothingMissed
    Linked
PROPERTIES
    Implements
