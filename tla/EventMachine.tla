---------------------------- MODULE EventMachine ----------------------------
(***************************************************************************)
(* The temporal confirmation machine of one event definition               *)
(* (EventMachine in rvo-events/engine.rs), as operators: what one call of  *)
(* update returns and the state it leaves, given whether the condition     *)
(* held at this call.                                                      *)
(***************************************************************************)
EXTENDS Signals

CONSTANTS
    EventDef,       \* the event definitions of the runtime
    Cond,           \* Cond[d] is the condition of definition d
    Duration,       \* Duration[d]: how long it must hold (duration_ns)
    Cooldown        \* Cooldown[d]: suppression after an event (cooldown_ns)

ASSUME DefAssumption ==
    /\ Cond \in [EventDef -> Condition]
    /\ Duration \in [EventDef -> Time]
    /\ Cooldown \in [EventDef -> Time]

\* enum State; "at" is start_ns of Potential and until_ns of Cooldown.
MachineState == [kind : {"Idle", "Potential", "Cooldown"}, at : Time]

Idle == [kind |-> "Idle", at |-> 0]
PotentialFrom(t) == [kind |-> "Potential", at |-> t]
CooldownUntil(t) == [kind |-> "Cooldown", at |-> t]

\* Mutant of Suppressed: the instant the cooldown ends is still inside it.
SuppressedTooLong(m, now) == m.kind = "Cooldown" /\ now <= m.at

\* Still inside the cooldown: the condition is evaluated and ignored.
Suppressed(m, now) == m.kind = "Cooldown" /\ now < m.at

\* Mutants of Fires: "longer than" for "at least"; no cooldown check.
FiresStrict(d, m, met, now) ==
    met /\ m.kind = "Potential" /\ SatSub(now, m.at) > Duration[d]
FiresWhileSuppressed(d, m, met, now) ==
    /\ met
    /\ IF m.kind = "Potential" THEN SatSub(now, m.at) >= Duration[d]
       ELSE Duration[d] = 0

\* update returns Some(event).
Fires(d, m, met, now) ==
    /\ met
    /\ \/ /\ m.kind = "Potential"
          /\ SatSub(now, m.at) >= Duration[d]
       \/ /\ m.kind \in {"Idle", "Cooldown"}
          /\ ~Suppressed(m, now)
          /\ Duration[d] = 0

\* Mutants of AfterUpdate: a cooldown end that overflows; no cooldown after an
\* event; a Potential that outlives a sample that did not hold.
AfterUpdateUnsaturated(d, m, met, now) ==
    IF Fires(d, m, met, now) THEN CooldownUntil(now + Cooldown[d])
    ELSE IF Suppressed(m, now) \/ (met /\ m.kind = "Potential") THEN m
    ELSE IF met THEN PotentialFrom(now)
    ELSE Idle
AfterUpdateNoCooldown(d, m, met, now) ==
    IF met /\ ~Fires(d, m, met, now)
    THEN IF m.kind = "Potential" THEN m ELSE PotentialFrom(now)
    ELSE Idle
AfterUpdateSticky(d, m, met, now) ==
    IF Fires(d, m, met, now) THEN CooldownUntil(SatAdd(now, Cooldown[d]))
    ELSE IF Suppressed(m, now) \/ m.kind = "Potential" THEN m
    ELSE IF met THEN PotentialFrom(now)
    ELSE Idle

\* The state update leaves.
AfterUpdate(d, m, met, now) ==
    IF Fires(d, m, met, now) THEN CooldownUntil(SatAdd(now, Cooldown[d]))
    ELSE IF Suppressed(m, now) \/ (met /\ m.kind = "Potential") THEN m
    ELSE IF met THEN PotentialFrom(now)
    ELSE Idle
=============================================================================
