---------------------------- MODULE EventEngine ----------------------------
(***************************************************************************)
(* The event engine over a signal store and a clock: detectors upsert      *)
(* signals at times of their own, the owner calls EventEngine::update, and *)
(* every call evaluates every definition at the same now_ns.               *)
(*                                                                         *)
(* log is a history variable (no counterpart in the code): per definition, *)
(* one entry per call of update, saying when it was made, whether the      *)
(* condition held and whether an event came out.                           *)
(***************************************************************************)
EXTENDS EventMachine, Sequences

CONSTANTS
    Value,          \* values detectors write (u64; a few are enough)
    TTL,            \* ttls detectors write
    MaxUpdates      \* bound: calls of update in one behaviour

ASSUME EngineAssumption ==
    /\ Value \subseteq Nat
    /\ TTL \subseteq Time
    /\ MaxUpdates \in Nat

VARIABLES
    clock,          \* nanoseconds since the scheduler started
    store,          \* SignalStore
    state,          \* state[d]: EventMachine::state of definition d
    log             \* history: log[d] is the sequence of samples of d

vars == <<clock, store, state, log>>

Sample == [at : Time, met : BOOLEAN, fired : BOOLEAN]

TypeOK ==
    /\ clock \in Time
    /\ store \in Stores
    /\ state \in [EventDef -> MachineState]
    /\ log \in [EventDef -> Seq(Sample)]

Init ==
    /\ clock = 0
    /\ store = EmptyStore
    /\ state = [d \in EventDef |-> Idle]
    /\ log = [d \in EventDef |-> << >>]

\* Time passes; Instant never goes back.
Advance ==
    /\ clock < U64Max
    /\ clock' = clock + 1
    /\ UNCHANGED <<store, state, log>>

\* A detector publishes a signal, stamped now or, for a cached remote
\* result, earlier.
Write(s, v, ts, ttl) ==
    /\ ts <= clock
    /\ store' = Upsert(store, s, [value |-> v, ts |-> ts, ttl |-> ttl])
    /\ UNCHANGED <<clock, state, log>>

Met(d) == ConditionHolds(Cond[d], store, clock)

SampleOf(d) ==
    [at |-> clock, met |-> Met(d), fired |-> Fires(d, state[d], Met(d), clock)]

\* EventEngine::update: every machine, in one call.
Update ==
    /\ \A d \in EventDef : Len(log[d]) < MaxUpdates
    /\ state' = [d \in EventDef |-> AfterUpdate(d, state[d], Met(d), clock)]
    /\ log' = [d \in EventDef |-> Append(log[d], SampleOf(d))]
    /\ UNCHANGED <<clock, store>>

Next ==
    \/ Advance
    \/ \E s \in SignalType, v \in Value, ts \in Time, ttl \in TTL :
          Write(s, v, ts, ttl)
    \/ Update

Spec == Init /\ [][Next]_vars

-----------------------------------------------------------------------------
(* Properties *)

\* Two events of one definition are at least its cooldown apart, and then its
\* duration: what the Cooldown and Potential states (engine.rs:33, 61, 67)
\* are for, over any timing of the calls.
Spacing ==
    \A d \in EventDef : \A i, j \in DOMAIN log[d] :
        (i < j /\ log[d][i].fired /\ log[d][j].fired) =>
            /\ log[d][j].at >= SatAdd(log[d][i].at, Cooldown[d])
            /\ log[d][j].at - SatAdd(log[d][i].at, Cooldown[d]) >= Duration[d]

\* An event is backed by an unbroken run of samples at which the condition
\* held, at least Duration long and without another event in it (lib.rs:17,
\* as the sampling engine can see it).
Sustained ==
    \A d \in EventDef : \A j \in DOMAIN log[d] :
        log[d][j].fired =>
            \E i \in 1 .. j :
                /\ log[d][j].at - log[d][i].at >= Duration[d]
                /\ \A k \in i .. j : log[d][k].met
                /\ \A k \in i .. j - 1 : ~log[d][k].fired

\* No confirmed condition is missed: samples i..j that all hold, begin after
\* the cooldown of every earlier event and span Duration contain an event.
NothingMissed ==
    \A d \in EventDef : \A i, j \in DOMAIN log[d] :
        (/\ i <= j
         /\ log[d][j].at - log[d][i].at >= Duration[d]
         /\ \A k \in i .. j : log[d][k].met
         /\ \A k \in 1 .. i - 1 : log[d][k].fired =>
                log[d][i].at >= SatAdd(log[d][k].at, Cooldown[d]))
        => \E k \in i .. j : log[d][k].fired

\* How the state of a machine stands for the past of its definition: Idle
\* after a sample that did not hold, Potential since the first sample of a run
\* that may still confirm, Cooldown since the last event (engine.rs:44-82).
\* The inductive invariant of the proofs.
InOrder(l) ==
    /\ \A i, j \in DOMAIN l : i <= j => l[i].at <= l[j].at
    /\ \A k \in DOMAIN l : l[k].at <= clock

CooldownOver(d, l, t, n) ==
    \A k \in 1 .. n : l[k].fired => SatAdd(l[k].at, Cooldown[d]) <= t

RunsFrom(d, l, i) ==
    /\ \A k \in i .. Len(l) : l[k].met /\ ~l[k].fired
    /\ CooldownOver(d, l, l[i].at, i - 1)

LinkedIdle(d, l) ==
    Len(l) > 0 => ~l[Len(l)].met /\ CooldownOver(d, l, l[Len(l)].at, Len(l))

LinkedPotential(d, l, start) ==
    \E i \in 1 .. Len(l) :
        /\ l[i].at = start
        /\ RunsFrom(d, l, i)
        /\ \A j \in 1 .. i - 1 : ~RunsFrom(d, l, j)
        /\ l[Len(l)].at - start < Duration[d]

LinkedCooldown(d, l, until) ==
    \E k \in 1 .. Len(l) :
        /\ l[k].fired
        /\ until = SatAdd(l[k].at, Cooldown[d])
        /\ CooldownOver(d, l, l[k].at, k - 1)
        /\ \A j \in k + 1 .. Len(l) : ~l[j].fired /\ l[j].at < until

Linked ==
    \A d \in EventDef :
        /\ InOrder(log[d])
        /\ state[d].kind = "Idle" => LinkedIdle(d, log[d])
        /\ state[d].kind = "Potential" => LinkedPotential(d, log[d], state[d].at)
        /\ state[d].kind = "Cooldown" => LinkedCooldown(d, log[d], state[d].at)

\* The engine keeps the promise of ConfirmedEvents.
Promise == INSTANCE ConfirmedEvents

Implements == Promise!Spec
=============================================================================
