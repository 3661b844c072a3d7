----------------------------- MODULE Scheduler -----------------------------
(***************************************************************************)
(* The orchestration loop (rvo-scheduler).  A tick fixes one instant       *)
(* (now), visits the detectors in order, each through five gates, runs the *)
(* ones that pass, and then evaluates the events at that same instant.     *)
(* Time goes on while a detector runs: clock is the real time, now is the  *)
(* time the tick works with.                                               *)
(*                                                                         *)
(* A tick holds the scheduler's mutex, so a detector is added (the web     *)
(* node form) and a configuration swapped in (SIGHUP) between ticks only.  *)
(* The frames are reduced to whether one has ever been drained: the buffer *)
(* never empties again (see FrameBuffer).                                  *)
(*                                                                         *)
(* The rate of a detector comes unchecked from the configuration: for a    *)
(* max_fps of zero, below zero or too small, the rate gate panics, outside *)
(* the catch_unwind that guards execute, and poisons the mutex.  So does a *)
(* print about a dropped event or clip, once nobody reads the output.      *)
(*                                                                         *)
(* hist, lastOk and lastFired are history variables.                       *)
(***************************************************************************)
EXTENDS EventMachine, Sequences

CONSTANTS
    Detector,       \* detector nodes a configuration can name
    NoRate,         \* those for which 1 / max_fps is no Duration
    Interval,       \* 1 / max_fps of each of the others
    Cost,           \* its cost_hint
    NeedsFrame,     \* its requires_frame
    Deps,           \* its dependencies: signals
    Emits,          \* the signals it can produce
    Ttl,            \* the ttl it stamps them with
    Value,          \* values it can write
    MaxAge,         \* oldest cached result a detector returns
    MediumBackoff, HighBackoff,     \* 100 ms and 500 ms
    MaxTook,        \* bound: how long one execution takes
    Configs,        \* detector lists a configuration can hold
    MaxDetectors    \* bound: detectors after additions

Backoffs == [Medium |-> MediumBackoff, High |-> HighBackoff]

ASSUME SchedulerAssumption ==
    /\ NoRate \subseteq Detector
    /\ Interval \in [Detector \ NoRate -> Time]
    /\ Cost \in [Detector -> {"Low", "Medium", "High"}]
    /\ NeedsFrame \in [Detector -> BOOLEAN]
    /\ Deps \in [Detector -> SUBSET SignalType]
    /\ Emits \in [Detector -> SUBSET SignalType]
    /\ Ttl \in [Detector -> Time]
    /\ Value \subseteq Nat
    /\ MaxAge \in Nat
    /\ MediumBackoff \in Nat
    /\ HighBackoff \in Nat
    /\ MaxTook \in Nat
    /\ Configs \subseteq Seq(Detector)
    /\ MaxDetectors \in Nat

OVERRUN_FACTOR == 2

VARIABLES
    clock,          \* Instant::now() minus started_at
    next,           \* 0 between ticks, the index the tick is at, or Poisoned
    now,            \* the tick's now and now_ns
    hasFrame,       \* latest_frame is Some
    detectors,      \* Vec of detectors
    runtime,        \* Vec of DetectorRuntime, one per detector
    store,          \* SignalStore
    machines,       \* the state of each EventMachine
    hist,           \* history, per detector: see Run
    lastOk,         \* history, per signal: tick of its last producer's success
    lastFired       \* history, per definition: tick of its last event, or -1

vars == <<clock, next, now, hasFrame, detectors, runtime, store, machines,
          hist, lastOk, lastFired>>

\* The mutex after a panic in tick: whoever locks it fails.
Poisoned == -1

\* DetectorRuntime; backoffUntil = 0 is None: no instant is before it.
Runtime == [lastRun : Time, disabled : BOOLEAN, backoffUntil : Nat]

\* DetectorRuntime::new.
NewRuntime(t) == [lastRun |-> t, disabled |-> FALSE, backoffUntil |-> 0]

\* at: tick of the last execution, or when the detector was installed;
\* failed: it has failed; over: the last execution overran its budget.
History == [at : Time, failed : BOOLEAN, over : BOOLEAN]

NewHistory(t) == [at |-> t, failed |-> FALSE, over |-> FALSE]

TypeOK ==
    /\ clock \in Time
    /\ now \in 0 .. clock
    /\ next \in Poisoned .. Len(detectors) + 1
    /\ hasFrame \in BOOLEAN
    /\ detectors \in Seq(Detector)
    /\ runtime \in Seq(Runtime)
    /\ Len(runtime) = Len(detectors)
    /\ store \in Stores
    /\ machines \in [EventDef -> MachineState]
    /\ hist \in Seq(History)
    /\ Len(hist) = Len(detectors)
    /\ lastOk \in [SignalType -> Time \cup {-1}]
    /\ lastFired \in [EventDef -> Time \cup {-1}]

Init ==
    /\ clock = 0
    /\ next = 0
    /\ now = 0
    /\ hasFrame = FALSE
    /\ detectors \in Configs
    /\ runtime = [i \in DOMAIN detectors |-> NewRuntime(0)]
    /\ store = EmptyStore
    /\ machines = [e \in EventDef |-> Idle]
    /\ hist = [i \in DOMAIN detectors |-> NewHistory(0)]
    /\ lastOk = [s \in SignalType |-> -1]
    /\ lastFired = [e \in EventDef |-> -1]

-----------------------------------------------------------------------------
\* Between two ticks time passes (the loop sleeps 1 ms).
Sleep ==
    /\ next = 0
    /\ clock < U64Max
    /\ clock' = clock + 1
    /\ UNCHANGED <<next, now, hasFrame, detectors, runtime, store, machines,
                   hist, lastOk, lastFired>>

\* tick, up to the loop: drain the channel, fix now, take the newest frame.
BeginTick ==
    /\ next = 0
    /\ next' = 1
    /\ now' = clock
    /\ hasFrame' \in {hasFrame, TRUE}
    /\ UNCHANGED <<clock, detectors, runtime, store, machines, hist, lastOk,
                   lastFired>>

\* The second gate panics on its Duration.
Panics(i) == ~runtime[i].disabled /\ detectors[i] \in NoRate

Panic(i) ==
    /\ next = i
    /\ Panics(i)
    /\ next' = Poisoned
    /\ UNCHANGED <<clock, now, hasFrame, detectors, runtime, store, machines,
                   hist, lastOk, lastFired>>

InBackoff(r) == now < r.backoffUntil

\* Mutants of Ready: without the rate gate; without the failed gate.
ReadyUncapped(i) ==
    LET d == detectors[i] IN
    /\ ~runtime[i].disabled
    /\ ~Panics(i)
    /\ ~InBackoff(runtime[i])
    /\ NeedsFrame[d] => hasFrame
    /\ \A s \in Deps[d] : Fresh(store, s, now)
ReadyAlthoughFailed(i) ==
    LET d == detectors[i] IN
    /\ d \notin NoRate
    /\ SatSub(now, runtime[i].lastRun) >= Interval[d]
    /\ ~InBackoff(runtime[i])
    /\ NeedsFrame[d] => hasFrame
    /\ \A s \in Deps[d] : Fresh(store, s, now)

\* The five gates: failed, rate cap, backoff, frame, dependencies.
Ready(i) ==
    LET d == detectors[i] IN
    /\ ~runtime[i].disabled
    /\ ~Panics(i)
    /\ SatSub(now, runtime[i].lastRun) >= Interval[d]
    /\ ~InBackoff(runtime[i])
    /\ NeedsFrame[d] => hasFrame
    /\ \A s \in Deps[d] : Fresh(store, s, now)

\* Mutant of Skip: the loop does not move on.
SkipStays(i) == next = i /\ ~Ready(i) /\ ~Panics(i) /\ UNCHANGED vars

\* A gate holds the detector back: detector_skips is counted, nothing else.
Skip(i) ==
    /\ next = i
    /\ ~Ready(i)
    /\ ~Panics(i)
    /\ next' = i + 1
    /\ UNCHANGED <<clock, now, hasFrame, detectors, runtime, store, machines,
                   hist, lastOk, lastFired>>

\* execute takes a while; the tick's now stays.
Takes(took) ==
    /\ clock + took <= U64Max
    /\ clock' = clock + took

\* Mutant of RunFailed: no catch_unwind around execute.
RunFailedPoisons(i, took) ==
    /\ next = i
    /\ Ready(i)
    /\ Takes(took)
    /\ next' = Poisoned
    /\ UNCHANGED <<now, hasFrame, detectors, runtime, store, machines, hist,
                   lastOk, lastFired>>

\* execute returns Failed health, or panics and is caught: the detector is
\* disabled and what it returned is discarded.
RunFailed(i, took) ==
    /\ next = i
    /\ Ready(i)
    /\ Takes(took)
    /\ runtime' = [runtime EXCEPT ![i].lastRun = now, ![i].disabled = TRUE]
    /\ hist' = [hist EXCEPT ![i] = [at |-> now, failed |-> TRUE, over |-> FALSE]]
    /\ next' = i + 1
    /\ UNCHANGED <<now, hasFrame, detectors, store, machines, lastOk, lastFired>>

Overran(d, took) == took > OVERRUN_FACTOR * Interval[d]

\* Mutant of Backoff: one backoff for every class.
BackoffMedium(d, r) ==
    IF Cost[d] = "Low" THEN r
    ELSE [r EXCEPT !.backoffUntil = now + MediumBackoff]

\* apply_backoff: counted from the tick's now; low-cost detectors never.
Backoff(d, r) ==
    IF Cost[d] = "Low" THEN r
    ELSE [r EXCEPT !.backoffUntil = now + Backoffs[Cost[d]]]

\* execute returns signals: sigs gives a value to each signal produced, ts is
\* their stamp.
RunOk(i, took, sigs, ts) ==
    LET d == detectors[i]
        ran == [runtime[i] EXCEPT !.lastRun = now]
    IN
    /\ next = i
    /\ Ready(i)
    /\ Takes(took)
    /\ runtime' = [runtime EXCEPT ![i] =
                      IF Overran(d, took) THEN Backoff(d, ran) ELSE ran]
    /\ store' = [s \in SignalType |->
                    IF s \in DOMAIN sigs
                    THEN [value |-> sigs[s], ts |-> ts, ttl |-> Ttl[d]]
                    ELSE store[s]]
    /\ hist' = [hist EXCEPT ![i] =
                   [at |-> now, failed |-> FALSE, over |-> Overran(d, took)]]
    /\ lastOk' = [s \in SignalType |-> IF s \in DOMAIN sigs THEN now ELSE lastOk[s]]
    /\ next' = i + 1
    /\ UNCHANGED <<now, hasFrame, detectors, machines, lastFired>>

\* What a detector can return: any of its signals, stamped now or earlier.
Outputs(d) == UNION {[S -> Value] : S \in SUBSET Emits[d]}

Stamps == {SatSub(now, age) : age \in 0 .. MaxAge}

Run(i) ==
    \E took \in 0 .. MaxTook :
        \/ RunFailed(i, took)
        \/ \E sigs \in Outputs(detectors[i]), ts \in Stamps : RunOk(i, took, sigs, ts)

Met(e) == ConditionHolds(Cond[e], store, now)

Emitted(e) == Fires(e, machines[e], Met(e), now)

\* EventEngine::update once every detector has been visited; what it returns
\* goes to the publisher and the clip manager, which never block, but print
\* about what they drop (publisher.rs:26, 29, manager.rs:101, 124): a print to
\* a closed stdout or stderr panics, outside catch_unwind.
EvaluateEvents ==
    /\ next = Len(detectors) + 1
    /\ machines' = [e \in EventDef |-> AfterUpdate(e, machines[e], Met(e), now)]
    /\ lastFired' = [e \in EventDef |-> IF Emitted(e) THEN now ELSE lastFired[e]]
    /\ next' \in IF \E e \in EventDef : Emitted(e) THEN {0, Poisoned} ELSE {0}
    /\ UNCHANGED <<clock, now, hasFrame, detectors, runtime, store, hist, lastOk>>

\* Mutant of AddDetector: no runtime is pushed with the detector.
AddDetectorNoRuntime(d) ==
    /\ next = 0
    /\ Len(detectors) < MaxDetectors
    /\ detectors' = Append(detectors, d)
    /\ UNCHANGED <<clock, next, now, hasFrame, runtime, hist, store, machines,
                   lastOk, lastFired>>

\* add_detector: existing detectors, machines and signals stay.  Its caller,
\* the web node form, fixes the rate.
AddDetector(d) ==
    /\ next = 0
    /\ Len(detectors) < MaxDetectors
    /\ detectors' = Append(detectors, d)
    /\ runtime' = Append(runtime, NewRuntime(clock))
    /\ hist' = Append(hist, NewHistory(clock))
    /\ UNCHANGED <<clock, next, now, hasFrame, store, machines, lastOk, lastFired>>

\* swap_runtime: new detectors and a new engine; the signals stay.
SwapRuntime(config) ==
    /\ next = 0
    /\ detectors' = config
    /\ runtime' = [i \in DOMAIN config |-> NewRuntime(clock)]
    /\ machines' = [e \in EventDef |-> Idle]
    /\ hist' = [i \in DOMAIN config |-> NewHistory(clock)]
    /\ UNCHANGED <<clock, next, now, hasFrame, store, lastOk, lastFired>>

Visit == \E i \in DOMAIN detectors : Panic(i) \/ Skip(i) \/ Run(i)

Tick == BeginTick \/ Visit \/ EvaluateEvents

Next ==
    \/ Sleep
    \/ Tick
    \/ \E d \in Detector \ NoRate : AddDetector(d)
    \/ \E config \in Configs : SwapRuntime(config)

Spec == Init /\ [][Next]_vars

\* The scheduler's thread keeps running and every detector returns.
FairSpec == Spec /\ WF_vars(Visit \/ EvaluateEvents)

-----------------------------------------------------------------------------
(* Properties *)

\* The detector the step executes, if it executes one.
Executes(i) == next = i /\ Run(i)

\* A detector runs at most every Interval, counted from tick to tick, and not
\* before one Interval after it was installed (scheduler.rs:163-167, 216, 88).
RateCapped ==
    [][\A i \in DOMAIN detectors :
          Executes(i) => now - hist[i].at >= Interval[detectors[i]]]_vars

\* A detector that failed or panicked never runs again, whatever is added
\* behind it; only a reload replaces it (scheduler.rs:157, 219-223).
StaysDisabled ==
    [][\A i \in DOMAIN detectors : Executes(i) => ~hist[i].failed]_vars

\* After an overrun a medium or high cost detector sits out its backoff
\* (scheduler.rs:170, 226-229).
BackoffHonoured ==
    [][\A i \in DOMAIN detectors :
          (/\ Executes(i)
           /\ hist[i].over
           /\ Cost[detectors[i]] # "Low")
          => now >= hist[i].at + Backoffs[Cost[detectors[i]]]]_vars

\* An event fires only while a detector that produced a signal of its
\* condition succeeded within the longest ttl: disabled, backed off or removed
\* detectors fall silent (DEVELOPER_GUIDE.md:212).
QuietAfterStop ==
    [][\A e \in EventDef :
          (next = Len(detectors) + 1 /\ next' # next /\ Emitted(e))
          => \E p \in Cond[e].preds, d \in Detector :
                /\ p.signal \in Emits[d]
                /\ lastOk[p.signal] # -1
                /\ now - lastOk[p.signal] <= Ttl[d]]_vars

\* A tick that has begun ends: no failure, panic of execute, overrun or backoff
\* wedges the loop or poisons its mutex (scheduler.rs:201-204).  Two things do:
\* a rate that is no rate, of a detector the running configuration names, and
\* a print in a tick in which an event fires.
TickEnds ==
    next # 0 ~> \/ next = 0
                \/ /\ next = Poisoned
                   /\ \/ \E i \in DOMAIN detectors : Panics(i)
                      \/ \E e \in EventDef : lastFired[e] = now

\* An event does not fire again within its cooldown (rvo-events/lib.rs:20:
\* "How long to suppress re-emission after an event fires").
CooldownKept ==
    [][\A e \in EventDef :
          (next = Len(detectors) + 1 /\ next' # next /\ Emitted(e))
          => \/ lastFired[e] = -1
             \/ now >= SatAdd(lastFired[e], Cooldown[e])]_vars
=============================================================================
