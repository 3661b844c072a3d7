-------------------------- MODULE SchedulerProofs --------------------------
(***************************************************************************)
(* Proofs about Scheduler: for every set of detectors and configurations,  *)
(* every rate, cost, dependency, backoff and execution time.               *)
(*                                                                         *)
(* The gates read the detector's runtime and the store; the properties     *)
(* speak of what has happened.  RuntimeKept says that the runtime of every *)
(* detector still holds what its history says, through additions, reloads  *)
(* and the runs of the others, and SlotsKept does so for the slots.        *)
(***************************************************************************)
EXTENDS Scheduler, TLAPS

\* A detector's runtime agrees with its history, and its last run is not in
\* the future of the tick that looks at it.
RuntimeKept ==
    \A i \in DOMAIN detectors :
        /\ hist[i].at = runtime[i].lastRun
        /\ runtime[i].lastRun <= clock
        /\ next >= 1 => runtime[i].lastRun <= now
        /\ hist[i].failed => runtime[i].disabled
        /\ (hist[i].over /\ Cost[detectors[i]] # "Low") =>
              runtime[i].backoffUntil >= hist[i].at + Backoffs[Cost[detectors[i]]]

\* A slot is empty, or was written by a detector that can produce it, with its
\* ttl and a stamp no later than the tick of that run.
SlotsKept ==
    \A s \in SignalType :
        IF lastOk[s] = -1 THEN store[s] = EmptySlot
        ELSE \E d \in Detector :
                /\ s \in Emits[d]
                /\ store[s].ttl = Ttl[d]
                /\ store[s].ts <= lastOk[s]

IInv == TypeOK /\ RuntimeKept /\ SlotsKept

-----------------------------------------------------------------------------
(* Sequences and times *)

LEMMA AppendFacts ==
    ASSUME NEW S, NEW s \in Seq(S), NEW e \in S
    PROVE  /\ Append(s, e) \in Seq(S)
           /\ Len(s) \in Nat
           /\ Len(Append(s, e)) = Len(s) + 1
           /\ DOMAIN s = 1 .. Len(s)
           /\ DOMAIN Append(s, e) = 1 .. Len(s) + 1
           /\ \A i \in 1 .. Len(s) : Append(s, e)[i] = s[i]
           /\ Append(s, e)[Len(s) + 1] = e
    OBVIOUS

LEMMA SeqFacts ==
    ASSUME NEW S, NEW s \in Seq(S)
    PROVE  /\ Len(s) \in Nat
           /\ DOMAIN s = 1 .. Len(s)
           /\ s \in [1 .. Len(s) -> S]
           /\ \A i \in DOMAIN s : s[i] \in S
    OBVIOUS

\* A sequence of one value per detector of a configuration.
LEMMA ForEachFacts ==
    ASSUME NEW S, NEW e \in S, NEW T, NEW config \in Seq(T)
    PROVE  /\ [i \in DOMAIN config |-> e] \in Seq(S)
           /\ Len([i \in DOMAIN config |-> e]) = Len(config)
    OBVIOUS

LEMMA UpdatedFacts ==
    ASSUME NEW S, NEW s \in Seq(S), NEW i \in DOMAIN s, NEW e \in S
    PROVE  /\ [s EXCEPT ![i] = e] \in Seq(S)
           /\ Len([s EXCEPT ![i] = e]) = Len(s)
           /\ [s EXCEPT ![i] = e][i] = e
           /\ \A j \in DOMAIN s : j # i => [s EXCEPT ![i] = e][j] = s[j]
    OBVIOUS

LEMMA TimeFacts ==
    ASSUME NEW a \in Time, NEW b \in Nat
    PROVE  /\ SatAdd(a, b) \in Time
           /\ SatSub(a, b) \in Time
           /\ SatSub(a, b) <= a
           /\ a >= b => SatSub(a, b) = a - b
    BY U64Assumption DEF SatAdd, SatSub, Time

-----------------------------------------------------------------------------
(* Types *)

\* The sequences that run along the detectors.
LEMMA Parallel ==
    ASSUME TypeOK
    PROVE  /\ Len(detectors) \in Nat
           /\ DOMAIN detectors = 1 .. Len(detectors)
           /\ DOMAIN runtime = DOMAIN detectors
           /\ DOMAIN hist = DOMAIN detectors
           /\ \A i \in DOMAIN detectors :
                 /\ detectors[i] \in Detector
                 /\ runtime[i] \in Runtime
                 /\ hist[i] \in History
           /\ now \in Time /\ clock \in Time /\ now <= clock
    <1>1. detectors \in Seq(Detector) /\ runtime \in Seq(Runtime) /\ hist \in Seq(History)
        BY DEF TypeOK
    <1>2. now \in Time /\ clock \in Time /\ now <= clock
        BY U64Assumption DEF TypeOK, Time
    <1> QED
        BY <1>1, <1>2, SeqFacts DEF TypeOK

\* A detector that runs has a rate, and the runtime a run leaves it.
LEMMA RunFacts ==
    ASSUME TypeOK, NEW i \in DOMAIN detectors, Ready(i)
    PROVE  /\ Interval[detectors[i]] \in Time
           /\ Ttl[detectors[i]] \in Time
           /\ Cost[detectors[i]] \in {"Low", "Medium", "High"}
           /\ \A d \in Detector : Cost[d] # "Low" => Backoffs[Cost[d]] \in Nat
           /\ [runtime[i] EXCEPT !.lastRun = now] \in Runtime
           /\ [runtime[i] EXCEPT !.lastRun = now, !.disabled = TRUE] \in Runtime
    <1>1. /\ detectors[i] \in Detector \ NoRate
          /\ runtime[i] \in Runtime /\ now \in Time
        BY Parallel DEF Ready, Panics
    <1>2. \A d \in Detector : Cost[d] # "Low" => Backoffs[Cost[d]] \in Nat
        BY SchedulerAssumption DEF Backoffs
    <1> QED
        BY <1>1, <1>2, SchedulerAssumption DEF Runtime

\* An overrun leaves a runtime too, with the last run of the others.
LEMMA BackoffFacts ==
    ASSUME TypeOK, NEW d \in Detector, NEW r \in Runtime
    PROVE  /\ Backoff(d, r) \in Runtime
           /\ Backoff(d, r).lastRun = r.lastRun
           /\ Backoff(d, r).disabled = r.disabled
           /\ Cost[d] # "Low" => Backoff(d, r).backoffUntil = now + Backoffs[Cost[d]]
    <1>1. now \in Nat
        BY Parallel, U64Assumption DEF Time
    <1>2. Cost[d] # "Low" => Backoffs[Cost[d]] \in Nat
        BY SchedulerAssumption DEF Backoffs
    <1>3. CASE Cost[d] = "Low"
        BY <1>3 DEF Backoff
    <1>4. CASE Cost[d] # "Low"
        <2>1. now + Backoffs[Cost[d]] \in Nat
            BY <1>1, <1>2, <1>4
        <2>2. Backoff(d, r) = [r EXCEPT !.backoffUntil = now + Backoffs[Cost[d]]]
            BY <1>4 DEF Backoff
        <2> QED
            BY <2>1, <2>2 DEF Runtime
    <1> QED
        BY <1>3, <1>4

LEMMA TypeInit == Init => TypeOK
    <1> SUFFICES ASSUME Init PROVE TypeOK
        OBVIOUS
    <1>1. detectors \in Seq(Detector) /\ Len(detectors) \in Nat
        BY SchedulerAssumption DEF Init
    <1>2. 0 \in Time
        BY U64Assumption DEF Time
    <1>3. NewRuntime(0) \in Runtime /\ NewHistory(0) \in History
        BY <1>2 DEF NewRuntime, NewHistory, Runtime, History
    <1>4. /\ runtime \in Seq(Runtime) /\ Len(runtime) = Len(detectors)
          /\ hist \in Seq(History) /\ Len(hist) = Len(detectors)
        BY <1>1, <1>3, ForEachFacts DEF Init
    <1>5. store \in Stores
        BY <1>2 DEF Init, Stores, EmptyStore, EmptySlot, Slot
    <1>6. machines \in [EventDef -> MachineState]
        BY <1>2 DEF Init, MachineState, Idle
    <1>7. next \in Poisoned .. Len(detectors) + 1
        BY <1>1 DEF Init, Poisoned
    <1>8. /\ lastOk \in [SignalType -> Time \cup {-1}]
          /\ lastFired \in [EventDef -> Time \cup {-1}]
        BY DEF Init
    <1>9. clock \in Time /\ now \in 0 .. clock
        BY <1>2 DEF Init
    <1>10. hasFrame \in BOOLEAN
        BY DEF Init
    <1> QED
        BY <1>1, <1>4, <1>5, <1>6, <1>7, <1>8, <1>9, <1>10 DEF TypeOK

LEMMA TypeRunFailed ==
    ASSUME TypeOK, NEW i \in DOMAIN detectors, NEW took \in 0 .. MaxTook,
           RunFailed(i, took)
    PROVE  TypeOK'
    <1> DEFINE r == [runtime[i] EXCEPT !.lastRun = now, !.disabled = TRUE]
               h == [at |-> now, failed |-> TRUE, over |-> FALSE]
    <1>1. r \in Runtime /\ h \in History
        BY RunFacts, Parallel DEF RunFailed, History
    <1>2. runtime' = [runtime EXCEPT ![i] = r] /\ hist' = [hist EXCEPT ![i] = h]
        BY DEF RunFailed
    <1>3. /\ runtime' \in Seq(Runtime) /\ Len(runtime') = Len(runtime)
          /\ hist' \in Seq(History) /\ Len(hist') = Len(hist)
        <2> HIDE DEF r, h
        <2> QED
            BY <1>1, <1>2, Parallel, UpdatedFacts DEF TypeOK
    <1>4. clock' \in Time /\ now' \in 0 .. clock'
        BY SchedulerAssumption, U64Assumption DEF TypeOK, RunFailed, Takes, Time
    <1>5. next' \in Poisoned .. Len(detectors) + 1
        BY Parallel DEF RunFailed, Poisoned
    <1> QED
        BY <1>3, <1>4, <1>5 DEF TypeOK, RunFailed

\* What a successful run leaves in the sequences and in the store.
LEMMA RunOkFacts ==
    ASSUME TypeOK, NEW i \in DOMAIN detectors, NEW took \in 0 .. MaxTook,
           NEW sigs \in Outputs(detectors[i]), NEW ts \in Stamps,
           RunOk(i, took, sigs, ts)
    PROVE  /\ runtime' \in Seq(Runtime) /\ Len(runtime') = Len(runtime)
           /\ runtime'[i].lastRun = now
           /\ (Overran(detectors[i], took) /\ Cost[detectors[i]] # "Low") =>
                 runtime'[i].backoffUntil = now + Backoffs[Cost[detectors[i]]]
           /\ hist' \in Seq(History) /\ Len(hist') = Len(hist)
           /\ hist'[i] = [at |-> now, failed |-> FALSE,
                          over |-> Overran(detectors[i], took)]
           /\ \A j \in DOMAIN detectors :
                 j # i => runtime'[j] = runtime[j] /\ hist'[j] = hist[j]
           /\ store' \in Stores
           /\ \A s \in SignalType :
                 \/ store'[s] = store[s] /\ lastOk'[s] = lastOk[s]
                 \/ /\ s \in Emits[detectors[i]]
                    /\ store'[s].ttl = Ttl[detectors[i]]
                    /\ store'[s].ts <= now
                    /\ lastOk'[s] = now
    <1> DEFINE d == detectors[i]
               ran == [runtime[i] EXCEPT !.lastRun = now]
               r == IF Overran(d, took) THEN Backoff(d, ran) ELSE ran
               h == [at |-> now, failed |-> FALSE, over |-> Overran(d, took)]
    <1>1. /\ d \in Detector /\ now \in Time /\ Ready(i)
          /\ runtime[i] \in Runtime
        BY Parallel DEF RunOk
    <1>2. ran \in Runtime
        BY <1>1, RunFacts
    <1>0. Overran(d, took) \in BOOLEAN
        BY DEF Overran
    <1>3. ran.lastRun = now
        BY <1>1 DEF Runtime
    <1>4. h \in History
        BY <1>0, <1>1 DEF History
    <1>5. /\ r \in Runtime /\ r.lastRun = now
          /\ (Overran(d, took) /\ Cost[d] # "Low") =>
                r.backoffUntil = now + Backoffs[Cost[d]]
        <2> HIDE DEF ran, d
        <2> QED
            BY <1>1, <1>2, <1>3, BackoffFacts
    <1>6. runtime' = [runtime EXCEPT ![i] = r] /\ hist' = [hist EXCEPT ![i] = h]
        BY DEF RunOk
    <1>7. \A s \in DOMAIN sigs : s \in Emits[d] /\ sigs[s] \in Value
        BY DEF Outputs
    <1>8. ts \in Time /\ ts <= now
        BY <1>1, TimeFacts, SchedulerAssumption DEF Stamps
    <1>9. \A s \in SignalType : IF s \in DOMAIN sigs
             THEN store'[s] = [value |-> sigs[s], ts |-> ts, ttl |-> Ttl[d]]
                  /\ lastOk'[s] = now
             ELSE store'[s] = store[s] /\ lastOk'[s] = lastOk[s]
        BY DEF RunOk
    <1>10. \A s \in SignalType : store'[s] \in Slot
        <2> SUFFICES ASSUME NEW s \in SignalType PROVE store'[s] \in Slot
            OBVIOUS
        <2>1. CASE s \in DOMAIN sigs
            <3>1. sigs[s] \in Nat /\ Ttl[d] \in Time
                BY <1>1, <1>7, <2>1, SchedulerAssumption
            <3>2. store'[s] = [value |-> sigs[s], ts |-> ts, ttl |-> Ttl[d]]
                BY <1>9, <2>1
            <3> QED
                BY <1>8, <3>1, <3>2 DEF Slot
        <2>2. CASE s \notin DOMAIN sigs
            BY <1>9, <2>2 DEF TypeOK, Stores
        <2> QED
            BY <2>1, <2>2
    <1>11. store' \in Stores
        BY <1>10 DEF RunOk, Stores
    <1>12. \A s \in SignalType :
              \/ store'[s] = store[s] /\ lastOk'[s] = lastOk[s]
              \/ /\ s \in Emits[d] /\ store'[s].ttl = Ttl[d]
                 /\ store'[s].ts <= now /\ lastOk'[s] = now
        <2> SUFFICES ASSUME NEW s \in SignalType
                     PROVE  \/ store'[s] = store[s] /\ lastOk'[s] = lastOk[s]
                            \/ /\ s \in Emits[d] /\ store'[s].ttl = Ttl[d]
                               /\ store'[s].ts <= now /\ lastOk'[s] = now
            OBVIOUS
        <2>1. CASE s \in DOMAIN sigs
            <3>1. /\ store'[s] = [value |-> sigs[s], ts |-> ts, ttl |-> Ttl[d]]
                  /\ lastOk'[s] = now
                BY <1>9, <2>1
            <3>2. store'[s].ttl = Ttl[d] /\ store'[s].ts = ts
                BY <3>1
            <3> QED
                BY <1>7, <1>8, <2>1, <3>1, <3>2
        <2>2. CASE s \notin DOMAIN sigs
            BY <1>9, <2>2
        <2> QED
            BY <2>1, <2>2
    <1>13. /\ runtime' \in Seq(Runtime) /\ Len(runtime') = Len(runtime)
           /\ hist' \in Seq(History) /\ Len(hist') = Len(hist)
           /\ runtime'[i] = r /\ hist'[i] = h
           /\ \A j \in DOMAIN detectors :
                 j # i => runtime'[j] = runtime[j] /\ hist'[j] = hist[j]
        <2> HIDE DEF r, h
        <2> QED
            BY <1>4, <1>5, <1>6, Parallel, UpdatedFacts DEF TypeOK
    <1> QED
        BY <1>5, <1>11, <1>12, <1>13

\* Between ticks: a detector, with its runtime, comes in last.
LEMMA AddFacts ==
    ASSUME TypeOK, NEW d \in Detector, AddDetector(d)
    PROVE  /\ detectors' \in Seq(Detector)
           /\ runtime' \in Seq(Runtime) /\ hist' \in Seq(History)
           /\ Len(detectors') = Len(detectors) + 1
           /\ Len(runtime') = Len(detectors') /\ Len(hist') = Len(detectors')
           /\ DOMAIN detectors' = DOMAIN detectors \cup {Len(detectors) + 1}
           /\ runtime'[Len(detectors) + 1] = NewRuntime(clock)
           /\ hist'[Len(detectors) + 1] = NewHistory(clock)
           /\ \A i \in DOMAIN detectors :
                 /\ detectors'[i] = detectors[i]
                 /\ runtime'[i] = runtime[i]
                 /\ hist'[i] = hist[i]
    <1>1. NewRuntime(clock) \in Runtime /\ NewHistory(clock) \in History
        BY Parallel DEF NewRuntime, NewHistory, Runtime, History
    <1>2. /\ detectors \in Seq(Detector) /\ runtime \in Seq(Runtime)
          /\ hist \in Seq(History)
          /\ Len(runtime) = Len(detectors) /\ Len(hist) = Len(detectors)
        BY DEF TypeOK
    <1>3. /\ detectors' = Append(detectors, d)
          /\ runtime' = Append(runtime, NewRuntime(clock))
          /\ hist' = Append(hist, NewHistory(clock))
        BY DEF AddDetector
    <1> QED
        BY <1>1, <1>2, <1>3, AppendFacts

\* Between ticks: everything new, in a configuration's order.
LEMMA SwapFacts ==
    ASSUME TypeOK, NEW config \in Configs, SwapRuntime(config)
    PROVE  /\ detectors' \in Seq(Detector) /\ Len(detectors') \in Nat
           /\ runtime' \in Seq(Runtime) /\ hist' \in Seq(History)
           /\ Len(runtime') = Len(detectors') /\ Len(hist') = Len(detectors')
           /\ \A i \in DOMAIN detectors' :
                 runtime'[i] = NewRuntime(clock) /\ hist'[i] = NewHistory(clock)
    <1>1. NewRuntime(clock) \in Runtime /\ NewHistory(clock) \in History
        BY Parallel DEF NewRuntime, NewHistory, Runtime, History
    <1>2. config \in Seq(Detector) /\ Len(config) \in Nat
        BY SchedulerAssumption
    <1>3. /\ detectors' = config
          /\ runtime' = [i \in DOMAIN config |-> NewRuntime(clock)]
          /\ hist' = [i \in DOMAIN config |-> NewHistory(clock)]
        BY DEF SwapRuntime
    <1> QED
        BY <1>1, <1>2, <1>3, ForEachFacts

\* One evaluation of a machine leaves a machine.
LEMMA MachineFacts ==
    ASSUME TypeOK, NEW e \in EventDef
    PROVE  AfterUpdate(e, machines[e], Met(e), now) \in MachineState
    <1>1. machines[e] \in MachineState /\ now \in Time /\ Cooldown[e] \in Time
        BY Parallel, DefAssumption DEF TypeOK
    <1>2. SatAdd(now, Cooldown[e]) \in Time /\ 0 \in Time
        BY <1>1, U64Assumption DEF SatAdd, Time
    <1> QED
        BY <1>1, <1>2 DEF AfterUpdate, MachineState, CooldownUntil, PotentialFrom, Idle

LEMMA TypeStep == TypeOK /\ [Next]_vars => TypeOK'
    <1> SUFFICES ASSUME TypeOK, [Next]_vars PROVE TypeOK'
        OBVIOUS
    <1> USE DEF Poisoned
    <1>1. CASE Sleep
        BY <1>1, U64Assumption DEF TypeOK, Sleep, Time
    <1>2. CASE BeginTick
        <2>1. now' \in 0 .. clock /\ next' \in Poisoned .. Len(detectors) + 1
            BY <1>2, Parallel, U64Assumption DEF BeginTick, Time
        <2>2. hasFrame' \in BOOLEAN
            BY <1>2 DEF BeginTick, TypeOK
        <2> QED
            BY <1>2, <2>1, <2>2 DEF TypeOK, BeginTick
    <1>3. ASSUME NEW i \in DOMAIN detectors, Panic(i) PROVE TypeOK'
        <2>1. next' \in Poisoned .. Len(detectors) + 1
            BY <1>3, Parallel DEF Panic
        <2> QED
            BY <1>3, <2>1 DEF TypeOK, Panic
    <1>4. ASSUME NEW i \in DOMAIN detectors, Skip(i) PROVE TypeOK'
        <2>1. next' \in Poisoned .. Len(detectors) + 1
            BY <1>4, Parallel DEF Skip
        <2> QED
            BY <1>4, <2>1 DEF TypeOK, Skip
    <1>5. ASSUME NEW i \in DOMAIN detectors, NEW took \in 0 .. MaxTook,
                 RunFailed(i, took)
          PROVE  TypeOK'
        BY <1>5, TypeRunFailed
    <1>6. ASSUME NEW i \in DOMAIN detectors, NEW took \in 0 .. MaxTook,
                 NEW sigs \in Outputs(detectors[i]), NEW ts \in Stamps,
                 RunOk(i, took, sigs, ts)
          PROVE  TypeOK'
        <2>1. /\ runtime' \in Seq(Runtime) /\ Len(runtime') = Len(runtime)
              /\ hist' \in Seq(History) /\ Len(hist') = Len(hist)
              /\ store' \in Stores
            BY <1>6, RunOkFacts
        <2>2. clock' \in Time /\ now' \in 0 .. clock'
            BY <1>6, SchedulerAssumption, U64Assumption DEF TypeOK, RunOk, Takes, Time
        <2>3. next' \in Poisoned .. Len(detectors) + 1
            BY <1>6, Parallel DEF RunOk
        <2>4. lastOk' \in [SignalType -> Time \cup {-1}]
            <3>1. now \in Time
                BY Parallel
            <3> QED
                BY <1>6, <3>1 DEF RunOk, TypeOK
        <2> QED
            BY <1>6, <2>1, <2>2, <2>3, <2>4 DEF TypeOK, RunOk
    <1>7. CASE EvaluateEvents
        <2>1. machines' \in [EventDef -> MachineState]
            BY <1>7, MachineFacts DEF EvaluateEvents
        <2>2. lastFired' \in [EventDef -> Time \cup {-1}]
            <3>1. now \in Time
                BY Parallel
            <3> QED
                BY <1>7, <3>1 DEF EvaluateEvents, TypeOK
        <2>3. next' \in Poisoned .. Len(detectors) + 1
            BY <1>7, Parallel DEF EvaluateEvents
        <2> QED
            BY <1>7, <2>1, <2>2, <2>3 DEF TypeOK, EvaluateEvents
    <1>8. ASSUME NEW d \in Detector, AddDetector(d) PROVE TypeOK'
        <2>1. next' \in Poisoned .. Len(detectors') + 1
            BY <1>8, AddFacts, Parallel DEF AddDetector
        <2> QED
            BY <1>8, <2>1, AddFacts DEF TypeOK, AddDetector
    <1>9. ASSUME NEW config \in Configs, SwapRuntime(config) PROVE TypeOK'
        <2>1. next' \in Poisoned .. Len(detectors') + 1
            BY <1>9, SwapFacts DEF SwapRuntime
        <2>2. machines' \in [EventDef -> MachineState]
            <3>1. Idle \in MachineState
                BY U64Assumption DEF Idle, MachineState, Time
            <3> QED
                BY <1>9, <3>1 DEF SwapRuntime
        <2> QED
            BY <1>9, <2>1, <2>2, SwapFacts DEF TypeOK, SwapRuntime
    <1>10. CASE UNCHANGED vars
        BY <1>10 DEF TypeOK, vars
    <1> QED
        BY <1>1, <1>2, <1>3, <1>4, <1>5, <1>6, <1>7, <1>8, <1>9, <1>10
        DEF Next, Tick, Visit, Run

\* Every variable keeps its type, for all constants: the runtimes stay one per
\* detector through additions and reloads, and a tick stays within its list.
THEOREM TypeCorrect == Spec => []TypeOK
    BY TypeInit, TypeStep, PTL DEF Spec

-----------------------------------------------------------------------------
(* RuntimeKept and SlotsKept are inductive, given the types. *)

LEMMA KeptInit == Init => RuntimeKept /\ SlotsKept
    <1> SUFFICES ASSUME Init PROVE RuntimeKept /\ SlotsKept
        OBVIOUS
    <1>1. ASSUME NEW i \in DOMAIN detectors
          PROVE  runtime[i] = NewRuntime(0) /\ hist[i] = NewHistory(0)
        BY DEF Init
    <1>2. RuntimeKept
        BY <1>1 DEF RuntimeKept, NewRuntime, NewHistory, Init
    <1>3. SlotsKept
        BY DEF SlotsKept, Init, EmptyStore
    <1> QED
        BY <1>2, <1>3

\* A detector that runs now leaves a runtime and a history that agree.
LEMMA RuntimeRun ==
    ASSUME TypeOK, RuntimeKept, NEW i \in DOMAIN detectors,
           detectors' = detectors, now' = now, clock' >= clock,
           runtime'[i].lastRun = now, hist'[i].at = now,
           hist'[i].failed => runtime'[i].disabled,
           (hist'[i].over /\ Cost[detectors[i]] # "Low") =>
              runtime'[i].backoffUntil >= now + Backoffs[Cost[detectors[i]]],
           next >= 1, next' >= 1, clock' \in Time,
           \A j \in DOMAIN detectors :
              j # i => runtime'[j] = runtime[j] /\ hist'[j] = hist[j]
    PROVE  RuntimeKept'
    <1> SUFFICES ASSUME NEW j \in DOMAIN detectors
                 PROVE  /\ hist'[j].at = runtime'[j].lastRun
                        /\ runtime'[j].lastRun <= clock'
                        /\ runtime'[j].lastRun <= now'
                        /\ hist'[j].failed => runtime'[j].disabled
                        /\ (hist'[j].over /\ Cost[detectors[j]] # "Low") =>
                              runtime'[j].backoffUntil >=
                                  hist'[j].at + Backoffs[Cost[detectors[j]]]
        BY DEF RuntimeKept
    <1>1. /\ runtime[j].lastRun \in Time /\ now \in Time /\ now <= clock
          /\ clock \in Time
        BY Parallel DEF Runtime
    <1>2. CASE j = i
        BY <1>1, <1>2, U64Assumption DEF Time
    <1>3. CASE j # i
        BY <1>1, <1>3, U64Assumption DEF Time, RuntimeKept
    <1> QED
        BY <1>2, <1>3

LEMMA RuntimeStep == TypeOK /\ RuntimeKept /\ [Next]_vars => RuntimeKept'
    <1> SUFFICES ASSUME TypeOK, RuntimeKept, [Next]_vars PROVE RuntimeKept'
        OBVIOUS
    <1>0. /\ clock \in Nat /\ now \in Nat /\ now <= clock
          /\ \A i \in DOMAIN detectors : runtime[i].lastRun \in Nat
        BY Parallel, U64Assumption DEF Runtime, Time
    <1>1. CASE Sleep
        BY <1>0, <1>1 DEF Sleep, RuntimeKept
    <1>2. CASE BeginTick
        BY <1>0, <1>2 DEF BeginTick, RuntimeKept
    <1>3. ASSUME NEW i \in DOMAIN detectors, Panic(i) \/ Skip(i)
          PROVE  RuntimeKept'
        <2>1. /\ next >= 1 /\ now' = now /\ clock' = clock
              /\ detectors' = detectors /\ runtime' = runtime /\ hist' = hist
            BY <1>3, Parallel DEF Panic, Skip
        <2> QED
            BY <2>1 DEF RuntimeKept
    <1>4. ASSUME NEW i \in DOMAIN detectors, NEW took \in 0 .. MaxTook,
                 RunFailed(i, took)
          PROVE  RuntimeKept'
        <2>1. runtime[i] \in Runtime /\ hist[i] \in History
            BY Parallel
        <2>2. /\ runtime'[i] = [runtime[i] EXCEPT !.lastRun = now, !.disabled = TRUE]
              /\ hist'[i] = [at |-> now, failed |-> TRUE, over |-> FALSE]
              /\ \A j \in DOMAIN detectors :
                    j # i => runtime'[j] = runtime[j] /\ hist'[j] = hist[j]
            BY <1>4, Parallel DEF RunFailed
        <2>3. runtime'[i].lastRun = now /\ runtime'[i].disabled
            BY <2>1, <2>2 DEF Runtime
        <2>4. /\ detectors' = detectors /\ now' = now
              /\ next >= 1 /\ next' >= 1
            BY <1>4, Parallel DEF RunFailed
        <2>5. clock' >= clock /\ clock' \in Time
            BY <1>0, <1>4, SchedulerAssumption, U64Assumption
            DEF RunFailed, Takes, Time
        <2>6. /\ hist'[i].at = now /\ ~hist'[i].over
              /\ hist'[i].failed => runtime'[i].disabled
            BY <2>2, <2>3
        <2> QED
            BY <2>2, <2>3, <2>4, <2>5, <2>6, RuntimeRun
    <1>5. ASSUME NEW i \in DOMAIN detectors, NEW took \in 0 .. MaxTook,
                 NEW sigs \in Outputs(detectors[i]), NEW ts \in Stamps,
                 RunOk(i, took, sigs, ts)
          PROVE  RuntimeKept'
        <2>1. /\ runtime'[i].lastRun = now
              /\ (Overran(detectors[i], took) /\ Cost[detectors[i]] # "Low") =>
                    runtime'[i].backoffUntil = now + Backoffs[Cost[detectors[i]]]
              /\ hist'[i] = [at |-> now, failed |-> FALSE,
                             over |-> Overran(detectors[i], took)]
              /\ \A j \in DOMAIN detectors :
                    j # i => runtime'[j] = runtime[j] /\ hist'[j] = hist[j]
            BY <1>5, RunOkFacts
        <2>2. /\ hist'[i].at = now /\ ~hist'[i].failed
              /\ hist'[i].over = Overran(detectors[i], took)
            BY <2>1
        <2>3. /\ detectors' = detectors /\ now' = now
              /\ next >= 1 /\ next' >= 1
            BY <1>5, Parallel DEF RunOk
        <2>4. clock' >= clock /\ clock' \in Time
            BY <1>0, <1>5, SchedulerAssumption, U64Assumption
            DEF RunOk, Takes, Time
        <2>5. Cost[detectors[i]] # "Low" => Backoffs[Cost[detectors[i]]] \in Nat
            BY <1>5, RunFacts, Parallel DEF RunOk
        <2>6. (hist'[i].over /\ Cost[detectors[i]] # "Low") =>
                 runtime'[i].backoffUntil >= now + Backoffs[Cost[detectors[i]]]
            BY <1>0, <2>1, <2>2, <2>5
        <2> QED
            BY <2>1, <2>2, <2>3, <2>4, <2>6, RuntimeRun
    <1>6. CASE EvaluateEvents
        BY <1>0, <1>6, Parallel DEF EvaluateEvents, RuntimeKept
    <1>7. ASSUME NEW d \in Detector, AddDetector(d) PROVE RuntimeKept'
        <2>0. next' = 0 /\ clock' = clock
            BY <1>7 DEF AddDetector
        <2> SUFFICES ASSUME NEW i \in DOMAIN detectors'
                     PROVE  /\ hist'[i].at = runtime'[i].lastRun
                            /\ runtime'[i].lastRun <= clock
                            /\ hist'[i].failed => runtime'[i].disabled
                            /\ (hist'[i].over /\ Cost[detectors'[i]] # "Low") =>
                                  runtime'[i].backoffUntil >=
                                      hist'[i].at + Backoffs[Cost[detectors'[i]]]
            BY <2>0 DEF RuntimeKept
        <2>1. CASE i \in DOMAIN detectors
            BY <1>7, <2>1, AddFacts DEF RuntimeKept
        <2>2. CASE i = Len(detectors) + 1
            BY <1>0, <1>7, <2>2, AddFacts DEF NewRuntime, NewHistory
        <2> QED
            BY <1>7, <2>1, <2>2, AddFacts
    <1>8. ASSUME NEW config \in Configs, SwapRuntime(config) PROVE RuntimeKept'
        <2>1. \A i \in DOMAIN detectors' :
                 runtime'[i] = NewRuntime(clock) /\ hist'[i] = NewHistory(clock)
            BY <1>8, SwapFacts
        <2>2. next' = 0 /\ clock' = clock
            BY <1>8 DEF SwapRuntime
        <2> QED
            BY <1>0, <2>1, <2>2 DEF RuntimeKept, NewRuntime, NewHistory
    <1>9. CASE UNCHANGED vars
        BY <1>9 DEF RuntimeKept, vars
    <1> QED
        BY <1>1, <1>2, <1>3, <1>4, <1>5, <1>6, <1>7, <1>8, <1>9
        DEF Next, Tick, Visit, Run

LEMMA SlotsStep == TypeOK /\ SlotsKept /\ [Next]_vars => SlotsKept'
    <1> SUFFICES ASSUME TypeOK, SlotsKept, [Next]_vars PROVE SlotsKept'
        OBVIOUS
    <1>1. ASSUME NEW i \in DOMAIN detectors, NEW took \in 0 .. MaxTook,
                 NEW sigs \in Outputs(detectors[i]), NEW ts \in Stamps,
                 RunOk(i, took, sigs, ts)
          PROVE  SlotsKept'
        <2> SUFFICES ASSUME NEW s \in SignalType
                     PROVE  IF lastOk'[s] = -1 THEN store'[s] = EmptySlot
                            ELSE \E d \in Detector : /\ s \in Emits[d]
                                                     /\ store'[s].ttl = Ttl[d]
                                                     /\ store'[s].ts <= lastOk'[s]
            BY DEF SlotsKept
        <2>1. CASE store'[s] = store[s] /\ lastOk'[s] = lastOk[s]
            BY <2>1 DEF SlotsKept
        <2>2. CASE /\ s \in Emits[detectors[i]]
                   /\ store'[s].ttl = Ttl[detectors[i]]
                   /\ store'[s].ts <= now
                   /\ lastOk'[s] = now
            <3>1. now # -1 /\ detectors[i] \in Detector
                BY Parallel, U64Assumption DEF Time
            <3> QED
                BY <2>2, <3>1
        <2> QED
            BY <1>1, <2>1, <2>2, RunOkFacts
    <1>2. CASE store' = store /\ lastOk' = lastOk
        BY <1>2 DEF SlotsKept
    <1>3. CASE Sleep \/ BeginTick \/ EvaluateEvents \/ UNCHANGED vars
        BY <1>2, <1>3 DEF Sleep, BeginTick, EvaluateEvents, vars
    <1>4. ASSUME NEW i \in DOMAIN detectors, Panic(i) \/ Skip(i)
          PROVE  SlotsKept'
        BY <1>2, <1>4 DEF Panic, Skip
    <1>5. ASSUME NEW i \in DOMAIN detectors, NEW took \in 0 .. MaxTook,
                 RunFailed(i, took)
          PROVE  SlotsKept'
        BY <1>2, <1>5 DEF RunFailed
    <1>6. ASSUME NEW d \in Detector, AddDetector(d) PROVE SlotsKept'
        BY <1>2, <1>6 DEF AddDetector
    <1>7. ASSUME NEW config \in Configs, SwapRuntime(config) PROVE SlotsKept'
        BY <1>2, <1>7 DEF SwapRuntime
    <1> QED
        BY <1>1, <1>3, <1>4, <1>5, <1>6, <1>7 DEF Next, Tick, Visit, Run

LEMMA Inductive == Spec => []IInv
    <1>1. Init => IInv
        BY TypeInit, KeptInit DEF IInv
    <1>2. IInv /\ [Next]_vars => IInv'
        BY TypeStep, RuntimeStep, SlotsStep DEF IInv
    <1> QED
        BY <1>1, <1>2, PTL DEF Spec

-----------------------------------------------------------------------------
(* The theorems *)

\* A detector runs at most every Interval, counted from tick to tick and from
\* its installation (scheduler.rs:163-167, 216, 88).
THEOREM RateCappedHolds == Spec => RateCapped
    <1>1. IInv /\ [Next]_vars =>
             [\A i \in DOMAIN detectors :
                 Executes(i) => now - hist[i].at >= Interval[detectors[i]]]_vars
        <2> SUFFICES ASSUME IInv, NEW i \in DOMAIN detectors, Executes(i)
                     PROVE  now - hist[i].at >= Interval[detectors[i]]
            OBVIOUS
        <2>1. next = i /\ Ready(i)
            BY DEF Executes, Run, RunFailed, RunOk
        <2>2. SatSub(now, runtime[i].lastRun) >= Interval[detectors[i]]
            BY <2>1 DEF Ready
        <2>3. TypeOK
            BY DEF IInv
        <2>4. next >= 1
            BY <2>1, <2>3, Parallel
        <2>5. hist[i].at = runtime[i].lastRun /\ runtime[i].lastRun <= now
            BY <2>4 DEF IInv, RuntimeKept
        <2>6. now \in Time /\ runtime[i].lastRun \in Nat
            BY <2>3, Parallel, U64Assumption DEF Runtime, Time
        <2> QED
            BY <2>2, <2>5, <2>6, TimeFacts, U64Assumption DEF Time
    <1> QED
        BY <1>1, Inductive, PTL DEF RateCapped, Spec

\* A detector that failed or panicked never runs again
\* (scheduler.rs:157, 219-223).
THEOREM StaysDisabledHolds == Spec => StaysDisabled
    <1>1. IInv /\ [Next]_vars =>
             [\A i \in DOMAIN detectors : Executes(i) => ~hist[i].failed]_vars
        <2> SUFFICES ASSUME IInv, NEW i \in DOMAIN detectors, Executes(i)
                     PROVE  ~hist[i].failed
            OBVIOUS
        <2>1. Ready(i)
            BY DEF Executes, Run, RunFailed, RunOk
        <2>2. ~runtime[i].disabled
            BY <2>1 DEF Ready
        <2> QED
            BY <2>2 DEF IInv, RuntimeKept
    <1> QED
        BY <1>1, Inductive, PTL DEF StaysDisabled, Spec

\* After an overrun a medium or high cost detector sits out its backoff
\* (scheduler.rs:170, 226-229).
THEOREM BackoffHonouredHolds == Spec => BackoffHonoured
    <1>1. IInv /\ [Next]_vars =>
             [\A i \in DOMAIN detectors :
                 (/\ Executes(i)
                  /\ hist[i].over
                  /\ Cost[detectors[i]] # "Low")
                 => now >= hist[i].at + Backoffs[Cost[detectors[i]]]]_vars
        <2> SUFFICES ASSUME IInv, NEW i \in DOMAIN detectors, Executes(i),
                            hist[i].over, Cost[detectors[i]] # "Low"
                     PROVE  now >= hist[i].at + Backoffs[Cost[detectors[i]]]
            OBVIOUS
        <2>1. Ready(i) /\ TypeOK
            BY DEF Executes, Run, RunFailed, RunOk, IInv
        <2>2. ~(now < runtime[i].backoffUntil)
            BY <2>1 DEF Ready, InBackoff
        <2>3. runtime[i].backoffUntil >= hist[i].at + Backoffs[Cost[detectors[i]]]
            BY DEF IInv, RuntimeKept
        <2>4. /\ now \in Nat /\ runtime[i].backoffUntil \in Nat
              /\ hist[i].at \in Nat
            BY <2>1, Parallel, U64Assumption DEF Runtime, History, Time
        <2>5. Backoffs[Cost[detectors[i]]] \in Nat
            BY <2>1, Parallel, RunFacts
        <2> QED
            BY <2>2, <2>3, <2>4, <2>5
    <1> QED
        BY <1>1, Inductive, PTL DEF BackoffHonoured, Spec

\* What events are defined by: every condition has a predicate, and none that
\* a slot holding 0, as one does that was never written, would satisfy.
Discerning ==
    \A e \in EventDef :
        /\ Cond[e].preds # {}
        /\ \A p \in Cond[e].preds : ~Compare(p.op, 0, p.value)

\* A condition that holds has a fresh slot behind it that satisfies a predicate.
LEMMA MetFacts ==
    ASSUME TypeOK, Discerning, NEW e \in EventDef, Met(e)
    PROVE  \E p \in Cond[e].preds :
              /\ p.signal \in SignalType
              /\ PredicateHolds(p, store, now)
              /\ ~Compare(p.op, 0, p.value)
    <1>1. Cond[e] \in Condition
        BY DefAssumption
    <1>2. \A p \in Cond[e].preds : p \in Predicate
        BY <1>1 DEF Condition
    <1>3. \E p \in Cond[e].preds : PredicateHolds(p, store, now)
        BY DEF Met, ConditionHolds, Discerning
    <1> QED
        BY <1>2, <1>3 DEF Discerning, Predicate

\* Where no condition is met by an empty slot, an event fires only while a
\* detector that produced a signal of its condition succeeded within the ttl it
\* stamps: disabled, backed off or removed detectors fall silent
\* (DEVELOPER_GUIDE.md:212).
THEOREM QuietAfterStopHolds ==
    ASSUME Discerning
    PROVE  Spec => QuietAfterStop
    <1>1. IInv /\ [Next]_vars =>
             [\A e \in EventDef :
                 (next = Len(detectors) + 1 /\ next' # next /\ Emitted(e))
                 => \E p \in Cond[e].preds, d \in Detector :
                       /\ p.signal \in Emits[d]
                       /\ lastOk[p.signal] # -1
                       /\ now - lastOk[p.signal] <= Ttl[d]]_vars
        <2> SUFFICES ASSUME IInv, NEW e \in EventDef, Emitted(e)
                     PROVE  \E p \in Cond[e].preds, d \in Detector :
                               /\ p.signal \in Emits[d]
                               /\ lastOk[p.signal] # -1
                               /\ now - lastOk[p.signal] <= Ttl[d]
            OBVIOUS
        <2>1. TypeOK /\ Met(e)
            BY DEF IInv, Emitted, Fires
        <2>2. PICK p \in Cond[e].preds : /\ p.signal \in SignalType
                                         /\ PredicateHolds(p, store, now)
                                         /\ ~Compare(p.op, 0, p.value)
            BY <2>1, MetFacts
        <2>3. lastOk[p.signal] # -1
            <3> SUFFICES ASSUME lastOk[p.signal] = -1 PROVE FALSE
                OBVIOUS
            <3>1. store[p.signal] = EmptySlot
                BY <2>2 DEF IInv, SlotsKept
            <3>2. store[p.signal].value = 0
                BY <3>1 DEF EmptySlot
            <3> QED
                BY <2>2, <3>2 DEF PredicateHolds
        <2>4. PICK d \in Detector : /\ p.signal \in Emits[d]
                                    /\ store[p.signal].ttl = Ttl[d]
                                    /\ store[p.signal].ts <= lastOk[p.signal]
            BY <2>2, <2>3 DEF IInv, SlotsKept
        <2>5. /\ store[p.signal].ts \in Nat /\ Ttl[d] \in Nat
              /\ lastOk[p.signal] \in Nat /\ now \in Nat
            BY <2>1, <2>2, <2>3, Parallel, SchedulerAssumption, U64Assumption
            DEF TypeOK, Stores, Slot, Time
        <2>6. ~(SatAdd(store[p.signal].ts, Ttl[d]) < now) /\ now <= U64Max
            BY <2>1, <2>2, <2>4, Parallel DEF PredicateHolds, Fresh, Time
        <2>7. now <= store[p.signal].ts + Ttl[d]
            BY <2>5, <2>6, U64Assumption DEF SatAdd
        <2> QED
            BY <2>3, <2>4, <2>5, <2>7
    <1> QED
        BY <1>1, Inductive, PTL DEF QuietAfterStop, Spec

=============================================================================
