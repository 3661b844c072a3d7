------------------------- MODULE EventEngineProofs -------------------------
(***************************************************************************)
(* Proofs about EventEngine: for every set of definitions, every duration, *)
(* cooldown, width of the clock and number of updates.                     *)
(*                                                                         *)
(* The argument: Linked says what part of the past each State stands for.  *)
(* It is inductive on its own (with TypeOK), and each safety property then *)
(* follows for the newest sample from Linked and for the older ones from   *)
(* the property itself.                                                    *)
(***************************************************************************)
EXTENDS EventEngine, TLAPS

LEMMA AppendFacts ==
    ASSUME NEW S, NEW s \in Seq(S), NEW e \in S
    PROVE  /\ Append(s, e) \in Seq(S)
           /\ Len(Append(s, e)) = Len(s) + 1
           /\ Len(s) \in Nat
           /\ DOMAIN s = 1 .. Len(s)
           /\ DOMAIN Append(s, e) = 1 .. Len(s) + 1
           /\ \A i \in 1 .. Len(s) : Append(s, e)[i] = s[i] /\ s[i] \in S
           /\ Append(s, e)[Len(s) + 1] = e
    OBVIOUS

LEMMA SatAddFacts ==
    ASSUME NEW a \in Time, NEW b \in Time
    PROVE  /\ SatAdd(a, b) \in Time
           /\ SatAdd(a, b) >= a
    BY U64Assumption DEF SatAdd, Time

\* ASSUME what an update does to one definition, in the terms the proofs use.
LEMMA UpdateOne ==
    ASSUME TypeOK, Update, NEW d \in EventDef
    PROVE  /\ log[d] \in Seq(Sample)
           /\ log'[d] \in Seq(Sample)
           /\ Len(log[d]) \in Nat
           /\ Len(log'[d]) = Len(log[d]) + 1
           /\ DOMAIN log[d] = 1 .. Len(log[d])
           /\ DOMAIN log'[d] = 1 .. Len(log[d]) + 1
           /\ \A i \in 1 .. Len(log[d]) :
                 log'[d][i] = log[d][i] /\ log[d][i] \in Sample
           /\ log'[d][Len(log[d]) + 1] = SampleOf(d)
           /\ SampleOf(d) \in Sample
           /\ SampleOf(d).at = clock
           /\ SampleOf(d).met = Met(d)
           /\ SampleOf(d).fired = Fires(d, state[d], Met(d), clock)
           /\ state'[d] = AfterUpdate(d, state[d], Met(d), clock)
           /\ clock' = clock
    <1>1. Met(d) \in BOOLEAN
        BY DEF Met, ConditionHolds
    <1>2. Fires(d, state[d], Met(d), clock) \in BOOLEAN
        BY DEF Fires
    <1>3. SampleOf(d) \in Sample
        BY <1>1, <1>2 DEF SampleOf, Sample, TypeOK
    <1>4. log'[d] = Append(log[d], SampleOf(d))
        BY DEF Update, TypeOK
    <1>5. log[d] \in Seq(Sample)
        BY DEF TypeOK
    <1> QED
        BY <1>3, <1>4, <1>5, AppendFacts DEF Update, TypeOK, SampleOf

LEMMA TypeInit == Init => TypeOK
    BY U64Assumption, DefAssumption
    DEF Init, TypeOK, Time, Stores, EmptyStore, EmptySlot, Slot, MachineState, Idle

LEMMA TypeStep == TypeOK /\ [Next]_vars => TypeOK'
    <1> SUFFICES ASSUME TypeOK, [Next]_vars PROVE TypeOK'
        OBVIOUS
    <1>1. CASE Advance
        BY <1>1, U64Assumption DEF TypeOK, Advance, Time
    <1>2. ASSUME NEW s \in SignalType, NEW v \in Value, NEW ts \in Time,
                 NEW ttl \in TTL, Write(s, v, ts, ttl)
          PROVE  TypeOK'
        <2>1. [value |-> v, ts |-> ts, ttl |-> ttl] \in Slot
            BY EngineAssumption DEF Slot
        <2>2. store' \in Stores
            BY <1>2, <2>1 DEF TypeOK, Write, Upsert, Stores
        <2> QED
            BY <1>2, <2>2 DEF TypeOK, Write
    <1>3. CASE Update
        <2>1. \A d \in EventDef : state'[d] \in MachineState
            BY <1>3, DefAssumption, U64Assumption
            DEF TypeOK, Update, AfterUpdate, MachineState, CooldownUntil,
                PotentialFrom, Idle, SatAdd, Time
        <2>2. \A d \in EventDef : log'[d] \in Seq(Sample)
            BY <1>3, UpdateOne
        <2>3. state' \in [EventDef -> MachineState]
            BY <1>3, <2>1 DEF Update
        <2>4. log' \in [EventDef -> Seq(Sample)]
            BY <1>3, <2>2 DEF Update
        <2> QED
            BY <1>3, <2>3, <2>4 DEF TypeOK, Update
    <1>4. CASE UNCHANGED vars
        BY <1>4 DEF TypeOK, vars
    <1> QED
        BY <1>1, <1>2, <1>3, <1>4 DEF Next

\* Every variable keeps its type, for all constants.
THEOREM TypeCorrect == Spec => []TypeOK
    BY TypeInit, TypeStep, PTL DEF Spec

-----------------------------------------------------------------------------
(* Linked is inductive. *)

\* The log of a definition and the cooldown ends computed from it.
LEMMA LogFacts ==
    ASSUME TypeOK, NEW d \in EventDef
    PROVE  /\ log[d] \in Seq(Sample)
           /\ Len(log[d]) \in Nat
           /\ DOMAIN log[d] = 1 .. Len(log[d])
           /\ Duration[d] \in Nat
           /\ \A i \in 1 .. Len(log[d]) :
                 /\ log[d][i] \in Sample
                 /\ log[d][i].at \in Time
                 /\ SatAdd(log[d][i].at, Cooldown[d]) \in Time
                 /\ SatAdd(log[d][i].at, Cooldown[d]) >= log[d][i].at
    <1>1. log[d] \in Seq(Sample) /\ Cooldown[d] \in Time /\ Duration[d] \in Time
        BY DefAssumption DEF TypeOK
    <1>2. \A i \in 1 .. Len(log[d]) : log[d][i] \in Sample
        BY <1>1
    <1>3. \A i \in 1 .. Len(log[d]) : log[d][i].at \in Time
        BY <1>2 DEF Sample
    <1>4. \A i \in 1 .. Len(log[d]) :
             /\ SatAdd(log[d][i].at, Cooldown[d]) \in Time
             /\ SatAdd(log[d][i].at, Cooldown[d]) >= log[d][i].at
        BY <1>1, <1>3, SatAddFacts
    <1>5. Duration[d] \in Nat
        BY <1>1, U64Assumption DEF Time
    <1> QED
        BY <1>1, <1>2, <1>3, <1>4, <1>5

\* A machine that is not suppressed has outlived the cooldown of every event.
LEMMA NotSuppressed ==
    ASSUME TypeOK, Linked, NEW d \in EventDef, ~Suppressed(state[d], clock)
    PROVE  CooldownOver(d, log[d], clock, Len(log[d]))
    <1> DEFINE l == log[d]
               n == Len(l)
    <1> SUFFICES CooldownOver(d, l, clock, n)
        OBVIOUS
    <1>1. n = Len(l) /\ n \in Nat /\ clock \in Time
        BY LogFacts DEF TypeOK
    <1>2. \A i \in 1 .. n : /\ l[i].at \in Time /\ l[i].at <= clock
                            /\ SatAdd(l[i].at, Cooldown[d]) \in Time
                            /\ SatAdd(l[i].at, Cooldown[d]) >= l[i].at
        <2>1. InOrder(l)
            BY DEF Linked
        <2> QED
            BY <2>1, LogFacts DEF InOrder
    <1>3. CASE state[d].kind = "Idle"
        <2>1. LinkedIdle(d, l)
            BY <1>3 DEF Linked
        <2> HIDE DEF l, n
        <2> QED
            BY <2>1, <1>1, <1>2 DEF LinkedIdle, CooldownOver, Time
    <1>4. CASE state[d].kind = "Potential"
        <2>1. PICK i \in 1 .. n : RunsFrom(d, l, i)
            BY <1>4 DEF Linked, LinkedPotential
        <2> HIDE DEF l, n
        <2>2. ASSUME NEW k \in 1 .. n, l[k].fired
              PROVE  SatAdd(l[k].at, Cooldown[d]) <= clock
            <3>1. k \in 1 .. i - 1
                BY <2>1, <2>2, <1>1 DEF RunsFrom
            <3>2. SatAdd(l[k].at, Cooldown[d]) <= l[i].at
                BY <3>1, <2>1, <2>2 DEF RunsFrom, CooldownOver
            <3> QED
                BY <3>2, <1>1, <1>2 DEF Time
        <2> QED
            BY <2>2 DEF CooldownOver
    <1>5. CASE state[d].kind = "Cooldown"
        <2>1. state[d].at <= clock
            BY <1>5 DEF Suppressed, TypeOK, MachineState, Time
        <2>2. PICK k \in 1 .. n :
                /\ state[d].at = SatAdd(l[k].at, Cooldown[d])
                /\ CooldownOver(d, l, l[k].at, k - 1)
                /\ \A j \in k + 1 .. n : ~l[j].fired
            BY <1>5 DEF Linked, LinkedCooldown
        <2> HIDE DEF l, n
        <2>3. ASSUME NEW j \in 1 .. n, l[j].fired
              PROVE  SatAdd(l[j].at, Cooldown[d]) <= clock
            <3>1. CASE j = k
                BY <3>1, <2>1, <2>2
            <3>2. CASE j # k
                <4>1. j \in 1 .. k - 1
                    BY <3>2, <2>2, <2>3, <1>1
                <4>2. SatAdd(l[j].at, Cooldown[d]) <= l[k].at
                    BY <4>1, <2>2, <2>3 DEF CooldownOver
                <4> QED
                    BY <4>2, <2>1, <2>2, <1>1, <1>2 DEF Time
            <3> QED
                BY <3>1, <3>2
        <2> QED
            BY <2>3 DEF CooldownOver
    <1> QED
        BY <1>3, <1>4, <1>5 DEF TypeOK, MachineState

\* CooldownOver and RunsFrom look at the past only: a new sample leaves them
\* as they are at the older positions.
LEMMA PastKept ==
    ASSUME TypeOK, Update, NEW d \in EventDef
    PROVE  /\ \A t, n : n \in 0 .. Len(log[d]) =>
                 (CooldownOver(d, log'[d], t, n) <=> CooldownOver(d, log[d], t, n))
           /\ \A i \in 1 .. Len(log[d]) :
                 RunsFrom(d, log'[d], i) <=>
                     /\ RunsFrom(d, log[d], i)
                     /\ SampleOf(d).met /\ ~SampleOf(d).fired
    <1> DEFINE l == log[d]
               L == log'[d]
               n == Len(l)
    <1>1. /\ n \in Nat /\ Len(L) = n + 1 /\ n = Len(l)
          /\ \A i \in 1 .. n : L[i] = l[i]
          /\ L[n + 1] = SampleOf(d)
        BY UpdateOne
    <1>2. \A t, m : m \in 0 .. n =>
              (CooldownOver(d, L, t, m) <=> CooldownOver(d, l, t, m))
        <2> HIDE DEF l, L, n
        <2> QED
            BY <1>1 DEF CooldownOver
    <1>3. \A i \in 1 .. n :
              RunsFrom(d, L, i) <=>
                  RunsFrom(d, l, i) /\ SampleOf(d).met /\ ~SampleOf(d).fired
        <2> HIDE DEF l, L, n
        <2> TAKE i \in 1 .. n
        <2>1. CooldownOver(d, L, L[i].at, i - 1) <=> CooldownOver(d, l, l[i].at, i - 1)
            BY <1>1, <1>2
        <2>2. (\A k \in i .. n + 1 : L[k].met /\ ~L[k].fired) <=>
                  /\ \A k \in i .. n : l[k].met /\ ~l[k].fired
                  /\ SampleOf(d).met /\ ~SampleOf(d).fired
            BY <1>1
        <2> QED
            BY <2>1, <2>2, <1>1 DEF RunsFrom
    <1> QED
        BY <1>2, <1>3

\* The update fires: the machine stands in the cooldown of the new event.
LEMMA LinkedFires ==
    ASSUME TypeOK, Linked, Update, NEW d \in EventDef,
           Fires(d, state[d], Met(d), clock)
    PROVE  LinkedCooldown(d, log'[d], state'[d].at) /\ state'[d].kind = "Cooldown"
    <1> DEFINE L == log'[d]
               n == Len(log[d])
    <1>1. state'[d] = CooldownUntil(SatAdd(clock, Cooldown[d]))
        BY UpdateOne DEF AfterUpdate
    <1>2. n \in Nat /\ Len(L) = n + 1 /\ L[n + 1] = SampleOf(d)
        BY UpdateOne
    <1>3. SampleOf(d).fired /\ SampleOf(d).at = clock
        BY UpdateOne
    <1>4. ~Suppressed(state[d], clock)
        BY DEF Fires, Suppressed
    <1>5. CooldownOver(d, L, clock, n)
        BY <1>4, <1>2, NotSuppressed, PastKept
    <1> HIDE DEF L, n
    <1>6. LinkedCooldown(d, L, SatAdd(clock, Cooldown[d]))
        <2>1. n + 1 \in 1 .. Len(L)
            BY <1>2
        <2>2. CooldownOver(d, L, L[n + 1].at, (n + 1) - 1)
            BY <1>2, <1>3, <1>5
        <2>3. \A j \in (n + 1) + 1 .. Len(L) : FALSE
            BY <1>2
        <2> QED
            BY <2>1, <2>2, <2>3, <1>2, <1>3 DEF LinkedCooldown
    <1> QED
        BY <1>1, <1>6 DEF CooldownUntil, L

\* Inside the cooldown nothing fires and the same event still stands.
LEMMA LinkedSuppressed ==
    ASSUME TypeOK, Linked, Update, NEW d \in EventDef,
           Suppressed(state[d], clock)
    PROVE  LinkedCooldown(d, log'[d], state'[d].at) /\ state'[d].kind = "Cooldown"
    <1> DEFINE l == log[d]
               L == log'[d]
               n == Len(l)
    <1>1. ~Fires(d, state[d], Met(d), clock)
        BY DEF Fires, Suppressed
    <1>2. state'[d] = state[d] /\ state[d].kind = "Cooldown" /\ clock < state[d].at
        BY <1>1, UpdateOne DEF AfterUpdate, Suppressed
    <1>3. /\ n \in Nat /\ n = Len(l) /\ Len(L) = n + 1 /\ L[n + 1] = SampleOf(d)
          /\ \A i \in 1 .. n : L[i] = l[i]
        BY UpdateOne
    <1>4. ~SampleOf(d).fired /\ SampleOf(d).at = clock
        BY <1>1, UpdateOne
    <1>5. PICK k \in 1 .. n :
            /\ l[k].fired
            /\ state[d].at = SatAdd(l[k].at, Cooldown[d])
            /\ CooldownOver(d, l, l[k].at, k - 1)
            /\ \A j \in k + 1 .. n : ~l[j].fired /\ l[j].at < state[d].at
        BY <1>2 DEF Linked, LinkedCooldown
    <1>6. CooldownOver(d, L, L[k].at, k - 1)
        <2>1. L[k] = l[k] /\ k - 1 \in 0 .. n
            BY <1>3
        <2>2. CooldownOver(d, L, l[k].at, k - 1) <=> CooldownOver(d, l, l[k].at, k - 1)
            BY <2>1, PastKept
        <2> QED
            BY <2>1, <2>2, <1>5
    <1> HIDE DEF l, L, n
    <1>7. \A j \in k + 1 .. n + 1 : ~L[j].fired /\ L[j].at < state[d].at
        <2>1. ~L[n + 1].fired /\ L[n + 1].at < state[d].at
            BY <1>2, <1>3, <1>4
        <2>2. \A j \in k + 1 .. n : L[j] = l[j]
            BY <1>3
        <2>3. \A j \in k + 1 .. n : ~L[j].fired /\ L[j].at < state[d].at
            BY <1>5, <2>2
        <2>4. \A j \in k + 1 .. n + 1 : j \in k + 1 .. n \/ j = n + 1
            BY <1>3
        <2> QED
            BY <2>1, <2>3, <2>4
    <1>8. LinkedCooldown(d, L, state[d].at)
        BY <1>3, <1>5, <1>6, <1>7 DEF LinkedCooldown
    <1> QED
        BY <1>2, <1>8 DEF L

\* A sample that does not hold sends an unsuppressed machine to Idle.
LEMMA LinkedReset ==
    ASSUME TypeOK, Linked, Update, NEW d \in EventDef,
           ~Met(d), ~Suppressed(state[d], clock)
    PROVE  LinkedIdle(d, log'[d]) /\ state'[d].kind = "Idle"
    <1> DEFINE L == log'[d]
               n == Len(log[d])
    <1>1. state'[d] = Idle /\ ~Fires(d, state[d], Met(d), clock)
        BY UpdateOne DEF AfterUpdate, Fires
    <1>2. /\ n \in Nat /\ Len(L) = n + 1 /\ L[n + 1] = SampleOf(d)
          /\ ~SampleOf(d).met /\ ~SampleOf(d).fired /\ SampleOf(d).at = clock
        BY <1>1, UpdateOne
    <1>3. CooldownOver(d, L, clock, n)
        BY <1>2, NotSuppressed, PastKept
    <1> HIDE DEF L, n
    <1>4. CooldownOver(d, L, clock, n + 1)
        BY <1>2, <1>3 DEF CooldownOver
    <1> QED
        BY <1>1, <1>2, <1>4 DEF LinkedIdle, Idle, L

\* A run that is not long enough yet goes on from where it began.
LEMMA LinkedRunning ==
    ASSUME TypeOK, Linked, Update, NEW d \in EventDef, Met(d),
           state[d].kind = "Potential", ~Fires(d, state[d], Met(d), clock)
    PROVE  LinkedPotential(d, log'[d], state'[d].at) /\ state'[d].kind = "Potential"
    <1> DEFINE l == log[d]
               L == log'[d]
               n == Len(l)
    <1>1. state'[d] = state[d]
        BY UpdateOne DEF AfterUpdate
    <1>2. /\ n \in Nat /\ Len(L) = n + 1 /\ L[n + 1] = SampleOf(d)
          /\ \A i \in 1 .. n : L[i] = l[i]
          /\ SampleOf(d).met /\ ~SampleOf(d).fired /\ SampleOf(d).at = clock
        BY UpdateOne
    <1>3. PICK i \in 1 .. n :
            /\ l[i].at = state[d].at
            /\ RunsFrom(d, l, i)
            /\ \A j \in 1 .. i - 1 : ~RunsFrom(d, l, j)
        BY DEF Linked, LinkedPotential
    <1>4. RunsFrom(d, L, i)
        BY <1>2, <1>3, PastKept
    <1>5. \A j \in 1 .. i - 1 : ~RunsFrom(d, L, j)
        <2> TAKE j \in 1 .. i - 1
        <2>1. j \in 1 .. n
            BY <1>2
        <2> QED
            BY <2>1, <1>3, PastKept
    <1>6. clock - state[d].at < Duration[d]
        <2>1. SatSub(clock, state[d].at) < Duration[d]
            <3>1. Duration[d] \in Nat /\ SatSub(clock, state[d].at) \in Nat
                BY LogFacts, U64Assumption DEF SatSub, TypeOK, MachineState, Time
            <3> QED
                BY <3>1 DEF Fires
        <2> QED
            BY <2>1, LogFacts, U64Assumption DEF SatSub, TypeOK, MachineState, Time
    <1>7. i \in 1 .. Len(L) /\ L[i].at = state[d].at
        BY <1>2, <1>3
    <1>8. L[Len(L)].at - state[d].at < Duration[d]
        BY <1>2, <1>6
    <1>9. LinkedPotential(d, L, state[d].at)
        <2> HIDE DEF L
        <2> QED
            BY <1>4, <1>5, <1>7, <1>8 DEF LinkedPotential
    <1> QED
        BY <1>1, <1>9

\* No run lasts to the last sample while the machine is Idle, or out of its
\* cooldown and not yet sampled since.
LEMMA NoRunBehind ==
    ASSUME TypeOK, Linked, NEW d \in EventDef,
           state[d].kind \in {"Idle", "Cooldown"}
    PROVE  \A j \in 1 .. Len(log[d]) : ~RunsFrom(d, log[d], j)
    <1> DEFINE l == log[d]
               n == Len(l)
    <1> SUFFICES ASSUME NEW j \in 1 .. n, RunsFrom(d, l, j)
                 PROVE  FALSE
        OBVIOUS
    <1>1. n \in Nat /\ n = Len(l)
        BY LogFacts
    <1>2. CASE state[d].kind = "Idle"
        <2>1. ~l[n].met
            BY <1>1, <1>2 DEF Linked, LinkedIdle
        <2> HIDE DEF l, n
        <2> QED
            BY <2>1, <1>1 DEF RunsFrom
    <1>3. CASE state[d].kind = "Cooldown"
        <2>1. PICK k \in 1 .. n :
                /\ l[k].fired
                /\ state[d].at = SatAdd(l[k].at, Cooldown[d])
                /\ \A i \in k + 1 .. n : l[i].at < state[d].at
            BY <1>3 DEF Linked, LinkedCooldown
        <2>2. /\ state[d].at \in Int
              /\ l[j].at \in Int
            BY LogFacts, U64Assumption DEF TypeOK, MachineState, Time
        <2> HIDE DEF l, n
        <2>3. j > k
            BY <2>1, <1>1 DEF RunsFrom
        <2>4. state[d].at <= l[j].at
            BY <2>1, <2>3, <1>1 DEF RunsFrom, CooldownOver
        <2>5. l[j].at < state[d].at
            BY <2>1, <2>3, <1>1
        <2> QED
            BY <2>2, <2>4, <2>5
    <1> QED
        BY <1>2, <1>3

\* The first sample of a run: no older position begins one that lasts to it.
LEMMA LinkedStarts ==
    ASSUME TypeOK, Linked, Update, NEW d \in EventDef, Met(d),
           state[d].kind # "Potential", ~Suppressed(state[d], clock),
           ~Fires(d, state[d], Met(d), clock)
    PROVE  LinkedPotential(d, log'[d], state'[d].at) /\ state'[d].kind = "Potential"
    <1> DEFINE l == log[d]
               L == log'[d]
               n == Len(l)
    <1>1. state'[d] = PotentialFrom(clock)
        BY UpdateOne DEF AfterUpdate
    <1>2. /\ n \in Nat /\ n = Len(l) /\ Len(L) = n + 1 /\ L[n + 1] = SampleOf(d)
          /\ SampleOf(d).met /\ ~SampleOf(d).fired /\ SampleOf(d).at = clock
        BY UpdateOne
    <1>3. state[d].kind \in {"Idle", "Cooldown"}
        BY DEF TypeOK, MachineState
    <1>4. Duration[d] > 0 /\ clock \in Int
        <2>1. Duration[d] \in Nat /\ clock \in Int
            BY LogFacts, U64Assumption DEF TypeOK, Time
        <2>2. Duration[d] # 0
            BY <1>3 DEF Fires
        <2> QED
            BY <2>1, <2>2
    <1>5. CooldownOver(d, L, clock, n)
        <2>1. CooldownOver(d, l, clock, n) /\ n \in 0 .. n
            BY <1>2, NotSuppressed
        <2>2. CooldownOver(d, L, clock, n) <=> CooldownOver(d, l, clock, n)
            BY <2>1, PastKept
        <2> QED
            BY <2>1, <2>2
    <1>6. RunsFrom(d, L, n + 1)
        <2> HIDE DEF L, n
        <2> QED
            BY <1>2, <1>5 DEF RunsFrom
    <1>7. \A j \in 1 .. n : ~RunsFrom(d, l, j)
        BY NoRunBehind, <1>3
    <1>8. \A j \in 1 .. n : ~RunsFrom(d, L, j)
        BY <1>7, PastKept
    <1>9. LinkedPotential(d, L, clock)
        <2> HIDE DEF L, n
        <2>1. n + 1 \in 1 .. Len(L) /\ (n + 1) - 1 = n
            BY <1>2
        <2>2. L[Len(L)].at - clock < Duration[d]
            BY <1>2, <1>4
        <2> QED
            BY <2>1, <2>2, <1>2, <1>6, <1>8 DEF LinkedPotential
    <1> QED
        BY <1>1, <1>9 DEF PotentialFrom

LEMMA LinkedStep == TypeOK /\ Linked /\ [Next]_vars => Linked'
    <1> SUFFICES ASSUME TypeOK, Linked, [Next]_vars PROVE Linked'
        OBVIOUS
    <1>1. CASE Advance
        <2>0. log' = log /\ state' = state
            BY <1>1 DEF Advance
        <2> SUFFICES ASSUME NEW d \in EventDef
                     PROVE  InOrder(log[d])'
            BY <2>0 DEF Linked
        <2>1. InOrder(log[d]) /\ clock' = clock + 1 /\ log' = log
            BY <1>1 DEF Linked, Advance
        <2>2. clock \in Int /\ \A k \in DOMAIN log[d] : log[d][k].at \in Int
            BY LogFacts, U64Assumption DEF TypeOK, Time
        <2> QED
            BY <2>1, <2>2 DEF InOrder
    <1>2. ASSUME NEW s \in SignalType, NEW v \in Value, NEW ts \in Time,
                 NEW ttl \in TTL, Write(s, v, ts, ttl)
          PROVE  Linked'
        <2>1. log' = log /\ state' = state /\ clock' = clock
            BY <1>2 DEF Write
        <2> QED
            BY <2>1 DEF Linked, InOrder
    <1>3. CASE Update
        <2> SUFFICES ASSUME NEW d \in EventDef
                     PROVE  /\ InOrder(log[d])'
                            /\ \/ LinkedIdle(d, log'[d]) /\ state'[d].kind = "Idle"
                               \/ /\ LinkedPotential(d, log'[d], state'[d].at)
                                  /\ state'[d].kind = "Potential"
                               \/ /\ LinkedCooldown(d, log'[d], state'[d].at)
                                  /\ state'[d].kind = "Cooldown"
            BY <1>3 DEF Linked
        <2>1. InOrder(log[d])'
            <3> DEFINE l == log[d]
                       L == log'[d]
                       n == Len(l)
            <3>1. InOrder(l)
                BY DEF Linked
            <3>2. /\ n \in Nat /\ DOMAIN L = 1 .. n + 1 /\ DOMAIN l = 1 .. n
                  /\ L[n + 1].at = clock /\ clock' = clock
                  /\ \A i \in 1 .. n : L[i] = l[i]
                BY <1>3, UpdateOne
            <3>3. \A i \in 1 .. n : l[i].at \in Int /\ l[i].at <= clock
                <4>1. \A i \in 1 .. n : l[i].at \in Int
                    BY <3>2, LogFacts, U64Assumption DEF Time
                <4>2. \A i \in 1 .. n : l[i].at <= clock
                    BY <3>1, <3>2 DEF InOrder
                <4> QED
                    BY <4>1, <4>2
            <3>4. clock \in Int
                BY U64Assumption DEF TypeOK, Time
            <3> HIDE DEF l, L, n
            <3>5. \A i, j \in 1 .. n + 1 : i <= j => L[i].at <= L[j].at
                <4> SUFFICES ASSUME NEW i \in 1 .. n + 1, NEW j \in 1 .. n + 1, i <= j
                             PROVE  L[i].at <= L[j].at
                    OBVIOUS
                <4>1. CASE j \in 1 .. n
                    <5>1. i \in 1 .. n
                        BY <3>2, <4>1
                    <5>2. l[i].at <= l[j].at
                        BY <3>1, <3>2, <4>1, <5>1 DEF InOrder
                    <5> QED
                        BY <3>2, <4>1, <5>1, <5>2
                <4>2. CASE j = n + 1 /\ i \in 1 .. n
                    BY <3>2, <3>3, <4>2
                <4>3. CASE j = n + 1 /\ i = n + 1
                    BY <3>2, <3>4, <4>3
                <4> QED
                    BY <3>2, <4>1, <4>2, <4>3
            <3>6. \A k \in 1 .. n + 1 : L[k].at <= clock'
                BY <3>2, <3>3, <3>4
            <3> QED
                BY <3>2, <3>5, <3>6 DEF InOrder, L
        <2>2. CASE Fires(d, state[d], Met(d), clock)
            BY <1>3, <2>1, <2>2, LinkedFires
        <2>3. CASE Suppressed(state[d], clock)
            BY <1>3, <2>1, <2>3, LinkedSuppressed
        <2>4. CASE ~Met(d) /\ ~Suppressed(state[d], clock)
            BY <1>3, <2>1, <2>4, LinkedReset
        <2>5. CASE /\ Met(d) /\ ~Suppressed(state[d], clock)
                   /\ ~Fires(d, state[d], Met(d), clock)
            BY <1>3, <2>1, <2>5, LinkedRunning, LinkedStarts
        <2> QED
            BY <2>2, <2>3, <2>4, <2>5
    <1>4. CASE UNCHANGED vars
        BY <1>4 DEF vars, Linked, InOrder
    <1> QED
        BY <1>1, <1>2, <1>3, <1>4 DEF Next

LEMMA LinkedInit == Init => Linked
    BY DEF Init, Linked, InOrder, LinkedIdle, Idle

\* In every reachable state each machine stands for the past of its
\* definition.
THEOREM LinkedAlways == Spec => []Linked
    BY TypeInit, TypeStep, LinkedInit, LinkedStep, PTL DEF Spec

-----------------------------------------------------------------------------
(* The safety properties, each from Linked. *)

\* The run behind a firing Potential machine.
LEMMA FiringRun ==
    ASSUME TypeOK, Linked, NEW d \in EventDef, state[d].kind = "Potential",
           Fires(d, state[d], Met(d), clock)
    PROVE  \E i \in 1 .. Len(log[d]) :
               /\ RunsFrom(d, log[d], i)
               /\ \A j \in 1 .. i - 1 : ~RunsFrom(d, log[d], j)
               /\ clock - log[d][i].at >= Duration[d]
    <1>1. PICK i \in 1 .. Len(log[d]) :
            /\ log[d][i].at = state[d].at
            /\ RunsFrom(d, log[d], i)
            /\ \A j \in 1 .. i - 1 : ~RunsFrom(d, log[d], j)
        BY DEF Linked, LinkedPotential
    <1>2. SatSub(clock, state[d].at) >= Duration[d]
        BY DEF Fires
    <1>3. log[d][i].at <= clock
        BY LogFacts DEF Linked, InOrder
    <1>4. clock - state[d].at >= Duration[d]
        BY <1>1, <1>2, <1>3, U64Assumption
        DEF SatSub, TypeOK, MachineState, Time
    <1> QED
        BY <1>1, <1>4

\* A machine that fires otherwise has no duration to wait for.
LEMMA FiringAtOnce ==
    ASSUME NEW d \in EventDef, state[d].kind # "Potential",
           Fires(d, state[d], Met(d), clock)
    PROVE  Duration[d] = 0
    BY DEF Fires

LEMMA SpacingStep ==
    ASSUME TypeOK, Linked, Spacing, Update
    PROVE  Spacing'
    <1> SUFFICES ASSUME NEW d \in EventDef, NEW i \in DOMAIN log'[d],
                        NEW j \in DOMAIN log'[d], i < j,
                        log'[d][i].fired, log'[d][j].fired
                 PROVE  /\ log'[d][j].at >= SatAdd(log'[d][i].at, Cooldown[d])
                        /\ log'[d][j].at - SatAdd(log'[d][i].at, Cooldown[d])
                               >= Duration[d]
        BY DEF Spacing
    <1> DEFINE l == log[d]
               L == log'[d]
               n == Len(l)
    <1>1. /\ n \in Nat /\ DOMAIN L = 1 .. n + 1 /\ DOMAIN l = 1 .. n
          /\ \A k \in 1 .. n : L[k] = l[k]
          /\ L[n + 1].at = clock
          /\ L[n + 1].fired = Fires(d, state[d], Met(d), clock)
        BY UpdateOne
    <1>2. i \in 1 .. n /\ L[i] = l[i]
        BY <1>1
    <1>3. CASE j \in 1 .. n
        BY <1>1, <1>2, <1>3 DEF Spacing
    <1>4. CASE j = n + 1
        <2> DEFINE e == SatAdd(l[i].at, Cooldown[d])
        <2>1. e \in Int /\ clock \in Int /\ Duration[d] \in Nat
            BY <1>2, LogFacts, U64Assumption DEF TypeOK, Time
        <2>2. Fires(d, state[d], Met(d), clock)
            BY <1>1, <1>4
        <2>3. e <= clock
            <3>1. CooldownOver(d, l, clock, n)
                BY <2>2, NotSuppressed DEF Fires, Suppressed
            <3> QED
                BY <3>1, <1>2 DEF CooldownOver
        <2>4. clock - e >= Duration[d]
            <3>1. CASE state[d].kind = "Potential"
                <4>1. PICK p \in 1 .. n : /\ RunsFrom(d, l, p)
                                          /\ clock - l[p].at >= Duration[d]
                    BY <2>2, <3>1, FiringRun
                <4>2. i \in 1 .. p - 1
                    BY <4>1, <1>1, <1>2 DEF RunsFrom
                <4>3. e <= l[p].at
                    BY <4>1, <4>2, <1>2 DEF RunsFrom, CooldownOver
                <4>4. l[p].at \in Int
                    BY LogFacts, U64Assumption DEF Time
                <4> HIDE DEF e
                <4> QED
                    BY <4>1, <4>3, <4>4, <2>1
            <3>2. CASE state[d].kind # "Potential"
                <4>1. Duration[d] = 0
                    BY <2>2, <3>2, FiringAtOnce
                <4> HIDE DEF e
                <4> QED
                    BY <4>1, <2>1, <2>3
            <3> QED
                BY <3>1, <3>2
        <2> QED
            BY <2>1, <2>3, <2>4, <1>1, <1>2, <1>4
    <1> QED
        BY <1>1, <1>3, <1>4

LEMMA SustainedStep ==
    ASSUME TypeOK, Linked, Sustained, Update
    PROVE  Sustained'
    <1> SUFFICES ASSUME NEW d \in EventDef, NEW j \in DOMAIN log'[d],
                        log'[d][j].fired
                 PROVE  \E i \in 1 .. j :
                            /\ log'[d][j].at - log'[d][i].at >= Duration[d]
                            /\ \A k \in i .. j : log'[d][k].met
                            /\ \A k \in i .. j - 1 : ~log'[d][k].fired
        BY DEF Sustained
    <1> DEFINE l == log[d]
               L == log'[d]
               n == Len(l)
    <1>1. /\ n \in Nat /\ DOMAIN L = 1 .. n + 1 /\ DOMAIN l = 1 .. n
          /\ \A k \in 1 .. n : L[k] = l[k]
          /\ L[n + 1].at = clock /\ clock \in Int /\ n = Len(l)
          /\ L[n + 1].met = Met(d)
          /\ L[n + 1].fired = Fires(d, state[d], Met(d), clock)
        BY UpdateOne, U64Assumption DEF TypeOK, Time
    <1>2. CASE j \in 1 .. n
        <2>1. PICK i \in 1 .. j :
                /\ l[j].at - l[i].at >= Duration[d]
                /\ \A k \in i .. j : l[k].met
                /\ \A k \in i .. j - 1 : ~l[k].fired
            BY <1>1, <1>2 DEF Sustained
        <2> HIDE DEF l, L, n
        <2>2. /\ L[j].at - L[i].at >= Duration[d]
              /\ \A k \in i .. j : L[k].met
              /\ \A k \in i .. j - 1 : ~L[k].fired
            BY <2>1, <1>1, <1>2
        <2> QED
            BY <2>2 DEF L
    <1>3. CASE j = n + 1
        <2>1. Fires(d, state[d], Met(d), clock)
            BY <1>1, <1>3
        <2>2. Met(d) /\ Duration[d] \in Nat
            BY <2>1, LogFacts DEF Fires
        <2>5. L[n + 1].met
            BY <1>1, <2>2
        <2>3. CASE state[d].kind = "Potential"
            <3>1. PICK p \in 1 .. n : /\ RunsFrom(d, l, p)
                                      /\ clock - l[p].at >= Duration[d]
                BY <2>1, <2>3, FiringRun
            <3> HIDE DEF l, L, n
            <3>2. p \in 1 .. j /\ L[j].at - L[p].at >= Duration[d]
                BY <3>1, <1>1, <1>3
            <3>3. \A k \in p .. n : L[k].met /\ ~L[k].fired
                BY <3>1, <1>1 DEF RunsFrom
            <3>4. /\ \A k \in p .. j : L[k].met
                  /\ \A k \in p .. j - 1 : ~L[k].fired
                BY <3>3, <1>1, <1>3, <2>5
            <3> QED
                BY <3>2, <3>4 DEF L
        <2>4. CASE state[d].kind # "Potential"
            <3>1. Duration[d] = 0
                BY <2>1, <2>4, FiringAtOnce
            <3> HIDE DEF l, L, n
            <3>2. j \in 1 .. j /\ L[j].at - L[j].at >= Duration[d]
                BY <3>1, <1>1, <1>3
            <3>3. /\ \A k \in j .. j : L[k].met
                  /\ \A k \in j .. j - 1 : ~L[k].fired
                BY <1>1, <1>3, <2>5
            <3> QED
                BY <3>2, <3>3 DEF L
        <2> QED
            BY <2>3, <2>4
    <1> QED
        BY <1>1, <1>2, <1>3

\* The machine fires exactly when the past, this sample included, holds a run
\* that confirms: the state forgets nothing that matters.
LEMMA FiresIff ==
    ASSUME TypeOK, Linked, NEW d \in EventDef
    PROVE  Fires(d, state[d], Met(d), clock) <=>
               /\ Met(d)
               /\ \/ \E i \in 1 .. Len(log[d]) :
                        /\ RunsFrom(d, log[d], i)
                        /\ clock - log[d][i].at >= Duration[d]
                  \/ /\ Duration[d] = 0
                     /\ CooldownOver(d, log[d], clock, Len(log[d]))
    <1> DEFINE l == log[d]
               n == Len(l)
    <1>1. /\ n \in Nat /\ DOMAIN l = 1 .. n /\ Duration[d] \in Nat /\ clock \in Int
          /\ \A i \in 1 .. n : l[i].at \in Int /\ l[i].at <= clock
          /\ \A i, j \in 1 .. n : i <= j => l[i].at <= l[j].at
        <2>1. InOrder(l)
            BY DEF Linked
        <2>2. clock \in Int /\ \A i \in 1 .. n : l[i].at \in Int
            BY LogFacts, U64Assumption DEF TypeOK, Time
        <2> QED
            BY <2>1, <2>2, LogFacts DEF InOrder
    <1>2. ASSUME Fires(d, state[d], Met(d), clock)
          PROVE  /\ Met(d)
                 /\ \/ \E i \in 1 .. n : /\ RunsFrom(d, l, i)
                                         /\ clock - l[i].at >= Duration[d]
                    \/ Duration[d] = 0 /\ CooldownOver(d, l, clock, n)
        <2>1. Met(d) /\ ~Suppressed(state[d], clock)
            BY <1>2 DEF Fires, Suppressed
        <2>2. CASE state[d].kind = "Potential"
            BY <2>1, <2>2, <1>2, FiringRun
        <2>3. CASE state[d].kind # "Potential"
            BY <2>1, <2>3, <1>2, FiringAtOnce, NotSuppressed
        <2> QED
            BY <2>2, <2>3
    <1>3. ASSUME Met(d), NEW i \in 1 .. n, RunsFrom(d, l, i),
                 clock - l[i].at >= Duration[d]
          PROVE  Fires(d, state[d], Met(d), clock)
        <2>1. state[d].kind = "Potential"
            BY <1>3, NoRunBehind DEF TypeOK, MachineState
        <2>2. PICK p \in 1 .. n : /\ l[p].at = state[d].at
                                  /\ \A k \in 1 .. p - 1 : ~RunsFrom(d, l, k)
            BY <2>1 DEF Linked, LinkedPotential
        <2>3. p <= i
            <3> HIDE DEF l, n
            <3> QED
                BY <1>1, <1>3, <2>2
        <2>4. clock - state[d].at >= Duration[d] /\ state[d].at <= clock
            <3>1. l[p].at <= l[i].at /\ l[p].at \in Int /\ l[i].at \in Int
                BY <2>3, <1>1
            <3> HIDE DEF l, n
            <3> QED
                BY <3>1, <2>2, <1>1, <1>3
        <2>5. SatSub(clock, state[d].at) >= Duration[d]
            BY <2>4, U64Assumption DEF SatSub, TypeOK, MachineState, Time
        <2> QED
            BY <2>1, <2>5, <1>3 DEF Fires
    <1>4. ASSUME Met(d), Duration[d] = 0, CooldownOver(d, l, clock, n)
          PROVE  Fires(d, state[d], Met(d), clock)
        <2>1. CASE state[d].kind = "Idle"
            BY <1>4, <2>1 DEF Fires, Suppressed
        <2>2. CASE state[d].kind = "Potential"
            <3>1. SatSub(clock, state[d].at) >= 0
                BY U64Assumption DEF SatSub, TypeOK, MachineState, Time
            <3> QED
                BY <3>1, <1>4, <2>2 DEF Fires
        <2>3. CASE state[d].kind = "Cooldown"
            <3>1. PICK k \in 1 .. n : /\ l[k].fired
                                      /\ state[d].at = SatAdd(l[k].at, Cooldown[d])
                BY <2>3 DEF Linked, LinkedCooldown
            <3>2. state[d].at <= clock
                BY <3>1, <1>4 DEF CooldownOver
            <3>3. ~Suppressed(state[d], clock)
                BY <3>2, <1>1, U64Assumption DEF Suppressed, TypeOK, MachineState, Time
            <3> QED
                BY <3>3, <1>4, <2>3 DEF Fires
        <2> QED
            BY <2>1, <2>2, <2>3 DEF TypeOK, MachineState
    <1> QED
        BY <1>2, <1>3, <1>4

LEMMA NothingMissedStep ==
    ASSUME TypeOK, Linked, NothingMissed, Update
    PROVE  NothingMissed'
    <1> SUFFICES ASSUME NEW d \in EventDef, NEW i \in DOMAIN log'[d],
                        NEW j \in DOMAIN log'[d], i <= j,
                        log'[d][j].at - log'[d][i].at >= Duration[d],
                        \A k \in i .. j : log'[d][k].met,
                        \A k \in 1 .. i - 1 : log'[d][k].fired =>
                            log'[d][i].at >= SatAdd(log'[d][k].at, Cooldown[d]),
                        \A k \in i .. j : ~log'[d][k].fired
                 PROVE  FALSE
        BY DEF NothingMissed
    <1> DEFINE l == log[d]
               L == log'[d]
               n == Len(l)
    <1>1. /\ n \in Nat /\ DOMAIN L = 1 .. n + 1 /\ DOMAIN l = 1 .. n
          /\ n = Len(l)
          /\ \A k \in 1 .. n : L[k] = l[k]
          /\ L[n + 1].at = clock /\ clock \in Int
          /\ L[n + 1].met = Met(d)
          /\ L[n + 1].fired = Fires(d, state[d], Met(d), clock)
        BY UpdateOne, U64Assumption DEF TypeOK, Time
    <1>2. \A k \in 1 .. n : SatAdd(l[k].at, Cooldown[d]) \in Int /\ l[k].at \in Int
        BY LogFacts, U64Assumption DEF Time
    <1>3. CASE j \in 1 .. n
        <2>1. \A k \in i .. j : l[k].met /\ ~l[k].fired
            <3>1. \A k \in i .. j : L[k] = l[k]
                BY <1>1, <1>3
            <3> QED
                BY <3>1
        <2>2. /\ l[j].at - l[i].at >= Duration[d]
              /\ i \in DOMAIN l
              /\ \A k \in 1 .. i - 1 : l[k].fired =>
                     l[i].at >= SatAdd(l[k].at, Cooldown[d])
            <3>1. i \in 1 .. n /\ L[i] = l[i] /\ L[j] = l[j]
                BY <1>1, <1>3
            <3>2. \A k \in 1 .. i - 1 : L[k] = l[k]
                BY <3>1, <1>1
            <3> QED
                BY <3>1, <3>2, <1>1
        <2> QED
            BY <2>1, <2>2, <1>1, <1>3 DEF NothingMissed
    <1>4. CASE j = n + 1
        <2>1. Met(d) /\ ~Fires(d, state[d], Met(d), clock)
            <3>1. j \in i .. j
                BY <1>1
            <3>2. L[n + 1].met /\ ~L[n + 1].fired
                BY <3>1, <1>4
            <3> QED
                BY <3>2, <1>1
        <2>2. CASE i \in 1 .. n
            <3>1. CooldownOver(d, l, l[i].at, i - 1)
                <4> SUFFICES ASSUME NEW k \in 1 .. i - 1, l[k].fired
                             PROVE  SatAdd(l[k].at, Cooldown[d]) <= l[i].at
                    BY DEF CooldownOver
                <4>1. k \in 1 .. n /\ L[k] = l[k] /\ L[i] = l[i]
                    BY <1>1, <2>2
                <4> QED
                    BY <4>1, <1>2, <2>2
            <3>2. \A k \in i .. n : l[k].met /\ ~l[k].fired
                BY <1>1, <1>4, <2>2
            <3>3. RunsFrom(d, l, i)
                BY <3>1, <3>2 DEF RunsFrom
            <3>4. clock - l[i].at >= Duration[d]
                BY <1>1, <1>4, <2>2
            <3> QED
                BY <3>3, <3>4, <2>1, <2>2, FiresIff
        <2>3. CASE i = n + 1
            <3>1. Duration[d] = 0
                BY <1>1, <1>4, <2>3, LogFacts
            <3>2. CooldownOver(d, l, clock, n)
                <4> SUFFICES ASSUME NEW k \in 1 .. n, l[k].fired
                             PROVE  SatAdd(l[k].at, Cooldown[d]) <= clock
                    BY DEF CooldownOver
                <4>1. k \in 1 .. i - 1 /\ L[k] = l[k] /\ L[i].at = clock
                    BY <1>1, <2>3
                <4> QED
                    BY <4>1, <1>1, <1>2
            <3> QED
                BY <3>1, <3>2, <2>1, FiresIff
        <2> QED
            BY <1>1, <2>2, <2>3
    <1> QED
        BY <1>1, <1>3, <1>4

LEMMA SafetyStep ==
    TypeOK /\ Linked /\ Spacing /\ Sustained /\ NothingMissed /\ [Next]_vars
        => Spacing' /\ Sustained' /\ NothingMissed'
    <1> SUFFICES ASSUME TypeOK, Linked, Spacing, Sustained, NothingMissed,
                        [Next]_vars
                 PROVE  Spacing' /\ Sustained' /\ NothingMissed'
        OBVIOUS
    <1>1. CASE Update
        BY <1>1, SpacingStep, SustainedStep, NothingMissedStep
    <1>2. CASE log' = log
        BY <1>2 DEF Spacing, Sustained, NothingMissed
    <1> QED
        BY <1>1, <1>2 DEF Next, Advance, Write, vars

LEMMA SafetyInit == Init => Spacing /\ Sustained /\ NothingMissed
    BY DEF Init, Spacing, Sustained, NothingMissed

LEMMA Safety == Spec => [](Spacing /\ Sustained /\ NothingMissed)
    <1>1. Init => TypeOK /\ Linked /\ Spacing /\ Sustained /\ NothingMissed
        BY TypeInit, LinkedInit, SafetyInit
    <1>2. /\ TypeOK /\ Linked /\ Spacing /\ Sustained /\ NothingMissed
          /\ [Next]_vars
          => (TypeOK /\ Linked /\ Spacing /\ Sustained /\ NothingMissed)'
        BY TypeStep, LinkedStep, SafetyStep
    <1> QED
        BY <1>1, <1>2, PTL DEF Spec

\* Two events of a definition are a cooldown, then a duration, apart.
THEOREM SpacingAlways == Spec => []Spacing
    BY Safety, PTL

\* Every event closes an unbroken run of Duration.
THEOREM SustainedAlways == Spec => []Sustained
    BY Safety, PTL

\* Every run of Duration after the cooldown holds an event.
THEOREM NothingMissedAlways == Spec => []NothingMissed
    BY Safety, PTL

-----------------------------------------------------------------------------
(* The engine implements ConfirmedEvents. *)

\* The declarative confirmation rule, applied to the past and this sample,
\* says what the machine does.
LEMMA ConfirmedIff ==
    ASSUME TypeOK, Linked, NEW d \in EventDef
    PROVE  Fires(d, state[d], Met(d), clock) <=>
               Promise!Confirmed(d, Append(log[d],
                   [at |-> clock, met |-> Met(d), fired |-> FALSE]))
    <1> DEFINE l == log[d]
               n == Len(l)
               e == [at |-> clock, met |-> Met(d), fired |-> FALSE]
               h == Append(l, e)
    <1>1. e \in Sample
        <2>1. Met(d) \in BOOLEAN
            BY DEF Met, ConditionHolds
        <2> QED
            BY <2>1 DEF TypeOK, Sample
    <1>2. /\ n \in Nat /\ n = Len(l) /\ Len(h) = n + 1
          /\ \A i \in 1 .. n : h[i] = l[i]
          /\ h[n + 1] = e
        BY <1>1, LogFacts, AppendFacts
    <1>3. e.at = clock /\ (e.met <=> Met(d)) /\ ~e.fired
        OBVIOUS
    <1>4. clock \in Int /\ Duration[d] \in Nat
        BY LogFacts, U64Assumption DEF TypeOK, Time
    <1>5. \A i \in 1 .. n : l[i].at \in Int
        BY LogFacts, U64Assumption DEF Time
    <1>6. \A i \in 1 .. n :
              Promise!CooldownEnd(d, l[i]) = SatAdd(l[i].at, Cooldown[d])
        BY DEF SatAdd, Promise!CooldownEnd
    <1>7. \A i \in 1 .. n : SatAdd(l[i].at, Cooldown[d]) \in Int
        BY LogFacts, U64Assumption DEF Time
    <1> DEFINE Closes(i) ==
            /\ Promise!Eligible(d, h, i)
            /\ \A k \in i .. Len(h) : h[k].met /\ ~h[k].fired
            /\ h[Len(h)].at - h[i].at >= Duration[d]
    <1>8. Promise!Confirmed(d, h) <=> \E i \in 1 .. n + 1 : Closes(i)
        BY <1>2 DEF Promise!Confirmed
    <1>9. \A i \in 1 .. n :
              Closes(i) <=> /\ RunsFrom(d, l, i) /\ Met(d)
                            /\ clock - l[i].at >= Duration[d]
        <2> TAKE i \in 1 .. n
        <2>1. Promise!Eligible(d, h, i) <=> CooldownOver(d, l, l[i].at, i - 1)
            <3> HIDE DEF l, n, h
            <3> QED
                BY <1>2, <1>5, <1>6, <1>7 DEF Promise!Eligible, CooldownOver
        <2>2. (\A k \in i .. n + 1 : h[k].met /\ ~h[k].fired) <=>
                  (\A k \in i .. n : l[k].met /\ ~l[k].fired) /\ Met(d)
            <3> HIDE DEF l, n, h, e
            <3> QED
                BY <1>2, <1>3
        <2>3. h[n + 1].at - h[i].at = clock - l[i].at
            BY <1>2, <1>3
        <2> HIDE DEF l, n, h, e
        <2> QED
            BY <2>1, <2>2, <2>3, <1>2 DEF RunsFrom
    <1>10. Closes(n + 1) <=> /\ Met(d) /\ Duration[d] = 0
                             /\ CooldownOver(d, l, clock, n)
        <2>1. Promise!Eligible(d, h, n + 1) <=> CooldownOver(d, l, clock, n)
            <3> HIDE DEF l, n, h, e
            <3> QED
                BY <1>2, <1>3, <1>4, <1>5, <1>6, <1>7
                DEF Promise!Eligible, CooldownOver
        <2>2. (\A k \in n + 1 .. n + 1 : h[k].met /\ ~h[k].fired) <=> Met(d)
            <3> HIDE DEF l, n, h, e
            <3> QED
                BY <1>2, <1>3
        <2>3. h[n + 1].at - h[n + 1].at >= Duration[d] <=> Duration[d] = 0
            <3> HIDE DEF l, n, h, e
            <3> QED
                BY <1>2, <1>3, <1>4
        <2> HIDE DEF l, n, h, e
        <2> QED
            BY <2>1, <2>2, <2>3, <1>2
    <1>11. Promise!Confirmed(d, h) <=>
               /\ Met(d)
               /\ \/ \E i \in 1 .. n : /\ RunsFrom(d, l, i)
                                       /\ clock - l[i].at >= Duration[d]
                  \/ Duration[d] = 0 /\ CooldownOver(d, l, clock, n)
        <2> HIDE DEF l, n, h, Closes
        <2> QED
            BY <1>2, <1>8, <1>9, <1>10
    <1> QED
        BY <1>11, FiresIff

LEMMA ImplementsStep ==
    ASSUME TypeOK, Linked, [Next]_vars
    PROVE  Promise!Sampled \/ log' = log
    <1>1. CASE Update
        <2>1. clock \in 0 .. U64Max
            BY DEF TypeOK, Time
        <2>2. log' = [d \in EventDef |-> log'[d]]
            BY <1>1 DEF Update
        <2>3. \A d \in EventDef : \A k \in DOMAIN log[d] : log[d][k].at <= clock
            BY DEF Linked, InOrder
        <2>4. \A d \in EventDef :
                  /\ Met(d) \in BOOLEAN
                  /\ log'[d] = Promise!Extended(d, clock, Met(d))
            <3> TAKE d \in EventDef
            <3> DEFINE h == Append(log[d],
                    [at |-> clock, met |-> Met(d), fired |-> FALSE])
            <3>1. Fires(d, state[d], Met(d), clock) <=> Promise!Confirmed(d, h)
                BY ConfirmedIff
            <3>2. Fires(d, state[d], Met(d), clock) = Promise!Confirmed(d, h)
                BY <3>1 DEF Fires, Promise!Confirmed
            <3>3. log'[d] = Append(log[d], SampleOf(d))
                BY <1>1 DEF Update
            <3>4. Met(d) \in BOOLEAN
                BY DEF Met, ConditionHolds
            <3> QED
                BY <3>2, <3>3, <3>4 DEF SampleOf, Promise!Extended
        <2>5. \E now \in 0 .. U64Max : \A d \in EventDef :
                  /\ \A k \in DOMAIN log[d] : log[d][k].at <= now
                  /\ \E met \in BOOLEAN : log'[d] = Promise!Extended(d, now, met)
            BY <2>1, <2>3, <2>4
        <2> QED
            BY <2>2, <2>5 DEF Promise!Sampled
    <1>2. CASE ~Update
        BY <1>2 DEF Next, Advance, Write, vars
    <1> QED
        BY <1>1, <1>2

\* The engine, which remembers one State per definition, emits exactly the
\* events the history-keeping specification promises.
THEOREM EngineImplementsPromise == Spec => Implements
    <1>1. Init => Promise!Init
        BY DEF Init, Promise!Init
    <1>2. TypeOK /\ Linked /\ [Next]_vars => [Promise!Sampled]_log
        BY ImplementsStep
    <1> QED
        BY <1>1, <1>2, TypeCorrect, LinkedAlways, PTL
        DEF Spec, Implements, Promise!Spec
=============================================================================
