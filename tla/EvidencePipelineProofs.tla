----------------------- MODULE EvidencePipelineProofs -----------------------
(***************************************************************************)
(* The invariants of EvidencePipeline, proved for every number of events,  *)
(* capacity of the queues, window of a clip and delay of its worker.       *)
(***************************************************************************)
EXTENDS EvidencePipeline, SelectionProofs, FiniteSetTheorems

USE EvidenceAssumption

-----------------------------------------------------------------------------
(* The inductive invariant: who holds what *)

Rising(s) == \A i, j \in DOMAIN s : i < j => s[i].id < s[j].id

Below(A, B) == \A a \in A, b \in B : a < b

Emitted == 1 .. Len(emitted)

\* A thread has a job or a clip in hand just while it works on it, and its
\* queue is gone once it is.
Hands ==
    /\ IF worker = "sleep" THEN job \in Job ELSE job = NoJob
    /\ IF encoder = "busy" THEN clip \in Clip ELSE clip = NoJob
    /\ worker = "gone" => pending = << >>
    /\ encoder = "gone" => encoderQueue = << >>
    /\ IF consumer THEN eventsLost = {} ELSE eventQueue = << >>

\* The clips in the order they are cut, by the events' numbers.
InLine ==
    /\ Rising(written) /\ Rising(encoderQueue) /\ Rising(pending)
    /\ Below(Ids(written), Ids(Of(clip)) \cup Ids(encoderQueue)
                              \cup Ids(Of(job)) \cup Ids(pending))
    /\ Below(Ids(Of(clip)), Ids(encoderQueue) \cup Ids(Of(job)) \cup Ids(pending))
    /\ Below(Ids(encoderQueue), Ids(Of(job)) \cup Ids(pending))
    /\ Below(Ids(Of(job)), Ids(pending))

Clips == Ids(written) \cup Ids(Of(clip)) \cup Ids(encoderQueue)
            \cup Ids(Of(job)) \cup Ids(pending)

\* No clip is lost and still in the pipeline.
Apart ==
    /\ Clips \subseteq Emitted /\ clipsLost \subseteq Emitted
    /\ Clips \cap clipsLost = {}

\* The log and the event queue are in the order of the events.
LogInLine ==
    /\ \A i, j \in DOMAIN (logged \o eventQueue) :
          i < j => (logged \o eventQueue)[i] < (logged \o eventQueue)[j]
    /\ ToSet(logged \o eventQueue) \subseteq Emitted
    /\ eventsLost \subseteq Emitted

\* An event is its definition and its instant.
Distinct ==
    /\ Len(emitted) <= MaxEvents
    /\ \A i, j \in DOMAIN emitted : emitted[i] = emitted[j] => i = j

Inv == TypeOK /\ Hands /\ Accounted /\ InLine /\ Apart /\ LogInLine /\ Distinct

-----------------------------------------------------------------------------
(* The inductive invariant: what the buffer still holds *)

Jobs == ToSet(Of(job)) \cup ToSet(pending)

Ascending == \A i, j \in DOMAIN window : i < j => window[i] < window[j]

\* What has left the buffer is older than a full buffer of frames.
Seen ==
    /\ Ascending
    /\ ToSet(window) \subseteq seen
    /\ \A ts \in seen : ts <= clock
    /\ \A ts \in seen \ ToSet(window) :
          Len(window) = Capacity /\ \A f \in ToSet(window) : ts < f

\* A job's window ends After its anchor, the newest frame when its event was
\* confirmed; what was drained since is younger than Lag was then.
Anchored ==
    \A j \in Jobs :
        /\ j.end <= j.fireAt
        /\ j.end - j.start = Before + After
        /\ j.fireAt <= clock + After
        /\ \A f \in ToSet(window) : f > j.end - After => f >= j.fireAt - After - Lag

\* No job is cut later than MaxDelay after its time: a job waits only behind
\* jobs that are due no later.
Punctual ==
    /\ \A j \in Jobs : clock <= j.fireAt + MaxDelay
    /\ \A i, k \in DOMAIN pending : i < k => pending[i].fireAt <= pending[k].fireAt
    /\ \A j \in ToSet(Of(job)), p \in ToSet(pending) : j.fireAt <= p.fireAt

\* A clip that is cut is over: what is drained later is outside its window.
Whole ==
    \A c \in ToSet(written) \cup ToSet(Of(clip)) \cup ToSet(encoderQueue) :
        /\ c.end <= clock
        /\ {ts \in seen : c.start <= ts /\ ts < c.end - Lag} \subseteq ToSet(c.frames)

IInv == Inv /\ Seen /\ Anchored /\ Punctual /\ Whole

-----------------------------------------------------------------------------
(* Queues of records with a number *)

LEMMA IdsEmpty == Ids(<< >>) = {} /\ Rising(<< >>)
    BY DEF Ids, Rising

LEMMA IdsOf ==
    ASSUME NEW r
    PROVE  Ids(Of(r)) = IF r = NoJob THEN {} ELSE {r.id}
    BY DEF Ids, Of

LEMMA IdsAppend ==
    ASSUME NEW S, NEW s \in Seq(S), NEW e \in S
    PROVE  /\ Ids(Append(s, e)) = Ids(s) \cup {e.id}
           /\ Rising(s) /\ (\A a \in Ids(s) : a < e.id) => Rising(Append(s, e))
    <1> DEFINE t == Append(s, e)
    <1>1. /\ DOMAIN t = 1 .. Len(s) + 1 /\ DOMAIN s = 1 .. Len(s) /\ Len(s) \in Nat
          /\ t[Len(s) + 1] = e /\ \A i \in 1 .. Len(s) : t[i] = s[i]
        BY AppendProperties, LenProperties
    <1> HIDE DEF t
    <1>2. Ids(t) = Ids(s) \cup {e.id}
        <2>1. 1 .. Len(s) + 1 = (1 .. Len(s)) \cup {Len(s) + 1}
            BY <1>1
        <2>2. Ids(t) = {t[i].id : i \in 1 .. Len(s)} \cup {e.id}
            BY <1>1, <2>1 DEF Ids
        <2>3. Ids(s) = {t[i].id : i \in 1 .. Len(s)}
            BY <1>1 DEF Ids
        <2> QED
            BY <2>2, <2>3
    <1>3. ASSUME Rising(s), \A a \in Ids(s) : a < e.id PROVE Rising(t)
        <2> SUFFICES ASSUME NEW i \in 1 .. Len(s) + 1, NEW j \in 1 .. Len(s) + 1, i < j
                     PROVE  t[i].id < t[j].id
            BY <1>1 DEF Rising
        <2>1. i \in 1 .. Len(s) /\ t[i] = s[i] /\ s[i].id \in Ids(s)
            BY <1>1 DEF Ids
        <2>2. CASE j = Len(s) + 1
            BY <1>1, <1>3, <2>1, <2>2
        <2>3. CASE j # Len(s) + 1
            <3>0. j \in 1 .. Len(s)
                BY <1>1, <2>3
            <3>1. j \in 1 .. Len(s) /\ t[j] = s[j]
                BY <1>1, <3>0
            <3> QED
                BY <1>1, <1>3, <2>1, <3>1 DEF Rising
        <2> QED
            BY <2>2, <2>3
    <1> QED
        BY <1>2, <1>3 DEF t

LEMMA IdsHeadTail ==
    ASSUME NEW S, NEW s \in Seq(S), s # << >>
    PROVE  /\ Head(s) \in S /\ Tail(s) \in Seq(S) /\ Len(Tail(s)) = Len(s) - 1
           /\ Ids(s) = {Head(s).id} \cup Ids(Tail(s))
           /\ Rising(s) => Rising(Tail(s)) /\ \A a \in Ids(Tail(s)) : Head(s).id < a
    <1> DEFINE t == Tail(s)
    <1>1. /\ DOMAIN t = 1 .. Len(s) - 1 /\ DOMAIN s = 1 .. Len(s) /\ Len(s) \in Nat \ {0}
          /\ Head(s) = s[1] /\ \A i \in 1 .. Len(s) - 1 : t[i] = s[i + 1]
          /\ Head(s) \in S /\ t \in Seq(S) /\ Len(t) = Len(s) - 1
        BY HeadTailProperties, LenProperties, EmptySeq
    <1> HIDE DEF t
    <1>2. Ids(s) = {Head(s).id} \cup Ids(t)
        <2>1. ASSUME NEW i \in 1 .. Len(s) PROVE s[i].id \in {Head(s).id} \cup Ids(t)
            <3>1. CASE i = 1
                BY <1>1, <3>1
            <3>2. CASE i # 1
                <4>1. i - 1 \in 1 .. Len(s) - 1 /\ t[i - 1] = s[i]
                    BY <1>1, <3>2
                <4> QED
                    BY <1>1, <4>1 DEF Ids
            <3> QED
                BY <3>1, <3>2
        <2>2. ASSUME NEW i \in 1 .. Len(s) - 1 PROVE t[i].id \in Ids(s)
            <3>1. i + 1 \in 1 .. Len(s)
                BY <1>1
            <3> QED
                BY <1>1, <3>1 DEF Ids
        <2>3. Head(s).id \in Ids(s)
            <3>1. 1 \in DOMAIN s
                BY <1>1
            <3> QED
                BY <1>1, <3>1 DEF Ids
        <2> QED
            BY <1>1, <2>1, <2>2, <2>3 DEF Ids
    <1>3. ASSUME Rising(s) PROVE Rising(t) /\ \A a \in Ids(t) : Head(s).id < a
        <2>1. ASSUME NEW i \in 1 .. Len(s) - 1
              PROVE  i + 1 \in 1 .. Len(s) /\ 1 \in 1 .. Len(s) /\ 1 < i + 1 /\ t[i] = s[i + 1]
            BY <1>1
        <2>2. Rising(t)
            <3> SUFFICES ASSUME NEW i \in 1 .. Len(s) - 1, NEW j \in 1 .. Len(s) - 1, i < j
                         PROVE  t[i].id < t[j].id
                BY <1>1 DEF Rising
            <3>1. i + 1 < j + 1
                OBVIOUS
            <3> QED
                BY <1>1, <1>3, <2>1, <3>1 DEF Rising
        <2>3. \A i \in 1 .. Len(s) - 1 : Head(s).id < t[i].id
            BY <1>1, <1>3, <2>1 DEF Rising
        <2> QED
            BY <1>1, <2>2, <2>3 DEF Ids
    <1> QED
        BY <1>1, <1>2, <1>3 DEF t

\* There are as many numbers in a rising queue as records.
LEMMA IdsCardinality ==
    ASSUME NEW S, NEW s \in Seq(S), Rising(s), Ids(s) \subseteq Int
    PROVE  IsFiniteSet(Ids(s)) /\ Cardinality(Ids(s)) = Len(s)
    <1>1. DOMAIN s = 1 .. Len(s) /\ Len(s) \in Nat
        BY LenProperties
    <1> DEFINE f == [i \in 1 .. Len(s) |-> s[i].id]
    <1>2. \A i \in 1 .. Len(s) : f[i] \in Ids(s) /\ f[i] \in Int
        BY <1>1 DEF Ids
    <1>3. \A i, j \in 1 .. Len(s) : i < j => f[i] < f[j]
        BY <1>1 DEF Rising
    <1>4. f \in [1 .. Len(s) -> Ids(s)] /\ \A a \in Ids(s) : \E i \in 1 .. Len(s) : f[i] = a
        BY <1>1, <1>2 DEF Ids
    <1> HIDE DEF f
    <1>5. \A i, j \in 1 .. Len(s) : i # j => f[i] # f[j]
        BY <1>1, <1>2, <1>3
    <1>6. f \in Bijection(1 .. Len(s), Ids(s))
        BY <1>4, <1>5 DEF Bijection, Injection, Surjection, IsInjective
    <1>7. IsFiniteSet(1 .. Len(s)) /\ Cardinality(1 .. Len(s)) = Len(s)
        <2>1. /\ IsFiniteSet(1 .. Len(s))
              /\ Cardinality(1 .. Len(s)) = IF 1 > Len(s) THEN 0 ELSE Len(s) - 1 + 1
            <3>1. 1 \in Int /\ Len(s) \in Int
                BY <1>1
            <3> QED
                BY ONLY <3>1, FS_Interval, Zenon
        <2> QED
            BY <1>1, <2>1
    <1>8. ExistsBijection(1 .. Len(s), Ids(s))
        BY <1>6 DEF ExistsBijection
    <1> QED
        BY <1>7, <1>8, FS_Bijection

\* What is lost adds up.
LEMMA LostCardinality ==
    ASSUME NEW A, NEW B, IsFiniteSet(A), IsFiniteSet(B), A \cap B = {}
    PROVE  IsFiniteSet(A \cup B) /\ Cardinality(A \cup B) = Cardinality(A) + Cardinality(B)
              /\ Cardinality(A) \in Nat /\ Cardinality(B) \in Nat
    <1>1. IsFiniteSet(A \cup B)
             /\ Cardinality(A \cup B) = Cardinality(A) + Cardinality(B) - Cardinality(A \cap B)
        BY FS_Union
    <1>2. Cardinality(A \cap B) = 0
        BY FS_EmptySet
    <1>3. Cardinality(A) \in Nat /\ Cardinality(B) \in Nat
        BY FS_CardinalityType
    <1> QED
        BY <1>1, <1>2, <1>3


\* There are as many elements in a queue without repetition as positions.
LEMMA SetCardinality ==
    ASSUME NEW S, NEW s \in Seq(S), \A i, j \in DOMAIN s : i # j => s[i] # s[j]
    PROVE  IsFiniteSet(ToSet(s)) /\ Cardinality(ToSet(s)) = Len(s)
    <1>1. DOMAIN s = 1 .. Len(s) /\ Len(s) \in Nat /\ s \in [1 .. Len(s) -> S]
        BY LenProperties
    <1>2. s \in [1 .. Len(s) -> ToSet(s)]
             /\ \A a \in ToSet(s) : \E i \in 1 .. Len(s) : s[i] = a
        BY <1>1 DEF ToSet
    <1>3. s \in Bijection(1 .. Len(s), ToSet(s))
        BY <1>1, <1>2 DEF Bijection, Injection, Surjection, IsInjective
    <1>4. IsFiniteSet(1 .. Len(s)) /\ Cardinality(1 .. Len(s)) = Len(s)
        <2>1. /\ IsFiniteSet(1 .. Len(s))
              /\ Cardinality(1 .. Len(s)) = IF 1 > Len(s) THEN 0 ELSE Len(s) - 1 + 1
            <3>1. 1 \in Int /\ Len(s) \in Int
                BY <1>1
            <3> QED
                BY ONLY <3>1, FS_Interval, Zenon
        <2> QED
            BY <1>1, <2>1
    <1>5. ExistsBijection(1 .. Len(s), ToSet(s))
        BY <1>3 DEF ExistsBijection
    <1> QED
        BY <1>4, <1>5, FS_Bijection

LEMMA FiniteEmitted ==
    ASSUME NEW A, emitted \in Seq([def : Def, ts : 0 .. MaxTime]), A \subseteq Emitted
    PROVE  IsFiniteSet(A)
    <1>1. 1 \in Int /\ Len(emitted) \in Int
        OBVIOUS
    <1>2. IsFiniteSet(1 .. Len(emitted))
        BY ONLY <1>1, FS_Interval, Zenon
    <1> QED
        BY <1>2, FS_Subset DEF Emitted

-----------------------------------------------------------------------------
(* Who holds what: the events *)

LEMMA EventTypes ==
    ASSUME TypeOK
    PROVE  /\ emitted \in Seq([def : Def, ts : 0 .. MaxTime]) /\ Len(emitted) \in Nat
           /\ eventQueue \in Seq(Id) /\ Len(eventQueue) \in Nat
           /\ logged \in Seq(Id) /\ Len(logged) \in Nat
           /\ logged \o eventQueue \in Seq(Id)
    BY ConcatProperties DEF TypeOK

\* What the tick leaves of the clip of an event: a count, a pending job or a
\* loss, whether it survives its prints or not.
Handed(id) ==
    \/ clipDrops' = clipDrops + 1 /\ UNCHANGED <<pending, clipsLost>>
    \/ /\ window # << >> /\ worker # "gone" /\ Len(pending) < PENDING_CAP
       /\ pending' = Append(pending, JobFor(id))
       /\ UNCHANGED <<clipDrops, clipsLost>>
    \/ clipsLost' = clipsLost \cup {id} /\ UNCHANGED <<pending, clipDrops>>

LEMMA EmitGrows ==
    ASSUME TypeOK, NEW d \in Def, Emit(d)
    PROVE  /\ emitted' \in Seq([def : Def, ts : 0 .. MaxTime])
           /\ Len(emitted') = Len(emitted) + 1 /\ Len(emitted) + 1 \in Id
           /\ Emitted' = Emitted \cup {Len(emitted) + 1}
           /\ \A a \in Emitted : a < Len(emitted) + 1
           /\ Publish(Len(emitted) + 1) /\ Handed(Len(emitted) + 1)
           /\ ticking' \in BOOLEAN
    <1>1. /\ emitted' = Append(emitted, [def |-> d, ts |-> clock])
          /\ Len(emitted) + 1 <= MaxEvents
          /\ ticking \in BOOLEAN
          /\ \/ Publish(Len(emitted) + 1) /\ OnEvent(Len(emitted) + 1)
             \/ PublishPanics(Len(emitted) + 1)
        BY DEF Emit, TypeOK
    <1> DEFINE id == Len(emitted) + 1
    <1> HIDE DEF id
    <1>5. ASSUME Publish(id), OnEvent(id)
          PROVE  Publish(id) /\ Handed(id) /\ ticking' \in BOOLEAN
        <2>1. Handed(id)
            BY <1>5 DEF OnEvent, Handed
        <2>2. ticking' \in BOOLEAN
            BY <1>1, <1>5, EvidenceAssumption DEF OnEvent
        <2>3. Publish(id)
            BY <1>5
        <2> QED
            BY ONLY <2>1, <2>2, <2>3
    <1>6. ASSUME PublishPanics(id)
          PROVE  Publish(id) /\ Handed(id) /\ ticking' \in BOOLEAN
        <2>1. /\ Publish(id) /\ ticking' = FALSE
              /\ clipsLost' = clipsLost \cup {id} /\ UNCHANGED <<pending, clipDrops>>
            BY <1>6 DEF PublishPanics
        <2>2. Handed(id)
            BY <2>1 DEF Handed
        <2>3. ticking' \in BOOLEAN
            BY <2>1
        <2> QED
            BY ONLY <2>1, <2>2, <2>3
    <1>7. Publish(id) /\ Handed(id) /\ ticking' \in BOOLEAN
        BY <1>1, <1>5, <1>6 DEF id
    <1>2. emitted \in Seq([def : Def, ts : 0 .. MaxTime]) /\ Len(emitted) \in Nat
        BY EventTypes
    <1>3. [def |-> d, ts |-> clock] \in [def : Def, ts : 0 .. MaxTime]
        BY DEF TypeOK
    <1>4. /\ emitted' \in Seq([def : Def, ts : 0 .. MaxTime])
          /\ Len(emitted') = Len(emitted) + 1
        BY <1>1, <1>2, <1>3, AppendProperties
    <1> QED
        BY <1>1, <1>2, <1>4, <1>7 DEF Emitted, Id, id

LEMMA LogNext ==
    ASSUME TypeOK, Hands, LogInLine, [Next]_vars
    PROVE  LogInLine'
    <1> DEFINE G == logged \o eventQueue
               Good(s) == /\ \A i, j \in DOMAIN s : i < j => s[i] < s[j]
                          /\ ToSet(s) \subseteq Emitted
    <1>1. G \in Seq(Id) /\ Good(G) /\ eventsLost \subseteq Emitted
        BY EventTypes DEF LogInLine
    <1>2. CASE UNCHANGED events
        BY <1>2 DEF LogInLine, events, Emitted
    <1>3. ASSUME NEW d \in Def, Emit(d) PROVE LogInLine'
        <2> DEFINE id == Len(emitted) + 1
        <2>1. /\ Emitted' = Emitted \cup {id} /\ \A a \in Emitted : a < id
              /\ Publish(id) /\ id \in Id
            BY <1>3, EmitGrows
        <2>2. logged' = logged
            BY <1>3 DEF Emit
        <2> HIDE DEF id
        <2>3. CASE eventQueue' = Append(eventQueue, id) /\ eventsLost' = eventsLost
            <3>1. G' = Append(G, id)
                <4>1. logged \in Seq(Id) /\ eventQueue \in Seq(Id) /\ id \in Id
                    BY <2>1, EventTypes
                <4>2. logged \o Append(eventQueue, id) = Append(logged \o eventQueue, id)
                    BY ONLY <4>1, AppendConcat
                <4> QED
                    BY <2>2, <2>3, <4>2
            <3>2. ToSet(G') = ToSet(G) \cup {id}
                BY <1>1, <2>1, <3>1, ToSetAppend
            <3>3. /\ DOMAIN G' = 1 .. Len(G) + 1 /\ DOMAIN G = 1 .. Len(G)
                  /\ Len(G) \in Nat /\ G'[Len(G) + 1] = id
                  /\ \A i \in 1 .. Len(G) : G'[i] = G[i]
                BY <1>1, <2>1, <3>1, AppendProperties, LenProperties
            <3> HIDE DEF G
            <3>4. \A i \in 1 .. Len(G) : G[i] \in Emitted
                BY <1>1, <3>3 DEF ToSet
            <3>5. ASSUME NEW i \in 1 .. Len(G) + 1, NEW j \in 1 .. Len(G) + 1, i < j
                  PROVE  G'[i] < G'[j]
                <4>1. i \in 1 .. Len(G)
                    BY <3>3, <3>5
                <4>2. CASE j = Len(G) + 1
                    BY <2>1, <3>3, <3>4, <4>1, <4>2
                <4>3. CASE j # Len(G) + 1
                    <5>1. j \in 1 .. Len(G)
                        BY <3>3, <4>3
                    <5> QED
                        BY <1>1, <3>3, <3>5, <4>1, <5>1
                <4> QED
                    BY <4>2, <4>3
            <3>6. /\ \A i, j \in DOMAIN G' : i < j => G'[i] < G'[j]
                  /\ ToSet(G') \subseteq Emitted'
                BY <1>1, <2>1, <3>2, <3>3, <3>5
            <3> QED
                BY <1>1, <2>1, <2>3, <3>6 DEF LogInLine, G
        <2>4. CASE UNCHANGED eventQueue /\ eventsLost' \subseteq eventsLost \cup {id}
            BY <1>1, <2>1, <2>2, <2>4 DEF LogInLine
        <2> QED
            BY <2>1, <2>3, <2>4 DEF Publish
    <1>4. CASE Log
        <2>1. G' = G
            BY <1>4, EventTypes, ShiftConcat DEF Log
        <2>2. UNCHANGED <<eventsLost, emitted>>
            BY <1>4 DEF Log
        <2> QED
            BY <1>1, <2>1, <2>2 DEF LogInLine, Emitted
    <1>5. CASE ConsumerDies
        <2>1. /\ logged' = logged /\ eventQueue' = << >> /\ emitted' = emitted
              /\ eventsLost' = eventsLost \cup ToSet(eventQueue)
            BY <1>5 DEF ConsumerDies
        <2>2. G' = logged
            BY <2>1, EventTypes, ConcatEmptySeq
        <2>3. /\ DOMAIN logged = 1 .. Len(logged) /\ DOMAIN eventQueue = 1 .. Len(eventQueue)
              /\ DOMAIN G = 1 .. Len(logged) + Len(eventQueue)
              /\ \A i \in 1 .. Len(logged) : G[i] = logged[i]
              /\ \A i \in 1 .. Len(eventQueue) : G[Len(logged) + i] = eventQueue[i]
              /\ Len(logged) \in Nat /\ Len(eventQueue) \in Nat
            BY EventTypes, ConcatProperties, LenProperties
        <2> HIDE DEF G
        <2>4. \A i \in 1 .. Len(logged) : i \in DOMAIN G
            BY <2>3
        <2>5. \A i \in 1 .. Len(eventQueue) : Len(logged) + i \in DOMAIN G
            BY <2>3
        <2>6. ToSet(logged) \subseteq ToSet(G) /\ ToSet(eventQueue) \subseteq ToSet(G)
            BY <2>3, <2>4, <2>5 DEF ToSet
        <2>7. \A i, j \in DOMAIN logged : i < j => logged[i] < logged[j]
            BY <1>1, <2>3, <2>4
        <2> QED
            BY <1>1, <2>1, <2>2, <2>6, <2>7 DEF LogInLine, Emitted, G
    <1> QED
        BY <1>2, <1>3, <1>4, <1>5 DEF Next, vars, Advance, Drain, TakeJob, Cut, Encode,
           TakeClip, CreateFails, WriteClip, EncoderDies


LEMMA DistinctNext ==
    ASSUME TypeOK, Distinct, [Next]_vars
    PROVE  Distinct'
    <1>1. CASE UNCHANGED emitted
        BY <1>1 DEF Distinct
    <1>2. ASSUME NEW d \in Def, Emit(d) PROVE Distinct'
        <2> DEFINE e == [def |-> d, ts |-> clock]
        <2>1. emitted' = Append(emitted, e) /\ e \notin ToSet(emitted)
            BY <1>2 DEF Emit
        <2>2. emitted \in Seq([def : Def, ts : 0 .. MaxTime])
                 /\ e \in [def : Def, ts : 0 .. MaxTime]
            BY DEF TypeOK
        <2> HIDE DEF e
        <2>3. /\ DOMAIN emitted' = 1 .. Len(emitted) + 1 /\ DOMAIN emitted = 1 .. Len(emitted)
              /\ Len(emitted) \in Nat /\ emitted'[Len(emitted) + 1] = e
              /\ \A i \in 1 .. Len(emitted) : emitted'[i] = emitted[i]
            BY <2>1, <2>2, AppendProperties, LenProperties
        <2>4. \A i \in 1 .. Len(emitted) : emitted[i] # e
            BY <2>1, <2>3 DEF ToSet
        <2>5. Len(emitted') <= MaxEvents
            BY <1>2, EmitGrows DEF Id
        <2> QED
            BY <2>3, <2>4, <2>5 DEF Distinct
    <1> QED
        BY <1>1, <1>2 DEF Next, vars, events, Advance, Drain, Log, ConsumerDies, TakeJob,
           Cut, Encode, TakeClip, CreateFails, WriteClip, EncoderDies

EventsCounted ==
    Len(emitted) = eventDrops + Len(eventQueue) + Len(logged) + Cardinality(eventsLost)

LEMMA EventsNext ==
    ASSUME TypeOK, Hands, LogInLine, EventsCounted, [Next]_vars
    PROVE  EventsCounted'
    <1>0. /\ IsFiniteSet(eventsLost) /\ Cardinality(eventsLost) \in Nat
          /\ eventDrops \in Nat /\ Len(emitted) \in Nat
          /\ Len(eventQueue) \in Nat /\ Len(logged) \in Nat
        <2>1. IsFiniteSet(eventsLost)
            BY EventTypes, FiniteEmitted DEF LogInLine
        <2>2. Cardinality(eventsLost) \in Nat
            BY <2>1, FS_CardinalityType
        <2> QED
            BY <2>1, <2>2, EventTypes DEF TypeOK
    <1>1. CASE UNCHANGED events
        BY <1>1 DEF EventsCounted, events
    <1>2. ASSUME NEW d \in Def, Emit(d) PROVE EventsCounted'
        <2> DEFINE id == Len(emitted) + 1
        <2>1. /\ Len(emitted') = Len(emitted) + 1 /\ id \in Id /\ Publish(id)
              /\ \A a \in Emitted : a < id
            BY <1>2, EmitGrows
        <2>2. logged' = logged
            BY <1>2 DEF Emit
        <2>3. id \notin eventsLost
            BY <2>1 DEF LogInLine, Emitted
        <2> HIDE DEF id
        <2>4. CASE /\ eventQueue' = Append(eventQueue, id)
                   /\ UNCHANGED <<eventDrops, eventsLost>>
            <3>1. Len(eventQueue') = Len(eventQueue) + 1
                <4>1. eventQueue \in Seq(Id) /\ id \in Id
                    BY <2>1, EventTypes
                <4> QED
                    BY <2>4, <4>1, AppendProperties
            <3>2. /\ eventDrops' = eventDrops /\ Len(logged') = Len(logged)
                  /\ Cardinality(eventsLost') = Cardinality(eventsLost)
                  /\ Len(emitted') = Len(emitted) + 1
                BY <2>1, <2>2, <2>4
            <3> QED
                BY ONLY <1>0, <3>1, <3>2, EventsCounted DEF EventsCounted
        <2>5. CASE eventDrops' = eventDrops + 1 /\ UNCHANGED <<eventQueue, eventsLost>>
            <3>1. /\ Len(eventQueue') = Len(eventQueue) /\ Len(logged') = Len(logged)
                  /\ Cardinality(eventsLost') = Cardinality(eventsLost)
                  /\ eventDrops' = eventDrops + 1 /\ Len(emitted') = Len(emitted) + 1
                BY <2>1, <2>2, <2>5
            <3> QED
                BY ONLY <1>0, <3>1, EventsCounted DEF EventsCounted
        <2>6. CASE /\ eventsLost' = eventsLost \cup {id}
                   /\ UNCHANGED <<eventQueue, eventDrops>>
            <3>1. Cardinality(eventsLost') = Cardinality(eventsLost) + 1
                BY <1>0, <2>3, <2>6, FS_AddElement
            <3> QED
                BY <1>0, <2>1, <2>2, <2>6, <3>1 DEF EventsCounted
        <2> QED
            BY <2>1, <2>4, <2>5, <2>6 DEF Publish
    <1>3. CASE Log
        <2>1. /\ eventQueue # << >> /\ logged' = Append(logged, Head(eventQueue))
              /\ eventQueue' = Tail(eventQueue) /\ UNCHANGED <<emitted, eventDrops, eventsLost>>
            BY <1>3 DEF Log
        <2>2. Head(eventQueue) \in Id /\ Len(eventQueue') = Len(eventQueue) - 1
            BY <2>1, EventTypes, HeadTailProperties
        <2>3. Len(logged') = Len(logged) + 1
            BY <2>1, <2>2, EventTypes, AppendProperties
        <2> QED
            BY <1>0, <2>1, <2>2, <2>3 DEF EventsCounted
    <1>4. CASE ConsumerDies
        <2>1. /\ eventsLost = {} /\ eventsLost' = ToSet(eventQueue) /\ eventQueue' = << >>
              /\ UNCHANGED <<emitted, eventDrops, logged>>
            BY <1>4 DEF ConsumerDies, Hands
        <2>2. \A i, j \in DOMAIN eventQueue : i # j => eventQueue[i] # eventQueue[j]
            <3> DEFINE G == logged \o eventQueue
            <3>1. /\ DOMAIN eventQueue = 1 .. Len(eventQueue)
                  /\ DOMAIN G = 1 .. Len(logged) + Len(eventQueue)
                  /\ \A i \in 1 .. Len(eventQueue) : G[Len(logged) + i] = eventQueue[i]
                  /\ \A i \in 1 .. Len(eventQueue) : eventQueue[i] \in Int
                BY EventTypes, ConcatProperties, LenProperties DEF Id
            <3>2. \A i, j \in DOMAIN G : i < j => G[i] < G[j]
                BY DEF LogInLine
            <3> HIDE DEF G
            <3>3. \A i \in 1 .. Len(eventQueue) : Len(logged) + i \in DOMAIN G
                BY <1>0, <3>1
            <3>4. \A i, j \in 1 .. Len(eventQueue) : i < j => eventQueue[i] < eventQueue[j]
                <4> SUFFICES ASSUME NEW i \in 1 .. Len(eventQueue),
                                    NEW j \in 1 .. Len(eventQueue), i < j
                             PROVE  eventQueue[i] < eventQueue[j]
                    OBVIOUS
                <4>1. Len(logged) + i < Len(logged) + j
                    BY <1>0
                <4> QED
                    BY <3>1, <3>2, <3>3, <4>1
            <3> SUFFICES ASSUME NEW i \in 1 .. Len(eventQueue),
                                NEW j \in 1 .. Len(eventQueue), i # j
                         PROVE  eventQueue[i] # eventQueue[j]
                BY <3>1
            <3>5. i < j \/ j < i
                BY <1>0
            <3>6. eventQueue[i] \in Int /\ eventQueue[j] \in Int
                BY <3>1
            <3> QED
                BY <3>4, <3>5, <3>6
        <2>3. Cardinality(eventsLost') = Len(eventQueue) /\ Cardinality(eventsLost) = 0
            BY <2>1, <2>2, EventTypes, SetCardinality, FS_EmptySet
        <2>4. Len(eventQueue') = 0
            BY <2>1
        <2> QED
            BY <1>0, <2>1, <2>3, <2>4 DEF EventsCounted
    <1> QED
        BY <1>1, <1>2, <1>3, <1>4 DEF Next, vars, Advance, Drain, TakeJob, Cut, Encode,
           TakeClip, CreateFails, WriteClip, EncoderDies

-----------------------------------------------------------------------------
(* Who holds what: the clips *)

LEMMA InHandNotNone == \A r \in Job \cup Clip : r # NoJob
    <1>1. \A r \in Job \cup Clip : r.id \in Id
        BY DEF Job, Clip
    <1>2. NoJob.id \notin Id
        BY DEF NoJob, Id
    <1> QED
        BY <1>1, <1>2

LEMMA ClipTypes ==
    ASSUME TypeOK, Hands
    PROVE  /\ pending \in Seq(Job) /\ encoderQueue \in Seq(Clip) /\ written \in Seq(Clip)
           /\ Len(pending) \in Nat /\ Len(encoderQueue) \in Nat /\ Len(written) \in Nat
           /\ Ids(Of(job)) = IF worker = "sleep" THEN {job.id} ELSE {}
           /\ Ids(Of(clip)) = IF encoder = "busy" THEN {clip.id} ELSE {}
    <1>1. \A r \in Job \cup Clip : r # NoJob
        BY InHandNotNone
    <1>2. Ids(Of(job)) = IF worker = "sleep" THEN {job.id} ELSE {}
        BY <1>1, IdsOf DEF Hands
    <1>3. Ids(Of(clip)) = IF encoder = "busy" THEN {clip.id} ELSE {}
        BY <1>1, IdsOf DEF Hands
    <1> QED
        BY <1>2, <1>3, LenProperties DEF TypeOK

LEMMA JobTyped ==
    ASSUME TypeOK, NEW id \in Id, window # << >>, clock + After <= MaxTime
    PROVE  JobFor(id) \in Job /\ JobFor(id).id = id
    <1>1. Last(window) \in 0 .. MaxTime
        <2>1. window \in Seq(Frame) /\ Len(window) \in Nat \ {0}
            BY EmptySeq, LenProperties DEF TypeOK
        <2>2. Len(window) \in DOMAIN window /\ window[Len(window)] \in Frame
            BY <2>1
        <2> QED
            BY <2>2 DEF Frame, Last
    <1>2. Before \in Nat /\ After \in Nat /\ MaxTime \in Nat /\ clock \in Nat
        <2>1. Before \in Nat /\ After \in Nat /\ MaxTime \in Nat
            BY EvidenceAssumption
        <2> QED
            BY <2>1 DEF TypeOK
    <1> DEFINE l == Last(window)
    <1> HIDE DEF l
    <1>3. l - Before \in Instant /\ l + After \in Instant /\ clock + After \in Instant
        BY <1>1, <1>2 DEF Instant, l
    <1> QED
        BY <1>3 DEF JobFor, Job, l

LEMMA ClipTyped ==
    ASSUME TypeOK, job \in Job
    PROVE  CutClip \in Clip /\ CutClip.id = job.id
    <1>1. Select(window, job.start .. job.end) \in Seq(Frame \cap (job.start .. job.end))
        BY SelectType DEF TypeOK
    <1>2. Select(window, job.start .. job.end) \in Seq(0 .. MaxTime)
        BY <1>1 DEF Frame
    <1> QED
        BY <1>2 DEF CutClip, Job, Clip

\* The sets of numbers of written clips, the clip in hand, the encoder's queue,
\* the job in hand, the pending jobs and the lost clips are in a row.
InRow(W, C, E, J, P, L, D) ==
    /\ Below(W, C \cup E \cup J \cup P)
    /\ Below(C, E \cup J \cup P)
    /\ Below(E, J \cup P)
    /\ Below(J, P)
    /\ W \cup C \cup E \cup J \cup P \subseteq D /\ L \subseteq D
    /\ (W \cup C \cup E \cup J \cup P) \cap L = {}

Row == InRow(Ids(written), Ids(Of(clip)), Ids(encoderQueue), Ids(Of(job)), Ids(pending),
             clipsLost, Emitted)
Rises == Rising(written) /\ Rising(encoderQueue) /\ Rising(pending)

LEMMA RowIsLine == InLine /\ Apart <=> Row /\ Rises
    BY DEF InLine, Apart, Row, Rises, InRow, Clips

LEMMA LineSame ==
    ASSUME Row, Rises, UNCHANGED <<emitted, cutting, encoding, clipsLost>>
    PROVE  Row' /\ Rises'
    BY DEF Row, Rises, cutting, encoding, Emitted, Ids, Of, Rising

LEMMA LineEmit ==
    ASSUME TypeOK, Hands, Row, Rises, NEW d \in Def, Emit(d)
    PROVE  Row' /\ Rises'
    <1> DEFINE id == Len(emitted) + 1
    <1>1. /\ Emitted' = Emitted \cup {id} /\ \A a \in Emitted : a < id
          /\ Handed(id) /\ id \in Id
        BY EmitGrows
    <1>2. UNCHANGED <<written, clip, encoderQueue, job>> /\ clock + After <= MaxTime
        BY DEF Emit, encoding
    <1> HIDE DEF id
    <1> DEFINE W == Ids(written)  C == Ids(Of(clip))  E == Ids(encoderQueue)
               J == Ids(Of(job))  P == Ids(pending)
    <1>3. /\ W' = W /\ C' = C /\ E' = E /\ J' = J
          /\ InRow(W, C, E, J, P, clipsLost, Emitted)
        BY <1>2 DEF Ids, Of, Row
    <1>4. id \notin Emitted
        BY <1>1 DEF Id
    <1>5. /\ \/ P' = P /\ clipsLost' \in {clipsLost, clipsLost \cup {id}}
             \/ P' = P \cup {id} /\ clipsLost' = clipsLost
          /\ Rising(pending)'
        <2>1. CASE /\ window # << >> /\ pending' = Append(pending, JobFor(id))
                   /\ clipsLost' = clipsLost
            <3>1. JobFor(id) \in Job /\ JobFor(id).id = id
                BY <1>1, <1>2, <2>1, JobTyped
            <3>2. \A a \in P : a < id
                BY <1>1, <1>3 DEF InRow
            <3>3. pending \in Seq(Job) /\ Rising(pending)
                BY DEF TypeOK, Rises
            <3> DEFINE e == JobFor(id)
            <3> HIDE DEF e
            <3>4. /\ Ids(Append(pending, e)) = Ids(pending) \cup {e.id}
                  /\ Rising(Append(pending, e))
                BY <3>1, <3>2, <3>3, IdsAppend DEF e
            <3> QED
                BY <2>1, <3>1, <3>4 DEF e
        <2>2. CASE pending' = pending /\ clipsLost' \in {clipsLost, clipsLost \cup {id}}
            <3>1. P' = P
                BY <2>2 DEF Ids
            <3>2. Rising(pending)'
                BY <2>2 DEF Rises, Rising
            <3> QED
                BY <2>2, <3>1, <3>2
        <2> QED
            BY <1>1, <2>1, <2>2 DEF Handed
    <1>6. Rises'
        BY <1>2, <1>5 DEF Rises
    <1> HIDE DEF W, C, E, J, P
    <1>7. InRow(W', C', E', J', P', clipsLost', Emitted')
        BY <1>1, <1>3, <1>4, <1>5 DEF InRow, Below
    <1> QED
        BY <1>6, <1>7 DEF Row, W, C, E, J, P

LEMMA LineTakeJob ==
    ASSUME TypeOK, Hands, Row, Rises, TakeJob
    PROVE  Row' /\ Rises'
    <1> DEFINE W == Ids(written)  C == Ids(Of(clip))  E == Ids(encoderQueue)
               J == Ids(Of(job))  P == Ids(pending)
    <1>1. /\ W' = W /\ C' = C /\ E' = E /\ Emitted' = Emitted /\ clipsLost' = clipsLost
          /\ UNCHANGED <<written, encoderQueue>>
        BY DEF Ids, Of, TakeJob, encoding, events, Emitted
    <1>2. /\ worker = "recv" /\ worker' = "sleep" /\ pending # << >>
          /\ job' = Head(pending) /\ pending' = Tail(pending)
        BY DEF TakeJob
    <1>3. J = {} /\ J' = {job'.id}
        <2>1. worker # "sleep"
            BY <1>2
        <2>2. J = {}
            BY <2>1, ClipTypes
        <2>3. job' \in Job /\ job' # NoJob
            BY <1>2, InHandNotNone DEF TypeOK
        <2>4. Ids(Of(job')) = {job'.id}
            BY <2>3, IdsOf
        <2> QED
            BY <2>2, <2>4
    <1>4. P = {job'.id} \cup P' /\ Rising(pending') /\ \A a \in P' : job'.id < a
        BY <1>2, IdsHeadTail DEF TypeOK, Rises
    <1>5. Rises'
        BY <1>1, <1>4 DEF Rises
    <1>6. InRow(W, C, E, J, P, clipsLost, Emitted)
        BY DEF Row
    <1> HIDE DEF W, C, E, J, P
    <1>7. InRow(W', C', E', J', P', clipsLost', Emitted')
        BY <1>1, <1>3, <1>4, <1>6 DEF InRow, Below
    <1> QED
        BY <1>5, <1>7 DEF Row, W, C, E, J, P

LEMMA LineCut ==
    ASSUME TypeOK, Hands, Row, Rises, Cut
    PROVE  Row' /\ Rises'
    <1> DEFINE W == Ids(written)  C == Ids(Of(clip))  E == Ids(encoderQueue)
               J == Ids(Of(job))  P == Ids(pending)
    <1>1. /\ W' = W /\ C' = C /\ Emitted' = Emitted /\ written' = written
        BY DEF Ids, Of, Cut, events, Emitted
    <1>2. worker = "sleep" /\ job' = NoJob
        BY DEF Cut
    <1>3. job \in Job /\ J = {job.id} /\ J' = {}
        BY <1>2, ClipTypes, IdsOf DEF Hands
    <1>4. \/ /\ E' = E \cup J /\ Rising(encoderQueue')
             /\ P' = P /\ Rising(pending') /\ clipsLost' = clipsLost
          \/ /\ E' = E /\ Rising(encoderQueue')
             /\ P' = P /\ Rising(pending') /\ clipsLost' = clipsLost
          \/ /\ E' = E /\ Rising(encoderQueue')
             /\ P' = {} /\ Rising(pending') /\ clipsLost' = clipsLost \cup J \cup P
          \/ /\ E' = E /\ Rising(encoderQueue')
             /\ P' = {} /\ Rising(pending') /\ clipsLost' = clipsLost \cup P
        <2>1. CASE /\ encoderQueue' = Append(encoderQueue, CutClip)
                   /\ UNCHANGED <<pending, clipsLost>>
            <3>1. CutClip \in Clip /\ CutClip.id = job.id
                BY <1>3, ClipTyped
            <3>2. \A a \in E : a < job.id
                BY <1>3 DEF Row, InRow, Below
            <3>3. encoderQueue \in Seq(Clip) /\ Rising(encoderQueue) /\ Rising(pending)
                BY DEF TypeOK, Rises
            <3> DEFINE e == CutClip
            <3> HIDE DEF e
            <3>4. /\ Ids(Append(encoderQueue, e)) = Ids(encoderQueue) \cup {e.id}
                  /\ Rising(Append(encoderQueue, e))
                BY <3>1, <3>2, <3>3, IdsAppend DEF e
            <3>5. P' = P /\ Rising(pending')
                BY <2>1, <3>3
            <3>6. E' = E \cup J
                BY <1>3, <2>1, <3>1, <3>4 DEF e
            <3>7. Rising(encoderQueue')
                BY <2>1, <3>4 DEF e
            <3> QED
                BY <2>1, <3>5, <3>6, <3>7
        <2>2. CASE UNCHANGED <<pending, encoderQueue, clipsLost>>
            BY <2>2 DEF Rises
        <2>3. CASE /\ clipsLost' = clipsLost \cup {job.id} \cup Ids(pending)
                   /\ pending' = << >> /\ encoderQueue' = encoderQueue
            <3>1. P' = {} /\ Rising(pending')
                BY <2>3, IdsEmpty
            <3>2. E' = E /\ Rising(encoderQueue')
                BY <2>3 DEF Rises
            <3> QED
                BY <1>3, <2>3, <3>1, <3>2
        <2>4. CASE /\ clipsLost' = clipsLost \cup Ids(pending)
                   /\ pending' = << >> /\ encoderQueue' = encoderQueue
            BY <2>4, IdsEmpty DEF Rises
        <2> QED
            BY <2>1, <2>2, <2>3, <2>4 DEF Cut
    <1>5. Rises'
        BY <1>1, <1>4 DEF Rises
    <1>6. InRow(W, C, E, J, P, clipsLost, Emitted)
        BY DEF Row
    <1>7. \A a \in Emitted : ~(a < a)
        BY DEF Emitted
    <1> HIDE DEF W, C, E, J, P
    <1>8. InRow(W', C', E', J', P', clipsLost', Emitted')
        <2>1. Below(W', C' \cup E' \cup J' \cup P')
            BY <1>1, <1>3, <1>4, <1>6 DEF InRow, Below
        <2>2. Below(C', E' \cup J' \cup P')
            BY <1>1, <1>3, <1>4, <1>6 DEF InRow, Below
        <2>3. Below(E', J' \cup P') /\ Below(J', P')
            BY <1>1, <1>3, <1>4, <1>6 DEF InRow, Below
        <2>4. /\ W' \cup C' \cup E' \cup J' \cup P' \subseteq Emitted' /\ clipsLost' \subseteq Emitted'
              /\ (W' \cup C' \cup E' \cup J' \cup P') \cap clipsLost' = {}
            BY <1>1, <1>3, <1>4, <1>6, <1>7 DEF InRow, Below
        <2> QED
            BY <2>1, <2>2, <2>3, <2>4 DEF InRow
    <1> QED
        BY <1>5, <1>8 DEF Row, W, C, E, J, P

LEMMA LineTakeClip ==
    ASSUME TypeOK, Hands, Row, Rises, TakeClip
    PROVE  Row' /\ Rises'
    <1> DEFINE W == Ids(written)  C == Ids(Of(clip))  E == Ids(encoderQueue)
               J == Ids(Of(job))  P == Ids(pending)
    <1>1. /\ W' = W /\ J' = J /\ P' = P /\ Emitted' = Emitted /\ clipsLost' = clipsLost
          /\ UNCHANGED <<written, pending>>
        BY DEF Ids, Of, TakeClip, cutting, events, Emitted
    <1>2. /\ encoder = "recv" /\ encoderQueue # << >>
          /\ clip' = Head(encoderQueue) /\ encoderQueue' = Tail(encoderQueue)
        BY DEF TakeClip
    <1>3. C = {} /\ C' = {clip'.id}
        <2>1. encoder # "busy"
            BY <1>2
        <2>2. C = {}
            BY <2>1, ClipTypes
        <2>3. clip' \in Clip /\ clip' # NoJob
            BY <1>2, InHandNotNone DEF TypeOK
        <2>4. Ids(Of(clip')) = {clip'.id}
            BY <2>3, IdsOf
        <2> QED
            BY <2>2, <2>4
    <1>4. E = {clip'.id} \cup E' /\ Rising(encoderQueue') /\ \A a \in E' : clip'.id < a
        BY <1>2, IdsHeadTail DEF TypeOK, Rises
    <1>5. Rises'
        BY <1>1, <1>4 DEF Rises
    <1>6. InRow(W, C, E, J, P, clipsLost, Emitted)
        BY DEF Row
    <1> HIDE DEF W, C, E, J, P
    <1>7. InRow(W', C', E', J', P', clipsLost', Emitted')
        <2>1. Below(W', C' \cup E' \cup J' \cup P')
            BY <1>1, <1>3, <1>4, <1>6 DEF InRow, Below
        <2>2. Below(C', E' \cup J' \cup P')
            BY <1>1, <1>3, <1>4, <1>6 DEF InRow, Below
        <2>3. Below(E', J' \cup P') /\ Below(J', P')
            BY <1>1, <1>3, <1>4, <1>6 DEF InRow, Below
        <2>4. /\ W' \cup C' \cup E' \cup J' \cup P' \subseteq Emitted' /\ clipsLost' \subseteq Emitted'
              /\ (W' \cup C' \cup E' \cup J' \cup P') \cap clipsLost' = {}
            BY <1>1, <1>3, <1>4, <1>6 DEF InRow, Below
        <2> QED
            BY <2>1, <2>2, <2>3, <2>4 DEF InRow
    <1> QED
        BY <1>5, <1>7 DEF Row, W, C, E, J, P

\* The encoder is done with its clip, one way or the other.
LEMMA LineEncoded ==
    ASSUME TypeOK, Hands, Row, Rises, CreateFails \/ WriteClip \/ EncoderDies
    PROVE  Row' /\ Rises'
    <1> DEFINE W == Ids(written)  C == Ids(Of(clip))  E == Ids(encoderQueue)
               J == Ids(Of(job))  P == Ids(pending)
    <1>1. J' = J /\ P' = P /\ Emitted' = Emitted /\ pending' = pending
        BY DEF Ids, Of, CreateFails, WriteClip, EncoderDies, cutting, events, Emitted
    <1>2. encoder = "busy" /\ clip' = NoJob
        BY DEF CreateFails, WriteClip, EncoderDies
    <1>3. clip \in Clip /\ C = {clip.id} /\ C' = {}
        BY <1>2, ClipTypes, IdsOf DEF Hands
    <1>4. \/ /\ W' = W /\ E' = E /\ clipsLost' = clipsLost \cup C
             /\ UNCHANGED <<written, encoderQueue>>
          \/ /\ W' = W \cup C /\ E' = E /\ clipsLost' = clipsLost
             /\ encoderQueue' = encoderQueue /\ Rising(written')
          \/ /\ W' = W \cup C /\ E' = {} /\ clipsLost' = clipsLost \cup E
             /\ encoderQueue' = << >> /\ Rising(written')
          \/ /\ W' = W /\ E' = {} /\ clipsLost' = clipsLost \cup C \cup E
             /\ encoderQueue' = << >> /\ written' = written
        <2>1. CASE CreateFails
            BY <1>3, <2>1 DEF CreateFails
        <2>2. written \in Seq(Clip) /\ Rising(written) /\ \A a \in W : a < clip.id
            BY <1>3 DEF TypeOK, Rises, Row, InRow, Below
        <2>3. Ids(Append(written, clip)) = W \cup C /\ Rising(Append(written, clip))
            BY <1>3, <2>2, IdsAppend
        <2>4. CASE WriteClip
            BY <2>3, <2>4 DEF WriteClip
        <2>5. CASE EncoderDies /\ written' = Append(written, clip)
            BY <2>3, <2>5, IdsEmpty DEF EncoderDies
        <2>6. CASE EncoderDies /\ written' = written
            <3>1. /\ encoderQueue' = << >> /\ E' = {} /\ W' = W
                BY <2>6, IdsEmpty DEF EncoderDies
            <3>2. written # Append(written, clip)
                BY <1>3, <2>2, AppendProperties, LenProperties
            <3>3. clipsLost' = clipsLost \cup C \cup E
                BY <1>3, <2>6, <3>2 DEF EncoderDies
            <3> QED
                BY <2>6, <3>1, <3>3
        <2> QED
            BY <2>1, <2>4, <2>5, <2>6 DEF EncoderDies
    <1>5. Rises'
        BY <1>1, <1>4, IdsEmpty DEF Rises
    <1>6. InRow(W, C, E, J, P, clipsLost, Emitted)
        BY DEF Row
    <1>7. \A a \in Emitted : ~(a < a)
        BY DEF Emitted
    <1> HIDE DEF W, C, E, J, P
    <1>8. InRow(W', C', E', J', P', clipsLost', Emitted')
        BY <1>1, <1>3, <1>4, <1>6, <1>7 DEF InRow, Below
    <1> QED
        BY <1>5, <1>8 DEF Row, W, C, E, J, P

LEMMA LineNext ==
    ASSUME TypeOK, Hands, InLine, Apart, [Next]_vars
    PROVE  InLine' /\ Apart'
    <1>1. Row /\ Rises
        BY RowIsLine
    <1>2. UNCHANGED <<emitted, cutting, encoding, clipsLost>> => Row' /\ Rises'
        BY <1>1, LineSame
    <1>3. Row' /\ Rises'
        BY <1>1, <1>2, LineEmit, LineTakeJob, LineCut, LineTakeClip, LineEncoded
           DEF Next, vars, events, Advance, Drain, Log, ConsumerDies, Encode
    <1>4. (InLine /\ Apart <=> Row /\ Rises)'
        BY RowIsLine, PTL
    <1> QED
        BY <1>3, <1>4

LEMMA HandsNext ==
    ASSUME TypeOK, Hands, [Next]_vars
    PROVE  Hands'
    <1>1. CASE UNCHANGED <<consumer, eventQueue, eventsLost, cutting, encoding>>
        BY <1>1 DEF Hands, cutting, encoding
    <1>2. ASSUME NEW d \in Def, Emit(d) PROVE Hands'
        <2> DEFINE id == Len(emitted) + 1
        <2>1. Publish(id) /\ Handed(id) /\ UNCHANGED <<consumer, worker, job, encoding>>
            BY <1>2, EmitGrows DEF Emit
        <2> HIDE DEF id
        <2>2. IF consumer THEN eventsLost' = {} ELSE eventQueue' = << >>
            BY <2>1 DEF Publish, Hands
        <2>3. worker = "gone" => pending' = << >>
            BY <2>1 DEF Handed, Hands
        <2> QED
            BY <2>1, <2>2, <2>3 DEF Hands, encoding
    <1>3. CASE Log \/ ConsumerDies
        <2>1. consumer /\ eventsLost = {}
            BY <1>3 DEF Log, ConsumerDies, Hands
        <2> QED
            BY <1>3, <2>1 DEF Log, ConsumerDies, Hands, cutting, encoding
    <1>4. CASE TakeJob
        <2>1. Head(pending) \in Job
            BY <1>4, HeadTailProperties DEF TakeJob, TypeOK
        <2> QED
            BY <1>4, <2>1 DEF TakeJob, Hands, events, encoding
    <1>5. CASE Cut
        <2>1. /\ worker' \in {"recv", "gone"} /\ job' = NoJob
              /\ worker' = "gone" => pending' = << >>
              /\ encoder = "gone" => encoderQueue' = encoderQueue
              /\ UNCHANGED <<events, encoder, clip>>
            BY <1>5 DEF Cut
        <2> QED
            BY <2>1 DEF Hands, events
    <1>6. CASE TakeClip
        <2>1. Head(encoderQueue) \in Clip
            BY <1>6, HeadTailProperties DEF TakeClip, TypeOK
        <2> QED
            BY <1>6, <2>1 DEF TakeClip, Hands, events, cutting
    <1>7. CASE CreateFails \/ WriteClip \/ EncoderDies
        BY <1>7 DEF CreateFails, WriteClip, EncoderDies, Hands, events, cutting
    <1> QED
        BY <1>1, <1>2, <1>3, <1>4, <1>5, <1>6, <1>7
           DEF Next, vars, events, Advance, Drain, Encode

\* How many clips are where.
Events == Len(emitted)
Waiting == Len(pending)
Sleeping == Busy(worker = "sleep")
Queued == Len(encoderQueue)
Encoding == Busy(encoder = "busy")
Writes == Len(written)
Losses == Cardinality(clipsLost)

ClipsCounted ==
    Events = clipDrops + Waiting + Sleeping + Queued + Encoding + Writes + Losses

Counts ==
    /\ Events \in Nat /\ clipDrops \in Nat /\ Waiting \in Nat /\ Sleeping \in Nat
    /\ Queued \in Nat /\ Encoding \in Nat /\ Writes \in Nat /\ Losses \in Nat

\* The sets of numbers that may be lost, and how many each holds.
LEMMA LostSets ==
    ASSUME TypeOK, Hands, Row, Rises
    PROVE  /\ Counts
           /\ IsFiniteSet(clipsLost) /\ Cardinality(clipsLost) = Losses
           /\ IsFiniteSet(Ids(pending)) /\ Cardinality(Ids(pending)) = Waiting
           /\ IsFiniteSet(Ids(encoderQueue)) /\ Cardinality(Ids(encoderQueue)) = Queued
    <1>1. /\ clipsLost \subseteq Emitted /\ Ids(pending) \subseteq Emitted
          /\ Ids(encoderQueue) \subseteq Emitted /\ Emitted \subseteq Int
          /\ Rising(pending) /\ Rising(encoderQueue)
        BY DEF Row, InRow, Rises, Emitted
    <1>2. IsFiniteSet(clipsLost) /\ Cardinality(clipsLost) \in Nat
        <2>1. IsFiniteSet(clipsLost)
            BY <1>1, FiniteEmitted DEF TypeOK
        <2> QED
            BY <2>1, FS_CardinalityType
    <1>3. /\ pending \in Seq(Job) /\ encoderQueue \in Seq(Clip)
          /\ Len(pending) \in Nat /\ Len(encoderQueue) \in Nat /\ Len(written) \in Nat
        BY ClipTypes
    <1>4. IsFiniteSet(Ids(pending)) /\ Cardinality(Ids(pending)) = Len(pending)
        BY <1>1, <1>3, IdsCardinality
    <1>5. /\ IsFiniteSet(Ids(encoderQueue))
          /\ Cardinality(Ids(encoderQueue)) = Len(encoderQueue)
        BY <1>1, <1>3, IdsCardinality
    <1>6. Events \in Nat /\ clipDrops \in Nat
        BY EventTypes DEF TypeOK, Events
    <1>7. Sleeping \in Nat /\ Encoding \in Nat
        BY DEF Sleeping, Encoding, Busy
    <1>8. Waiting \in Nat /\ Queued \in Nat /\ Writes \in Nat /\ Losses \in Nat
        BY <1>2, <1>3 DEF Waiting, Queued, Writes, Losses
    <1> QED
        BY <1>2, <1>4, <1>5, <1>6, <1>7, <1>8 DEF Counts, Waiting, Queued, Losses

LEMMA CountedEmit ==
    ASSUME TypeOK, Hands, Row, Rises, ClipsCounted, NEW d \in Def, Emit(d)
    PROVE  ClipsCounted'
    <1> DEFINE id == Len(emitted) + 1
    <1>1. /\ Len(emitted') = Len(emitted) + 1 /\ Handed(id) /\ id \in Id
          /\ \A a \in Emitted : a < id
        BY EmitGrows
    <1>2. UNCHANGED <<written, encoderQueue, worker, encoder>> /\ clock + After <= MaxTime
        BY DEF Emit, encoding
    <1>3. id \notin clipsLost
        BY <1>1 DEF Row, InRow, Emitted
    <1>4. Events' = Events + 1
        BY <1>1 DEF Events
    <1>5. UNCHANGED <<Sleeping, Queued, Encoding, Writes>>
        BY <1>2 DEF Sleeping, Queued, Encoding, Writes
    <1> HIDE DEF id
    <1>6. \/ clipDrops' = clipDrops + 1 /\ UNCHANGED <<Waiting, Losses>>
          \/ Waiting' = Waiting + 1 /\ UNCHANGED <<clipDrops, Losses>>
          \/ Losses' = Losses + 1 /\ UNCHANGED <<clipDrops, Waiting>>
        <2>1. CASE clipDrops' = clipDrops + 1 /\ UNCHANGED <<pending, clipsLost>>
            BY <2>1 DEF Waiting, Losses
        <2>2. CASE /\ window # << >> /\ pending' = Append(pending, JobFor(id))
                   /\ UNCHANGED <<clipDrops, clipsLost>>
            <3>1. JobFor(id) \in Job /\ pending \in Seq(Job)
                BY <1>1, <1>2, <2>2, JobTyped, ClipTypes
            <3> DEFINE e == JobFor(id)
            <3> HIDE DEF e
            <3>2. Len(Append(pending, e)) = Len(pending) + 1
                BY <3>1, AppendProperties DEF e
            <3>3. Waiting' = Waiting + 1
                BY <2>2, <3>2 DEF e, Waiting
            <3>4. UNCHANGED <<clipDrops, Losses>>
                BY <2>2 DEF Losses
            <3> QED
                BY <3>3, <3>4
        <2>3. CASE clipsLost' = clipsLost \cup {id} /\ UNCHANGED <<pending, clipDrops>>
            <3>1. Cardinality(clipsLost') = Cardinality(clipsLost) + 1
                BY <1>3, <2>3, LostSets, FS_AddElement
            <3> QED
                BY <2>3, <3>1 DEF Losses, Waiting
        <2> QED
            BY <1>1, <2>1, <2>2, <2>3 DEF Handed
    <1>7. Counts
        BY LostSets
    <1>8. CASE clipDrops' = clipDrops + 1 /\ UNCHANGED <<Waiting, Losses>>
        BY ONLY <1>4, <1>5, <1>7, <1>8, ClipsCounted DEF ClipsCounted, Counts
    <1>9. CASE Waiting' = Waiting + 1 /\ UNCHANGED <<clipDrops, Losses>>
        BY ONLY <1>4, <1>5, <1>7, <1>9, ClipsCounted DEF ClipsCounted, Counts
    <1>10. CASE Losses' = Losses + 1 /\ UNCHANGED <<clipDrops, Waiting>>
        BY ONLY <1>4, <1>5, <1>7, <1>10, ClipsCounted DEF ClipsCounted, Counts
    <1> QED
        BY <1>6, <1>8, <1>9, <1>10

LEMMA CountedTakeJob ==
    ASSUME TypeOK, Hands, Row, Rises, ClipsCounted, TakeJob
    PROVE  ClipsCounted'
    <1>1. UNCHANGED <<Events, clipDrops, Queued, Encoding, Writes, Losses>>
        BY DEF TakeJob, events, encoding, Events, Queued, Encoding, Writes, Losses
    <1>2. Len(Tail(pending)) = Len(pending) - 1
        BY ClipTypes, HeadTailProperties DEF TakeJob
    <1>3. Waiting' = Waiting - 1
        BY <1>2 DEF TakeJob, Waiting
    <1>4. Sleeping = 0 /\ Sleeping' = 1
        BY DEF TakeJob, Sleeping, Busy
    <1>5. Counts
        BY LostSets
    <1> QED
        BY ONLY <1>1, <1>3, <1>4, <1>5, ClipsCounted DEF ClipsCounted, Counts

LEMMA CountedCut ==
    ASSUME TypeOK, Hands, Row, Rises, ClipsCounted, Cut
    PROVE  ClipsCounted'
    <1>1. UNCHANGED <<Events, Encoding, Writes>>
        BY DEF Cut, events, Events, Encoding, Writes
    <1>2. Sleeping = 1 /\ Sleeping' = 0
        <2>1. worker = "sleep" /\ worker' \in {"recv", "gone"}
            BY DEF Cut
        <2> QED
            BY <2>1 DEF Sleeping, Busy
    <1>3. job \in Job /\ Ids(Of(job)) = {job.id}
        BY ClipTypes DEF Cut, Hands
    <1>4. \/ Queued' = Queued + 1 /\ UNCHANGED <<clipDrops, Waiting, Losses>>
          \/ clipDrops' = clipDrops + 1 /\ UNCHANGED <<Queued, Waiting, Losses>>
          \/ /\ Losses' = Losses + (Waiting + 1) /\ Waiting' = 0
             /\ UNCHANGED <<clipDrops, Queued>>
          \/ /\ Losses' = Losses + Waiting /\ Waiting' = 0
             /\ clipDrops' = clipDrops + 1 /\ UNCHANGED Queued
        <2>1. CASE /\ encoderQueue' = Append(encoderQueue, CutClip)
                   /\ UNCHANGED <<pending, clipDrops, clipsLost>>
            <3>1. CutClip \in Clip /\ encoderQueue \in Seq(Clip)
                BY <1>3, ClipTyped, ClipTypes
            <3> DEFINE e == CutClip
            <3> HIDE DEF e
            <3>2. Len(Append(encoderQueue, e)) = Len(encoderQueue) + 1
                BY <3>1, AppendProperties DEF e
            <3>3. Queued' = Queued + 1
                BY <2>1, <3>2 DEF e, Queued
            <3>4. UNCHANGED <<clipDrops, Waiting, Losses>>
                BY <2>1 DEF Losses, Waiting
            <3> QED
                BY <3>3, <3>4
        <2>2. CASE clipDrops' = clipDrops + 1 /\ UNCHANGED <<pending, encoderQueue, clipsLost>>
            BY <2>2 DEF Losses, Waiting, Queued
        <2>3. CASE /\ clipsLost' = clipsLost \cup {job.id} \cup Ids(pending)
                   /\ pending' = << >> /\ UNCHANGED <<clipDrops, encoderQueue>>
            <3> DEFINE A == clipsLost  B == Ids(pending)  C == {job.id} \cup B
            <3>1. /\ IsFiniteSet(A) /\ IsFiniteSet(B) /\ Cardinality(B) = Waiting
                  /\ Cardinality(A) = Losses
                BY LostSets
            <3>2. A \cap C = {} /\ job.id \notin B
                BY <1>3 DEF Row, InRow, Below, Emitted
            <3>3. IsFiniteSet(C) /\ Cardinality(C) = Waiting + 1
                BY <3>1, <3>2, FS_AddElement
            <3> HIDE DEF A, B, C
            <3>4. Cardinality(A \cup C) = Cardinality(A) + Cardinality(C)
                BY <3>1, <3>2, <3>3, LostCardinality
            <3>5. clipsLost' = A \cup C
                BY <2>3 DEF A, B, C
            <3>6. Losses' = Losses + (Waiting + 1)
                BY <3>1, <3>3, <3>4, <3>5 DEF Losses
            <3>7. Waiting' = 0 /\ UNCHANGED <<clipDrops, Queued>>
                BY <2>3 DEF Waiting, Queued
            <3> QED
                BY <3>6, <3>7
        <2>4. CASE /\ clipsLost' = clipsLost \cup Ids(pending) /\ pending' = << >>
                   /\ clipDrops' = clipDrops + 1 /\ UNCHANGED encoderQueue
            <3>1. Ids(pending) \cap clipsLost = {}
                BY DEF Row, InRow
            <3>2. Cardinality(clipsLost \cup Ids(pending)) = Losses + Waiting
                BY <3>1, LostSets, LostCardinality
            <3> QED
                BY <2>4, <3>2 DEF Losses, Waiting, Queued
        <2> QED
            BY <2>1, <2>2, <2>3, <2>4 DEF Cut
    <1>5. Counts
        BY LostSets
    <1> QED
        BY ONLY <1>1, <1>2, <1>4, <1>5, ClipsCounted DEF ClipsCounted, Counts

LEMMA CountedTakeClip ==
    ASSUME TypeOK, Hands, Row, Rises, ClipsCounted, TakeClip
    PROVE  ClipsCounted'
    <1>1. UNCHANGED <<Events, clipDrops, Waiting, Sleeping, Writes, Losses>>
        BY DEF TakeClip, events, cutting, Events, Waiting, Sleeping, Writes, Losses
    <1>2. Len(Tail(encoderQueue)) = Len(encoderQueue) - 1
        BY ClipTypes, HeadTailProperties DEF TakeClip
    <1>3. Queued' = Queued - 1
        BY <1>2 DEF TakeClip, Queued
    <1>4. Encoding = 0 /\ Encoding' = 1
        BY DEF TakeClip, Encoding, Busy
    <1>5. Counts
        BY LostSets
    <1> QED
        BY ONLY <1>1, <1>3, <1>4, <1>5, ClipsCounted DEF ClipsCounted, Counts

LEMMA CountedEncoded ==
    ASSUME TypeOK, Hands, Row, Rises, ClipsCounted, CreateFails \/ WriteClip \/ EncoderDies
    PROVE  ClipsCounted'
    <1>1. UNCHANGED <<Events, clipDrops, Waiting, Sleeping>>
        BY DEF CreateFails, WriteClip, EncoderDies, events, cutting, Events, Waiting, Sleeping
    <1>2. Encoding = 1 /\ Encoding' = 0
        <2>1. encoder = "busy" /\ encoder' \in {"recv", "gone"}
            BY DEF CreateFails, WriteClip, EncoderDies
        <2> QED
            BY <2>1 DEF Encoding, Busy
    <1>3. clip \in Clip /\ Ids(Of(clip)) = {clip.id}
        BY ClipTypes DEF CreateFails, WriteClip, EncoderDies, Hands
    <1>4. Len(Append(written, clip)) = Len(written) + 1
        BY <1>3, ClipTypes, AppendProperties
    <1>5. \/ Losses' = Losses + 1 /\ UNCHANGED <<Queued, Writes>>
          \/ Writes' = Writes + 1 /\ UNCHANGED <<Queued, Losses>>
          \/ Writes' = Writes + 1 /\ Losses' = Losses + Queued /\ Queued' = 0
          \/ Losses' = Losses + (Queued + 1) /\ Queued' = 0 /\ UNCHANGED Writes
        <2>1. CASE CreateFails
            <3>1. clip.id \notin clipsLost
                BY <1>3 DEF Row, InRow
            <3>2. Cardinality(clipsLost \cup {clip.id}) = Cardinality(clipsLost) + 1
                BY <3>1, LostSets, FS_AddElement
            <3> QED
                BY <2>1, <3>2 DEF CreateFails, Losses, Queued, Writes
        <2>2. CASE WriteClip
            BY <1>4, <2>2 DEF WriteClip, Losses, Queued, Writes
        <2>3. CASE EncoderDies
            <3> DEFINE A == clipsLost  B == Ids(encoderQueue)  C == {clip.id} \cup B
            <3>1. /\ IsFiniteSet(A) /\ IsFiniteSet(B) /\ Cardinality(B) = Queued
                  /\ Cardinality(A) = Losses
                BY LostSets
            <3>2. A \cap C = {} /\ clip.id \notin B
                BY <1>3 DEF Row, InRow, Below, Emitted
            <3>3. IsFiniteSet(C) /\ Cardinality(C) = Queued + 1
                BY <3>1, <3>2, FS_AddElement
            <3>4. \/ clipsLost' = A \cup B /\ written' = Append(written, clip)
                  \/ clipsLost' = A \cup C /\ written' = written
                BY <2>3 DEF EncoderDies
            <3>5. Queued' = 0
                BY <2>3 DEF EncoderDies, Queued
            <3> HIDE DEF A, B
            <3>6. A \cap B = {}
                BY <3>2
            <3> HIDE DEF C
            <3>7. /\ Cardinality(A \cup B) = Cardinality(A) + Cardinality(B)
                  /\ Cardinality(A \cup C) = Cardinality(A) + Cardinality(C)
                BY <3>1, <3>2, <3>3, <3>6, LostCardinality
            <3> QED
                BY <1>4, <3>1, <3>3, <3>4, <3>5, <3>7 DEF Losses, Writes
        <2> QED
            BY <2>1, <2>2, <2>3
    <1>6. Counts
        BY LostSets
    <1> QED
        BY ONLY <1>1, <1>2, <1>5, <1>6, ClipsCounted DEF ClipsCounted, Counts

LEMMA ClipsCountedNext ==
    ASSUME TypeOK, Hands, Row, Rises, ClipsCounted, [Next]_vars
    PROVE  ClipsCounted'
    <1>1. CASE UNCHANGED <<emitted, cutting, encoding, clipDrops, clipsLost>>
        BY <1>1 DEF ClipsCounted, cutting, encoding, Events, Waiting, Sleeping, Queued,
                    Encoding, Writes, Losses
    <1> QED
        BY <1>1, CountedEmit, CountedTakeJob, CountedCut, CountedTakeClip, CountedEncoded
           DEF Next, vars, events, Advance, Drain, Log, ConsumerDies, Encode

LEMMA AccountedMeans == Accounted <=> EventsCounted /\ ClipsCounted
    BY DEF Accounted, EventsCounted, ClipsCounted, Events, Waiting, Sleeping, Queued,
           Encoding, Writes, Losses

LEMMA DropsBounded ==
    ASSUME TypeOK, Hands, Row, Rises, LogInLine, Distinct, EventsCounted, ClipsCounted
    PROVE  /\ eventDrops <= Len(emitted) /\ Len(emitted) <= MaxEvents
           /\ eventDrops \in Nat /\ clipDrops \in Nat /\ Len(emitted) \in Nat
           /\ clipDrops <= Len(emitted)
           /\ worker = "sleep" => clipDrops + 1 <= Len(emitted)
    <1>1. /\ Len(emitted) \in Nat /\ eventDrops \in Nat /\ Len(eventQueue) \in Nat
          /\ Len(logged) \in Nat /\ Cardinality(eventsLost) \in Nat
        <2>1. IsFiniteSet(eventsLost)
            BY EventTypes, FiniteEmitted DEF LogInLine
        <2>2. Cardinality(eventsLost) \in Nat
            BY <2>1, FS_CardinalityType
        <2> QED
            BY <2>2, EventTypes DEF TypeOK
    <1>2. eventDrops <= Len(emitted)
        BY <1>1 DEF EventsCounted
    <1>3. Counts
        BY LostSets
    <1>4. clipDrops + Sleeping <= Events
        BY ONLY <1>3, ClipsCounted DEF ClipsCounted, Counts
    <1>5. worker = "sleep" => Sleeping = 1
        BY DEF Sleeping, Busy
    <1> QED
        BY <1>1, <1>2, <1>3, <1>4, <1>5 DEF Counts, Events, Distinct

\* Elements of queues and the sequences made of them.
LEMMA TypeEmit ==
    ASSUME TypeOK, Hands, Row, Rises, LogInLine, Distinct, EventsCounted, ClipsCounted,
           NEW d \in Def, Emit(d)
    PROVE  TypeOK'
    <1> DEFINE id == Len(emitted) + 1
    <1>1. /\ emitted' \in Seq([def : Def, ts : 0 .. MaxTime])
          /\ id \in Id /\ Publish(id) /\ Handed(id) /\ ticking' \in BOOLEAN
        BY EmitGrows
    <1>2. /\ UNCHANGED <<clock, window, seen, consumer, logged, worker, job, encoderQueue,
                         encoder, clip, written>>
          /\ clock + After <= MaxTime
        BY DEF Emit, encoding, filming
    <1>3. /\ eventDrops \in Nat /\ eventDrops + 1 <= MaxEvents
          /\ clipDrops \in Nat /\ clipDrops + 1 <= MaxEvents
        BY <1>1, DropsBounded DEF Id
    <1> HIDE DEF id
    <1>4. /\ eventQueue' \in Seq(Id) /\ Len(eventQueue') <= EventCap
          /\ eventDrops' \in 0 .. MaxEvents /\ eventsLost' \subseteq Id
        <2>1. /\ eventQueue \in Seq(Id) /\ Len(eventQueue) <= EventCap
              /\ eventDrops \in 0 .. MaxEvents /\ eventsLost \subseteq Id
              /\ EventCap \in Nat
            BY DEF TypeOK
        <2>2. CASE /\ Len(eventQueue) < EventCap /\ eventQueue' = Append(eventQueue, id)
                   /\ UNCHANGED <<eventDrops, eventsLost>>
            BY <1>1, <2>1, <2>2, AppendProperties
        <2>3. CASE eventDrops' = eventDrops + 1 /\ UNCHANGED <<eventQueue, eventsLost>>
            <3>1. eventDrops' \in 0 .. MaxEvents
                BY <1>3, <2>3
            <3> QED
                BY <2>1, <2>3, <3>1
        <2>4. CASE eventsLost' = eventsLost \cup {id} /\ UNCHANGED <<eventQueue, eventDrops>>
            BY <1>1, <2>1, <2>4
        <2> QED
            BY <1>1, <2>2, <2>3, <2>4 DEF Publish
    <1>5. /\ pending' \in Seq(Job) /\ Len(pending') <= PENDING_CAP
          /\ clipDrops' \in 0 .. MaxEvents /\ clipsLost' \subseteq Id
        <2>1. /\ pending \in Seq(Job) /\ Len(pending) <= PENDING_CAP
              /\ clipDrops \in 0 .. MaxEvents /\ clipsLost \subseteq Id
              /\ PENDING_CAP \in Nat
            BY DEF TypeOK
        <2>2. CASE /\ window # << >> /\ Len(pending) < PENDING_CAP
                   /\ pending' = Append(pending, JobFor(id))
                   /\ UNCHANGED <<clipDrops, clipsLost>>
            <3>1. JobFor(id) \in Job
                BY <1>1, <1>2, <2>2, JobTyped
            <3> DEFINE e == JobFor(id)
            <3> HIDE DEF e
            <3>2. Append(pending, e) \in Seq(Job) /\ Len(Append(pending, e)) = Len(pending) + 1
                BY <2>1, <3>1, AppendProperties DEF e
            <3>3. pending' \in Seq(Job) /\ Len(pending') = Len(pending) + 1
                BY <2>2, <3>2 DEF e
            <3>4. Len(pending) \in Nat /\ Len(pending) < PENDING_CAP
                BY <2>1, <2>2
            <3> QED
                BY <2>1, <2>2, <3>3, <3>4
        <2>3. CASE clipDrops' = clipDrops + 1 /\ UNCHANGED <<pending, clipsLost>>
            <3>1. clipDrops' \in 0 .. MaxEvents
                BY <1>3, <2>3
            <3> QED
                BY <2>1, <2>3, <3>1
        <2>4. CASE clipsLost' = clipsLost \cup {id} /\ UNCHANGED <<pending, clipDrops>>
            BY <1>1, <2>1, <2>4
        <2> QED
            BY <1>1, <2>2, <2>3, <2>4 DEF Handed
    <1> QED
        BY <1>1, <1>2, <1>4, <1>5 DEF TypeOK

LEMMA TypeNext ==
    ASSUME TypeOK, Hands, Row, Rises, LogInLine, Distinct, EventsCounted, ClipsCounted,
           [Next]_vars
    PROVE  TypeOK'
    <1>1. CASE UNCHANGED vars
        BY <1>1 DEF vars, filming, events, cutting, encoding, TypeOK
    <1>2. CASE Advance
        <2>1. clock' \in 0 .. MaxTime
            BY <1>2 DEF Advance, TypeOK
        <2> QED
            BY <1>2, <2>1 DEF Advance, events, cutting, encoding, TypeOK
    <1>3. ASSUME NEW ts \in Frame, Drain(ts) PROVE TypeOK'
        <2>1. /\ window \in Seq(Frame) /\ Len(window) <= Capacity /\ Len(window) \in Nat
              /\ Capacity \in Nat
            BY LenProperties DEF TypeOK
        <2>2. window' \in Seq(Frame) /\ Len(window') <= Capacity
            <3> DEFINE a == Append(window, ts)
            <3>1. /\ a \in Seq(Frame) /\ Len(a) = Len(window) + 1 /\ a # << >>
                BY <1>3, <2>1, AppendProperties
            <3>2. window' = IF Len(a) > Capacity THEN Tail(a) ELSE a
                BY <1>3 DEF Drain, Buffer!Push, Buffer!LastOf
            <3> HIDE DEF a
            <3>3. Tail(a) \in Seq(Frame) /\ Len(Tail(a)) = Len(a) - 1
                BY <3>1, HeadTailProperties
            <3> QED
                BY <2>1, <3>1, <3>2, <3>3
        <2>3. seen' \subseteq Frame
            BY <1>3 DEF Drain, TypeOK
        <2> QED
            BY <1>3, <2>2, <2>3 DEF Drain, events, cutting, encoding, TypeOK
    <1>4. ASSUME NEW d \in Def, Emit(d) PROVE TypeOK'
        BY <1>4, TypeEmit
    <1>5. CASE Log
        <2>1. /\ eventQueue \in Seq(Id) /\ eventQueue # << >> /\ logged \in Seq(Id)
              /\ Len(eventQueue) <= EventCap /\ EventCap \in Nat
            BY <1>5 DEF Log, TypeOK
        <2>2. /\ Tail(eventQueue) \in Seq(Id) /\ Head(eventQueue) \in Id
              /\ Len(Tail(eventQueue)) = Len(eventQueue) - 1 /\ Len(eventQueue) \in Nat
            BY <2>1, HeadTailProperties, LenProperties
        <2>3. Append(logged, Head(eventQueue)) \in Seq(Id)
            BY <2>1, <2>2, AppendProperties
        <2>4. Len(Tail(eventQueue)) <= EventCap
            BY <2>1, <2>2
        <2> QED
            BY <1>5, <2>2, <2>3, <2>4 DEF Log, filming, cutting, encoding, TypeOK
    <1>6. CASE ConsumerDies
        <2>1. ToSet(eventQueue) \subseteq Id
            BY DEF TypeOK, ToSet
        <2>2. << >> \in Seq(Id) /\ Len(<< >>) <= EventCap
            BY DEF TypeOK
        <2> QED
            BY <1>6, <2>1, <2>2 DEF ConsumerDies, filming, cutting, encoding, TypeOK
    <1>7. CASE TakeJob
        <2>1. pending \in Seq(Job) /\ pending # << >> /\ Len(pending) <= PENDING_CAP
            BY <1>7 DEF TakeJob, TypeOK
        <2>2. /\ Tail(pending) \in Seq(Job) /\ Head(pending) \in Job
              /\ Len(Tail(pending)) = Len(pending) - 1 /\ Len(pending) \in Nat
            BY <2>1, HeadTailProperties, LenProperties
        <2>3. Len(Tail(pending)) <= PENDING_CAP
            BY <2>1, <2>2
        <2> QED
            BY <1>7, <2>2, <2>3 DEF TakeJob, filming, events, encoding, TypeOK
    <1>8. CASE Cut
        <2>1. /\ job' = NoJob /\ worker' \in {"recv", "gone"} /\ worker = "sleep"
              /\ UNCHANGED <<filming, events, encoder, clip, written>>
            BY <1>8 DEF Cut
        <2>2. job \in Job /\ job.id \in Id
            BY <2>1 DEF Hands, Job
        <2>3. clipDrops \in Nat /\ clipDrops + 1 <= MaxEvents
            BY <2>1, DropsBounded DEF TypeOK
        <2>4. CASE /\ Len(encoderQueue) < EncoderCap
                   /\ encoderQueue' = Append(encoderQueue, CutClip)
                   /\ UNCHANGED <<pending, clipDrops, clipsLost>>
            <3>1. CutClip \in Clip
                BY <2>2, ClipTyped
            <3> DEFINE e == CutClip
            <3> HIDE DEF e
            <3>2. /\ Append(encoderQueue, e) \in Seq(Clip) /\ Len(encoderQueue) \in Nat
                  /\ Len(Append(encoderQueue, e)) = Len(encoderQueue) + 1
                BY <3>1, ClipTypes, AppendProperties DEF e
            <3>3. encoderQueue' \in Seq(Clip) /\ Len(encoderQueue') = Len(encoderQueue) + 1
                BY <2>4, <3>2 DEF e
            <3>4. Len(encoderQueue') <= EncoderCap
                BY <2>4, <3>2, <3>3
            <3> QED
                BY <2>1, <2>4, <3>3, <3>4 DEF filming, events, TypeOK
        <2>5. CASE clipDrops' = clipDrops + 1 /\ UNCHANGED <<pending, encoderQueue, clipsLost>>
            <3>1. clipDrops' \in 0 .. MaxEvents
                BY <2>3, <2>5
            <3> QED
                BY <2>1, <2>5, <3>1 DEF filming, events, TypeOK
        <2>6. CASE /\ clipsLost' = clipsLost \cup {job.id} \cup Ids(pending)
                   /\ pending' = << >> /\ UNCHANGED <<clipDrops, encoderQueue>>
            <3>1. Ids(pending) \subseteq Id
                <4>1. \A i \in DOMAIN pending : pending[i] \in Job
                    BY DEF TypeOK
                <4> QED
                    BY <4>1 DEF Ids, Job
            <3>2. clipsLost' \subseteq Id
                BY <2>2, <2>6, <3>1 DEF TypeOK
            <3>3. << >> \in Seq(Job) /\ Len(<< >>) <= PENDING_CAP
                BY DEF TypeOK
            <3> QED
                BY <2>1, <2>6, <3>2, <3>3 DEF filming, events, TypeOK
        <2>7. CASE /\ clipsLost' = clipsLost \cup Ids(pending) /\ pending' = << >>
                   /\ clipDrops' = clipDrops + 1 /\ UNCHANGED encoderQueue
            <3>1. \A i \in DOMAIN pending : pending[i] \in Job
                BY DEF TypeOK
            <3>2. clipsLost' \subseteq Id
                BY <2>7, <3>1 DEF TypeOK, Ids, Job
            <3>3. << >> \in Seq(Job) /\ Len(<< >>) <= PENDING_CAP
                BY DEF TypeOK
            <3>4. clipDrops' \in 0 .. MaxEvents
                BY <2>3, <2>7
            <3> QED
                BY <2>1, <2>7, <3>2, <3>3, <3>4 DEF filming, events, TypeOK
        <2> QED
            BY <1>8, <2>4, <2>5, <2>6, <2>7 DEF Cut
    <1>9. CASE TakeClip
        <2>1. /\ encoderQueue \in Seq(Clip) /\ encoderQueue # << >>
              /\ Len(encoderQueue) <= EncoderCap
            BY <1>9 DEF TakeClip, TypeOK
        <2>2. /\ Tail(encoderQueue) \in Seq(Clip) /\ Head(encoderQueue) \in Clip
              /\ Len(Tail(encoderQueue)) = Len(encoderQueue) - 1 /\ Len(encoderQueue) \in Nat
            BY <2>1, HeadTailProperties, LenProperties
        <2>3. Len(Tail(encoderQueue)) <= EncoderCap
            BY <2>1, <2>2
        <2> QED
            BY <1>9, <2>2, <2>3 DEF TakeClip, filming, events, cutting, TypeOK
    <1>10. CASE CreateFails \/ WriteClip \/ EncoderDies
        <2>1. clip \in Clip /\ clip.id \in Id
            BY <1>10 DEF CreateFails, WriteClip, EncoderDies, Hands, Clip
        <2>2. Append(written, clip) \in Seq(Clip)
            BY <2>1, ClipTypes, AppendProperties
        <2>3. Ids(encoderQueue) \subseteq Id
            <3>1. \A i \in DOMAIN encoderQueue : encoderQueue[i] \in Clip
                BY DEF TypeOK
            <3> QED
                BY <3>1 DEF Ids, Clip
        <2>4. << >> \in Seq(Clip) /\ Len(<< >>) <= EncoderCap
            BY DEF TypeOK
        <2>5. /\ written' \in Seq(Clip) /\ clip' = NoJob /\ encoder' \in {"recv", "gone"}
              /\ encoderQueue' \in {encoderQueue, << >>} /\ clipsLost' \subseteq Id
              /\ UNCHANGED <<filming, events, cutting, clipDrops>>
            BY <1>10, <2>1, <2>2, <2>3 DEF CreateFails, WriteClip, EncoderDies, TypeOK
        <2> QED
            BY <2>4, <2>5 DEF filming, events, cutting, TypeOK
    <1> QED
        BY <1>1, <1>2, <1>3, <1>4, <1>5, <1>6, <1>7, <1>8, <1>9, <1>10 DEF Next, Encode

-----------------------------------------------------------------------------
(* The invariant, and what it gives *)

LEMMA InvMeans ==
    Inv <=> /\ TypeOK /\ Hands /\ EventsCounted /\ ClipsCounted /\ InLine /\ Apart
            /\ LogInLine /\ Distinct
    BY AccountedMeans DEF Inv

LEMMA InvInit == Init => Inv
    <1> SUFFICES ASSUME Init PROVE Inv
        OBVIOUS
    <1>1. /\ emitted = << >> /\ logged = << >> /\ eventQueue = << >> /\ written = << >>
          /\ encoderQueue = << >> /\ pending = << >> /\ job = NoJob /\ clip = NoJob
          /\ clipsLost = {} /\ eventsLost = {} /\ worker = "recv" /\ encoder = "recv"
          /\ eventDrops = 0 /\ clipDrops = 0 /\ consumer \in BOOLEAN
        BY EvidenceAssumption DEF Init
    <1>2. \A n \in {MaxTime, MaxEvents, Capacity, EventCap, PENDING_CAP, EncoderCap} : n \in Nat
        OBVIOUS
    <1>3. TypeOK
        BY <1>1, <1>2 DEF Init, TypeOK
    <1>4. Hands
        BY <1>1 DEF Hands
    <1>5. Cardinality({}) = 0
        BY FS_EmptySet
    <1>6. EventsCounted
        BY <1>1, <1>5 DEF EventsCounted
    <1>7. ClipsCounted
        BY <1>1, <1>5 DEF ClipsCounted, Events, Waiting, Sleeping, Queued, Encoding, Writes,
                          Losses, Busy
    <1>8. /\ Ids(written) = {} /\ Ids(encoderQueue) = {} /\ Ids(pending) = {}
          /\ Ids(Of(clip)) = {} /\ Ids(Of(job)) = {} /\ Rises
        BY <1>1, IdsEmpty, IdsOf DEF Rises
    <1>9. InLine /\ Apart
        BY <1>1, <1>8, RowIsLine DEF Row, InRow, Below
    <1>10. logged \o eventQueue = << >>
        BY <1>1
    <1>11. LogInLine
        BY <1>1, <1>10 DEF LogInLine, ToSet
    <1>12. Distinct
        BY <1>1, <1>2 DEF Distinct
    <1> QED
        BY <1>3, <1>4, <1>6, <1>7, <1>9, <1>11, <1>12, InvMeans

LEMMA InvNext == Inv /\ [Next]_vars => Inv'
    <1> SUFFICES ASSUME Inv, [Next]_vars PROVE Inv'
        OBVIOUS
    <1>1. /\ TypeOK /\ Hands /\ EventsCounted /\ ClipsCounted /\ InLine /\ Apart
          /\ LogInLine /\ Distinct /\ Row /\ Rises
        BY InvMeans, RowIsLine
    <1>2. TypeOK'
        BY <1>1, TypeNext
    <1>3. Hands' /\ InLine' /\ Apart'
        BY <1>1, HandsNext, LineNext
    <1>4. EventsCounted' /\ ClipsCounted'
        BY <1>1, EventsNext, ClipsCountedNext
    <1>5. LogInLine' /\ Distinct'
        BY <1>1, LogNext, DistinctNext
    <1>6. (Inv <=> /\ TypeOK /\ Hands /\ EventsCounted /\ ClipsCounted /\ InLine /\ Apart
                   /\ LogInLine /\ Distinct)'
        BY InvMeans, PTL
    <1> QED
        BY <1>2, <1>3, <1>4, <1>5, <1>6

LEMMA InvAlways == Spec => []Inv
    BY InvInit, InvNext, PTL DEF Spec

\* The frame buffer, the queues, the two threads and their drop counters keep
\* their types, and no queue grows beyond its bound (publisher.rs, clips/lib.rs).
THEOREM TypeCorrect == Spec => []TypeOK
    <1>1. Inv => TypeOK
        BY DEF Inv
    <1> QED
        BY <1>1, InvAlways, PTL

\* Every event, and every clip, is in one place or in one counter: nothing
\* vanishes between the tick, the consumer, the worker and the encoder.
THEOREM AccountedHolds == Spec => []Accounted
    <1>1. Inv => Accounted
        BY DEF Inv
    <1> QED
        BY <1>1, InvAlways, PTL

\* Sequences of records whose numbers rise, in a row.
LEMMA RisingConcat ==
    ASSUME NEW S, NEW s \in Seq(S), NEW t \in Seq(S), Rising(s), Rising(t),
           Below(Ids(s), Ids(t))
    PROVE  s \o t \in Seq(S) /\ Rising(s \o t) /\ Ids(s \o t) = Ids(s) \cup Ids(t)
    <1> DEFINE u == s \o t
    <1>1. /\ u \in Seq(S) /\ DOMAIN u = 1 .. Len(s) + Len(t)
          /\ DOMAIN s = 1 .. Len(s) /\ DOMAIN t = 1 .. Len(t)
          /\ Len(s) \in Nat /\ Len(t) \in Nat
          /\ \A i \in 1 .. Len(s) : u[i] = s[i]
          /\ \A i \in 1 .. Len(t) : u[Len(s) + i] = t[i]
        BY ConcatProperties, LenProperties
    <1> HIDE DEF u
    <1>2. ASSUME NEW i \in 1 .. Len(s) + Len(t)
          PROVE  \/ i \in 1 .. Len(s) /\ u[i] = s[i]
                 \/ /\ ~(i \in 1 .. Len(s)) /\ i - Len(s) \in 1 .. Len(t)
                    /\ u[i] = t[i - Len(s)]
        <2>1. CASE i <= Len(s)
            BY <1>1, <2>1
        <2>2. CASE i > Len(s)
            <3>1. i - Len(s) \in 1 .. Len(t) /\ Len(s) + (i - Len(s)) = i
                BY <1>1, <2>2
            <3> QED
                BY <1>1, <2>2, <3>1
        <2> QED
            BY <1>1, <2>1, <2>2
    <1>3. Rising(u)
        <2> SUFFICES ASSUME NEW i \in 1 .. Len(s) + Len(t), NEW j \in 1 .. Len(s) + Len(t),
                            i < j
                     PROVE  u[i].id < u[j].id
            BY <1>1 DEF Rising
        <2>1. CASE i \in 1 .. Len(s) /\ j \in 1 .. Len(s)
            BY <1>1, <2>1 DEF Rising
        <2>2. CASE i \in 1 .. Len(s) /\ ~(j \in 1 .. Len(s))
            <3>1. s[i].id \in Ids(s) /\ t[j - Len(s)].id \in Ids(t)
                BY <1>1, <1>2, <2>2 DEF Ids
            <3> QED
                BY <1>2, <2>2, <3>1 DEF Below
        <2>3. CASE ~(i \in 1 .. Len(s))
            <3>1. ~(j \in 1 .. Len(s)) /\ i - Len(s) < j - Len(s)
                BY <1>1, <2>3
            <3>2. /\ i - Len(s) \in DOMAIN t /\ j - Len(s) \in DOMAIN t
                  /\ u[i] = t[i - Len(s)] /\ u[j] = t[j - Len(s)]
                BY <1>1, <1>2, <2>3, <3>1
            <3> QED
                BY <3>1, <3>2 DEF Rising
        <2> QED
            BY <2>1, <2>2, <2>3
    <1>4. Ids(u) = Ids(s) \cup Ids(t)
        <2>1. \A i \in 1 .. Len(s) : i \in DOMAIN u
            BY <1>1
        <2>2. \A i \in 1 .. Len(t) : Len(s) + i \in DOMAIN u
            BY <1>1
        <2>3. \A i \in 1 .. Len(s) : s[i].id \in Ids(u)
            BY <1>1, <2>1 DEF Ids
        <2>4. \A i \in 1 .. Len(t) : t[i].id \in Ids(u)
            BY <1>1, <2>2 DEF Ids
        <2>5. Ids(u) \subseteq Ids(s) \cup Ids(t)
            BY <1>1, <1>2 DEF Ids
        <2>6. Ids(s) \subseteq Ids(u) /\ Ids(t) \subseteq Ids(u)
            BY <1>1, <2>3, <2>4 DEF Ids
        <2> QED
            BY <2>5, <2>6
    <1> QED
        BY <1>1, <1>3, <1>4 DEF u

LEMMA InvInOrder == Inv => InOrder
    <1> SUFFICES ASSUME Inv PROVE InOrder
        OBVIOUS
    <1>1. TypeOK /\ Hands /\ Row /\ Rises /\ LogInLine
        BY RowIsLine DEF Inv
    <1> DEFINE S == Job \cup Clip
    <1>2. /\ written \in Seq(S) /\ encoderQueue \in Seq(S) /\ pending \in Seq(S)
          /\ Of(clip) \in Seq(S) /\ Of(job) \in Seq(S)
          /\ Rising(Of(clip)) /\ Rising(Of(job))
        <2>1. \A r : Rising(Of(r))
            BY DEF Rising, Of
        <2>2. ASSUME NEW r \in S \cup {NoJob} PROVE Of(r) \in Seq(S)
            <3>1. CASE r = NoJob
                BY <3>1 DEF Of
            <3>2. CASE r # NoJob
                <4>1. r \in S /\ Of(r) = <<r>>
                    BY <3>2 DEF Of
                <4> HIDE DEF S
                <4> QED
                    BY <4>1
            <3> QED
                BY <3>1, <3>2
        <2>3. job \in S \cup {NoJob} /\ clip \in S \cup {NoJob}
            BY <1>1 DEF TypeOK
        <2>4. /\ written \in Seq(Clip) /\ encoderQueue \in Seq(Clip) /\ pending \in Seq(Job)
            BY <1>1 DEF TypeOK
        <2> QED
            BY <2>1, <2>2, <2>3, <2>4
    <1> HIDE DEF S
    <1> DEFINE a == written \o Of(clip)  b == a \o encoderQueue  c == b \o Of(job)
               e == c \o pending
    <1>3. a \in Seq(S) /\ Rising(a) /\ Ids(a) = Ids(written) \cup Ids(Of(clip))
        BY <1>1, <1>2, RisingConcat DEF Row, InRow, Rises, Below
    <1> HIDE DEF a
    <1>4. b \in Seq(S) /\ Rising(b) /\ Ids(b) = Ids(a) \cup Ids(encoderQueue)
        <2>1. Below(Ids(a), Ids(encoderQueue)) /\ Rising(encoderQueue)
            BY <1>1, <1>3 DEF Row, InRow, Rises, Below
        <2>2. a \in Seq(S) /\ encoderQueue \in Seq(S) /\ Rising(a)
            BY <1>2, <1>3
        <2> QED
            BY ONLY <2>1, <2>2, RisingConcat
    <1> HIDE DEF b
    <1>5. c \in Seq(S) /\ Rising(c) /\ Ids(c) = Ids(b) \cup Ids(Of(job))
        <2>1. Below(Ids(b), Ids(Of(job)))
            BY <1>1, <1>3, <1>4 DEF Row, InRow, Below
        <2>2. b \in Seq(S) /\ Of(job) \in Seq(S) /\ Rising(b) /\ Rising(Of(job))
            BY <1>2, <1>4
        <2> QED
            BY ONLY <2>1, <2>2, RisingConcat
    <1> HIDE DEF c
    <1>6. e \in Seq(S) /\ Rising(e)
        <2>1. Below(Ids(c), Ids(pending)) /\ Rising(pending)
            BY <1>1, <1>3, <1>4, <1>5 DEF Row, InRow, Rises, Below
        <2> QED
            BY <1>2, <1>5, <2>1, RisingConcat
    <1>7. \A i, j \in DOMAIN e : i < j => e[i].id < e[j].id
        BY <1>6 DEF Rising
    <1> QED
        BY <1>1, <1>7 DEF InOrder, LogInLine, a, b, c

\* The log and the clips are in the order of the events they are of, however
\* many were dropped or lost on the way.
THEOREM InOrderHolds == Spec => []InOrder
    BY InvInOrder, InvAlways, PTL

\* No two definitions with one event type.
TypesDiffer == \A d, e \in Def : TypeOf[d] = TypeOf[e] => d = e

LEMMA InvOwnDirectory == Inv /\ TypesDiffer => OwnDirectory
    <1> SUFFICES ASSUME Inv, TypesDiffer,
                        NEW i \in DOMAIN written, NEW j \in DOMAIN written,
                        Directory(written[i]) = Directory(written[j])
                 PROVE  i = j
        BY DEF OwnDirectory
    <1>1. TypeOK /\ Row /\ Rises /\ Distinct
        BY RowIsLine DEF Inv
    <1> DEFINE m == written[i].id  n == written[j].id
    <1>2. m \in DOMAIN emitted /\ n \in DOMAIN emitted
        <2>1. m \in Ids(written) /\ n \in Ids(written)
            BY DEF Ids
        <2>2. Ids(written) \subseteq 1 .. Len(emitted)
            BY <1>1 DEF Row, InRow, Emitted
        <2> QED
            BY <1>1, <2>1, <2>2, LenProperties DEF TypeOK
    <1>3. /\ emitted[m] \in [def : Def, ts : 0 .. MaxTime]
          /\ emitted[n] \in [def : Def, ts : 0 .. MaxTime]
        <2> HIDE DEF m, n
        <2> DEFINE R == [def : Def, ts : 0 .. MaxTime]
        <2>1. emitted \in Seq(R)
            BY <1>1 DEF TypeOK
        <2> HIDE DEF R
        <2>2. emitted[m] \in R /\ emitted[n] \in R
            BY <1>2, <2>1
        <2> QED
            BY <2>2 DEF R
    <1>4. emitted[m].def = emitted[n].def /\ emitted[m].ts = emitted[n].ts
        <2>1. TypeOf[emitted[m].def] = TypeOf[emitted[n].def] /\ emitted[m].ts = emitted[n].ts
            BY DEF Directory
        <2> QED
            BY <1>3, <2>1 DEF TypesDiffer
    <1>5. emitted[m] = emitted[n]
        BY <1>4, <1>3
    <1>6. m = n
        BY <1>1, <1>2, <1>5 DEF Distinct
    <1>7. i \in Nat /\ j \in Nat /\ m \in Int
        <2>1. /\ written \in Seq(Clip)
              /\ emitted \in Seq([def : Def, ts : 0 .. MaxTime])
            BY <1>1 DEF TypeOK
        <2>2. DOMAIN written = 1 .. Len(written) /\ DOMAIN emitted = 1 .. Len(emitted)
            BY <2>1, LenProperties
        <2> HIDE DEF m, n
        <2> QED
            BY <1>2, <2>2
    <1> QED
        BY <1>1, <1>6, <1>7 DEF Rises, Rising

\* Where every definition has an event type of its own, every written clip has
\* a directory of its own.  Nothing in the configuration asks for that, and
\* with two definitions of one type EvidencePipelineOwnDirectory shows two
\* clips in one directory.
THEOREM OwnDirectoryHolds ==
    ASSUME TypesDiffer
    PROVE  Spec => []OwnDirectory
    <1>1. Inv => OwnDirectory
        BY InvOwnDirectory
    <1> QED
        BY <1>1, InvAlways, PTL

-----------------------------------------------------------------------------
(* Clips are whole: the buffer *)

Climbs(s) == \A i, j \in DOMAIN s : i < j => s[i] < s[j]

LEMMA ClimbsAppend ==
    ASSUME NEW S, NEW s \in Seq(S), NEW e \in S, Climbs(s), \A f \in ToSet(s) : f < e
    PROVE  Climbs(Append(s, e))
    <1> DEFINE t == Append(s, e)
    <1>1. /\ DOMAIN t = 1 .. Len(s) + 1 /\ DOMAIN s = 1 .. Len(s) /\ Len(s) \in Nat
          /\ t[Len(s) + 1] = e /\ \A i \in 1 .. Len(s) : t[i] = s[i]
        BY AppendProperties, LenProperties
    <1> HIDE DEF t
    <1> SUFFICES ASSUME NEW i \in 1 .. Len(s) + 1, NEW j \in 1 .. Len(s) + 1, i < j
                 PROVE  t[i] < t[j]
        BY <1>1 DEF Climbs, t
    <1>2. i \in 1 .. Len(s) /\ t[i] = s[i] /\ s[i] \in ToSet(s)
        BY <1>1 DEF ToSet
    <1>3. CASE j = Len(s) + 1
        BY <1>1, <1>2, <1>3
    <1>4. CASE j # Len(s) + 1
        <2>1. j \in 1 .. Len(s)
            BY <1>1, <1>4
        <2> QED
            BY <1>1, <1>2, <2>1 DEF Climbs
    <1> QED
        BY <1>3, <1>4

LEMMA ClimbsTail ==
    ASSUME NEW S, NEW s \in Seq(S), s # << >>, Climbs(s)
    PROVE  Climbs(Tail(s)) /\ \A f \in ToSet(Tail(s)) : Head(s) < f
    <1> DEFINE t == Tail(s)
    <1>1. /\ DOMAIN t = 1 .. Len(s) - 1 /\ DOMAIN s = 1 .. Len(s) /\ Len(s) \in Nat \ {0}
          /\ Head(s) = s[1] /\ \A i \in 1 .. Len(s) - 1 : t[i] = s[i + 1]
        BY HeadTailProperties, LenProperties, EmptySeq
    <1> HIDE DEF t
    <1>2. ASSUME NEW i \in 1 .. Len(s) - 1
          PROVE  i + 1 \in 1 .. Len(s) /\ 1 \in 1 .. Len(s) /\ 1 < i + 1 /\ t[i] = s[i + 1]
        BY <1>1
    <1>3. Climbs(t)
        <2> SUFFICES ASSUME NEW i \in 1 .. Len(s) - 1, NEW j \in 1 .. Len(s) - 1, i < j
                     PROVE  t[i] < t[j]
            BY <1>1 DEF Climbs
        <2>1. i + 1 < j + 1
            OBVIOUS
        <2> QED
            BY <1>1, <1>2, <2>1 DEF Climbs
    <1>4. ASSUME NEW i \in 1 .. Len(s) - 1 PROVE Head(s) < t[i]
        <2>1. i + 1 \in DOMAIN s /\ 1 \in DOMAIN s /\ 1 < i + 1 /\ t[i] = s[i + 1]
            BY <1>1, <1>2
        <2> QED
            BY <1>1, <2>1 DEF Climbs
    <1>5. \A f \in ToSet(t) : Head(s) < f
        BY <1>1, <1>4 DEF ToSet
    <1> QED
        BY <1>3, <1>5 DEF t

LEMMA FilmTypes ==
    ASSUME TypeOK
    PROVE  /\ window \in Seq(Frame) /\ Len(window) \in Nat /\ Len(window) <= Capacity
           /\ ToSet(window) \subseteq Int /\ seen \subseteq Int
           /\ clock \in Nat /\ Capacity \in Nat /\ Capacity > 0
           /\ Before \in Nat /\ After \in Nat /\ Lag \in Nat /\ MaxDelay \in Nat
    <1>1. window \in Seq(Frame) /\ Len(window) \in Nat /\ Len(window) <= Capacity
        BY LenProperties DEF TypeOK
    <1>2. ToSet(window) \subseteq Frame
        BY <1>1 DEF ToSet
    <1>3. Before \in Nat /\ After \in Nat /\ Lag \in Nat /\ MaxDelay \in Nat
        BY EvidenceAssumption
    <1>4. Capacity \in Nat /\ Capacity > 0
        BY <1>3
    <1>5. clock \in Nat /\ Frame \subseteq Int /\ seen \subseteq Frame
        BY DEF TypeOK, Frame
    <1> QED
        BY <1>1, <1>2, <1>3, <1>4, <1>5

LEMMA SeenNext ==
    ASSUME TypeOK, Seen, [Next]_vars
    PROVE  Seen'
    <1>1. CASE UNCHANGED filming
        BY <1>1 DEF Seen, Ascending, filming
    <1>2. CASE Advance
        <2>1. UNCHANGED <<window, seen>> /\ clock' = clock + 1
            BY <1>2 DEF Advance
        <2>2. \A ts \in seen : ts <= clock'
            BY <2>1, FilmTypes DEF Seen
        <2> QED
            BY <2>1, <2>2 DEF Seen, Ascending
    <1>3. ASSUME NEW ts \in Frame, Drain(ts) PROVE Seen'
        <2> DEFINE a == Append(window, ts)
        <2>1. /\ ts \notin seen /\ \A t \in seen : t < ts
              /\ ts <= clock /\ clock' = clock /\ seen' = seen \cup {ts}
              /\ window' = IF Len(a) > Capacity THEN Tail(a) ELSE a
            BY <1>3 DEF Drain, Buffer!Push, Buffer!LastOf
        <2>2. /\ ToSet(a) = ToSet(window) \cup {ts} /\ Climbs(a) /\ a \in Seq(Frame)
              /\ Len(a) = Len(window) + 1 /\ a # << >>
            <3>1. Climbs(window) /\ \A f \in ToSet(window) : f < ts
                BY <2>1 DEF Seen, Ascending, Climbs
            <3> QED
                <4>1. window \in Seq(Frame) /\ ts \in Frame
                    BY FilmTypes
                <4>2. Climbs(a)
                    BY <3>1, <4>1, ClimbsAppend
                <4>3. ToSet(a) = ToSet(window) \cup {ts}
                    BY <4>1, ToSetAppend
                <4>4. a \in Seq(Frame) /\ Len(a) = Len(window) + 1
                    BY <4>1, AppendProperties
                <4>5. a # << >>
                    <5>1. Len(a) # 0
                        BY <4>1, <4>4, LenProperties
                    <5> HIDE DEF a
                    <5> QED
                        BY ONLY <4>4, <5>1, EmptySeq
                <4> QED
                    BY <4>2, <4>3, <4>4, <4>5
        <2> HIDE DEF a
        <2>3. \A t \in seen' : t <= clock'
            BY <2>1 DEF Seen
        <2>4. CASE Len(a) > Capacity
            <3>1. /\ window' = Tail(a) /\ ToSet(a) = {Head(a)} \cup ToSet(Tail(a))
                  /\ Climbs(Tail(a)) /\ \A f \in ToSet(Tail(a)) : Head(a) < f
                  /\ Len(Tail(a)) = Len(a) - 1
                BY <2>1, <2>2, <2>4, ToSetHeadTail, ClimbsTail, HeadTailProperties
            <3>2. Len(window') = Capacity
                BY <2>2, <2>4, <3>1, FilmTypes
            <3>3. ToSet(window') \subseteq seen'
                BY <2>1, <2>2, <3>1 DEF Seen
            <3>4. ASSUME NEW t \in seen' \ ToSet(window'), NEW f \in ToSet(window')
                  PROVE  t < f
                <4>1. CASE t \in ToSet(a)
                    BY <3>1, <3>4, <4>1
                <4>2. CASE t \notin ToSet(a)
                    <5>1. t \in seen \ ToSet(window)
                        BY <2>1, <2>2, <4>2
                    <5>2. f \in ToSet(window) \/ f = ts
                        BY <2>2, <3>1
                    <5> QED
                        BY <2>1, <5>1, <5>2 DEF Seen
                <4> QED
                    BY <4>1, <4>2
            <3> QED
                BY <2>3, <3>1, <3>2, <3>3, <3>4 DEF Seen, Ascending, Climbs
        <2>5. CASE ~(Len(a) > Capacity)
            <3>1. window' = a /\ Len(window) # Capacity
                BY <2>1, <2>2, <2>5, FilmTypes
            <3>2. seen \subseteq ToSet(window)
                BY <3>1 DEF Seen
            <3>3. seen' \ ToSet(window') = {} /\ ToSet(window') \subseteq seen'
                BY <2>1, <2>2, <3>1, <3>2 DEF Seen
            <3> QED
                BY <2>2, <2>3, <3>1, <3>3 DEF Seen, Ascending, Climbs
        <2> QED
            BY <2>4, <2>5
    <1> QED
        BY <1>1, <1>2, <1>3 DEF Next, vars, Emit, Log, ConsumerDies, TakeJob, Cut, Encode,
           TakeClip, CreateFails, WriteClip, EncoderDies

-----------------------------------------------------------------------------
(* Clips are whole: the jobs *)

LEMMA JobsTyped ==
    ASSUME TypeOK, Hands
    PROVE  /\ Jobs \subseteq Job
           /\ ToSet(Of(job)) = IF worker = "sleep" THEN {job} ELSE {}
           /\ \A j \in Job : j.start \in Int /\ j.end \in Int /\ j.fireAt \in Int
    <1>1. ToSet(Of(job)) = IF worker = "sleep" THEN {job} ELSE {}
        <2>1. ToSet(Of(NoJob)) = {}
            BY DEF Of, ToSet
        <2>2. \A r : r # NoJob => ToSet(Of(r)) = {r}
            BY DEF Of, ToSet
        <2> QED
            BY <2>1, <2>2, InHandNotNone DEF Hands
    <1>2. ToSet(pending) \subseteq Job
        <2>1. \A i \in DOMAIN pending : pending[i] \in Job
            BY DEF TypeOK
        <2> QED
            BY <2>1 DEF ToSet
    <1>3. Instant \subseteq Int
        BY DEF Instant
    <1> QED
        BY <1>1, <1>2, <1>3 DEF Jobs, Hands, Job

\* A job is old, or it is the one an event has just been given.
LEMMA JobsNext ==
    ASSUME TypeOK, Hands, [Next]_vars
    PROVE  \/ Jobs' \subseteq Jobs
           \/ /\ UNCHANGED filming /\ window # << >> /\ clock + After <= MaxTime
              /\ \E id \in Id : Jobs' \subseteq Jobs \cup {JobFor(id)}
    <1>1. CASE UNCHANGED <<pending, job>>
        BY <1>1 DEF Jobs
    <1>2. ASSUME NEW d \in Def, Emit(d), ~UNCHANGED <<pending, job>>
          PROVE  /\ UNCHANGED filming /\ window # << >> /\ clock + After <= MaxTime
                 /\ \E id \in Id : Jobs' \subseteq Jobs \cup {JobFor(id)}
        <2> DEFINE id == Len(emitted) + 1
        <2>1. Handed(id) /\ id \in Id
            BY <1>2, EmitGrows
        <2>2. UNCHANGED filming /\ job' = job /\ clock + After <= MaxTime
            BY <1>2 DEF Emit
        <2> HIDE DEF id
        <2>3. window # << >> /\ pending' = Append(pending, JobFor(id))
            BY <1>2, <2>1, <2>2 DEF Handed
        <2>4. JobFor(id) \in Job /\ pending \in Seq(Job)
            BY <2>1, <2>2, <2>3, JobTyped, ClipTypes
        <2> DEFINE e == JobFor(id)
        <2> HIDE DEF e
        <2>5. ToSet(pending') = ToSet(pending) \cup {e}
            BY <2>3, <2>4, ToSetAppend DEF e
        <2>6. Jobs' \subseteq Jobs \cup {e}
            BY <2>2, <2>5 DEF Jobs
        <2> QED
            BY <2>1, <2>2, <2>3, <2>6 DEF e
    <1>3. CASE TakeJob
        <2>1. pending # << >> /\ job' = Head(pending) /\ pending' = Tail(pending)
            BY <1>3 DEF TakeJob
        <2>2. /\ ToSet(pending) = {Head(pending)} \cup ToSet(Tail(pending))
              /\ Head(pending) \in Job
            BY <2>1, ClipTypes, ToSetHeadTail, HeadTailProperties
        <2>3. ToSet(Of(job')) \subseteq {job'}
            BY DEF Of, ToSet
        <2> QED
            BY <2>1, <2>2, <2>3 DEF Jobs
    <1>4. CASE Cut
        <2>1. job' = NoJob /\ (pending' = pending \/ pending' = << >>)
            BY <1>4 DEF Cut
        <2>2. ToSet(Of(NoJob)) = {} /\ ToSet(<< >>) = {}
            BY DEF Of, ToSet
        <2> QED
            BY <2>1, <2>2 DEF Jobs
    <1> QED
        BY <1>1, <1>2, <1>3, <1>4 DEF Next, vars, cutting, Advance, Drain, Log, ConsumerDies,
           Encode, TakeClip, CreateFails, WriteClip, EncoderDies

LEMMA LastOfWindow ==
    ASSUME TypeOK, Seen, window # << >>
    PROVE  /\ Last(window) \in ToSet(window) /\ Last(window) \in Int
           /\ Last(window) <= clock
           /\ \A f \in ToSet(window) : f <= Last(window)
    <1>1. /\ DOMAIN window = 1 .. Len(window) /\ Len(window) \in DOMAIN window
          /\ Len(window) \in Nat
        <2>1. Len(window) \in Nat /\ DOMAIN window = 1 .. Len(window)
            BY FilmTypes, LenProperties
        <2>2. Len(window) # 0
            BY FilmTypes, EmptySeq
        <2> QED
            BY <2>1, <2>2
    <1> DEFINE l == Last(window)
    <1>2. l = window[Len(window)]
        BY DEF Last
    <1> HIDE DEF l
    <1>3. l \in ToSet(window) /\ l \in Int /\ l <= clock
        <2>1. l \in ToSet(window)
            BY <1>1, <1>2 DEF ToSet
        <2> QED
            BY <2>1, FilmTypes DEF Seen
    <1>4. ASSUME NEW f \in ToSet(window) PROVE f <= l
        <2>1. PICK i \in DOMAIN window : f = window[i]
            BY DEF ToSet
        <2>2. CASE i = Len(window)
            BY <1>2, <1>3, <2>1, <2>2
        <2>3. CASE i # Len(window)
            <3>1. i < Len(window)
                BY <1>1, <2>1, <2>3
            <3>2. window[i] < l
                BY <1>1, <1>2, <3>1 DEF Seen, Ascending
            <3> QED
                BY <1>3, <2>1, <3>2, FilmTypes
        <2> QED
            BY <2>2, <2>3
    <1> QED
        BY <1>3, <1>4 DEF l

\* What a job is anchored to, for one job.
AnchoredJob(j) ==
    /\ j.end <= j.fireAt
    /\ j.end - j.start = Before + After
    /\ j.fireAt <= clock + After
    /\ \A f \in ToSet(window) : f > j.end - After => f >= j.fireAt - After - Lag

LEMMA AnchoredMeans == Anchored <=> \A j \in Jobs : AnchoredJob(j)
    BY DEF Anchored, AnchoredJob

LEMMA AnchoredStays ==
    ASSUME TypeOK, [Next]_vars, NEW j \in Job, AnchoredJob(j),
           j.start \in Int, j.end \in Int, j.fireAt \in Int
    PROVE  AnchoredJob(j)'
    <1>1. CASE UNCHANGED filming
        BY <1>1 DEF AnchoredJob, filming
    <1>2. CASE Advance
        <2>1. window' = window /\ clock' = clock + 1
            BY <1>2 DEF Advance
        <2>2. j.fireAt <= clock' + After
            <3>1. clock \in Nat /\ After \in Nat /\ j.fireAt \in Int
                BY FilmTypes
            <3>2. j.fireAt <= clock + After
                BY DEF AnchoredJob
            <3> QED
                BY ONLY <2>1, <3>1, <3>2
        <2> QED
            BY <2>1, <2>2 DEF AnchoredJob
    <1>3. ASSUME NEW ts \in Frame, Drain(ts) PROVE AnchoredJob(j)'
        <2> DEFINE a == Append(window, ts)
        <2>1. /\ clock - Lag <= ts /\ clock' = clock
              /\ window' = IF Len(a) > Capacity THEN Tail(a) ELSE a
            BY <1>3 DEF Drain, Buffer!Push, Buffer!LastOf
        <2>2. ToSet(window') \subseteq ToSet(window) \cup {ts}
            <3>1. ToSet(a) = ToSet(window) \cup {ts}
                BY FilmTypes, ToSetAppend
            <3>2. a \in Seq(Frame) /\ Len(a) = Len(window) + 1
                BY FilmTypes, AppendProperties
            <3> HIDE DEF a
            <3>3. a # << >>
                BY <3>2, FilmTypes
            <3>4. ToSet(Tail(a)) \subseteq ToSet(a)
                BY <3>2, <3>3, ToSetHeadTail
            <3> QED
                BY <2>1, <3>1, <3>4
        <2>3. ts >= j.fireAt - After - Lag
            <3>1. ts \in Int /\ clock \in Int /\ Lag \in Int /\ After \in Int
                BY FilmTypes DEF Frame
            <3> QED
                BY <2>1, <3>1 DEF AnchoredJob
        <2> QED
            BY <2>1, <2>2, <2>3 DEF AnchoredJob
    <1> QED
        BY <1>1, <1>2, <1>3 DEF Next, vars, Emit, Log, ConsumerDies, TakeJob, Cut, Encode,
           TakeClip, CreateFails, WriteClip, EncoderDies

LEMMA AnchoredNew ==
    ASSUME TypeOK, Seen, window # << >>, NEW id \in Id
    PROVE  AnchoredJob(JobFor(id)) /\ JobFor(id).fireAt = clock + After
    <1> DEFINE l == Last(window)  e == JobFor(id)
    <1>1. /\ e.start = l - Before /\ e.end = l + After /\ e.fireAt = clock + After
        BY DEF JobFor
    <1>2. l \in Int /\ l <= clock /\ \A f \in ToSet(window) : f <= l
        BY LastOfWindow
    <1> HIDE DEF l, e
    <1>3. \A f \in ToSet(window) : ~(f > e.end - After)
        BY <1>1, <1>2, FilmTypes
    <1>4. e.end <= e.fireAt /\ e.end - e.start = Before + After /\ e.fireAt <= clock + After
        BY <1>1, <1>2, FilmTypes
    <1> QED
        BY <1>1, <1>3, <1>4 DEF AnchoredJob, e

LEMMA AnchoredNext ==
    ASSUME TypeOK, Hands, Seen, Anchored, [Next]_vars
    PROVE  Anchored'
    <1>1. \A j \in Jobs : AnchoredJob(j)'
        BY JobsTyped, AnchoredMeans, AnchoredStays
    <1>2. CASE Jobs' \subseteq Jobs
        BY <1>1, <1>2 DEF Anchored, AnchoredJob
    <1>3. ASSUME UNCHANGED filming, window # << >>, NEW id \in Id,
                 Jobs' \subseteq Jobs \cup {JobFor(id)}
          PROVE  Anchored'
        <2>1. PICK c : c = JobFor(id)
            OBVIOUS
        <2>2. AnchoredJob(c) /\ UNCHANGED <<clock, window>> /\ Jobs' \subseteq Jobs \cup {c}
            BY <1>3, <2>1, AnchoredNew DEF filming
        <2>3. AnchoredJob(c)'
            BY <2>2 DEF AnchoredJob
        <2>4. \A j \in Jobs' : AnchoredJob(j)'
            BY <1>1, <2>2, <2>3
        <2> QED
            BY <2>4 DEF Anchored, AnchoredJob
    <1> QED
        BY <1>2, <1>3, JobsNext

-----------------------------------------------------------------------------
(* Clips are whole: the worker is in time *)

Due(s) == \A i, k \in DOMAIN s : i < k => s[i].fireAt <= s[k].fireAt

LEMMA DueAppend ==
    ASSUME NEW S, NEW s \in Seq(S), NEW e \in S, Due(s),
           \A r \in ToSet(s) : r.fireAt <= e.fireAt
    PROVE  Due(Append(s, e))
    <1> DEFINE t == Append(s, e)
    <1>1. /\ DOMAIN t = 1 .. Len(s) + 1 /\ DOMAIN s = 1 .. Len(s) /\ Len(s) \in Nat
          /\ t[Len(s) + 1] = e /\ \A i \in 1 .. Len(s) : t[i] = s[i]
        BY AppendProperties, LenProperties
    <1> HIDE DEF t
    <1> SUFFICES ASSUME NEW i \in 1 .. Len(s) + 1, NEW k \in 1 .. Len(s) + 1, i < k
                 PROVE  t[i].fireAt <= t[k].fireAt
        BY <1>1 DEF Due, t
    <1>2. i \in 1 .. Len(s) /\ t[i] = s[i] /\ s[i] \in ToSet(s)
        BY <1>1 DEF ToSet
    <1>3. CASE k = Len(s) + 1
        BY <1>1, <1>2, <1>3
    <1>4. CASE k # Len(s) + 1
        <2>1. k \in 1 .. Len(s)
            BY <1>1, <1>4
        <2> QED
            BY <1>1, <1>2, <2>1 DEF Due
    <1> QED
        BY <1>3, <1>4

LEMMA DueTail ==
    ASSUME NEW S, NEW s \in Seq(S), s # << >>, Due(s)
    PROVE  Due(Tail(s)) /\ \A r \in ToSet(Tail(s)) : Head(s).fireAt <= r.fireAt
    <1> DEFINE t == Tail(s)
    <1>1. /\ DOMAIN t = 1 .. Len(s) - 1 /\ DOMAIN s = 1 .. Len(s) /\ Len(s) \in Nat \ {0}
          /\ Head(s) = s[1] /\ \A i \in 1 .. Len(s) - 1 : t[i] = s[i + 1]
        BY HeadTailProperties, LenProperties, EmptySeq
    <1> HIDE DEF t
    <1>2. ASSUME NEW i \in 1 .. Len(s) - 1
          PROVE  i + 1 \in DOMAIN s /\ 1 \in DOMAIN s /\ 1 < i + 1 /\ t[i] = s[i + 1]
        BY <1>1
    <1>3. Due(t)
        <2> SUFFICES ASSUME NEW i \in 1 .. Len(s) - 1, NEW k \in 1 .. Len(s) - 1, i < k
                     PROVE  t[i].fireAt <= t[k].fireAt
            BY <1>1 DEF Due
        <2>1. i + 1 < k + 1
            OBVIOUS
        <2> QED
            BY <1>1, <1>2, <2>1 DEF Due
    <1>4. ASSUME NEW i \in 1 .. Len(s) - 1 PROVE Head(s).fireAt <= t[i].fireAt
        <2>1. i + 1 \in DOMAIN s /\ 1 \in DOMAIN s /\ 1 < i + 1 /\ t[i] = s[i + 1]
            BY <1>1, <1>2
        <2> QED
            BY <1>1, <2>1 DEF Due
    <1>5. \A r \in ToSet(t) : Head(s).fireAt <= r.fireAt
        BY <1>1, <1>4 DEF ToSet
    <1> QED
        BY <1>3, <1>5 DEF t

\* Punctual, by parts.
InTime == \A j \in Jobs : clock <= j.fireAt + MaxDelay
OneByOne == \A j \in ToSet(Of(job)), p \in ToSet(pending) : j.fireAt <= p.fireAt

LEMMA PunctualMeans == Punctual <=> InTime /\ Due(pending) /\ OneByOne
    BY DEF Punctual, InTime, Due, OneByOne

\* Time does not pass while a job is overdue.
LEMMA AdvanceInTime ==
    ASSUME TypeOK, Hands, Punctual, Advance
    PROVE  InTime'
    <1>1. clock' = clock + 1 /\ Jobs' = Jobs /\ ~Overdue
        BY DEF Advance, cutting, Jobs
    <1>2. InTime /\ Due(pending) /\ OneByOne
        BY PunctualMeans
    <1>3. clock \in Nat /\ MaxDelay \in Nat
        BY FilmTypes
    <1>4. ASSUME NEW j \in Jobs PROVE clock < j.fireAt + MaxDelay
        <2>1. j \in Job /\ j.fireAt \in Int
            BY JobsTyped
        <2>2. CASE worker = "sleep"
            <3>1. ToSet(Of(job)) = {job} /\ job \in Job /\ job.fireAt \in Int
                BY <2>2, JobsTyped DEF Hands
            <3>2. clock < job.fireAt + MaxDelay
                BY <1>1, <1>3, <2>2, <3>1 DEF Overdue
            <3>3. job.fireAt <= j.fireAt
                BY <1>2, <2>1, <3>1 DEF OneByOne, Jobs
            <3> QED
                BY <1>3, <2>1, <3>1, <3>2, <3>3
        <2>3. CASE worker # "sleep"
            <3>1. j \in ToSet(pending)
                BY <2>3, JobsTyped DEF Jobs
            <3>2. PICK i \in DOMAIN pending : j = pending[i]
                BY <3>1 DEF ToSet
            <3>3. pending # << >> /\ worker = "recv"
                BY <2>3, <3>2 DEF Hands, TypeOK
            <3>4. /\ 1 \in DOMAIN pending /\ i \in Nat /\ i >= 1 /\ pending[1] \in Job
                <4>1. pending \in Seq(Job) /\ DOMAIN pending = 1 .. Len(pending)
                    BY ClipTypes, LenProperties
                <4>2. Len(pending) \in Nat /\ i \in Nat /\ i >= 1
                    BY <3>2, <4>1
                <4> QED
                    BY <3>2, <4>1, <4>2
            <3>5. pending[1].fireAt \in Int
                BY <3>4, JobsTyped
            <3>6. clock < pending[1].fireAt + MaxDelay
                BY <1>1, <1>3, <3>3, <3>5 DEF Overdue
            <3>7. pending[1].fireAt <= j.fireAt
                <4>1. CASE i = 1
                    BY <2>1, <3>2, <3>5, <4>1
                <4>2. CASE i # 1
                    <5>1. 1 < i
                        BY <3>4, <4>2
                    <5> QED
                        BY <1>2, <3>2, <3>4, <5>1 DEF Due
                <4> QED
                    BY <4>1, <4>2
            <3> QED
                BY <1>3, <2>1, <3>5, <3>6, <3>7
        <2> QED
            BY <2>2, <2>3
    <1>5. ASSUME NEW j \in Jobs PROVE clock + 1 <= j.fireAt + MaxDelay
        <2>1. j.fireAt \in Int /\ clock < j.fireAt + MaxDelay
            BY <1>4, JobsTyped
        <2> QED
            BY <1>3, <2>1
    <1> QED
        BY <1>1, <1>5 DEF InTime

LEMMA PunctualNext ==
    ASSUME TypeOK, Hands, Seen, Anchored, Punctual, [Next]_vars
    PROVE  Punctual'
    <1>0. (Punctual <=> InTime /\ Due(pending) /\ OneByOne)'
        BY PunctualMeans, PTL
    <1>1. InTime /\ Due(pending) /\ OneByOne
        BY PunctualMeans
    <1>2. CASE UNCHANGED <<clock, pending, job>>
        BY <1>0, <1>1, <1>2 DEF InTime, Due, OneByOne, Jobs
    <1>3. CASE Advance
        <2>1. UNCHANGED <<pending, job>>
            BY <1>3 DEF Advance, cutting
        <2>2. InTime'
            BY <1>3, AdvanceInTime
        <2>3. Due(pending)' /\ OneByOne'
            BY <1>1, <2>1 DEF Due, OneByOne
        <2> QED
            BY <1>0, <2>2, <2>3
    <1>4. ASSUME NEW d \in Def, Emit(d), ~UNCHANGED <<pending, job>>
          PROVE  Punctual'
        <2> DEFINE id == Len(emitted) + 1
        <2>1. Handed(id) /\ id \in Id
            BY <1>4, EmitGrows
        <2>2. UNCHANGED filming /\ job' = job /\ clock + After <= MaxTime
            BY <1>4 DEF Emit
        <2> HIDE DEF id
        <2>3. window # << >> /\ pending' = Append(pending, JobFor(id))
            BY <1>4, <2>1, <2>2 DEF Handed
        <2>4. JobFor(id) \in Job /\ pending \in Seq(Job) /\ JobFor(id).fireAt = clock + After
            BY <2>1, <2>2, <2>3, JobTyped, ClipTypes, AnchoredNew
        <2> DEFINE e == JobFor(id)
        <2>5. \A j \in Jobs : j.fireAt <= e.fireAt
            BY <2>4 DEF Anchored
        <2> HIDE DEF e
        <2>6. \A r \in ToSet(pending) : r.fireAt <= e.fireAt
            BY <2>5 DEF Jobs
        <2>7. Due(Append(pending, e)) /\ ToSet(Append(pending, e)) = ToSet(pending) \cup {e}
            BY <1>1, <2>4, <2>6, DueAppend, ToSetAppend DEF e
        <2>8. Due(pending)' /\ ToSet(pending') = ToSet(pending) \cup {e}
            BY <2>3, <2>7 DEF e, Due
        <2>9. OneByOne'
            BY <1>1, <2>2, <2>5, <2>8 DEF OneByOne, Jobs
        <2>10. clock <= e.fireAt + MaxDelay
            BY <2>4, FilmTypes DEF e
        <2>11. InTime'
            BY <1>1, <2>2, <2>8, <2>10 DEF InTime, Jobs, filming
        <2> QED
            BY <1>0, <2>8, <2>9, <2>11
    <1>5. CASE TakeJob
        <2>1. /\ pending # << >> /\ job' = Head(pending) /\ pending' = Tail(pending)
              /\ clock' = clock
            BY <1>5 DEF TakeJob, filming
        <2>2. /\ ToSet(pending) = {Head(pending)} \cup ToSet(Tail(pending))
              /\ Due(Tail(pending))
              /\ \A r \in ToSet(Tail(pending)) : Head(pending).fireAt <= r.fireAt
            BY <1>1, <2>1, ClipTypes, ToSetHeadTail, DueTail
        <2>3. ToSet(Of(job')) \subseteq {job'}
            BY DEF Of, ToSet
        <2>4. Due(pending)' /\ OneByOne'
            BY <2>1, <2>2, <2>3 DEF OneByOne, Due
        <2>5. InTime'
            BY <1>1, <2>1, <2>2, <2>3 DEF InTime, Jobs
        <2> QED
            BY <1>0, <2>4, <2>5
    <1>6. CASE Cut
        <2>1. job' = NoJob /\ (pending' = pending \/ pending' = << >>) /\ clock' = clock
            BY <1>6 DEF Cut, filming
        <2>2. ToSet(Of(job')) = {} /\ ToSet(<< >>) = {} /\ Due(<< >>)
            BY <2>1 DEF Of, ToSet, Due
        <2>3. Due(pending)'
            BY <1>1, <2>1, <2>2 DEF Due
        <2>4. OneByOne'
            BY <2>2 DEF OneByOne
        <2>5. InTime'
            BY <1>1, <2>1, <2>2 DEF InTime, Jobs
        <2> QED
            BY <1>0, <2>3, <2>4, <2>5
    <1>7. ASSUME NEW d \in Def, Emit(d) PROVE UNCHANGED clock
        BY <1>7 DEF Emit, filming
    <1> QED
        BY <1>2, <1>3, <1>4, <1>5, <1>6, <1>7 DEF Next, vars, filming, cutting, Drain, Log,
           ConsumerDies, Encode, TakeClip, CreateFails, WriteClip, EncoderDies

-----------------------------------------------------------------------------
(* Clips are whole: the cut *)

\* A full buffer of frames since ts does not fit in a clip's window cut in time.
LEMMA FullBufferIsOld ==
    ASSUME TypeOK, Seen, NEW j, AnchoredJob(j),
           j.start \in Int, j.end \in Int, j.fireAt \in Int,
           clock <= j.fireAt + MaxDelay,
           NEW ts \in Int, j.start <= ts,
           Len(window) = Capacity, \A f \in ToSet(window) : ts < f
    PROVE  FALSE
    <1> DEFINE anchor == j.end - After
               A == ts + 1 .. anchor
               late == j.fireAt - After - Lag
               B == late .. clock
    <1>0. /\ clock \in Nat /\ Before \in Nat /\ After \in Nat /\ Lag \in Nat /\ MaxDelay \in Nat
          /\ Capacity \in Nat /\ ToSet(window) \subseteq Int
        BY FilmTypes
    <1>1. anchor \in Int /\ late \in Int /\ ts + 1 \in Int /\ clock \in Int
        BY <1>0
    <1>2. anchor - ts <= Before /\ clock - late <= MaxDelay + After + Lag
        <2> DEFINE s == j.start  e == j.end  d == j.fireAt
        <2>1. /\ s \in Int /\ e \in Int /\ d \in Int /\ s <= ts /\ clock <= d + MaxDelay
              /\ e - s = Before + After
            BY DEF AnchoredJob
        <2>2. anchor = e - After /\ late = d - After - Lag
            OBVIOUS
        <2> HIDE DEF s, e, d, anchor, late
        <2> QED
            BY <1>0, <2>1, <2>2
    <1>3. ToSet(window) \subseteq A \cup B
        <2>1. ASSUME NEW f \in ToSet(window) PROVE f \in A \cup B
            <3>1. f \in Int /\ ts < f /\ f <= clock
                BY <1>0 DEF Seen
            <3>2. f > anchor => f >= late
                BY DEF AnchoredJob
            <3> QED
                BY <1>1, <3>1, <3>2
        <2> QED
            BY <2>1
    <1> HIDE DEF anchor, late
    <1>4. /\ IsFiniteSet(A) /\ IsFiniteSet(B)
          /\ Cardinality(A) = IF ts + 1 > anchor THEN 0 ELSE anchor - (ts + 1) + 1
          /\ Cardinality(B) = IF late > clock THEN 0 ELSE clock - late + 1
        BY ONLY <1>1, FS_Interval, Zenon
    <1>5. /\ Cardinality(A) \in Nat /\ Cardinality(A) <= Before
          /\ Cardinality(B) \in Nat /\ Cardinality(B) <= MaxDelay + After + Lag + 1
        BY <1>0, <1>1, <1>2, <1>4
    <1> HIDE DEF A, B
    <1>6. /\ IsFiniteSet(A \cup B)
          /\ Cardinality(A \cup B) <= Cardinality(A) + Cardinality(B)
          /\ Cardinality(A \cup B) \in Nat
        <2>1. /\ IsFiniteSet(A \cup B)
              /\ Cardinality(A \cup B)
                    = Cardinality(A) + Cardinality(B) - Cardinality(A \cap B)
            BY <1>4, FS_Union
        <2>2. Cardinality(A \cap B) \in Nat /\ Cardinality(A \cup B) \in Nat
            BY <1>4, <2>1, FS_Intersection, FS_CardinalityType
        <2> QED
            BY <1>5, <2>1, <2>2
    <1>7. Cardinality(ToSet(window)) = Capacity
        <2>1. window \in Seq(Frame) /\ DOMAIN window = 1 .. Len(window) /\ Len(window) \in Nat
            BY FilmTypes, LenProperties
        <2>2. ASSUME NEW i \in DOMAIN window, NEW k \in DOMAIN window, i # k
              PROVE  window[i] # window[k]
            <3>1. i < k \/ k < i
                BY <2>1, <2>2
            <3>2. window[i] \in Int /\ window[k] \in Int
                BY <1>0 DEF ToSet
            <3> QED
                BY <3>1, <3>2 DEF Seen, Ascending
        <2> QED
            BY <2>1, <2>2, SetCardinality
    <1>8. Cardinality(ToSet(window)) <= Cardinality(A \cup B)
        BY <1>3, <1>6, FS_Subset
    <1>9. Capacity > Before + After + Lag + MaxDelay + 1
        BY EvidenceAssumption
    <1> QED
        BY <1>0, <1>5, <1>6, <1>7, <1>8, <1>9

WholeClip(c) ==
    /\ c.end <= clock
    /\ {ts \in seen : c.start <= ts /\ ts < c.end - Lag} \subseteq ToSet(c.frames)

Cuts == ToSet(written) \cup ToSet(Of(clip)) \cup ToSet(encoderQueue)

LEMMA WholeMeans == Whole <=> \A c \in Cuts : WholeClip(c)
    BY DEF Whole, WholeClip, Cuts

LEMMA CutIsWhole ==
    ASSUME TypeOK, Hands, Seen, Anchored, Punctual, worker = "sleep", clock >= job.fireAt
    PROVE  WholeClip(CutClip)
    <1>1. job \in Jobs /\ job \in Job
        BY JobsTyped DEF Jobs
    <1>2. /\ AnchoredJob(job) /\ clock <= job.fireAt + MaxDelay
          /\ job.start \in Int /\ job.end \in Int /\ job.fireAt \in Int
        BY <1>1, JobsTyped, AnchoredMeans, PunctualMeans DEF InTime
    <1> DEFINE T == job.start .. job.end
    <1>3. /\ CutClip.start = job.start /\ CutClip.end = job.end
          /\ CutClip.frames = Select(window, T)
        BY DEF CutClip
    <1>4. ToSet(Select(window, T)) = ToSet(window) \cap T
        BY FilmTypes, SelectRange
    <1>5. job.end <= clock
        <2>1. job.end <= job.fireAt /\ job.fireAt <= clock
            BY <1>2, FilmTypes DEF AnchoredJob
        <2> QED
            BY <1>2, <2>1, FilmTypes
    <1>6. ASSUME NEW ts \in seen, job.start <= ts, ts < job.end - Lag
          PROVE  ts \in ToSet(window) \cap T
        <2>1. ts \in Int
            BY FilmTypes
        <2>2. ts \in T
            BY <1>2, <1>6, <2>1, FilmTypes
        <2>3. ts \in ToSet(window)
            <3> SUFFICES ASSUME ts \notin ToSet(window) PROVE FALSE
                OBVIOUS
            <3>1. Len(window) = Capacity /\ \A f \in ToSet(window) : ts < f
                BY DEF Seen
            <3> QED
                BY <1>2, <1>6, <2>1, <3>1, FullBufferIsOld
        <2> QED
            BY <2>2, <2>3
    <1> HIDE DEF T
    <1> QED
        BY <1>3, <1>4, <1>5, <1>6 DEF WholeClip

LEMMA WholeStays ==
    ASSUME TypeOK, [Next]_vars, NEW c \in Clip, WholeClip(c)
    PROVE  WholeClip(c)'
    <1>1. CASE UNCHANGED filming
        BY <1>1 DEF WholeClip, filming
    <1>2. c.start \in Int /\ c.end \in Int
        BY DEF Clip, Instant
    <1>3. CASE Advance
        <2>1. seen' = seen /\ clock' = clock + 1
            BY <1>3 DEF Advance
        <2>2. c.end <= clock'
            BY <1>2, <2>1, FilmTypes DEF WholeClip
        <2> QED
            BY <2>1, <2>2 DEF WholeClip
    <1>4. ASSUME NEW ts \in Frame, Drain(ts) PROVE WholeClip(c)'
        <2>1. clock - Lag <= ts /\ clock' = clock /\ seen' = seen \cup {ts}
            BY <1>4 DEF Drain
        <2>2. ~(ts < c.end - Lag)
            <3>1. ts \in Int
                BY DEF Frame
            <3> QED
                BY <1>2, <2>1, <3>1, FilmTypes DEF WholeClip
        <2> QED
            BY <2>1, <2>2 DEF WholeClip
    <1> QED
        BY <1>1, <1>3, <1>4 DEF Next, vars, Emit, Log, ConsumerDies, TakeJob, Cut, Encode,
           TakeClip, CreateFails, WriteClip, EncoderDies

LEMMA CutsTyped ==
    ASSUME TypeOK, Hands
    PROVE  /\ Cuts \subseteq Clip
           /\ ToSet(Of(clip)) = IF encoder = "busy" THEN {clip} ELSE {}
    <1>1. ToSet(Of(clip)) = IF encoder = "busy" THEN {clip} ELSE {}
        <2>1. ToSet(Of(NoJob)) = {}
            BY DEF Of, ToSet
        <2>2. \A r : r # NoJob => ToSet(Of(r)) = {r}
            BY DEF Of, ToSet
        <2> QED
            BY <2>1, <2>2, InHandNotNone DEF Hands
    <1>2. ToSet(written) \subseteq Clip /\ ToSet(encoderQueue) \subseteq Clip
        <2>1. /\ \A i \in DOMAIN written : written[i] \in Clip
              /\ \A i \in DOMAIN encoderQueue : encoderQueue[i] \in Clip
            BY DEF TypeOK
        <2> QED
            BY <2>1 DEF ToSet
    <1> QED
        BY <1>1, <1>2 DEF Cuts, Hands

\* A clip is old, or it is the one the worker cuts.
LEMMA CutsNext ==
    ASSUME TypeOK, Hands, [Next]_vars
    PROVE  \/ Cuts' \subseteq Cuts
           \/ /\ UNCHANGED filming /\ worker = "sleep" /\ clock >= job.fireAt
              /\ Cuts' \subseteq Cuts \cup {CutClip}
    <1>1. CASE UNCHANGED <<written, clip, encoderQueue>>
        BY <1>1 DEF Cuts
    <1>2. CASE Cut /\ encoderQueue' # encoderQueue
        <2>1. /\ encoderQueue' = Append(encoderQueue, CutClip)
              /\ UNCHANGED <<written, clip>> /\ UNCHANGED filming
              /\ worker = "sleep" /\ clock >= job.fireAt
            BY <1>2 DEF Cut
        <2>2. CutClip \in Clip /\ encoderQueue \in Seq(Clip)
            BY <2>1, ClipTyped, ClipTypes DEF Hands
        <2> DEFINE e == CutClip
        <2> HIDE DEF e
        <2>3. ToSet(encoderQueue') = ToSet(encoderQueue) \cup {e}
            BY <2>1, <2>2, ToSetAppend DEF e
        <2>4. Cuts' \subseteq Cuts \cup {e}
            BY <2>1, <2>3 DEF Cuts
        <2> QED
            BY <2>1, <2>4 DEF e
    <1>3. CASE TakeClip
        <2>1. /\ encoderQueue # << >> /\ clip' = Head(encoderQueue)
              /\ encoderQueue' = Tail(encoderQueue) /\ written' = written
            BY <1>3 DEF TakeClip
        <2>2. ToSet(encoderQueue) = {Head(encoderQueue)} \cup ToSet(Tail(encoderQueue))
            BY <2>1, ClipTypes, ToSetHeadTail
        <2>3. ToSet(Of(clip')) \subseteq {clip'}
            BY DEF Of, ToSet
        <2> QED
            BY <2>1, <2>2, <2>3 DEF Cuts
    <1>4. CASE CreateFails \/ WriteClip \/ EncoderDies
        <2>1. /\ clip' = NoJob /\ encoder = "busy"
              /\ encoderQueue' \in {encoderQueue, << >>}
              /\ written' \in {written, Append(written, clip)}
            BY <1>4 DEF CreateFails, WriteClip, EncoderDies
        <2>2. ToSet(Of(clip')) = {} /\ ToSet(<< >>) = {}
            BY <2>1 DEF Of, ToSet
        <2>3. clip \in Clip /\ ToSet(Of(clip)) = {clip}
            BY <2>1, CutsTyped DEF Hands
        <2>4. ToSet(Append(written, clip)) = ToSet(written) \cup {clip}
            BY <2>3, ClipTypes, ToSetAppend
        <2> QED
            BY <2>1, <2>2, <2>3, <2>4 DEF Cuts
    <1>5. Cut => UNCHANGED <<written, clip>>
        BY DEF Cut
    <1> QED
        BY <1>1, <1>2, <1>3, <1>4, <1>5 DEF Next, vars, encoding, Advance, Drain, Emit, Log,
           ConsumerDies, Encode, TakeJob

LEMMA WholeNext ==
    ASSUME TypeOK, Hands, Seen, Anchored, Punctual, Whole, [Next]_vars
    PROVE  Whole'
    <1>1. \A c \in Cuts : WholeClip(c)'
        BY CutsTyped, WholeMeans, WholeStays
    <1>2. CASE Cuts' \subseteq Cuts
        BY <1>1, <1>2 DEF Whole, WholeClip, Cuts
    <1>3. ASSUME UNCHANGED filming, worker = "sleep", clock >= job.fireAt,
                 Cuts' \subseteq Cuts \cup {CutClip}
          PROVE  Whole'
        <2>1. PICK c : c = CutClip
            OBVIOUS
        <2>2. WholeClip(c) /\ UNCHANGED <<clock, seen>> /\ Cuts' \subseteq Cuts \cup {c}
            BY <1>3, <2>1, CutIsWhole DEF filming
        <2>3. WholeClip(c)'
            BY <2>2 DEF WholeClip
        <2>4. \A b \in Cuts' : WholeClip(b)'
            BY <1>1, <2>2, <2>3
        <2> QED
            BY <2>4 DEF Whole, WholeClip, Cuts
    <1> QED
        BY <1>2, <1>3, CutsNext

LEMMA IInvInit == Init => IInv
    <1> SUFFICES ASSUME Init PROVE IInv
        OBVIOUS
    <1>1. /\ window = << >> /\ pending = << >> /\ job = NoJob /\ clip = NoJob
          /\ written = << >> /\ encoderQueue = << >> /\ seen = {}
        BY DEF Init
    <1>2. ToSet(<< >>) = {} /\ ToSet(Of(NoJob)) = {}
        BY DEF ToSet, Of
    <1>3. Seen
        BY <1>1, <1>2 DEF Seen, Ascending
    <1>4. Jobs = {} /\ ToSet(pending) = {}
        BY <1>1, <1>2 DEF Jobs
    <1>5. Anchored /\ Punctual
        BY <1>1, <1>4 DEF Anchored, Punctual
    <1>6. Whole
        BY <1>1, <1>2 DEF Whole
    <1> QED
        BY <1>3, <1>5, <1>6, InvInit DEF IInv

LEMMA IInvNext == IInv /\ [Next]_vars => IInv'
    <1> SUFFICES ASSUME IInv, [Next]_vars PROVE IInv'
        OBVIOUS
    <1>1. Inv /\ TypeOK /\ Hands /\ Seen /\ Anchored /\ Punctual /\ Whole
        BY DEF IInv, Inv
    <1>2. Inv'
        BY <1>1, InvNext
    <1>3. Seen' /\ Anchored' /\ Punctual' /\ Whole'
        BY <1>1, SeenNext, AnchoredNext, PunctualNext, WholeNext
    <1> QED
        BY <1>2, <1>3 DEF IInv

LEMMA IInvAlways == Spec => []IInv
    BY IInvInit, IInvNext, PTL DEF Spec

\* A clip holds every frame of its window the scheduler ever drains, up to Lag
\* before its end, however long the worker waits and sleeps: the worker never
\* cuts early, and never after the ring has overwritten the pre-roll
\* (manager.rs:52-62, main.rs:163).
THEOREM WholeClipsHolds == Spec => []WholeClips
    <1>1. IInv => WholeClips
        BY DEF IInv, Whole, WholeClips
    <1> QED
        BY <1>1, IInvAlways, PTL

=============================================================================
