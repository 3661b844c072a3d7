--------------------------- MODULE HarnessProofs ---------------------------
(***************************************************************************)
(* Proofs about the load harness: its state is well typed, every scenario  *)
(* is measured on its own, and the loss it reports is a loss.              *)
(*                                                                         *)
(* The argument: only the job's own camera counts anything (Cameras), the  *)
(* counters and their history are reset together and move together but for *)
(* the answer a camera has and has not counted yet (Ticked, Dropped,       *)
(* Frames), the time series ends where the last sample was taken (Series), *)
(* and what is captured at the end stays what the window was (Final,       *)
(* Judged).                                                                *)
(***************************************************************************)
EXTENDS Harness, SelectionProofs, FiniteSetTheorems

(***************************************************************************)
(* The inductive invariant                                                 *)
(***************************************************************************)
Bit(holds) == IF holds THEN 1 ELSE 0

InLoop == {"tick", "drain", "look"}
Reported == {"write", "validate", "pause"}

\* An earlier job's camera has ended before the next job starts, and a later
\* one's is not there yet: only the camera of the job counts anything.
Cameras ==
    /\ \A c \in DOMAIN plan :
          /\ c < job => camera[c] = "gone"
          /\ c > job => camera[c] = "none"
    /\ phase \in {"clear", "open"} => camera[job] = "none"
    /\ woke => phase \in {"open", "exit"} \/ camera[job] = "gone"

\* summary.csv has a row for each job that got that far.
Written(n) == summary = (IF stale THEN <<Stale>> ELSE << >>) \o SubSeq(plan, 1, n)

File ==
    /\ phase = "clear" => job = 1 /\ ~stale /\ summary \in {Absent, <<Stale>>}
    /\ phase = "pause" => job # Len(plan)
    /\ summary = Absent =>
          job = 1 /\ ~stale /\ phase \in {"clear", "open", "exit"}
    /\ phase # "clear" /\ summary # Absent =>
          CASE phase \in {"validate", "pause"} -> Written(job)
            [] phase = "exit" -> Written(job - 1) \/ Written(job)
            [] OTHER -> Written(job - 1)

\* The counters since the last reset.
Ticked ==
    /\ metrics.ticks = truth.ticks
    /\ SumFunction(metrics.hist) = metrics.ticks

\* A frame refused before the reset may be counted after it.
Dropped ==
    ~inWarmup /\ phase \in InLoop \cup {"mark", "recapture"} =>
        metrics.drops + Bit(camera[job] = "full") - truth.refused \in 0 .. 1

\* The time series so far ends where the last sample was taken.
Series ==
    /\ phase = "begin" => inWarmup
    /\ phase \in {"mark", "recapture"} \cup Reported => ~inWarmup
    /\ inWarmup \/ phase \in {"mark", "recapture"} => rows = NoRows
    /\ phase \in {"mark", "recapture"} => metrics.ticks = 0
    /\ ~inWarmup /\ phase \in InLoop \cup Reported =>
          rows.ticks = lastCounters.ticks /\ rows.drops <= lastCounters.drops
    /\ ~inWarmup /\ phase \in InLoop =>
          /\ lastCounters.ticks <= metrics.ticks
          /\ lastCounters.drops <= metrics.drops

Final ==
    phase \in Reported =>
        /\ final.ticks = truth.ticks
        /\ SumFunction(final.hist) = final.ticks
        /\ final.drops - truth.refused \in -1 .. 1

\* The frames of the window: offered, sent, counted, drained.
Windowed == Len(Select(queue, {"window"}))

Frames ==
    /\ inWarmup => truth.sent = 0
    /\ framesSent + Bit(camera[job] = "sent") <= offered
    /\ ~inWarmup /\ phase \in InLoop \cup Reported \cup {"recapture"} =>
          framesSent + Bit(camera[job] = "sent")
             <= framesAtWarmupEnd + truth.sent + 1
    /\ truth.taken <= truth.ticks
    /\ truth.taken + Bit(phase = "drain" /\ newest = "window") + Windowed
          <= truth.sent

\* The row, and the verdict on it.
Judged ==
    /\ phase \notin {"pause", "exit"} => row.verdict = "NONE"
    /\ phase \in {"validate", "pause"} => row.loss = Max({row.frames - final.ticks, 0})
    /\ LossIsReal

IInv ==
    TypeOK /\ Cameras /\ File /\ Ticked /\ Dropped /\ Series /\ Final /\ Frames /\ Judged
-----------------------------------------------------------------------------
(* Sums of functions over finite sets *)

One(s) == CHOOSE x \in s : TRUE

\* g sums f over the subsets of S.
Adds(g, f, s) == g[s] = IF s = {} THEN 0 ELSE f[One(s)] + g[s \ {One(s)}]
Sums(g, f, S) == g = [s \in SUBSET S |-> IF s = {} THEN 0 ELSE f[One(s)] + g[s \ {One(s)}]]

LEMMA SumMeans ==
    ASSUME NEW f, NEW S
    PROVE  SumFunctionOnSet(f, S) = (CHOOSE g : Sums(g, f, S))[S]
    BY DEF SumFunctionOnSet, FoldFunctionOnSet, MapThenFoldSet, Sums, One

\* A finite set has one element more than what is left without One of them.
LEMMA OneLess ==
    ASSUME NEW s, IsFiniteSet(s), s # {}
    PROVE  /\ One(s) \in s /\ IsFiniteSet(s \ {One(s)})
           /\ Cardinality(s) \in Nat /\ Cardinality(s \ {One(s)}) \in Nat
           /\ Cardinality(s) = Cardinality(s \ {One(s)}) + 1
    <1>1. One(s) \in s
        BY DEF One
    <1> DEFINE x == One(s)
    <1> HIDE DEF x
    <1>2. IsFiniteSet(s \ {x}) /\ Cardinality(s \ {x}) = Cardinality(s) - 1
        BY <1>1, FS_RemoveElement DEF x
    <1>3. Cardinality(s) \in Nat /\ Cardinality(s \ {x}) \in Nat
        BY <1>2, FS_CardinalityType
    <1> QED
        BY <1>1, <1>2, <1>3 DEF x

\* Something holds of every finite set's subsets if removing One keeps it.
LEMMA SubsetInduction ==
    ASSUME NEW S, IsFiniteSet(S), NEW P \in SUBSET (SUBSET S), {} \in P,
           \A s \in SUBSET S : s # {} /\ s \ {One(s)} \in P => s \in P
    PROVE  P = SUBSET S
    <1> DEFINE N == {n \in Nat : \A s \in SUBSET S : Cardinality(s) = n => s \in P}
    <1>1. 0 \in N
        <2>1. \A s \in SUBSET S : Cardinality(s) = 0 => s = {}
            BY FS_Subset, FS_EmptySet
        <2> QED
            BY <2>1
    <1>2. ASSUME NEW n \in N PROVE n + 1 \in N
        <2> SUFFICES ASSUME NEW s \in SUBSET S, Cardinality(s) = n + 1 PROVE s \in P
            OBVIOUS
        <2>1. IsFiniteSet(s)
            BY FS_Subset
        <2>2. s # {}
            BY FS_EmptySet
        <2>3. s \ {One(s)} \in SUBSET S /\ Cardinality(s \ {One(s)}) = n
            BY <2>1, <2>2, OneLess
        <2> QED
            BY <2>2, <2>3
    <1>3. N \in SUBSET Nat
        OBVIOUS
    <1> HIDE DEF N
    <1>4. N = Nat
        BY <1>1, <1>2, <1>3, NatSetInduction
    <1>5. ASSUME NEW s \in SUBSET S PROVE s \in P
        <2>1. Cardinality(s) \in N
            BY <1>4, FS_Subset, FS_CardinalityType
        <2> QED
            BY <2>1 DEF N
    <1> QED
        BY <1>5

LEMMA SumsExist ==
    ASSUME NEW S, IsFiniteSet(S), NEW f
    PROVE  \E g : Sums(g, f, S)
    <1> DEFINE Has(n) == \E g : \A s \in SUBSET S : Cardinality(s) <= n => Adds(g, f, s)
               N == {n \in Nat : Has(n)}
    <1>0. \A s \in SUBSET S : IsFiniteSet(s) /\ Cardinality(s) \in Nat
             /\ Cardinality(s) <= Cardinality(S)
        BY FS_Subset, FS_CardinalityType
    <1>1. 0 \in N
        <2> DEFINE g == [s \in SUBSET S |-> 0]
        <2>1. \A s \in SUBSET S : Cardinality(s) <= 0 => s = {}
            BY <1>0, FS_EmptySet
        <2>2. \A s \in SUBSET S : Cardinality(s) <= 0 => Adds(g, f, s)
            BY <2>1 DEF Adds
        <2> HIDE DEF g
        <2> QED
            BY <2>2
    <1>2. ASSUME NEW n \in N PROVE n + 1 \in N
        <2>1. PICK g : \A s \in SUBSET S : Cardinality(s) <= n => Adds(g, f, s)
            OBVIOUS
        <2> DEFINE h == [s \in SUBSET S |->
                            IF s = {} THEN 0 ELSE f[One(s)] + g[s \ {One(s)}]]
        <2>2. \A s \in SUBSET S :
                 h[s] = IF s = {} THEN 0 ELSE f[One(s)] + g[s \ {One(s)}]
            OBVIOUS
        <2> HIDE DEF h
        <2>3. ASSUME NEW s \in SUBSET S, Cardinality(s) <= n + 1 PROVE Adds(h, f, s)
            <3>1. CASE s = {}
                BY <2>2, <3>1 DEF Adds
            <3>2. CASE s # {}
                <4> DEFINE t == s \ {One(s)}
                <4>1. t \in SUBSET S /\ Cardinality(t) <= n
                    BY <1>0, <2>3, <3>2, OneLess
                <4>2. h[t] = g[t]
                    BY <2>1, <2>2, <4>1 DEF Adds
                <4> QED
                    BY <2>2, <3>2, <4>2 DEF Adds
            <3> QED
                BY <3>1, <3>2
        <2> QED
            BY <2>3
    <1>3. N \in SUBSET Nat
        OBVIOUS
    <1> HIDE DEF N
    <1>4. N = Nat
        BY <1>1, <1>2, <1>3, NatSetInduction
    <1>5. Cardinality(S) \in N
        BY <1>4, FS_CardinalityType
    <1>6. PICK g : \A s \in SUBSET S : Adds(g, f, s)
        BY <1>0, <1>5 DEF N
    <1> DEFINE h == [s \in SUBSET S |-> g[s]]
    <1>7. \A s \in SUBSET S : h[s] = IF s = {} THEN 0 ELSE f[One(s)] + h[s \ {One(s)}]
        BY <1>6 DEF Adds
    <1>8. Sums(h, f, S)
        <2>1. h = [s \in SUBSET S |-> h[s]]
            OBVIOUS
        <2> HIDE DEF h
        <2>2. [s \in SUBSET S |-> h[s]]
                = [s \in SUBSET S |-> IF s = {} THEN 0 ELSE f[One(s)] + h[s \ {One(s)}]]
            BY <1>7
        <2> QED
            BY <2>1, <2>2 DEF Sums
    <1> QED
        BY <1>8

LEMMA SumBy ==
    ASSUME NEW S, IsFiniteSet(S), NEW f
    PROVE  \E g : /\ SumFunctionOnSet(f, S) = g[S]
                  /\ \A s \in SUBSET S : Adds(g, f, s)
    <1> DEFINE g == CHOOSE h : Sums(h, f, S)
    <1>1. Sums(g, f, S)
        BY SumsExist
    <1>2. SumFunctionOnSet(f, S) = g[S]
        BY SumMeans
    <1> HIDE DEF g
    <1>3. \A s \in SUBSET S : Adds(g, f, s)
        BY <1>1 DEF Sums, Adds
    <1> QED
        BY <1>2, <1>3

LEMMA SumNat ==
    ASSUME NEW S, IsFiniteSet(S), NEW f \in [S -> Nat]
    PROVE  SumFunctionOnSet(f, S) \in Nat
    <1>1. PICK g : SumFunctionOnSet(f, S) = g[S] /\ \A s \in SUBSET S : Adds(g, f, s)
        BY SumBy
    <1> DEFINE P == {s \in SUBSET S : g[s] \in Nat}
    <1>2. {} \in P
        <2>1. {} \in SUBSET S /\ Adds(g, f, {})
            BY <1>1
        <2> QED
            BY <2>1 DEF Adds
    <1>3. ASSUME NEW s \in SUBSET S, s # {}, s \ {One(s)} \in P PROVE s \in P
        <2>1. One(s) \in S
            BY <1>3 DEF One
        <2>2. g[s] = f[One(s)] + g[s \ {One(s)}]
            BY <1>1, <1>3 DEF Adds
        <2>3. f[One(s)] \in Nat /\ g[s \ {One(s)}] \in Nat
            BY <1>3, <2>1
        <2> QED
            BY <2>2, <2>3
    <1>4. P \in SUBSET (SUBSET S)
        OBVIOUS
    <1> HIDE DEF P
    <1>5. P = SUBSET S
        BY <1>2, <1>3, <1>4, SubsetInduction
    <1> QED
        BY <1>1, <1>5 DEF P

LEMMA SumZero ==
    ASSUME NEW S, IsFiniteSet(S), NEW f, \A x \in S : f[x] = 0
    PROVE  SumFunctionOnSet(f, S) = 0
    <1>1. PICK g : SumFunctionOnSet(f, S) = g[S] /\ \A s \in SUBSET S : Adds(g, f, s)
        BY SumBy
    <1> DEFINE P == {s \in SUBSET S : g[s] = 0}
    <1>2. {} \in P
        <2>1. {} \in SUBSET S /\ Adds(g, f, {})
            BY <1>1
        <2> QED
            BY <2>1 DEF Adds
    <1>3. ASSUME NEW s \in SUBSET S, s # {}, s \ {One(s)} \in P PROVE s \in P
        <2>1. One(s) \in S
            BY <1>3 DEF One
        <2>2. g[s] = f[One(s)] + g[s \ {One(s)}]
            BY <1>1, <1>3 DEF Adds
        <2> QED
            BY <1>3, <2>1, <2>2
    <1>4. P \in SUBSET (SUBSET S)
        OBVIOUS
    <1> HIDE DEF P
    <1>5. P = SUBSET S
        BY <1>2, <1>3, <1>4, SubsetInduction
    <1> QED
        BY <1>1, <1>5 DEF P

\* One more at one place is one more in the sum.
LEMMA SumOneMore ==
    ASSUME NEW S, IsFiniteSet(S), NEW f \in [S -> Nat], NEW h \in [S -> Nat], NEW x \in S,
           h[x] = f[x] + 1, \A y \in S \ {x} : h[y] = f[y]
    PROVE  SumFunctionOnSet(h, S) = SumFunctionOnSet(f, S) + 1
    <1>1. PICK g : SumFunctionOnSet(f, S) = g[S] /\ \A s \in SUBSET S : Adds(g, f, s)
        BY SumBy
    <1>2. PICK k : SumFunctionOnSet(h, S) = k[S] /\ \A s \in SUBSET S : Adds(k, h, s)
        BY SumBy
    <1> DEFINE P == {s \in SUBSET S : /\ g[s] \in Nat
                                      /\ k[s] = IF x \in s THEN g[s] + 1 ELSE g[s]}
    <1>3. {} \in P
        <2>1. {} \in SUBSET S /\ Adds(g, f, {}) /\ Adds(k, h, {})
            BY <1>1, <1>2
        <2> QED
            BY <2>1 DEF Adds
    <1>4. ASSUME NEW s \in SUBSET S, s # {}, s \ {One(s)} \in P PROVE s \in P
        <2> DEFINE y == One(s)  t == s \ {One(s)}
        <2>1. y \in S /\ y \in s
            BY <1>4 DEF One
        <2>2. g[s] = f[y] + g[t] /\ k[s] = h[y] + k[t]
            BY <1>1, <1>2, <1>4 DEF Adds
        <2>3. g[t] \in Nat /\ k[t] = IF x \in t THEN g[t] + 1 ELSE g[t]
            BY <1>4
        <2>4. x \in s <=> x \in t \/ x = y
            BY <2>1
        <2>5. y \notin t
            OBVIOUS
        <2>6. f[y] \in Nat /\ h[y] = IF y = x THEN f[y] + 1 ELSE f[y]
            BY <2>1
        <2> HIDE DEF y, t
        <2>7. g[s] \in Nat /\ k[s] = IF x \in s THEN g[s] + 1 ELSE g[s]
            BY <2>2, <2>3, <2>4, <2>5, <2>6
        <2> QED
            BY <2>7
    <1>5. P \in SUBSET (SUBSET S)
        OBVIOUS
    <1> HIDE DEF P
    <1>6. P = SUBSET S
        BY <1>3, <1>4, <1>5, SubsetInduction
    <1>7. S \in P
        BY <1>6
    <1> QED
        BY <1>1, <1>2, <1>7 DEF P
-----------------------------------------------------------------------------
(* The plan *)

\* f concatenates the first sequences of q.
Joins(f, q, n) == \A i \in 1 .. n : f[i] = IF i = 1 THEN q[i] ELSE f[i - 1] \o q[i]

LEMMA JoinsExist ==
    ASSUME NEW q, NEW m \in Nat
    PROVE  \E f : f = [i \in 1 .. m |-> IF i = 1 THEN q[i] ELSE f[i - 1] \o q[i]]
    <1> DEFINE N == {n \in Nat : \E f : Joins(f, q, n)}
    <1>1. 0 \in N
        BY DEF Joins
    <1>2. ASSUME NEW n \in N PROVE n + 1 \in N
        <2>1. PICK f : Joins(f, q, n)
            OBVIOUS
        <2> DEFINE h == [i \in 1 .. n + 1 |->
                            IF i = n + 1
                            THEN IF i = 1 THEN q[i] ELSE f[i - 1] \o q[i]
                            ELSE f[i]]
        <2>2. \A i \in 1 .. n : h[i] = f[i]
            OBVIOUS
        <2>3. h[n + 1] = IF n + 1 = 1 THEN q[n + 1] ELSE f[n] \o q[n + 1]
            OBVIOUS
        <2> HIDE DEF h
        <2>4. ASSUME NEW i \in 1 .. n + 1
              PROVE  h[i] = IF i = 1 THEN q[i] ELSE h[i - 1] \o q[i]
            <3>1. CASE i = n + 1
                <4>1. i # 1 => n \in 1 .. n /\ i - 1 = n
                    BY <3>1
                <4> QED
                    BY <2>2, <2>3, <3>1, <4>1
            <3>2. CASE i # n + 1
                <4>1. i \in 1 .. n /\ (i # 1 => i - 1 \in 1 .. n)
                    BY <3>2
                <4> QED
                    BY <2>1, <2>2, <4>1 DEF Joins
            <3> QED
                BY <3>1, <3>2
        <2>5. Joins(h, q, n + 1)
            BY <2>4 DEF Joins
        <2> QED
            BY <2>5
    <1>3. N \in SUBSET Nat
        OBVIOUS
    <1> HIDE DEF N
    <1>4. m \in N
        BY <1>1, <1>2, <1>3, NatSetInduction
    <1>5. PICK g : Joins(g, q, m)
        BY <1>4 DEF N
    <1> DEFINE h == [i \in 1 .. m |-> g[i]]
    <1>6. ASSUME NEW i \in 1 .. m
          PROVE  h[i] = IF i = 1 THEN q[i] ELSE h[i - 1] \o q[i]
        <2>1. i # 1 => i - 1 \in 1 .. m
            OBVIOUS
        <2> QED
            BY <1>5, <2>1 DEF Joins
    <1>7. h = [i \in 1 .. m |-> h[i]]
        OBVIOUS
    <1> HIDE DEF h
    <1>8. [i \in 1 .. m |-> h[i]]
             = [i \in 1 .. m |-> IF i = 1 THEN q[i] ELSE h[i - 1] \o q[i]]
        BY <1>6
    <1> QED
        BY <1>7, <1>8

LEMMA Flattened ==
    ASSUME NEW S, NEW q \in Seq(Seq(S)), Len(q) > 0, q[1] # << >>
    PROVE  FlattenSeq(q) \in Seq(S) /\ FlattenSeq(q) # << >>
    <1> DEFINE m == Len(q)
               J(f) == f = [i \in 1 .. m |-> IF i = 1 THEN q[i] ELSE f[i - 1] \o q[i]]
               g == CHOOSE f : J(f)
    <1>0. m \in Nat /\ m > 0 /\ \A i \in 1 .. m : q[i] \in Seq(S)
        BY LenProperties
    <1>1. FlattenSeq(q) = g[m]
        BY <1>0 DEF FlattenSeq
    <1>2. J(g)
        BY <1>0, JoinsExist
    <1>3. \A i \in 1 .. m : g[i] = IF i = 1 THEN q[i] ELSE g[i - 1] \o q[i]
        BY <1>2
    <1> HIDE DEF g, m
    <1> DEFINE N == {n \in Nat : n + 1 \in 1 .. m => g[n + 1] \in Seq(S) /\ g[n + 1] # << >>}
    <1>4. 0 \in N
        <2>1. 1 \in 1 .. m
            BY <1>0
        <2>2. g[1] = q[1] /\ q[1] \in Seq(S)
            BY <1>0, <1>3, <2>1
        <2> QED
            BY <2>2
    <1>5. ASSUME NEW n \in N PROVE n + 1 \in N
        <2> SUFFICES ASSUME n + 2 \in 1 .. m PROVE g[n + 2] \in Seq(S) /\ g[n + 2] # << >>
            OBVIOUS
        <2>1. n + 1 \in 1 .. m /\ g[n + 1] \in Seq(S) /\ g[n + 1] # << >>
            BY <1>0
        <2>2. g[n + 2] = g[n + 1] \o q[n + 2] /\ q[n + 2] \in Seq(S)
            <3>1. n \in Nat /\ n + 2 # 1 /\ (n + 2) - 1 = n + 1
                OBVIOUS
            <3>2. g[n + 2] = IF n + 2 = 1 THEN q[n + 2] ELSE g[(n + 2) - 1] \o q[n + 2]
                BY <1>3
            <3> QED
                BY <1>0, <3>1, <3>2
        <2> DEFINE a == g[n + 1]  b == q[n + 2]
        <2>3. a \in Seq(S) /\ b \in Seq(S) /\ a # << >> /\ g[n + 2] = a \o b
            BY <2>1, <2>2
        <2> HIDE DEF a, b
        <2>4. a \o b \in Seq(S) /\ a \o b # << >>
            BY <2>3, TailConcat, ConcatProperties
        <2> QED
            BY <2>3, <2>4
    <1>6. N \in SUBSET Nat
        OBVIOUS
    <1> HIDE DEF N
    <1>7. m - 1 \in N
        <2>1. N = Nat
            BY <1>4, <1>5, <1>6, NatSetInduction
        <2> QED
            BY <1>0, <2>1
    <1>8. m - 1 + 1 \in 1 .. m /\ m - 1 + 1 = m
        BY <1>0
    <1>9. g[m] \in Seq(S) /\ g[m] # << >>
        BY <1>7, <1>8 DEF N
    <1> QED
        BY <1>1, <1>9

LEMMA MaxOf ==
    ASSUME NEW a \in Int, NEW b \in Int
    PROVE  Max({a, b}) = IF a >= b THEN a ELSE b
    <1> DEFINE m == IF a >= b THEN a ELSE b
    <1>1. m \in {a, b} /\ \A y \in {a, b} : m >= y
        OBVIOUS
    <1>2. \A x \in {a, b} : (\A y \in {a, b} : x >= y) => x = m
        OBVIOUS
    <1> HIDE DEF m
    <1>3. (CHOOSE x \in {a, b} : \A y \in {a, b} : x >= y) = m
        BY <1>1, <1>2
    <1> QED
        BY <1>3 DEF Max, m

LEMMA PlanTyped ==
    ASSUME NEW cli \in Clis
    PROVE  Plan(cli) \in Seq(Scenario) /\ 1 \in DOMAIN Plan(cli)
    <1>1. cli.scenario \in Scenario /\ cli.runs \in Nat
        BY HarnessAssumption
    <1> DEFINE one == IF cli.all THEN ALL_SCENARIOS ELSE <<cli.scenario>>
               n == Max({cli.runs, 1})
               q == [r \in 1 .. n |-> one]
    <1>2. one \in Seq(Scenario) /\ one # << >>
        <2>1. <<cli.scenario>> \in Seq(Scenario) /\ <<cli.scenario>> # << >>
            BY <1>1
        <2>2. ALL_SCENARIOS # << >>
            BY DEF ALL_SCENARIOS
        <2>3. ALL_SCENARIOS \in Seq(Scenario)
            <3>1. /\ DOMAIN ALL_SCENARIOS = 1 .. 13
                  /\ ALL_SCENARIOS = [i \in 1 .. 13 |-> ALL_SCENARIOS[i]]
                BY DEF ALL_SCENARIOS
            <3>2. \A i \in 1 .. 13 : ALL_SCENARIOS[i] \in Scenario
                BY <3>1 DEF Scenario, Range
            <3> DEFINE a == ALL_SCENARIOS
            <3> HIDE DEF a
            <3>3. \A m \in Nat : (\A i \in 1 .. m : a[i] \in Scenario)
                     => [i \in 1 .. m |-> a[i]] \in Seq(Scenario)
                OBVIOUS
            <3>4. [i \in 1 .. 13 |-> a[i]] \in Seq(Scenario)
                BY <3>2, <3>3 DEF a
            <3> QED
                BY <3>1, <3>4 DEF a
        <2> QED
            BY <2>1, <2>2, <2>3
    <1>3. n \in Nat /\ n > 0
        BY <1>1, MaxOf
    <1> HIDE DEF n, one
    <1>4. q \in Seq(Seq(Scenario)) /\ Len(q) = n /\ q[1] = one
        BY <1>2, <1>3
    <1>5. Plan(cli) = FlattenSeq(q)
        BY DEF Plan, n, one
    <1> HIDE DEF q
    <1>6. Plan(cli) \in Seq(Scenario) /\ Plan(cli) # << >>
        BY <1>2, <1>3, <1>4, <1>5, Flattened
    <1> QED
        BY <1>6, LenProperties, EmptySeq
-----------------------------------------------------------------------------
(* The channel *)

LEMMA SelectHeadTail ==
    ASSUME NEW S, NEW s \in Seq(S), s # << >>, NEW T
    PROVE  Len(Select(s, T)) = Bit(Head(s) \in T) + Len(Select(Tail(s), T))
    <1> DEFINE P(e) == {t \in Seq(S) : Len(Select(<<e>> \o t, T))
                                         = Bit(e \in T) + Len(Select(t, T))}
    <1>1. ASSUME NEW e \in S PROVE << >> \in P(e)
        <2>1. << >> \in Seq(S) /\ <<e>> \o << >> = <<e>> /\ <<e>> = Append(<< >>, e)
            BY ConcatEmptySeq
        <2>2. Select(Append(<< >>, e), T)
                 = IF e \in T THEN Append(Select(<< >>, T), e) ELSE Select(<< >>, T)
            BY <2>1, SelectAppend
        <2>3. Select(<< >>, T) = << >>
            BY SelectEmpty
        <2>4. Len(Append(<< >>, e)) = 1 /\ Len(<< >>) = 0
            BY <2>1
        <2>5. Len(Select(Append(<< >>, e), T)) = Bit(e \in T)
            <3>1. CASE e \in T
                BY <2>2, <2>3, <2>4, <3>1 DEF Bit
            <3>2. CASE e \notin T
                BY <2>2, <2>3, <2>4, <3>2 DEF Bit
            <3> QED
                BY <3>1, <3>2
        <2>6. Len(Select(<< >>, T)) = 0 /\ Len(Select(<<e>> \o << >>, T)) = Bit(e \in T)
            BY <2>1, <2>3, <2>4, <2>5
        <2> QED
            BY <2>1, <2>6 DEF Bit
    <1>2. ASSUME NEW e \in S, NEW t \in P(e), NEW x \in S PROVE Append(t, x) \in P(e)
        <2>1. t \in Seq(S) /\ <<e>> \in Seq(S) /\ <<e>> \o t \in Seq(S)
              /\ Append(t, x) \in Seq(S)
            BY ConcatProperties
        <2>2. <<e>> \o Append(t, x) = Append(<<e>> \o t, x)
            BY ONLY <2>1, x \in S, AppendConcat
        <2> DEFINE u == <<e>> \o t
        <2>3. u \in Seq(S) /\ Len(Select(u, T)) = Bit(e \in T) + Len(Select(t, T))
            BY <2>1
        <2> HIDE DEF u
        <2>4. Select(Append(u, x), T) = IF x \in T THEN Append(Select(u, T), x)
                                        ELSE Select(u, T)
            BY <2>3, SelectAppend
        <2>5. Select(Append(t, x), T) = IF x \in T THEN Append(Select(t, T), x)
                                        ELSE Select(t, T)
            BY <2>1, SelectAppend
        <2>6. Select(u, T) \in Seq(S \cap T) /\ Select(t, T) \in Seq(S \cap T)
            BY <2>1, <2>3, SelectType
        <2> DEFINE v == Select(u, T)  w == Select(t, T)
        <2>7. Len(v) \in Nat /\ Len(w) \in Nat /\ Bit(e \in T) \in Nat
            BY <2>6 DEF Bit
        <2>8. x \in T => Len(Append(v, x)) = Len(v) + 1 /\ Len(Append(w, x)) = Len(w) + 1
            BY <2>6, AppendProperties
        <2>9. Len(Select(Append(u, x), T)) = Bit(e \in T) + Len(Select(Append(t, x), T))
            <3>1. CASE x \in T
                BY <2>3, <2>4, <2>5, <2>7, <2>8, <3>1
            <3>2. CASE x \notin T
                BY <2>3, <2>4, <2>5, <3>2
            <3> QED
                BY <3>1, <3>2
        <2> QED
            BY <2>1, <2>2, <2>9 DEF u
    <1>3. Head(s) \in S /\ Tail(s) \in Seq(S) /\ s = <<Head(s)>> \o Tail(s)
        BY HeadTailProperties, ConcatProperties
    <1>4. P(Head(s)) = Seq(S)
        <2>1. P(Head(s)) \in SUBSET Seq(S)
            OBVIOUS
        <2> HIDE DEF P
        <2> QED
            BY <1>1, <1>2, <1>3, <2>1, SeqSetInduction
    <1> QED
        BY <1>3, <1>4
-----------------------------------------------------------------------------
(* The steps of the camera: only the job's own can take one *)

CameraIs(new) == camera' = [camera EXCEPT ![job] = new]

Sends ==
    /\ phase # "pause" /\ camera[job] = "ready" /\ CameraIs("sent")
    /\ offered < MaxFrames /\ offered' = offered + 1
    /\ Len(queue) < QueueCap
    /\ queue' = Append(queue, IF inWarmup THEN "warm-up" ELSE "window")
    /\ truth' = IF inWarmup THEN truth ELSE [truth EXCEPT !.sent = @ + 1]
    /\ UNCHANGED <<woke, framesSent, metrics>>

Refused ==
    /\ phase # "pause" /\ camera[job] = "ready" /\ CameraIs("full")
    /\ offered < MaxFrames /\ offered' = offered + 1
    /\ truth' = IF InWindow THEN [truth EXCEPT !.refused = @ + 1] ELSE truth
    /\ UNCHANGED <<queue, woke, framesSent, metrics>>

Ends ==
    /\ phase = "pause" /\ camera[job] = "ready" /\ CameraIs("gone")
    /\ woke'
    /\ UNCHANGED <<offered, queue, truth, framesSent, metrics>>

CountsSent ==
    /\ camera[job] = "sent" /\ CameraIs("ready")
    /\ framesSent' = framesSent + 1
    /\ UNCHANGED <<offered, queue, truth, woke, metrics>>

CountsRefused ==
    /\ camera[job] = "full" /\ CameraIs("ready")
    /\ metrics' = [metrics EXCEPT !.drops = @ + 1]
    /\ UNCHANGED <<offered, queue, truth, woke, framesSent>>

JobsCamera ==
    /\ phase \notin {"clear", "open", "exit"}
    /\ Sends \/ Refused \/ Ends \/ CountsSent \/ CountsRefused
    /\ UNCHANGED <<main, phase, window, results, newest>>

LEMMA CameraSteps ==
    ASSUME TypeOK, Cameras, NEW c \in DOMAIN plan, Camera(c)
    PROVE  JobsCamera
    <1>1. plan \in Seq(Scenario) /\ job \in DOMAIN plan
        BY DEF TypeOK
    <1>2. DOMAIN plan = 1 .. Len(plan) /\ Len(plan) \in Nat
        BY <1>1, LenProperties
    <1>3. camera[c] \in {"ready", "sent", "full"}
        BY DEF Camera, TrySend, Count
    <1>4. c = job
        BY <1>1, <1>2, <1>3 DEF Cameras
    <1>5. phase \notin {"clear", "open", "exit"}
        BY <1>3, <1>4 DEF Camera, Cameras
    <1>6. UNCHANGED <<main, phase, window, results, newest>>
        BY DEF Camera, TrySend, Count
    <1>7. CASE TrySend(c) /\ UNCHANGED metrics
        BY <1>4, <1>5, <1>6, <1>7
        DEF TrySend, IsOpen, HasRoom, Disconnected, JobsCamera, Sends, Refused, Ends, CameraIs
    <1>8. CASE Count(c) /\ UNCHANGED truth
        BY <1>4, <1>5, <1>6, <1>8
        DEF Count, JobsCamera, CountsSent, CountsRefused, CameraIs
    <1> QED
        BY <1>7, <1>8 DEF Camera

\* What CameraIs does to the camera of the job.
LEMMA CameraNow ==
    ASSUME TypeOK, NEW new \in {"none", "ready", "sent", "full", "gone"}, CameraIs(new)
    PROVE  /\ camera' \in [DOMAIN plan -> {"none", "ready", "sent", "full", "gone"}]
           /\ camera'[job] = new
           /\ \A c \in DOMAIN plan : c # job => camera'[c] = camera[c]
    BY DEF TypeOK, CameraIs
-----------------------------------------------------------------------------
(* Type correctness *)

LEMMA NothingTyped ==
    /\ NoMetrics \in Metrics /\ NoMetrics.ticks = 0 /\ NoMetrics.drops = 0
    /\ NoRows \in Counters /\ NoRows.ticks = 0 /\ NoRows.drops = 0
    /\ NoRow \in [frames : Nat, loss : Nat,
                  verdict : {"NONE", "OK", "WARN", "NOTE", "FAIL"}]
    /\ NoTruth \in [ticks : Nat, sent : Nat, taken : Nat, refused : Nat]
    BY DEF NoMetrics, Metrics, NoRows, Counters, NoRow, NoTruth

LEMMA SnapshotTyped ==
    ASSUME NEW m \in Metrics
    PROVE  /\ Snapshot(m) \in Counters
           /\ Snapshot(m).ticks = m.ticks /\ Snapshot(m).drops = m.drops
    BY DEF Snapshot, Counters, Metrics

LEMMA VerdictTyped ==
    ASSUME scenario \in Scenario
    PROVE  Verdict \in {"NONE", "OK", "WARN", "NOTE", "FAIL"}
    <1>1. /\ VerdictOfReference \in {"OK", "WARN"} /\ VerdictOfShed \in {"OK", "FAIL"}
          /\ VerdictOfThreshold \in {"OK", "WARN"} /\ VerdictOfOverload \in {"OK", "FAIL"}
          /\ VerdictOfFps \in {"OK", "WARN"}
        BY DEF VerdictOfReference, VerdictOfShed, VerdictOfThreshold, VerdictOfOverload,
               VerdictOfFps
    <1>2. VerdictOfBlocking \in {"OK", "WARN"}
        BY DEF VerdictOfBlocking
    <1>3. scenario \in {"baseline", "inproc_low", "blocking_1ms", "blocking_3ms",
              "blocking_10ms", "blocking_50ms", "load_shed", "overload_threshold",
              "overload_moderate", "overload_severe", "fps_1000", "fps_2000",
              "fps_5000", Unknown}
        <2>1. DOMAIN ALL_SCENARIOS = 1 .. 13
            BY DEF ALL_SCENARIOS
        <2>2. \A i \in 1 .. 13 : ALL_SCENARIOS[i] \in
              {"baseline", "inproc_low", "blocking_1ms", "blocking_3ms",
               "blocking_10ms", "blocking_50ms", "load_shed", "overload_threshold",
               "overload_moderate", "overload_severe", "fps_1000", "fps_2000",
               "fps_5000"}
            BY DEF ALL_SCENARIOS
        <2> QED
            BY <2>1, <2>2 DEF Scenario, Range
    <1> QED
        BY <1>1, <1>2, <1>3 DEF Verdict

\* No summary is taken for the absent one: "absent" is no scenario.
LEMMA AbsentIsNone ==
    Absent \notin Seq(Scenario \cup {Stale})
    <1>1. "absent" \notin Scenario \cup {Stale}
        <2>1. DOMAIN ALL_SCENARIOS = 1 .. 13
            BY DEF ALL_SCENARIOS
        <2>2. \A i \in 1 .. 13 : ALL_SCENARIOS[i] # "absent"
            BY DEF ALL_SCENARIOS
        <2> QED
            BY <2>1, <2>2 DEF Scenario, Range, Unknown, Stale
    <1> DEFINE S == Scenario \cup {Stale}
    <1> HIDE DEF S
    <1>2. <<"absent">> \in Seq(S) => "absent" \in S
        <2> SUFFICES ASSUME <<"absent">> \in Seq(S) PROVE "absent" \in S
            OBVIOUS
        <2>1. Len(<<"absent">>) = 1 /\ <<"absent">>[1] = "absent"
            OBVIOUS
        <2> QED
            BY <2>1, ElementOfSeq
    <1> QED
        BY <1>1, <1>2 DEF Absent, S

TypeNow == /\ plan \in Seq(Scenario) /\ job \in DOMAIN plan
           /\ DOMAIN plan = 1 .. Len(plan) /\ Len(plan) \in Nat
           /\ scenario \in Scenario

LEMMA PlanNow == TypeOK => TypeNow
    BY LenProperties, ElementOfSeq DEF TypeOK, TypeNow, scenario

LEMMA TypeInit ==
    ASSUME Init
    PROVE  TypeOK
    <1>1. PICK cli \in Clis : plan = Plan(cli)
        BY DEF Init
    <1>2. plan \in Seq(Scenario) /\ job \in DOMAIN plan
        BY <1>1, PlanTyped DEF Init
    <1>3. /\ phase \in {"clear", "open", "begin", "tick", "drain", "look", "mark",
                        "recapture", "final", "write", "validate", "pause", "exit"}
          /\ newest \in {"warm-up", "window", Nothing}
          /\ offered \in 0 .. MaxFrames
          /\ framesSent \in 0 .. offered /\ framesAtWarmupEnd \in 0 .. framesSent
          /\ elapsed \in Nat /\ lastSample \in 0 .. elapsed
        BY HarnessAssumption DEF Init
    <1>4. summary \in Seq(Scenario \cup {Stale}) \cup {Absent}
        <2>1. <<Stale>> \in Seq(Scenario \cup {Stale})
            OBVIOUS
        <2> QED
            BY <2>1 DEF Init
    <1>5. metrics \in Metrics /\ final \in Metrics /\ lastCounters \in Counters
          /\ rows \in Counters
        BY NothingTyped DEF Init
    <1>6. camera \in [DOMAIN plan -> {"none", "ready", "sent", "full", "gone"}]
        BY DEF Init
    <1>7. queue \in Seq({"warm-up", "window"}) /\ Len(queue) <= QueueCap
        BY HarnessAssumption DEF Init
    <1>8. row \in [frames : Nat, loss : Nat,
                   verdict : {"NONE", "OK", "WARN", "NOTE", "FAIL"}]
          /\ truth \in [ticks : Nat, sent : Nat, taken : Nat, refused : Nat]
        BY NothingTyped DEF Init
    <1>9. inWarmup \in BOOLEAN /\ woke \in BOOLEAN /\ stale \in BOOLEAN
        BY DEF Init
    <1> QED
        BY <1>2, <1>3, <1>4, <1>5, <1>6, <1>7, <1>8, <1>9 DEF TypeOK

\* A step of the camera.
LEMMA TypeCamera ==
    ASSUME TypeOK, Frames, JobsCamera
    PROVE  TypeOK'
    <1>0. MaxFrames \in Nat /\ QueueCap \in Nat
        BY HarnessAssumption
    <1>1. camera' \in [DOMAIN plan -> {"none", "ready", "sent", "full", "gone"}]
        BY CameraNow DEF JobsCamera, Sends, Refused, Ends, CountsSent, CountsRefused
    <1>2. metrics' \in Metrics
        <2>1. metrics \in Metrics
            BY DEF TypeOK
        <2> QED
            BY <2>1
            DEF JobsCamera, Sends, Refused, Ends, CountsSent, CountsRefused, Metrics
    <1>3. truth' \in [ticks : Nat, sent : Nat, taken : Nat, refused : Nat]
        <2>1. truth \in [ticks : Nat, sent : Nat, taken : Nat, refused : Nat]
            BY DEF TypeOK
        <2> QED
            BY <2>1
            DEF JobsCamera, Sends, Refused, Ends, CountsSent, CountsRefused, Metrics
    <1>4. queue' \in Seq({"warm-up", "window"}) /\ Len(queue') <= QueueCap
        <2>1. queue \in Seq({"warm-up", "window"}) /\ Len(queue) \in Nat
              /\ Len(queue) <= QueueCap
            BY LenProperties DEF TypeOK
        <2>2. CASE Sends
            <3>1. PICK e \in {"warm-up", "window"} : queue' = Append(queue, e)
                BY <2>2 DEF Sends
            <3>2. queue' \in Seq({"warm-up", "window"}) /\ Len(queue') = Len(queue) + 1
                BY <2>1, <3>1, AppendProperties
            <3> QED
                BY <1>0, <2>1, <2>2, <3>2 DEF Sends
        <2>3. CASE UNCHANGED queue
            BY <2>1, <2>3
        <2> QED
            BY <2>2, <2>3 DEF JobsCamera, Refused, Ends, CountsSent, CountsRefused
    <1>5. woke' \in BOOLEAN
        BY DEF TypeOK, JobsCamera, Sends, Refused, Ends, CountsSent, CountsRefused
    <1>6. /\ offered' \in 0 .. MaxFrames
          /\ framesSent' \in 0 .. offered' /\ framesAtWarmupEnd' \in 0 .. framesSent'
        <2>1. /\ offered \in 0 .. MaxFrames
              /\ framesSent \in 0 .. offered /\ framesAtWarmupEnd \in 0 .. framesSent
            BY DEF TypeOK
        <2>2. UNCHANGED framesAtWarmupEnd
            BY DEF JobsCamera, window
        <2>3. CASE Sends \/ Refused
            BY <1>0, <2>1, <2>2, <2>3 DEF Sends, Refused
        <2>4. CASE Ends \/ CountsRefused
            BY <1>0, <2>1, <2>2, <2>4 DEF Ends, CountsRefused
        <2>5. CASE CountsSent
            <3>1. framesSent + 1 <= offered
                BY <2>5 DEF CountsSent, Frames, Bit
            <3> QED
                BY <1>0, <2>1, <2>2, <2>5, <3>1 DEF CountsSent
        <2> QED
            BY <2>3, <2>4, <2>5 DEF JobsCamera
    <1>7. UNCHANGED <<plan, job, summary, phase, elapsed, inWarmup, lastSample,
                      lastCounters, final, row, rows, stale, newest>>
        BY DEF JobsCamera, main, window, results
    <1> QED
        BY <1>1, <1>2, <1>3, <1>4, <1>5, <1>6, <1>7 DEF TypeOK

\* A tick that took so long is one more sample of the histogram.
LEMMA OneTook ==
    ASSUME NEW m \in Metrics, NEW took \in Tooks, NEW n,
           n = [m EXCEPT !.ticks = @ + 1, !.hist[took] = @ + 1]
    PROVE  /\ n \in Metrics /\ n.ticks = m.ticks + 1 /\ n.drops = m.drops
           /\ SumFunction(n.hist) = SumFunction(m.hist) + 1
    <1>1. m.hist \in [Tooks -> Nat] /\ DOMAIN m = {"ticks", "drops", "hist"}
          /\ m.ticks \in Nat /\ m.drops \in Nat
        BY DEF Metrics
    <1> DEFINE h == [m.hist EXCEPT ![took] = @ + 1]
    <1>2. n = [m EXCEPT !.ticks = m.ticks + 1, !.hist = h]
        BY <1>1
    <1>6. m = [ticks |-> m.ticks, drops |-> m.drops, hist |-> m.hist]
        BY DEF Metrics
    <1>7. n = [ticks |-> m.ticks + 1, drops |-> m.drops, hist |-> h]
        BY <1>2, <1>6
    <1>3. h \in [Tooks -> Nat] /\ h[took] = m.hist[took] + 1
          /\ \A y \in Tooks \ {took} : h[y] = m.hist[y]
        BY <1>1
    <1> HIDE DEF h
    <1>4. n \in Metrics /\ n.ticks = m.ticks + 1 /\ n.drops = m.drops /\ n.hist = h
        BY <1>1, <1>3, <1>7 DEF Metrics
    <1>5. SumFunctionOnSet(h, Tooks) = SumFunctionOnSet(m.hist, Tooks) + 1
        <2>1. IsFiniteSet(Tooks)
            BY HarnessAssumption DEF Tooks
        <2> QED
            BY <1>1, <1>3, <2>1, SumOneMore
    <1> QED
        BY <1>1, <1>3, <1>4, <1>5 DEF SumFunction

LEMMA NoneTook ==
    SumFunction(NoMetrics.hist) = 0
    <1>1. DOMAIN NoMetrics.hist = Tooks /\ \A t \in Tooks : NoMetrics.hist[t] = 0
        BY DEF NoMetrics
    <1>2. IsFiniteSet(Tooks)
        BY HarnessAssumption DEF Tooks
    <1> QED
        BY <1>1, <1>2, SumZero DEF SumFunction

LEMMA TookTyped ==
    ASSUME NEW m \in Metrics
    PROVE  SumFunction(m.hist) \in Nat
    <1>1. m.hist \in [Tooks -> Nat]
        BY DEF Metrics
    <1>2. IsFiniteSet(Tooks)
        BY HarnessAssumption DEF Tooks
    <1> QED
        BY <1>1, <1>2, SumNat DEF SumFunction

\* A row of the time series is the increase of the counters, or nothing.
RowAfter(r, a, b) == [c \in DOMAIN r |-> r[c] + Max({a[c] - b[c], 0})]

LEMMA SampledRows ==
    ASSUME NEW r \in Counters, NEW a \in Counters, NEW b \in Counters, NEW s,
           s = RowAfter(r, a, b)
    PROVE  /\ s \in Counters
           /\ s.ticks = r.ticks + (IF a.ticks >= b.ticks THEN a.ticks - b.ticks ELSE 0)
           /\ s.drops = r.drops + (IF a.drops >= b.drops THEN a.drops - b.drops ELSE 0)
    <1>1. DOMAIN r = {"ticks", "drops"} /\ r.ticks \in Nat /\ r.drops \in Nat
          /\ a.ticks \in Nat /\ a.drops \in Nat /\ b.ticks \in Nat /\ b.drops \in Nat
        BY DEF Counters
    <1>2. Max({a.ticks - b.ticks, 0}) = IF a.ticks >= b.ticks THEN a.ticks - b.ticks ELSE 0
        <2>1. a.ticks - b.ticks \in Int /\ 0 \in Int
            BY <1>1
        <2> QED
            BY <1>1, <2>1, MaxOf
    <1>3. Max({a.drops - b.drops, 0}) = IF a.drops >= b.drops THEN a.drops - b.drops ELSE 0
        <2>1. a.drops - b.drops \in Int /\ 0 \in Int
            BY <1>1
        <2> QED
            BY <1>1, <2>1, MaxOf
    <1>4. /\ s.ticks = r.ticks + Max({a.ticks - b.ticks, 0})
          /\ s.drops = r.drops + Max({a.drops - b.drops, 0})
          /\ s = [ticks |-> s.ticks, drops |-> s.drops]
        BY <1>1 DEF RowAfter
    <1>5. s.ticks \in Nat /\ s.drops \in Nat
        BY <1>1, <1>2, <1>3, <1>4
    <1>6. s \in Counters
        BY <1>4, <1>5 DEF Counters
    <1> QED
        BY <1>2, <1>3, <1>4, <1>6

LEMMA Loss ==
    ASSUME TypeOK
    PROVE  /\ FramesInWindow \in Nat
           /\ FramesInWindow = framesSent - framesAtWarmupEnd
           /\ Max({FramesInWindow - final.ticks, 0}) \in Nat
           /\ Max({FramesInWindow - final.ticks, 0})
                = IF FramesInWindow >= final.ticks THEN FramesInWindow - final.ticks ELSE 0
    <1>1. framesSent \in Nat /\ framesAtWarmupEnd \in 0 .. framesSent /\ final.ticks \in Nat
        <2>1. MaxFrames \in Nat /\ offered \in 0 .. MaxFrames /\ framesSent \in 0 .. offered
            BY HarnessAssumption DEF TypeOK
        <2> QED
            BY <2>1 DEF TypeOK, Metrics
    <1>2. FramesInWindow = framesSent - framesAtWarmupEnd /\ FramesInWindow \in Nat
        BY <1>1, MaxOf DEF FramesInWindow
    <1> QED
        BY <1>1, <1>2, MaxOf

LEMMA TypeMain ==
    ASSUME TypeOK, File, Main
    PROVE  TypeOK'
    <1> USE DEF main, thread, channel, window, results
    <1>0. TypeNow
        BY PlanNow
    <1>1. CASE ClearSummary
        BY <1>1 DEF ClearSummary, TypeOK
    <1>2. CASE StartRun
        <2>1. summary' \in Seq(Scenario \cup {Stale})
            BY <1>2 DEF StartRun, TypeOK
        <2>2. queue' \in Seq({"warm-up", "window"}) /\ Len(queue') <= QueueCap
            BY <1>2, HarnessAssumption DEF StartRun
        <2>3. camera' \in [DOMAIN plan -> {"none", "ready", "sent", "full", "gone"}]
            BY <1>2 DEF StartRun, TypeOK
        <2>4. /\ offered' \in 0 .. MaxFrames
              /\ framesSent' \in 0 .. offered' /\ framesAtWarmupEnd' \in 0 .. framesSent'
              /\ elapsed' \in Nat /\ lastSample' \in 0 .. elapsed'
            BY <1>2, HarnessAssumption DEF StartRun
        <2>5. metrics' \in Metrics /\ final' \in Metrics /\ lastCounters' \in Counters
              /\ rows' \in Counters
              /\ truth' \in [ticks : Nat, sent : Nat, taken : Nat, refused : Nat]
            BY <1>2, NothingTyped DEF StartRun
        <2>6. newest' = Nothing /\ inWarmup' /\ inWarmup' \in BOOLEAN /\ ~woke'
              /\ woke' \in BOOLEAN /\ phase' = "begin"
              /\ UNCHANGED <<plan, job, row, stale>>
            BY <1>2 DEF StartRun
        <2> QED
            BY <2>1, <2>2, <2>3, <2>4, <2>5, <2>6 DEF TypeOK
    <1>3. CASE Begin
        BY <1>3, SnapshotTyped DEF Begin, TypeOK
    <1>4. CASE Tick
        BY <1>4 DEF Tick, TypeOK
    <1>5. CASE Receive
        <2>1. queue \in Seq({"warm-up", "window"}) /\ queue # << >>
              /\ Len(queue) <= QueueCap /\ QueueCap \in Nat
            BY <1>5, HarnessAssumption DEF Receive, TypeOK
        <2>2. /\ Head(queue) \in {"warm-up", "window"}
              /\ Tail(queue) \in Seq({"warm-up", "window"})
              /\ Len(Tail(queue)) = Len(queue) - 1 /\ Len(queue) \in Nat
            BY <2>1, HeadTailProperties, LenProperties
        <2>3. queue' \in Seq({"warm-up", "window"}) /\ Len(queue') <= QueueCap
              /\ newest' \in {"warm-up", "window"}
            BY <1>5, <2>1, <2>2 DEF Receive
        <2> QED
            BY <1>5, <2>3 DEF Receive, TypeOK
    <1>6. ASSUME NEW took \in Took[scenario], EndTick(took) PROVE TypeOK'
        <2>1. metrics \in Metrics /\ took \in Nat /\ took \in Tooks
              /\ truth \in [ticks : Nat, sent : Nat, taken : Nat, refused : Nat]
              /\ elapsed \in Nat /\ lastSample \in 0 .. elapsed
            BY <1>0, HarnessAssumption DEF TypeOK, TypeNow, Tooks
        <2>2. metrics' \in Metrics
            BY <1>6, <2>1, OneTook DEF EndTick
        <2>3. elapsed' \in Nat /\ lastSample' \in 0 .. elapsed'
            BY <1>6, <2>1 DEF EndTick
        <2>4. truth' \in [ticks : Nat, sent : Nat, taken : Nat, refused : Nat]
            <3>1. truth.ticks + 1 \in Nat /\ truth.taken + 1 \in Nat /\ truth.taken \in Nat
                BY <2>1
            <3> QED
                BY <1>6, <2>1, <3>1 DEF EndTick
        <2> QED
            BY <1>6, <2>2, <2>3, <2>4 DEF EndTick, TypeOK
    <1>7. CASE WarmupEnds
        BY <1>7, NothingTyped DEF WarmupEnds, TypeOK
    <1>8. CASE Mark
        BY <1>8 DEF Mark, TypeOK
    <1>9. CASE Recapture
        BY <1>9, SnapshotTyped DEF Recapture, TypeOK
    <1>10. CASE Sample
        <2>1. rows \in Counters /\ lastCounters \in Counters /\ Snapshot(metrics) \in Counters
            BY SnapshotTyped DEF TypeOK
        <2>2. rows' \in Counters
            BY <1>10, <2>1, SampledRows DEF Sample, RowAfter
        <2> QED
            BY <1>10, <2>1, <2>2 DEF Sample, TypeOK
    <1>11. CASE GoOn
        BY <1>11 DEF GoOn, TypeOK
    <1>12. CASE CaptureFinal
        BY <1>12 DEF CaptureFinal, TypeOK
    <1>13. CASE WriteRow
        <2>1. summary' \in Seq(Scenario \cup {Stale})
            <3>1. summary \in Seq(Scenario \cup {Stale})
                BY <1>13 DEF WriteRow, TypeOK, File
            <3> QED
                BY <1>0, <1>13, <3>1, AppendProperties DEF WriteRow, TypeNow
        <2>2. FramesInWindow \in Nat /\ Max({FramesInWindow - final.ticks, 0}) \in Nat
            BY Loss
        <2>3. row' \in [frames : Nat, loss : Nat,
                        verdict : {"NONE", "OK", "WARN", "NOTE", "FAIL"}]
            <3>1. row \in [frames : Nat, loss : Nat,
                           verdict : {"NONE", "OK", "WARN", "NOTE", "FAIL"}]
                BY DEF TypeOK
            <3> QED
                BY <1>13, <2>2, <3>1 DEF WriteRow
        <2> QED
            BY <1>13, <2>1, <2>3 DEF WriteRow, TypeOK
    <1>14. CASE Validate
        <2>1. row' \in [frames : Nat, loss : Nat,
                        verdict : {"NONE", "OK", "WARN", "NOTE", "FAIL"}]
            <3>1. row \in [frames : Nat, loss : Nat,
                           verdict : {"NONE", "OK", "WARN", "NOTE", "FAIL"}]
                BY DEF TypeOK
            <3> QED
                BY <1>0, <1>14, <3>1, VerdictTyped DEF Validate, TypeNow
        <2> QED
            BY <1>14, <2>1 DEF Validate, TypeOK
    <1>15. CASE Pause
        <2>1. job' \in DOMAIN plan
            BY <1>0, <1>15 DEF Pause, TypeNow, File
        <2> QED
            BY <1>15, <2>1, NothingTyped DEF Pause, TypeOK
    <1>16. CASE IOError
        BY <1>16 DEF IOError, TypeOK
    <1> QED
        BY <1>1, <1>2, <1>3, <1>4, <1>5, <1>6, <1>7, <1>8, <1>9, <1>10, <1>11, <1>12,
           <1>13, <1>14, <1>15, <1>16 DEF Main
-----------------------------------------------------------------------------
(* The invariant is kept: the cameras, the file *)

\* The job's camera moves, and is still not gone nor there before its time.
LEMMA CamerasByCamera ==
    ASSUME TypeOK, Cameras, JobsCamera
    PROVE  Cameras'
    <1>1. PICK new \in {"ready", "sent", "full", "gone"} :
             CameraIs(new) /\ (new = "gone" => phase = "pause") /\ (new # "gone" => UNCHANGED woke)
        BY DEF JobsCamera, Sends, Refused, Ends, CountsSent, CountsRefused
    <1>2. camera'[job] = new /\ \A c \in DOMAIN plan : c # job => camera'[c] = camera[c]
        BY <1>1, CameraNow
    <1>3. /\ UNCHANGED <<plan, job, phase>>
          /\ phase \notin {"clear", "open", "exit"}
        BY DEF JobsCamera, main
    <1>4. camera[job] # "gone"
        BY DEF JobsCamera, Sends, Refused, Ends, CountsSent, CountsRefused
    <1>5. job \in DOMAIN plan /\ DOMAIN plan = 1 .. Len(plan) /\ Len(plan) \in Nat
        BY PlanNow DEF TypeNow
    <1> QED
        BY <1>1, <1>2, <1>3, <1>4, <1>5 DEF Cameras

LEMMA CamerasByMain ==
    ASSUME TypeOK, Cameras, File, Main
    PROVE  Cameras'
    <1> USE DEF main, thread, channel, window, results
    <1>0. job \in DOMAIN plan /\ DOMAIN plan = 1 .. Len(plan) /\ Len(plan) \in Nat
        BY PlanNow DEF TypeNow
    <1>1. CASE ClearSummary
        BY <1>1 DEF ClearSummary, Cameras
    <1>2. CASE StartRun
        <2>1. camera'[job] = "ready" /\ \A c \in DOMAIN plan : c # job => camera'[c] = camera[c]
            BY <1>2 DEF StartRun, TypeOK
        <2> QED
            BY <1>0, <1>2, <2>1 DEF StartRun, Cameras
    <1>3. CASE Pause
        <2>1. camera[job] = "gone" /\ job' = job + 1 /\ job # Len(plan)
            BY <1>3 DEF Pause, Cameras, File
        <2>2. camera[job + 1] = "none"
            BY <1>0, <2>1 DEF Cameras
        <2>3. \A c \in DOMAIN plan : (c < job + 1 <=> c < job \/ c = job)
                                  /\ (c > job + 1 => c > job)
            BY <1>0
        <2>4. \A c \in DOMAIN plan : /\ c < job' => camera'[c] = "gone"
                                     /\ c > job' => camera'[c] = "none"
            BY <1>3, <2>1, <2>3 DEF Pause, Cameras
        <2> QED
            BY <1>3, <2>1, <2>2, <2>4 DEF Pause, Cameras
    <1>4. CASE Begin \/ Tick \/ Receive \/ (\E took \in Took[scenario] : EndTick(took))
               \/ WarmupEnds \/ Mark \/ Recapture \/ Sample \/ GoOn \/ CaptureFinal
               \/ WriteRow \/ Validate \/ IOError
        <2>1. /\ UNCHANGED <<plan, job, camera, woke>>
              /\ phase' \notin {"clear", "open"}
              /\ phase = "open" => phase' = "exit"
              /\ phase # "exit"
            BY <1>4
            DEF Begin, Tick, Receive, EndTick, WarmupEnds, Mark, Recapture, Sample, GoOn,
                CaptureFinal, WriteRow, Validate, IOError
        <2> QED
            BY <2>1 DEF Cameras
    <1> QED
        BY <1>1, <1>2, <1>3, <1>4 DEF Main

LEMMA FileByCamera ==
    ASSUME File, JobsCamera
    PROVE  File'
    <1>1. UNCHANGED <<plan, job, phase, summary, stale>>
        BY DEF JobsCamera, main, results
    <1> QED
        BY <1>1 DEF File, Written

LEMMA FileByMain ==
    ASSUME TypeOK, File, Main
    PROVE  File'
    <1> USE DEF main, thread, channel, window, results
    <1>0. job \in DOMAIN plan /\ DOMAIN plan = 1 .. Len(plan) /\ Len(plan) \in Nat
          /\ plan \in Seq(Scenario)
        BY PlanNow DEF TypeNow
    <1> DEFINE Before == IF stale THEN <<Stale>> ELSE << >>
    <1>1. SubSeq(plan, 1, 0) = << >>
        BY <1>0, SubSeqProperties
    <1>2. /\ Before \in Seq(Scenario \cup {Stale}) /\ SubSeq(plan, 1, 0) = << >>
          /\ Before \o SubSeq(plan, 1, 0) = Before
        <2>1. Before \in Seq(Scenario \cup {Stale})
            <3>1. /\ <<Stale>> \in Seq(Scenario \cup {Stale})
                  /\ << >> \in Seq(Scenario \cup {Stale})
                OBVIOUS
            <3> QED
                BY <3>1
        <2> HIDE DEF Before
        <2> QED
            BY <1>1, <2>1, ConcatEmptySeq
    <1>3. CASE ClearSummary
        <2>1. /\ phase = "clear" /\ phase' = "open" /\ UNCHANGED <<plan, job>> /\ job = 1
              /\ ~stale /\ summary \in {Absent, <<Stale>>}
            BY <1>3 DEF ClearSummary, File
        <2>2. CASE summary' = Absent /\ stale' = FALSE
            BY <2>1, <2>2 DEF File
        <2>3. CASE summary # Absent /\ summary' = summary /\ stale' = TRUE
            <3>1. Written(0)'
                <4>1. summary' = <<Stale>> \o SubSeq(plan, 1, 0)
                    BY <1>1, <2>1, <2>3, ConcatEmptySeq
                <4> QED
                    BY <2>1, <2>3, <4>1 DEF Written
            <3>2. job' - 1 = 0
                BY <2>1
            <3>3. Written(job - 1)'
                BY <3>1, <3>2 DEF Written
            <3> QED
                BY <2>1, <2>3, <3>3 DEF File
        <2> QED
            BY <1>3, <2>2, <2>3 DEF ClearSummary
    <1>4. CASE StartRun
        <2>1. phase = "open" /\ phase' = "begin" /\ UNCHANGED <<plan, job, stale>>
            BY <1>4 DEF StartRun
        <2>2. CASE summary = Absent
            <3>1. summary' = << >> /\ job = 1 /\ ~stale
                BY <1>4, <2>1, <2>2 DEF StartRun, File
            <3>2. summary' # Absent
                BY <3>1 DEF Absent
            <3>3. summary' = Before \o SubSeq(plan, 1, job - 1)
                BY <1>2, <3>1
            <3>4. Written(job - 1)'
                BY <2>1, <3>3 DEF Written
            <3> QED
                BY <2>1, <3>2, <3>4 DEF File
        <2>3. CASE summary # Absent
            <3>1. Written(job - 1) /\ summary' = summary
                BY <1>4, <2>1, <2>3 DEF StartRun, File
            <3> QED
                BY <2>1, <2>3, <3>1 DEF Written, File
        <2> QED
            BY <2>2, <2>3
    <1>5. CASE WriteRow
        <2>1. /\ phase = "write" /\ phase' = "validate" /\ UNCHANGED <<plan, job, stale>>
              /\ summary' = Append(summary, plan[job])
            BY <1>5 DEF WriteRow, scenario
        <2>2. summary # Absent /\ Written(job - 1)
            BY <2>1 DEF File
        <2>3. /\ SubSeq(plan, 1, job - 1) \in Seq(Scenario)
              /\ SubSeq(plan, 1, job) = Append(SubSeq(plan, 1, job - 1), plan[job])
            <3> DEFINE n == job - 1
            <3>1. n \in Nat /\ n + 1 = job /\ n < Len(plan) /\ plan[job] \in Scenario
                BY <1>0, ElementOfSeq
            <3> HIDE DEF n
            <3>2. /\ SubSeq(plan, 1, n) \in Seq(Scenario)
                  /\ SubSeq(plan, 1, n + 1) = Append(SubSeq(plan, 1, n), plan[n + 1])
                BY <1>0, <3>1
            <3> QED
                BY <3>1, <3>2 DEF n
        <2>4. summary' = Before \o SubSeq(plan, 1, job)
            <3> DEFINE a == Before  b == SubSeq(plan, 1, job - 1)  e == plan[job]
            <3>1. a \in Seq(Scenario \cup {Stale}) /\ b \in Seq(Scenario \cup {Stale})
                  /\ e \in Scenario \cup {Stale}
                BY <1>0, <1>2, <2>3, ElementOfSeq
            <3>2. summary = a \o b /\ SubSeq(plan, 1, job) = Append(b, e)
                BY <2>2, <2>3 DEF Written
            <3>3. summary' = Append(summary, e)
                BY <2>1
            <3> HIDE DEF a, b, e
            <3>4. a \o Append(b, e) = Append(a \o b, e)
                BY ONLY <3>1, AppendConcat
            <3> QED
                BY <3>2, <3>3, <3>4 DEF a
        <2>5. Written(job)'
            BY <2>1, <2>4 DEF Written
        <2>6. summary' # Absent
            <3>1. summary \in Seq(Scenario \cup {Stale}) /\ plan[job] \in Scenario
                BY <1>0, <2>2, ElementOfSeq DEF TypeOK
            <3>2. summary' \in Seq(Scenario \cup {Stale})
                BY <2>1, <3>1, AppendProperties
            <3> QED
                BY <3>2, AbsentIsNone
        <2> QED
            BY <2>1, <2>5, <2>6 DEF File
    <1>6. CASE Validate
        <2>1. /\ phase = "validate" /\ phase' \in {"exit", "pause"}
              /\ phase' = "pause" => job # Len(plan)
              /\ UNCHANGED <<plan, job, summary, stale>>
            BY <1>6 DEF Validate
        <2>2. summary # Absent /\ Written(job)
            BY <2>1 DEF File
        <2> QED
            BY <2>1, <2>2 DEF File, Written
    <1>7. CASE Pause
        <2>1. /\ phase = "pause" /\ phase' = "open" /\ job' = job + 1
              /\ UNCHANGED <<plan, summary, stale>>
            BY <1>7 DEF Pause
        <2>2. summary # Absent /\ Written(job)
            BY <2>1 DEF File
        <2>3. job' - 1 = job
            BY <1>0, <2>1
        <2>4. Written(job - 1)'
            BY <2>1, <2>2, <2>3 DEF Written
        <2> QED
            BY <2>1, <2>2, <2>4 DEF File
    <1>8. CASE IOError
        <2>1. /\ phase \in {"open", "write", "look"} /\ phase' = "exit"
              /\ UNCHANGED <<plan, job, summary, stale>>
            BY <1>8 DEF IOError
        <2> QED
            BY <2>1 DEF File, Written
    <1>9. CASE Begin \/ Tick \/ Receive \/ (\E took \in Took[scenario] : EndTick(took))
               \/ WarmupEnds \/ Mark \/ Recapture \/ Sample \/ GoOn \/ CaptureFinal
        <2>1. /\ UNCHANGED <<plan, job, summary, stale>>
              /\ phase \notin {"clear", "open", "validate", "pause", "exit"}
              /\ phase' \notin {"clear", "open", "validate", "pause", "exit"}
            BY <1>9
            DEF Begin, Tick, Receive, EndTick, WarmupEnds, Mark, Recapture, Sample, GoOn,
                CaptureFinal
        <2> QED
            BY <2>1 DEF File, Written
    <1> QED
        BY <1>3, <1>4, <1>5, <1>6, <1>7, <1>8, <1>9 DEF Main
-----------------------------------------------------------------------------
(* The invariant is kept: the counters, the samples, the results *)

\* What the type invariant says of the numbers.
Numbers ==
    /\ metrics.ticks \in Nat /\ metrics.drops \in Nat
    /\ truth.ticks \in Nat /\ truth.sent \in Nat /\ truth.taken \in Nat
    /\ truth.refused \in Nat
    /\ final.ticks \in Nat /\ final.drops \in Nat
    /\ row.frames \in Nat /\ row.loss \in Nat
    /\ rows.ticks \in Nat /\ rows.drops \in Nat
    /\ lastCounters.ticks \in Nat /\ lastCounters.drops \in Nat
    /\ offered \in Nat /\ framesSent \in Nat /\ framesAtWarmupEnd \in Nat
    /\ framesSent <= offered /\ framesAtWarmupEnd <= framesSent
    /\ SumFunction(metrics.hist) \in Nat /\ elapsed \in Nat

LEMMA NumbersNow == TypeOK => Numbers
    <1> SUFFICES ASSUME TypeOK PROVE Numbers
        OBVIOUS
    <1>1. metrics \in Metrics /\ final \in Metrics /\ rows \in Counters
          /\ lastCounters \in Counters
        BY DEF TypeOK
    <1>2. SumFunction(metrics.hist) \in Nat
        BY <1>1, TookTyped
    <1>3. offered \in Nat /\ framesSent \in 0 .. offered /\ framesAtWarmupEnd \in 0 .. framesSent
        BY HarnessAssumption DEF TypeOK
    <1> QED
        BY <1>1, <1>2, <1>3 DEF TypeOK, Numbers, Metrics, Counters

\* What a step of the job's camera does to the counters.
LEMMA CounterSteps ==
    ASSUME TypeOK, JobsCamera
    PROVE  /\ UNCHANGED <<plan, job, phase, elapsed, inWarmup, framesAtWarmupEnd,
                          lastCounters, final, row, rows, newest>>
           /\ metrics'.ticks = metrics.ticks /\ metrics'.hist = metrics.hist
           /\ truth'.ticks = truth.ticks /\ truth'.taken = truth.taken
           /\ metrics'.drops = metrics.drops + Bit(CountsRefused)
           /\ truth'.sent = truth.sent + Bit(Sends /\ ~inWarmup)
           /\ truth'.refused = truth.refused + Bit(Refused /\ InWindow)
           /\ Bit(camera[job] = "full")' + Bit(CountsRefused)
                 = Bit(camera[job] = "full") + Bit(Refused)
           /\ Bit(camera[job] = "sent")' + Bit(CountsSent)
                 = Bit(camera[job] = "sent") + Bit(Sends)
           /\ framesSent' = framesSent + Bit(CountsSent)
           /\ offered' = offered + Bit(Sends) + Bit(Refused)
    <1>1. UNCHANGED <<plan, job, phase, elapsed, inWarmup, framesAtWarmupEnd,
                      lastCounters, final, row, rows, newest>>
        BY DEF JobsCamera, main, window, results
    <1>2. metrics \in Metrics
          /\ truth \in [ticks : Nat, sent : Nat, taken : Nat, refused : Nat]
          /\ offered \in Nat /\ framesSent \in Nat
        BY HarnessAssumption DEF TypeOK
    <1>3. camera'[job] \in {"sent", "full", "gone", "ready"}
          /\ \A new \in {"sent", "full", "gone", "ready"} : CameraIs(new) => camera'[job] = new
        BY CameraNow DEF JobsCamera, Sends, Refused, Ends, CountsSent, CountsRefused
    <1>4. CASE Sends
        <2>1. camera[job] = "ready" /\ camera'[job] = "sent"
              /\ ~Refused /\ ~CountsSent /\ ~CountsRefused
            BY <1>3, <1>4 DEF Sends, Refused, CountsSent, CountsRefused
        <2> QED
            BY <1>1, <1>2, <1>4, <2>1 DEF Sends, Bit, Metrics
    <1>5. CASE Refused
        <2>1. camera[job] = "ready" /\ camera'[job] = "full"
              /\ ~Sends /\ ~CountsSent /\ ~CountsRefused
            BY <1>3, <1>5 DEF Sends, Refused, CountsSent, CountsRefused
        <2> QED
            BY <1>1, <1>2, <1>5, <2>1 DEF Refused, Bit, Metrics
    <1>6. CASE Ends
        <2>1. camera[job] = "ready" /\ camera'[job] = "gone"
              /\ ~Sends /\ ~Refused /\ ~CountsSent /\ ~CountsRefused
            BY <1>3, <1>6 DEF Ends, Sends, Refused, CountsSent, CountsRefused
        <2> QED
            BY <1>1, <1>2, <1>6, <2>1 DEF Ends, Bit, Metrics
    <1>7. CASE CountsSent
        <2>1. camera[job] = "sent" /\ camera'[job] = "ready"
              /\ ~Sends /\ ~Refused /\ ~CountsRefused
            BY <1>3, <1>7 DEF Sends, Refused, CountsSent, CountsRefused
        <2> QED
            BY <1>1, <1>2, <1>7, <2>1 DEF CountsSent, Bit, Metrics
    <1>8. CASE CountsRefused
        <2>1. camera[job] = "full" /\ camera'[job] = "ready"
              /\ ~Sends /\ ~Refused /\ ~CountsSent
            BY <1>3, <1>8 DEF Sends, Refused, CountsSent, CountsRefused
        <2> QED
            BY <1>1, <1>2, <1>8, <2>1 DEF CountsRefused, Bit, Metrics
    <1> QED
        BY <1>4, <1>5, <1>6, <1>7, <1>8 DEF JobsCamera

LEMMA CountersByCamera ==
    ASSUME TypeOK, Ticked, Dropped, Series, Final, JobsCamera
    PROVE  Ticked' /\ Dropped' /\ Series' /\ Final'
    <1>1. Numbers
        BY NumbersNow
    <1>2. Ticked'
        BY CounterSteps DEF Ticked
    <1>3. Dropped'
        <2> SUFFICES ASSUME ~inWarmup, phase \in InLoop \cup {"mark", "recapture"}
                     PROVE  (metrics.drops + Bit(camera[job] = "full") - truth.refused \in 0 .. 1)'
            BY CounterSteps DEF Dropped
        <2>1. InWindow
            BY DEF InWindow, InLoop
        <2>2. Bit(Refused /\ InWindow) = Bit(Refused)
            BY <2>1 DEF Bit
        <2>3. metrics.drops + Bit(camera[job] = "full") - truth.refused \in 0 .. 1
            BY DEF Dropped
        <2>4. /\ Bit(camera[job] = "full") \in Int /\ Bit(camera[job] = "full")' \in Int
              /\ Bit(Refused) \in Int /\ Bit(CountsRefused) \in Int
            BY DEF Bit
        <2> QED
            BY <1>1, <2>2, <2>3, <2>4, CounterSteps DEF Numbers
    <1>4. Series'
        BY <1>1, CounterSteps DEF Series, Numbers, Bit
    <1>5. Final'
        <2> SUFFICES ASSUME phase \in Reported
                     PROVE  (/\ final.ticks = truth.ticks
                             /\ SumFunction(final.hist) = final.ticks
                             /\ final.drops - truth.refused \in -1 .. 1)'
            BY CounterSteps DEF Final
        <2>1. ~InWindow
            BY DEF InWindow, Reported
        <2>2. Bit(Refused /\ InWindow) = 0
            BY <2>1 DEF Bit
        <2> QED
            BY <1>1, <2>2, CounterSteps DEF Final, Numbers
    <1> QED
        BY <1>2, <1>3, <1>4, <1>5

LEMMA TickedByMain ==
    ASSUME TypeOK, Ticked, Main
    PROVE  Ticked'
    <1> USE DEF main, thread, channel, window, results
    <1>0. Numbers /\ metrics \in Metrics
          /\ truth \in [ticks : Nat, sent : Nat, taken : Nat, refused : Nat]
        BY NumbersNow DEF TypeOK
    <1>1. CASE StartRun \/ WarmupEnds
        <2>1. metrics' = NoMetrics /\ truth' = NoTruth
            BY <1>1 DEF StartRun, WarmupEnds
        <2> QED
            BY <2>1, NothingTyped, NoneTook DEF Ticked, NoTruth
    <1>2. CASE Tick
        BY <1>2 DEF Tick, Ticked
    <1>3. ASSUME NEW took \in Took[scenario], EndTick(took) PROVE Ticked'
        <2>1. took \in Tooks
            BY PlanNow DEF TypeNow, Tooks
        <2>2. /\ metrics'.ticks = metrics.ticks + 1
              /\ SumFunction(metrics'.hist) = SumFunction(metrics.hist) + 1
            BY <1>0, <1>3, <2>1, OneTook DEF EndTick
        <2>3. truth'.ticks = truth.ticks + 1
            BY <1>0, <1>3 DEF EndTick
        <2> QED
            BY <1>0, <2>2, <2>3 DEF Ticked, Numbers
    <1>4. CASE ClearSummary \/ Begin \/ Receive \/ Mark \/ Recapture \/ Sample \/ GoOn
               \/ CaptureFinal \/ WriteRow \/ Validate \/ Pause \/ IOError
        <2>1. UNCHANGED <<metrics, truth>>
            BY <1>4
            DEF ClearSummary, Begin, Receive, Mark, Recapture, Sample, GoOn, CaptureFinal,
                WriteRow, Validate, Pause, IOError
        <2> QED
            BY <2>1 DEF Ticked
    <1> QED
        BY <1>1, <1>2, <1>3, <1>4 DEF Main

LEMMA DroppedByMain ==
    ASSUME TypeOK, Dropped, Series, Main
    PROVE  Dropped'
    <1> USE DEF main, thread, channel, window, results
    <1>0. metrics \in Metrics /\ Numbers
          /\ truth \in [ticks : Nat, sent : Nat, taken : Nat, refused : Nat]
        BY NumbersNow DEF TypeOK
    <1>1. CASE StartRun \/ ClearSummary \/ Pause \/ CaptureFinal \/ WriteRow \/ Validate
               \/ IOError
        <2>1. phase' \notin InLoop \cup {"mark", "recapture"}
            BY <1>1 DEF StartRun, ClearSummary, Pause, CaptureFinal, WriteRow, Validate,
                        IOError, InLoop
        <2> QED
            BY <2>1 DEF Dropped
    <1>2. CASE Begin
        <2>1. inWarmup'
            BY <1>2 DEF Begin, Series
        <2> QED
            BY <2>1 DEF Dropped
    <1>3. CASE WarmupEnds
        <2>1. metrics'.drops = 0 /\ truth'.refused = 0
            BY <1>3, NothingTyped DEF WarmupEnds, NoTruth
        <2> QED
            BY <2>1 DEF Dropped, Bit
    <1>4. CASE Tick \/ (\E took \in Took[scenario] : EndTick(took)) \/ Receive \/ Mark
               \/ Recapture \/ Sample \/ GoOn
        <2>1. /\ UNCHANGED <<inWarmup, camera, job>>
              /\ metrics'.drops = metrics.drops /\ truth'.refused = truth.refused
            <3>1. ASSUME NEW took \in Took[scenario], EndTick(took)
                  PROVE  metrics'.drops = metrics.drops /\ truth'.refused = truth.refused
                <4>1. took \in Tooks
                    BY PlanNow DEF TypeNow, Tooks
                <4> QED
                    BY <1>0, <3>1, <4>1, OneTook DEF EndTick
            <3>2. CASE Tick
                BY <1>0, <3>2 DEF Tick, Metrics
            <3>3. UNCHANGED <<inWarmup, camera, job>>
                BY <1>4 DEF Tick, EndTick, Receive, Mark, Recapture, Sample, GoOn
            <3>4. CASE Receive \/ Mark \/ Recapture \/ Sample \/ GoOn
                BY <3>4 DEF Receive, Mark, Recapture, Sample, GoOn
            <3> QED
                BY <1>4, <3>1, <3>2, <3>3, <3>4
        <2>2. phase \in InLoop \cup {"mark", "recapture"}
            BY <1>4 DEF Tick, EndTick, Receive, Mark, Recapture, Sample, GoOn, InLoop
        <2> QED
            BY <2>1, <2>2 DEF Dropped
    <1> QED
        BY <1>1, <1>2, <1>3, <1>4 DEF Main

LEMMA SeriesByMain ==
    ASSUME TypeOK, Series, Main
    PROVE  Series'
    <1> USE DEF main, thread, channel, window, results
    <1>0. metrics \in Metrics /\ rows \in Counters /\ lastCounters \in Counters /\ Numbers
          /\ Warmup \in Nat /\ Duration \in Nat /\ inWarmup \in BOOLEAN
        BY NumbersNow, HarnessAssumption DEF TypeOK
    <1>1. CASE StartRun
        BY <1>1 DEF StartRun, Series, InLoop, Reported
    <1>2. CASE ClearSummary \/ Pause \/ IOError
        <2>1. phase' \in {"open", "exit"} /\ UNCHANGED <<inWarmup, rows>>
            BY <1>2 DEF ClearSummary, Pause, IOError
        <2> QED
            BY <2>1 DEF Series, InLoop, Reported
    <1>3. CASE Begin
        BY <1>3 DEF Begin, Series, InLoop, Reported
    <1>4. CASE Tick
        BY <1>4 DEF Tick, Series, InLoop, Reported
    <1>5. ASSUME NEW took \in Took[scenario], EndTick(took) PROVE Series'
        <2>1. took \in Tooks
            BY PlanNow DEF TypeNow, Tooks
        <2>2. metrics'.ticks = metrics.ticks + 1 /\ metrics'.drops = metrics.drops
            BY <1>0, <1>5, <2>1, OneTook DEF EndTick
        <2> QED
            BY <1>0, <1>5, <2>2 DEF EndTick, Series, InLoop, Reported, Numbers
    <1>6. CASE WarmupEnds
        BY <1>6, NothingTyped DEF WarmupEnds, Series, InLoop, Reported
    <1>7. CASE Mark
        BY <1>7 DEF Mark, Series, InLoop, Reported
    <1>8. CASE Recapture
        <2>1. lastCounters'.ticks = metrics.ticks /\ lastCounters'.drops = metrics.drops
            BY <1>0, <1>8, SnapshotTyped DEF Recapture
        <2>2. rows.ticks = 0 /\ rows.drops = 0 /\ metrics.ticks = 0
            BY <1>8, NothingTyped DEF Recapture, Series
        <2> QED
            BY <1>0, <1>8, <2>1, <2>2 DEF Recapture, Series, InLoop, Reported, Numbers
    <1>9. CASE Sample
        <2>1. lastCounters'.ticks = metrics.ticks /\ lastCounters'.drops = metrics.drops
            BY <1>0, <1>9, SnapshotTyped DEF Sample
        <2>2. ~inWarmup /\ phase = "look" /\ phase' = "tick" /\ UNCHANGED <<inWarmup, metrics>>
            BY <1>9 DEF Sample, SampleDue
        <2>3. /\ rows.ticks = lastCounters.ticks /\ rows.drops <= lastCounters.drops
              /\ lastCounters.ticks <= metrics.ticks /\ lastCounters.drops <= metrics.drops
            BY <2>2 DEF Series, InLoop
        <2> DEFINE s == Snapshot(metrics)
        <2>4. s \in Counters /\ s.ticks = metrics.ticks /\ s.drops = metrics.drops
            BY <1>0, SnapshotTyped
        <2>5. rows' = RowAfter(rows, s, lastCounters)
            BY <1>9 DEF Sample, RowAfter
        <2> HIDE DEF s
        <2>6. /\ rows'.ticks = rows.ticks + (IF s.ticks >= lastCounters.ticks
                                             THEN s.ticks - lastCounters.ticks ELSE 0)
              /\ rows'.drops = rows.drops + (IF s.drops >= lastCounters.drops
                                             THEN s.drops - lastCounters.drops ELSE 0)
            BY <1>0, <2>4, <2>5, SampledRows
        <2>7. rows'.ticks = lastCounters'.ticks /\ rows'.drops <= lastCounters'.drops
            BY <1>0, <2>1, <2>3, <2>4, <2>6 DEF Numbers
        <2> QED
            BY <1>0, <2>1, <2>2, <2>7 DEF Series, InLoop, Reported, Numbers
    <1>10. CASE GoOn
        BY <1>10 DEF GoOn, Series, InLoop, Reported
    <1>11. CASE CaptureFinal
        <2>1. ~inWarmup
            BY <1>0, <1>11 DEF CaptureFinal, AtEnd, AtWarmupEnd, Numbers
        <2> QED
            BY <1>11, <2>1 DEF CaptureFinal, Series, InLoop, Reported
    <1>12. CASE WriteRow \/ Validate
        BY <1>12 DEF WriteRow, Validate, Series, InLoop, Reported
    <1>13. CASE Receive
        BY <1>13 DEF Receive, Series, InLoop, Reported
    <1> QED
        BY <1>1, <1>2, <1>3, <1>4, <1>5, <1>6, <1>7, <1>8, <1>9, <1>10, <1>11, <1>12,
           <1>13 DEF Main

LEMMA FinalByMain ==
    ASSUME TypeOK, Ticked, Dropped, Final, Main
    PROVE  Final'
    <1> USE DEF main, thread, channel, window, results
    <1>0. Numbers /\ Warmup \in Nat /\ Duration \in Nat
        BY NumbersNow, HarnessAssumption
    <1>1. CASE CaptureFinal
        <2>1. /\ phase = "look" /\ final' = metrics /\ ~inWarmup
              /\ UNCHANGED truth
            BY <1>0, <1>1 DEF CaptureFinal, AtEnd, AtWarmupEnd, Numbers
        <2>2. metrics.drops + Bit(camera[job] = "full") - truth.refused \in 0 .. 1
            BY <2>1 DEF Dropped, InLoop
        <2>3. Bit(camera[job] = "full") \in 0 .. 1
            BY DEF Bit
        <2>4. metrics.ticks = truth.ticks /\ SumFunction(metrics.hist) = metrics.ticks
            BY DEF Ticked
        <2>5. metrics.drops - truth.refused \in -1 .. 1
            BY <1>0, <2>2, <2>3 DEF Numbers
        <2> QED
            BY <2>1, <2>4, <2>5 DEF Final
    <1>2. CASE WriteRow \/ Validate
        <2>1. phase \in Reported /\ UNCHANGED <<final, truth>>
            BY <1>2 DEF WriteRow, Validate, Reported
        <2> QED
            BY <2>1 DEF Final
    <1>3. CASE ClearSummary \/ StartRun \/ Begin \/ Tick \/ Receive
               \/ (\E took \in Took[scenario] : EndTick(took)) \/ WarmupEnds \/ Mark
               \/ Recapture \/ Sample \/ GoOn \/ Pause \/ IOError
        <2>1. phase' \notin Reported
            BY <1>3
            DEF ClearSummary, StartRun, Begin, Tick, Receive, EndTick, WarmupEnds, Mark,
                Recapture, Sample, GoOn, Pause, IOError, Reported
        <2> QED
            BY <2>1 DEF Final
    <1> QED
        BY <1>1, <1>2, <1>3 DEF Main
-----------------------------------------------------------------------------
(* The invariant is kept: the frames, the row *)

LEMMA WindowedNat ==
    ASSUME TypeOK
    PROVE  Windowed \in Nat
    <1>1. queue \in Seq({"warm-up", "window"})
        BY DEF TypeOK
    <1> QED
        BY <1>1, SelectType, LenProperties DEF Windowed

\* A frame sent in the window is one more of the window in the channel.
LEMMA WindowedByCamera ==
    ASSUME TypeOK, JobsCamera
    PROVE  Windowed' = Windowed + Bit(Sends /\ ~inWarmup)
    <1>1. queue \in Seq({"warm-up", "window"})
        BY DEF TypeOK
    <1>2. CASE Sends
        <2> DEFINE e == IF inWarmup THEN "warm-up" ELSE "window"
                   T == {"window"}  q == queue
        <2>1. /\ e \in {"warm-up", "window"} /\ (e \in T <=> ~inWarmup)
              /\ queue' = Append(q, e)
            BY <1>2 DEF Sends
        <2>2. q \in Seq({"warm-up", "window"})
            BY <1>1
        <2> HIDE DEF e, T, q
        <2>3. Select(Append(q, e), T) = IF e \in T THEN Append(Select(q, T), e) ELSE Select(q, T)
            BY <2>1, <2>2, SelectAppend
        <2>4. Select(q, T) \in Seq({"warm-up", "window"} \cap T)
            BY <2>2, SelectType
        <2> DEFINE u == Select(q, T)
        <2> HIDE DEF u
        <2>5. Len(u) \in Nat /\ (e \in T => Len(Append(u, e)) = Len(u) + 1)
            <3>1. u \in Seq({"warm-up", "window"} \cap T)
                BY <2>4 DEF u
            <3>2. Len(u) \in Nat
                BY <3>1, LenProperties
            <3>3. e \in T => e \in {"warm-up", "window"} \cap T
                BY <2>1
            <3> QED
                BY <3>1, <3>2, <3>3, AppendProperties
        <2>6. Len(Select(Append(q, e), T)) = Len(u) + Bit(~inWarmup)
            BY <2>1, <2>3, <2>5 DEF u, Bit
        <2>7. Windowed = Len(u) /\ Windowed' = Len(Select(Append(q, e), T))
            BY <2>1 DEF Windowed, u, q, T
        <2> QED
            BY <1>2, <2>6, <2>7 DEF Bit
    <1>3. CASE ~Sends
        <2>1. UNCHANGED queue
            BY <1>3 DEF JobsCamera, Refused, Ends, CountsSent, CountsRefused
        <2> QED
            BY <1>3, <2>1, WindowedNat DEF Windowed, Bit
    <1> QED
        BY <1>2, <1>3

LEMMA FramesByCamera ==
    ASSUME TypeOK, Series, Frames, JobsCamera
    PROVE  Frames'
    <1>1. Numbers /\ Windowed \in Nat
        BY NumbersNow, WindowedNat
    <1> DEFINE sent == Bit(Sends)  counted == Bit(CountsSent)
               windowed == Bit(Sends /\ ~inWarmup)  refused == Bit(Refused)
               flag == Bit(camera[job] = "sent")  flagged == Bit(camera[job] = "sent")'
    <1>2. /\ sent \in 0 .. 1 /\ counted \in 0 .. 1 /\ windowed \in 0 .. 1 /\ refused \in 0 .. 1
          /\ flag \in 0 .. 1 /\ flagged \in 0 .. 1
          /\ (inWarmup => windowed = 0) /\ (~inWarmup => windowed = sent)
        BY DEF Bit
    <1>3. /\ UNCHANGED <<plan, job, phase, inWarmup, framesAtWarmupEnd, newest>>
          /\ truth'.ticks = truth.ticks /\ truth'.taken = truth.taken
          /\ truth'.sent = truth.sent + windowed
          /\ flagged + counted = flag + sent
          /\ framesSent' = framesSent + counted
          /\ offered' = offered + sent + refused
        BY CounterSteps
    <1>4. Windowed' = Windowed + windowed
        BY WindowedByCamera
    <1> HIDE DEF sent, counted, windowed, refused
    <1>5. (inWarmup => truth.sent = 0)'
        BY <1>2, <1>3 DEF Frames
    <1>6. framesSent' + flagged <= offered'
        <2>1. framesSent + flag <= offered
            BY DEF Frames
        <2> HIDE DEF flag, flagged
        <2> QED
            BY <1>1, <1>2, <1>3, <2>1 DEF Numbers
    <1>7. ~inWarmup /\ phase \in InLoop \cup Reported \cup {"recapture"} =>
             framesSent' + flagged <= framesAtWarmupEnd + truth'.sent + 1
        <2>1. ~inWarmup /\ phase \in InLoop \cup Reported \cup {"recapture"} =>
                 framesSent + flag <= framesAtWarmupEnd + truth.sent + 1
            BY DEF Frames
        <2> HIDE DEF flag, flagged
        <2> QED
            BY <1>1, <1>2, <1>3, <2>1 DEF Numbers
    <1>8. (truth.taken <= truth.ticks)'
        BY <1>3 DEF Frames
    <1>9. (truth.taken + Bit(phase = "drain" /\ newest = "window") + Windowed <= truth.sent)'
        <2> DEFINE b == Bit(phase = "drain" /\ newest = "window")
                   bb == Bit(phase = "drain" /\ newest = "window")'
        <2>1. b = bb /\ b \in 0 .. 1
            BY <1>3 DEF Bit
        <2>2. truth.taken + b + Windowed <= truth.sent
            BY DEF Frames
        <2> HIDE DEF b, bb
        <2>3. truth'.taken + bb + Windowed' <= truth'.sent
            BY <1>1, <1>2, <1>3, <1>4, <2>1, <2>2 DEF Numbers
        <2> QED
            BY <2>3 DEF bb
    <1> QED
        BY <1>3, <1>5, <1>6, <1>7, <1>8, <1>9 DEF Frames

LEMMA JudgedByCamera ==
    ASSUME TypeOK, Judged, JobsCamera
    PROVE  Judged'
    <1>1. Numbers
        BY NumbersNow
    <1>2. Bit(Sends /\ ~inWarmup) \in 0 .. 1
        BY DEF Bit
    <1>3. /\ UNCHANGED <<plan, job, phase, row, final>>
          /\ truth'.sent = truth.sent + Bit(Sends /\ ~inWarmup)
          /\ truth'.taken = truth.taken
        BY CounterSteps
    <1>4. (phase \in {"validate", "pause"} => row.loss <= truth.sent - truth.taken + 1)'
        <2>1. phase \in {"validate", "pause"} => row.loss <= truth.sent - truth.taken + 1
            BY DEF Judged, LossIsReal
        <2> QED
            BY <1>1, <1>2, <1>3, <2>1 DEF Numbers
    <1>5. /\ (row.verdict = "OK" /\ scenario = "fps_1000" => row.loss = 0)'
          /\ (row.verdict = "OK" /\ scenario \in {"fps_2000", "fps_5000"} => row.loss > 0)'
        BY <1>3 DEF Judged, LossIsReal, scenario
    <1> QED
        BY <1>3, <1>4, <1>5 DEF Judged, LossIsReal, scenario

LEMMA FramesByMain ==
    ASSUME TypeOK, Cameras, File, Series, Frames, Main
    PROVE  Frames'
    <1> USE DEF main, thread, channel, window, results
    <1>0. Numbers /\ Windowed \in Nat
          /\ truth \in [ticks : Nat, sent : Nat, taken : Nat, refused : Nat]
          /\ Bit(camera[job] = "sent") \in 0 .. 1
        BY NumbersNow, WindowedNat DEF TypeOK, Bit
    <1>1. CASE StartRun
        <2>1. job \in DOMAIN plan /\ camera \in [DOMAIN plan ->
                 {"none", "ready", "sent", "full", "gone"}]
            BY DEF TypeOK
        <2>2. Bit(camera[job] = "sent")' = 0
            BY <1>1, <2>1 DEF StartRun, Bit
        <2>3. Windowed' = 0
            <3>1. Select(<< >>, {"window"}) = << >>
                BY SelectEmpty
            <3> QED
                BY <1>1, <3>1 DEF StartRun, Windowed
        <2>4. inWarmup' /\ phase' = "begin" /\ framesSent' = 0 /\ offered' = 0
              /\ truth'.sent = 0 /\ truth'.taken = 0 /\ truth'.ticks = 0
            BY <1>1 DEF StartRun, NoTruth
        <2> QED
            BY <2>2, <2>3, <2>4 DEF Frames, Bit
    <1>2. CASE Tick
        <2>1. /\ phase = "tick" /\ phase' = "drain" /\ newest' # "window"
              /\ truth' = truth
              /\ UNCHANGED <<offered, camera, job, framesSent, framesAtWarmupEnd,
                             inWarmup, queue>>
            BY <1>0, <1>2 DEF Tick, Nothing
        <2> QED
            BY <1>0, <2>1 DEF Frames, Numbers, Windowed, Bit, InLoop, Reported
    <1>3. CASE Receive
        <2>1. /\ phase = "drain" /\ queue # << >> /\ newest' = Head(queue)
              /\ queue' = Tail(queue)
              /\ UNCHANGED <<phase, offered, camera, job, framesSent, framesAtWarmupEnd,
                             inWarmup, truth>>
            BY <1>3 DEF Receive
        <2>2. queue \in Seq({"warm-up", "window"})
            BY DEF TypeOK
        <2>3. Windowed = Bit(Head(queue) \in {"window"}) + Windowed'
            BY <2>1, <2>2, SelectHeadTail DEF Windowed
        <2>4. Bit(Head(queue) \in {"window"}) = Bit(phase' = "drain" /\ newest' = "window")
            BY <2>1 DEF Bit
        <2>5. Bit(phase' = "drain" /\ newest' = "window") \in 0 .. 1
              /\ Bit(phase = "drain" /\ newest = "window") \in 0 .. 1
            BY DEF Bit
        <2>6. Windowed' \in Nat
            <3>1. Tail(queue) \in Seq({"warm-up", "window"})
                BY <2>1, <2>2, HeadTailProperties
            <3>2. Select(Tail(queue), {"window"}) \in Seq({"warm-up", "window"} \cap {"window"})
                BY <3>1, SelectType
            <3>3. Len(Select(Tail(queue), {"window"})) \in Nat
                BY <3>2, LenProperties
            <3> QED
                BY <2>1, <3>3 DEF Windowed
        <2>7. (truth.taken + Bit(phase = "drain" /\ newest = "window") + Windowed
                  <= truth.sent)'
            <3>1. truth.taken + Bit(phase = "drain" /\ newest = "window") + Windowed
                     <= truth.sent
                BY DEF Frames
            <3>2. truth.taken + Bit(phase' = "drain" /\ newest' = "window") + Windowed'
                     <= truth.sent
                BY <1>0, <2>3, <2>4, <2>5, <2>6, <3>1 DEF Numbers
            <3> QED
                BY <2>1, <3>2
        <2> QED
            BY <2>1, <2>7 DEF Frames, Bit
    <1>4. ASSUME NEW took \in Took[scenario], EndTick(took) PROVE Frames'
        <2>1. /\ phase = "drain" /\ phase' = "look"
              /\ truth'.taken = truth.taken + Bit(newest = "window")
              /\ truth'.ticks = truth.ticks + 1 /\ truth'.sent = truth.sent
              /\ UNCHANGED <<offered, camera, job, framesSent, framesAtWarmupEnd,
                             inWarmup, queue>>
            BY <1>0, <1>4 DEF EndTick, Bit
        <2>2. Windowed' = Windowed /\ Bit(camera[job] = "sent")' = Bit(camera[job] = "sent")
            BY <2>1 DEF Windowed, Bit
        <2>3. Bit(phase = "drain" /\ newest = "window") = Bit(newest = "window")
              /\ Bit(phase = "drain" /\ newest = "window")' = 0
              /\ Bit(newest = "window") \in 0 .. 1
            BY <2>1 DEF Bit
        <2>4. /\ (truth.taken <= truth.ticks)'
              /\ (truth.taken + Bit(phase = "drain" /\ newest = "window") + Windowed
                    <= truth.sent)'
            BY <1>0, <2>1, <2>2, <2>3 DEF Frames, Numbers
        <2> QED
            BY <2>1, <2>2, <2>4 DEF Frames, InLoop, Reported
    <1>5. CASE WarmupEnds
        <2>1. /\ phase = "look" /\ phase' = "mark" /\ inWarmup /\ ~inWarmup'
              /\ truth'.ticks = 0 /\ truth'.sent = 0 /\ truth'.taken = 0
              /\ UNCHANGED <<offered, camera, job, framesSent, framesAtWarmupEnd, queue>>
            BY <1>5 DEF WarmupEnds, NoTruth
        <2>2. Windowed = 0
            BY <1>0, <2>1 DEF Frames, Numbers, Bit
        <2> QED
            BY <1>0, <2>1, <2>2 DEF Frames, Windowed, Bit, InLoop, Reported
    <1>6. CASE Mark
        <2>1. /\ phase = "mark" /\ phase' = "recapture" /\ framesAtWarmupEnd' = framesSent
              /\ UNCHANGED <<offered, camera, job, framesSent, inWarmup, queue, truth>>
            BY <1>6 DEF Mark
        <2> QED
            BY <1>0, <2>1 DEF Frames, Numbers, Windowed, Bit, InLoop, Reported
    <1>7. CASE Pause
        <2>1. /\ phase = "pause" /\ phase' = "open" /\ job' = job + 1
              /\ UNCHANGED <<plan, offered, camera, framesSent, inWarmup, queue, truth>>
            BY <1>7 DEF Pause
        <2>2. camera[job + 1] = "none"
            <3>1. job + 1 \in DOMAIN plan /\ job + 1 > job
                BY <2>1, PlanNow DEF TypeNow, File
            <3> QED
                BY <3>1 DEF Cameras
        <2> QED
            BY <1>0, <2>1, <2>2 DEF Frames, Numbers, Windowed, Bit, InLoop, Reported
    <1>8. CASE ClearSummary \/ Begin \/ Recapture \/ Sample \/ GoOn \/ CaptureFinal
               \/ WriteRow \/ Validate \/ IOError
        <2>1. /\ UNCHANGED <<job, camera, offered, framesSent, framesAtWarmupEnd, inWarmup,
                             queue, truth>>
              /\ phase # "drain" /\ phase' # "drain"
            BY <1>8 DEF ClearSummary, Begin, Recapture, Sample, GoOn, CaptureFinal, WriteRow,
                        Validate, IOError
        <2>2. \/ phase' \notin InLoop \cup Reported \cup {"recapture"}
              \/ phase \in InLoop \cup Reported \cup {"recapture"}
              \/ inWarmup
            <3>1. CASE Begin
                BY <3>1 DEF Begin, Series
            <3>2. CASE ~Begin
                BY <1>8, <3>2 DEF ClearSummary, Recapture, Sample, GoOn, CaptureFinal, WriteRow,
                        Validate, IOError, InLoop, Reported
            <3> QED
                BY <3>1, <3>2
        <2> QED
            BY <1>0, <2>1, <2>2 DEF Frames, Numbers, Windowed, Bit
    <1> QED
        BY <1>1, <1>2, <1>3, <1>4, <1>5, <1>6, <1>7, <1>8 DEF Main

LEMMA JudgedByMain ==
    ASSUME TypeOK, Series, Final, Frames, Judged, Main
    PROVE  Judged'
    <1> USE DEF main, thread, channel, window, results
    <1>0. Numbers /\ Windowed \in Nat
          /\ row \in [frames : Nat, loss : Nat,
                      verdict : {"NONE", "OK", "WARN", "NOTE", "FAIL"}]
        BY NumbersNow, WindowedNat DEF TypeOK
    <1>1. CASE WriteRow
        <2>1. /\ phase = "write" /\ phase' = "validate" /\ UNCHANGED <<truth, final>>
              /\ row'.frames = framesSent - framesAtWarmupEnd
              /\ row'.loss = Max({FramesInWindow - final.ticks, 0})
              /\ row'.verdict = row.verdict
              /\ FramesInWindow = framesSent - framesAtWarmupEnd
            BY <1>0, <1>1, Loss DEF WriteRow
        <2>2. /\ row.verdict = "NONE"
              /\ ~inWarmup
            BY <2>1 DEF Judged, Series, Reported
        <2>3. row'.loss <= truth.sent - truth.taken + 1
            <3>1. /\ framesSent + Bit(camera[job] = "sent")
                        <= framesAtWarmupEnd + truth.sent + 1
                  /\ truth.taken <= truth.ticks
                  /\ truth.taken <= truth.sent
                BY <1>0, <2>1, <2>2 DEF Frames, Bit, Reported, InLoop, Numbers
            <3>2. Bit(camera[job] = "sent") \in 0 .. 1 /\ final.ticks = truth.ticks
                BY <2>1 DEF Bit, Final, Reported
            <3>3. row'.loss = IF FramesInWindow >= final.ticks
                              THEN FramesInWindow - final.ticks ELSE 0
                BY <2>1, Loss
            <3> QED
                BY <1>0, <2>1, <3>1, <3>2, <3>3 DEF Numbers
        <2>4. row'.loss = Max({row'.frames - final'.ticks, 0})
            BY <2>1
        <2> QED
            BY <2>1, <2>2, <2>3, <2>4 DEF Judged, LossIsReal
    <1>2. CASE Validate
        <2>1. /\ phase = "validate" /\ phase' \in {"exit", "pause"}
              /\ UNCHANGED <<plan, job, truth, final>>
              /\ row'.frames = row.frames /\ row'.loss = row.loss /\ row'.verdict = Verdict
            BY <1>0, <1>2 DEF Validate
        <2>2. row.loss = IF row.frames >= final.ticks THEN row.frames - final.ticks ELSE 0
            <3>1. row.loss = Max({row.frames - final.ticks, 0})
                BY <2>1 DEF Judged
            <3>2. row.frames - final.ticks \in Int /\ 0 \in Int
                BY <1>0 DEF Numbers
            <3>3. Max({row.frames - final.ticks, 0})
                     = IF row.frames - final.ticks >= 0 THEN row.frames - final.ticks ELSE 0
                BY ONLY <3>2, MaxOf
            <3> QED
                BY <1>0, <3>1, <3>3 DEF Numbers
        <2>3. scenario \in {"fps_1000", "fps_2000", "fps_5000"} => Verdict = VerdictOfFps
            <3>1. scenario = "fps_1000" => Verdict = VerdictOfFps
                BY DEF Verdict, Unknown
            <3>2. scenario = "fps_2000" => Verdict = VerdictOfFps
                BY DEF Verdict, Unknown
            <3>3. scenario = "fps_5000" => Verdict = VerdictOfFps
                BY DEF Verdict, Unknown
            <3> QED
                BY <3>1, <3>2, <3>3
        <2>4. Verdict = "OK" /\ scenario = "fps_1000" => row.loss = 0
            BY <1>0, <2>2, <2>3 DEF VerdictOfFps, Numbers
        <2>5. Verdict = "OK" /\ scenario \in {"fps_2000", "fps_5000"} => row.loss > 0
            BY <1>0, <2>2, <2>3 DEF VerdictOfFps, Numbers
        <2>6. scenario' = scenario
            BY <2>1 DEF scenario
        <2> QED
            BY <2>1, <2>4, <2>5, <2>6 DEF Judged, LossIsReal
    <1>3. CASE Pause
        <2>1. phase' = "open" /\ row'.verdict = "NONE"
            BY <1>3 DEF Pause, NoRow
        <2> QED
            BY <2>1 DEF Judged, LossIsReal
    <1>4. CASE ClearSummary \/ StartRun \/ Begin \/ Tick \/ Receive
               \/ (\E took \in Took[scenario] : EndTick(took)) \/ WarmupEnds \/ Mark
               \/ Recapture \/ Sample \/ GoOn \/ CaptureFinal \/ IOError
        <2>1. /\ UNCHANGED <<plan, job, row>>
              /\ phase' \notin {"validate", "pause"}
              /\ phase \notin {"pause", "exit"}
            BY <1>4
            DEF ClearSummary, StartRun, Begin, Tick, Receive, EndTick, WarmupEnds, Mark,
                Recapture, Sample, GoOn, CaptureFinal, IOError
        <2> QED
            BY <2>1 DEF Judged, LossIsReal, scenario
    <1> QED
        BY <1>1, <1>2, <1>3, <1>4 DEF Main
-----------------------------------------------------------------------------
(* The theorems *)

LEMMA InvInit ==
    ASSUME Init
    PROVE  IInv
    <1>1. TypeOK
        BY TypeInit
    <1>2. Cameras
        <2>1. job \in DOMAIN plan /\ job = 1 /\ phase = "clear" /\ ~woke
              /\ camera = [j \in DOMAIN plan |-> "none"]
            BY <1>1 DEF Init, TypeOK
        <2>2. DOMAIN plan = 1 .. Len(plan) /\ Len(plan) \in Nat
            BY <1>1, PlanNow DEF TypeNow
        <2> QED
            BY <2>1, <2>2 DEF Cameras
    <1>3. File
        <2>1. job = 1 /\ phase = "clear" /\ ~stale /\ summary \in {Absent, <<Stale>>}
            BY DEF Init
        <2> QED
            BY <2>1 DEF File
    <1>4. Ticked
        BY NothingTyped, NoneTook DEF Init, Ticked, NoTruth
    <1>5. Dropped /\ Series /\ Final
        BY DEF Init, Dropped, Series, Final, InLoop, Reported
    <1>6. Frames
        <2>1. camera[job] = "none"
            BY <1>1 DEF Init, TypeOK
        <2>2. Windowed = 0
            <3>1. Select(<< >>, {"window"}) = << >>
                BY SelectEmpty
            <3> QED
                BY <3>1 DEF Init, Windowed
        <2>3. truth.sent = 0 /\ truth.taken = 0 /\ truth.ticks = 0
            BY DEF Init, NoTruth
        <2> QED
            BY <2>1, <2>2, <2>3 DEF Init, Frames, Bit
    <1>7. Judged
        BY DEF Init, Judged, LossIsReal, NoRow
    <1> QED
        BY <1>1, <1>2, <1>3, <1>4, <1>5, <1>6, <1>7 DEF IInv

LEMMA InvNext ==
    ASSUME IInv, [Next]_vars
    PROVE  IInv'
    <1> USE DEF IInv
    <1>1. CASE Main
        BY <1>1, TypeMain, CamerasByMain, FileByMain, TickedByMain, DroppedByMain,
           SeriesByMain, FinalByMain, FramesByMain, JudgedByMain
    <1>2. ASSUME NEW c \in DOMAIN plan, Camera(c) PROVE IInv'
        <2>1. JobsCamera
            BY <1>2, CameraSteps
        <2> QED
            BY <2>1, TypeCamera, CamerasByCamera, FileByCamera, CountersByCamera,
               FramesByCamera, JudgedByCamera
    <1>3. CASE UNCHANGED vars
        <2> USE <1>3 DEF vars, main, thread, channel, window, results
        <2>1. TypeOK'
            BY DEF TypeOK
        <2>2. Cameras' /\ File'
            BY DEF Cameras, File, Written
        <2>3. Ticked' /\ Dropped' /\ Series' /\ Final'
            BY DEF Ticked, Dropped, Series, Final, Bit
        <2>4. Frames'
            BY DEF Frames, Windowed, Bit
        <2>5. Judged'
            BY DEF Judged, LossIsReal, scenario
        <2> QED
            BY <2>1, <2>2, <2>3, <2>4, <2>5
    <1> QED
        BY <1>1, <1>2, <1>3 DEF Next

LEMMA InvAlways == Spec => []IInv
    <1>1. Init => IInv
        BY InvInit
    <1>2. IInv /\ [Next]_vars => IInv'
        BY InvNext
    <1> QED
        BY <1>1, <1>2, PTL DEF Spec

\* What the files hold is what was run.
LEMMA IsolatedNow ==
    ASSUME IInv
    PROVE  Isolated
    <1> USE DEF IInv
    <1>1. ASSUME phase \in {"write", "validate", "pause"}
          PROVE  /\ final.ticks = truth.ticks
                 /\ final.ticks = SumFunction(final.hist)
                 /\ final.drops - truth.refused \in -1 .. 1
                 /\ Sampled("ticks") = final.ticks
                 /\ Sampled("drops") <= final.drops
        <2>1. Numbers /\ phase \in Reported
            BY <1>1, NumbersNow DEF Reported
        <2>2. rows.ticks = lastCounters.ticks /\ rows.drops <= lastCounters.drops
            BY <2>1 DEF Series
        <2>3. /\ Sampled("ticks") = rows.ticks + final.ticks - lastCounters.ticks
              /\ Sampled("drops") = rows.drops + final.drops - lastCounters.drops
            BY DEF Sampled
        <2> QED
            BY <2>1, <2>2, <2>3 DEF Final, Numbers
    <1>2. ASSUME phase # "clear", summary # Absent
          PROVE  \E n \in {job - 1, job} : Written(n)
        <2>1. CASE phase \in {"validate", "pause"}
            BY <1>2, <2>1 DEF File
        <2>2. CASE phase = "exit"
            BY <1>2, <2>2 DEF File
        <2>3. CASE phase \notin {"validate", "pause", "exit"}
            BY <1>2, <2>3 DEF File
        <2> QED
            BY <2>1, <2>2, <2>3
    <1> QED
        BY <1>1, <1>2 DEF Isolated, Written

\* The counters are naturals, the channel is bounded, the marks of the window
\* are ordered and every scenario of the plan is one the harness knows, under
\* every interleaving of the camera threads with the loop.
THEOREM TypeCorrect == Spec => []TypeOK
    <1>1. IInv => TypeOK
        BY DEF IInv
    <1> QED
        BY <1>1, InvAlways, PTL

\* Every scenario is measured on its own: no tick, sample or drop of an
\* earlier scenario or of the warm-up is in its results but the one drop the
\* camera is counting at either end of the window, the time series adds up to
\* them, and summary.csv has one row for each scenario that was run.
THEOREM IsolatedHolds == Spec => []Isolated
    <1>1. IInv => Isolated
        BY IsolatedNow
    <1> QED
        BY <1>1, InvAlways, PTL

\* The loss in the summary is at most the frames of the window no tick took,
\* but for the one counted late, and the verdict on a fps_ scenario is about
\* that loss.
THEOREM LossIsRealHolds == Spec => []LossIsReal
    <1>1. IInv => LossIsReal
        BY DEF IInv, Judged
    <1> QED
        BY <1>1, InvAlways, PTL
=============================================================================
