------------------------ MODULE RemoteDetectorProofs ------------------------
(***************************************************************************)
(* Proofs about RemoteDetector: for every threshold, interval, timeout,    *)
(* time to live and lag.                                                   *)
(*                                                                         *)
(* Each safety property rests on a part of IInv that relates variables of  *)
(* the two threads: Paced the worker's timer with the time since its last  *)
(* call, Silent the failure count with the time since the last reply, and  *)
(* Draining the failure count with what the mailbox and execute can still  *)
(* add to it once it has reached the threshold.                            *)
(***************************************************************************)
EXTENDS RemoteDetector, TLAPS

\* A worker about to start a call has let a whole interval pass since the last
\* one, and one that sleeps will have.
Paced ==
    /\ worker \in {"check", "take"} => sinceStart = MinInterval
    /\ worker = "sleep" => sinceStart + timer >= MinInterval

\* Failures that have followed each other, the call in flight included, span
\* an interval each, back to the last reply.
Calls == IF worker = "rpc" THEN failures ELSE failures - 1

Silent == sinceOk >= Least(Calls * MinInterval + sinceStart, OutageCap)

One(P) == IF P THEN 1 ELSE 0

\* Calls that may still fail: in flight, in the mailbox, and the frame execute
\* leaves there before it finds out.
ToCome ==
    One(worker = "rpc") + One(inbox) + One(~disabled /\ exec \in {"idle", "read"})

Draining ==
    failures >= FAILURE_THRESHOLD => failures + ToCome <= FAILURE_THRESHOLD + 2

IInv == TypeOK /\ Paced /\ Silent /\ Draining /\ NeverFresherThanReply

-----------------------------------------------------------------------------
(* Types *)

LEMMA LeastFacts ==
    ASSUME NEW a \in Int, NEW b \in Int
    PROVE  /\ Least(a, b) \in {a, b}
           /\ Least(a, b) <= a
           /\ Least(a, b) <= b
    BY DEF Least

\* Growing older stays within the cap and keeps the order of two ages.
LEMMA OlderFacts ==
    ASSUME NEW cap \in Nat, NEW a \in 0 .. cap, NEW b \in 0 .. cap
    PROVE  /\ Older(a, cap) \in 0 .. cap
           /\ Older(a, cap) >= a
           /\ Older(a, cap) <= a + 1
           /\ Older(cap, cap) = cap
           /\ a >= b => Older(a, cap) >= Older(b, cap)
    BY DEF Older, Least

LEMMA CapFacts == AgeCap \in Nat /\ OutageCap \in Nat
    <1>1. FAILURE_THRESHOLD \in Nat /\ MinInterval \in Nat
        BY RemoteAssumption
    <1>2. OutageCap \in Nat
        BY <1>1 DEF OutageCap
    <1> QED
        BY <1>2, RemoteAssumption DEF AgeCap

LEMMA TypeInit == Init => TypeOK
    <1> SUFFICES ASSUME Init PROVE TypeOK
        OBVIOUS
    <1>1. signal \in [age : 0 .. AgeCap, reply : 0 .. AgeCap]
        BY CapFacts DEF Init, NoSignal
    <1>2. result \in [has : BOOLEAN, age : 0 .. AgeCap] \cup {NoResult}
        BY DEF Init
    <1>3. /\ timer \in 0 .. (IF Timeout < MinInterval THEN MinInterval ELSE Timeout)
          /\ sinceStart \in 0 .. MinInterval
          /\ lag \in 0 .. MaxLag
          /\ sinceOk \in 0 .. OutageCap
          /\ failures \in Nat
        BY CapFacts, RemoteAssumption DEF Init
    <1> QED
        BY <1>1, <1>2, <1>3 DEF Init, TypeOK

LEMMA TypeStep == TypeOK /\ [Next]_vars => TypeOK'
    <1> SUFFICES ASSUME TypeOK, [Next]_vars PROVE TypeOK'
        OBVIOUS
    <1> USE CapFacts, RemoteAssumption
    <1>1. CASE Advance
        <2>1. result' \in [has : BOOLEAN, age : 0 .. AgeCap] \cup {NoResult}
            <3>1. CASE result = NoResult
                BY <1>1, <3>1 DEF Advance
            <3>2. CASE result # NoResult
                <4>1. result \in [has : BOOLEAN, age : 0 .. AgeCap]
                    BY <3>2 DEF TypeOK
                <4>2. Older(result.age, AgeCap) \in 0 .. AgeCap
                    BY <4>1, OlderFacts
                <4> QED
                    BY <1>1, <3>2, <4>1, <4>2 DEF Advance
            <3> QED
                BY <3>1, <3>2
        <2>2. signal' \in [age : 0 .. AgeCap, reply : 0 .. AgeCap]
            BY <1>1, OlderFacts DEF TypeOK, Advance
        <2>3. sinceOk' \in 0 .. OutageCap /\ sinceStart' \in 0 .. MinInterval
            BY <1>1, OlderFacts DEF TypeOK, Advance
        <2>4. lag' \in 0 .. MaxLag
            BY <1>1 DEF TypeOK, Advance
        <2>5. timer' \in 0 .. (IF Timeout < MinInterval THEN MinInterval ELSE Timeout)
            BY <1>1 DEF TypeOK, Advance
        <2> QED
            BY <1>1, <2>1, <2>2, <2>3, <2>4, <2>5
            DEF TypeOK, Advance, environment
    <1>2. CASE CameraChanges
        BY <1>2 DEF TypeOK, CameraChanges, executing, working
    <1>3. CASE ServiceChanges
        BY <1>3 DEF TypeOK, ServiceChanges, executing, working
    <1>4. CASE Publish
        BY <1>4 DEF TypeOK, Publish, environment, working
    <1>5. CASE CheckHealth
        <2>1. lag' \in 0 .. MaxLag
            BY <1>5 DEF TypeOK, CheckHealth
        <2>2. disabled' \in BOOLEAN
            BY <1>5 DEF TypeOK, CheckHealth
        <2>3. exec' \in {"idle", "health", "read"}
            BY <1>5 DEF TypeOK, CheckHealth
        <2> QED
            BY <1>5, <2>1, <2>2, <2>3 DEF TypeOK, CheckHealth, environment, working
    <1>6. CASE Read
        <2>1. signal' \in [age : 0 .. AgeCap, reply : 0 .. AgeCap]
            <3>1. CASE result.has
                <4>1. result.age \in 0 .. AgeCap
                    BY <3>1 DEF TypeOK, NoResult
                <4>2. Least(lag + result.age, AgeCap) \in 0 .. AgeCap
                    BY <4>1 DEF TypeOK, Least
                <4> QED
                    BY <1>6, <3>1, <4>1, <4>2 DEF Read
            <3>2. CASE ~result.has
                BY <1>6, <3>2 DEF Read, TypeOK
            <3> QED
                BY <3>1, <3>2
        <2> QED
            BY <1>6, <2>1 DEF TypeOK, Read, environment, working
    <1>7. CASE DropDetector
        BY <1>7 DEF TypeOK, DropDetector, environment, executing, working
    <1>8. CASE Check
        BY <1>8 DEF TypeOK, Check, environment, executing
    <1>9. CASE NothingToSend
        <2>1. inbox' \in BOOLEAN
            BY <1>9 DEF NothingToSend
        <2>2. timer' \in 0 .. (IF Timeout < MinInterval THEN MinInterval ELSE Timeout)
            BY <1>9 DEF NothingToSend, GoToSleep
        <2>3. worker' = "sleep"
            BY <1>9 DEF NothingToSend, GoToSleep
        <2> QED
            BY <1>9, <2>1, <2>2, <2>3 DEF TypeOK, NothingToSend, environment, executing
    <1>10. CASE StartRpc
        <2>1. inbox' \in BOOLEAN
            BY <1>10 DEF StartRpc
        <2>2. timer' \in 0 .. (IF Timeout < MinInterval THEN MinInterval ELSE Timeout)
            BY <1>10 DEF StartRpc
        <2>3. sinceStart' \in 0 .. MinInterval /\ worker' = "rpc"
            BY <1>10 DEF StartRpc
        <2> QED
            BY <1>10, <2>1, <2>2, <2>3 DEF TypeOK, StartRpc, environment, executing
    <1>11. CASE Reply
        BY <1>11 DEF TypeOK, Reply, environment, executing
    <1>12. CASE Store
        BY <1>12 DEF TypeOK, Store, GoToSleep, environment, executing
    <1>13. CASE RpcError
        BY <1>13 DEF TypeOK, RpcError, GoToSleep, environment, executing
    <1>14. CASE RpcTimeout
        BY <1>14 DEF TypeOK, RpcTimeout, GoToSleep, environment, executing
    <1>15. CASE Wake
        BY <1>15 DEF TypeOK, Wake, environment, executing
    <1>16. CASE UNCHANGED vars
        BY <1>16 DEF TypeOK, vars
    <1> QED
        BY <1>1, <1>2, <1>3, <1>4, <1>5, <1>6, <1>7, <1>8, <1>9, <1>10, <1>11,
           <1>12, <1>13, <1>14, <1>15, <1>16
        DEF Next, Execute, Worker

\* Every variable keeps its type, for all constants: ages and timers stay
\* within their caps and a cached result has an age.
THEOREM TypeCorrect == Spec => []TypeOK
    BY TypeInit, TypeStep, PTL DEF Spec

-----------------------------------------------------------------------------
(* The four parts of IInv are inductive, given the types. *)

LEMMA SafeInit == Init => Paced /\ Silent /\ Draining /\ NeverFresherThanReply
    <1> SUFFICES ASSUME Init
                 PROVE  Paced /\ Silent /\ Draining /\ NeverFresherThanReply
        OBVIOUS
    <1>1. Paced
        BY DEF Init, Paced
    <1>2. Silent
        <2>1. Calls = -1 /\ sinceOk = 0 /\ sinceStart = MinInterval
            BY DEF Init, Calls
        <2>2. Calls * MinInterval + sinceStart = 0
            BY <2>1, RemoteAssumption
        <2> QED
            BY <2>1, <2>2, CapFacts DEF Silent, Least
    <1>3. Draining
        BY RemoteAssumption DEF Init, Draining
    <1>4. NeverFresherThanReply
        BY CapFacts DEF Init, NeverFresherThanReply, NoSignal
    <1> QED
        BY <1>1, <1>2, <1>3, <1>4

\* A worker that sleeps for MinInterval after every call is paced.
LEMMA PacedStep == TypeOK /\ Paced /\ [Next]_vars => Paced'
    <1> SUFFICES ASSUME TypeOK, Paced, [Next]_vars PROVE Paced'
        OBVIOUS
    <1>1. CASE Advance
        <2>1. /\ worker' = worker
              /\ sinceStart' = Older(sinceStart, MinInterval)
              /\ timer' = IF timer > 0 THEN timer - 1 ELSE 0
            BY <1>1 DEF Advance
        <2>2. sinceStart \in 0 .. MinInterval /\ timer \in Nat
            BY RemoteAssumption DEF TypeOK
        <2> QED
            BY <2>1, <2>2, RemoteAssumption DEF Paced, Older, Least
    <1>2. CASE CameraChanges \/ ServiceChanges \/ Execute \/ DropDetector
        BY <1>2 DEF CameraChanges, ServiceChanges, Execute, Publish, CheckHealth,
                    Read, DropDetector, executing, working, Paced
    <1>3. CASE Check
        BY <1>3 DEF Check, Paced
    <1>4. CASE NothingToSend
        BY <1>4, RemoteAssumption DEF NothingToSend, GoToSleep, Paced, TypeOK
    <1>5. CASE StartRpc \/ Reply
        BY <1>5 DEF StartRpc, Reply, Paced
    <1>6. CASE Store \/ RpcError \/ RpcTimeout
        <2>1. worker' = "sleep" /\ timer' = MinInterval /\ sinceStart' = sinceStart
            BY <1>6 DEF Store, RpcError, RpcTimeout, GoToSleep
        <2> QED
            BY <2>1, RemoteAssumption DEF Paced, TypeOK
    <1>7. CASE Wake
        BY <1>7, RemoteAssumption DEF Wake, Paced, TypeOK
    <1>8. CASE UNCHANGED vars
        BY <1>8 DEF vars, Paced
    <1> QED
        BY <1>1, <1>2, <1>3, <1>4, <1>5, <1>6, <1>7, <1>8 DEF Next, Worker

\* What a step of the worker does to the span that Silent speaks of.
LEMMA SpanFacts ==
    ASSUME NEW f \in Nat, NEW g \in Nat, f >= g
    PROVE  /\ f * MinInterval \in Nat
           /\ (f - 1) * MinInterval \in Int
           /\ (f - 1) * MinInterval + MinInterval = f * MinInterval
           /\ f * MinInterval >= g * MinInterval
           /\ f >= 1 => (f - 1) * MinInterval >= 0
    <1>1. MinInterval \in Nat
        BY RemoteAssumption
    <1>2. PICK k \in Nat : f = g + k
        <2>1. f - g \in Nat /\ f = g + (f - g)
            OBVIOUS
        <2> QED
            BY <2>1
    <1>3. f * MinInterval = g * MinInterval + k * MinInterval /\ k * MinInterval \in Nat
        BY <1>1, <1>2
    <1> QED
        BY <1>1, <1>3

\* Failures come after calls that start an interval apart: silence grows with
\* their count.
LEMMA SilentStep == TypeOK /\ Paced /\ Silent /\ [Next]_vars => Silent'
    <1> SUFFICES ASSUME TypeOK, Paced, Silent, [Next]_vars PROVE Silent'
        OBVIOUS
    <1> USE CapFacts
    <1>0. /\ failures \in Nat /\ sinceStart \in Nat /\ sinceOk \in Nat
          /\ MinInterval \in Nat /\ sinceStart <= MinInterval
          /\ sinceOk <= OutageCap
        BY RemoteAssumption DEF TypeOK
    <1>1. CASE Advance
        <2>1. /\ Calls' = Calls
              /\ sinceStart' = Older(sinceStart, MinInterval)
              /\ sinceOk' = Older(sinceOk, OutageCap)
            BY <1>1 DEF Advance, Calls
        <2>2. Calls * MinInterval \in Int
            BY <1>0 DEF Calls
        <2>3. sinceStart' \in Int /\ sinceStart' <= sinceStart + 1
            BY <1>0, <2>1 DEF Older, Least
        <2>4. sinceOk' = Least(sinceOk + 1, OutageCap)
            BY <2>1 DEF Older
        <2>5. Silent' <=>
                 sinceOk' >= Least(Calls * MinInterval + sinceStart', OutageCap)
            BY <2>1 DEF Silent
        <2> QED
            BY <1>0, <2>2, <2>3, <2>4, <2>5 DEF Silent, Least
    <1>2. CASE CameraChanges \/ ServiceChanges \/ Execute \/ DropDetector
        BY <1>2 DEF CameraChanges, ServiceChanges, Execute, Publish, CheckHealth,
                    Read, DropDetector, executing, working, Silent, Calls
    <1>3. CASE Check \/ NothingToSend \/ Store \/ Wake
        <2>1. Calls' = Calls /\ sinceStart' = sinceStart /\ sinceOk' = sinceOk
            BY <1>3 DEF Check, NothingToSend, Store, Wake, GoToSleep, Calls
        <2> QED
            BY <2>1 DEF Silent
    <1>4. CASE StartRpc
        <2>1. /\ Calls = failures - 1 /\ Calls' = failures
              /\ sinceStart = MinInterval /\ sinceStart' = 0 /\ sinceOk' = sinceOk
            BY <1>4 DEF StartRpc, Calls, Paced
        <2>2. Calls * MinInterval + sinceStart = Calls' * MinInterval + sinceStart'
            BY <1>0, <2>1, SpanFacts
        <2> QED
            BY <2>1, <2>2 DEF Silent
    <1>5. CASE Reply
        <2>1. Calls' = -1 /\ sinceStart' = sinceStart /\ sinceOk' = 0
            BY <1>5 DEF Reply, Calls
        <2>2. Calls' * MinInterval + sinceStart' <= 0
            BY <1>0, <2>1
        <2> QED
            BY <1>0, <2>1, <2>2 DEF Silent, Least
    <1>6. CASE RpcError \/ RpcTimeout
        <2>1. Calls' = Calls /\ sinceStart' = sinceStart /\ sinceOk' = sinceOk
            BY <1>0, <1>6 DEF RpcError, RpcTimeout, GoToSleep, Calls
        <2> QED
            BY <2>1 DEF Silent
    <1>7. CASE UNCHANGED vars
        BY <1>7 DEF vars, Silent, Calls
    <1> QED
        BY <1>1, <1>2, <1>3, <1>4, <1>5, <1>6, <1>7 DEF Next, Worker

\* Once the threshold is reached the next frame execute leaves is its last, and
\* every failure uses up a call that was to come.
LEMMA DrainingStep == TypeOK /\ Draining /\ [Next]_vars => Draining'
    <1> SUFFICES ASSUME TypeOK, Draining, [Next]_vars PROVE Draining'
        OBVIOUS
    <1> USE DEF Draining, ToCome, One
    <1>0. failures \in Nat /\ FAILURE_THRESHOLD \in Nat /\ FAILURE_THRESHOLD >= 1
        BY RemoteAssumption DEF TypeOK
    <1>1. CASE Advance \/ CameraChanges \/ ServiceChanges \/ DropDetector
        BY <1>1 DEF Advance, CameraChanges, ServiceChanges, DropDetector,
                    executing, working
    <1>2. CASE Publish
        <2>1. /\ inbox' /\ exec = "idle" /\ exec' = "health" /\ ~disabled
              /\ disabled' = disabled /\ failures' = failures /\ worker' = worker
            BY <1>2 DEF Publish, working
        <2> QED
            BY <1>0, <2>1
    <1>3. CASE CheckHealth
        <2>1. inbox' = inbox /\ failures' = failures /\ worker' = worker
            BY <1>3 DEF CheckHealth, working
        <2>2. CASE failures >= FAILURE_THRESHOLD
            <3>1. disabled'
                BY <1>0, <1>3, <2>2 DEF CheckHealth
            <3> QED
                BY <1>0, <2>1, <3>1
        <2>3. CASE ~(failures >= FAILURE_THRESHOLD)
            BY <2>1, <2>3
        <2> QED
            BY <2>2, <2>3
    <1>4. CASE Read
        <2>1. /\ exec = "read" /\ exec' = "idle" /\ disabled' = disabled
              /\ inbox' = inbox /\ failures' = failures /\ worker' = worker
            BY <1>4 DEF Read, working
        <2> QED
            BY <2>1
    <1>5. CASE Check \/ Store \/ Wake
        <2>1. /\ worker # "rpc" /\ worker' # "rpc"
              /\ inbox' = inbox /\ failures' = failures
              /\ exec' = exec /\ disabled' = disabled
            BY <1>5 DEF Check, Store, Wake, GoToSleep, executing
        <2> QED
            BY <2>1
    <1>6. CASE NothingToSend \/ StartRpc
        <2>1. /\ worker # "rpc" /\ ~inbox' /\ failures' = failures
              /\ (worker' = "rpc" => inbox)
              /\ exec' = exec /\ disabled' = disabled
            BY <1>6 DEF NothingToSend, StartRpc, GoToSleep, executing
        <2> QED
            BY <1>0, <2>1
    <1>7. CASE Reply
        BY <1>0, <1>7 DEF Reply
    <1>8. CASE RpcError \/ RpcTimeout
        <2>1. /\ worker = "rpc" /\ worker' # "rpc" /\ inbox' = inbox
              /\ failures' = failures + 1
              /\ exec' = exec /\ disabled' = disabled
            BY <1>8 DEF RpcError, RpcTimeout, GoToSleep, executing
        <2> QED
            BY <1>0, <2>1
    <1>9. CASE UNCHANGED vars
        BY <1>9 DEF vars
    <1> QED
        BY <1>1, <1>2, <1>3, <1>4, <1>5, <1>6, <1>7, <1>8, <1>9
        DEF Next, Execute, Worker

\* Reading adds the lag to the age of the reply, and both then grow alike.
LEMMA FresherStep ==
    TypeOK /\ NeverFresherThanReply /\ [Next]_vars => NeverFresherThanReply'
    <1> SUFFICES ASSUME TypeOK, NeverFresherThanReply, [Next]_vars
                 PROVE  NeverFresherThanReply'
        OBVIOUS
    <1> USE CapFacts DEF NeverFresherThanReply
    <1>0. signal.age \in 0 .. AgeCap /\ signal.reply \in 0 .. AgeCap
        BY DEF TypeOK
    <1>1. CASE Advance
        <2>1. signal'.age >= signal'.reply
            BY <1>0, <1>1, OlderFacts DEF Advance
        <2>2. ASSUME result' = NoResult PROVE signal' = NoSignal
            <3>1. result = NoResult
                <4> SUFFICES ASSUME result # NoResult PROVE FALSE
                    OBVIOUS
                <4>1. result \in [has : BOOLEAN, age : 0 .. AgeCap]
                    BY DEF TypeOK
                <4>2. result'.age = Older(result.age, AgeCap)
                    BY <1>1, <4>1 DEF Advance
                <4>3. result'.age \in 0 .. AgeCap
                    BY <4>1, <4>2, OlderFacts
                <4> QED
                    BY <2>2, <4>3 DEF NoResult
            <3> QED
                BY <1>1, <3>1, OlderFacts DEF Advance, NoSignal
        <2> QED
            BY <2>1, <2>2
    <1>2. CASE Read
        <2>1. CASE result.has
            <3>1. result.age \in 0 .. AgeCap /\ result # NoResult
                BY <2>1 DEF TypeOK, NoResult
            <3>2. Least(lag + result.age, AgeCap) >= result.age
                BY <3>1, RemoteAssumption DEF TypeOK, Least
            <3> QED
                BY <1>2, <2>1, <3>1, <3>2 DEF Read
        <2>2. CASE ~result.has
            BY <1>2, <2>2 DEF Read
        <2> QED
            BY <2>1, <2>2
    <1>3. CASE Store
        <2>1. result' # NoResult
            BY <1>3 DEF Store, NoResult
        <2>2. signal' = signal
            BY <1>3 DEF Store, executing
        <2> QED
            BY <2>1, <2>2
    <1>4. CASE \/ CameraChanges \/ ServiceChanges \/ Publish \/ CheckHealth
               \/ DropDetector \/ Check \/ NothingToSend \/ StartRpc \/ Reply
               \/ RpcError \/ RpcTimeout \/ Wake \/ UNCHANGED vars
        <2>1. signal' = signal /\ result' = result
            BY <1>4 DEF CameraChanges, ServiceChanges, Publish, CheckHealth,
                        DropDetector, Check, NothingToSend, StartRpc, Reply,
                        RpcError, RpcTimeout, Wake, executing, vars
        <2> QED
            BY <2>1
    <1> QED
        BY <1>1, <1>2, <1>3, <1>4 DEF Next, Execute, Worker

-----------------------------------------------------------------------------
(* The theorems *)

LEMMA Inductive == Spec => []IInv
    <1>1. Init => IInv
        BY TypeInit, SafeInit DEF IInv
    <1>2. IInv /\ [Next]_vars => IInv'
        BY TypeStep, PacedStep, SilentStep, DrainingStep, FresherStep DEF IInv
    <1> QED
        BY <1>1, <1>2, PTL DEF Spec

\* The signal in the store is never younger than the reply it was read from,
\* and there is none before the first reply (lib.rs:187-193).
THEOREM NeverFresherThanReplyHolds == Spec => []NeverFresherThanReply
    BY Inductive, PTL DEF IInv

\* A service that stops answering is called at most twice more once the count
\* of failures has reached the threshold (DEVELOPER_GUIDE.md:277).
THEOREM FailuresBoundedHolds == Spec => []FailuresBounded
    <1>1. IInv => FailuresBounded
        <2> SUFFICES ASSUME IInv PROVE FailuresBounded
            OBVIOUS
        <2>1. ToCome \in Nat
            BY DEF ToCome, One
        <2> QED
            BY <2>1, RemoteAssumption DEF IInv, Draining, FailuresBounded, TypeOK
    <1> QED
        BY <1>1, Inductive, PTL

\* RPCs begin at least MinInterval apart, whatever became of the last one
\* (lib.rs:106, 301).
THEOREM DispatchCappedHolds == Spec => DispatchCapped
    <1>1. IInv /\ [Next]_vars => [StartRpc => sinceStart = MinInterval]_vars
        BY DEF IInv, Paced, StartRpc
    <1> QED
        BY <1>1, Inductive, PTL DEF DispatchCapped, Spec

\* No step disables the detector before the service has been silent for the
\* intervals between FAILURE_THRESHOLD calls (lib.rs:63-68).
THEOREM BlipToleratedHolds == Spec => BlipTolerated
    <1>1. IInv /\ [Next]_vars =>
             [~disabled /\ disabled' =>
                 sinceOk >= (FAILURE_THRESHOLD - 1) * MinInterval]_vars
        <2> SUFFICES ASSUME IInv, [Next]_vars, ~disabled, disabled'
                     PROVE  sinceOk >= (FAILURE_THRESHOLD - 1) * MinInterval
            OBVIOUS
        <2>1. CheckHealth /\ failures >= FAILURE_THRESHOLD
            BY DEF Next, vars, Execute, Worker, Advance, CameraChanges,
                   ServiceChanges, Publish, CheckHealth, Read, DropDetector,
                   Check, NothingToSend, StartRpc, Reply, Store, RpcError,
                   RpcTimeout, Wake, executing
        <2>2. /\ failures \in Nat /\ FAILURE_THRESHOLD \in Nat \ {0}
              /\ sinceStart \in Nat /\ sinceOk \in Nat /\ MinInterval \in Nat
            BY RemoteAssumption, CapFacts DEF IInv, TypeOK
        <2>3. Calls \in Nat /\ Calls >= FAILURE_THRESHOLD - 1
            BY <2>1, <2>2 DEF Calls
        <2>4. Calls * MinInterval >= (FAILURE_THRESHOLD - 1) * MinInterval
            BY <2>2, <2>3, SpanFacts
        <2>5. OutageCap >= (FAILURE_THRESHOLD - 1) * MinInterval
            BY <2>2, SpanFacts DEF OutageCap
        <2>6. Calls * MinInterval \in Nat
            BY <2>3, SpanFacts
        <2> QED
            BY <2>2, <2>4, <2>5, <2>6, CapFacts DEF IInv, Silent, Least
    <1> QED
        BY <1>1, Inductive, PTL DEF BlipTolerated, Spec

=============================================================================
