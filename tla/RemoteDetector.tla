--------------------------- MODULE RemoteDetector ---------------------------
(***************************************************************************)
(* A detector backed by a model service (rvo-remote).  execute, called by  *)
(* the scheduler, leaves the newest frame in a one-slot mailbox and        *)
(* returns the last cached result; a worker thread takes the frame, calls  *)
(* the service under a timeout, stores the reply and sleeps.  The two      *)
(* share the mailbox, the result, the failure count and the stop flag, and *)
(* no lock covers two of them, so that execute is three steps here.        *)
(*                                                                         *)
(* Only lengths of time matter: a result, a signal and the tick have an    *)
(* age, a timer is what is left of it, all stepped by Advance.  A frame is *)
(* reduced to being there.  The service is external.                       *)
(*                                                                         *)
(* sinceOk, sinceStart and the reply field of signal are history.          *)
(***************************************************************************)
EXTENDS Integers

CONSTANTS
    FAILURE_THRESHOLD,  \* 5
    MinInterval,        \* 1 / max_fps
    Timeout,            \* timeout_ms
    Ttl,                \* ttl_ns
    MaxLag              \* bound: from a tick's now to execute's read

ASSUME RemoteAssumption ==
    /\ FAILURE_THRESHOLD \in Nat \ {0}
    /\ MinInterval \in Nat
    /\ Timeout \in Nat
    /\ Ttl \in Nat
    /\ MaxLag \in Nat

\* Past these ages nothing changes any more.
AgeCap == Ttl + MaxLag + 1
OutageCap == FAILURE_THRESHOLD * MinInterval

VARIABLES
    camera,         \* "starting", "live" or "stopped"
    up,             \* the service answers
    inbox,          \* Shared::inbox is Some
    result,         \* Shared::result: [has, age], or NoResult
    failures,       \* Shared::consecutive_failures
    stop,           \* Shared::stop
    exec,           \* where execute is: "idle", "health" or "read"
    lag,            \* time since the tick's now, while execute runs
    disabled,       \* the scheduler's flag for this detector
    signal,         \* the slot of the store: [age, reply], or NoSignal
    worker,         \* where run_worker is
    timer,          \* what is left of the worker's sleep or RPC timeout
    reply,          \* the reply in hand reports the signal
    sinceOk,        \* history: time since the last reply, or the start
    sinceStart      \* history: time since the last RPC began

vars == <<camera, up, inbox, result, failures, stop, exec, lag, disabled,
          signal, worker, timer, reply, sinceOk, sinceStart>>

environment == <<camera, up>>
executing == <<exec, lag, disabled, signal>>
working == <<worker, timer, reply, sinceOk, sinceStart>>

NoResult == [has |-> FALSE, age |-> -1]
NoSignal == [age |-> AgeCap, reply |-> AgeCap]

Least(a, b) == IF a < b THEN a ELSE b
Older(age, cap) == Least(age + 1, cap)

TypeOK ==
    /\ camera \in {"starting", "live", "stopped"}
    /\ up \in BOOLEAN
    /\ inbox \in BOOLEAN
    /\ result \in [has : BOOLEAN, age : 0 .. AgeCap] \cup {NoResult}
    /\ failures \in Nat
    /\ stop \in BOOLEAN
    /\ exec \in {"idle", "health", "read"}
    /\ lag \in 0 .. MaxLag
    /\ disabled \in BOOLEAN
    /\ signal \in [age : 0 .. AgeCap, reply : 0 .. AgeCap]
    /\ worker \in {"check", "take", "rpc", "store", "sleep", "exit"}
    /\ timer \in 0 .. (IF Timeout < MinInterval THEN MinInterval ELSE Timeout)
    /\ reply \in BOOLEAN
    /\ sinceOk \in 0 .. OutageCap
    /\ sinceStart \in 0 .. MinInterval

\* RemoteGrpcDetector::new; a worker that cannot build its runtime or
\* use its endpoint is gone at once, and counts no failure.
Init ==
    /\ camera = "starting"
    /\ up \in BOOLEAN
    /\ inbox = FALSE
    /\ result = NoResult
    /\ failures = 0
    /\ stop = FALSE
    /\ exec = "idle"
    /\ lag = 0
    /\ disabled = FALSE
    /\ signal = NoSignal
    /\ worker \in {"check", "exit"}
    /\ timer = 0
    /\ reply = FALSE
    /\ sinceOk = 0
    /\ sinceStart = MinInterval

-----------------------------------------------------------------------------
(* The environment *)

Advance ==
    /\ exec # "idle" => lag < MaxLag
    /\ lag' = IF exec = "idle" THEN 0 ELSE lag + 1
    /\ result' = IF result = NoResult THEN result
                 ELSE [result EXCEPT !.age = Older(@, AgeCap)]
    /\ signal' = [age |-> Older(signal.age, AgeCap),
                  reply |-> Older(signal.reply, AgeCap)]
    /\ timer' = IF timer > 0 THEN timer - 1 ELSE 0
    /\ sinceOk' = Older(sinceOk, OutageCap)
    /\ sinceStart' = Older(sinceStart, MinInterval)
    /\ UNCHANGED <<environment, inbox, failures, stop, exec, disabled, worker,
                   reply>>

CameraChanges ==
    /\ camera' = IF camera = "live" THEN "stopped" ELSE "live"
    /\ UNCHANGED <<up, inbox, result, failures, stop, executing, working>>

ServiceChanges ==
    /\ up' = ~up
    /\ UNCHANGED <<camera, inbox, result, failures, stop, executing, working>>

-----------------------------------------------------------------------------
(* execute, on the scheduler's thread *)

\* The newest frame of the buffer goes to the mailbox: the buffer never loses
\* its last frame, whatever has become of the camera.
Publish ==
    /\ exec = "idle"
    /\ ~disabled /\ ~stop
    /\ camera # "starting"
    /\ inbox' = TRUE
    /\ exec' = "health"
    /\ UNCHANGED <<environment, result, failures, stop, lag, disabled, signal, working>>

\* Mutant of CheckHealth: one failure more is tolerated.
CheckHealthStrict ==
    /\ exec = "health"
    /\ IF failures > FAILURE_THRESHOLD
       THEN exec' = "idle" /\ lag' = 0 /\ disabled' = TRUE
       ELSE exec' = "read" /\ UNCHANGED <<lag, disabled>>
    /\ UNCHANGED <<environment, inbox, result, failures, stop, signal, working>>

\* Failed health: the scheduler disables the detector for good.
CheckHealth ==
    /\ exec = "health"
    /\ \/ /\ failures >= FAILURE_THRESHOLD
          /\ exec' = "idle"
          /\ lag' = 0
          /\ disabled' = TRUE
       \/ /\ failures < FAILURE_THRESHOLD
          /\ exec' = "read"
          /\ UNCHANGED <<lag, disabled>>
    /\ UNCHANGED <<environment, inbox, result, failures, stop, signal, working>>

\* Mutant of Read: the signal is stamped with the tick's instant.
ReadStampsNow ==
    /\ exec = "read"
    /\ signal' = IF result.has
                 THEN [age |-> lag, reply |-> result.age]
                 ELSE signal
    /\ exec' = "idle"
    /\ lag' = 0
    /\ UNCHANGED <<environment, inbox, result, failures, stop, disabled, working>>

\* The cached result, if it reports the signal, is stamped now - age and
\* upserted; it is lag + age old by then.
Read ==
    /\ exec = "read"
    /\ signal' = IF result.has
                 THEN [age |-> Least(lag + result.age, AgeCap), reply |-> result.age]
                 ELSE signal
    /\ exec' = "idle"
    /\ lag' = 0
    /\ UNCHANGED <<environment, inbox, result, failures, stop, disabled, working>>

\* Drop, when a reload replaces the detectors.
DropDetector ==
    /\ exec = "idle"
    /\ ~stop
    /\ stop' = TRUE
    /\ UNCHANGED <<environment, inbox, result, failures, executing, working>>

-----------------------------------------------------------------------------
(* run_worker, on its own thread *)

\* Mutant of Check: the flag is not read.
CheckForever ==
    /\ worker = "check"
    /\ worker' = "take"
    /\ UNCHANGED <<environment, inbox, result, failures, stop, executing, timer,
                   reply, sinceOk, sinceStart>>

Check ==
    /\ worker = "check"
    /\ worker' = IF stop THEN "exit" ELSE "take"
    /\ UNCHANGED <<environment, inbox, result, failures, stop, executing, timer,
                   reply, sinceOk, sinceStart>>

\* Mutant of GoToSleep: the interval comes on top of what is left of the timeout.
GoToSleepAfterTimeout == worker' = "sleep" /\ timer' = timer + MinInterval

GoToSleep == worker' = "sleep" /\ timer' = MinInterval

\* Nothing to send, or a frame that does not encode: no call, no failure.
NothingToSend ==
    /\ worker = "take"
    /\ inbox' = FALSE
    /\ GoToSleep
    /\ UNCHANGED <<environment, result, failures, stop, executing, reply,
                   sinceOk, sinceStart>>

StartRpc ==
    /\ worker = "take"
    /\ inbox
    /\ inbox' = FALSE
    /\ worker' = "rpc"
    /\ timer' = Timeout
    /\ sinceStart' = 0
    /\ UNCHANGED <<environment, result, failures, stop, executing, reply, sinceOk>>

\* Mutant of Reply: the count of failures is not reset.
ReplyKeepsFailures ==
    /\ worker = "rpc"
    /\ up
    /\ reply' \in BOOLEAN
    /\ worker' = "store"
    /\ sinceOk' = 0
    /\ UNCHANGED <<environment, inbox, result, failures, stop, executing, timer,
                   sinceStart>>

\* The service answers, with or without the signal.
Reply ==
    /\ worker = "rpc"
    /\ up
    /\ reply' \in BOOLEAN
    /\ failures' = 0
    /\ worker' = "store"
    /\ sinceOk' = 0
    /\ UNCHANGED <<environment, inbox, result, stop, executing, timer, sinceStart>>

Store ==
    /\ worker = "store"
    /\ result' = [has |-> reply, age |-> 0]
    /\ GoToSleep
    /\ UNCHANGED <<environment, inbox, failures, stop, executing, reply, sinceOk,
                   sinceStart>>

\* An error status, from the service or the transport.
RpcError ==
    /\ worker = "rpc"
    /\ failures' = failures + 1
    /\ GoToSleep
    /\ UNCHANGED <<environment, inbox, result, stop, executing, reply, sinceOk,
                   sinceStart>>

\* Mutant of RpcTimeout: only an error status counts as a failure.
RpcTimeoutUncounted ==
    /\ worker = "rpc"
    /\ timer = 0
    /\ GoToSleep
    /\ UNCHANGED <<environment, inbox, result, failures, stop, executing, reply,
                   sinceOk, sinceStart>>

RpcTimeout ==
    /\ worker = "rpc"
    /\ timer = 0
    /\ failures' = failures + 1
    /\ GoToSleep
    /\ UNCHANGED <<environment, inbox, result, stop, executing, reply, sinceOk,
                   sinceStart>>

\* Mutant of Wake: the worker polls.
WakeAtOnce ==
    /\ worker = "sleep"
    /\ worker' = "check"
    /\ timer' = 0
    /\ UNCHANGED <<environment, inbox, result, failures, stop, executing, reply,
                   sinceOk, sinceStart>>

Wake ==
    /\ worker = "sleep"
    /\ timer = 0
    /\ worker' = "check"
    /\ UNCHANGED <<environment, inbox, result, failures, stop, executing, timer,
                   reply, sinceOk, sinceStart>>

Execute == Publish \/ CheckHealth \/ Read

Worker ==
    \/ Check \/ NothingToSend \/ StartRpc
    \/ Reply \/ Store \/ RpcError \/ RpcTimeout
    \/ Wake

Next ==
    \/ Advance \/ CameraChanges \/ ServiceChanges
    \/ Execute \/ DropDetector
    \/ Worker

Spec == Init /\ [][Next]_vars

\* Time passes, the loop of main keeps calling tick, and the worker's thread
\* runs: a step it can take is taken, a timer that is over fires.  Neither an
\* answer nor an error status is assumed.
FairSpec ==
    /\ Spec
    /\ WF_vars(Advance)
    /\ WF_vars(Execute)
    /\ WF_vars(Check) /\ WF_vars(NothingToSend \/ StartRpc)
    /\ WF_vars(Store) /\ WF_vars(RpcTimeout) /\ WF_vars(Wake)

\* And the frames of the camera are not all beyond encoding.
EncodingSpec == FairSpec /\ SF_vars(StartRpc)

-----------------------------------------------------------------------------
(* Properties *)

\* The signal in the store is never younger than the reply it came from,
\* wherever the clock stood while execute was reading it: a cached result that
\* is read again does not gain freshness (lib.rs:187-193).  And there is none
\* without a reply: a detector whose worker ended alone or never had a frame
\* encoded is silent, though nothing disables it.
NeverFresherThanReply ==
    /\ signal.age >= signal.reply
    /\ result = NoResult => signal = NoSignal

\* The worker honours max_fps: RPCs begin at least MinInterval apart, after a
\* failure too (lib.rs:106, 301).
DispatchCapped == [][StartRpc => sinceStart = MinInterval]_vars

\* Transient blips are tolerated: the detector is not disabled before the
\* service has been silent for the intervals between FAILURE_THRESHOLD calls
\* (lib.rs:63-68).
BlipTolerated ==
    [][~disabled /\ disabled' =>
          sinceOk >= (FAILURE_THRESHOLD - 1) * MinInterval]_vars

\* Failure is bounded (DEVELOPER_GUIDE.md:277): once a service has stopped
\* answering, no more than two calls are made beyond the threshold, the one in
\* flight and the one whose frame execute left before it looked at the count.
FailuresBounded == failures <= FAILURE_THRESHOLD + 2

\* And then terminal: a service that is gone for good ends in a disabled
\* detector, if its worker ever started, frames have come and no reload has
\* replaced it.
DownIsTerminal ==
    (worker # "exit" /\ <>[]~up /\ <>(camera # "starting")) => <>(disabled \/ stop)

\* Dropping the detector ends its thread, whatever the worker is doing
\* (lib.rs:78).
WorkerEnds == stop ~> worker = "exit"

\* RVO never acts on stale detections: with the camera stopped, the signal of
\* the last frame expires and stays so (demo/README.md:50: "Stop sending frames
\* and the last signal expires, so events stop firing").
SignalFresh == signal.age <= Ttl

StoppedCameraSilences == <>[](camera = "stopped") => <>[]~SignalFresh
=============================================================================
