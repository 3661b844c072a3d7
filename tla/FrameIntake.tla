---------------------------- MODULE FrameIntake ----------------------------
(***************************************************************************)
(* From the camera to the tick (rvo-camera, rvo-scheduler): the camera     *)
(* thread reads a frame, stamps it and offers it to a bounded channel;     *)
(* the tick drains the channel into the frame buffer, one frame at a time, *)
(* and takes the newest frame of the buffer for its detectors.  The camera *)
(* goes on sending while the tick drains.                                  *)
(*                                                                         *)
(* The buffer is the ring of FrameBuffer, which the tick and the clip      *)
(* worker read under its mutex.  A read of the camera that fails changes   *)
(* nothing but its log counter and is left out.  dropped and pushed are    *)
(* history variables.                                                      *)
(***************************************************************************)
EXTENDS Integers, Sequences, SequencesExt, FiniteSets

CONSTANTS
    QueueCap,       \* capacity of the camera channel (5)
    Capacity,       \* capacity of the frame buffer (300)
    MaxTime,        \* bound: the clock
    MaxFrames       \* bound: frames read

ASSUME IntakeAssumption ==
    /\ QueueCap \in Nat \ {0}
    /\ Capacity \in Nat \ {0}
    /\ MaxTime \in Nat
    /\ MaxFrames \in Nat

VARIABLES
    clock,          \* Instant::now()
    nextId,         \* frame_id of the camera loop
    hand,           \* the frame the camera has stamped and not yet offered
    queue,          \* the channel, oldest first
    frames,         \* the slots of the frame buffer
    writeIdx,       \* the slot its next push overwrites
    tick,           \* "sleep", "drain" or "run": where the scheduler is
    latest,         \* latest_frame of the running tick
    frameDrops,     \* METRICS.frame_drops
    dropped,        \* history: ids the channel refused
    pushed          \* history: ids that reached the buffer, in order

buffer == <<frames, writeIdx>>

vars == <<clock, nextId, hand, queue, buffer, tick, latest, frameDrops,
          dropped, pushed>>

Id == 0 .. MaxFrames

Frame == [ts : 0 .. MaxTime, id : Id]

Buffer == INSTANCE FrameBuffer

NoFrame == Buffer!NoFrame

TypeOK ==
    /\ clock \in 0 .. MaxTime
    /\ nextId \in Id
    /\ hand \in Frame \cup {NoFrame}
    /\ queue \in Seq(Frame) /\ Len(queue) <= QueueCap
    /\ Buffer!TypeOK
    /\ tick \in {"sleep", "drain", "run"}
    /\ latest \in Frame \cup {NoFrame}
    /\ frameDrops \in 0 .. MaxFrames
    /\ dropped \subseteq Id
    /\ pushed \in Seq(Id)

Init ==
    /\ clock = 0
    /\ nextId = 0
    /\ hand = NoFrame
    /\ queue = << >>
    /\ Buffer!Init
    /\ tick = "sleep"
    /\ latest = NoFrame
    /\ frameDrops = 0
    /\ dropped = {}
    /\ pushed = << >>

Advance ==
    /\ clock < MaxTime
    /\ clock' = clock + 1
    /\ UNCHANGED <<nextId, hand, queue, buffer, tick, latest, frameDrops,
                   dropped, pushed>>

-----------------------------------------------------------------------------
(* The camera thread *)

\* cam.read succeeds and the frame is stamped.
Capture ==
    /\ hand = NoFrame
    /\ nextId < MaxFrames
    /\ hand' = [ts |-> clock, id |-> nextId]
    /\ UNCHANGED <<clock, nextId, queue, buffer, tick, latest, frameDrops,
                   dropped, pushed>>

\* Mutant of Send: a refused frame is not counted.
SendUncounted ==
    /\ hand # NoFrame
    /\ IF Len(queue) < QueueCap
       THEN queue' = Append(queue, hand) /\ UNCHANGED dropped
       ELSE dropped' = dropped \cup {hand.id} /\ UNCHANGED queue
    /\ hand' = NoFrame
    /\ nextId' = nextId + 1
    /\ UNCHANGED <<clock, buffer, tick, latest, frameDrops, pushed>>

\* Mutant of Send: the frame jumps the queue.
SendFirst ==
    /\ hand # NoFrame
    /\ IF Len(queue) < QueueCap
       THEN queue' = <<hand>> \o queue /\ UNCHANGED <<frameDrops, dropped>>
       ELSE /\ frameDrops' = frameDrops + 1
            /\ dropped' = dropped \cup {hand.id}
            /\ UNCHANGED queue
    /\ hand' = NoFrame
    /\ nextId' = nextId + 1
    /\ UNCHANGED <<clock, buffer, tick, latest, pushed>>

\* Mutant of Send: the channel has no bound.
SendUnbounded ==
    /\ hand # NoFrame
    /\ queue' = Append(queue, hand)
    /\ hand' = NoFrame
    /\ nextId' = nextId + 1
    /\ UNCHANGED <<clock, buffer, tick, latest, frameDrops, dropped, pushed>>

\* try_send: a full channel refuses the frame just read, and the next id is
\* used either way.
Send ==
    /\ hand # NoFrame
    /\ \/ /\ Len(queue) < QueueCap
          /\ queue' = Append(queue, hand)
          /\ UNCHANGED <<frameDrops, dropped>>
       \/ /\ Len(queue) = QueueCap
          /\ frameDrops' = frameDrops + 1
          /\ dropped' = dropped \cup {hand.id}
          /\ UNCHANGED queue
    /\ hand' = NoFrame
    /\ nextId' = nextId + 1
    /\ UNCHANGED <<clock, buffer, tick, latest, pushed>>

-----------------------------------------------------------------------------
(* The scheduler's thread *)

BeginTick ==
    /\ tick = "sleep"
    /\ tick' = "drain"
    /\ UNCHANGED <<clock, nextId, hand, queue, buffer, latest, frameDrops,
                   dropped, pushed>>

\* Mutant of Receive: the tick takes one frame and goes on with it.
ReceiveOne ==
    /\ tick = "drain"
    /\ queue # << >>
    /\ Buffer!Push(Head(queue))
    /\ pushed' = Append(pushed, Head(queue).id)
    /\ queue' = Tail(queue)
    /\ latest' = Head(queue)
    /\ tick' = "run"
    /\ UNCHANGED <<clock, nextId, hand, frameDrops, dropped>>

\* One turn of the drain loop: try_recv and push. The whole loop holds the mutex
\* of the buffer, so what happens between two turns is the camera's doing, which
\* needs the channel only.
Receive ==
    /\ tick = "drain"
    /\ queue # << >>
    /\ Buffer!Push(Head(queue))
    /\ pushed' = Append(pushed, Head(queue).id)
    /\ queue' = Tail(queue)
    /\ UNCHANGED <<clock, nextId, hand, tick, latest, frameDrops, dropped>>

\* Mutant of Pick: a tick that may go on without draining.
PickAnyTime ==
    /\ tick = "drain"
    /\ latest' = Buffer!NewestFrame
    /\ tick' = "run"
    /\ UNCHANGED <<clock, nextId, hand, queue, buffer, frameDrops, dropped,
                   pushed>>

\* The channel is found empty: newest_frame, and on to the detectors.
Pick ==
    /\ tick = "drain"
    /\ queue = << >>
    /\ latest' = Buffer!NewestFrame
    /\ tick' = "run"
    /\ UNCHANGED <<clock, nextId, hand, queue, buffer, frameDrops, dropped,
                   pushed>>

\* The detectors and the events are done, however long they took.
EndTick ==
    /\ tick = "run"
    /\ tick' = "sleep"
    /\ UNCHANGED <<clock, nextId, hand, queue, buffer, latest, frameDrops,
                   dropped, pushed>>

Camera == Capture \/ Send

Scheduler == BeginTick \/ Receive \/ Pick \/ EndTick

Next == Advance \/ Camera \/ Scheduler

Spec == Init /\ [][Next]_vars

\* The loop of main keeps calling tick, and every detector returns.
FairSpec == Spec /\ WF_vars(Scheduler)

-----------------------------------------------------------------------------
(* Properties *)

\* Every frame offered is in the channel, has reached the buffer or is counted
\* in frame_drops: none is lost between two threads, none is counted twice
\* (camera.rs:110-112, scheduler.rs:135-137).
Accounted == nextId = Len(pushed) + Len(queue) + frameDrops

\* Frames reach the detectors in the order they were taken: along the buffer,
\* the channel and the camera's hand, ids increase and stamps never decrease,
\* whatever was dropped between them.
InOrder ==
    LET inFlight == Buffer!Contents \o queue
                        \o (IF hand = NoFrame THEN << >> ELSE <<hand>>)
    IN  \A i, j \in DOMAIN inFlight : i < j =>
            /\ inFlight[i].id < inFlight[j].id
            /\ inFlight[i].ts <= inFlight[j].ts

\* A tick begins its detectors with no backlog: each frame offered up to that
\* moment was refused by the channel or is in the buffer or gone through it,
\* and the ring holds none fresher than the one the tick takes, wherever its
\* index stands (docs/README.md:10: "Frame backlogs create stale inference").
NoBacklog ==
    [][(tick = "drain" /\ tick' = "run") =>
          /\ \A id \in 0 .. nextId - 1 : id \in dropped \cup ToSet(pushed)
          /\ \A f \in ToSet(Buffer!Contents) : f.ts <= latest'.ts]_vars

\* A slice returns each frame of its window once, in time order: the clip a
\* worker cuts is neither shuffled nor short, wherever the ring has wrapped and
\* whichever stamps are equal. A worker takes the mutex between two drains only;
\* that it holds within one as well is more than the code needs.
SliceExact ==
    \A start, end \in 0 .. MaxTime :
        LET out == Buffer!Slice(start, end) IN
        /\ ToSet(out) = {f \in ToSet(Buffer!Contents) :
                            start <= f.ts /\ f.ts <= end}
        /\ Len(out) = Cardinality(ToSet(out))
        /\ \A m, n \in DOMAIN out : m < n => out[m].ts <= out[n].ts

\* The ring holds the last Capacity frames whatever the wrap
\* (buffer.rs:27-30): a camera, a channel and a drain that use it implement a
\* sliding window over what they push.
KeepsLastFrames == Buffer!Window!Spec

\* A frame the channel accepted reaches the buffer.
Arrives ==
    \A id \in 0 .. MaxFrames - 1 :
        (\E i \in DOMAIN queue : queue[i].id = id) ~>
            (\E i \in DOMAIN pushed : pushed[i] = id)

\* What is dropped is stale: when a tick takes its frame, no newer frame has
\* been thrown away (docs/README.md:36: "Old frames are less valuable than
\* fresh frames. If the system falls behind, RVO drops stale work instead of
\* processing it late.").
DropsStale ==
    [][(tick = "drain" /\ tick' = "run") =>
          \A id \in dropped : id < latest'.id]_vars
=============================================================================
