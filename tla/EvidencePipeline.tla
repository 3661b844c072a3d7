-------------------------- MODULE EvidencePipeline --------------------------
(***************************************************************************)
(* What becomes of a confirmed event (rvo-events/publisher.rs, rvo-clips): *)
(* the tick offers it to the event consumer and to the clip manager and    *)
(* never waits.  The consumer logs events in order.  The clip worker takes *)
(* one pending job at a time, sleeps until its post-roll is over, cuts the *)
(* frames out of the shared buffer and offers them to the encoder, which   *)
(* writes a directory.  All three queues are bounded and drop.             *)
(*                                                                         *)
(* A frame is the instant it was taken, at most one per instant; it is     *)
(* drained into the buffer up to Lag later (FrameIntake).  The buffer is   *)
(* the SlidingWindow that FrameBuffer implements.  Any of the threads may  *)
(* end, the tick's included: a print to a closed stdout or stderr panics.  *)
(* Its queue goes with it.  rvo-bin ends with its tick; in rvo-web and     *)
(* rvo-tui the other threads go on.                                        *)
(*                                                                         *)
(* emitted, seen, eventsLost and clipsLost are history variables.          *)
(***************************************************************************)
EXTENDS Integers, Sequences, SequencesExt, FiniteSets, Selection

CONSTANTS
    Def,            \* event definitions
    TypeOf,         \* the event_type each is configured with
    Before, After,  \* 3 s and 2 s
    Capacity,       \* of the frame buffer (300)
    EventCap,       \* of the event channel (64)
    PENDING_CAP,    \* 16
    EncoderCap,     \* of the encoder channel (8)
    Lag,            \* bound: from a frame being taken to its being drained
    MaxDelay,       \* bound: how late the clip worker's thread is scheduled
    MaxTime,        \* bound: the clock
    MaxEvents,      \* bound: events
    MayDie          \* whether a print may panic

ASSUME EvidenceAssumption ==
    /\ \A n \in {Before, After, Lag, MaxDelay, MaxTime, MaxEvents} : n \in Nat
    /\ \A n \in {EventCap, PENDING_CAP, EncoderCap} : n \in Nat \ {0}
    /\ DOMAIN TypeOf = Def
    /\ MayDie \in BOOLEAN
    \* the buffer outlasts a clip, cut late, of an event whose anchor was the
    \* last frame for longer than Lag: 300 frames for 5 s at 30 per second
    /\ Capacity \in Nat
    /\ Capacity > Before + After + Lag + MaxDelay + 1

VARIABLES
    clock,
    ticking,        \* whether the scheduler's thread runs
    window,         \* the frame buffer, oldest frame first
    emitted,        \* the events so far: [def, ts]; their index names them
    eventQueue,     \* the event channel
    consumer,       \* whether the event consumer's thread runs
    logged,         \* events written to the log
    eventDrops,     \* METRICS.event_drops
    pending,        \* the post-roll queue
    worker,         \* the clip worker: "recv", "sleep" or "gone"
    job,            \* the job it sleeps for
    encoderQueue,   \* the encoder channel: [id, start, end, frames]
    encoder,        \* "recv", "busy" or "gone"
    clip,           \* the clip it encodes
    written,        \* clips written, in order
    clipDrops,      \* METRICS.clip_drops
    seen,           \* history: every frame drained
    eventsLost,     \* history: events lost without a count
    clipsLost       \* history: clips lost without a count

events == <<ticking, emitted, eventQueue, consumer, logged, eventDrops, eventsLost>>
cutting == <<pending, worker, job>>
encoding == <<encoderQueue, encoder, clip, written>>
filming == <<clock, window, seen>>
vars == <<filming, events, cutting, encoding, clipDrops, clipsLost>>

Instant == -Before .. MaxTime + After
Id == 1 .. MaxEvents
Job == [id : Id, start : Instant, end : Instant, fireAt : Instant]
Clip == [id : Id, start : Instant, end : Instant, frames : Seq(0 .. MaxTime)]
NoJob == [id |-> 0]

Frame == 0 .. MaxTime

Buffer == INSTANCE SlidingWindow

TypeOK ==
    /\ clock \in 0 .. MaxTime
    /\ ticking \in BOOLEAN
    /\ window \in Seq(Frame) /\ Len(window) <= Capacity
    /\ emitted \in Seq([def : Def, ts : 0 .. MaxTime])
    /\ eventQueue \in Seq(Id) /\ Len(eventQueue) <= EventCap
    /\ consumer \in BOOLEAN
    /\ logged \in Seq(Id)
    /\ eventDrops \in 0 .. MaxEvents
    /\ pending \in Seq(Job) /\ Len(pending) <= PENDING_CAP
    /\ worker \in {"recv", "sleep", "gone"}
    /\ job \in Job \cup {NoJob}
    /\ encoderQueue \in Seq(Clip) /\ Len(encoderQueue) <= EncoderCap
    /\ encoder \in {"recv", "busy", "gone"}
    /\ clip \in Clip \cup {NoJob}
    /\ written \in Seq(Clip)
    /\ clipDrops \in 0 .. MaxEvents
    /\ seen \subseteq Frame
    /\ eventsLost \subseteq Id
    /\ clipsLost \subseteq Id

Init ==
    /\ clock = 0
    /\ ticking = TRUE
    /\ window = << >>
    /\ emitted = << >>
    /\ eventQueue = << >>
    /\ consumer \in {TRUE, ~MayDie}  \* its first print is about the log file
    /\ logged = << >>
    /\ eventDrops = 0
    /\ pending = << >>
    /\ worker = "recv"
    /\ job = NoJob
    /\ encoderQueue = << >>
    /\ encoder = "recv"
    /\ clip = NoJob
    /\ written = << >>
    /\ clipDrops = 0
    /\ seen = {}
    /\ eventsLost = {}
    /\ clipsLost = {}

Ids(queue) == {queue[i].id : i \in DOMAIN queue}

-----------------------------------------------------------------------------
\* The worker has a job whose post-roll has been over for MaxDelay.
Overdue ==
    \/ worker = "sleep" /\ clock >= job.fireAt + MaxDelay
    \/ worker = "recv" /\ pending # << >> /\ clock >= pending[1].fireAt + MaxDelay

Advance ==
    /\ clock < MaxTime
    /\ ~Overdue
    /\ clock' = clock + 1
    /\ UNCHANGED <<window, events, cutting, encoding, seen, clipDrops, clipsLost>>

\* The tick drains a frame taken at ts.
Drain(ts) ==
    /\ ticking
    /\ ts \notin seen /\ \A t \in seen : t < ts
    /\ clock - Lag <= ts /\ ts <= clock
    /\ Buffer!Push(ts)
    /\ seen' = seen \cup {ts}
    /\ UNCHANGED <<clock, events, cutting, encoding, clipDrops, clipsLost>>

-----------------------------------------------------------------------------
(* The tick, for each confirmed event *)

\* EventPublisher::publish.
Publish(id) ==
    \/ /\ consumer
       /\ Len(eventQueue) < EventCap
       /\ eventQueue' = Append(eventQueue, id)
       /\ UNCHANGED <<eventDrops, eventsLost>>
    \/ /\ consumer
       /\ Len(eventQueue) = EventCap
       /\ eventDrops' = eventDrops + 1
       /\ UNCHANGED <<eventQueue, eventsLost>>
    \/ /\ ~consumer
       /\ eventsLost' = eventsLost \cup {id}
       /\ UNCHANGED <<eventQueue, eventDrops>>

\* Mutant of JobFor: the worker may cut at once.
JobForAtOnce(id) ==
    [id |-> id, start |-> Last(window) - Before, end |-> Last(window) + After,
     fireAt |-> clock]

\* The job on_event makes, anchored to the newest frame of the buffer.
JobFor(id) ==
    [id |-> id, start |-> Last(window) - Before, end |-> Last(window) + After,
     fireAt |-> clock + After]

\* Mutant of OnEvent: a full queue is not counted.
OnEventUncounted(id) ==
    IF window # << >> /\ worker # "gone"
    THEN /\ pending' = IF Len(pending) < PENDING_CAP
                       THEN Append(pending, JobFor(id)) ELSE pending
         /\ UNCHANGED <<ticking, clipDrops, clipsLost>>
    ELSE clipDrops' = clipDrops + 1 /\ UNCHANGED <<ticking, pending, clipsLost>>

\* Mutant of OnEvent: the newest job goes first.
OnEventNewestFirst(id) ==
    IF window # << >> /\ worker # "gone" /\ Len(pending) < PENDING_CAP
    THEN /\ pending' = <<JobFor(id)>> \o pending
         /\ UNCHANGED <<ticking, clipDrops, clipsLost>>
    ELSE clipDrops' = clipDrops + 1 /\ UNCHANGED <<ticking, pending, clipsLost>>

\* Mutant of OnEvent: the queue has no bound.
OnEventUnbounded(id) ==
    IF window # << >> /\ worker # "gone"
    THEN /\ pending' = Append(pending, JobFor(id))
         /\ UNCHANGED <<ticking, clipDrops, clipsLost>>
    ELSE clipDrops' = clipDrops + 1 /\ UNCHANGED <<ticking, pending, clipsLost>>

\* ClipManager::on_event.  What it drops it counts, and then prints about.  (For
\* want of frames it prints with the buffer's lock in hand: the worker would
\* find it poisoned, but nothing is pending before the first frame.)
OnEvent(id) ==
    \/ /\ window = << >> \/ (worker # "gone" /\ Len(pending) = PENDING_CAP)
       /\ clipDrops' = clipDrops + 1
       /\ ticking' \in {TRUE, ~MayDie}
       /\ UNCHANGED <<pending, clipsLost>>
    \/ /\ window # << >>
       /\ worker # "gone" /\ Len(pending) < PENDING_CAP
       /\ pending' = Append(pending, JobFor(id))
       /\ UNCHANGED <<ticking, clipDrops, clipsLost>>
    \/ /\ window # << >>
       /\ worker = "gone"
       /\ clipsLost' = clipsLost \cup {id}
       /\ UNCHANGED <<ticking, pending, clipDrops>>

\* publish prints about an event that it could not hand over, and the tick
\* never gets to on_event.
PublishPanics(id) ==
    /\ MayDie
    /\ Publish(id)
    /\ eventQueue' = eventQueue
    /\ ticking' = FALSE
    /\ clipsLost' = clipsLost \cup {id}
    /\ UNCHANGED <<pending, clipDrops>>

\* Scheduler::tick hands on an event of definition d; two definitions can fire
\* in the same tick, one definition cannot fire twice in it.
Emit(d) ==
    LET id == Len(emitted) + 1 IN
    /\ ticking
    /\ id <= MaxEvents
    /\ clock + After <= MaxTime
    /\ [def |-> d, ts |-> clock] \notin ToSet(emitted)
    /\ emitted' = Append(emitted, [def |-> d, ts |-> clock])
    /\ \/ Publish(id) /\ OnEvent(id)
       \/ PublishPanics(id)
    /\ UNCHANGED <<filming, consumer, logged, worker, job, encoding>>

-----------------------------------------------------------------------------
(* The event consumer *)

Log ==
    /\ consumer
    /\ eventQueue # << >>
    /\ logged' = Append(logged, Head(eventQueue))
    /\ eventQueue' = Tail(eventQueue)
    /\ UNCHANGED <<filming, ticking, emitted, consumer, eventDrops, eventsLost,
                   cutting, encoding, clipDrops, clipsLost>>

\* Its print panics: the event in hand and the queue are gone.
ConsumerDies ==
    /\ MayDie
    /\ consumer
    /\ eventQueue # << >>
    /\ consumer' = FALSE
    /\ eventsLost' = eventsLost \cup ToSet(eventQueue)
    /\ eventQueue' = << >>
    /\ UNCHANGED <<filming, ticking, emitted, logged, eventDrops, cutting,
                   encoding, clipDrops, clipsLost>>

-----------------------------------------------------------------------------
(* The clip worker *)

TakeJob ==
    /\ worker = "recv"
    /\ pending # << >>
    /\ job' = Head(pending)
    /\ pending' = Tail(pending)
    /\ worker' = "sleep"
    /\ UNCHANGED <<filming, events, encoding, clipDrops, clipsLost>>

\* FrameBuffer::slice of the job's window.
CutClip ==
    [id |-> job.id, start |-> job.start, end |-> job.end,
     frames |-> Select(window, job.start .. job.end)]

\* Mutant of Cut: a clip the encoder does not take is offered again.
CutRetries ==
    /\ worker = "sleep"
    /\ clock >= job.fireAt
    /\ encoder # "gone" /\ Len(encoderQueue) < EncoderCap
    /\ encoderQueue' = Append(encoderQueue, CutClip)
    /\ worker' = "recv"
    /\ job' = NoJob
    /\ UNCHANGED <<filming, events, pending, encoder, clip, written, clipDrops,
                   clipsLost>>

\* The post-roll is over: slice, and offer the clip to the encoder.  A clip it
\* has no room for is counted; the print about it may end the worker.
Cut ==
    /\ worker = "sleep"
    /\ clock >= job.fireAt
    /\ \/ /\ encoder # "gone" /\ Len(encoderQueue) < EncoderCap
          /\ encoderQueue' = Append(encoderQueue, CutClip)
          /\ worker' = "recv"
          /\ UNCHANGED <<pending, clipDrops, clipsLost>>
       \/ /\ encoder # "gone" /\ Len(encoderQueue) = EncoderCap
          /\ clipDrops' = clipDrops + 1
          /\ worker' = "recv"
          /\ UNCHANGED <<pending, encoderQueue, clipsLost>>
       \/ /\ encoder # "gone" /\ Len(encoderQueue) = EncoderCap
          /\ MayDie
          /\ clipDrops' = clipDrops + 1
          /\ worker' = "gone"
          /\ clipsLost' = clipsLost \cup Ids(pending)
          /\ pending' = << >>
          /\ UNCHANGED encoderQueue
       \/ /\ encoder = "gone"
          /\ clipsLost' = clipsLost \cup {job.id} \cup Ids(pending)
          /\ pending' = << >>
          /\ worker' = "gone"
          /\ UNCHANGED <<encoderQueue, clipDrops>>
    /\ job' = NoJob
    /\ UNCHANGED <<filming, events, encoder, clip, written>>

-----------------------------------------------------------------------------
(* The encoder *)

\* Mutant of Directory: named by the event's type alone.
DirectoryByType(c) == TypeOf[emitted[c.id].def]

\* {event_type}_{event_ts_ns}
Directory(c) == <<TypeOf[emitted[c.id].def], emitted[c.id].ts>>

TakeClip ==
    /\ encoder = "recv"
    /\ encoderQueue # << >>
    /\ clip' = Head(encoderQueue)
    /\ encoderQueue' = Tail(encoderQueue)
    /\ encoder' = "busy"
    /\ UNCHANGED <<filming, events, cutting, written, clipDrops, clipsLost>>

\* create_dir_all fails: on to the next clip.
CreateFails ==
    /\ encoder = "busy"
    /\ clipsLost' = clipsLost \cup {clip.id}
    /\ clip' = NoJob
    /\ encoder' = "recv"
    /\ UNCHANGED <<filming, events, cutting, encoderQueue, written, clipDrops>>

\* The frames and meta.json are written, as far as they can be.
WriteClip ==
    /\ encoder = "busy"
    /\ written' = Append(written, clip)
    /\ clip' = NoJob
    /\ encoder' = "recv"
    /\ UNCHANGED <<filming, events, cutting, encoderQueue, clipDrops, clipsLost>>

\* A print panics: the last one, with the clip written, or one about a failure
\* before it is; the queue is gone.
EncoderDies ==
    /\ MayDie
    /\ encoder = "busy"
    /\ \/ /\ written' = Append(written, clip)
          /\ clipsLost' = clipsLost \cup Ids(encoderQueue)
       \/ /\ clipsLost' = clipsLost \cup {clip.id} \cup Ids(encoderQueue)
          /\ UNCHANGED written
    /\ clip' = NoJob
    /\ encoder' = "gone"
    /\ encoderQueue' = << >>
    /\ UNCHANGED <<filming, events, cutting, clipDrops>>

Encode == TakeClip \/ CreateFails \/ WriteClip \/ EncoderDies

Next ==
    \/ Advance
    \/ \E ts \in Frame : Drain(ts)
    \/ \E d \in Def : Emit(d)
    \/ Log \/ ConsumerDies
    \/ TakeJob \/ Cut
    \/ Encode

Spec == Init /\ [][Next]_vars

\* Time passes and each of the three threads takes the steps it can take.
FairSpec ==
    /\ Spec
    /\ WF_vars(Advance)
    /\ WF_vars(Log \/ ConsumerDies)
    /\ WF_vars(TakeJob) /\ WF_vars(Cut)
    /\ WF_vars(Encode)

-----------------------------------------------------------------------------
(* Properties *)

Busy(flag) == IF flag THEN 1 ELSE 0

\* Every event is logged, queued, counted in event_drops or lost with a dead
\* thread; every clip is somewhere in the pipeline, written, counted in
\* clip_drops or lost: nothing vanishes between threads or counts twice.
Accounted ==
    /\ Len(emitted) =
          eventDrops + Len(eventQueue) + Len(logged) + Cardinality(eventsLost)
    /\ Len(emitted) =
          clipDrops + Len(pending) + Busy(worker = "sleep") + Len(encoderQueue)
          + Busy(encoder = "busy") + Len(written) + Cardinality(clipsLost)

\* Evidence keeps the order of the events, whatever was dropped: along the
\* written clips, the encoder, its queue, the worker and the pending jobs, and
\* along the log and the event queue.
Of(record) == IF record = NoJob THEN << >> ELSE <<record>>

InOrder ==
    LET clips == written \o Of(clip) \o encoderQueue \o Of(job) \o pending
        log == logged \o eventQueue
    IN  /\ \A i, j \in DOMAIN clips : i < j => clips[i].id < clips[j].id
        /\ \A i, j \in DOMAIN log : i < j => log[i] < log[j]

\* A clip is whole: it holds every frame of its window the scheduler ever
\* drains, except for frames taken within Lag of its end, which may be drained
\* after the cut.  The worker neither cuts before the post-roll is over nor
\* after the ring has overwritten the pre-roll (manager.rs:52-62, main.rs:163).
WholeClips ==
    \A c \in ToSet(written) \cup ToSet(encoderQueue) :
        {ts \in seen : c.start <= ts /\ ts < c.end - Lag} \subseteq ToSet(c.frames)

InFlight(id) ==
    \/ id \in Ids(pending) \cup Ids(encoderQueue) \cup ToSet(eventQueue)
    \/ job.id = id
    \/ clip.id = id

\* Everything in flight is settled, whichever of the threads is dead.
Settles == \A id \in Id : InFlight(id) ~> ~InFlight(id)

\* Each clip gets a directory of its own (encoder.rs:16: "For each incoming job,
\* creates a directory").
OwnDirectory ==
    \A i, j \in DOMAIN written :
        i # j => Directory(written[i]) # Directory(written[j])
=============================================================================
