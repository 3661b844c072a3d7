# RealTime Vision Orchestrator: TLA+ models and proofs

This directory holds a formal model of the orchestrator: TLA+ modules translated
from the Rust crates under `src/crates`, TLC configurations that check them on
small instances, and TLAPS proofs, for every instance, of every safety property the
passing runs check.

## 1. The system

One process. Threads: the camera, the main loop (the scheduler's ticks), one
worker per remote detector, the clip worker, the encoder, the event consumer,
the SIGHUP thread, the metrics server, and in `rvo-web` the HTTP server.

| Component | State | Operations | Interacts with |
|---|---|---|---|
| `rvo-camera` | frame id, frame in hand | read, stamp, `try_send` | camera channel (5) |
| `rvo-buffer` `FrameBuffer` | ring of 300 slots, write index | `push`, `newest_frame`, `newest_instant`, `slice` | scheduler and clip worker, one mutex |
| `rvo-signals` `SignalStore` | one slot per signal type: value, stamp, ttl | `upsert`, `get` | detectors write (through the scheduler), conditions and dependency gates read |
| `rvo-signals` `SignalRegistry` | global names of 8 custom signals | `register`, `lookup`, `get_name` | config validation, wiring, remote worker |
| `rvo-events` engine | one `State` per definition | `update` | reads the store at the tick's `now_ns` |
| `rvo-events` publisher | event channel (64), consumer thread | `publish`, log | scheduler, log file |
| `rvo-scheduler` | detectors, `DetectorRuntime` each, store, engine | `tick`, `add_detector`, `swap_runtime` | everything; one mutex around it |
| `rvo-remote` | mailbox, cached result, failure count, stop flag | `execute`, worker loop, `Drop` | scheduler thread, model service |
| `rvo-clips` | post-roll queue (16), encoder queue (8) | `on_event`, cut, encode | scheduler, frame buffer, disk |
| `rvo-config`, `rvo-bin` | none of their own | validate, build, reload | scheduler, registry |
| `rvo-metrics` | counters, latency histograms | increment, reset, snapshot, render | all |
| `rvo-web`, `rvo-tui` | node list; service lines | seed, add a node; menu, draw | scheduler mutex, configuration |
| `rvo-bench` `load_harness` | window marks, time series, `summary.csv` | run a plan of scenarios, sample, judge | scheduler, camera thread, metrics |

What is hard here: everything is sampled (an event is confirmed by ticks, not by
time); a tick works with one `now` while real time goes on; a result may be read
long after it was produced; queues drop; threads can end alone; a reload replaces
half of the state and keeps the other half. The list, with the source line where
each bites and the properties that would notice, is `hazards` in `PROJECT.json`.

What makes each part correct:

* events: an event is backed by an unbroken run of samples, events are a cooldown
  apart, no confirmed condition is missed, one `State` is memory enough;
* frame buffer: it is the last 300 frames, its newest is the newest, a slice is
  exact and in order;
* scheduler: rate cap, backoff and failure hold over any timing; events stop when
  their producers do; a tick ends;
* camera path: nothing is lost uncounted or overtaken, no backlog is left;
* remote detector: caching does not freshen, calls are paced, an outage is
  tolerated for a while, then bounded, then terminal; a dropped worker ends;
* configuration: a rejected file leaves the runtime as it was, a slot's name never
  changes under a running detector, no SIGHUP is lost, what a page or a screen lists
  is what runs;
* load harness: a scenario's numbers are its own, a reported loss is a loss;
* evidence: everything is accounted for, order survives drops, clips are whole.

## 2. Modules

```
Signals <- EventMachine <- EventEngine <- MCEventEngine
                  |            |  \-- implements ConfirmedEvents
                  \-- Scheduler <- MCScheduler
FrameBuffer -- implements SlidingWindow;  FrameIntake composes it with the camera
SlidingWindow -- the buffer EvidencePipeline uses
RemoteDetector            EvidencePipeline <- MCEvidencePipeline
Harness <- MCHarness
Reload <- MCReload
Selection: used by FrameBuffer, Reload, EvidencePipeline
X <- XProofs for X = EventEngine, Scheduler, FrameIntake, RemoteDetector,
                     EvidencePipeline, Reload, Harness, Selection
```

| Module | Stands for | Correspondence |
|---|---|---|
| `Signals` | `rvo-signals/store.rs`, `rvo-events/condition.rs` | operators on a store value; u64 additions saturate at `U64Max`. A read never overlaps a write (`&mut self`), so the version counter is left out |
| `EventMachine` | `EventMachine` of `engine.rs` | `Fires` is what `update` returns, `AfterUpdate` the state it leaves |
| `EventEngine` | `EventEngine::update` over a store and a clock | `Write` is an upsert of any signal, stamped now or earlier; `Update` runs every machine at one `now_ns`. `log` (history) has one entry per sample |
| `ConfirmedEvents` | what an event definition promises | no machine: decided from the whole past |
| `Selection` | - | `Select(s, T)`, the elements of a sequence that are in a set: `SelectSeq` as a recursive function, which the provers can unfold |
| `...Proofs` | - | the inductive invariants, lemmas and theorems of a module, section 5 |
| `FrameBuffer`, `SlidingWindow` | `rvo-buffer` | slots and write index; the abstract window. `FrameBuffer` has no behaviour of its own: `push` is called by the tick, so it is checked inside `FrameIntake`, on the frames that path can give it |
| `Scheduler` | `scheduler.rs` | one action per step of a tick: `BeginTick`, then per detector `Skip`, `RunFailed` or `RunOk`, then `EvaluateEvents`; `clock` is real time, `now` the tick's. `AddDetector` and `SwapRuntime` happen between ticks only, because a tick holds the scheduler's mutex. A detector whose `max_fps` gives no interval panics there (`Panic`), as may a print in a tick in which an event fires, and the mutex is poisoned |
| `FrameIntake` | `camera.rs`, the drain in `tick`, with `FrameBuffer` | camera thread (`Capture`, `Send`) against the drain loop (`Receive`, which pushes, and `Pick`). The loop holds the buffer's mutex: what steps in between is the camera, which needs the channel only |
| `RemoteDetector` | `rvo-remote/lib.rs` | `execute` in three steps (mailbox, count, result: three separate locks or atomics), `run_worker` step by step |
| `EvidencePipeline` | `publisher.rs`, `rvo-clips` | `Emit` is the hand-over in the tick; consumer, clip worker and encoder are processes. Every print of theirs and of the tick's may panic: `ticking`, `PublishPanics`, `ConsumerDies`, a branch of `Cut`, `EncoderDies` |
| `Reload` | `SignalRegistry`, `rvo-config`, `main.rs`, `runtime.rs`, `rvo-web.rs`, `rvo-tui.rs` | `Read`, `Check` (one entry of `validate`, registrations included), `Build`, `Swap`; the three programs start from the same file: `rvo-bin` reloads on SIGHUP, `rvo-web` seeds its list and adds nodes (`AddNode`, `ListNode`), `rvo-tui` lists, asks (`Menu`) and then builds; a tick may poison the scheduler's mutex (`TickPanics`), which `Swap` reports and which ends the program (`Ends`); the file and SIGHUP are the environment |
| `Harness` | `load_harness.rs`, `rvo-bench/lib.rs`, `Metrics` of `rvo-metrics` | the main thread line by line between its reads of shared counters (`WarmupEnds`, `Mark`, `Recapture`), `Tick`/`Receive`/`EndTick` as the scheduler; a camera thread per scenario (`TrySend`, then `Count`) that may outlive it |

Data is reduced to what the properties tell apart: a frame is its stamp and number,
a signal value one of a few numbers, an execution is any choice of duration,
health and signals. `add_detector` and `swap_runtime` take any detector, which is
more than the callers ever pass. Definitions whose comment says "Mutant of" are
faulty variants of the definition below them, never used by a specification; each
property is tested by putting one in.

## 3. Runs

| Run | Question | Result |
|---|---|---|
| `EventEngine` | two definitions, one confirmed over 2 with a cooldown of 1, one instant with a cooldown of 2, every timing of writes, ttls and up to four updates: is an event backed, spaced, never missed; does `Linked` hold; is `ConfirmedEvents` implemented | holds |
| `Scheduler` | an expensive frame detector and a cheap one depending on it, with failures, overruns, additions, reloads between two configurations, and a detector without an interval, whose first tick panics: gates over any timing, silence of stopped and removed detectors, end of ticks (fairness) | holds |
| `SchedulerCooldownKept` | does a cooldown survive a reload | no |
| `FrameIntake` | a channel of two, a ring of three, seven frames, equal stamps: accounting, order over ring, channel and hand, exact slices, the last frames kept, no backlog, arrival (fairness) | holds |
| `FrameIntakeDropsStale` | are the frames dropped the stale ones | no, the fresh ones |
| `RemoteDetector` | threshold 3, service and camera coming and going, every interleaving of execute and worker: freshness, pace, bounded failure; with fairness, is an outage terminal and does a dropped worker end | holds |
| `RemoteDetectorStoppedCamera` | is a stopped camera silent in the end | no, its last frame is inferred again and again |
| `EvidencePipeline` | two definitions, three events, queues of one and two slots, prints that panic, on any thread: accounting, order, directories; with fairness, does everything in flight settle | holds |
| `EvidenceClips` | nine frames through a ring of eight, two events in a row, a late worker: is a clip whole | holds |
| `EvidencePipelineOwnDirectory` | two definitions of one type: does each clip get its directory | no |
| `Reload` | two custom slots, six files (agreeing, rejected half-way, no longer fitting), edits and SIGHUPs at any moment, a detector on the command line, two nodes added in the browser, a tick or a report that panics, in each of the three programs: names against slots, the runtime against the last accepted file and the added nodes, lost signals, the list against what runs | holds |
| `Harness` | `--all` and two runs of an unknown name, a channel of one, a camera of four frames, files that fail: does a row speak of its own scenario only, is a reported loss one | holds |

The runs that end in a violation each quote, in `findings` of `PROJECT.json`, the
line of the repository that says otherwise.

### Bounds, and why they are enough

* Time is a small counter. In `EventEngine` it reaches `U64Max` itself (5), so
  that saturation happens; duration and cooldown fit twice below it, so that two
  confirmations and a cooldown in between do too.
* Updates are bounded by 4: two confirmed events need two samples each, sharing none.
* `Scheduler`: executions last 0 to 3, the interval is 1 and the overrun factor 2,
  so runs are within budget, at it and over it; the high backoff is 4, longer than
  the medium one and than the longest execution. Ttl 1 expires inside a tick.
* Queues of one or two slots are full, empty and between in every run; rings wrap.
* `RemoteDetector`: ages are capped just past the ttl and the longest tick, beyond
  which nothing distinguishes them; nothing else is bounded (the failure count is
  bounded by a property, `FailuresBounded`).
* `EvidencePipeline`: an event is emitted only while its post-roll ends within
  `MaxTime`, so that the end of modelled time cuts no job off. The worker's thread is
  at most `MaxDelay` late. The ASSUME relates ring size and clip length; with one
  slot less TLC finds a clip that has lost its first frame, when the newest frame is
  older than `Lag` at the event.
* `Reload`: three custom names compete for two slots; the files include one that is
  rejected after it has registered a name, and one that names a disabled detector.
* Times of a file that overflow are a value of their own (`huge`), since only that a build
  panics on them matters.
* `Harness`: time is in naps of the loop. A window of three naps holds one tick of a slow
  detector or three of a fast one, samples are due inside it, and four frames are more than
  three ticks can see, so that every arm of `validate_scenario` can judge either way. A
  camera's frames come at any moment, which covers every rate and every burst.
* No symmetry is used: definitions and signals differ in every instance.

`CHECK_DEADLOCK FALSE` is set where the system may come to rest: the buffer when no
frame comes any more, the evidence pipeline when no event does, the scheduler when its
mutex is poisoned, the harness when its process ends.

### Fairness

* `Scheduler!FairSpec`: weak fairness of a tick's steps. `main` calls `tick` in a loop
  and every detector returns (a remote one never blocks, by `RemoteDetector`); no
  fairness is asked of reloads, additions or sleep.
* `Scheduler!TickEnds` excepts a tick that panics, at a `max_fps` that is no rate or at a print
  in a tick in which an event fires: no fairness brings back a poisoned mutex.
* `FrameIntake!FairSpec`: the same loop; nothing is assumed of the camera.
* `RemoteDetector!FairSpec`: time passes, execute is called, the worker's own steps and
  timers run. The service is never assumed to answer or to fail. `EncodingSpec` adds
  that a frame can be encoded now and then, for the one property that counts calls.
* `EvidencePipeline!FairSpec`: each thread that is alive takes its steps; time passes.

## 4. Reading the results

`Sustained` and `NothingMissed` speak of samples. Between two ticks a signal may drop
and return unnoticed; "continuously" in the docs is "at every sample".

`QuietAfterStop` bounds how long a detector's last signal can produce events by its
ttl. It is about detectors that stop. A camera that stops is different: the newest
frame stays the newest (`FrameBuffer` never empties) and detectors go on reading it,
which `RemoteDetectorStoppedCamera` shows.

`DownIsTerminal` is about a worker that started. One that cannot build its runtime, or
whose endpoint does not parse, returns without touching the failure count
(`rvo-remote/lib.rs:220-239`): `execute` reports Ok without signals for ever. What does hold
then, and for frames that never encode, is part of `NeverFresherThanReply`: without a reply
there is no signal. It says no more of either than that silence.

`SliceExact` is checked after every turn of the drain loop. A worker takes the buffer's mutex
between two drains only (`scheduler.rs:134`), so the check asks more than the code needs.

`TickEnds`, `Accounted` and `Settles` allow for the prints: `println!` and `eprintln!` panic on
a closed stdout or stderr. A tick prints about an event it cannot hand over (`publisher.rs:26,29`)
and a clip it drops (`manager.rs:101,124`), outside `catch_unwind` and under the scheduler's mutex,
and a panic there ends it as a bad `max_fps` does; the event's clip, not yet offered, is in `clipsLost`.
The clip worker (`manager.rs:68,71`), the encoder and the consumer print too, and so does the
SIGHUP thread (`main.rs:99`). The prints of the camera, of a remote worker (`rvo-remote/lib.rs:282-295`)
and of startup are not modelled: a remote worker that ends so is one more that counts no failure.
`Scheduler` allows the panic in every tick with an event, `EvidencePipeline` says when it is.

`Isolated` allows the count of drops to be one off at either end of the window, since the
camera counts a refusal after it happened and `METRICS` is reset in between. It rests on
the camera of the last scenario having woken in the two seconds between scenarios
(`load_harness.rs:731`), against an interval of at most 33 ms: the model has `Pause` wait
for it. `LossIsReal` bounds the reported loss from above only, see below.

`WholeClips` excepts the frames taken within `Lag` of the end: the worker cuts when the
post-roll is over, and frames still in the camera channel then are not in the clip.

Seen while modelling, and not a property of any run:

* a tick works with one `now` (`scheduler.rs:143`): behind a slow detector, a dependent
  one of the same tick can execute on a signal that has expired meanwhile;
* a backoff is counted from the start of the tick that overran (`scheduler.rs:228`), so
  a detector slower than its backoff runs in every tick;
* an unwritten slot has stamp 0 and ttl 0, which `get` takes for fresh at nanosecond 0
  (`store.rs:237`);
* names are never given back: after eight custom names, those of rejected or replaced
  files included, `register` refuses (`store.rs:124`) a file a fresh start would accept;
* `name()` of a custom slot nobody registered is its Rust name, which `from_name` does
  not know, or takes for a signal registered under that name in another slot
  (`store.rs:62`); `RoundTrip` is about signals that have a name;
* a `max_fps` of zero, or so small that its interval overflows, passes `validate` and panics
  in the first tick (`scheduler.rs:163`), under the scheduler's mutex; `DEVELOPER_GUIDE.md:255` has
  "Invalid configs preserve the live runtime". `QuietAfterStop` and the gates hold up to
  the panic, `TickEnds` excepts it;
* times in milliseconds are multiplied by 1_000_000 unchecked (`runtime.rs:44,74,75`):
  with overflow checks the build panics, and in `rvo-bin` the reload thread is gone (as it is
  after a panic of its own print), so that later SIGHUPs do nothing; without, the time wraps and is short. The model has the panic;
* only `rvo-bin` installs the SIGHUP thread: in `rvo-web` and `rvo-tui` the file is read once;
* the error `rvo-web` answers for an unknown signal lists the built-in names, while names
  registered by the file are accepted as well;
* in the harness, `frame_loss_rate` compares totals: a burst that one tick drained loses
  frames even if ticks are as many as frames, so "every frame that arrived had a
  corresponding tick that could read it" (`load_harness.rs:401`) is true of steady cameras
  only. The overload arms compare with the configured rate, not the measured one;
* `run` appends to `summary.csv` "so multiple invocations accumulate"
  (`load_harness.rs:500`), `main` removes it first (`:684`), and a time series has no run in its
  name, so that `--runs` overwrites it;
* a clip whose directory cannot be created (`encoder.rs:44`), or whose queue is
  disconnected (`manager.rs:70`), is logged, but no counter moves: it is in
  `clipsLost` of `EvidencePipeline`, which `Accounted` adds up.

## 5. Proofs

Every invariant, action property and refinement that a passing run checks is a theorem,
for every value of the constants that the named assumptions allow: any number of
definitions, detectors, names, files, frames or scenarios, any capacity, rate and time.

| Module | Theorems (`Spec => []P`, an action property, or a refinement) |
|---|---|
| `EventEngineProofs` | `TypeCorrect`, `LinkedAlways`, `SpacingAlways`, `SustainedAlways`, `NothingMissedAlways`, `EngineImplementsPromise` (refinement of `ConfirmedEvents`) |
| `SchedulerProofs` | `TypeCorrect`; the actions `RateCappedHolds`, `StaysDisabledHolds`, `BackoffHonouredHolds`, `QuietAfterStopHolds` |
| `FrameIntakeProofs` | `TypeCorrect`, `AccountedHolds`, `InOrderHolds`, `SliceExactHolds`, `NoBacklogHolds` (action), `KeepsLastFramesHolds` (refinement of `SlidingWindow`) |
| `RemoteDetectorProofs` | `TypeCorrect`, `NeverFresherThanReplyHolds`, `FailuresBoundedHolds`; the actions `DispatchCappedHolds`, `BlipToleratedHolds` |
| `EvidencePipelineProofs` | `TypeCorrect`, `AccountedHolds`, `InOrderHolds`, `OwnDirectoryHolds`, `WholeClipsHolds` |
| `ReloadProofs` | `TypeCorrect`, `RoundTripHolds`, `LiveIsAcceptedHolds`, `NothingStaleHolds`, `ListedRunsHolds` |
| `HarnessProofs` | `TypeCorrect`, `IsolatedHolds`, `LossIsRealHolds` |
| `SelectionProofs` | what `Select` returns, and how it goes with `Append`, suffixes and maps |

### Assumptions

The ASSUME of each module, which TLC evaluates in its runs, and two hypotheses that are
written in the theorem itself, because the code does not enforce them:

* `QuietAfterStopHolds` assumes `Discerning`: every condition has a predicate, and none that
  the value 0 satisfies. A slot nobody wrote holds 0, stamp 0, ttl 0, and `get` takes it for
  fresh at nanosecond 0 (`store.rs:237`). `signal_threshold: 0` passes `validate`, and with it
  an event can fire at that instant without any detector, so the hypothesis cannot go.
* `OwnDirectoryHolds` assumes `TypesDiffer`: no two definitions have one event type. Nothing
  in the configuration asks for it, and without it the run `EvidencePipelineOwnDirectory`
  finds the clash.

Of the module assumptions two say more than a type. `EvidenceAssumption` has the ring outlast
a clip cut late (300 frames for five seconds at thirty a second); with one slot less
`WholeClips` can fail. `HarnessAssumption` has finitely many tick durations: the histogram
records from one nanosecond to a minute (`metrics.rs`), and a sum over its counts is finite
only then.

### The inductive invariants

None of the properties is inductive alone. Each proof module names what is missing, as a
conjunction `IInv`, and shows `Init => IInv`, `IInv /\ [Next]_vars => IInv'` with a step per
action, and that `IInv` gives the property.

* `EventEngine`: the properties speak of the log, the step decides from one `State`. `Linked`
  ties them: a definition is `Idle` only if its last sample did not hold and every cooldown is
  over, `Potential { start }` only if a run of samples from `start` can still confirm, in
  `Cooldown { until }` only if its last event says so. A step then appends what
  `ConfirmedEvents` would, which gives the refinement.
* `Scheduler`: the gates read runtimes and slots, the properties speak of history.
  `RuntimeKept`: each runtime holds what its detector's history says, and no run is in the
  future of the tick. `SlotsKept`: a slot is empty or was written by a detector that can, with
  its ttl and a stamp no later than its run.
* `FrameIntake`: `Shape` (the empty slots are those from the write index on, until the first
  wrap) makes `Contents` the unrolled ring; `Ordered(InFlight)` and `Past` order ring, channel
  and hand together against the clock; `Found` keeps every offered frame somewhere. `Slice` is
  a CHOOSE of the sorted enumeration of the slots found: that there is one, and one only, is
  proved, by induction over the number of slots.
* `RemoteDetector`: `Paced` ties the worker's timer to the time since its last call, `Silent`
  the failure count to the time since the last reply, `Draining` the failure count to what
  the call in flight, the mailbox and `execute` can still add once it is at the threshold.
* `EvidencePipeline`: `Hands` says who holds a job, `InLine` orders the numbers along the five
  places a clip can be, `Apart` keeps the lost from the kept, `Distinct` names an event by
  definition and instant. For whole clips, `Seen` (what left the ring is older than a full
  ring), `Anchored` and `Punctual` bound where the frames of a waiting job are, and a count
  finishes: a full ring newer than a frame of the clip would hold more frames than there are
  instants between that frame and the cut.
* `Reload`: `Unique` (a name is registered once) and that slots once resolved stay resolved
  (`Waiting`, `Running`), whatever is registered later; `Fresh` for the signals, as long as the
  thread is there; `Listing` for the list from the menu to the build and through the two halves
  of adding a node.
* `Harness`: `Cameras` (only the job's own camera counts anything), `Ticked` (as many ticks as
  durations recorded), `Dropped` and
  `Frames` (counters and history move together but for the answer a camera has and has not
  counted yet), `Series`, `Final`, `Judged`, and `File` for the rows of `summary.csv`.

The invariants `IInv` were model-checked on the instances of section 3 as well.

### Induction over data

The library's induction theorems take an operator and cannot be used by the provers here.
`NatSetInduction` and `SeqSetInduction` of `SelectionProofs` are induction over a set of numbers,
or of sequences, which they can: `Select`, the sums over a histogram in `HarnessProofs` and
the sorted enumeration of a slice are reasoned about with them. For that reason `Select` and
`Slice` are a recursive function and a CHOOSE instead of `SelectSeq` and `SetToSortSeq`. No
module uses a recursive operator.

### Only model-checked

The five liveness properties, `TickEnds`, `Arrives`, `DownIsTerminal`, `WorkerEnds` and
`Settles`: they rest on weak fairness, hence on ENABLED, which the prover does not reason
about. And the four violations: a counterexample is shown by a run.

## 6. What is not modelled

* `rvo-metrics`: the counters and gauges the harness does not read, `render_prometheus` and
  the metrics server: relaxed atomics read one by one into text. The buckets of
  `hdrhistogram` are a library's; the model keeps the values.
* `rvo-web` serves one request at a time on one thread. Its page, script and list of events
  are left out, as are the camera menu and the drawing of `rvo-tui`.
* `rvo-scenarios`, `rvo-testkit`: tests and test doubles; what they assert is covered where the
  parts are modelled. The doubles of the camera count every error of `try_send`, a closed
  channel included, as a drop: that is the mutant `DisconnectedCounts` of `Harness`.
* `rvo-core`, demo, SDKs, schemas: unused by the pipeline, or generated.
* Inside modelled parts: pixel data, JPEG and JSON content, log lines, the confidence of an
  event (a float for the log), the seqlock version of a slot.

## 7. Plan

Done: `Signals`, `EventMachine`, `EventEngine`; `FrameBuffer`; `Scheduler`; `FrameIntake`,
composed with `FrameBuffer`; `RemoteDetector`; `EvidencePipeline`; `Reload` for all three
programs; `Harness`; and the proofs of all their safety properties.

Next, in this order:

1. Proofs: liveness step by step as far as it goes without fairness (what a step of `Tick`
   or of a worker makes smaller), as action properties.
2. `Pipeline`: `RemoteDetector`'s signal through the store into an event machine (does a
   one-frame detection confirm when the ttl is longer than the duration), as a composition.
3. `SeqlockSlot`: the slot's protocol on its own, readers against one and several writers.
4. `SchedulerTimers`: liveness of a tick in relative time (an enabled detector keeps running).
