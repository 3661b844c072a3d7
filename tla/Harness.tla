------------------------------ MODULE Harness ------------------------------
(***************************************************************************)
(* The load harness (rvo-bench) over the global counters (rvo-metrics):    *)
(* a plan of scenarios, one after the other in one process.  Each builds a *)
(* scheduler, spawns a camera thread that offers frames until the channel  *)
(* is closed, and ticks through a warm-up and a measured window; METRICS,  *)
(* which all threads share, is reset between the two.  The counters are    *)
(* sampled into a time series, a row goes to summary.csv, and the scenario *)
(* is judged by its row.                                                   *)
(*                                                                         *)
(* Time is counted in naps of the loop (500 us) and passes in ticks and    *)
(* naps; the camera offers a frame at any moment.  Of METRICS the model    *)
(* has scheduler_ticks, frame_drops and tick_ns; the counters that only    *)
(* the tick writes behave as the first.  A frame in the channel is when it *)
(* was sent: in the warm-up or in the window.                              *)
(*                                                                         *)
(* truth, rows, woke and stale are history variables.                      *)
(***************************************************************************)
EXTENDS Integers, SequencesExt

\* ALL_SCENARIOS, in order, and a name that is none of them.
ALL_SCENARIOS ==
    <<"baseline", "inproc_low", "blocking_1ms", "blocking_3ms",
      "blocking_10ms", "blocking_50ms", "load_shed", "overload_threshold",
      "overload_moderate", "overload_severe", "fps_1000", "fps_2000",
      "fps_5000">>

Unknown == "unknown"
Scenario == Range(ALL_SCENARIOS) \cup {Unknown}

CONSTANTS
    Clis,           \* command lines: the fields all, scenario and runs
    CameraFps,      \* frames per nap of each scenario's camera
    Took,           \* durations of a tick with each scenario's detectors
    SleepMs,        \* detector_sleep_ms of each scenario, in naps
    QueueCap,       \* capacity of the frame channel (64)
    Warmup, Duration, SampleInterval,
    MinTicks,       \* ticks load_shed must reach (5000)
    MaxFrames       \* bound: frames offered by one camera

ASSUME HarnessAssumption ==
    /\ Clis \subseteq [all : BOOLEAN, scenario : Scenario, runs : Nat]
    /\ CameraFps \in [Scenario -> Nat]
    \* the histogram records from 1 ns to 60 s
    /\ Took \in [Scenario -> SUBSET Nat]
    /\ IsFiniteSet(UNION {Took[s] : s \in Scenario})
    /\ SleepMs \in [Scenario -> Nat]
    /\ QueueCap \in Nat \ {0}
    /\ Warmup \in Nat
    /\ Duration \in Nat \ {0}
    /\ SampleInterval \in Nat
    /\ MinTicks \in Nat
    /\ MaxFrames \in Nat

VARIABLES
    plan, job,      \* the scenarios to run, and which one is on
    phase,          \* where the main thread is
    summary,        \* summary.csv: its rows' scenarios, or Absent
    metrics,        \* METRICS: ticks, drops, hist
    camera,         \* per job: "none", "ready", "sent", "full" or "gone"
    offered,        \* frames the job's camera has offered
    queue,          \* the frame channel of the job
    newest,         \* the frame the running tick drained last, or Nothing
    framesSent,     \* the job's counter of frames sent
    elapsed,        \* start.elapsed()
    inWarmup, framesAtWarmupEnd, lastSample, lastCounters,
    final,          \* final_counters and final_hist
    row,            \* the row written, with the loss and the verdict
    truth,          \* history: what happened since the window began
    rows,           \* history: sums of the time series
    woke,           \* history: the last job's camera woke since it was over
    stale           \* history: rows of an earlier invocation are there

main == <<plan, job, summary>>
thread == <<camera, offered, woke>>
channel == <<queue, newest, framesSent>>
window == <<elapsed, inWarmup, framesAtWarmupEnd, lastSample, lastCounters>>
results == <<final, row, rows, stale>>

vars == <<main, phase, metrics, thread, channel, window, results, truth>>

Absent == <<"absent">>
Stale == "stale"
Nothing == "nothing"

scenario == plan[job]

\* main: one scenario or all of them, as often as --runs says.
Plan(cli) ==
    FlattenSeq([r \in 1 .. Max({cli.runs, 1}) |->
                  IF cli.all THEN ALL_SCENARIOS ELSE <<cli.scenario>>])

Tooks == UNION {Took[s] : s \in Scenario}

\* The counters and the histogram after METRICS.reset().
NoMetrics == [ticks |-> 0, drops |-> 0, hist |-> [t \in Tooks |-> 0]]

NoTruth == [ticks |-> 0, sent |-> 0, taken |-> 0, refused |-> 0]
NoRows == [ticks |-> 0, drops |-> 0]
NoRow == [frames |-> 0, loss |-> 0, verdict |-> "NONE"]

\* CounterSnapshot::capture(), of the counters the model has.
Snapshot(m) == [ticks |-> m.ticks, drops |-> m.drops]

Counters == [ticks : Nat, drops : Nat]
Metrics == [ticks : Nat, drops : Nat, hist : [Tooks -> Nat]]

\* The model's own consistency: counters are naturals, the channel is
\* bounded, and the marks of the window lie within it.
TypeOK ==
    /\ plan \in Seq(Scenario) /\ job \in DOMAIN plan
    /\ phase \in {"clear", "open", "begin", "tick", "drain", "look", "mark",
                  "recapture", "final", "write", "validate", "pause", "exit"}
    /\ summary \in Seq(Scenario \cup {Stale}) \cup {Absent}
    /\ metrics \in Metrics
    /\ camera \in [DOMAIN plan -> {"none", "ready", "sent", "full", "gone"}]
    /\ offered \in 0 .. MaxFrames
    /\ queue \in Seq({"warm-up", "window"}) /\ Len(queue) <= QueueCap
    /\ newest \in {"warm-up", "window", Nothing}
    /\ framesSent \in 0 .. offered /\ framesAtWarmupEnd \in 0 .. framesSent
    /\ elapsed \in Nat /\ lastSample \in 0 .. elapsed
    /\ inWarmup \in BOOLEAN
    /\ lastCounters \in Counters /\ final \in Metrics
    /\ row \in [frames : Nat, loss : Nat,
                verdict : {"NONE", "OK", "WARN", "NOTE", "FAIL"}]
    /\ truth \in [ticks : Nat, sent : Nat, taken : Nat, refused : Nat]
    /\ rows \in Counters
    /\ woke \in BOOLEAN /\ stale \in BOOLEAN

Init ==
    /\ plan \in {Plan(cli) : cli \in Clis} /\ job = 1
    /\ phase = "clear"
    /\ summary \in {Absent, <<Stale>>}
    /\ metrics = NoMetrics
    /\ camera = [j \in DOMAIN plan |-> "none"]
    /\ offered = 0
    /\ queue = << >> /\ newest = Nothing
    /\ framesSent = 0 /\ framesAtWarmupEnd = 0
    /\ elapsed = 0 /\ lastSample = 0
    /\ inWarmup = TRUE
    /\ lastCounters = NoRows /\ final = NoMetrics
    /\ row = NoRow
    /\ truth = NoTruth
    /\ rows = NoRows
    /\ woke = FALSE /\ stale = FALSE

-----------------------------------------------------------------------------
(***************************************************************************)
(* The main thread.                                                        *)
(***************************************************************************)
\* main: a summary of an earlier invocation is removed; that it could not be
\* is a warning.
ClearSummary ==
    /\ phase = "clear" /\ phase' = "open"
    /\ \/ summary' = Absent /\ stale' = FALSE
       \/ summary # Absent /\ summary' = summary /\ stale' = TRUE
    /\ UNCHANGED <<plan, job, metrics, thread, channel, window, final, row,
                   rows, truth>>

\* run: summary.csv is appended to, or created; METRICS.reset(); a channel
\* and a scheduler of its own, and a camera thread. The locals of run start.
StartRun ==
    /\ phase = "open" /\ phase' = "begin"
    /\ summary' = IF summary = Absent THEN << >> ELSE summary
    /\ metrics' = NoMetrics
    /\ camera' = [camera EXCEPT ![job] = "ready"]
    /\ offered' = 0 /\ woke' = FALSE
    /\ queue' = << >> /\ newest' = Nothing /\ framesSent' = 0
    /\ final' = NoMetrics /\ rows' = NoRows
    /\ elapsed' = 0 /\ lastSample' = 0 /\ lastCounters' = NoRows
    /\ inWarmup' = TRUE /\ framesAtWarmupEnd' = 0
    /\ truth' = NoTruth
    /\ UNCHANGED <<plan, job, row, stale>>

Begin ==
    /\ phase = "begin" /\ phase' = "tick"
    /\ lastCounters' = Snapshot(metrics)
    /\ UNCHANGED <<main, metrics, thread, channel, elapsed, inWarmup,
                   framesAtWarmupEnd, lastSample, results, truth>>

\* scheduler.tick() begins to drain the channel.
Tick ==
    /\ phase = "tick" /\ phase' = "drain"
    /\ newest' = Nothing
    /\ UNCHANGED <<main, metrics, thread, queue, framesSent, window, results,
                   truth>>

\* It takes one frame after the other while the camera goes on.
Receive ==
    /\ phase = "drain" /\ queue # << >>
    /\ newest' = Head(queue) /\ queue' = Tail(queue)
    /\ UNCHANGED <<main, phase, metrics, thread, framesSent, window, results,
                   truth>>

\* It finds the channel empty, counts itself, runs the detectors and records
\* how long it took; then the loop naps.  (Between the count and the record
\* nobody reads either: only the main thread, which is in here, does.)
EndTick(took) ==
    /\ phase = "drain" /\ queue = << >> /\ phase' = "look"
    /\ metrics' = [metrics EXCEPT !.ticks = @ + 1, !.hist[took] = @ + 1]
    /\ elapsed' = elapsed + took + 1
    /\ truth' = [truth EXCEPT !.ticks = @ + 1,
                              !.taken = IF newest = "window" THEN @ + 1 ELSE @]
    /\ UNCHANGED <<main, thread, channel, inWarmup, framesAtWarmupEnd,
                   lastSample, lastCounters, results>>

\* The end of the warm-up, in three steps the camera may come between:
\* METRICS.reset(), the camera's counter read, the counters captured.
WarmupEnds ==
    /\ phase = "look" /\ inWarmup /\ elapsed >= Warmup /\ phase' = "mark"
    /\ inWarmup' = FALSE
    /\ metrics' = NoMetrics
    /\ truth' = NoTruth
    /\ UNCHANGED <<main, thread, channel, elapsed, framesAtWarmupEnd,
                   lastSample, lastCounters, results>>

Mark ==
    /\ phase = "mark" /\ phase' = "recapture"
    /\ framesAtWarmupEnd' = framesSent
    /\ UNCHANGED <<main, metrics, thread, channel, elapsed, inWarmup,
                   lastSample, lastCounters, results, truth>>

Recapture ==
    /\ phase = "recapture" /\ phase' = "look"
    /\ lastSample' = elapsed /\ lastCounters' = Snapshot(metrics)
    /\ UNCHANGED <<main, metrics, thread, channel, elapsed, inWarmup,
                   framesAtWarmupEnd, results, truth>>

\* The conditions of the loop, in the code's order.
AtWarmupEnd == inWarmup /\ elapsed >= Warmup
AtEnd == ~AtWarmupEnd /\ elapsed >= Warmup + Duration
SampleDue ==
    /\ ~inWarmup /\ ~AtEnd
    /\ elapsed - lastSample >= SampleInterval

\* Mutant of Sample: the next row is not relative to this one.
SampleKeepsBase ==
    /\ phase = "look" /\ SampleDue /\ phase' = "tick"
    /\ rows' = [c \in DOMAIN rows |->
                   rows[c] + Max({Snapshot(metrics)[c] - lastCounters[c], 0})]
    /\ lastSample' = elapsed
    /\ UNCHANGED <<main, metrics, thread, channel, elapsed, inWarmup,
                   framesAtWarmupEnd, lastCounters, final, row, stale, truth>>

\* A row of the time series: the saturating differences.
Sample ==
    /\ phase = "look" /\ SampleDue /\ phase' = "tick"
    /\ rows' = [c \in DOMAIN rows |->
                   rows[c] + Max({Snapshot(metrics)[c] - lastCounters[c], 0})]
    /\ lastCounters' = Snapshot(metrics) /\ lastSample' = elapsed
    /\ UNCHANGED <<main, metrics, thread, channel, elapsed, inWarmup,
                   framesAtWarmupEnd, final, row, stale, truth>>

GoOn ==
    /\ phase = "look" /\ ~AtWarmupEnd /\ ~AtEnd /\ ~SampleDue
    /\ phase' = "tick"
    /\ UNCHANGED <<main, metrics, thread, channel, window, results, truth>>

\* The loop is left; final_hist and final_counters.
CaptureFinal ==
    /\ phase = "look" /\ AtEnd /\ phase' = "write"
    /\ final' = metrics
    /\ UNCHANGED <<main, metrics, thread, channel, window, row, rows, stale,
                   truth>>

FramesInWindow == Max({framesSent - framesAtWarmupEnd, 0})

\* Mutants of WriteRow: the frames of the warm-up are in; the row replaces
\* the others.
WriteRowWholeRun ==
    /\ phase = "write" /\ phase' = "validate"
    /\ row' = [row EXCEPT !.frames = framesSent,
                          !.loss = Max({framesSent - final.ticks, 0})]
    /\ summary' = Append(summary, scenario)
    /\ UNCHANGED <<plan, job, metrics, thread, channel, window, final, rows,
                   stale, truth>>

WriteRowTruncates ==
    /\ phase = "write" /\ phase' = "validate"
    /\ row' = [row EXCEPT !.frames = FramesInWindow,
                          !.loss = Max({FramesInWindow - final.ticks, 0})]
    /\ summary' = <<scenario>>
    /\ UNCHANGED <<plan, job, metrics, thread, channel, window, final, rows,
                   stale, truth>>

\* The summary row. Rates are per second of the measured window, so that the
\* frames and the ticks compare as they are.
WriteRow ==
    /\ phase = "write" /\ phase' = "validate"
    /\ row' = [row EXCEPT !.frames = FramesInWindow,
                          !.loss = Max({FramesInWindow - final.ticks, 0})]
    /\ summary' = Append(summary, scenario)
    /\ UNCHANGED <<plan, job, metrics, thread, channel, window, final, rows,
                   stale, truth>>

\* The p50 of a histogram: the least value half of the samples do not exceed.
P50(hist) ==
    LET upTo(t) == SumFunctionOnSet(hist, {u \in Tooks : u <= t})
        all == SumFunctionOnSet(hist, Tooks)
    IN  IF all = 0 THEN 0 ELSE Min({t \in Tooks : 2 * upTo(t) >= all})

\* Mutant of VerdictOfFps: the two comparisons swapped.
VerdictOfFpsSwapped ==
    IF (scenario = "fps_1000") = (final.ticks < row.frames)
    THEN "OK" ELSE "WARN"

\* The arms of validate_scenario, by the scenario's name.
VerdictOfReference == IF final.drops > 0 THEN "WARN" ELSE "OK"

VerdictOfBlocking ==
    LET p50 == P50(final.hist) IN
    IF \/ final.drops > 0
       \/ 2 * p50 < SleepMs[scenario] \/ 2 * p50 > 5 * SleepMs[scenario]
    THEN "WARN" ELSE "OK"

VerdictOfShed == IF final.ticks < MinTicks THEN "FAIL" ELSE "OK"

KeepsUp == final.ticks >= CameraFps[scenario] * Duration

VerdictOfThreshold == IF KeepsUp THEN "OK" ELSE "WARN"
VerdictOfOverload == IF KeepsUp THEN "FAIL" ELSE "OK"

VerdictOfFps ==
    IF scenario = "fps_1000"
    THEN IF final.ticks < row.frames THEN "WARN" ELSE "OK"
    ELSE IF final.ticks >= row.frames THEN "WARN" ELSE "OK"

Verdict ==
    CASE scenario \in {"baseline", "inproc_low"} -> VerdictOfReference
      [] scenario \in {"blocking_1ms", "blocking_3ms", "blocking_10ms"} ->
            VerdictOfBlocking
      [] scenario = "blocking_50ms" -> "NOTE"
      [] scenario = "load_shed" -> VerdictOfShed
      [] scenario = "overload_threshold" -> VerdictOfThreshold
      [] scenario \in {"overload_moderate", "overload_severe"} ->
            VerdictOfOverload
      [] scenario \in {"fps_1000", "fps_2000", "fps_5000"} -> VerdictOfFps
      [] scenario = Unknown -> "NONE"

\* A scenario that did not do what it is for ends the process; otherwise run
\* returns, and drops the scheduler with its end of the channel.
Validate ==
    /\ phase = "validate"
    /\ row' = [row EXCEPT !.verdict = Verdict]
    /\ phase' = IF Verdict = "FAIL" \/ job = Len(plan)
                THEN "exit" ELSE "pause"
    /\ UNCHANGED <<main, metrics, thread, channel, window, final, rows, stale,
                   truth>>

\* Two seconds, in which a camera that sleeps at most a thirtieth has woken.
Pause ==
    /\ phase = "pause" /\ woke /\ phase' = "open"
    /\ job' = job + 1 /\ row' = NoRow
    /\ UNCHANGED <<plan, summary, metrics, thread, channel, window, final,
                   rows, stale, truth>>

\* A file that cannot be opened or written ends the process.
IOError ==
    /\ \/ phase \in {"open", "write"}
       \/ phase = "look" /\ (SampleDue \/ AtEnd)
    /\ phase' = "exit"
    /\ UNCHANGED <<main, metrics, thread, channel, window, results, truth>>

-----------------------------------------------------------------------------
(***************************************************************************)
(* The camera threads.                                                     *)
(***************************************************************************)
\* The scheduler that holds the other end of c's channel is there.
IsOpen(c) == c = job /\ phase # "pause"

\* What the window has seen is over when its counters are captured.
InWindow == ~inWarmup /\ phase \notin {"write", "validate", "pause"}

\* Mutant of HasRoom: the channel is unbounded.
HasRoomAlways == TRUE
HasRoom == Len(queue) < QueueCap

\* Mutant of Disconnected: every error of try_send counts as a drop, and the
\* loop goes on.
DisconnectedCounts(c) ==
    /\ camera' = [camera EXCEPT ![c] = "full"]
    /\ woke' = TRUE
    /\ UNCHANGED <<offered, queue, truth>>

\* The scheduler is gone, the thread ends.
Disconnected(c) ==
    /\ camera' = [camera EXCEPT ![c] = "gone"]
    /\ woke' = TRUE
    /\ UNCHANGED <<offered, queue, truth>>

\* try_send: the frame is taken, or refused, or there is no scheduler any more.
TrySend(c) ==
    /\ camera[c] = "ready"
    /\ IF IsOpen(c)
       THEN /\ offered < MaxFrames /\ offered' = offered + 1
            /\ IF HasRoom
               THEN /\ queue' = Append(queue, IF inWarmup THEN "warm-up"
                                               ELSE "window")
                    /\ camera' = [camera EXCEPT ![c] = "sent"]
                    /\ truth' = IF inWarmup THEN truth
                                ELSE [truth EXCEPT !.sent = @ + 1]
               ELSE /\ camera' = [camera EXCEPT ![c] = "full"]
                    /\ truth' = IF InWindow
                                THEN [truth EXCEPT !.refused = @ + 1]
                                ELSE truth
                    /\ UNCHANGED queue
            /\ UNCHANGED woke
       ELSE Disconnected(c)
    /\ UNCHANGED <<newest, framesSent>>

\* The answer is counted when it is there: a sent frame by the job, a refused
\* one in METRICS, whichever job is on.
Count(c) ==
    /\ camera[c] \in {"sent", "full"}
    /\ camera' = [camera EXCEPT ![c] = "ready"]
    /\ framesSent' = IF camera[c] = "sent" /\ c = job
                     THEN framesSent + 1 ELSE framesSent
    /\ metrics' = IF camera[c] = "full"
                  THEN [metrics EXCEPT !.drops = @ + 1] ELSE metrics
    /\ UNCHANGED <<offered, woke, queue, newest>>

Camera(c) ==
    /\ phase # "exit"
    /\ \/ TrySend(c) /\ UNCHANGED metrics
       \/ Count(c) /\ UNCHANGED truth
    /\ UNCHANGED <<main, phase, window, results>>

-----------------------------------------------------------------------------
Main ==
    \/ ClearSummary \/ StartRun \/ Begin
    \/ Tick \/ Receive \/ \E took \in Took[scenario] : EndTick(took)
    \/ WarmupEnds \/ Mark \/ Recapture
    \/ Sample \/ GoOn
    \/ CaptureFinal \/ WriteRow \/ Validate \/ Pause
    \/ IOError

Next == Main \/ \E c \in DOMAIN plan : Camera(c)

Spec == Init /\ [][Next]_vars
-----------------------------------------------------------------------------
\* The samples taken so far with what is not sampled yet.
Sampled(c) == rows[c] + final[c] - lastCounters[c]

\* Every scenario is measured on its own ("scenario N cannot inherit samples
\* from scenario N-1", Metrics::reset): its ticks and its histogram are those
\* of its measured window, the frames it counts as dropped are the ones its
\* own camera saw refused there but for the one being counted at either end,
\* the time series adds up to the ticks, and to no more than the drops (those
\* between the reset and the capture are in no sample), and summary.csv has a
\* row for each scenario run, in order, after what could not be removed.
Isolated ==
    /\ phase \in {"write", "validate", "pause"} =>
        /\ final.ticks = truth.ticks
        /\ final.ticks = SumFunction(final.hist)
        /\ final.drops - truth.refused \in -1 .. 1
        /\ Sampled("ticks") = final.ticks
        /\ Sampled("drops") <= final.drops
    /\ phase # "clear" /\ summary # Absent =>
        \E n \in {job - 1, job} :
            summary = (IF stale THEN <<Stale>> ELSE << >>) \o SubSeq(plan, 1, n)

\* The loss in the summary is a loss: it is at most the frames sent since the
\* warm-up that no tick had as its newest, but for the one frame that was
\* counted late. And the verdict of a fps_ scenario is about that loss: "0
\* frame loss" where the row has none, a loss "as expected" where it has one.
LossIsReal ==
    /\ phase \in {"validate", "pause"} =>
        row.loss <= truth.sent - truth.taken + 1
    /\ row.verdict = "OK" /\ scenario = "fps_1000" => row.loss = 0
    /\ row.verdict = "OK" /\ scenario \in {"fps_2000", "fps_5000"} =>
        row.loss > 0
=============================================================================
