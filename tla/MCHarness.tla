----------------------------- MODULE MCHarness -----------------------------
(* A small instance of the load harness. A nap is 1, a tick takes 0 to 2.  *)
EXTENDS Harness

\* --all; and two runs of a name that is no scenario.
MCClis == {[all |-> TRUE, scenario |-> "baseline", runs |-> 1],
           [all |-> FALSE, scenario |-> Unknown, runs |-> 2]}

\* A detector that sleeps may be skipped on a tick.
MCSleepMs == [s \in Scenario |->
    CASE s \in {"blocking_1ms", "overload_threshold"} -> 1
      [] s \in {"blocking_3ms", "blocking_10ms", "blocking_50ms", "load_shed",
                "overload_moderate", "overload_severe"} -> 2
      [] OTHER -> 0]

MCTook == [s \in Scenario |-> {0, MCSleepMs[s]}]

\* One frame a nap: overload is confirmed when a tick took longer than 0.
MCCameraFps == [s \in Scenario |-> 1]
=============================================================================
