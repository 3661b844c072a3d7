---------------------------- MODULE MCScheduler ----------------------------
(* An instance of Scheduler: an expensive detector, and a cheap one that   *)
(* depends on its signal, with one event on the cheap one's signal; a      *)
(* configuration can also hold the cheap one alone, or with one that has   *)
(* no rate.                                                                *)
EXTENDS Scheduler

CONSTANTS s1, s2, slow, cheap, wild, e1

MCSignalType == {s1, s2}
MCDetector == {slow, cheap, wild}
MCNoRate == {wild}
MCEventDef == {e1}
MCCond == [e \in MCEventDef |-> SingleGte(s2, 1)]
MCDuration == [e \in MCEventDef |-> 1]
MCCooldown == [e \in MCEventDef |-> 2]
MCInterval == [d \in MCDetector \ MCNoRate |-> 1]
MCCost == [d \in MCDetector |-> IF d = slow THEN "High" ELSE "Low"]
MCNeedsFrame == [d \in MCDetector |-> d = slow]
MCDeps == [d \in MCDetector |-> IF d = cheap THEN {s1} ELSE {}]
MCEmits == [d \in MCDetector |-> IF d = slow THEN {s1} ELSE {s2}]
MCTtl == [d \in MCDetector |-> 1]
MCConfigs == {<<slow, cheap>>, <<cheap>>, <<cheap, wild>>}
MCOneConfig == {<<slow, cheap>>}
=============================================================================
