--------------------------- MODULE MCEventEngine ---------------------------
(* An instance of EventEngine for TLC: one signal; a definition that wants  *)
(* it at 1, and confirms it; one that wants it reported at all, at once.    *)
EXTENDS EventEngine

CONSTANTS s1, confirmed, instant

MCSignalType == {s1}
MCEventDef == {confirmed, instant}

MCCond ==
    [d \in MCEventDef |->
        IF d = confirmed
        THEN [mode |-> "All",
              preds |-> {[signal |-> s1, op |-> "Gte", value |-> 1],
                         [signal |-> s1, op |-> "Lt", value |-> 2]}]
        ELSE [mode |-> "Any",
              preds |-> {[signal |-> s1, op |-> "Gt", value |-> 0],
                         [signal |-> s1, op |-> "Lte", value |-> 0]}]]
MCDuration == [d \in MCEventDef |-> IF d = confirmed THEN 2 ELSE 0]
MCCooldown == [d \in MCEventDef |-> IF d = confirmed THEN 1 ELSE 2]
=============================================================================
