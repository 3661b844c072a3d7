------------------------- MODULE MCEvidencePipeline -------------------------
(* Instances of EvidencePipeline for TLC. *)
EXTENDS EvidencePipeline

CONSTANTS d1, d2, t1, t2

MCDef == {d1, d2}
MCTwoTypes == [d \in MCDef |-> IF d = d1 THEN t1 ELSE t2]
MCOneDef == {d1}
MCOneDefType == [d \in MCOneDef |-> t1]
MCOneType == [d \in MCDef |-> t1]
=============================================================================
