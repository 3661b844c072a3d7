--------------------------- MODULE SlidingWindow ---------------------------
(***************************************************************************)
(* What the frame buffer is for: the last Capacity frames, oldest first.   *)
(***************************************************************************)
EXTENDS Integers, Sequences

CONSTANTS Capacity, Frame

VARIABLE window

LastOf(s) == IF Len(s) > Capacity THEN Tail(s) ELSE s

Init == window = << >>

Push(f) == window' = LastOf(Append(window, f))

Next == \E f \in Frame : Push(f)

Spec == Init /\ [][Next]_window
=============================================================================
