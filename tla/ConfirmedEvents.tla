-------------------------- MODULE ConfirmedEvents --------------------------
(***************************************************************************)
(* What an event definition promises, with no machine in it: the whole     *)
(* past is kept, and a sample yields an event exactly when it closes a run *)
(* of samples at which the condition held that is Duration long, holds no  *)
(* event already, and began once the cooldown of every earlier event was   *)
(* over.  EventEngine forgets the past but for one State per definition;   *)
(* it implements this specification.                                       *)
(***************************************************************************)
EXTENDS Integers, Sequences

CONSTANTS EventDef, Duration, Cooldown, U64Max

VARIABLE log    \* log[d]: the samples of definition d, oldest first

CooldownEnd(d, sample) ==
    IF sample.at + Cooldown[d] > U64Max THEN U64Max ELSE sample.at + Cooldown[d]

\* A confirming run may begin at position i of h.
Eligible(d, h, i) ==
    \A k \in 1 .. i - 1 : h[k].fired => h[i].at >= CooldownEnd(d, h[k])

\* The last sample of h closes a confirming run.
Confirmed(d, h) ==
    \E i \in 1 .. Len(h) :
        /\ Eligible(d, h, i)
        /\ \A k \in i .. Len(h) : h[k].met /\ ~h[k].fired
        /\ h[Len(h)].at - h[i].at >= Duration[d]

\* The history with one more sample.
Extended(d, now, met) ==
    LET h == Append(log[d], [at |-> now, met |-> met, fired |-> FALSE])
    IN  Append(log[d], [at |-> now, met |-> met, fired |-> Confirmed(d, h)])

Init == log = [d \in EventDef |-> << >>]

\* Every definition is sampled at the same, never decreasing, instant.
Sampled ==
    /\ log' = [d \in EventDef |-> log'[d]]
    /\ \E now \in 0 .. U64Max : \A d \in EventDef :
          /\ \A k \in DOMAIN log[d] : log[d][k].at <= now
          /\ \E met \in BOOLEAN : log'[d] = Extended(d, now, met)

Spec == Init /\ [][Sampled]_log
=============================================================================
