------------------------------ MODULE MCReload ------------------------------
(* An instance of Reload: files that agree, that take slots and are then    *)
(* rejected, that no longer fit, and with a time that overflows.            *)
EXTENDS Reload

CONSTANTS p, a, b, c

MCBuiltIn == {p}
MCCustom == {a, b, c}

Local == [role |-> "local", signal |-> p, enabled |-> TRUE, fault |-> "none"]
Remote(s) == [role |-> "remote", signal |-> s, enabled |-> TRUE, fault |-> "none"]
Event(s) == [role |-> "event", signal |-> s, enabled |-> TRUE, fault |-> "none"]
Disabled(e) == [e EXCEPT !.enabled = FALSE]
Faulty(e) == [e EXCEPT !.fault = "invalid"]
Huge(e) == [e EXCEPT !.fault = "huge"]

MCFiles ==
    {<< >>,
     <<Remote(a), Event(a), Event(b)>>,
     <<Disabled(Local), Remote(b), Local, Event(b)>>,
     <<Disabled(Remote(b)), Local, Faulty(Event(a))>>,
     <<Remote(c), Huge(Event(p))>>,
     <<Remote(a), Faulty(Local), Event(p)>>}
MCCli == <<Remote(b)>>
=============================================================================
