------------------------------ MODULE Signals ------------------------------
(***************************************************************************)
(* The signal blackboard (rvo-signals) and the conditions read from it     *)
(* (rvo-events/condition.rs), as operators on a store value.  A store is a *)
(* function from signal types to slots; the state machines that own a      *)
(* store (EventEngine, Scheduler) keep it in a variable.                   *)
(*                                                                         *)
(* Times are nanoseconds held in a u64: additions the code writes with     *)
(* saturating_add stop at U64Max, subtractions stop at 0.  The version     *)
(* counter of a slot is not here: upsert takes &mut self and get takes     *)
(* &self, so no read overlaps a write (see SeqlockSlot in the plan).       *)
(***************************************************************************)
EXTENDS Integers

CONSTANTS
    SignalType,     \* the slots of the store (SignalType::ALL)
    U64Max          \* the largest u64, 2^64 - 1 in the program

ASSUME U64Assumption == U64Max \in Nat

Time == 0 .. U64Max

\* u64::saturating_add and u64::saturating_sub.
SatAdd(a, b) == IF a + b > U64Max THEN U64Max ELSE a + b
SatSub(a, b) == IF a < b THEN 0 ELSE a - b

-----------------------------------------------------------------------------
Slot == [value : Nat, ts : Time, ttl : Time]

\* SignalSlot::new: an unwritten slot is a signal of value 0 stamped 0.
EmptySlot == [value |-> 0, ts |-> 0, ttl |-> 0]

EmptyStore == [s \in SignalType |-> EmptySlot]

Stores == [SignalType -> Slot]

\* SignalStore::upsert: the slot keeps the last write only.
Upsert(store, s, signal) == [store EXCEPT ![s] = signal]

\* Mutant of Fresh: one instant too generous.
FreshOneLate(store, s, now) == ~(SatAdd(store[s].ts, store[s].ttl) + 1 < now)

\* SignalStore::get returns Some: the signal has not outlived its ttl.
Fresh(store, s, now) == ~(SatAdd(store[s].ts, store[s].ttl) < now)

-----------------------------------------------------------------------------
CompareOp == {"Gte", "Gt", "Eq", "Lt", "Lte"}

Compare(op, a, b) ==
    \/ op = "Gte" /\ a >= b
    \/ op = "Gt"  /\ a > b
    \/ op = "Eq"  /\ a = b
    \/ op = "Lt"  /\ a < b
    \/ op = "Lte" /\ a <= b

\* Mutant of PredicateHolds: the value is read without its freshness.
PredicateIgnoresTtl(pred, store, now) ==
    Compare(pred.op, store[pred.signal].value, pred.value)

\* SignalPredicate::evaluate: a stale signal satisfies no predicate.
PredicateHolds(pred, store, now) ==
    /\ Fresh(store, pred.signal, now)
    /\ Compare(pred.op, store[pred.signal].value, pred.value)

\* Condition::evaluate.
ConditionHolds(cond, store, now) ==
    \/ /\ cond.mode = "All"
       /\ \A p \in cond.preds : PredicateHolds(p, store, now)
    \/ /\ cond.mode = "Any"
       /\ \E p \in cond.preds : PredicateHolds(p, store, now)

\* Condition::single_gte, what every event of a YAML config is built with.
SingleGte(s, v) ==
    [mode  |-> "All", preds |-> {[signal |-> s, op |-> "Gte", value |-> v]}]

Predicate == [signal : SignalType, op : CompareOp, value : Nat]
Condition == [mode : {"All", "Any"}, preds : SUBSET Predicate]
=============================================================================
