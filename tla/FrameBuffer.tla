---------------------------- MODULE FrameBuffer ----------------------------
(***************************************************************************)
(* The rolling frame buffer (rvo-buffer): a fixed vector of slots and a    *)
(* write index that wraps, pushed to by the scheduler and read by it       *)
(* (newest_frame) and by the clip worker (slice), always under one mutex,  *)
(* so that every operation is one step of the module that uses the buffer. *)
(*                                                                         *)
(* A frame has a stamp ts and a number id; the image is left out.          *)
(***************************************************************************)
EXTENDS Integers, FiniteSets, Sequences, SequencesExt, Selection

CONSTANTS
    Capacity,       \* slots of the buffer (300 in main.rs), at least one
    Frame           \* the frames a camera can stamp

VARIABLES
    frames,         \* Vec<Option<Frame>>
    writeIdx        \* the slot the next push overwrites

Slots == 0 .. Capacity - 1

\* None in a slot.
NoFrame == [ts |-> -1, id |-> -1]

TypeOK ==
    /\ frames \in [Slots -> Frame \cup {NoFrame}]
    /\ writeIdx \in Slots

Init ==
    /\ frames = [k \in Slots |-> NoFrame]
    /\ writeIdx = 0

\* Mutants of Push: no wrap; a wrap to the wrong slot.
PushNoWrap(f) ==
    /\ frames' = [frames EXCEPT ![writeIdx] = f]
    /\ writeIdx' = writeIdx + 1
PushSkipsFirst(f) ==
    /\ frames' = [frames EXCEPT ![writeIdx] = f]
    /\ writeIdx' = IF writeIdx + 1 = Capacity THEN 1 ELSE writeIdx + 1

\* FrameBuffer::push.
Push(f) ==
    /\ frames' = [frames EXCEPT ![writeIdx] = f]
    /\ writeIdx' = (writeIdx + 1) % Capacity

-----------------------------------------------------------------------------
Filled == {k \in Slots : frames[k] # NoFrame}

\* Mutant of NewestSlot: the slot about to be overwritten.
NewestSlotAtIndex == writeIdx

\* FrameBuffer::newest: the first slot, in slot order, with the latest stamp.
NewestSlot ==
    CHOOSE k \in Filled : \A j \in Filled :
        \/ frames[k].ts > frames[j].ts
        \/ frames[k].ts = frames[j].ts /\ k <= j

\* newest_frame and newest_instant.
NewestFrame == IF Filled = {} THEN NoFrame ELSE frames[NewestSlot]

\* The slots whose frame is of a stretch of time.
Inside(start, end) ==
    {k \in Filled : start <= frames[k].ts /\ frames[k].ts <= end}

\* The order of a stable sort by stamp of what was found in slot order.
Earlier(j, k) ==
    \/ frames[j].ts < frames[k].ts
    \/ frames[j].ts = frames[k].ts /\ j < k

\* Mutant of Slice: slot order is taken for time order.
SliceUnsorted(start, end) ==
    LET inside == Inside(start, end)
        slots == CHOOSE s \in [1 .. Cardinality(inside) -> inside] :
                    /\ ToSet(s) = inside
                    /\ \A m, n \in DOMAIN s : m < n => s[m] < s[n]
    IN  [n \in DOMAIN slots |-> frames[slots[n]]]

\* FrameBuffer::slice: filter in slot order, then a stable sort by stamp.
Slice(start, end) ==
    LET inside == Inside(start, end)
        slots == CHOOSE s \in [1 .. Cardinality(inside) -> inside] :
                    /\ ToSet(s) = inside
                    /\ \A m, n \in DOMAIN s : m < n => Earlier(s[m], s[n])
    IN  [n \in DOMAIN slots |-> frames[slots[n]]]

-----------------------------------------------------------------------------
\* The frames held, oldest first: the slots from the write index on.
Contents ==
    Select([n \in 1 .. Capacity |-> frames[(writeIdx + n - 1) % Capacity]], Frame)

\* What the ring implements: the last Capacity frames.
Window == INSTANCE SlidingWindow WITH window <- Contents
=============================================================================
