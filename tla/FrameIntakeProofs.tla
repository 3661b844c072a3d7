-------------------------- MODULE FrameIntakeProofs --------------------------
(***************************************************************************)
(* The properties of FrameIntake, proved for every capacity of the channel *)
(* and of the ring, and every bound on the clock and the frames.           *)
(***************************************************************************)
EXTENDS FrameIntake, SelectionProofs, FiniteSetTheorems

USE IntakeAssumption

-----------------------------------------------------------------------------
(* The inductive invariant *)

\* The camera stamps a frame with the id it will have used once it is offered.
InHand ==
    hand # NoFrame => hand.id = nextId /\ nextId < MaxFrames

\* The empty slots of the ring are those from the write index on, until the
\* first wrap; then there is none.
Shape ==
    \A k \in Buffer!Slots :
        frames[k] = NoFrame <=> frames[writeIdx] = NoFrame /\ writeIdx <= k

\* The ring unrolled: what Contents is, given Shape.
Held ==
    IF frames[writeIdx] = NoFrame
    THEN [i \in 1 .. writeIdx |-> frames[i - 1]]
    ELSE [i \in 1 .. Capacity |-> frames[(writeIdx + i - 1) % Capacity]]

InTheHand == IF hand = NoFrame THEN << >> ELSE <<hand>>

InFlight == Held \o queue \o InTheHand

Ordered(s) ==
    \A i, j \in DOMAIN s : i < j => s[i].id < s[j].id /\ s[i].ts <= s[j].ts

\* Nothing in flight is from the future.
Past ==
    \A i \in DOMAIN InFlight :
        /\ InFlight[i].ts <= clock
        /\ InFlight[i].id <= nextId
        /\ hand = NoFrame => InFlight[i].id < nextId

\* No frame that has been offered is forgotten.
Found ==
    \A id \in 0 .. nextId - 1 :
        id \in dropped \cup ToSet(pushed) \cup {queue[i].id : i \in DOMAIN queue}

Inv == TypeOK /\ InHand /\ Accounted /\ Shape

IInv == Inv /\ Ordered(InFlight) /\ Past /\ Found

-----------------------------------------------------------------------------
(* Types, accounting and the shape of the ring *)

LEMMA FrameFacts ==
    /\ NoFrame = [ts |-> -1, id |-> -1]
    /\ NoFrame \notin Frame
    /\ \A f \in Frame : f.ts \in 0 .. MaxTime /\ f.id \in 0 .. MaxFrames
    /\ Buffer!Slots = 0 .. Capacity - 1
    /\ 0 \in Buffer!Slots
    BY DEF NoFrame, Buffer!NoFrame, Frame, Id, Buffer!Slots

LEMMA PushType ==
    ASSUME Buffer!TypeOK, NEW f \in Frame, Buffer!Push(f)
    PROVE  /\ Buffer!TypeOK'
           /\ frames' = [frames EXCEPT ![writeIdx] = f]
           /\ writeIdx' = IF writeIdx = Capacity - 1 THEN 0 ELSE writeIdx + 1
    <1>1. writeIdx \in 0 .. Capacity - 1
        BY DEF Buffer!TypeOK, Buffer!Slots
    <1>2. /\ writeIdx = Capacity - 1 => (writeIdx + 1) % Capacity = 0
          /\ writeIdx # Capacity - 1 => (writeIdx + 1) % Capacity = writeIdx + 1
        BY <1>1
    <1>3. writeIdx' = IF writeIdx = Capacity - 1 THEN 0 ELSE writeIdx + 1
        BY <1>2 DEF Buffer!Push
    <1>4. frames' \in [Buffer!Slots -> Frame \cup {Buffer!NoFrame}]
        BY DEF Buffer!Push, Buffer!TypeOK
    <1>5. writeIdx' \in Buffer!Slots
        BY <1>1, <1>3, FrameFacts
    <1> QED
        BY <1>3, <1>4, <1>5 DEF Buffer!TypeOK, Buffer!Push

LEMMA PushShape ==
    ASSUME Buffer!TypeOK, Shape, NEW f \in Frame, Buffer!Push(f)
    PROVE  Shape'
    <1>1. /\ frames' = [frames EXCEPT ![writeIdx] = f]
          /\ writeIdx' = IF writeIdx = Capacity - 1 THEN 0 ELSE writeIdx + 1
        BY PushType
    <1>2. frames \in [Buffer!Slots -> Frame \cup {NoFrame}] /\ writeIdx \in Buffer!Slots
        BY DEF Buffer!TypeOK, NoFrame
    <1>3. f # NoFrame
        BY FrameFacts
    <1>4. \A k \in Buffer!Slots : frames'[k] = IF k = writeIdx THEN f ELSE frames[k]
        BY <1>1, <1>2
    <1>5. NoFrame' = NoFrame /\ Buffer!Slots' = Buffer!Slots
        BY DEF NoFrame, Buffer!NoFrame, Buffer!Slots
    <1>6. ASSUME NEW k \in Buffer!Slots
          PROVE  frames'[k] = NoFrame <=> frames'[writeIdx'] = NoFrame /\ writeIdx' <= k
        <2>1. CASE writeIdx = Capacity - 1
            <3>1. writeIdx' = 0 /\ 0 \in Buffer!Slots
                BY <1>1, <2>1, FrameFacts
            <3>2. \A j \in Buffer!Slots : j # writeIdx => frames[j] # NoFrame
                BY <1>2, <2>1, FrameFacts DEF Shape
            <3> QED
                BY <1>3, <1>4, <3>1, <3>2
        <2>2. CASE writeIdx # Capacity - 1
            <3>1. writeIdx' = writeIdx + 1 /\ writeIdx + 1 \in Buffer!Slots
                BY <1>1, <1>2, <2>2, FrameFacts
            <3>2. frames'[writeIdx'] = frames[writeIdx + 1]
                BY <1>4, <3>1, <1>2, FrameFacts
            <3>3. frames[writeIdx + 1] = NoFrame <=> frames[writeIdx] = NoFrame
                BY <3>1, <1>2, FrameFacts DEF Shape
            <3>4. frames[k] = NoFrame <=> frames[writeIdx] = NoFrame /\ writeIdx <= k
                BY DEF Shape
            <3>5. k = writeIdx => ~(writeIdx' <= k)
                BY <3>1, FrameFacts
            <3>6. k # writeIdx => (writeIdx <= k <=> writeIdx' <= k)
                BY <1>2, <3>1, FrameFacts
            <3> QED
                BY <1>3, <1>4, <3>2, <3>3, <3>4, <3>5, <3>6
        <2> QED
            BY <2>1, <2>2
    <1> QED
        BY <1>5, <1>6 DEF Shape

\* The choice of NewestSlot exists, and no slot holds a later stamp.
LEMMA NewestHolds ==
    ASSUME Buffer!TypeOK, Buffer!Filled # {}
    PROVE  /\ Buffer!NewestFrame \in Frame
           /\ \A k \in Buffer!Filled : frames[k].ts <= Buffer!NewestFrame.ts
    <1> DEFINE Filled == Buffer!Filled
    <1>1. /\ Filled \subseteq 0 .. Capacity - 1
          /\ \A k \in Filled : frames[k] \in Frame /\ frames[k].ts \in 0 .. MaxTime
        BY FrameFacts DEF Buffer!TypeOK, Buffer!Filled, Buffer!Slots
    <1> DEFINE Stamps == {frames[k].ts : k \in Filled}
    <1>2. PICK ts \in Stamps : \A t \in Stamps : t <= ts
        <2>1. PICK k : k \in Filled
            OBVIOUS
        <2>2. frames[k].ts \in Stamps
            BY <2>1
        <2>3. Stamps \in SUBSET (0 .. MaxTime)
            BY <1>1
        <2> QED
            BY <2>2, <2>3, Greatest
    <1> DEFINE Latest == {k \in Filled : frames[k].ts = ts}
    <1>3. PICK n \in Latest : \A k \in Latest : n <= k
        <2>1. PICK k \in Filled : frames[k].ts = ts
            OBVIOUS
        <2>2. k \in Latest
            BY <2>1
        <2>3. Latest \in SUBSET Nat
            BY <1>1
        <2> QED
            BY <2>2, <2>3, Least
    <1>4. \A j \in Filled : \/ frames[n].ts > frames[j].ts
                            \/ frames[n].ts = frames[j].ts /\ n <= j
        BY <1>1, <1>2, <1>3
    <1>5. /\ Buffer!NewestSlot \in Filled
          /\ \A j \in Filled :
                \/ frames[Buffer!NewestSlot].ts > frames[j].ts
                \/ frames[Buffer!NewestSlot].ts = frames[j].ts /\ Buffer!NewestSlot <= j
        BY <1>3, <1>4 DEF Buffer!NewestSlot
    <1>6. Buffer!NewestFrame = frames[Buffer!NewestSlot]
        BY DEF Buffer!NewestFrame
    <1> QED
        BY <1>1, <1>5, <1>6

LEMMA InitInv == Init => Inv
    <1> SUFFICES ASSUME Init PROVE Inv
        OBVIOUS
    <1>1. Buffer!TypeOK /\ Shape
        <2>1. /\ frames = [k \in Buffer!Slots |-> Buffer!NoFrame] /\ writeIdx = 0
              /\ writeIdx \in Buffer!Slots
            BY FrameFacts DEF Init, Buffer!Init
        <2> QED
            BY <2>1, FrameFacts DEF Buffer!TypeOK, Shape, NoFrame
    <1>2. TypeOK
        BY <1>1 DEF Init, TypeOK, Id
    <1> QED
        BY <1>1, <1>2 DEF Init, Inv, InHand, Accounted

LEMMA NextInv == Inv /\ [Next]_vars => Inv'
    <1> SUFFICES ASSUME Inv, [Next]_vars PROVE Inv'
        OBVIOUS
    <1>0. NoFrame' = NoFrame
        BY DEF NoFrame, Buffer!NoFrame
    <1>1. ASSUME UNCHANGED buffer PROVE (Buffer!TypeOK /\ Shape)'
        BY <1>1, <1>0 DEF Inv, TypeOK, buffer, Buffer!TypeOK, Shape, Buffer!NoFrame, Buffer!Slots
    <1>2. CASE UNCHANGED vars
        BY <1>0, <1>1, <1>2 DEF Inv, TypeOK, vars, buffer, InHand, Accounted
    <1>3. CASE Advance
        BY <1>0, <1>1, <1>3 DEF Inv, TypeOK, Advance, InHand, Accounted
    <1>4. CASE Capture
        <2>1. hand' \in Frame /\ hand'.id = nextId /\ hand' # NoFrame
            BY <1>4, FrameFacts DEF Capture, Inv, TypeOK, Frame, Id
        <2> QED
            BY <1>0, <1>1, <1>4, <2>1 DEF Inv, TypeOK, Capture, InHand, Accounted
    <1>5. CASE Send
        <2>1. hand \in Frame /\ hand.id = nextId /\ nextId + 1 \in Id /\ nextId \in Id
            BY <1>5 DEF Send, Inv, TypeOK, InHand, Id
        <2>2. Accounted'
            <3>1. queue \in Seq(Frame) /\ Len(queue) \in Nat /\ Len(pushed) \in Nat
                BY DEF Inv, TypeOK
            <3>2. Len(Append(queue, hand)) = Len(queue) + 1
                BY <2>1, <3>1
            <3>3. Len(queue') + frameDrops' = Len(queue) + frameDrops + 1
                BY <1>5, <3>1, <3>2 DEF Send, Inv, TypeOK
            <3>4. pushed' = pushed /\ nextId' = nextId + 1 /\ frameDrops' \in Int
                     /\ Len(queue') \in Int /\ frameDrops \in Int /\ nextId \in Int
                BY <1>5, <3>1, <3>2 DEF Send, Inv, TypeOK, Id
            <3>5. nextId = Len(pushed) + Len(queue) + frameDrops
                BY DEF Inv, Accounted
            <3>6. nextId' = Len(pushed') + Len(queue') + frameDrops'
                BY <3>1, <3>3, <3>4, <3>5
            <3> QED
                BY <3>6 DEF Accounted
        <2>3. frameDrops' \in 0 .. MaxFrames
            BY <1>5, <2>1, <2>2 DEF Inv, TypeOK, Accounted, Send, Id
        <2>4. queue' \in Seq(Frame) /\ Len(queue') <= QueueCap /\ dropped' \subseteq Id
            BY <1>5, <2>1 DEF Inv, TypeOK, Send
        <2> QED
            BY <1>0, <1>1, <1>5, <2>1, <2>2, <2>3, <2>4 DEF Inv, TypeOK, Send, InHand
    <1>6. CASE BeginTick
        BY <1>0, <1>1, <1>6 DEF Inv, TypeOK, BeginTick, InHand, Accounted
    <1>7. CASE Receive
        <2>0. queue \in Seq(Frame) /\ queue # << >>
            BY <1>7 DEF Receive, Inv, TypeOK
        <2>1. /\ Head(queue) \in Frame /\ Head(queue).id \in Id
              /\ Tail(queue) \in Seq(Frame) /\ Len(Tail(queue)) = Len(queue) - 1
            BY <2>0, FrameFacts DEF Id
        <2>2. (Buffer!TypeOK /\ Shape)'
            BY <1>7, <2>1, PushType, PushShape DEF Receive, Inv, TypeOK
        <2>3. pushed' \in Seq(Id) /\ Len(pushed') = Len(pushed) + 1
            BY <1>7, <2>1 DEF Receive, Inv, TypeOK
        <2> QED
            BY <1>0, <1>7, <2>1, <2>2, <2>3 DEF Inv, TypeOK, Receive, InHand, Accounted
    <1>8. CASE Pick
        <2>1. latest' \in Frame \cup {NoFrame}
            <3>1. Buffer!TypeOK
                BY DEF Inv, TypeOK
            <3> QED
                BY <1>8, <3>1, NewestHolds DEF Pick, Buffer!NewestFrame, NoFrame
        <2> QED
            BY <1>0, <1>1, <1>8, <2>1 DEF Inv, TypeOK, Pick, InHand, Accounted
    <1>9. CASE EndTick
        BY <1>0, <1>1, <1>9 DEF Inv, TypeOK, EndTick, InHand, Accounted
    <1> QED
        BY <1>2, <1>3, <1>4, <1>5, <1>6, <1>7, <1>8, <1>9 DEF Next, Camera, Scheduler


-----------------------------------------------------------------------------
(* The ring holds the last frames pushed *)

HeldForm ==
    /\ Held \in Seq(Frame)
    /\ Len(Held) = IF frames[writeIdx] = NoFrame THEN writeIdx ELSE Capacity
    /\ \A i \in 1 .. Len(Held) :
          Held[i] = IF frames[writeIdx] = NoFrame THEN frames[i - 1]
                    ELSE IF writeIdx + i - 1 < Capacity
                    THEN frames[writeIdx + i - 1]
                    ELSE frames[writeIdx + i - 1 - Capacity]

LEMMA HeldType == Buffer!TypeOK /\ Shape => HeldForm
    <1> SUFFICES ASSUME Buffer!TypeOK, Shape PROVE HeldForm
        OBVIOUS
    <1> USE DEF HeldForm
    <1>1. /\ frames \in [0 .. Capacity - 1 -> Frame \cup {NoFrame}]
          /\ writeIdx \in 0 .. Capacity - 1
        BY DEF Buffer!TypeOK, NoFrame, Buffer!Slots
    <1>2. \A k \in 0 .. Capacity - 1 :
             frames[k] = NoFrame <=> frames[writeIdx] = NoFrame /\ writeIdx <= k
        BY DEF Shape, Buffer!Slots
    <1>3. CASE frames[writeIdx] = NoFrame
        <2>1. Held = [i \in 1 .. writeIdx |-> frames[i - 1]]
            BY <1>3 DEF Held
        <2>2. ASSUME NEW i \in 1 .. writeIdx PROVE frames[i - 1] \in Frame
            <3>1. i - 1 \in 0 .. Capacity - 1 /\ ~(writeIdx <= i - 1)
                BY <1>1
            <3> QED
                BY <1>1, <1>2, <3>1
        <2> QED
            BY <1>1, <1>3, <2>1, <2>2
    <1>4. CASE frames[writeIdx] # NoFrame
        <2>1. Held = [i \in 1 .. Capacity |-> frames[(writeIdx + i - 1) % Capacity]]
            BY <1>4 DEF Held
        <2>2. \A k \in 0 .. Capacity - 1 : frames[k] \in Frame
            BY <1>1, <1>2, <1>4
        <2>3. ASSUME NEW i \in 1 .. Capacity
              PROVE  /\ writeIdx + i - 1 < Capacity =>
                           (writeIdx + i - 1) % Capacity = writeIdx + i - 1
                     /\ ~(writeIdx + i - 1 < Capacity) =>
                           (writeIdx + i - 1) % Capacity = writeIdx + i - 1 - Capacity
                     /\ (writeIdx + i - 1) % Capacity \in 0 .. Capacity - 1
            BY <1>1
        <2>4. Held \in [1 .. Capacity -> Frame]
            BY <2>1, <2>2, <2>3
        <2>5. Held \in Seq(Frame) /\ Len(Held) = Capacity
            BY <2>4
        <2> QED
            BY <1>4, <2>1, <2>3, <2>5
    <1> QED
        BY <1>3, <1>4

LEMMA HeldTypeNext == Buffer!TypeOK' /\ Shape' => HeldForm'
    BY HeldType, PTL

\* Contents, whose definition selects the filled slots, is the ring unrolled.
LEMMA ContentsHeld ==
    ASSUME Buffer!TypeOK, Shape
    PROVE  Buffer!Contents = Held
    <1> DEFINE ring == [n \in 1 .. Capacity |-> frames[(writeIdx + n - 1) % Capacity]]
    <1>0. Buffer!Contents = Select(ring, Frame)
        BY DEF Buffer!Contents, Buffer!Select, Select
    <1>1. /\ frames \in [0 .. Capacity - 1 -> Frame \cup {NoFrame}]
          /\ writeIdx \in 0 .. Capacity - 1
        BY DEF Buffer!TypeOK, NoFrame, Buffer!Slots
    <1>2. \A k \in 0 .. Capacity - 1 :
             frames[k] = NoFrame <=> frames[writeIdx] = NoFrame /\ writeIdx <= k
        BY DEF Shape, Buffer!Slots
    <1>3. ASSUME NEW n \in 1 .. Capacity
          PROVE  /\ (writeIdx + n - 1) % Capacity \in 0 .. Capacity - 1
                 /\ ring[n] = IF writeIdx + n - 1 < Capacity
                              THEN frames[writeIdx + n - 1]
                              ELSE frames[writeIdx + n - 1 - Capacity]
        <2>1. /\ writeIdx + n - 1 < Capacity =>
                    (writeIdx + n - 1) % Capacity = writeIdx + n - 1
              /\ ~(writeIdx + n - 1 < Capacity) =>
                    (writeIdx + n - 1) % Capacity = writeIdx + n - 1 - Capacity
            BY <1>1
        <2> QED
            BY <1>1, <2>1
    <1>4. ring \in [1 .. Capacity -> Frame \cup {NoFrame}]
        BY <1>1, <1>3
    <1>5. ring \in Seq(Frame \cup {NoFrame}) /\ Len(ring) = Capacity
        BY <1>4
    <1>6. Select(ring, Frame) \in Seq((Frame \cup {NoFrame}) \cap Frame)
        BY <1>5, SelectType
    <1> DEFINE empty == IF frames[writeIdx] = NoFrame THEN Capacity - writeIdx ELSE 0
    <1>7. empty \in 0 .. Len(ring)
        BY <1>1, <1>5
    <1>8. \A n \in 1 .. empty : ring[n] \notin Frame
        <2> SUFFICES ASSUME NEW n \in 1 .. empty PROVE ring[n] \notin Frame
            OBVIOUS
        <2>0. frames[writeIdx] = NoFrame /\ n \in 1 .. Capacity - writeIdx
            <3>1. CASE frames[writeIdx] = NoFrame
                BY <3>1
            <3>2. CASE frames[writeIdx] # NoFrame
                BY <3>2
            <3> QED
                BY <3>1, <3>2
        <2>1. /\ writeIdx + n - 1 \in 0 .. Capacity - 1 /\ writeIdx <= writeIdx + n - 1
              /\ n \in 1 .. Capacity
            BY <1>1, <2>0
        <2>2. frames[writeIdx + n - 1] = NoFrame
            BY <1>2, <2>0, <2>1
        <2> QED
            BY <1>3, <2>1, <2>2, FrameFacts
    <1>9. \A n \in empty + 1 .. Len(ring) : ring[n] \in Frame
        <2> SUFFICES ASSUME NEW n \in empty + 1 .. Capacity PROVE ring[n] \in Frame
            BY <1>5
        <2>1. CASE frames[writeIdx] = NoFrame
            <3>1. /\ n \in 1 .. Capacity /\ ~(writeIdx + n - 1 < Capacity)
                  /\ writeIdx + n - 1 - Capacity \in 0 .. Capacity - 1
                  /\ ~(writeIdx <= writeIdx + n - 1 - Capacity)
                BY <1>1, <2>1
            <3>2. ring[n] = frames[writeIdx + n - 1 - Capacity]
                BY <1>3, <3>1
            <3>3. frames[writeIdx + n - 1 - Capacity] # NoFrame
                BY <1>2, <3>1
            <3> QED
                BY <1>1, <3>1, <3>2, <3>3
        <2>2. CASE frames[writeIdx] # NoFrame
            <3>1. \A k \in 0 .. Capacity - 1 : frames[k] \in Frame
                BY <1>1, <1>2, <2>2
            <3>2. n \in 1 .. Capacity
                BY <2>2
            <3> QED
                BY <1>3, <3>1, <3>2
        <2> QED
            BY <2>1, <2>2
    <1>10. /\ Len(Select(ring, Frame)) = Len(ring) - empty
           /\ \A i \in 1 .. Len(ring) - empty : Select(ring, Frame)[i] = ring[empty + i]
        <2> DEFINE S == Frame \cup {NoFrame}
        <2>1. ring \in Seq(S)
            BY <1>5
        <2> HIDE DEF ring, empty, S
        <2>2. ASSUME NEW k \in 0 .. Len(ring),
                     \A n \in 1 .. k : ring[n] \notin Frame,
                     \A n \in k + 1 .. Len(ring) : ring[n] \in Frame
              PROVE  /\ Len(Select(ring, Frame)) = Len(ring) - k
                     /\ \A i \in 1 .. Len(ring) - k :
                           Select(ring, Frame)[i] = ring[k + i]
            BY ONLY <2>1, <2>2, SelectSuffix
        <2> QED
            BY ONLY <2>2, <1>7, <1>8, <1>9
    <1> DEFINE out == Select(ring, Frame)
    <1>11. out \in Seq(Frame) /\ Len(out) = Capacity - empty
        <2>1. (Frame \cup {NoFrame}) \cap Frame = Frame
            OBVIOUS
        <2> QED
            BY <1>5, <1>6, <1>10, <2>1
    <1>12. Held \in Seq(Frame) /\ Len(Held) = Capacity - empty
        BY <1>1, HeldType DEF HeldForm
    <1>13. ASSUME NEW i \in 1 .. Capacity - empty PROVE out[i] = Held[i]
        <2>1. out[i] = ring[empty + i] /\ empty + i \in 1 .. Capacity
            BY <1>5, <1>7, <1>10
        <2>2. ring[empty + i] = IF frames[writeIdx] = NoFrame THEN frames[i - 1]
                                ELSE IF writeIdx + i - 1 < Capacity
                                THEN frames[writeIdx + i - 1]
                                ELSE frames[writeIdx + i - 1 - Capacity]
            <3>1. CASE frames[writeIdx] = NoFrame
                <4>1. /\ ~(writeIdx + (empty + i) - 1 < Capacity)
                      /\ writeIdx + (empty + i) - 1 - Capacity = i - 1
                    BY <1>1, <3>1
                <4> HIDE DEF ring, empty
                <4> QED
                    BY <1>3, <2>1, <3>1, <4>1
            <3>2. CASE frames[writeIdx] # NoFrame
                <4>1. empty + i = i
                    BY <3>2
                <4> HIDE DEF ring, empty
                <4> QED
                    BY <1>3, <2>1, <3>2, <4>1
            <3> QED
                BY <3>1, <3>2
        <2> QED
            BY <1>12, <2>1, <2>2, HeldType DEF HeldForm
    <1> HIDE DEF out, empty
    <1>14. out = Held
        BY <1>11, <1>12, <1>13, SeqEqual
    <1> QED
        BY <1>0, <1>14 DEF out


\* A push is a step of the sliding window over what the ring holds.
LEMMA PushSlides ==
    ASSUME Buffer!TypeOK, Shape, NEW f \in Frame, Buffer!Push(f)
    PROVE  Held' = IF Len(Append(Held, f)) > Capacity THEN Tail(Append(Held, f))
                   ELSE Append(Held, f)
    <1>1. /\ Buffer!TypeOK' /\ Shape'
          /\ frames' = [frames EXCEPT ![writeIdx] = f]
          /\ writeIdx' = IF writeIdx = Capacity - 1 THEN 0 ELSE writeIdx + 1
        BY PushType, PushShape
    <1>2. /\ frames \in [0 .. Capacity - 1 -> Frame \cup {NoFrame}]
          /\ writeIdx \in 0 .. Capacity - 1
        BY DEF Buffer!TypeOK, NoFrame, Buffer!Slots
    <1>3. f # NoFrame /\ NoFrame' = NoFrame /\ Frame' = Frame
        BY FrameFacts DEF NoFrame, Buffer!NoFrame
    <1>4. \A k \in 0 .. Capacity - 1 :
             /\ frames[k] = NoFrame <=> frames[writeIdx] = NoFrame /\ writeIdx <= k
             /\ frames'[k] = IF k = writeIdx THEN f ELSE frames[k]
        BY <1>1, <1>2 DEF Shape, Buffer!Slots
    <1>5. /\ Held \in Seq(Frame)
          /\ Len(Held) = IF frames[writeIdx] = NoFrame THEN writeIdx ELSE Capacity
          /\ \A i \in 1 .. Len(Held) :
                Held[i] = IF frames[writeIdx] = NoFrame THEN frames[i - 1]
                          ELSE IF writeIdx + i - 1 < Capacity
                          THEN frames[writeIdx + i - 1]
                          ELSE frames[writeIdx + i - 1 - Capacity]
        BY HeldType DEF HeldForm
    <1>6. /\ Held' \in Seq(Frame)
          /\ Len(Held') = IF frames'[writeIdx'] = NoFrame THEN writeIdx' ELSE Capacity
          /\ \A i \in 1 .. Len(Held') :
                Held'[i] = IF frames'[writeIdx'] = NoFrame THEN frames'[i - 1]
                           ELSE IF writeIdx' + i - 1 < Capacity
                           THEN frames'[writeIdx' + i - 1]
                           ELSE frames'[writeIdx' + i - 1 - Capacity]
        BY <1>1, <1>3, HeldTypeNext DEF HeldForm
    <1> DEFINE s == Append(Held, f)
    <1>7. /\ s \in Seq(Frame) /\ Len(s) = Len(Held) + 1 /\ s # << >>
          /\ \A i \in 1 .. Len(Held) : s[i] = Held[i]
          /\ s[Len(Held) + 1] = f
        BY <1>5, AppendProperties
    <1> HIDE DEF s
    <1>8. CASE frames[writeIdx] = NoFrame
        <2>1. Len(Held) = writeIdx /\ \A i \in 1 .. writeIdx : s[i] = frames[i - 1]
            BY <1>5, <1>7, <1>8
        <2>2. Len(Held') = writeIdx + 1
                 /\ \A i \in 1 .. writeIdx + 1 : Held'[i] = frames'[i - 1]
            <3>1. CASE writeIdx = Capacity - 1
                <4>1. writeIdx' = 0 /\ 0 \in 0 .. Capacity - 1
                    BY <1>1, <3>1
                <4>2. frames'[0] # NoFrame
                    BY <1>2, <1>3, <1>4, <3>1, <4>1
                <4> QED
                    BY <1>6, <3>1, <4>1, <4>2
            <3>2. CASE writeIdx # Capacity - 1
                <4>1. writeIdx' = writeIdx + 1 /\ writeIdx + 1 \in 0 .. Capacity - 1
                    BY <1>1, <1>2, <3>2
                <4>2. frames'[writeIdx + 1] = NoFrame
                    BY <1>2, <1>4, <1>8, <4>1
                <4> QED
                    BY <1>6, <4>1, <4>2
            <3> QED
                BY <3>1, <3>2
        <2>3. ASSUME NEW i \in 1 .. writeIdx + 1 PROVE frames'[i - 1] = s[i]
            <3>1. i - 1 \in 0 .. Capacity - 1
                BY <1>2
            <3>2. CASE i = writeIdx + 1
                BY <1>2, <1>4, <1>7, <2>1, <3>1, <3>2
            <3>3. CASE i # writeIdx + 1
                BY <1>2, <1>4, <2>1, <3>1, <3>3
            <3> QED
                BY <3>2, <3>3
        <2>4. Held' = s
            <3>1. Held' \in Seq(Frame)
                BY <1>6
            <3>2. Len(Held') = Len(s)
                BY <1>7, <2>1, <2>2
            <3>3. \A i \in 1 .. Len(Held') : Held'[i] = s[i]
                BY <2>2, <2>3
            <3> QED
                BY <1>7, <3>1, <3>2, <3>3, SeqEqual
        <2>5. ~(Len(s) > Capacity)
            BY <1>2, <1>7, <2>1
        <2> QED
            BY <2>4, <2>5 DEF s
    <1>9. CASE frames[writeIdx] # NoFrame
        <2>1. Len(Held) = Capacity /\ Len(s) > Capacity
            BY <1>5, <1>7, <1>9
        <2>2. /\ Tail(s) \in Seq(Frame) /\ Len(Tail(s)) = Capacity
              /\ \A i \in 1 .. Capacity : Tail(s)[i] = s[i + 1]
            BY <1>7, <2>1, HeadTailProperties
        <2>3. frames'[writeIdx'] # NoFrame /\ writeIdx' \in 0 .. Capacity - 1
            <3>1. writeIdx' \in 0 .. Capacity - 1
                BY <1>1, <1>2
            <3> QED
                BY <1>3, <1>4, <1>9, <3>1
        <2>4. Len(Held') = Capacity
            BY <1>6, <2>3
        <2>5. ASSUME NEW i \in 1 .. Capacity PROVE Held'[i] = s[i + 1]
            <3>1. Held'[i] = IF writeIdx' + i - 1 < Capacity
                             THEN frames'[writeIdx' + i - 1]
                             ELSE frames'[writeIdx' + i - 1 - Capacity]
                BY <1>6, <2>3, <2>4
            <3>2. CASE i = Capacity
                <4>1. s[i + 1] = f
                    BY <1>7, <2>1, <3>2
                <4>2. Held'[i] = frames'[writeIdx]
                    BY <1>1, <1>2, <3>1, <3>2
                <4> QED
                    BY <1>2, <1>4, <4>1, <4>2
            <3>3. CASE i # Capacity
                <4>1. i + 1 \in 1 .. Len(Held)
                    BY <2>1, <3>3
                <4>2. s[i + 1] = IF writeIdx + i < Capacity THEN frames[writeIdx + i]
                                 ELSE frames[writeIdx + i - Capacity]
                    <5>1. s[i + 1] = Held[i + 1] /\ (i + 1) - 1 = i
                             /\ writeIdx + (i + 1) - 1 = writeIdx + i
                        BY <1>2, <1>7, <4>1
                    <5> QED
                        BY <1>5, <1>9, <4>1, <5>1
                <4>3. Held'[i] = IF writeIdx + i < Capacity THEN frames'[writeIdx + i]
                                 ELSE frames'[writeIdx + i - Capacity]
                    <5>1. CASE writeIdx = Capacity - 1
                        <6>1. /\ writeIdx' + i - 1 < Capacity
                              /\ writeIdx' + i - 1 = writeIdx + i - Capacity
                              /\ ~(writeIdx + i < Capacity)
                            BY <1>1, <5>1
                        <6> QED
                            BY <3>1, <6>1
                    <5>2. CASE writeIdx # Capacity - 1
                        <6>1. /\ writeIdx' + i - 1 = writeIdx + i
                              /\ writeIdx' + i - 1 - Capacity = writeIdx + i - Capacity
                            BY <1>1, <1>2, <5>2
                        <6> QED
                            BY <3>1, <6>1
                    <5> QED
                        BY <5>1, <5>2
                <4>4. /\ writeIdx + i < Capacity =>
                            writeIdx + i \in 0 .. Capacity - 1 /\ writeIdx + i # writeIdx
                      /\ ~(writeIdx + i < Capacity) =>
                            /\ writeIdx + i - Capacity \in 0 .. Capacity - 1
                            /\ writeIdx + i - Capacity # writeIdx
                    BY <1>2, <3>3
                <4> QED
                    BY <1>4, <4>2, <4>3, <4>4
            <3> QED
                BY <3>2, <3>3
        <2>6. Held' = Tail(s)
            BY <1>6, <2>2, <2>4, <2>5, SeqEqual
        <2> QED
            BY <2>1, <2>6 DEF s
    <1> QED
        BY <1>8, <1>9

-----------------------------------------------------------------------------
(* What is in flight *)

LEMMA HandType ==
    ASSUME Inv
    PROVE  /\ Held \in Seq(Frame) /\ queue \in Seq(Frame)
           /\ Held \o queue \in Seq(Frame)
           /\ InTheHand \in Seq(Frame) /\ InFlight \in Seq(Frame)
    <1>1. Held \in Seq(Frame)
        BY HeldType DEF HeldForm, Inv, TypeOK
    <1>2. queue \in Seq(Frame) /\ (hand # NoFrame => hand \in Frame)
        BY DEF Inv, TypeOK
    <1>3. InTheHand \in Seq(Frame)
        BY <1>2 DEF InTheHand
    <1>4. Held \o queue \in Seq(Frame)
        BY <1>1, <1>2, ConcatProperties
    <1> QED
        BY <1>1, <1>2, <1>3, <1>4, ConcatProperties DEF InFlight

\* The camera appends to what is in flight or takes back what the channel has
\* refused; the ring forgets the oldest; nothing else changes it.
LEMMA InFlightStep ==
    ASSUME Inv, [Next]_vars
    PROVE  \/ /\ InFlight' = InFlight /\ nextId' >= nextId /\ clock' >= clock
              /\ \/ UNCHANGED <<hand, nextId>>
                 \/ hand # NoFrame /\ hand' = NoFrame /\ nextId' = nextId + 1
           \/ /\ Capture
              /\ InFlight' = Append(InFlight, hand')
           \/ /\ InFlight \in Seq(Frame) /\ InFlight = Append(InFlight', hand)
              /\ InFlight' \in Seq(Frame)
              /\ hand' = NoFrame /\ nextId' = nextId + 1 /\ clock' = clock
           \/ /\ InFlight # << >> /\ InFlight' = Tail(InFlight)
              /\ UNCHANGED <<hand, nextId, clock>>
    <1>0. NoFrame' = NoFrame
        BY DEF NoFrame, Buffer!NoFrame
    <1>1. ASSUME UNCHANGED buffer PROVE Held' = Held
        BY <1>0, <1>1 DEF Held, buffer
    <1>2. ASSUME UNCHANGED <<buffer, queue, hand>> PROVE InFlight' = InFlight
        BY <1>0, <1>1, <1>2 DEF InFlight, InTheHand
    <1>3. clock \in Int /\ nextId \in Int
        BY DEF Inv, TypeOK, Id
    <1>4. CASE UNCHANGED vars
        BY <1>2, <1>3, <1>4 DEF vars
    <1>5. CASE Advance
        BY <1>2, <1>3, <1>5 DEF Advance
    <1>6. CASE BeginTick \/ Pick \/ EndTick
        BY <1>2, <1>3, <1>6 DEF BeginTick, Pick, EndTick
    <1>7. CASE Capture
        <2>1. hand' \in Frame /\ hand' # NoFrame
            BY <1>7, FrameFacts DEF Capture, Inv, TypeOK, Frame, Id
        <2>2. Held' \o queue' = Held \o queue
            BY <1>1, <1>7 DEF Capture
        <2>3. InTheHand = << >> /\ InTheHand' = <<hand'>>
            BY <1>0, <1>7, <2>1 DEF Capture, InTheHand
        <2>4. InFlight = Held \o queue
            BY <2>3, HandType, ConcatEmptySeq DEF InFlight
        <2>5. InFlight' = (Held \o queue) \o <<hand'>>
            BY <2>2, <2>3 DEF InFlight
        <2>6. InFlight' = Append(InFlight, hand')
            BY <2>1, <2>4, <2>5, HandType, AppendIsConcat
        <2> QED
            BY <1>7, <2>6
    <1>8. CASE Send
        <2>1. /\ hand \in Frame /\ hand # NoFrame /\ hand' = NoFrame /\ clock' = clock
              /\ nextId' = nextId + 1
            BY <1>8 DEF Send, Inv, TypeOK
        <2>2. Held' = Held
            BY <1>1, <1>8 DEF Send
        <2>3. InTheHand = <<hand>> /\ InTheHand' = << >>
            BY <1>0, <2>1 DEF InTheHand
        <2>4. InFlight = Append(Held \o queue, hand)
            BY <2>1, <2>3, HandType, AppendIsConcat DEF InFlight
        <2>5. CASE queue' = Append(queue, hand)
            <3>1. Held' \o queue' = Append(Held \o queue, hand)
                BY <2>1, <2>2, <2>5, HandType, AppendConcat
            <3>2. InFlight' = InFlight
                BY <2>3, <2>4, <3>1, HandType, ConcatEmptySeq DEF InFlight
            <3> QED
                BY <1>3, <2>1, <3>2
        <2>6. CASE queue' = queue
            <3>1. InFlight' = Held \o queue
                BY <2>2, <2>3, <2>6, HandType, ConcatEmptySeq DEF InFlight
            <3> QED
                BY <2>1, <2>4, <3>1, HandType
        <2> QED
            BY <1>8, <2>5, <2>6 DEF Send
    <1>9. CASE Receive
        <2>1. queue # << >> /\ Head(queue) \in Frame /\ Tail(queue) \in Seq(Frame)
            BY <1>9, HandType, HeadTailProperties DEF Receive
        <2> DEFINE s == Append(Held, Head(queue))
        <2>2. Held' = IF Len(s) > Capacity THEN Tail(s) ELSE s
            BY <1>9, <2>1, PushSlides DEF Receive, Inv, TypeOK
        <2>3. s \in Seq(Frame) /\ s # << >> /\ s \o Tail(queue) = Held \o queue
            BY <2>1, HandType, AppendProperties, ShiftConcat
        <2> HIDE DEF s
        <2>4. queue' = Tail(queue) /\ InTheHand' = InTheHand
            BY <1>0, <1>9 DEF Receive, InTheHand
        <2>5. UNCHANGED <<hand, nextId, clock>>
            BY <1>9 DEF Receive
        <2>6. CASE Held' = s
            <3>1. InFlight' = InFlight
                BY <2>3, <2>4, <2>6 DEF InFlight
            <3> QED
                BY <1>3, <2>5, <3>1
        <2>7. CASE Held' = Tail(s)
            <3>1. Tail(s) \o Tail(queue) = Tail(Held \o queue) /\ Held \o queue # << >>
                BY <2>1, <2>3, TailConcat
            <3>2. InFlight # << >> /\ Tail(Held \o queue) \o InTheHand = Tail(InFlight)
                BY <3>1, HandType, TailConcat DEF InFlight
            <3>3. InFlight' = Tail(InFlight)
                BY <2>4, <2>7, <3>1, <3>2 DEF InFlight
            <3> QED
                BY <2>5, <3>2, <3>3
        <2> QED
            BY <2>2, <2>6, <2>7
    <1> QED
        BY <1>4, <1>5, <1>6, <1>7, <1>8, <1>9 DEF Next, Camera, Scheduler


LEMMA OrderNext ==
    ASSUME Inv, Ordered(InFlight), Past, [Next]_vars
    PROVE  Ordered(InFlight') /\ Past'
    <1> DEFINE F == InFlight
    <1>1. F \in Seq(Frame) /\ Len(F) \in Nat /\ DOMAIN F = 1 .. Len(F)
        BY HandType
    <1>2. \A f \in Frame : f.ts \in Int /\ f.id \in Int
        BY FrameFacts
    <1>3. \A i \in 1 .. Len(F) : F[i].ts \in Int /\ F[i].id \in Int
        BY <1>1, <1>2
    <1>4. clock \in Int /\ nextId \in Int
        BY DEF Inv, TypeOK, Id
    <1>5. \A i \in 1 .. Len(F) :
             /\ F[i].ts <= clock
             /\ F[i].id <= nextId
             /\ hand = NoFrame => F[i].id < nextId
        BY <1>1 DEF Past
    <1>6. \A i, j \in 1 .. Len(F) : i < j => F[i].id < F[j].id /\ F[i].ts <= F[j].ts
        BY <1>1 DEF Ordered
    <1>7. NoFrame' = NoFrame
        BY DEF NoFrame, Buffer!NoFrame
    <1> HIDE DEF F
    <1>8. CASE /\ F' = F /\ nextId' >= nextId /\ clock' >= clock
               /\ \/ UNCHANGED <<hand, nextId>>
                  \/ hand # NoFrame /\ hand' = NoFrame /\ nextId' = nextId + 1
        <2>1. nextId' \in Int /\ clock' \in Int
            BY NextInv DEF Inv, TypeOK, Id
        <2>2. ASSUME NEW i \in 1 .. Len(F)
              PROVE  F[i].ts <= clock' /\ F[i].id <= nextId'
                        /\ (hand' = NoFrame => F[i].id < nextId')
            BY <1>3, <1>4, <1>5, <1>8, <2>1
        <2>3. Past'
            BY <1>1, <1>7, <1>8, <2>2 DEF Past, F
        <2>4. Ordered(F')
            BY <1>1, <1>6, <1>8 DEF Ordered
        <2> QED
            BY <2>3, <2>4 DEF F
    <1>9. CASE Capture /\ F' = Append(F, hand')
        <2>1. /\ hand = NoFrame /\ hand' = [ts |-> clock, id |-> nextId]
              /\ hand' \in Frame /\ hand' # NoFrame
              /\ nextId' = nextId /\ clock' = clock
            BY <1>9, FrameFacts DEF Capture, Inv, TypeOK, Frame, Id
        <2>2. /\ Len(F') = Len(F) + 1 /\ F' \in Seq(Frame)
              /\ \A i \in 1 .. Len(F) : F'[i] = F[i]
              /\ F'[Len(F) + 1] = hand' /\ DOMAIN F' = 1 .. Len(F')
            BY <1>1, <1>9, <2>1, AppendProperties
        <2>3. ASSUME NEW i \in 1 .. Len(F')
              PROVE  F'[i].ts <= clock /\ F'[i].id <= nextId
            BY <1>1, <1>4, <1>5, <2>1, <2>2
        <2>4. Past'
            BY <1>7, <2>1, <2>2, <2>3 DEF Past, F
        <2>5. ASSUME NEW i \in 1 .. Len(F'), NEW j \in 1 .. Len(F'), i < j
              PROVE  F'[i].id < F'[j].id /\ F'[i].ts <= F'[j].ts
            <3>1. i \in 1 .. Len(F) /\ F'[i] = F[i]
                BY <1>1, <2>2, <2>5
            <3>2. CASE j = Len(F) + 1
                BY <1>5, <2>1, <2>2, <3>1, <3>2
            <3>3. CASE j # Len(F) + 1
                <4>1. j \in 1 .. Len(F) /\ F'[j] = F[j]
                    BY <1>1, <2>2, <3>3
                <4> QED
                    BY <1>6, <2>5, <3>1, <4>1
            <3> QED
                BY <3>2, <3>3
        <2>6. Ordered(F')
            BY <2>2, <2>5 DEF Ordered
        <2> QED
            BY <2>4, <2>6 DEF F
    <1>10. CASE /\ F = Append(F', hand) /\ F \in Seq(Frame) /\ F' \in Seq(Frame)
                /\ hand' = NoFrame /\ nextId' = nextId + 1 /\ clock' = clock
        <2>1. /\ Len(F) = Len(F') + 1 /\ Len(F') \in Nat
              /\ \A i \in 1 .. Len(F') : F'[i] = F[i] /\ i \in 1 .. Len(F)
              /\ DOMAIN F' = 1 .. Len(F')
            BY <1>10
        <2>2. ASSUME NEW i \in 1 .. Len(F')
              PROVE  F'[i].ts <= clock /\ F'[i].id <= nextId + 1 /\ F'[i].id < nextId + 1
            <3>1. F'[i] = F[i] /\ i \in 1 .. Len(F)
                BY <2>1
            <3> QED
                BY <1>3, <1>4, <1>5, <3>1
        <2>3. Past'
            BY <1>10, <2>1, <2>2 DEF Past, F
        <2>4. Ordered(F')
            BY <1>6, <2>1 DEF Ordered
        <2> QED
            BY <2>3, <2>4 DEF F
    <1>11. CASE F # << >> /\ F' = Tail(F) /\ UNCHANGED <<hand, nextId, clock>>
        <2>1. /\ F' \in Seq(Frame) /\ Len(F') = Len(F) - 1 /\ DOMAIN F' = 1 .. Len(F')
              /\ \A i \in 1 .. Len(F') : F'[i] = F[i + 1] /\ i + 1 \in 1 .. Len(F)
            BY <1>1, <1>11, HeadTailProperties
        <2>2. ASSUME NEW i \in 1 .. Len(F')
              PROVE  /\ F'[i].ts <= clock' /\ F'[i].id <= nextId'
                     /\ hand' = NoFrame' => F'[i].id < nextId'
            BY <1>5, <1>7, <1>11, <2>1
        <2>3. Past'
            BY <2>1, <2>2 DEF Past, F
        <2>4. ASSUME NEW i \in 1 .. Len(F'), NEW j \in 1 .. Len(F'), i < j
              PROVE  F'[i].id < F'[j].id /\ F'[i].ts <= F'[j].ts
            <3>1. i + 1 \in 1 .. Len(F) /\ j + 1 \in 1 .. Len(F) /\ i + 1 < j + 1
                BY <2>1, <2>4
            <3> QED
                BY <1>6, <2>1, <3>1
        <2>5. Ordered(F')
            BY <2>1, <2>4 DEF Ordered
        <2> QED
            BY <2>3, <2>5 DEF F
    <1> QED
        BY <1>8, <1>9, <1>10, <1>11, InFlightStep DEF F

LEMMA FoundNext ==
    ASSUME Inv, Found, [Next]_vars
    PROVE  Found'
    <1> DEFINE Queued == {queue[i].id : i \in DOMAIN queue}
               Place == dropped \cup ToSet(pushed) \cup Queued
    <1>0. nextId \in Nat /\ queue \in Seq(Frame) /\ pushed \in Seq(Id)
        BY DEF Inv, TypeOK, Id
    <1>1. \A id \in 0 .. nextId - 1 : id \in Place
        BY DEF Found
    <1>2. CASE UNCHANGED <<dropped, pushed, queue, nextId>>
        BY <1>2 DEF Found
    <1>3. CASE Send
        <2>1. nextId' = nextId + 1 /\ hand.id = nextId /\ hand \in Frame
            BY <1>3 DEF Send, Inv, InHand, TypeOK
        <2>2. Place \subseteq Place' /\ nextId \in Place'
            <3>1. CASE queue' = Append(queue, hand) /\ UNCHANGED dropped
                <4>1. /\ DOMAIN queue' = 1 .. Len(queue) + 1 /\ DOMAIN queue = 1 .. Len(queue)
                      /\ \A i \in 1 .. Len(queue) : queue'[i] = queue[i]
                      /\ queue'[Len(queue) + 1] = hand /\ Len(queue) \in Nat
                    BY <1>0, <2>1, <3>1
                <4>2. Queued \subseteq Queued' /\ nextId \in Queued'
                    BY <2>1, <4>1
                <4>3. pushed' = pushed
                    BY <1>3 DEF Send
                <4> QED
                    BY <3>1, <4>2, <4>3
            <3>2. CASE dropped' = dropped \cup {hand.id} /\ UNCHANGED queue
                BY <1>3, <2>1, <3>2 DEF Send
            <3> QED
                BY <1>3, <3>1, <3>2 DEF Send
        <2>3. \A id \in 0 .. nextId' - 1 : id \in 0 .. nextId - 1 \/ id = nextId
            BY <1>0, <2>1
        <2> QED
            BY <1>1, <2>2, <2>3 DEF Found
    <1>4. CASE Receive
        <2>1. /\ queue # << >> /\ queue' = Tail(queue)
              /\ pushed' = Append(pushed, Head(queue).id)
              /\ UNCHANGED <<dropped, nextId>>
            BY <1>4 DEF Receive
        <2>2. /\ Head(queue) = queue[1] /\ queue[1] \in Frame /\ Len(queue) \in Nat \ {0}
              /\ DOMAIN queue = 1 .. Len(queue) /\ DOMAIN queue' = 1 .. Len(queue) - 1
              /\ \A i \in 1 .. Len(queue) - 1 : queue'[i] = queue[i + 1]
            BY <1>0, <2>1
        <2>3. queue[1].id \in Id
            BY <2>2, FrameFacts DEF Id
        <2>4. ToSet(pushed') = ToSet(pushed) \cup {queue[1].id}
            BY <1>0, <2>1, <2>2, <2>3, ToSetAppend
        <2>5. Queued \subseteq Queued' \cup {queue[1].id}
            <3> SUFFICES ASSUME NEW i \in 1 .. Len(queue)
                         PROVE  queue[i].id \in Queued' \cup {queue[1].id}
                BY <2>2
            <3>1. CASE i = 1
                BY <3>1
            <3>2. CASE i # 1
                <4>1. i - 1 \in 1 .. Len(queue) - 1 /\ queue'[i - 1] = queue[i]
                    BY <2>2, <3>2
                <4> QED
                    BY <2>2, <4>1
            <3> QED
                BY <3>1, <3>2
        <2> HIDE DEF Queued
        <2>6. Place \subseteq Place'
            BY <2>1, <2>4, <2>5
        <2> QED
            BY <1>1, <2>1, <2>6 DEF Found, Queued
    <1> QED
        BY <1>2, <1>3, <1>4 DEF Next, Camera, Scheduler, vars, Advance, Capture,
           BeginTick, Pick, EndTick


-----------------------------------------------------------------------------
(* Theorems *)

LEMMA InitIInv == Init => IInv
    <1> SUFFICES ASSUME Init PROVE IInv
        OBVIOUS
    <1>1. Inv
        BY InitInv
    <1>2. writeIdx = 0 /\ queue = << >> /\ hand = NoFrame /\ frames[0] = NoFrame
             /\ nextId = 0
        BY FrameFacts DEF Init, Buffer!Init, NoFrame
    <1>3. Held = << >> /\ InTheHand = << >>
        BY <1>2 DEF Held, InTheHand
    <1>4. InFlight = << >>
        BY <1>2, <1>3 DEF InFlight
    <1>5. Ordered(InFlight) /\ Past
        BY <1>4 DEF Ordered, Past
    <1>6. Found
        BY <1>2 DEF Found
    <1> QED
        BY <1>1, <1>5, <1>6 DEF IInv

LEMMA IInvAlways == Spec => []IInv
    <1>1. IInv /\ [Next]_vars => IInv'
        BY NextInv, OrderNext, FoundNext DEF IInv, Ordered
    <1> QED
        BY <1>1, InitIInv, PTL DEF Spec

\* Types: the channel holds at most QueueCap frames and the write index never
\* leaves the ring, whatever the camera and the scheduler do.
THEOREM TypeCorrect == Spec => []TypeOK
    <1>1. IInv => TypeOK
        BY DEF IInv, Inv
    <1> QED
        BY <1>1, IInvAlways, PTL

\* Each frame offered to the channel is in it, has reached the buffer, or is
\* counted in frame_drops, exactly once.
THEOREM AccountedHolds == Spec => []Accounted
    <1>1. IInv => Accounted
        BY DEF IInv, Inv
    <1> QED
        BY <1>1, IInvAlways, PTL

\* Along the ring, the channel and the camera's hand, ids increase and stamps
\* never decrease, wherever the ring has wrapped and whatever was refused.
THEOREM InOrderHolds == Spec => []InOrder
    <1>1. IInv => InOrder
        BY ContentsHeld DEF IInv, Inv, TypeOK, InOrder, Ordered, InFlight, InTheHand
    <1> QED
        BY <1>1, IInvAlways, PTL

\* A frame held is in a slot.
LEMMA HeldInSlots ==
    ASSUME Buffer!TypeOK, Shape, NEW f \in ToSet(Held)
    PROVE  \E k \in Buffer!Filled : f = frames[k]
    <1>0. HeldForm
        BY HeldType
    <1>1. PICK i \in 1 .. Len(Held) : f = Held[i]
        BY <1>0 DEF ToSet, HeldForm
    <1>2. writeIdx \in 0 .. Capacity - 1
        BY FrameFacts DEF Buffer!TypeOK
    <1>3. \E k \in 0 .. Capacity - 1 : f = frames[k]
        <2>1. CASE frames[writeIdx] = NoFrame
            <3>1. i - 1 \in 0 .. Capacity - 1 /\ f = frames[i - 1]
                BY <1>0, <1>1, <1>2, <2>1 DEF HeldForm
            <3> QED
                BY <3>1
        <2>2. CASE frames[writeIdx] # NoFrame /\ writeIdx + i - 1 < Capacity
            <3>1. /\ writeIdx + i - 1 \in 0 .. Capacity - 1
                  /\ f = frames[writeIdx + i - 1]
                BY <1>0, <1>1, <1>2, <2>2 DEF HeldForm
            <3> QED
                BY <3>1
        <2>3. CASE frames[writeIdx] # NoFrame /\ ~(writeIdx + i - 1 < Capacity)
            <3>1. /\ writeIdx + i - 1 - Capacity \in 0 .. Capacity - 1
                  /\ f = frames[writeIdx + i - 1 - Capacity]
                BY <1>0, <1>1, <1>2, <2>3 DEF HeldForm
            <3> QED
                BY <3>1
        <2> QED
            BY <2>1, <2>2, <2>3
    <1>4. f # NoFrame
        BY <1>0, <1>1, FrameFacts DEF HeldForm
    <1> QED
        BY <1>3, <1>4, FrameFacts DEF Buffer!Filled, NoFrame

\* When a tick goes on to its detectors every frame offered has been refused or
\* has reached the ring, which holds none fresher than the tick's.
THEOREM NoBacklogHolds == Spec => NoBacklog
    <1> DEFINE A == (tick = "drain" /\ tick' = "run") =>
                       /\ \A id \in 0 .. nextId - 1 : id \in dropped \cup ToSet(pushed)
                       /\ \A f \in ToSet(Buffer!Contents) : f.ts <= latest'.ts
    <1>1. IInv /\ [Next]_vars => A
        <2> SUFFICES ASSUME IInv, [Next]_vars, tick = "drain", tick' = "run"
                     PROVE  /\ \A id \in 0 .. nextId - 1 :
                                  id \in dropped \cup ToSet(pushed)
                            /\ \A f \in ToSet(Buffer!Contents) : f.ts <= latest'.ts
            OBVIOUS
        <2>1. Pick
            BY DEF Next, vars, Advance, Camera, Capture, Send, Scheduler, BeginTick,
               Receive, EndTick
        <2>2. \A id \in 0 .. nextId - 1 : id \in dropped \cup ToSet(pushed)
            <3>1. {queue[i].id : i \in DOMAIN queue} = {}
                BY <2>1 DEF Pick
            <3> QED
                BY <3>1 DEF IInv, Found
        <2>3. Buffer!TypeOK /\ Shape /\ Buffer!Contents = Held
            BY ContentsHeld DEF IInv, Inv, TypeOK
        <2>4. \A f \in ToSet(Held) : \E k \in Buffer!Filled : f = frames[k]
            BY <2>3, HeldInSlots
        <2>5. ASSUME NEW f \in ToSet(Held) PROVE f.ts <= latest'.ts
            <3>1. PICK k \in Buffer!Filled : f = frames[k]
                BY <2>4
            <3>2. frames[k].ts <= Buffer!NewestFrame.ts
                BY <2>3, <3>1, NewestHolds
            <3> QED
                BY <2>1, <3>1, <3>2 DEF Pick
        <2> QED
            BY <2>2, <2>3, <2>5
    <1> QED
        BY <1>1, IInvAlways, PTL DEF Spec, NoBacklog

Unrolled == Buffer!Contents = Held

LEMMA ContentsHeldNext ==
    Buffer!TypeOK' /\ Shape' => Unrolled'
    <1>1. Buffer!TypeOK /\ Shape => Unrolled
        BY ContentsHeld DEF Unrolled
    <1> QED
        BY <1>1, PTL

\* The ring with its wrapping index implements the last Capacity frames pushed:
\* the initial ring is the empty window, and each step of the intake is a push
\* of the window or leaves it alone.
THEOREM KeepsLastFramesHolds == Spec => KeepsLastFrames
    <1>1. Init => Buffer!Window!Init
        <2> SUFFICES ASSUME Init PROVE Buffer!Contents = << >>
            BY DEF Buffer!Window!Init
        <2>1. Buffer!TypeOK /\ Shape
            BY InitInv DEF Inv, TypeOK
        <2>2. Held = << >>
            BY FrameFacts DEF Init, Buffer!Init, NoFrame, Held
        <2> QED
            BY <2>1, <2>2, ContentsHeld
    <1>2. IInv /\ IInv' /\ [Next]_vars => [Buffer!Window!Next]_(Buffer!Contents)
        <2> SUFFICES ASSUME IInv, IInv', [Next]_vars
                     PROVE  Buffer!Window!Next \/ Buffer!Contents' = Buffer!Contents
            OBVIOUS
        <2>1. Buffer!TypeOK /\ Shape /\ Buffer!TypeOK' /\ Shape' /\ queue \in Seq(Frame)
            BY DEF IInv, Inv, TypeOK
        <2>2. Buffer!Contents = Held /\ Buffer!Contents' = Held'
            BY <2>1, ContentsHeld, ContentsHeldNext DEF Unrolled
        <2>3. CASE Receive
            <3>1. Head(queue) \in Frame /\ Buffer!Push(Head(queue))
                BY <2>1, <2>3, HeadTailProperties DEF Receive
            <3>2. Held' = IF Len(Append(Held, Head(queue))) > Capacity
                          THEN Tail(Append(Held, Head(queue)))
                          ELSE Append(Held, Head(queue))
                BY <2>1, <3>1, PushSlides
            <3>3. Buffer!Window!Push(Head(queue))
                BY <2>2, <3>2 DEF Buffer!Window!Push, Buffer!Window!LastOf
            <3> QED
                BY <3>1, <3>3 DEF Buffer!Window!Next
        <2>4. CASE ~Receive
            <3>1. UNCHANGED buffer
                BY <2>4 DEF Next, vars, Advance, Camera, Capture, Send, Scheduler,
                   BeginTick, Pick, EndTick
            <3>2. Held' = Held
                BY <3>1 DEF Held, buffer, NoFrame, Buffer!NoFrame
            <3> QED
                BY <2>2, <3>2
        <2> QED
            BY <2>3, <2>4
    <1> QED
        BY <1>1, <1>2, IInvAlways, PTL DEF Spec, KeepsLastFrames, Buffer!Window!Spec

-----------------------------------------------------------------------------
(* Slices *)

\* s has the slots of T in the order of the sort.
Sorts(s, T) ==
    /\ s \in [1 .. Cardinality(T) -> T] /\ ToSet(s) = T
    /\ \A m, n \in DOMAIN s : m < n => Buffer!Earlier(s[m], s[n])

LEMMA FilledFacts ==
    ASSUME Buffer!TypeOK
    PROVE  /\ Buffer!Filled \subseteq 0 .. Capacity - 1 /\ IsFiniteSet(Buffer!Filled)
           /\ \A k \in Buffer!Filled : frames[k] \in Frame /\ frames[k].ts \in 0 .. MaxTime
    <1>1. /\ Buffer!Filled \subseteq 0 .. Capacity - 1
          /\ \A k \in Buffer!Filled : frames[k] \in Frame /\ frames[k].ts \in 0 .. MaxTime
        BY FrameFacts DEF Buffer!TypeOK, Buffer!Filled, Buffer!Slots
    <1>2. IsFiniteSet(0 .. Capacity - 1)
        <2>1. 0 \in Int /\ Capacity - 1 \in Int
            OBVIOUS
        <2> QED
            BY ONLY <2>1, FS_Interval, Zenon
    <1> QED
        BY <1>1, <1>2, FS_Subset

LEMMA LastSlot ==
    ASSUME Buffer!TypeOK, NEW T \in SUBSET Buffer!Filled, T # {}
    PROVE  \E g \in T : \A k \in T : k # g => Buffer!Earlier(k, g)
    <1>1. /\ T \subseteq 0 .. Capacity - 1
          /\ \A k \in T : frames[k].ts \in 0 .. MaxTime
        BY FilledFacts
    <1> DEFINE Stamps == {frames[k].ts : k \in T}
    <1>2. PICK t \in Stamps : \A u \in Stamps : u <= t
        <2>1. Stamps \in SUBSET (0 .. MaxTime) /\ Stamps # {} /\ MaxTime \in Nat
            BY <1>1
        <2> QED
            BY ONLY <2>1, Greatest
    <1> DEFINE Newest == {k \in T : frames[k].ts = t}
    <1>3. PICK g \in Newest : \A k \in Newest : k <= g
        <2>1. Newest \in SUBSET (0 .. Capacity) /\ Capacity \in Nat
            <3>1. Capacity \in Nat /\ 0 .. Capacity - 1 \subseteq 0 .. Capacity
                OBVIOUS
            <3>2. Newest \subseteq T
                OBVIOUS
            <3> QED
                BY <1>1, <3>1, <3>2
        <2>2. Newest # {}
            <3>1. PICK k \in T : t = frames[k].ts
                OBVIOUS
            <3> QED
                BY <3>1
        <2> QED
            BY ONLY <2>1, <2>2, Greatest
    <1>4. ASSUME NEW k \in T, k # g PROVE Buffer!Earlier(k, g)
        <2>1. frames[k].ts <= t /\ frames[g].ts = t /\ (frames[k].ts = t => k <= g)
            BY <1>2, <1>3
        <2>2. k \in Int /\ g \in Int /\ frames[k].ts \in Int /\ t \in Int
            BY <1>1
        <2> QED
            BY <1>4, <2>1, <2>2 DEF Buffer!Earlier
    <1> QED
        BY <1>3, <1>4

\* Any set of slots can be sorted.
LEMMA SortExists ==
    ASSUME Buffer!TypeOK, NEW T \in SUBSET Buffer!Filled
    PROVE  \E s : Sorts(s, T)
    <1> DEFINE N == {n \in Nat : \A U \in SUBSET Buffer!Filled :
                        Cardinality(U) = n => \E s : Sorts(s, U)}
    <1>1. \A U \in SUBSET Buffer!Filled : IsFiniteSet(U) /\ Cardinality(U) \in Nat
        BY FilledFacts, FS_Subset, FS_CardinalityType
    <1>2. 0 \in N
        <2> SUFFICES ASSUME NEW U \in SUBSET Buffer!Filled, Cardinality(U) = 0
                     PROVE  \E s : Sorts(s, U)
            OBVIOUS
        <2>1. U = {}
            BY <1>1, FS_EmptySet
        <2> DEFINE s == [n \in 1 .. 0 |-> 0]
        <2>2. DOMAIN s = {} /\ s \in [1 .. 0 -> U] /\ ToSet(s) = {}
            BY DEF ToSet
        <2> HIDE DEF s
        <2>3. Sorts(s, U)
            BY <2>1, <2>2 DEF Sorts
        <2> QED
            BY <2>3
    <1>3. ASSUME NEW n \in N PROVE n + 1 \in N
        <2> SUFFICES ASSUME NEW U \in SUBSET Buffer!Filled, Cardinality(U) = n + 1
                     PROVE  \E s : Sorts(s, U)
            OBVIOUS
        <2>1. U # {}
            BY FS_EmptySet
        <2>2. PICK g \in U : \A k \in U : k # g => Buffer!Earlier(k, g)
            BY <2>1, LastSlot
        <2> DEFINE V == U \ {g}
        <2>3. V \in SUBSET Buffer!Filled /\ Cardinality(V) = n
            BY <1>1, FS_RemoveElement
        <2>4. PICK r : Sorts(r, V)
            BY <2>3
        <2> DEFINE s == [i \in 1 .. n + 1 |-> IF i = n + 1 THEN g ELSE r[i]]
        <2>5. r \in [1 .. n -> V] /\ ToSet(r) = V
              /\ \A i, j \in 1 .. n : i < j => Buffer!Earlier(r[i], r[j])
            BY <2>3, <2>4 DEF Sorts
        <2>6. 1 .. n + 1 = (1 .. n) \cup {n + 1} /\ n + 1 \notin 1 .. n
            OBVIOUS
        <2>7. /\ DOMAIN s = 1 .. n + 1 /\ s[n + 1] = g /\ \A i \in 1 .. n : s[i] = r[i]
              /\ s = [i \in 1 .. n + 1 |-> s[i]]
            BY <2>6
        <2> HIDE DEF s
        <2>8. s \in [1 .. n + 1 -> U]
            BY <2>5, <2>6, <2>7
        <2>9. ToSet(s) = U
            <3>1. ToSet(s) = {s[i] : i \in 1 .. n} \cup {g}
                BY <2>6, <2>7 DEF ToSet
            <3>2. ToSet(r) = {s[i] : i \in 1 .. n}
                BY <2>5, <2>7 DEF ToSet
            <3> QED
                BY <2>5, <3>1, <3>2
        <2>10. ASSUME NEW i \in 1 .. n + 1, NEW j \in 1 .. n + 1, i < j
               PROVE  Buffer!Earlier(s[i], s[j])
            <3>0. i \in 1 .. n
                BY <2>10
            <3>1. CASE j = n + 1
                <4>1. s[j] = g /\ s[i] \in V
                    BY <2>5, <2>7, <3>0, <3>1
                <4> QED
                    BY <2>2, <4>1
            <3>2. CASE j # n + 1
                <4>1. j \in 1 .. n
                    BY <3>2
                <4> QED
                    BY <2>5, <2>7, <2>10, <3>0, <4>1
            <3> QED
                BY <3>1, <3>2
        <2>11. Sorts(s, U)
            BY <2>7, <2>8, <2>9, <2>10 DEF Sorts
        <2> QED
            BY <2>11
    <1>4. N \in SUBSET Nat
        OBVIOUS
    <1> HIDE DEF N
    <1>5. N = Nat
        BY <1>2, <1>3, <1>4, NatSetInduction
    <1>6. Cardinality(T) \in N
        BY <1>1, <1>5
    <1> QED
        BY <1>6 DEF N

LEMMA SliceSorted ==
    ASSUME Buffer!TypeOK, NEW start, NEW end
    PROVE  \E s : /\ Sorts(s, Buffer!Inside(start, end))
                  /\ Buffer!Slice(start, end) = [n \in DOMAIN s |-> frames[s[n]]]
    <1> DEFINE T == Buffer!Inside(start, end)
               Good(s) == /\ Buffer!ToSet(s) = T
                          /\ \A m, n \in DOMAIN s : m < n => Buffer!Earlier(s[m], s[n])
               slots == CHOOSE s \in [1 .. Buffer!Cardinality(T) -> T] : Good(s)
    <1>1. Buffer!Cardinality(T) = Cardinality(T)
        BY DEF Buffer!Cardinality, Cardinality
    <1>2. \A s : Buffer!ToSet(s) = ToSet(s)
        BY DEF Buffer!ToSet, ToSet
    <1>3. Buffer!Slice(start, end) = [n \in DOMAIN slots |-> frames[slots[n]]]
        BY DEF Buffer!Slice
    <1>4. T \in SUBSET Buffer!Filled
        BY DEF Buffer!Inside
    <1> HIDE DEF T
    <1>5. PICK s : Sorts(s, T)
        BY <1>4, SortExists
    <1>6. s \in [1 .. Buffer!Cardinality(T) -> T] /\ Good(s)
        BY <1>1, <1>2, <1>5 DEF Sorts
    <1> HIDE DEF Good
    <1>7. slots \in [1 .. Buffer!Cardinality(T) -> T] /\ Good(slots)
        BY <1>6
    <1> HIDE DEF slots
    <1>8. Sorts(slots, T)
        BY <1>1, <1>2, <1>7 DEF Sorts, Good
    <1> QED
        BY <1>3, <1>8 DEF T

\* Where in the unrolled ring a slot is.
At(k) == IF frames[writeIdx] = NoFrame THEN k + 1
         ELSE IF k >= writeIdx THEN k - writeIdx + 1
         ELSE k - writeIdx + 1 + Capacity

LEMMA SlotsHeld ==
    ASSUME Buffer!TypeOK, Shape
    PROVE  /\ \A k \in Buffer!Filled : At(k) \in 1 .. Len(Held) /\ Held[At(k)] = frames[k]
           /\ \A j, k \in Buffer!Filled : At(j) = At(k) => j = k
    <1>0. HeldForm
        BY HeldType
    <1>1. /\ writeIdx \in 0 .. Capacity - 1
          /\ Buffer!Filled \subseteq 0 .. Capacity - 1
          /\ \A k \in Buffer!Filled : frames[k] # NoFrame
        BY FilledFacts, FrameFacts DEF Buffer!TypeOK
    <1>2. CASE frames[writeIdx] = NoFrame
        <2>1. \A k \in Buffer!Filled : At(k) = k + 1 /\ k < writeIdx
            BY <1>1, <1>2, FrameFacts DEF Shape, At
        <2> QED
            BY <1>0, <1>1, <1>2, <2>1 DEF HeldForm
    <1>3. CASE frames[writeIdx] # NoFrame
        <2>1. \A k \in Buffer!Filled : /\ k >= writeIdx => At(k) = k - writeIdx + 1
                                       /\ k < writeIdx => At(k) = k - writeIdx + 1 + Capacity
            BY <1>1, <1>3 DEF At
        <2>2. ASSUME NEW k \in Buffer!Filled
              PROVE  At(k) \in 1 .. Len(Held) /\ Held[At(k)] = frames[k]
            <3>1. CASE k >= writeIdx
                <4>1. At(k) \in 1 .. Capacity /\ writeIdx + At(k) - 1 = k /\ k < Capacity
                    BY <1>1, <2>1, <3>1
                <4> QED
                    BY <1>0, <1>3, <4>1 DEF HeldForm
            <3>2. CASE k < writeIdx
                <4>1. /\ At(k) \in 1 .. Capacity /\ writeIdx + At(k) - 1 - Capacity = k
                      /\ ~(writeIdx + At(k) - 1 < Capacity)
                    BY <1>1, <2>1, <3>2
                <4> QED
                    BY <1>0, <1>3, <4>1 DEF HeldForm
            <3> QED
                BY <1>1, <3>1, <3>2
        <2>3. \A j, k \in Buffer!Filled : At(j) = At(k) => j = k
            BY <1>1, <2>1
        <2> QED
            BY <2>2, <2>3
    <1> QED
        BY <1>2, <1>3

\* No two slots hold the same frame.
LEMMA SlotsDiffer ==
    ASSUME IInv, NEW j \in Buffer!Filled, NEW k \in Buffer!Filled, frames[j] = frames[k]
    PROVE  j = k
    <1>1. Inv /\ Buffer!TypeOK /\ Shape
        BY DEF IInv, Inv, TypeOK
    <1>2. Held \in Seq(Frame) /\ InFlight \in Seq(Frame) /\ Len(Held) \in Nat
          /\ \A i \in 1 .. Len(Held) : i \in DOMAIN InFlight /\ InFlight[i] = Held[i]
        <2>1. Held \in Seq(Frame) /\ queue \in Seq(Frame) /\ InTheHand \in Seq(Frame)
            BY <1>1, HandType
        <2> DEFINE a == Held  b == queue  c == InTheHand
        <2> HIDE DEF a, b, c
        <2>2. a \in Seq(Frame) /\ b \in Seq(Frame) /\ c \in Seq(Frame)
            BY <2>1 DEF a, b, c
        <2>3. /\ a \o b \in Seq(Frame) /\ Len(a \o b) = Len(a) + Len(b)
              /\ Len(a) \in Nat /\ Len(b) \in Nat /\ Len(c) \in Nat
              /\ \A i \in 1 .. Len(a) : (a \o b)[i] = a[i]
            BY <2>2, ConcatProperties, LenProperties
        <2>4. \A i \in 1 .. Len(a) : i \in DOMAIN (a \o b \o c) /\ (a \o b \o c)[i] = a[i]
            <3> DEFINE d == a \o b
            <3>1. d \in Seq(Frame) /\ Len(d) = Len(a) + Len(b) /\ c \in Seq(Frame)
                BY <2>2, <2>3
            <3> HIDE DEF d
            <3>2. d \o c \in Seq(Frame) /\ Len(d \o c) = Len(d) + Len(c)
                  /\ \A i \in 1 .. Len(d) : (d \o c)[i] = d[i]
                <4>1. Len(d) \in Nat /\ Len(c) \in Nat
                    BY <3>1, LenProperties
                <4> QED
                    BY ONLY <3>1, <4>1, ConcatProperties
            <3>3. \A i \in 1 .. Len(a) : i \in DOMAIN (d \o c) /\ (d \o c)[i] = d[i]
                BY <2>3, <3>1, <3>2, LenProperties
            <3> QED
                BY <2>3, <3>3 DEF d
        <2> QED
            BY <1>1, <2>3, <2>4, HandType DEF InFlight, a, b, c
    <1>3. \A i, l \in DOMAIN InFlight : i < l => InFlight[i].id < InFlight[l].id
        BY DEF IInv, Ordered
    <1> DEFINE x == At(j)  y == At(k)
    <1>4. x \in 1 .. Len(Held) /\ y \in 1 .. Len(Held) /\ Held[x] = Held[y]
        BY <1>1, SlotsHeld
    <1>5. x \in Int /\ y \in Int /\ InFlight[x].id = InFlight[y].id /\ InFlight[x].id \in Int
          /\ x \in DOMAIN InFlight /\ y \in DOMAIN InFlight
        <2>1. InFlight[x] = Held[x] /\ InFlight[y] = Held[y] /\ Held[x] \in Frame
            BY <1>2, <1>4
        <2> QED
            BY <1>2, <1>4, <2>1, FrameFacts
    <1> HIDE DEF x, y
    <1>6. x = y
        BY <1>3, <1>5
    <1> QED
        BY <1>1, <1>6, SlotsHeld DEF x, y

\* The frames held are those of the filled slots.
LEMMA HeldFilled ==
    ASSUME Buffer!TypeOK, Shape
    PROVE  ToSet(Held) = {frames[k] : k \in Buffer!Filled}
    <1>1. ASSUME NEW f \in ToSet(Held) PROVE \E k \in Buffer!Filled : f = frames[k]
        BY HeldInSlots
    <1>2. ASSUME NEW k \in Buffer!Filled PROVE frames[k] \in ToSet(Held)
        <2>1. At(k) \in DOMAIN Held /\ Held[At(k)] = frames[k]
            BY SlotsHeld, HeldType, LenProperties DEF HeldForm
        <2> QED
            BY <2>1 DEF ToSet
    <1> QED
        BY <1>1, <1>2

LEMMA SliceNow ==
    ASSUME IInv, NEW start \in 0 .. MaxTime, NEW end \in 0 .. MaxTime
    PROVE  LET out == Buffer!Slice(start, end) IN
           /\ ToSet(out) = {f \in ToSet(Buffer!Contents) : start <= f.ts /\ f.ts <= end}
           /\ Len(out) = Cardinality(ToSet(out))
           /\ \A m, n \in DOMAIN out : m < n => out[m].ts <= out[n].ts
    <1>0. Buffer!TypeOK /\ Shape
        BY DEF IInv, Inv, TypeOK
    <1> DEFINE T == Buffer!Inside(start, end)  size == Cardinality(T)
    <1>1. PICK s : Sorts(s, T) /\ Buffer!Slice(start, end) = [n \in DOMAIN s |-> frames[s[n]]]
        BY <1>0, SliceSorted
    <1>2. T \subseteq Buffer!Filled /\ IsFiniteSet(T) /\ size \in Nat
        <2>1. T \subseteq Buffer!Filled
            BY DEF Buffer!Inside
        <2> QED
            BY <1>0, <2>1, FilledFacts, FS_Subset, FS_CardinalityType
    <1>3. s \in [1 .. size -> T] /\ ToSet(s) = T /\ DOMAIN s = 1 .. size
          /\ \A m, n \in 1 .. size : m < n => Buffer!Earlier(s[m], s[n])
        BY <1>1 DEF Sorts
    <1> DEFINE out == [n \in 1 .. size |-> frames[s[n]]]
    <1>4. Buffer!Slice(start, end) = out
        BY <1>1, <1>3
    <1>5. out \in Seq(Frame) /\ Len(out) = size
          /\ \A n \in 1 .. size : frames[s[n]] \in Frame /\ frames[s[n]].ts \in Int
        <2>1. \A n \in 1 .. size : frames[s[n]] \in Frame /\ frames[s[n]].ts \in 0 .. MaxTime
            BY <1>0, <1>2, <1>3, FilledFacts
        <2> QED
            BY <1>2, <2>1
    <1>6. ToSet(out) = {frames[k] : k \in T}
        <2>1. ToSet(out) = {frames[s[n]] : n \in 1 .. size}
            BY DEF ToSet
        <2>2. T = {s[n] : n \in 1 .. size}
            BY <1>3 DEF ToSet
        <2> QED
            BY <2>1, <2>2
    <1>7. {frames[k] : k \in T}
             = {f \in ToSet(Buffer!Contents) : start <= f.ts /\ f.ts <= end}
        <2>1. ToSet(Buffer!Contents) = {frames[k] : k \in Buffer!Filled}
            BY <1>0, ContentsHeld, HeldFilled
        <2> QED
            BY <2>1 DEF Buffer!Inside
    <1>8. Cardinality(ToSet(out)) = size
        <2>1. \A m, n \in 1 .. size : m # n => s[m] # s[n]
            <3> SUFFICES ASSUME NEW m \in 1 .. size, NEW n \in 1 .. size, m < n, s[m] = s[n]
                         PROVE  FALSE
                BY <1>2
            <3>1. Buffer!Earlier(s[m], s[m])
                BY <1>3
            <3>2. s[m] \in Int /\ frames[s[m]].ts \in Int
                BY <1>0, <1>2, <1>3, <1>5, FilledFacts
            <3> QED
                BY <3>1, <3>2 DEF Buffer!Earlier
        <2>2. \A m, n \in 1 .. size : out[m] = out[n] => m = n
            <3> SUFFICES ASSUME NEW m \in 1 .. size, NEW n \in 1 .. size,
                                frames[s[m]] = frames[s[n]]
                         PROVE  m = n
                OBVIOUS
            <3>1. s[m] = s[n]
                BY <1>2, <1>3, SlotsDiffer
            <3> QED
                BY <2>1, <3>1
        <2>3. out \in Bijection(1 .. size, ToSet(out))
            <3>1. out \in [1 .. size -> ToSet(out)]
                BY DEF ToSet
            <3>2. \A f \in ToSet(out) : \E n \in 1 .. size : out[n] = f
                BY DEF ToSet
            <3> HIDE DEF out
            <3> QED
                BY <2>2, <3>1, <3>2 DEF Bijection, Injection, Surjection, IsInjective
        <2>4. IsFiniteSet(1 .. size) /\ Cardinality(1 .. size) = size
            <3>1. 1 \in Int /\ size \in Int
                BY <1>2
            <3>2. /\ IsFiniteSet(1 .. size)
                  /\ Cardinality(1 .. size) = IF 1 > size THEN 0 ELSE size - 1 + 1
                BY ONLY <3>1, FS_Interval, Zenon
            <3> QED
                BY <1>2, <3>2
        <2>5. ExistsBijection(1 .. size, ToSet(out))
            BY <2>3 DEF ExistsBijection
        <2> HIDE DEF out, size
        <2> QED
            BY <2>4, <2>5, FS_Bijection
    <1>9. \A m, n \in 1 .. size : m < n => out[m].ts <= out[n].ts
        <2> SUFFICES ASSUME NEW m \in 1 .. size, NEW n \in 1 .. size, m < n
                     PROVE  frames[s[m]].ts <= frames[s[n]].ts
            OBVIOUS
        <2>1. Buffer!Earlier(s[m], s[n])
            BY <1>3
        <2> QED
            BY <1>5, <2>1 DEF Buffer!Earlier
    <1>10. DOMAIN out = 1 .. size
        OBVIOUS
    <1> HIDE DEF out, T, size
    <1> QED
        BY <1>4, <1>5, <1>6, <1>7, <1>8, <1>9, <1>10

\* A slice returns each frame of its window once and in time order, wherever
\* the ring has wrapped and whichever frames share a stamp.
THEOREM SliceExactHolds == Spec => []SliceExact
    <1>1. IInv => SliceExact
        BY SliceNow DEF SliceExact
    <1> QED
        BY <1>1, IInvAlways, PTL
=============================================================================
