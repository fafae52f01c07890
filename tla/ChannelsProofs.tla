--------------------------- MODULE ChannelsProofs ---------------------------
(***************************************************************************)
(* The channels between the daemon and the other processes, proved for     *)
(* every size and bound.  The slot ring never shares a slot between its    *)
(* two processes, its committed slots behave as the bounded FIFO of        *)
(* SlotFifo, and its frames are played in order.  The command queue        *)
(* delivers every command until it overruns.  What follows the mixer's     *)
(* model is in step with it or knows what is missing.  The two ends of the *)
(* control socket agree where the next message begins.                     *)
(***************************************************************************)
EXTENDS MCChannels, SequenceTheorems, FiniteSetTheorems, WellFoundedInduction, TLAPS

\* A held slot is one the cursors still account for: the producer's is free,
\* the consumer's is committed.
CursorInv ==
  /\ tail <= head /\ head - tail <= kSlots
  /\ wr.held => head - tail < kSlots
  /\ rd.held => tail < head

\* The inductive invariant of the ring.
RingInv == RingTypeOK /\ CursorInv

-----------------------------------------------------------------------------
\* A cursor's index is an index of the ring.
LEMMA IndexInRange ==
  ASSUME NEW c \in Nat
  PROVE  Index(c) \in 0..(kSlots - 1)
BY SlotsAssumption DEF Index

\* Two cursors less than a lap apart have different indices.
LEMMA IndexDistinct ==
  ASSUME NEW a \in Nat, NEW b \in Nat, b < a, a - b < kSlots
  PROVE  Index(a) # Index(b)
<1> SUFFICES ASSUME Index(a) = Index(b) PROVE FALSE
  OBVIOUS
<1> DEFINE q1 == a \div kSlots  r1 == a % kSlots
           q2 == b \div kSlots  r2 == b % kSlots
<1>1. q1 \in Int /\ r1 \in Int /\ a = kSlots * q1 + r1
  BY SlotsAssumption
<1>2. q2 \in Int /\ r2 \in Int /\ b = kSlots * q2 + r2
  BY SlotsAssumption
<1>3. r1 = r2
  BY DEF Index
<1> HIDE DEF q1, r1, q2, r2
<1>4. PICK m \in Int : m = q1 - q2
  BY <1>1, <1>2
<1>5. a - b = kSlots * m
  BY <1>1, <1>2, <1>3, <1>4, SlotsAssumption
<1>6. CASE m >= 1
  <2>1. kSlots * m >= kSlots
    BY <1>6, SlotsAssumption
  <2> QED BY <2>1, <1>5, SlotsAssumption
<1>7. CASE m <= 0
  <2>1. kSlots * m <= 0
    BY <1>7, SlotsAssumption
  <2> QED BY <2>1, <1>5
<1> QED BY <1>6, <1>7

\* What Append does, as a function on the positions.
LEMMA AppendShape ==
  ASSUME NEW S, NEW q \in Seq(S), NEW v \in S
  PROVE  /\ Append(q, v) \in [1..(Len(q) + 1) -> S]
         /\ \A i \in 1..Len(q) : Append(q, v)[i] = q[i]
         /\ Append(q, v)[Len(q) + 1] = v
<1>1. Append(q, v) \in Seq(S) /\ Len(Append(q, v)) = Len(q) + 1
  BY AppendProperties
<1>2. Append(q, v) \in [1..Len(Append(q, v)) -> S]
  BY <1>1, LenProperties
<1>3. Append(q, v) \in [1..(Len(q) + 1) -> S]
  BY <1>1, <1>2
<1>4. /\ \A i \in 1..Len(q) : Append(q, v)[i] = q[i]
      /\ Append(q, v)[Len(q) + 1] = v
  BY AppendProperties
<1> QED BY <1>3, <1>4

\* Using up one restart leaves a budget.
LEMMA SpendRestart ==
  ASSUME NEW r \in [write: Nat, read: Nat]
  PROVE  /\ r.write > 0 => [r EXCEPT !.write = @ - 1] \in [write: Nat, read: Nat]
         /\ r.read > 0 => [r EXCEPT !.read = @ - 1] \in [write: Nat, read: Nat]
OBVIOUS

-----------------------------------------------------------------------------
\* The ring starts in the invariant.
LEMMA RingInitInv == RingInit => RingInv
<1> SUFFICES ASSUME RingInit PROVE RingInv
  OBVIOUS
<1> USE SlotsAssumption, FramesAssumption, RingBoundsAssumption
<1>1. RingTypeOK
  <2>1. slot \in [0..(kSlots - 1) -> SlotValue]
    <3>1. [p \in Positions |-> 0] \in SlotValue
      BY DEF SlotValue
    <3> QED BY <3>1 DEF RingInit
  <2>2. wr \in [held: BOOLEAN, frame: 0..kFramesPerSlot]
    BY DEF RingInit
  <2>3. rd \in [held: BOOLEAN, pos: 0..kFramesPerSlot]
    BY DEF RingInit
  <2>4. restarts \in [write: Nat, read: Nat]
    BY DEF RingInit
  <2>5. offered \in 0..MaxFrames /\ last \in 0..MaxFrames
    BY DEF RingInit
  <2>6. head \in Nat /\ tail \in Nat
    BY DEF RingInit
  <2>7. dryPacket \in BOOLEAN
    BY Zenon DEF RingInit
  <2> QED BY <2>1, <2>2, <2>3, <2>4, <2>5, <2>6, <2>7, Zenon DEF RingTypeOK
<1>2. CursorInv
  BY DEF RingInit, CursorInv
<1> QED BY <1>1, <1>2 DEF RingInv

\* Every step of either process keeps the invariant.
LEMMA RingStep == RingInv /\ [RingNext]_ringVars => RingInv'
<1> SUFFICES ASSUME RingInv, [RingNext]_ringVars PROVE RingInv'
  OBVIOUS
<1> USE SlotsAssumption, FramesAssumption, RingBoundsAssumption
<1>t. RingTypeOK /\ CursorInv
  BY DEF RingInv
<1> USE DEF RingInv
<1>1. CASE AcquireWrite
  BY <1>1, <1>t DEF AcquireWrite, RingTypeOK, CursorInv
<1>2. CASE DropFrame
  BY <1>2, <1>t DEF DropFrame, RingTypeOK, CursorInv
<1>3. CASE PutFrame
  <2>1. /\ wr \in [held: BOOLEAN, frame: 0..kFramesPerSlot]
        /\ wr.frame < kFramesPerSlot /\ offered + 1 \in 0..MaxFrames
    BY <1>3, <1>t, SMTT(40) DEF PutFrame, RingTypeOK
  <2>2. slot' \in [0..(kSlots - 1) -> SlotValue]
    BY <2>1, <1>3, <1>t DEF PutFrame, RingTypeOK, SlotValue
  <2>3. /\ wr' \in [held: BOOLEAN, frame: 0..kFramesPerSlot]
        /\ wr'.held = wr.held
    <3>1. wr \in [held: BOOLEAN, frame: 0..kFramesPerSlot]
      BY <1>t DEF RingTypeOK
    <3>2. PICK f \in 0..kFramesPerSlot : wr' = [wr EXCEPT !.frame = f]
      <4>1. wr.frame + 1 \in 0..kFramesPerSlot
        BY <2>1
      <4> QED BY <4>1, <1>3 DEF PutFrame
    <3>3. wr' \in [held: BOOLEAN, frame: 0..kFramesPerSlot]
      BY <3>1, <3>2
    <3>4. wr'.held = wr.held
      BY <3>1, <3>2
    <3> QED BY <3>3, <3>4
  <2>4. RingTypeOK'
    <3>1. offered' \in 0..MaxFrames
      BY <2>1, <1>3 DEF PutFrame
    <3> QED BY <3>1, <2>2, <2>3, <1>3, <1>t, Zenon DEF PutFrame, RingTypeOK
  <2>5. CursorInv'
    BY <2>3, <1>3, <1>t DEF PutFrame, CursorInv
  <2> QED BY <2>4, <2>5
<1>4. CASE CommitWrite
  BY <1>4, <1>t DEF CommitWrite, RingTypeOK, CursorInv
<1>5. CASE CommitRead
  BY <1>5, <1>t DEF CommitRead, RingTypeOK, CursorInv
<1>6. CASE AcquireRead
  BY <1>6, <1>t DEF AcquireRead, RingTypeOK, CursorInv
<1>7. CASE MissRead
  BY <1>7, <1>t DEF MissRead, RingTypeOK, CursorInv
<1>8. CASE BeginPacket
  BY <1>8, <1>t DEF BeginPacket, RingTypeOK, CursorInv
<1>9. CASE TakeFrame
  <2>1. Index(tail) \in 0..(kSlots - 1) /\ rd.pos \in Positions
    BY <1>9, <1>t, IndexInRange, SMTT(40) DEF TakeFrame, RingTypeOK, Positions
  <2>2. last' \in 0..MaxFrames
    BY <2>1, <1>9, <1>t, SMTT(40) DEF TakeFrame, RingTypeOK, SlotValue
  <2>3. /\ rd' \in [held: BOOLEAN, pos: 0..kFramesPerSlot]
        /\ rd'.held = rd.held
    <3>1. rd \in [held: BOOLEAN, pos: 0..kFramesPerSlot]
      BY <1>t DEF RingTypeOK
    <3>2. PICK f \in 0..kFramesPerSlot : rd' = [rd EXCEPT !.pos = f]
      <4>1. rd.pos + 1 \in 0..kFramesPerSlot
        BY <2>1 DEF Positions
      <4> QED BY <4>1, <1>9 DEF TakeFrame
    <3>3. rd' \in [held: BOOLEAN, pos: 0..kFramesPerSlot]
      BY <3>1, <3>2
    <3>4. rd'.held = rd.held
      BY <3>1, <3>2
    <3> QED BY <3>3, <3>4
  <2>4. RingTypeOK'
    BY <2>2, <2>3, <1>9, <1>t, Zenon DEF TakeFrame, RingTypeOK
  <2>5. CursorInv'
    BY <2>3, <1>9, <1>t DEF TakeFrame, CursorInv
  <2> QED BY <2>4, <2>5
<1>10. CASE AbandonWrite
  <2>1. restarts' \in [write: Nat, read: Nat]
    <3>1. restarts \in [write: Nat, read: Nat]
      BY <1>t DEF RingTypeOK
    <3> QED BY <3>1, <1>10, SpendRestart, Zenon DEF AbandonWrite
  <2>2. /\ wr' \in [held: BOOLEAN, frame: 0..kFramesPerSlot]
        /\ ~wr'.held
    BY <1>10 DEF AbandonWrite
  <2>3. RingTypeOK'
    BY <2>1, <2>2, <1>10, <1>t, Zenon DEF AbandonWrite, RingTypeOK
  <2>4. CursorInv'
    BY <2>2, <1>10, <1>t DEF AbandonWrite, CursorInv
  <2> QED BY <2>3, <2>4
<1>11. CASE ResetRead
  <2>1. restarts' \in [write: Nat, read: Nat]
    <3>1. restarts \in [write: Nat, read: Nat]
      BY <1>t DEF RingTypeOK
    <3> QED BY <3>1, <1>11, SpendRestart, Zenon DEF ResetRead
  <2>2. /\ rd' \in [held: BOOLEAN, pos: 0..kFramesPerSlot]
        /\ ~rd'.held
    BY <1>11 DEF ResetRead
  <2>3. RingTypeOK'
    BY <2>1, <2>2, <1>11, <1>t, Zenon DEF ResetRead, RingTypeOK
  <2>4. CursorInv'
    BY <2>2, <1>11, <1>t DEF ResetRead, CursorInv
  <2> QED BY <2>3, <2>4
<1>12. CASE UNCHANGED ringVars
  BY <1>12, <1>t DEF ringVars, RingTypeOK, CursorInv
<1> QED BY <1>1, <1>2, <1>3, <1>4, <1>5, <1>6, <1>7, <1>8, <1>9, <1>10, <1>11,
           <1>12 DEF RingNext, Producer, Consumer

\* The cursors and slots of uf_shm_ring.hpp keep the inductive invariant.
THEOREM RingInvariant == RingSpec => []RingInv
BY RingInitInv, RingStep, PTL DEF RingSpec

\* Every variable of the ring keeps its type.
THEOREM RingTypeCorrect == RingSpec => []RingTypeOK
BY RingInvariant, PTL DEF RingInv

\* The producer and the consumer never hold the same slot of the ring, for any
\* number of slots (acquireWrite, acquireRead and the two commits).
THEOREM RingNoSharedSlot == RingSpec => []NoSharedSlot
<1>1. RingInv => NoSharedSlot
  <2> SUFFICES ASSUME RingInv PROVE NoSharedSlot
    OBVIOUS
  <2>1. head \in Nat /\ tail \in Nat
    BY DEF RingInv, RingTypeOK
  <2>2. ASSUME wr.held, rd.held PROVE Index(head) # Index(tail)
    BY <2>1, <2>2, IndexDistinct DEF RingInv, CursorInv
  <2> QED BY <2>1, <2>2 DEF RingInv, CursorInv, NoSharedSlot
<1> QED BY <1>1, RingInvariant, PTL

-----------------------------------------------------------------------------
\* The waiting slots form a sequence of slot values as long as the cursors are
\* apart.
LEMMA QueueIsSequence ==
  ASSUME RingInv
  PROVE  Queue \in Seq(SlotValue) /\ Len(Queue) = head - tail
<1>1. head \in Nat /\ tail \in Nat /\ head - tail \in Nat
  BY DEF RingInv, RingTypeOK, CursorInv
<1>2. \A i \in 1..(head - tail) : slot[Index(tail + i - 1)] \in SlotValue
  <2> TAKE i \in 1..(head - tail)
  <2>1. tail + i - 1 \in Nat
    BY <1>1
  <2>2. Index(tail + i - 1) \in 0..(kSlots - 1)
    BY <2>1, IndexInRange
  <2> QED BY <2>2 DEF RingInv, RingTypeOK
<1> QED BY <1>1, <1>2 DEF Queue

\* A committed slot's index is not the one at head while there is room.
LEMMA WaitingNotAtHead ==
  ASSUME RingInv, head - tail < kSlots, NEW i \in 1..(head - tail)
  PROVE  Index(tail + i - 1) # Index(head)
<1>1. head \in Nat /\ tail \in Nat /\ tail <= head
  BY DEF RingInv, RingTypeOK, CursorInv
<1>2. /\ tail + i - 1 \in Nat /\ tail + i - 1 < head
      /\ head - (tail + i - 1) < kSlots
  BY <1>1, SlotsAssumption
<1> QED BY <1>1, <1>2, IndexDistinct

\* Storing a frame into the held slot touches no waiting slot.
LEMMA PutFrameKeepsQueue ==
  ASSUME RingInv, PutFrame
  PROVE  Queue' = Queue
<1>1. head' = head /\ tail' = tail /\ head - tail < kSlots
  BY DEF PutFrame, RingInv, CursorInv
<1>2. \A i \in 1..(head - tail) :
        slot'[Index(tail + i - 1)] = slot[Index(tail + i - 1)]
  <2> TAKE i \in 1..(head - tail)
  <2>1. Index(tail + i - 1) # Index(head)
    BY <1>1, WaitingNotAtHead
  <2>2. head \in Nat /\ tail \in Nat /\ tail + i - 1 \in Nat
    BY DEF RingInv, RingTypeOK
  <2>3. Index(tail + i - 1) \in DOMAIN slot
    BY <2>2, IndexInRange DEF RingInv, RingTypeOK
  <2> QED BY <2>1, <2>3 DEF PutFrame, RingInv, RingTypeOK
<1> QED BY <1>1, <1>2 DEF Queue, Index

\* commitWrite appends the slot at head.
LEMMA CommitWritePuts ==
  ASSUME RingInv, CommitWrite
  PROVE  \E v \in SlotValue : Fifo!Put(v)
<1>1. /\ head \in Nat /\ tail \in Nat /\ tail <= head /\ head - tail < kSlots
      /\ head' = head + 1 /\ tail' = tail /\ slot' = slot
  BY DEF CommitWrite, RingInv, RingTypeOK, CursorInv
<1> DEFINE v == slot[Index(head)]
<1>2. v \in SlotValue
  BY <1>1, IndexInRange DEF RingInv, RingTypeOK
<1>3. Queue \in Seq(SlotValue) /\ Len(Queue) = head - tail
  BY QueueIsSequence
<1>4. Queue' = [i \in 1..(head + 1 - tail) |-> slot[Index(tail + i - 1)]]
  BY <1>1 DEF Queue, Index
<1>5. \A i \in 1..(head - tail) : Queue[i] = slot[Index(tail + i - 1)]
  BY DEF Queue
<1>6. slot[Index(tail + (head + 1 - tail) - 1)] = v
  <2>1. tail + (head + 1 - tail) - 1 = head
    BY <1>1
  <2> QED BY <2>1
<1> HIDE DEF v
<1>7. Queue' = Append(Queue, v)
  <2>1. /\ Append(Queue, v) \in [1..(Len(Queue) + 1) -> SlotValue]
        /\ \A i \in 1..Len(Queue) : Append(Queue, v)[i] = Queue[i]
        /\ Append(Queue, v)[Len(Queue) + 1] = v
    <3>1. Queue \in Seq(SlotValue)
      BY <1>3
    <3> QED BY <3>1, <1>2, AppendShape
  <2>2. Len(Queue) + 1 = head + 1 - tail
    BY <1>1, <1>3
  <2>3. \A i \in 1..(head + 1 - tail) :
          slot[Index(tail + i - 1)] = Append(Queue, v)[i]
    <3> TAKE i \in 1..(head + 1 - tail)
    <3>1. CASE i = head + 1 - tail
      BY <3>1, <1>6, <2>1, <2>2
    <3>2. CASE i # head + 1 - tail
      <4>1. i \in 1..(head - tail) /\ i \in 1..Len(Queue)
        BY <3>2, <1>1, <1>3
      <4> QED BY <4>1, <1>5, <2>1
    <3> QED BY <3>1, <3>2
  <2> QED BY <2>1, <2>2, <2>3, <1>4
<1>8. Len(Queue) < kSlots
  BY <1>1, <1>3
<1> QED BY <1>2, <1>7, <1>8 DEF Fifo!Put

\* commitRead removes the oldest slot.
LEMMA CommitReadGets ==
  ASSUME RingInv, CommitRead
  PROVE  Fifo!Get
<1>1. /\ head \in Nat /\ tail \in Nat /\ tail < head
      /\ head' = head /\ tail' = tail + 1 /\ slot' = slot
  BY DEF CommitRead, RingInv, RingTypeOK, CursorInv
<1>2. Queue \in Seq(SlotValue) /\ Len(Queue) = head - tail
  BY QueueIsSequence
<1>3. Queue' = [i \in 1..(head - (tail + 1)) |-> slot[Index(tail + 1 + i - 1)]]
  BY <1>1 DEF Queue, Index
<1>4. \A i \in 1..(head - tail) : Queue[i] = slot[Index(tail + i - 1)]
  BY DEF Queue
<1>5. Queue # <<>>
  BY <1>1, <1>2
<1>6. /\ Tail(Queue) \in [1..(Len(Queue) - 1) -> SlotValue]
      /\ \A i \in 1..(Len(Queue) - 1) : Tail(Queue)[i] = Queue[i + 1]
  BY <1>2, <1>5, HeadTailProperties, LenProperties
<1>7. Len(Queue) - 1 = head - (tail + 1)
  BY <1>1, <1>2
<1>8. \A i \in 1..(head - (tail + 1)) :
        slot[Index(tail + 1 + i - 1)] = Queue[i + 1]
  <2> TAKE i \in 1..(head - (tail + 1))
  <2>1. i + 1 \in 1..(head - tail) /\ tail + 1 + i - 1 = tail + (i + 1) - 1
    BY <1>1
  <2> QED BY <2>1, <1>4
<1>9. Queue' = Tail(Queue)
  BY <1>3, <1>6, <1>7, <1>8
<1> QED BY <1>5, <1>9 DEF Fifo!Get

\* Every step of the ring is a Put, a Get or invisible to the FIFO.
LEMMA RingStepSimulates ==
  ASSUME RingInv, [RingNext]_ringVars
  PROVE  [Fifo!Next]_Queue
<1>1. CASE PutFrame
  BY <1>1, PutFrameKeepsQueue
<1>2. CASE CommitWrite
  BY <1>2, CommitWritePuts DEF Fifo!Next
<1>3. CASE CommitRead
  BY <1>3, CommitReadGets DEF Fifo!Next
<1>4. CASE head' = head /\ tail' = tail /\ slot' = slot
  BY <1>4 DEF Queue, Index
<1>5. \/ PutFrame \/ CommitWrite \/ CommitRead
      \/ head' = head /\ tail' = tail /\ slot' = slot
  BY DEF RingNext, Producer, Consumer, ringVars, AcquireWrite, DropFrame, AcquireRead,
         MissRead, BeginPacket, TakeFrame, AbandonWrite, ResetRead
<1> QED BY <1>1, <1>2, <1>3, <1>4, <1>5

\* The ring of uf_shm_ring.hpp, under both sides' loops and restarts, is a
\* bounded FIFO of whole slots for every size.
THEOREM RingImplementsFifo == RingSpec => ImplementsFifo
<1>1. RingInit => Fifo!Init
  <2> SUFFICES ASSUME RingInit PROVE Queue = <<>>
    BY DEF Fifo!Init
  <2>1. head = 0 /\ tail = 0
    BY DEF RingInit
  <2>2. 1..(head - tail) = {}
    BY <2>1
  <2> QED BY <2>2 DEF Queue
<1>2. RingInv /\ [RingNext]_ringVars => [Fifo!Next]_Queue
  BY RingStepSimulates
<1> QED BY <1>1, <1>2, RingInvariant, PTL DEF RingSpec, ImplementsFifo, Fifo!Spec

-----------------------------------------------------------------------------
(* The order of play *)

\* The number of the first frame in the slot at a cursor, and of the newest
\* frame that is not in the slot being filled.
First(n) == slot[Index(n)][0]
Fresh == offered - (IF wr.held THEN wr.frame ELSE 0)

\* The frames of the committed slots and of the one being filled: numbered one
\* by one within a slot, later slots after earlier ones.
ContentInv ==
  /\ \A n \in tail..(head - 1) :
       /\ \A p \in Positions : slot[Index(n)][p] = First(n) + p
       /\ First(n) + kFramesPerSlot <= Fresh + 1
       /\ \A m \in tail..(n - 1) : First(m) + kFramesPerSlot <= First(n)
  /\ wr.held => \A p \in 0..(wr.frame - 1) : slot[Index(head)][p] = Fresh + 1 + p

\* The frame played last comes before those of every slot still to be played; of
\* the slot at tail it may be any, once a restart has sent the reader back.
PlayedInv ==
  /\ last <= Fresh
  /\ restarts.read <= MaxResets
  /\ \A n \in (tail + 1)..(head - 1) : last < First(n)
  /\ tail < head => last < First(tail) + kFramesPerSlot
  /\ rd.held /\ rd.pos > 0 => last = First(tail) + rd.pos - 1
  /\ (~rd.held \/ rd.pos = 0) /\ restarts.read = MaxResets /\ tail < head
       => last < First(tail)

\* The inductive invariant behind the order of play.
OrderInv == RingInv /\ ContentInv /\ PlayedInv

\* Frame numbers are numbers.
LEMMA FramesAreNumbers ==
  ASSUME RingInv
  PROVE  /\ \A n \in Nat : /\ First(n) \in Nat
                           /\ \A p \in Positions : slot[Index(n)][p] \in Nat
         /\ Fresh \in Int
<1>1. 0 \in Positions
  BY FramesAssumption DEF Positions
<1>2. \A n \in Nat : slot[Index(n)] \in SlotValue
  BY IndexInRange DEF RingInv, RingTypeOK
<1>3. offered \in Nat /\ wr.frame \in Nat
  BY FramesAssumption, RingBoundsAssumption DEF RingInv, RingTypeOK
<1> QED BY <1>1, <1>2, <1>3, RingBoundsAssumption DEF First, Fresh, SlotValue

\* A step that leaves the slots, the cursors and the slot being filled alone, and
\* perhaps lets frames pass, keeps the content.
LEMMA ContentKept ==
  ASSUME RingInv, ContentInv, RingInv',
         slot' = slot, head' = head, tail' = tail, Fresh' >= Fresh,
         wr'.held => (wr'.frame = 0 \/ (wr' = wr /\ offered' = offered))
  PROVE  ContentInv'
<1>1. /\ head \in Nat /\ tail \in Nat /\ kFramesPerSlot \in Nat /\ Fresh \in Int
      /\ \A n \in Nat : First(n) \in Nat /\ First(n)' = First(n)
      /\ Fresh' \in Int
  <2>1. Fresh' \in Int
    BY FramesAssumption, RingBoundsAssumption DEF RingInv, RingTypeOK, Fresh
  <2>2. \A n \in Nat : First(n)' = First(n)
    BY DEF First, Index
  <2> QED BY <2>1, <2>2, FramesAreNumbers, FramesAssumption DEF RingInv, RingTypeOK
<1>2. \A n \in tail..(head - 1) :
        /\ \A p \in Positions : slot[Index(n)][p] = First(n) + p
        /\ First(n) + kFramesPerSlot <= Fresh'+ 1
        /\ \A m \in tail..(n - 1) : First(m) + kFramesPerSlot <= First(n)
  <2> TAKE n \in tail..(head - 1)
  <2>1. First(n) + kFramesPerSlot <= Fresh + 1
    BY DEF ContentInv
  <2>2. n \in Nat
    BY <1>1
  <2>3. First(n) + kFramesPerSlot <= Fresh' + 1
    BY <2>1, <2>2, <1>1
  <2> QED BY <2>3 DEF ContentInv
<1>3. wr'.held => \A p \in 0..(wr'.frame - 1) : slot[Index(head)][p] = Fresh' + 1 + p
  <2>1. CASE wr'.frame = 0
    BY <2>1
  <2>2. CASE wr' = wr /\ offered' = offered
    BY <2>2 DEF ContentInv, Fresh
  <2> QED BY <2>1, <2>2
<1>4. \A n \in tail..(head - 1) : n \in Nat /\ \A m \in tail..(n - 1) : m \in Nat
  BY <1>1
<1>5. \A n \in tail'..(head' - 1) :
        /\ \A p \in Positions : slot'[Index(n)'][p] = First(n)' + p
        /\ First(n)' + kFramesPerSlot <= Fresh' + 1
        /\ \A m \in tail'..(n - 1) : First(m)' + kFramesPerSlot <= First(n)'
  <2>1. \A n : Index(n)' = Index(n)
    BY DEF Index
  <2> HIDE DEF First, Fresh
  <2> QED BY <2>1, <1>1, <1>2, <1>4
<1> QED BY <1>3, <1>5 DEF ContentInv, Index

\* A step that leaves the slots, the cursors and the frame played last alone, and
\* perhaps lets frames pass, keeps what was played in order with what waits.
LEMMA PlayedKept ==
  ASSUME RingInv, PlayedInv, RingInv',
         \A n \in tail..(head - 1) : First(n)' = First(n),
         head' = head, tail' = tail, last' = last, Fresh' >= Fresh,
         \/ rd' = rd /\ restarts'.read = restarts.read
         \/ rd' = [held |-> TRUE, pos |-> 0] /\ ~rd.held /\ restarts' = restarts
         \/ rd' = [held |-> FALSE, pos |-> 0] /\ restarts'.read < restarts.read
  PROVE  PlayedInv'
<1>1. /\ head \in Nat /\ tail \in Nat /\ Fresh \in Int /\ last \in Nat
      /\ restarts.read \in Nat /\ rd.pos \in Nat /\ MaxResets \in Nat
      /\ rd.held => tail < head
  BY FramesAreNumbers, RingBoundsAssumption, FramesAssumption
     DEF RingInv, RingTypeOK, CursorInv
<1>2. last' <= Fresh'
  <2>1. Fresh' \in Int
    BY FramesAssumption, RingBoundsAssumption DEF RingInv, RingTypeOK, Fresh
  <2> QED BY <2>1, <1>1 DEF PlayedInv
<1>3. /\ \A n \in (tail + 1)..(head - 1) : n \in tail..(head - 1)
      /\ tail < head => tail \in tail..(head - 1)
  BY <1>1
<1>4. /\ \A n \in (tail' + 1)..(head' - 1) : last' < First(n)'
      /\ tail' < head' => last' < First(tail)' + kFramesPerSlot
  BY <1>3 DEF PlayedInv
<1>5. restarts'.read <= MaxResets
  <2>1. restarts'.read \in Nat
    BY DEF RingInv, RingTypeOK
  <2>2. restarts'.read <= restarts.read
    BY <2>1, <1>1
  <2> QED BY <2>1, <2>2, <1>1 DEF PlayedInv
<1>6. /\ rd'.held /\ rd'.pos > 0 => last' = First(tail)' + rd'.pos - 1
      /\ (~rd'.held \/ rd'.pos = 0) /\ restarts'.read = MaxResets /\ tail' < head'
           => last' < First(tail)'
  <2>1. CASE rd' = rd /\ restarts'.read = restarts.read
    BY <2>1, <1>1, <1>3 DEF PlayedInv
  <2>2. CASE rd' = [held |-> TRUE, pos |-> 0] /\ ~rd.held /\ restarts' = restarts
    BY <2>2, <1>1, <1>3 DEF PlayedInv
  <2>3. CASE rd' = [held |-> FALSE, pos |-> 0] /\ restarts'.read < restarts.read
    <3>1. restarts'.read \in Nat
      BY DEF RingInv, RingTypeOK
    <3> QED BY <3>1, <2>3, <1>1, <1>5 DEF PlayedInv
  <2> QED BY <2>1, <2>2, <2>3
<1> QED BY <1>2, <1>4, <1>5, <1>6 DEF PlayedInv, First, Index

\* The ring starts in the order invariant.
LEMMA OrderInitInv == RingInit => OrderInv
<1> SUFFICES ASSUME RingInit PROVE OrderInv
  OBVIOUS
<1>1. RingInv
  BY RingInitInv
<1>2. ContentInv
  BY DEF RingInit, ContentInv
<1>3. PlayedInv
  BY RingBoundsAssumption DEF RingInit, PlayedInv, Fresh
<1> QED BY <1>1, <1>2, <1>3 DEF OrderInv

\* Storing a frame adds it to the slot being filled and touches no other slot.
LEMMA OrderPutFrame ==
  ASSUME OrderInv, RingInv', PutFrame
  PROVE  ContentInv' /\ PlayedInv'
<1>t. /\ RingInv /\ head \in Nat /\ tail \in Nat /\ tail <= head
      /\ offered \in Nat /\ wr.frame \in Positions /\ Fresh \in Int
      /\ slot \in [0..(kSlots - 1) -> SlotValue] /\ wr.held
  <2>1. RingInv
    BY DEF OrderInv
  <2>2. Fresh \in Int
    BY <2>1, FramesAreNumbers
  <2> QED BY <2>1, <2>2, RingBoundsAssumption, FramesAssumption, SMTT(40)
          DEF RingInv, RingTypeOK, CursorInv, PutFrame, Positions
<1>1. /\ head' = head /\ tail' = tail /\ offered' = offered + 1 /\ wr'.held
      /\ wr'.frame = wr.frame + 1
      /\ last' = last /\ rd' = rd /\ restarts' = restarts
  <2>1. wr \in [held: BOOLEAN, frame: 0..kFramesPerSlot]
    BY <1>t DEF RingInv, RingTypeOK
  <2> QED BY <2>1, <1>t DEF PutFrame
<1>2. Fresh' = Fresh
  BY <1>1, <1>t, FramesAssumption DEF Fresh, Positions
<1>3. /\ \A p \in Positions \ {wr.frame} :
           slot'[Index(head)][p] = slot[Index(head)][p]
      /\ slot'[Index(head)][wr.frame] = Fresh + 1 + wr.frame
      /\ \A i \in 0..(kSlots - 1) : i # Index(head) => slot'[i] = slot[i]
  <2>1. Index(head) \in 0..(kSlots - 1)
    BY <1>t, IndexInRange
  <2>2. offered + 1 = Fresh + 1 + wr.frame
    BY <1>t, FramesAssumption DEF Fresh, Positions
  <2> QED BY <2>1, <2>2, <1>t DEF PutFrame, SlotValue
<1>4. \A n \in tail..(head - 1) : slot'[Index(n)] = slot[Index(n)]
  <2> TAKE n \in tail..(head - 1)
  <2>1. n \in Nat /\ n < head /\ head - n < kSlots
    BY <1>t, SlotsAssumption DEF RingInv, CursorInv
  <2> QED BY <2>1, <1>3, <1>t, IndexDistinct, IndexInRange
<1>5. \A n \in tail..(head - 1) : First(n)' = First(n)
  BY <1>4 DEF First, Index
<1>6. ContentInv'
  <2>1. \A p \in 0..(wr.frame + 1 - 1) : slot'[Index(head)][p] = Fresh + 1 + p
    <3> TAKE p \in 0..(wr.frame + 1 - 1)
    <3>1. CASE p = wr.frame
      BY <3>1, <1>3
    <3>2. CASE p # wr.frame
      <4>1. p \in 0..(wr.frame - 1) /\ p \in Positions \ {wr.frame}
        BY <3>2, <1>t, FramesAssumption DEF Positions
      <4>2. slot[Index(head)][p] = Fresh + 1 + p
        BY <4>1, <1>t DEF OrderInv, ContentInv
      <4> QED BY <4>1, <4>2, <1>3
    <3> QED BY <3>1, <3>2
  <2>2. \A p \in 0..(wr'.frame - 1) : slot'[Index(head)'][p] = Fresh' + 1 + p
    <3>1. 0..(wr'.frame - 1) = 0..(wr.frame + 1 - 1) /\ Index(head)' = Index(head)
      BY <1>1, <1>t DEF Index, Positions
    <3> QED BY <3>1, <2>1, <1>2
  <2>3. \A n \in tail..(head - 1) :
          /\ \A p \in Positions : slot'[Index(n)][p] = First(n)' + p
          /\ First(n)' + kFramesPerSlot <= Fresh' + 1
          /\ \A m \in tail..(n - 1) : First(m)' + kFramesPerSlot <= First(n)'
    <3> TAKE n \in tail..(head - 1)
    <3>1. \A m \in tail..(n - 1) : m \in tail..(head - 1)
      BY <1>t
    <3> HIDE DEF First, Fresh
    <3> QED BY <3>1, <1>2, <1>4, <1>5 DEF OrderInv, ContentInv
  <2> QED BY <2>2, <2>3, <1>1 DEF ContentInv, Index
<1>7. PlayedInv'
  BY <1>1, <1>2, <1>5, <1>t, PlayedKept DEF OrderInv
<1> QED BY <1>6, <1>7

\* Committing the full slot puts it after every waiting one.
LEMMA OrderCommitWrite ==
  ASSUME OrderInv, RingInv', CommitWrite
  PROVE  ContentInv' /\ PlayedInv'
<1>t. /\ RingInv /\ head \in Nat /\ tail \in Nat /\ tail <= head
      /\ offered \in Nat /\ wr.held /\ wr.frame = kFramesPerSlot
      /\ Fresh \in Int /\ last \in Nat /\ kFramesPerSlot \in Nat \ {0}
      /\ \A n \in Nat : First(n) \in Nat
  <2>1. RingInv
    BY DEF OrderInv
  <2>2. Fresh \in Int /\ \A n \in Nat : First(n) \in Nat
    BY <2>1, FramesAreNumbers
  <2> QED BY <2>1, <2>2, RingBoundsAssumption, FramesAssumption
          DEF RingInv, RingTypeOK, CursorInv, CommitWrite
<1>1. /\ head' = head + 1 /\ tail' = tail /\ slot' = slot /\ offered' = offered
      /\ ~wr'.held /\ last' = last /\ rd' = rd /\ restarts' = restarts
  BY DEF CommitWrite
<1>2. Fresh' = Fresh + kFramesPerSlot
  BY <1>1, <1>t DEF Fresh
<1>3. \A p \in Positions : slot[Index(head)][p] = Fresh + 1 + p
  BY <1>t DEF OrderInv, ContentInv, Positions
<1>4. First(head) = Fresh + 1
  <2>1. 0 \in Positions
    BY <1>t DEF Positions
  <2> QED BY <2>1, <1>3, <1>t DEF First
<1>5. \A n \in tail..head :
        /\ \A p \in Positions : slot[Index(n)][p] = First(n) + p
        /\ First(n) + kFramesPerSlot <= Fresh + kFramesPerSlot + 1
        /\ \A m \in tail..(n - 1) : First(m) + kFramesPerSlot <= First(n)
  <2> TAKE n \in tail..head
  <2>1. CASE n = head
    <3>1. \A m \in tail..(head - 1) : First(m) + kFramesPerSlot <= Fresh + 1
      BY DEF OrderInv, ContentInv
    <3> HIDE DEF First, Fresh
    <3> QED BY <3>1, <2>1, <1>3, <1>4, <1>t
  <2>2. CASE n # head
    <3>1. n \in tail..(head - 1) /\ n \in Nat
      BY <2>2, <1>t
    <3>2. First(n) + kFramesPerSlot <= Fresh + 1
      BY <3>1 DEF OrderInv, ContentInv
    <3>3. First(n) + kFramesPerSlot <= Fresh + kFramesPerSlot + 1
      <4> HIDE DEF First, Fresh
      <4> QED BY <3>1, <3>2, <1>t
    <3> QED BY <3>1, <3>3 DEF OrderInv, ContentInv
  <2> QED BY <2>1, <2>2
<1>6. \A n : First(n)' = First(n) /\ Index(n)' = Index(n)
  BY <1>1 DEF First, Index
<1>7. tail'..(head' - 1) = tail..head
  BY <1>1, <1>t
<1>8. ContentInv'
  <2>1. \A n \in tail'..(head' - 1) :
          /\ \A p \in Positions : slot'[Index(n)'][p] = First(n)' + p
          /\ First(n)' + kFramesPerSlot <= Fresh' + 1
          /\ \A m \in tail'..(n - 1) : First(m)' + kFramesPerSlot <= First(n)'
    <3> HIDE DEF First, Fresh
    <3> QED BY <1>1, <1>2, <1>5, <1>6, <1>7
  <2> QED BY <2>1, <1>1 DEF ContentInv
<1>9. PlayedInv'
  <2>1. last <= Fresh
    BY DEF OrderInv, PlayedInv
  <2>2. /\ last' <= Fresh' /\ last < First(head)
        /\ last < First(head) + kFramesPerSlot
    <3> HIDE DEF First, Fresh
    <3> QED BY <2>1, <1>1, <1>2, <1>4, <1>t
  <2>3. \A n \in (tail + 1)..(head + 1 - 1) : last < First(n)
    <3> TAKE n \in (tail + 1)..(head + 1 - 1)
    <3>1. CASE n = head
      BY <3>1, <2>2
    <3>2. CASE n # head
      <4>1. n \in (tail + 1)..(head - 1)
        BY <3>2, <1>t
      <4> QED BY <4>1 DEF OrderInv, PlayedInv
    <3> QED BY <3>1, <3>2
  <2>4. \A n \in (tail' + 1)..(head' - 1) : last' < First(n)'
    <3>1. (tail' + 1)..(head' - 1) = (tail + 1)..(head + 1 - 1)
      BY <1>1, <1>t
    <3> QED BY <3>1, <2>3, <1>1, <1>6
  <2>5. First(tail)' = First(tail)
    BY <1>1 DEF First, Index
  <2>6. last < First(tail) + kFramesPerSlot
    <3>1. tail < head \/ tail = head
      BY <1>t
    <3> QED BY <3>1, <2>2 DEF OrderInv, PlayedInv
  <2>7. (~rd.held \/ rd.pos = 0) /\ restarts.read = MaxResets => last < First(tail)
    <3>1. tail < head \/ tail = head
      BY <1>t
    <3> QED BY <3>1, <2>2 DEF OrderInv, PlayedInv
  <2>8. /\ restarts'.read <= MaxResets
        /\ tail' < head' => last' < First(tail)' + kFramesPerSlot
        /\ rd'.held /\ rd'.pos > 0 => last' = First(tail)' + rd'.pos - 1
        /\ (~rd'.held \/ rd'.pos = 0) /\ restarts'.read = MaxResets /\ tail' < head'
             => last' < First(tail)'
    <3>1. /\ restarts.read <= MaxResets
          /\ rd.held /\ rd.pos > 0 => last = First(tail) + rd.pos - 1
      BY DEF OrderInv, PlayedInv
    <3> HIDE DEF First
    <3> QED BY <3>1, <2>5, <2>6, <2>7, <1>1
  <2> QED BY <2>2, <2>4, <2>8 DEF PlayedInv
<1> QED BY <1>8, <1>9

\* Handing the spent slot back leaves later frames only.
LEMMA OrderCommitRead ==
  ASSUME OrderInv, RingInv', CommitRead
  PROVE  ContentInv' /\ PlayedInv'
<1>t. /\ RingInv /\ head \in Nat /\ tail \in Nat /\ tail < head /\ last \in Nat
      /\ kFramesPerSlot \in Nat \ {0} /\ \A n \in Nat : First(n) \in Nat
  <2>1. RingInv
    BY DEF OrderInv
  <2>2. \A n \in Nat : First(n) \in Nat
    BY <2>1, FramesAreNumbers
  <2> QED BY <2>1, <2>2, RingBoundsAssumption, FramesAssumption
          DEF RingInv, RingTypeOK, CursorInv, CommitRead
<1>1. /\ head' = head /\ tail' = tail + 1 /\ slot' = slot /\ offered' = offered
      /\ wr' = wr /\ last' = last /\ ~rd'.held /\ restarts' = restarts
  BY DEF CommitRead
<1>2. /\ Fresh' = Fresh /\ \A n : First(n)' = First(n) /\ Index(n)' = Index(n)
      /\ First(tail)' = First(tail + 1) /\ Index(head)' = Index(head)
  BY <1>1 DEF Fresh, First, Index
<1>3. /\ \A n \in (tail + 1)..(head - 1) :
           n \in tail..(head - 1) /\ \A m \in (tail + 1)..(n - 1) : m \in tail..(n - 1)
      /\ \A n \in (tail + 1 + 1)..(head - 1) : n \in (tail + 1)..(head - 1)
      /\ tail + 1 < head => tail + 1 \in (tail + 1)..(head - 1)
  BY <1>t
<1>4. ContentInv'
  <2>1. \A n \in tail'..(head' - 1) :
          /\ \A p \in Positions : slot'[Index(n)'][p] = First(n)' + p
          /\ First(n)' + kFramesPerSlot <= Fresh' + 1
          /\ \A m \in tail'..(n - 1) : First(m)' + kFramesPerSlot <= First(n)'
    <3> HIDE DEF First, Fresh
    <3> QED BY <1>1, <1>2, <1>3 DEF OrderInv, ContentInv
  <2>2. wr'.held =>
          \A p \in 0..(wr'.frame - 1) : slot'[Index(head)'][p] = Fresh' + 1 + p
    BY <1>1, <1>2 DEF OrderInv, ContentInv
  <2> QED BY <2>1, <2>2 DEF ContentInv
<1>5. PlayedInv'
  <2>1. /\ last' <= Fresh' /\ restarts'.read <= MaxResets
        /\ \A n \in (tail' + 1)..(head' - 1) : last' < First(n)'
    BY <1>1, <1>2, <1>3 DEF OrderInv, PlayedInv
  <2>2. tail + 1 < head => last < First(tail + 1)
    BY <1>3 DEF OrderInv, PlayedInv
  <2>3. tail + 1 < head => last < First(tail + 1) + kFramesPerSlot
    <3> HIDE DEF First
    <3>1. First(tail + 1) \in Nat
      BY <1>t
    <3> QED BY <3>1, <2>2, <1>t
  <2> QED BY <2>1, <2>2, <2>3, <1>1, <1>2 DEF PlayedInv
<1> QED BY <1>4, <1>5

\* The frame a TakeFrame plays: the one after the last, or the first of a slot.
LEMMA TakeFramePlays ==
  ASSUME OrderInv, TakeFrame
  PROVE  /\ last' = First(tail) + rd.pos /\ tail < head /\ First(tail) \in Nat
         /\ rd.pos \in Positions /\ last \in Nat
         /\ \A p \in Positions : slot[Index(tail)][p] = First(tail) + p
         /\ First(tail) + kFramesPerSlot <= Fresh + 1
         /\ \A n \in (tail + 1)..(head - 1) : First(tail) + kFramesPerSlot <= First(n)
<1>t. /\ RingInv /\ head \in Nat /\ tail \in Nat /\ tail < head /\ last \in Nat
      /\ First(tail) \in Nat /\ rd.pos \in Positions
  <2>1. RingInv
    BY DEF OrderInv
  <2>2. \A n \in Nat : First(n) \in Nat
    BY <2>1, FramesAreNumbers
  <2> QED BY <2>1, <2>2, RingBoundsAssumption, FramesAssumption, SMTT(40)
          DEF RingInv, RingTypeOK, CursorInv, TakeFrame, Positions
<1>1. /\ tail \in tail..(head - 1)
      /\ \A n \in (tail + 1)..(head - 1) : n \in tail..(head - 1) /\ tail \in tail..(n - 1)
  BY <1>t
<1>2. /\ \A p \in Positions : slot[Index(tail)][p] = First(tail) + p
      /\ First(tail) + kFramesPerSlot <= Fresh + 1
      /\ \A n \in (tail + 1)..(head - 1) : First(tail) + kFramesPerSlot <= First(n)
  BY <1>1 DEF OrderInv, ContentInv
<1>3. last' = First(tail) + rd.pos
  BY <1>2, <1>t DEF TakeFrame
<1> QED BY <1>2, <1>3, <1>t

\* Playing a frame moves the last frame on within the slot at tail.
LEMMA OrderTakeFrame ==
  ASSUME OrderInv, RingInv', TakeFrame
  PROVE  ContentInv' /\ PlayedInv'
<1>t. /\ RingInv /\ head \in Nat /\ tail \in Nat /\ Fresh \in Int
      /\ kFramesPerSlot \in Nat \ {0} /\ \A n \in Nat : First(n) \in Nat
      /\ rd \in [held: BOOLEAN, pos: 0..kFramesPerSlot]
  <2>1. RingInv
    BY DEF OrderInv
  <2>2. Fresh \in Int /\ \A n \in Nat : First(n) \in Nat
    BY <2>1, FramesAreNumbers
  <2> QED BY <2>1, <2>2, FramesAssumption DEF RingInv, RingTypeOK
<1>1. /\ head' = head /\ tail' = tail /\ slot' = slot /\ offered' = offered
      /\ wr' = wr /\ restarts' = restarts /\ rd'.held /\ rd'.pos = rd.pos + 1
      /\ rd.pos < kFramesPerSlot
  BY <1>t DEF TakeFrame
<1>2. /\ Fresh' = Fresh /\ \A n : First(n)' = First(n) /\ First(tail)' = First(tail)
  BY <1>1 DEF Fresh, First, Index
<1>3. ContentInv'
  BY <1>1, <1>2, <1>t, ContentKept DEF OrderInv
<1>4. PlayedInv'
  <2>1. /\ last' = First(tail) + rd.pos /\ tail < head /\ First(tail) \in Nat
        /\ rd.pos \in Nat /\ rd.pos < kFramesPerSlot
        /\ First(tail) + kFramesPerSlot <= Fresh + 1
        /\ \A n \in (tail + 1)..(head - 1) : First(tail) + kFramesPerSlot <= First(n)
    BY <1>1, <1>t, TakeFramePlays DEF Positions
  <2> HIDE DEF First, Fresh
  <2>2. last' <= Fresh /\ last' < First(tail) + kFramesPerSlot
    BY <2>1, <1>t
  <2>3. \A n \in (tail + 1)..(head - 1) : last' < First(n)
    <3> TAKE n \in (tail + 1)..(head - 1)
    <3>1. n \in Nat /\ First(n) \in Nat
      BY <1>t
    <3>2. First(tail) + kFramesPerSlot <= First(n)
      BY <2>1
    <3> QED BY <3>1, <3>2, <2>1, <1>t
  <2>4. last' = First(tail) + (rd.pos + 1) - 1 /\ rd.pos + 1 # 0
    BY <2>1
  <2>5. restarts.read <= MaxResets
    BY DEF OrderInv, PlayedInv
  <2> QED BY <2>2, <2>3, <2>4, <2>5, <1>1, <1>2 DEF PlayedInv
<1> QED BY <1>3, <1>4

\* Every step of either process keeps the order invariant.
LEMMA OrderStep == OrderInv /\ [RingNext]_ringVars => OrderInv'
<1> SUFFICES ASSUME OrderInv, [RingNext]_ringVars PROVE OrderInv'
  OBVIOUS
<1>r. RingInv /\ RingInv'
  BY RingStep DEF OrderInv
<1> SUFFICES ContentInv' /\ PlayedInv'
  BY <1>r DEF OrderInv
<1>t. /\ offered \in Nat /\ wr.frame \in Nat /\ Fresh \in Int /\ Fresh' \in Int
      /\ restarts \in [write: Nat, read: Nat]
  <2>1. Fresh \in Int
    BY <1>r, FramesAreNumbers
  <2>2. Fresh' \in Int
    BY <1>r, FramesAssumption, RingBoundsAssumption DEF RingInv, RingTypeOK, Fresh
  <2> QED BY <2>1, <2>2, <1>r, FramesAssumption, RingBoundsAssumption
          DEF RingInv, RingTypeOK
<1>k. ASSUME slot' = slot, head' = head, tail' = tail, last' = last, Fresh' >= Fresh,
             wr'.held => (wr'.frame = 0 \/ (wr' = wr /\ offered' = offered)),
             \/ rd' = rd /\ restarts'.read = restarts.read
             \/ rd' = [held |-> TRUE, pos |-> 0] /\ ~rd.held /\ restarts' = restarts
             \/ rd' = [held |-> FALSE, pos |-> 0] /\ restarts'.read < restarts.read
      PROVE  ContentInv' /\ PlayedInv'
  <2>1. \A n \in tail..(head - 1) : First(n)' = First(n)
    BY <1>k DEF First, Index
  <2>2. ContentInv'
    BY <1>k, <1>r, ContentKept DEF OrderInv
  <2>3. PlayedInv'
    BY <2>1, <1>k, <1>r, PlayedKept DEF OrderInv
  <2> QED BY <2>2, <2>3
<1>1. CASE AcquireWrite
  <2>1. Fresh' >= Fresh
    BY <1>1, <1>t DEF AcquireWrite, Fresh
  <2> QED BY <2>1, <1>1, <1>k DEF AcquireWrite
<1>2. CASE DropFrame
  <2>1. Fresh' >= Fresh /\ ~wr'.held
    BY <1>2, <1>t DEF DropFrame, Fresh
  <2> QED BY <2>1, <1>2, <1>k DEF DropFrame
<1>3. CASE PutFrame
  BY <1>3, <1>r, OrderPutFrame
<1>4. CASE CommitWrite
  BY <1>4, <1>r, OrderCommitWrite
<1>5. CASE CommitRead
  BY <1>5, <1>r, OrderCommitRead
<1>6. CASE AcquireRead
  <2>1. Fresh' >= Fresh
    BY <1>6, <1>t DEF AcquireRead, Fresh
  <2> QED BY <2>1, <1>6, <1>k DEF AcquireRead
<1>7. CASE MissRead
  <2>1. Fresh' >= Fresh
    BY <1>7, <1>t DEF MissRead, Fresh
  <2> QED BY <2>1, <1>7, <1>k DEF MissRead
<1>8. CASE BeginPacket
  <2>1. Fresh' >= Fresh
    BY <1>8, <1>t DEF BeginPacket, Fresh
  <2> QED BY <2>1, <1>8, <1>k DEF BeginPacket
<1>9. CASE TakeFrame
  BY <1>9, <1>r, OrderTakeFrame
<1>10. CASE AbandonWrite
  <2>1. Fresh' >= Fresh /\ ~wr'.held
    BY <1>10, <1>t DEF AbandonWrite, Fresh
  <2>2. restarts'.read = restarts.read
    BY <1>10, <1>t DEF AbandonWrite
  <2> QED BY <2>1, <2>2, <1>10, <1>k DEF AbandonWrite
<1>11. CASE ResetRead
  <2>1. Fresh' >= Fresh
    BY <1>11, <1>t DEF ResetRead, Fresh
  <2>2. restarts'.read < restarts.read
    BY <1>11, <1>t DEF ResetRead
  <2> QED BY <2>1, <2>2, <1>11, <1>k DEF ResetRead
<1>12. CASE UNCHANGED ringVars
  <2>1. Fresh' >= Fresh
    BY <1>12, <1>t DEF ringVars, Fresh
  <2> QED BY <2>1, <1>12, <1>k DEF ringVars
<1> QED BY <1>1, <1>2, <1>3, <1>4, <1>5, <1>6, <1>7, <1>8, <1>9, <1>10, <1>11,
           <1>12 DEF RingNext, Producer, Consumer

\* The ring keeps the numbering of its frames and the place of the last one.
THEOREM RingOrderInvariant == RingSpec => []OrderInv
BY OrderInitInv, OrderStep, PTL DEF RingSpec

\* What reaches the device (TxFill::frame, UFIOHandler::fillStageFromRing) never steps
\* back behind the frame played last; only from the first session restart on, which
\* drops the slot being played uncommitted, may it, and never by a whole slot.
THEOREM RingPlaysInOrder == RingSpec => PlayedInOrder
<1>1. ASSUME OrderInv, RingNext
      PROVE  \/ last' >= last
             \/ restarts.read < MaxResets /\ last < last' + kFramesPerSlot
  <2>t. /\ last \in Nat /\ restarts.read \in Nat /\ MaxResets \in Nat
        /\ kFramesPerSlot \in Nat \ {0} /\ restarts.read <= MaxResets
    BY <1>1, RingBoundsAssumption, FramesAssumption
       DEF OrderInv, PlayedInv, RingInv, RingTypeOK
  <2>1. CASE TakeFrame
    <3>1. /\ last' = First(tail) + rd.pos /\ tail < head /\ First(tail) \in Nat
          /\ rd.pos \in Nat /\ rd.held
      BY <2>1, <1>1, TakeFramePlays DEF Positions, TakeFrame
    <3>2. /\ rd.pos > 0 => last = First(tail) + rd.pos - 1
          /\ last < First(tail) + kFramesPerSlot
          /\ rd.pos = 0 /\ restarts.read = MaxResets => last < First(tail)
      BY <3>1, <1>1 DEF OrderInv, PlayedInv
    <3> HIDE DEF First
    <3>3. CASE rd.pos > 0
      BY <3>1, <3>2, <3>3, <2>t
    <3>4. CASE rd.pos = 0 /\ restarts.read = MaxResets
      BY <3>1, <3>2, <3>4, <2>t
    <3>5. CASE rd.pos = 0 /\ restarts.read # MaxResets
      BY <3>1, <3>2, <3>5, <2>t
    <3> QED BY <3>1, <3>3, <3>4, <3>5
  <2>2. CASE last' = last
    BY <2>2, <2>t
  <2>3. TakeFrame \/ last' = last
    BY <1>1 DEF RingNext, Producer, Consumer, AcquireWrite, DropFrame, PutFrame,
                CommitWrite, CommitRead, AcquireRead, MissRead, BeginPacket,
                AbandonWrite, ResetRead
  <2> QED BY <2>1, <2>2, <2>3
<1>2. OrderInv /\ [RingNext]_ringVars
        => [\/ last' >= last
            \/ restarts.read < MaxResets /\ last < last' + kFramesPerSlot]_ringVars
  BY <1>1
<1> QED BY <1>2, RingOrderInvariant, PTL DEF RingSpec, PlayedInOrder

-----------------------------------------------------------------------------
(* The command queue *)

\* The queue while no push has found it full: an ordinary ring between two
\* threads, with the commands from tail on in their slots.
ExactInv ==
  /\ qTail <= qHead /\ taken = Whole(qTail)
  /\ push.at = "store" =>
       /\ qHead - qTail < kCtlSlots
       /\ \A h \in Halves \ push.todo : qSlot[CtlIndex(qHead)][h] = qHead + 1
  /\ \A n \in qTail..(qHead - 1) : qSlot[CtlIndex(n)] = Whole(n + 1)
  /\ pop.at # "idle" => pop.t = qTail
  /\ pop.at = "copy" =>
       /\ qTail < qHead
       /\ \A h \in Halves \ pop.todo : pop.out[h] = pop.t + 1

\* The inductive invariant of the command queue.
QueueInv ==
  /\ QueueTypeOK
  /\ push.at # "idle" => qHead < MaxPushes
  /\ dropped = 0 => ExactInv

\* A cursor's index is an index of the queue.
LEMMA CtlIndexInRange ==
  ASSUME NEW c \in Nat
  PROVE  CtlIndex(c) \in 0..(kCtlSlots - 1)
BY CtlSlotsAssumption DEF CtlIndex

\* Two cursors less than a lap apart have different indices.
LEMMA CtlIndexDistinct ==
  ASSUME NEW a \in Nat, NEW b \in Nat, b < a, a - b < kCtlSlots
  PROVE  CtlIndex(a) # CtlIndex(b)
<1> SUFFICES ASSUME CtlIndex(a) = CtlIndex(b) PROVE FALSE
  OBVIOUS
<1> DEFINE q1 == a \div kCtlSlots  r1 == a % kCtlSlots
           q2 == b \div kCtlSlots  r2 == b % kCtlSlots
<1>1. q1 \in Int /\ r1 \in Int /\ a = kCtlSlots * q1 + r1
  BY CtlSlotsAssumption
<1>2. q2 \in Int /\ r2 \in Int /\ b = kCtlSlots * q2 + r2
  BY CtlSlotsAssumption
<1>3. r1 = r2
  BY DEF CtlIndex
<1> HIDE DEF q1, r1, q2, r2
<1>4. PICK m \in Int : m = q1 - q2
  BY <1>1, <1>2
<1>5. a - b = kCtlSlots * m
  BY <1>1, <1>2, <1>3, <1>4, CtlSlotsAssumption
<1>6. CASE m >= 1
  <2>1. kCtlSlots * m >= kCtlSlots
    BY <1>6, CtlSlotsAssumption
  <2> QED BY <2>1, <1>5, CtlSlotsAssumption
<1>7. CASE m <= 0
  <2>1. kCtlSlots * m <= 0
    BY <1>7, CtlSlotsAssumption
  <2> QED BY <2>1, <1>5
<1> QED BY <1>6, <1>7

\* A command of which both halves are the same number is that number whole.
LEMMA BothHalves ==
  ASSUME NEW x \in Command, NEW n, \A h \in Halves : x[h] = n
  PROVE  x = Whole(n)
BY DEF Command, Whole

\* The queue starts in the invariant.
LEMMA QueueInitInv == QueueInit => QueueInv
<1> SUFFICES ASSUME QueueInit PROVE QueueInv
  OBVIOUS
<1> USE CtlSlotsAssumption, PushesAssumption
<1>1. Whole(0) \in Command
  BY DEF Whole, Command
<1>2. QueueTypeOK
  BY <1>1 DEF QueueInit, QueueTypeOK
<1>3. ExactInv
  BY DEF QueueInit, ExactInv
<1> QED BY <1>2, <1>3 DEF QueueInit, QueueInv

\* Every step of either thread keeps the queue's types and its bound.
LEMMA QueueTypeStep ==
  ASSUME QueueInv, [QueueNext]_queueVars
  PROVE  QueueTypeOK' /\ (push'.at # "idle" => qHead' < MaxPushes)
<1> USE CtlSlotsAssumption, PushesAssumption
<1>t. QueueTypeOK /\ (push.at # "idle" => qHead < MaxPushes)
  BY DEF QueueInv
<1>1. CASE PushLoad
  <2>1. push' \in [at: {"idle", "drop", "store"}, t: Nat, todo: SUBSET Halves]
    BY <1>1, <1>t DEF PushLoad, QueueTypeOK
  <2> QED BY <2>1, <1>1, <1>t DEF PushLoad, QueueTypeOK
<1>2. CASE PushDrop
  <2>1. /\ push' \in [at: {"idle", "drop", "store"}, t: Nat, todo: SUBSET Halves]
        /\ push.t \in Nat
    BY <1>2, <1>t DEF PushDrop, QueueTypeOK
  <2>2. push.t + 1 \in Nat /\ dropped + 1 \in Nat /\ qHead < MaxPushes
    BY <2>1, <1>2, <1>t DEF PushDrop, QueueTypeOK
  <2> QED BY <2>1, <2>2, <1>2, <1>t DEF PushDrop, QueueTypeOK
<1>3. ASSUME NEW h \in Halves, PushStore(h)
      PROVE  QueueTypeOK' /\ (push'.at # "idle" => qHead' < MaxPushes)
  <2>1. push' \in [at: {"idle", "drop", "store"}, t: Nat, todo: SUBSET Halves]
    BY <1>3, <1>t DEF PushStore, QueueTypeOK
  <2>2. qHead + 1 \in 0..MaxPushes /\ qHead < MaxPushes
    BY <1>3, <1>t DEF PushStore, QueueTypeOK
  <2>3. qSlot' \in [0..(kCtlSlots - 1) -> Command]
    BY <2>2, <1>3, <1>t DEF PushStore, QueueTypeOK, Command
  <2> QED BY <2>1, <2>2, <2>3, <1>3, <1>t DEF PushStore, QueueTypeOK
<1>4. CASE PushPublish
  <2>1. /\ push' \in [at: {"idle", "drop", "store"}, t: Nat, todo: SUBSET Halves]
        /\ push'.at = "idle"
    BY <1>4, <1>t DEF PushPublish, QueueTypeOK
  <2> QED BY <2>1, <1>4, <1>t, SMTT(40) DEF PushPublish, QueueTypeOK
<1> DEFINE PopType == [at: {"idle", "check", "copy"}, t: Nat, todo: SUBSET Halves,
                       out: Command]
<1>5. CASE PopLoad
  <2>1. pop' \in PopType
    BY <1>5, <1>t DEF PopLoad, QueueTypeOK
  <2> QED BY <2>1, <1>5, <1>t DEF PopLoad, QueueTypeOK
<1>6. CASE PopCheck
  <2>1. pop' \in PopType
    BY <1>6, <1>t DEF PopCheck, QueueTypeOK
  <2> QED BY <2>1, <1>6, <1>t DEF PopCheck, QueueTypeOK
<1>7. ASSUME NEW h \in Halves, PopCopy(h)
      PROVE  QueueTypeOK' /\ (push'.at # "idle" => qHead' < MaxPushes)
  <2>1. pop \in PopType
    BY <1>t DEF QueueTypeOK
  <2>2. qSlot[CtlIndex(pop.t)][h] \in 0..MaxPushes
    <3>1. CtlIndex(pop.t) \in 0..(kCtlSlots - 1)
      BY <2>1, CtlIndexInRange
    <3> QED BY <3>1, <1>t DEF QueueTypeOK, Command
  <2>3. [pop.out EXCEPT ![h] = qSlot[CtlIndex(pop.t)][h]] \in Command
    BY <2>1, <2>2 DEF Command
  <2>4. pop' \in PopType
    BY <2>1, <2>3, <1>7 DEF PopCopy
  <2> QED BY <2>4, <1>7, <1>t DEF PopCopy, QueueTypeOK
<1>8. CASE PopCommit
  <2>1. pop' \in PopType /\ pop.t \in Nat /\ pop.out \in Command
    BY <1>8, <1>t DEF PopCommit, QueueTypeOK
  <2> QED BY <2>1, <1>8, <1>t, SMTT(40) DEF PopCommit, QueueTypeOK
<1>9. CASE UNCHANGED queueVars
  BY <1>9, <1>t DEF queueVars, QueueTypeOK
<1> QED BY <1>1, <1>2, <1>3, <1>4, <1>5, <1>6, <1>7, <1>8, <1>9
        DEF QueueNext, Pusher, Pop

\* As long as no push drops, every step keeps the queue exact.
LEMMA QueueExactStep ==
  ASSUME QueueInv, [QueueNext]_queueVars, dropped' = 0
  PROVE  ExactInv'
<1> USE CtlSlotsAssumption, PushesAssumption
<1> DEFINE PopType == [at: {"idle", "check", "copy"}, t: Nat, todo: SUBSET Halves,
                       out: Command]
           PushType == [at: {"idle", "drop", "store"}, t: Nat, todo: SUBSET Halves]
<1>t. /\ qHead \in Nat /\ qTail \in Nat /\ dropped \in Nat
      /\ qSlot \in [0..(kCtlSlots - 1) -> Command]
      /\ push \in PushType /\ pop \in PopType
  BY DEF QueueInv, QueueTypeOK
<1>d. dropped = 0 /\ ~PushDrop
  <2>1. PushDrop => dropped' # 0
    BY <1>t DEF PushDrop
  <2>2. PushDrop \/ dropped' = dropped
    BY DEF QueueNext, Pusher, Pop, queueVars, PushLoad, PushStore, PushPublish,
           PopLoad, PopCheck, PopCopy, PopCommit
  <2> QED BY <2>1, <2>2
<1>e. ExactInv
  BY <1>d DEF QueueInv
<1>1. CASE PushLoad
  BY <1>1, <1>t, <1>e DEF PushLoad, ExactInv, CtlIndex
<1>2. ASSUME NEW h \in Halves, PushStore(h)
      PROVE  ExactInv'
  <2>1. /\ qHead' = qHead /\ qTail' = qTail /\ taken' = taken /\ pop' = pop
        /\ push.at = "store" /\ push'.at = "store" /\ push'.todo = push.todo \ {h}
    BY <1>2, <1>t DEF PushStore
  <2>2. CtlIndex(qHead) \in 0..(kCtlSlots - 1)
    BY <1>t, CtlIndexInRange
  <2>3. /\ qSlot'[CtlIndex(qHead)][h] = qHead + 1
        /\ \A g \in Halves \ {h} :
             qSlot'[CtlIndex(qHead)][g] = qSlot[CtlIndex(qHead)][g]
        /\ \A i \in 0..(kCtlSlots - 1) : i # CtlIndex(qHead) => qSlot'[i] = qSlot[i]
    BY <2>2, <1>2, <1>t DEF PushStore, Command
  <2>4. \A n \in qTail..(qHead - 1) : qSlot'[CtlIndex(n)] = Whole(n + 1)
    <3> TAKE n \in qTail..(qHead - 1)
    <3>1. n \in Nat /\ n < qHead /\ qHead - n < kCtlSlots
      BY <2>1, <1>t, <1>e DEF ExactInv
    <3>2. CtlIndex(n) # CtlIndex(qHead) /\ CtlIndex(n) \in 0..(kCtlSlots - 1)
      BY <3>1, <1>t, CtlIndexDistinct, CtlIndexInRange
    <3> QED BY <3>2, <2>3, <1>e DEF ExactInv
  <2>5. \A g \in Halves \ push'.todo : qSlot'[CtlIndex(qHead)][g] = qHead + 1
    BY <2>1, <2>3, <1>e DEF ExactInv
  <2> QED BY <2>1, <2>4, <2>5, <1>e DEF ExactInv, CtlIndex
<1>3. CASE PushPublish
  <2>1. /\ qHead' = qHead + 1 /\ qTail' = qTail /\ taken' = taken /\ pop' = pop
        /\ qSlot' = qSlot /\ push.at = "store" /\ push.todo = {} /\ push'.at = "idle"
    BY <1>3, <1>t DEF PushPublish
  <2>2. qSlot[CtlIndex(qHead)] = Whole(qHead + 1)
    <3>1. qSlot[CtlIndex(qHead)] \in Command
      BY <1>t, CtlIndexInRange
    <3>2. \A h \in Halves : qSlot[CtlIndex(qHead)][h] = qHead + 1
      BY <2>1, <1>e DEF ExactInv
    <3> QED BY <3>1, <3>2, BothHalves
  <2>3. \A n \in qTail..(qHead + 1 - 1) : qSlot[CtlIndex(n)] = Whole(n + 1)
    <3> TAKE n \in qTail..(qHead + 1 - 1)
    <3>1. CASE n = qHead
      BY <3>1, <2>2
    <3>2. CASE n # qHead
      <4>1. n \in qTail..(qHead - 1)
        BY <3>2, <1>t
      <4> QED BY <4>1, <1>e DEF ExactInv
    <3> QED BY <3>1, <3>2
  <2>4. qTail <= qHead + 1 /\ (qTail < qHead => qTail < qHead + 1)
    BY <1>t, <1>e DEF ExactInv
  <2>5. \A n \in qTail'..(qHead' - 1) : qSlot'[CtlIndex(n)] = Whole(n + 1)
    <3>1. qTail'..(qHead' - 1) = qTail..(qHead + 1 - 1) /\ qSlot' = qSlot
      BY <2>1, <1>t
    <3> QED BY <3>1, <2>3, Zenon
  <2>6. /\ qTail' <= qHead' /\ taken' = Whole(qTail')
        /\ pop'.at # "idle" => pop'.t = qTail'
        /\ pop'.at = "copy" =>
             qTail' < qHead' /\ \A h \in Halves \ pop'.todo : pop'.out[h] = pop'.t + 1
    BY <2>1, <2>4, <1>e DEF ExactInv
  <2> QED BY <2>1, <2>5, <2>6 DEF ExactInv, CtlIndex
<1>4. CASE PopLoad
  <2>1. pop'.at = "check" /\ pop'.t = qTail
    BY <1>4, <1>t DEF PopLoad
  <2> QED BY <2>1, <1>4, <1>e DEF PopLoad, ExactInv, CtlIndex
<1>5. CASE PopCheck
  <2>1. /\ pop'.t = pop.t /\ pop.t = qTail
        /\ pop'.at \in {"idle", "copy"}
        /\ pop'.at = "copy" => pop.t # qHead /\ pop'.todo = Halves
    BY <1>5, <1>t, <1>e DEF PopCheck, ExactInv
  <2>2. pop'.at = "copy" => qTail < qHead
    BY <2>1, <1>t, <1>e DEF ExactInv
  <2> QED BY <2>1, <2>2, <1>5, <1>e DEF PopCheck, ExactInv, CtlIndex
<1>6. ASSUME NEW h \in Halves, PopCopy(h)
      PROVE  ExactInv'
  <2>1. /\ pop.at = "copy" /\ pop'.at = "copy" /\ pop'.t = pop.t /\ pop.t = qTail
        /\ pop'.todo = pop.todo \ {h}
        /\ pop'.out = [pop.out EXCEPT ![h] = qSlot[CtlIndex(pop.t)][h]]
    BY <1>6, <1>t, <1>e DEF PopCopy, ExactInv
  <2>2. qSlot[CtlIndex(pop.t)][h] = pop.t + 1
    <3>1. pop.t \in qTail..(qHead - 1)
      BY <2>1, <1>t, <1>e DEF ExactInv
    <3>2. qSlot[CtlIndex(pop.t)] = Whole(pop.t + 1)
      BY <3>1, <1>e DEF ExactInv
    <3> QED BY <3>2 DEF Whole
  <2>3. \A g \in Halves \ pop'.todo : pop'.out[g] = pop'.t + 1
    BY <2>1, <2>2, <1>t, <1>e DEF ExactInv, Command
  <2> QED BY <2>1, <2>3, <1>6, <1>e DEF PopCopy, ExactInv, CtlIndex
<1>7. CASE PopCommit
  <2>1. /\ pop.at = "copy" /\ pop'.at = "idle" /\ pop.t = qTail
        /\ qTail' = qTail + 1 /\ taken' = pop.out /\ qTail < qHead
        /\ qHead' = qHead /\ qSlot' = qSlot /\ push' = push
    BY <1>7, <1>t, <1>e DEF PopCommit, ExactInv
  <2>2. pop.out = Whole(qTail + 1)
    <3>1. pop.out \in Command /\ \A h \in Halves : pop.out[h] = qTail + 1
      BY <2>1, <1>7, <1>t, <1>e DEF PopCommit, ExactInv
    <3> QED BY <3>1, BothHalves
  <2>3. /\ qTail + 1 <= qHead
        /\ qHead - qTail < kCtlSlots => qHead - (qTail + 1) < kCtlSlots
        /\ \A n \in (qTail + 1)..(qHead - 1) : n \in qTail..(qHead - 1)
    BY <2>1, <1>t
  <2> QED BY <2>1, <2>2, <2>3, <1>e DEF ExactInv, CtlIndex
<1>8. CASE UNCHANGED queueVars
  BY <1>8, <1>e DEF queueVars, ExactInv, CtlIndex
<1> QED BY <1>1, <1>2, <1>3, <1>4, <1>5, <1>6, <1>7, <1>8, <1>d
        DEF QueueNext, Pusher, Pop

\* The command queue of uf_ctl_server.hpp keeps its inductive invariant.
THEOREM QueueInvariant == QueueSpec => []QueueInv
<1>1. QueueInv /\ [QueueNext]_queueVars => QueueInv'
  BY QueueTypeStep, QueueExactStep DEF QueueInv
<1> QED BY <1>1, QueueInitInv, PTL DEF QueueSpec

\* Every variable of the command queue keeps its type, overruns included.
THEOREM QueueTypeCorrect == QueueSpec => []QueueTypeOK
BY QueueInvariant, PTL DEF QueueInv

\* CtlQueue::pop hands the pump every command, whole and in order, until a push
\* finds the queue full: for every number of slots and however the half copies
\* of the two threads interleave.
THEOREM QueueDeliversEvery == QueueSpec => DeliversEvery
<1>1. ASSUME QueueInv, QueueNext, taken' # taken, dropped = 0
      PROVE  taken' = Whole(taken[1] + 1)
  <2>1. PopCommit
    BY <1>1 DEF QueueNext, Pusher, Pop, PushLoad, PushDrop, PushStore, PushPublish,
                PopLoad, PopCheck, PopCopy
  <2>2. ExactInv
    BY <1>1 DEF QueueInv
  <2>3. pop.out \in Command /\ \A h \in Halves : pop.out[h] = qTail + 1
    BY <2>1, <2>2, <1>1 DEF PopCommit, ExactInv, QueueInv, QueueTypeOK
  <2>4. pop.out = Whole(qTail + 1)
    BY <2>3, BothHalves
  <2>5. taken[1] = qTail
    BY <2>2 DEF ExactInv, Whole, Halves
  <2> QED BY <2>1, <2>4, <2>5 DEF PopCommit
<1>2. QueueInv /\ [QueueNext]_queueVars
        => [taken' # taken /\ dropped = 0 => taken' = Whole(taken[1] + 1)]_queueVars
  BY <1>1
<1> QED BY <1>2, QueueInvariant, PTL DEF QueueSpec, DeliversEvery

-----------------------------------------------------------------------------
(* The mixer *)

\* The model's type.
Crosspoints == Kinds \X Channels \X Channels
Models == [cells: [Crosspoints -> Cells], outputs: [Channels -> Cells], scratch: Cells,
           stereo: SUBSET (Kinds \X Nat)]

\* A number of blocks is a number of quadlets, and more blocks are more quadlets.
LEMMA BlocksGrow ==
  ASSUME NEW m \in Nat, NEW n \in Nat, m <= n
  PROVE  /\ m * Block \in Nat /\ m * Block <= n * Block
         /\ (m + 1) * Block = m * Block + Block
BY LayoutAssumption

\* The address of a crosspoint lies in its block.
LEMMA CoeffInBlock ==
  ASSUME NEW k \in Kinds, NEW s \in Channels, NEW d \in Channels
  PROVE  LET b == IF k = "Playback" THEN 2 * d + 1 ELSE 2 * d
         IN  /\ b \in Nat /\ CoeffAddr(k, s, d) = b * Block + s
             /\ b + 1 <= 2 * Dests - 2
<1> USE LayoutAssumption DEF Channels
<1>1. d * 2 * Block = (2 * d) * Block /\ (2 * d + 1) * Block = (2 * d) * Block + Block
  OBVIOUS
<1>2. (2 * d) * Block \in Nat
  OBVIOUS
<1> QED BY <1>1, <1>2 DEF CoeffAddr

\* Two places of the RAM, each in the first kCh quadlets of a block, are the same
\* only if block and quadlet are.
LEMMA BlocksApart ==
  ASSUME NEW b1 \in Nat, NEW b2 \in Nat, NEW s1 \in Channels, NEW s2 \in Channels,
         b1 * Block + s1 = b2 * Block + s2
  PROVE  b1 = b2 /\ s1 = s2
<1> USE LayoutAssumption DEF Channels
<1>1. ASSUME NEW a \in Nat, NEW b \in Nat, NEW s \in Channels, NEW t \in Channels, a < b
      PROVE  a * Block + s < b * Block + t
  <2>1. a * Block \in Nat /\ b * Block \in Nat
    OBVIOUS
  <2>2. (a + 1) * Block <= b * Block /\ (a + 1) * Block = a * Block + Block
    BY <1>1, BlocksGrow
  <2> QED BY <2>1, <2>2
<1>2. b1 * Block \in Nat /\ b2 * Block \in Nat
  OBVIOUS
<1>3. ~(b1 < b2) /\ ~(b2 < b1)
  BY <1>1, <1>2
<1> QED BY <1>2, <1>3

\* Every register has one meaning: no two crosspoints share an address, no two
\* faders, and no crosspoint has a fader's; all of them are in the RAM.
LEMMA AddressesApart ==
  /\ \A k, l \in Kinds, s, t, d, e \in Channels :
       CoeffAddr(k, s, d) = CoeffAddr(l, t, e) => k = l /\ s = t /\ d = e
  /\ \A k \in Kinds, s, d, o \in Channels : CoeffAddr(k, s, d) # FaderAddr(o)
  /\ \A o, p \in Channels : FaderAddr(o) = FaderAddr(p) => o = p
  /\ \A k \in Kinds, s, d \in Channels : CoeffAddr(k, s, d) \in Ram
  /\ \A o \in Channels : FaderAddr(o) \in Ram
<1> USE LayoutAssumption
<1> DEFINE Blk(k, d) == IF k = "Playback" THEN 2 * d + 1 ELSE 2 * d
<1>1. \A k \in Kinds, s, d \in Channels :
        /\ Blk(k, d) \in Nat /\ CoeffAddr(k, s, d) = Blk(k, d) * Block + s
        /\ Blk(k, d) + 1 <= 2 * Dests - 2
  BY CoeffInBlock
<1>2. \A k, l \in Kinds, d, e \in Channels : Blk(k, d) = Blk(l, e) => k = l /\ d = e
  BY DEF Kinds, Channels
<1> DEFINE At(b, s) == b * Block + s
<1>a. \A b, c \in Nat, s, t \in Channels : At(b, s) = At(c, t) => b = c /\ s = t
  BY BlocksApart
<1>b. \A k \in Kinds, s, d \in Channels : CoeffAddr(k, s, d) = At(Blk(k, d), s)
  BY <1>1
<1>c. \A o \in Channels : FaderAddr(o) = At(2 * Dests - 1, o)
  BY DEF FaderAddr
<1> HIDE DEF Blk, At
<1>3. ASSUME NEW k \in Kinds, NEW l \in Kinds, NEW s \in Channels, NEW t \in Channels,
             NEW d \in Channels, NEW e \in Channels,
             CoeffAddr(k, s, d) = CoeffAddr(l, t, e)
      PROVE  k = l /\ s = t /\ d = e
  <2>1. Blk(k, d) = Blk(l, e) /\ s = t
    BY <1>1, <1>3, <1>a, <1>b
  <2> QED BY <2>1, <1>2
<1>4. 2 * Dests - 1 \in Nat
  BY DEF Channels
<1>5. ASSUME NEW k \in Kinds, NEW s \in Channels, NEW d \in Channels, NEW o \in Channels,
             CoeffAddr(k, s, d) = FaderAddr(o)
      PROVE  FALSE
  <2>1. Blk(k, d) = 2 * Dests - 1
    BY <1>1, <1>4, <1>5, <1>a, <1>b, <1>c
  <2> QED BY <2>1, <1>1
<1>6. \A b \in Nat, s \in Channels : b <= 2 * Dests - 1 => b * Block + s \in Ram
  <2> SUFFICES ASSUME NEW b \in Nat, NEW s \in Channels, b <= 2 * Dests - 1
               PROVE  b * Block + s \in Ram
    OBVIOUS
  <2>1. /\ b * Block \in Nat /\ b * Block <= (2 * Dests - 1) * Block
        /\ (2 * Dests - 1 + 1) * Block = (2 * Dests - 1) * Block + Block
    BY <1>4, BlocksGrow
  <2>2. 2 * Dests * Block = (2 * Dests - 1) * Block + Block
    <3>1. 2 * Dests - 1 + 1 = 2 * Dests
      OBVIOUS
    <3> QED BY <2>1, <3>1
  <2>3. (2 * Dests - 1) * Block \in Nat
    BY <1>4
  <2> QED BY <2>1, <2>2, <2>3 DEF Ram, Channels
<1>7. ASSUME NEW k \in Kinds, NEW s \in Channels, NEW d \in Channels
      PROVE  CoeffAddr(k, s, d) \in Ram
  <2>1. Blk(k, d) \in Nat /\ Blk(k, d) <= 2 * Dests - 1
    BY <1>1
  <2> QED BY <2>1, <1>1, <1>6
<1>8. ASSUME NEW o \in Channels PROVE FaderAddr(o) \in Ram
  BY <1>4, <1>6 DEF FaderAddr
<1>9. ASSUME NEW o \in Channels, NEW p \in Channels, FaderAddr(o) = FaderAddr(p)
      PROVE  o = p
  BY <1>4, <1>9, <1>a, <1>c
<1> QED BY <1>3, <1>5, <1>7, <1>8, <1>9

\* A gain and its flags render to a number.
LEMMA QuadletIsInt ==
  ASSUME NEW c \in Cells
  PROVE  Quadlet(c) \in Int
BY LimitsAssumption DEF Quadlet, Cells

\* What a full render puts at every address.
LEMMA RenderAt ==
  ASSUME NEW m \in Models
  PROVE  /\ Render(m) \in [Ram -> Int]
         /\ \A o \in Channels : Render(m)[FaderAddr(o)] = Quadlet(m.outputs[o])
         /\ \A k \in Kinds, s, d \in Channels :
              Render(m)[CoeffAddr(k, s, d)] = Quadlet(m.cells[<<k, s, d>>])
<1> DEFINE Fader(a) == \E o \in Channels : a = FaderAddr(o)
           Coeff(a) == \E x \in Crosspoints : a = CoeffAddr(x[1], x[2], x[3])
           TheFader(a) == CHOOSE o \in Channels : a = FaderAddr(o)
           TheCoeff(a) == CHOOSE x \in Crosspoints : a = CoeffAddr(x[1], x[2], x[3])
           Value(a) == IF Fader(a) THEN Quadlet(m.outputs[TheFader(a)])
                       ELSE IF Coeff(a) THEN Quadlet(m.cells[TheCoeff(a)])
                       ELSE 0
<1>1. Render(m) = [a \in Ram |-> Value(a)]
  BY DEF Render, Crosspoints
<1>2. \A a : Fader(a) => TheFader(a) \in Channels /\ a = FaderAddr(TheFader(a))
  OBVIOUS
<1>3. \A a : Coeff(a) => /\ TheCoeff(a) \in Crosspoints
                         /\ a = CoeffAddr(TheCoeff(a)[1], TheCoeff(a)[2], TheCoeff(a)[3])
  OBVIOUS
<1>4. /\ \A o \in Channels : Fader(FaderAddr(o))
      /\ \A k \in Kinds, s, d \in Channels :
           Coeff(CoeffAddr(k, s, d)) /\ ~Fader(CoeffAddr(k, s, d))
  <2>1. ASSUME NEW k \in Kinds, NEW s \in Channels, NEW d \in Channels
        PROVE  Coeff(CoeffAddr(k, s, d))
    <3>1. <<k, s, d>> \in Crosspoints
      BY DEF Crosspoints
    <3>2. CoeffAddr(k, s, d) = CoeffAddr(<<k, s, d>>[1], <<k, s, d>>[2], <<k, s, d>>[3])
      OBVIOUS
    <3> QED BY <3>1, <3>2
  <2>2. \A k \in Kinds, s, d \in Channels : ~Fader(CoeffAddr(k, s, d))
    BY AddressesApart
  <2> QED BY <2>1, <2>2
<1>5. \A o \in Channels : TheFader(FaderAddr(o)) = o
  BY <1>2, <1>4, AddressesApart
<1>6. ASSUME NEW k \in Kinds, NEW s \in Channels, NEW d \in Channels
      PROVE  TheCoeff(CoeffAddr(k, s, d)) = <<k, s, d>>
  <2> DEFINE x == TheCoeff(CoeffAddr(k, s, d))
  <2>1. x \in Crosspoints /\ CoeffAddr(k, s, d) = CoeffAddr(x[1], x[2], x[3])
    BY <1>3, <1>4
  <2> HIDE DEF x
  <2>2. x = <<x[1], x[2], x[3]>> /\ x[1] \in Kinds /\ x[2] \in Channels /\ x[3] \in Channels
    BY <2>1 DEF Crosspoints
  <2>3. k = x[1] /\ s = x[2] /\ d = x[3]
    BY <2>1, <2>2, AddressesApart
  <2>4. x = <<k, s, d>>
    BY <2>2, <2>3
  <2> QED BY <2>4 DEF x
<1> HIDE DEF Fader, Coeff, TheFader, TheCoeff
<1>7. \A a \in Ram : Value(a) \in Int
  <2> TAKE a \in Ram
  <2>1. CASE Fader(a)
    <3>1. m.outputs[TheFader(a)] \in Cells
      BY <2>1, <1>2 DEF Models
    <3> QED BY <3>1, <2>1, QuadletIsInt
  <2>2. CASE ~Fader(a) /\ Coeff(a)
    <3>1. m.cells[TheCoeff(a)] \in Cells
      BY <2>2, <1>3 DEF Models
    <3> QED BY <3>1, <2>2, QuadletIsInt
  <2>3. CASE ~Fader(a) /\ ~Coeff(a)
    BY <2>3
  <2> QED BY <2>1, <2>2, <2>3
<1>8. /\ \A o \in Channels : Value(FaderAddr(o)) = Quadlet(m.outputs[o])
      /\ \A k \in Kinds, s, d \in Channels :
           Value(CoeffAddr(k, s, d)) = Quadlet(m.cells[<<k, s, d>>])
  BY <1>4, <1>5, <1>6
<1> HIDE DEF Value
<1> QED BY <1>1, <1>7, <1>8, AddressesApart

\* Two models that agree on whatever lies at an address render it alike.
LEMMA RenderLocal ==
  ASSUME NEW m \in Models, NEW n \in Models, NEW a \in Ram,
         \A o \in Channels : a = FaderAddr(o) => m.outputs[o] = n.outputs[o],
         \A k \in Kinds, s, d \in Channels :
           a = CoeffAddr(k, s, d) => m.cells[<<k, s, d>>] = n.cells[<<k, s, d>>]
  PROVE  Render(m)[a] = Render(n)[a]
<1>1. CASE \E o \in Channels : a = FaderAddr(o)
  BY <1>1, RenderAt
<1>2. CASE \E k \in Kinds, s, d \in Channels : a = CoeffAddr(k, s, d)
  <2>1. PICK k \in Kinds, s \in Channels, d \in Channels : a = CoeffAddr(k, s, d)
    BY <1>2
  <2>2. /\ Render(m)[CoeffAddr(k, s, d)] = Quadlet(m.cells[<<k, s, d>>])
        /\ Render(n)[CoeffAddr(k, s, d)] = Quadlet(n.cells[<<k, s, d>>])
    BY RenderAt
  <2>3. m.cells[<<k, s, d>>] = n.cells[<<k, s, d>>]
    BY <2>1
  <2> QED BY <2>1, <2>2, <2>3
<1>3. CASE /\ ~\E o \in Channels : a = FaderAddr(o)
           /\ ~\E k \in Kinds, s, d \in Channels : a = CoeffAddr(k, s, d)
  <2>1. ~\E x \in Kinds \X Channels \X Channels : a = CoeffAddr(x[1], x[2], x[3])
    BY <1>3
  <2>2. Render(m)[a] = 0 /\ Render(n)[a] = 0
    BY <2>1, <1>3 DEF Render
  <2> QED BY <2>2
<1> QED BY <1>1, <1>2, <1>3

-----------------------------------------------------------------------------
\* What a command owes the shadow: it changes the model from m to n, and ws gives
\* the rendering of n wherever that differs from the rendering of m.
Covers(ws, m, n) ==
  /\ n \in Models
  /\ DOMAIN ws \subseteq Ram
  /\ \A a \in DOMAIN ws : ws[a] = Render(n)[a]
  /\ \A a \in Ram \ DOMAIN ws : Render(n)[a] = Render(m)[a]

\* A new gain or new flags make a cell.
LEMMA CellsClosed ==
  ASSUME NEW x \in Cells
  PROVE  /\ \A g \in Nat : [x EXCEPT !.gain = g] \in Cells
         /\ \A f \in FlagSets : [x EXCEPT !.flags = f] \in Cells
BY DEF Cells

\* Setting one crosspoint and rendering it.
LEMMA OneCell ==
  ASSUME NEW m \in Models, NEW c, NEW new \in Cells,
         c.kind \in Kinds, c.src \in Channels, c.dest \in Channels,
         NEW n, n = SetCell(m, c, new), NEW ws,
         ws = [a \in {CoeffAddr(c.kind, c.src, c.dest)} |->
                 Quadlet(Cell(n, c.kind, c.src, c.dest))]
  PROVE  Covers(ws, m, n) /\ DOMAIN ws # {}
<1> DEFINE x == <<c.kind, c.src, c.dest>>
<1>1. x \in Crosspoints
  BY DEF Crosspoints
<1>2. n = [m EXCEPT !.cells[x] = new]
  BY DEF SetCell
<1> HIDE DEF x
<1>3. n \in Models
  BY <1>1, <1>2 DEF Models
<1>4. /\ n.outputs = m.outputs /\ n.cells[x] = new
      /\ \A y \in Crosspoints : y # x => n.cells[y] = m.cells[y]
  BY <1>1, <1>2 DEF Models
<1>5. DOMAIN ws = {CoeffAddr(c.kind, c.src, c.dest)} /\ DOMAIN ws \subseteq Ram
  BY AddressesApart
<1>6. \A a \in DOMAIN ws : ws[a] = Render(n)[a]
  <2>1. Cell(n, c.kind, c.src, c.dest) = n.cells[<<c.kind, c.src, c.dest>>]
    BY DEF Cell
  <2>2. Render(n)[CoeffAddr(c.kind, c.src, c.dest)]
          = Quadlet(n.cells[<<c.kind, c.src, c.dest>>])
    BY <1>3, RenderAt
  <2> QED BY <2>1, <2>2, <1>5
<1>7. ASSUME NEW a \in Ram \ DOMAIN ws PROVE Render(n)[a] = Render(m)[a]
  <2>1. ASSUME NEW k \in Kinds, NEW s \in Channels, NEW d \in Channels,
               a = CoeffAddr(k, s, d)
        PROVE  n.cells[<<k, s, d>>] = m.cells[<<k, s, d>>]
    <3>1. <<k, s, d>> # x /\ <<k, s, d>> \in Crosspoints
      BY <2>1, <1>5, <1>7 DEF x, Crosspoints
    <3> QED BY <3>1, <1>4
  <2> QED BY <2>1, <1>3, <1>4, RenderLocal
<1> QED BY <1>3, <1>5, <1>6, <1>7 DEF Covers

\* Setting one fader and rendering it.
LEMMA OneOutput ==
  ASSUME NEW m \in Models, NEW c, NEW new \in Cells, c.out \in Channels,
         NEW n, n = SetOutput(m, c, new), NEW ws,
         ws = [a \in {FaderAddr(c.out)} |-> Quadlet(Output(n, c.out))]
  PROVE  Covers(ws, m, n) /\ DOMAIN ws # {}
<1>2. n = [m EXCEPT !.outputs[c.out] = new]
  BY DEF SetOutput
<1>3. n \in Models
  BY <1>2 DEF Models
<1>4. /\ n.cells = m.cells /\ n.outputs[c.out] = new
      /\ \A o \in Channels : o # c.out => n.outputs[o] = m.outputs[o]
  BY <1>2 DEF Models
<1>5. DOMAIN ws = {FaderAddr(c.out)} /\ DOMAIN ws \subseteq Ram
  BY AddressesApart
<1>6. \A a \in DOMAIN ws : ws[a] = Render(n)[a]
  <2>1. Output(n, c.out) = n.outputs[c.out]
    BY DEF Output
  <2>2. Render(n)[FaderAddr(c.out)] = Quadlet(n.outputs[c.out])
    BY <1>3, RenderAt
  <2> QED BY <2>1, <2>2, <1>5
<1>7. ASSUME NEW a \in Ram \ DOMAIN ws PROVE Render(n)[a] = Render(m)[a]
  <2>1. \A o \in Channels : a = FaderAddr(o) => n.outputs[o] = m.outputs[o]
    BY <1>4, <1>5, <1>7
  <2> QED BY <2>1, <1>3, <1>4, RenderLocal
<1> QED BY <1>3, <1>5, <1>6, <1>7 DEF Covers

\* The registers of a column, rendered.
ColumnWrites(n, dest) ==
  [a \in {CoeffAddr(k, s, dest) : k \in Kinds, s \in Channels} |->
     LET x == CHOOSE x \in Kinds \X Channels : a = CoeffAddr(x[1], x[2], dest)
     IN Quadlet(Cell(n, x[1], x[2], dest))]

\* A column rendered cell by cell is the column of a full render.
LEMMA ColumnRendered ==
  ASSUME NEW n \in Models, NEW dest \in Channels, NEW ws, ws = ColumnWrites(n, dest)
  PROVE  /\ DOMAIN ws \subseteq Ram /\ DOMAIN ws # {}
         /\ \A a \in DOMAIN ws : ws[a] = Render(n)[a]
<1>6. DOMAIN ws = {CoeffAddr(k, s, dest) : k \in Kinds, s \in Channels}
  BY DEF ColumnWrites
<1>7. DOMAIN ws \subseteq Ram
  BY <1>6, AddressesApart
<1>8. ASSUME NEW a \in DOMAIN ws PROVE ws[a] = Render(n)[a]
  <2> DEFINE x == CHOOSE x \in Kinds \X Channels : a = CoeffAddr(x[1], x[2], dest)
  <2>1. ws[a] = Quadlet(Cell(n, x[1], x[2], dest))
    BY <1>8 DEF ColumnWrites
  <2>2. PICK k \in Kinds, s \in Channels : a = CoeffAddr(k, s, dest)
    BY <1>6, <1>8
  <2>3. /\ <<k, s>> \in Kinds \X Channels
        /\ a = CoeffAddr(<<k, s>>[1], <<k, s>>[2], dest)
    BY <2>2
  <2>4. x \in Kinds \X Channels /\ a = CoeffAddr(x[1], x[2], dest)
    BY <2>3
  <2> HIDE DEF x
  <2>5. x[1] \in Kinds /\ x[2] \in Channels
    BY <2>4
  <2>6. Cell(n, x[1], x[2], dest) = n.cells[<<x[1], x[2], dest>>]
    BY <2>5 DEF Cell
  <2>7. Render(n)[CoeffAddr(x[1], x[2], dest)] = Quadlet(n.cells[<<x[1], x[2], dest>>])
    BY <2>5, RenderAt
  <2> QED BY <2>1, <2>4, <2>6, <2>7
<1>10. DOMAIN ws # {}
  <2>1. 0 \in Channels /\ "Input" \in Kinds
    BY LayoutAssumption DEF Channels, Kinds
  <2>2. CoeffAddr("Input", 0, dest) \in DOMAIN ws
    BY <2>1, <1>6
  <2> QED BY <2>2
<1> QED BY <1>7, <1>8, <1>10

\* Setting a column and rendering it.
LEMMA OneColumn ==
  ASSUME NEW m \in Models, NEW c, c.dest \in Channels,
         NEW cell \in [Kinds \X Channels -> Cells],
         NEW n, n = Column(m, c.dest, cell), NEW ws,
         ws = ColumnWrites(n, c.dest)
  PROVE  Covers(ws, m, n) /\ DOMAIN ws # {}
<1> DEFINE Value(x) == IF x[3] = c.dest THEN cell[<<x[1], x[2]>>] ELSE m.cells[x]
<1>1. n = [m EXCEPT !.cells = [x \in Crosspoints |-> Value(x)]]
  BY DEF Column, Models
<1>2. ASSUME NEW x \in Crosspoints PROVE Value(x) \in Cells
  <2>1. <<x[1], x[2]>> \in Kinds \X Channels
    BY DEF Crosspoints
  <2> QED BY <2>1 DEF Models
<1>3. \A k \in Kinds, s, d \in Channels :
        d # c.dest => Value(<<k, s, d>>) = m.cells[<<k, s, d>>]
  OBVIOUS
<1> HIDE DEF Value
<1>4. n \in Models
  <2> DEFINE column == [x \in Crosspoints |-> Value(x)]
  <2>1. column \in [Crosspoints -> Cells]
    BY <1>2
  <2> HIDE DEF column
  <2>2. n = [m EXCEPT !.cells = column]
    BY <1>1 DEF column
  <2> QED BY <2>1, <2>2 DEF Models
<1>5. /\ n.outputs = m.outputs
      /\ \A x \in Crosspoints : n.cells[x] = Value(x)
  BY <1>1 DEF Models
<1>6. DOMAIN ws = {CoeffAddr(k, s, c.dest) : k \in Kinds, s \in Channels}
  BY DEF ColumnWrites
<1>7. /\ DOMAIN ws \subseteq Ram /\ DOMAIN ws # {}
      /\ \A a \in DOMAIN ws : ws[a] = Render(n)[a]
  BY <1>4, ColumnRendered
<1>9. ASSUME NEW a \in Ram \ DOMAIN ws PROVE Render(n)[a] = Render(m)[a]
  <2>1. ASSUME NEW k \in Kinds, NEW s \in Channels, NEW d \in Channels,
               a = CoeffAddr(k, s, d)
        PROVE  n.cells[<<k, s, d>>] = m.cells[<<k, s, d>>]
    <3>1. d # c.dest
      BY <2>1, <1>6, <1>9
    <3>2. <<k, s, d>> \in Crosspoints
      BY DEF Crosspoints
    <3> QED BY <3>1, <3>2, <1>3, <1>5
  <2> QED BY <2>1, <1>4, <1>5, RenderLocal
<1> QED BY <1>4, <1>7, <1>9 DEF Covers

\* Stereo pairing leaves cells and faders alone.
LEMMA StereoUpdate ==
  ASSUME NEW m \in Models, NEW c \in [type: {"SetStereo"}, kind: Kinds, src: ChannelNo, on: BOOLEAN],
         NEW n, n = Updated(m, c)
  PROVE  n \in Models /\ n.outputs = m.outputs /\ n.cells = m.cells
<1>1. CASE c.src \in Channels
  <2>1. PICK st : n = [m EXCEPT !.stereo = st] /\ st \in SUBSET (Kinds \X Nat)
    <3> DEFINE pair == {<<c.kind, c.src \div 2>>}
               st == IF c.on THEN m.stereo \cup pair ELSE m.stereo \ pair
    <3>1. c.src \div 2 \in Nat
      BY <1>1 DEF Channels
    <3>2. pair \in SUBSET (Kinds \X Nat)
      BY <3>1
    <3>3. n = [m EXCEPT !.stereo = st]
      BY <1>1 DEF Updated
    <3> HIDE DEF pair
    <3>4. st \in SUBSET (Kinds \X Nat)
      BY <3>2 DEF Models
    <3> QED BY <3>3, <3>4
  <2> QED BY <2>1 DEF Models
<1>2. CASE c.src \notin Channels
  BY <1>2 DEF Updated
<1> QED BY <1>1, <1>2

\* The two ways to the shadow agree: what a command writes (render_cell and
\* render_output) is what a full render would have changed.
LEMMA UpdateCovered ==
  ASSUME NEW m \in Models, NEW c \in Commands, InRange(c),
         NEW n, n = Updated(m, c), NEW ws, ws = Writes(n, c)
  PROVE  /\ Covers(ws, m, n)
         /\ DOMAIN ws # {} \/ c.type = "SetStereo" \/ n = m
<1>c. c \in Requests
  BY CommandsAssumption
<1>m. /\ \A k \in Kinds, s, d \in Channels :
           Cell(m, k, s, d) \in Cells /\ Cell(m, k, s, d) = m.cells[<<k, s, d>>]
      /\ \A o \in Channels : Output(m, o) \in Cells
      /\ \A f, g, h \in FlagSets : (f \ g) \cup (h \cap g) \in FlagSets
  <2>1. \A k \in Kinds, s, d \in Channels : <<k, s, d>> \in Crosspoints
    BY DEF Crosspoints
  <2> QED BY <2>1 DEF Cell, Output, Models, FlagSets
<1>1. CASE c \in [type: {"SetMixer"}, kind: Kinds, src: ChannelNo, dest: ChannelNo,
                  coeff: Nat]
  <2>r. c.src \in Channels /\ c.dest \in Channels
    BY <1>1 DEF InRange
  <2> DEFINE new == [Cell(m, c.kind, c.src, c.dest) EXCEPT !.gain = c.coeff]
  <2>1. new \in Cells
    BY <2>r, <1>1, <1>m, CellsClosed
  <2>2. n = SetCell(m, c, new)
    BY <1>1 DEF Updated
  <2>3. ws = [a \in {CoeffAddr(c.kind, c.src, c.dest)} |->
                Quadlet(Cell(n, c.kind, c.src, c.dest))]
    BY <1>1 DEF Writes
  <2> HIDE DEF new
  <2> QED BY <2>r, <2>1, <2>2, <2>3, <1>1, OneCell
<1>2. CASE c \in [type: {"SetFader"}, out: ChannelNo, coeff: Nat]
  <2>r. c.out \in Channels
    BY <1>2 DEF InRange
  <2> DEFINE new == [Output(m, c.out) EXCEPT !.gain = c.coeff]
  <2>1. new \in Cells
    BY <2>r, <1>2, <1>m, CellsClosed
  <2>2. n = SetOutput(m, c, new)
    BY <1>2 DEF Updated
  <2>3. ws = [a \in {FaderAddr(c.out)} |-> Quadlet(Output(n, c.out))]
    BY <1>2 DEF Writes
  <2> HIDE DEF new
  <2> QED BY <2>r, <2>1, <2>2, <2>3, <1>2, OneOutput
<1>3. CASE c \in [type: {"SetCellFlags"}, kind: Kinds, src: ChannelNo, dest: ChannelNo,
                  mask: FlagSets, flags: FlagSets]
  <2>r. c.src \in Channels /\ c.dest \in Channels
    BY <1>3 DEF InRange
  <2> DEFINE old == Cell(m, c.kind, c.src, c.dest)
             new == [old EXCEPT !.flags = Masked(old.flags, c)]
  <2>1. new \in Cells
    <3>1. old \in Cells
      BY <2>r, <1>3, <1>m
    <3>2. old.flags \in FlagSets
      BY <3>1 DEF Cells
    <3>3. Masked(old.flags, c) \in FlagSets
      BY <3>2, <1>3, <1>m DEF Masked
    <3> QED BY <3>1, <3>3, CellsClosed
  <2>2. n = SetCell(m, c, new)
    BY <1>3 DEF Updated
  <2>3. ws = [a \in {CoeffAddr(c.kind, c.src, c.dest)} |->
                Quadlet(Cell(n, c.kind, c.src, c.dest))]
    BY <1>3 DEF Writes
  <2> HIDE DEF new, old
  <2> QED BY <2>r, <2>1, <2>2, <2>3, <1>3, OneCell
<1>4. CASE c \in [type: {"SetOutFlags"}, out: ChannelNo, mask: FlagSets, flags: FlagSets]
  <2>r. c.out \in Channels
    BY <1>4 DEF InRange
  <2> DEFINE old == Output(m, c.out)
             new == [old EXCEPT !.flags = Masked(old.flags, c)]
  <2>1. new \in Cells
    <3>1. old \in Cells
      BY <2>r, <1>4, <1>m
    <3>2. old.flags \in FlagSets
      BY <3>1 DEF Cells
    <3>3. Masked(old.flags, c) \in FlagSets
      BY <3>2, <1>4, <1>m DEF Masked
    <3> QED BY <3>1, <3>3, CellsClosed
  <2>2. n = SetOutput(m, c, new)
    BY <1>4 DEF Updated
  <2>3. ws = [a \in {FaderAddr(c.out)} |-> Quadlet(Output(n, c.out))]
    BY <1>4 DEF Writes
  <2> HIDE DEF new, old
  <2> QED BY <2>r, <2>1, <2>2, <2>3, <1>4, OneOutput
<1>5. CASE c \in [type: {"SetStereo"}, kind: Kinds, src: ChannelNo, on: BOOLEAN]
  <2>2. n \in Models /\ n.outputs = m.outputs /\ n.cells = m.cells
    BY <1>5, StereoUpdate
  <2>3. \A a \in Ram : Render(n)[a] = Render(m)[a]
    BY <2>2, RenderLocal
  <2>4. ws = [a \in {} |-> 0]
    BY <1>5 DEF Writes
  <2> QED BY <2>2, <2>3, <2>4, <1>5 DEF Covers
<1>6. CASE c \in [type: {"ClearSubmix"}, dest: ChannelNo]
  <2>r. c.dest \in Channels
    BY <1>6 DEF InRange
  <2> DEFINE cell == [x \in Kinds \X Channels |-> Silent]
  <2>1. cell \in [Kinds \X Channels -> Cells]
    BY DEF Silent, Cells, FlagSets
  <2>2. n = Column(m, c.dest, cell)
    BY <2>r, <1>6 DEF Updated
  <2>3. ws = ColumnWrites(n, c.dest)
    BY <1>6 DEF Writes, ColumnWrites
  <2> HIDE DEF cell
  <2> QED BY <2>1, <2>2, <2>3, <2>r, OneColumn
<1>7. CASE c \in [type: {"CopySubmix"}, src: ChannelNo, dest: ChannelNo]
  <2>r. c.dest \in Channels
    BY <1>7 DEF InRange
  <2>3. ws = ColumnWrites(n, c.dest)
    BY <1>7 DEF Writes, ColumnWrites
  <2>4. CASE c.src \in Channels
    <3> DEFINE cell == [x \in Kinds \X Channels |-> m.cells[<<x[1], x[2], c.src>>]]
    <3>1. cell \in [Kinds \X Channels -> Cells]
      <4>1. \A x \in Kinds \X Channels : <<x[1], x[2], c.src>> \in Crosspoints
        BY <2>4 DEF Crosspoints
      <4> QED BY <4>1 DEF Models
    <3>2. n = Column(m, c.dest, cell)
      BY <2>r, <2>4, <1>7 DEF Updated
    <3> HIDE DEF cell
    <3> QED BY <3>1, <3>2, <2>3, <2>r, OneColumn
  <2>5. CASE c.src \notin Channels
    <3>1. n = m
      BY <2>5, <1>7 DEF Updated
    <3>2. /\ DOMAIN ws \subseteq Ram /\ DOMAIN ws # {}
          /\ \A a \in DOMAIN ws : ws[a] = Render(n)[a]
      BY <3>1, <2>3, <2>r, ColumnRendered
    <3> QED BY <3>1, <3>2 DEF Covers
  <2> QED BY <2>4, <2>5
<1>8. CASE c \in [type: {"SetSettings"}, value: Nat]
  <2>1. n = m
    BY <1>8 DEF Updated
  <2>2. ws = [a \in {} |-> 0]
    BY <1>8 DEF Writes
  <2> QED BY <2>1, <2>2 DEF Covers
<1> QED BY <1>c, <1>1, <1>2, <1>3, <1>4, <1>5, <1>6, <1>7, <1>8 DEF Requests

\* A command out of range changes the scratch cell and nothing else of the model.
LEMMA StrayUpdate ==
  ASSUME NEW m \in Models, NEW c \in Commands, ~InRange(c), NEW n, n = Updated(m, c)
  PROVE  /\ n \in Models
         /\ n.cells = m.cells /\ n.outputs = m.outputs /\ n.stereo = m.stereo
         /\ DOMAIN Writes(n, c) # {}
<1>c. c \in Requests
  BY CommandsAssumption
<1>s. ASSUME NEW new \in Cells, n = [m EXCEPT !.scratch = new]
      PROVE  /\ n \in Models
             /\ n.cells = m.cells /\ n.outputs = m.outputs /\ n.stereo = m.stereo
  BY <1>s DEF Models
<1>m. m.scratch \in Cells /\ m.scratch.flags \in FlagSets
  BY DEF Models, Cells
<1>f. \A f, g, h \in FlagSets : (f \ g) \cup (h \cap g) \in FlagSets
  BY DEF FlagSets
<1>1. CASE c \in [type: {"SetMixer"}, kind: Kinds, src: ChannelNo, dest: ChannelNo,
                  coeff: Nat]
  <2>r. ~(c.src \in Channels /\ c.dest \in Channels)
    BY <1>1 DEF InRange
  <2> DEFINE new == [m.scratch EXCEPT !.gain = c.coeff]
  <2>1. new \in Cells
    BY <1>1, <1>m, CellsClosed
  <2>2. n = [m EXCEPT !.scratch = new]
    BY <2>r, <1>1 DEF Updated, SetCell, Cell
  <2>3. DOMAIN Writes(n, c) # {}
    BY <1>1 DEF Writes
  <2> HIDE DEF new
  <2> QED BY <2>1, <2>2, <2>3, <1>s
<1>2. CASE c \in [type: {"SetFader"}, out: ChannelNo, coeff: Nat]
  <2>r. c.out \notin Channels
    BY <1>2 DEF InRange
  <2> DEFINE new == [m.scratch EXCEPT !.gain = c.coeff]
  <2>1. new \in Cells
    BY <1>2, <1>m, CellsClosed
  <2>2. n = [m EXCEPT !.scratch = new]
    BY <2>r, <1>2 DEF Updated, SetOutput, Output
  <2>3. DOMAIN Writes(n, c) # {}
    BY <1>2 DEF Writes
  <2> HIDE DEF new
  <2> QED BY <2>1, <2>2, <2>3, <1>s
<1>3. CASE c \in [type: {"SetCellFlags"}, kind: Kinds, src: ChannelNo, dest: ChannelNo,
                  mask: FlagSets, flags: FlagSets]
  <2>r. ~(c.src \in Channels /\ c.dest \in Channels)
    BY <1>3 DEF InRange
  <2> DEFINE flags == Masked(m.scratch.flags, c)
             new == [m.scratch EXCEPT !.flags = flags]
  <2>1. flags \in FlagSets
    BY <1>3, <1>m, <1>f DEF Masked
  <2>2. n = [m EXCEPT !.scratch = new]
    BY <2>r, <1>3 DEF Updated, SetCell, Cell
  <2>3. DOMAIN Writes(n, c) # {}
    BY <1>3 DEF Writes
  <2> HIDE DEF flags
  <2>4. new \in Cells
    BY <2>1, <1>m, CellsClosed
  <2> HIDE DEF new
  <2> QED BY <2>2, <2>3, <2>4, <1>s
<1>4. CASE c \in [type: {"SetOutFlags"}, out: ChannelNo, mask: FlagSets, flags: FlagSets]
  <2>r. c.out \notin Channels
    BY <1>4 DEF InRange
  <2> DEFINE flags == Masked(m.scratch.flags, c)
             new == [m.scratch EXCEPT !.flags = flags]
  <2>1. flags \in FlagSets
    BY <1>4, <1>m, <1>f DEF Masked
  <2>2. n = [m EXCEPT !.scratch = new]
    BY <2>r, <1>4 DEF Updated, SetOutput, Output
  <2>3. DOMAIN Writes(n, c) # {}
    BY <1>4 DEF Writes
  <2> HIDE DEF flags
  <2>4. new \in Cells
    BY <2>1, <1>m, CellsClosed
  <2> HIDE DEF new
  <2> QED BY <2>2, <2>3, <2>4, <1>s
<1>5. CASE c \in [type: {"ClearSubmix"}, dest: ChannelNo]
             \cup [type: {"CopySubmix"}, src: ChannelNo, dest: ChannelNo]
  <2>r. c.dest \notin Channels
    BY <1>5 DEF InRange
  <2>1. n = m
    BY <2>r, <1>5 DEF Updated
  <2>2. Writes(n, c) = ColumnWrites(n, c.dest)
    BY <1>5 DEF Writes, ColumnWrites
  <2>3. DOMAIN ColumnWrites(n, c.dest) = {CoeffAddr(k, s, c.dest) : k \in Kinds, s \in Channels}
    BY DEF ColumnWrites
  <2>4. 0 \in Channels /\ "Input" \in Kinds
    BY LayoutAssumption DEF Channels, Kinds
  <2>5. CoeffAddr("Input", 0, c.dest) \in DOMAIN ColumnWrites(n, c.dest)
    BY <2>3, <2>4
  <2> QED BY <2>1, <2>2, <2>5
<1>6. CASE c \in [type: {"SetStereo"}, kind: Kinds, src: ChannelNo, on: BOOLEAN]
             \cup [type: {"SetSettings"}, value: Nat]
  BY <1>6 DEF InRange
<1> QED BY <1>c, <1>1, <1>2, <1>3, <1>4, <1>5, <1>6 DEF Requests

\* Every command leaves a model.
LEMMA UpdateTyped ==
  ASSUME NEW m \in Models, NEW c \in Commands
  PROVE  Updated(m, c) \in Models
BY UpdateCovered, StrayUpdate DEF Covers

\* In range or not, a command renders numbers, at addresses from the RAM's start on.
LEMMA WritesTyped ==
  ASSUME NEW n \in Models, NEW c \in Commands, NEW ws, ws = Writes(n, c)
  PROVE  DOMAIN ws \subseteq Nat /\ \A a \in DOMAIN ws : ws[a] \in Int
<1>c. c \in Requests
  BY CommandsAssumption
<1>q. /\ \A k \in Kinds, s, d \in Nat : Quadlet(Cell(n, k, s, d)) \in Int
      /\ \A o \in Nat : Quadlet(Output(n, o)) \in Int
  <2>1. \A k \in Kinds, s, d \in Channels : <<k, s, d>> \in Crosspoints
    BY DEF Crosspoints
  <2>2. ASSUME NEW k \in Kinds, NEW s \in Nat, NEW d \in Nat
        PROVE  Cell(n, k, s, d) \in Cells
    <3>1. CASE s \in Channels /\ d \in Channels
      BY <3>1, <2>1 DEF Cell, Models
    <3>2. CASE ~(s \in Channels /\ d \in Channels)
      BY <3>2 DEF Cell, Models
    <3> QED BY <3>1, <3>2
  <2>3. \A o \in Nat : Output(n, o) \in Cells
    BY DEF Output, Models
  <2> QED BY <2>2, <2>3, QuadletIsInt
<1>a. /\ \A k \in Kinds, s, d \in Nat : CoeffAddr(k, s, d) \in Nat
      /\ \A o \in Nat : FaderAddr(o) \in Nat
  <2>1. 2 * Dests - 1 \in Nat
    BY LayoutAssumption
  <2>2. (2 * Dests - 1) * Block \in Nat /\ \A d \in Nat : d * 2 * Block \in Nat
    BY <2>1, LayoutAssumption
  <2> QED BY <2>2, LayoutAssumption DEF CoeffAddr, FaderAddr
<1>n. ChannelNo \subseteq Nat /\ Channels \subseteq Nat
  BY DEF ChannelNo, Channels
<1>1. CASE c.type \in {"SetMixer", "SetCellFlags"}
  <2>1. c.kind \in Kinds /\ c.src \in Nat /\ c.dest \in Nat
    BY <1>c, <1>1, <1>n DEF Requests
  <2>2. ws = [a \in {CoeffAddr(c.kind, c.src, c.dest)} |->
                Quadlet(Cell(n, c.kind, c.src, c.dest))]
    BY <1>1 DEF Writes
  <2>3. /\ CoeffAddr(c.kind, c.src, c.dest) \in Nat
        /\ Quadlet(Cell(n, c.kind, c.src, c.dest)) \in Int
    BY <2>1, <1>q, <1>a
  <2> QED BY <2>2, <2>3
<1>2. CASE c.type \in {"SetFader", "SetOutFlags"}
  <2>1. c.out \in Nat
    BY <1>c, <1>2, <1>n DEF Requests
  <2>2. ws = [a \in {FaderAddr(c.out)} |-> Quadlet(Output(n, c.out))]
    BY <1>2 DEF Writes
  <2> QED BY <2>1, <2>2, <1>q, <1>a
<1>3. CASE c.type \in {"ClearSubmix", "CopySubmix"}
  <2>1. c.dest \in Nat
    BY <1>c, <1>3, <1>n DEF Requests
  <2>2. ws = ColumnWrites(n, c.dest)
    BY <1>3 DEF Writes, ColumnWrites
  <2>3. DOMAIN ws = {CoeffAddr(k, s, c.dest) : k \in Kinds, s \in Channels}
    BY <2>2 DEF ColumnWrites
  <2>4. ASSUME NEW a \in DOMAIN ws PROVE a \in Nat
    <3>1. PICK k \in Kinds, s \in Channels : a = CoeffAddr(k, s, c.dest)
      BY <2>3, <2>4
    <3> QED BY <3>1, <2>1, <1>a, <1>n
  <2>5. ASSUME NEW a \in DOMAIN ws PROVE ws[a] \in Int
    <3> DEFINE x == CHOOSE x \in Kinds \X Channels : a = CoeffAddr(x[1], x[2], c.dest)
    <3>1. ws[a] = Quadlet(Cell(n, x[1], x[2], c.dest))
      BY <2>2, <2>5 DEF ColumnWrites
    <3>2. PICK k \in Kinds, s \in Channels : a = CoeffAddr(k, s, c.dest)
      BY <2>3, <2>5
    <3>3. /\ <<k, s>> \in Kinds \X Channels
          /\ a = CoeffAddr(<<k, s>>[1], <<k, s>>[2], c.dest)
      BY <3>2
    <3>4. x \in Kinds \X Channels
      BY <3>3
    <3> HIDE DEF x
    <3>5. x[1] \in Kinds /\ x[2] \in Nat
      BY <3>4, <1>n
    <3> QED BY <3>1, <3>5, <2>1, <1>q
  <2> QED BY <2>4, <2>5
<1>4. CASE c.type \in {"SetStereo", "SetSettings"}
  <2>1. ws = [a \in {} |-> 0]
    BY <1>4 DEF Writes
  <2> QED BY <2>1
<1> QED BY <1>c, <1>1, <1>2, <1>3, <1>4 DEF Requests

\* The record mask moves only with the flag of the output a SetOutFlags names.
LEMMA RecMoves ==
  ASSUME NEW m \in Models, NEW c \in Commands, NEW n, n = Updated(m, c),
         c.type = "SetOutFlags" =>
           (("Rec" \in Output(n, c.out).flags) <=> ("Rec" \in Output(m, c.out).flags))
  PROVE  RecMask(n) = RecMask(m)
<1>c. c \in Requests
  BY CommandsAssumption
<1>o. \A new : SetOutput(m, c, new)
                 = IF c.out \in Channels THEN [m EXCEPT !.outputs[c.out] = new]
                                         ELSE [m EXCEPT !.scratch = new]
  BY DEF SetOutput
<1>1. CASE c.type = "SetFader"
  <2> DEFINE new == [Output(m, c.out) EXCEPT !.gain = c.coeff]
  <2>1. n = SetOutput(m, c, new)
    BY <1>1 DEF Updated
  <2>2. CASE c.out \in Channels
    <3>1. Output(m, c.out) = m.outputs[c.out] /\ m.outputs[c.out] \in Cells
      BY <2>2 DEF Output, Models
    <3>2. new.flags = m.outputs[c.out].flags
      BY <3>1 DEF Cells
    <3> HIDE DEF new
    <3>3. \A o \in Channels : n.outputs[o] = IF o = c.out THEN new ELSE m.outputs[o]
      BY <2>1, <2>2, <1>o DEF Models
    <3> QED BY <3>2, <3>3 DEF RecMask
  <2>3. CASE c.out \notin Channels
    <3> HIDE DEF new
    <3>1. n.outputs = m.outputs
      BY <2>1, <2>3, <1>o DEF Models
    <3> QED BY <3>1 DEF RecMask
  <2> QED BY <2>2, <2>3
<1>2. CASE c.type = "SetOutFlags"
  <2> DEFINE new == [Output(m, c.out) EXCEPT !.flags = Masked(@, c)]
  <2>1. n = SetOutput(m, c, new)
    BY <1>2 DEF Updated
  <2> HIDE DEF new
  <2>2. CASE c.out \in Channels
    <3>1. \A o \in Channels : n.outputs[o] = IF o = c.out THEN new ELSE m.outputs[o]
      BY <2>1, <2>2, <1>o DEF Models
    <3>2. Output(n, c.out) = n.outputs[c.out] /\ Output(m, c.out) = m.outputs[c.out]
      BY <2>2 DEF Output
    <3>3. \A o \in Channels :
            ("Rec" \in n.outputs[o].flags) <=> ("Rec" \in m.outputs[o].flags)
      BY <3>1, <3>2, <1>2
    <3> QED BY <3>3 DEF RecMask
  <2>3. CASE c.out \notin Channels
    <3>1. n.outputs = m.outputs
      BY <2>1, <2>3, <1>o DEF Models
    <3> QED BY <3>1 DEF RecMask
  <2> QED BY <2>2, <2>3
<1>3. CASE c.type \in {"SetMixer", "SetCellFlags"}
  <2>1. PICK new : n = SetCell(m, c, new)
    BY <1>3 DEF Updated
  <2>2. n.outputs = m.outputs
    BY <2>1 DEF SetCell, Models
  <2> QED BY <2>2 DEF RecMask
<1>4. CASE c.type \in {"ClearSubmix", "CopySubmix"}
  <2>1. n = m \/ \E cell : n = Column(m, c.dest, cell)
    BY <1>4 DEF Updated
  <2>2. n.outputs = m.outputs
    BY <2>1 DEF Column, Models
  <2> QED BY <2>2 DEF RecMask
<1>5. CASE c.type = "SetStereo"
  <2>1. n.outputs = m.outputs
    <3>1. c \in [type: {"SetStereo"}, kind: Kinds, src: ChannelNo, on: BOOLEAN]
      BY <1>5, <1>c DEF Requests
    <3> QED BY <3>1, StereoUpdate
  <2> QED BY <2>1 DEF RecMask
<1>6. CASE c.type = "SetSettings"
  BY <1>6 DEF Updated
<1> QED BY <1>c, <1>1, <1>2, <1>3, <1>4, <1>5, <1>6 DEF Requests

-----------------------------------------------------------------------------
\* What is still to be written lies in the RAM and is what the model renders to,
\* whether a session is up or not, wherever no command out of range was aimed.
PendingInv ==
  \A a \in DOMAIN ctlDirty \ stray : a \in Ram /\ ctlDirty[a] = Render(model)[a]

\* The saver and the front-ends have the current model.
HandedOver ==
  /\ snap = Blob(model) /\ published.model = Blob(model)
  /\ \A a \in Ram \ stray : published.cells[a] = Render(model)[a]

\* Before the first session nothing is pending, and the pump never ends a drain
\* without noticing a change.
DrainInv ==
  /\ pc \in {"waiting", "idle", "retry"} =>
       DOMAIN ctlDirty = {} /\ ~streaming /\ ~stateDirty
  /\ pc \in {"waiting", "retry", "rest"} => HandedOver
  /\ pc = "drain" => DOMAIN ctlDirty # {} \/ stateDirty \/ HandedOver

\* The inductive invariant of the mixer.
MixerInv ==
  MixerTypeOK /\ ShadowIsRendered /\ DeviceFollowsModel /\ PendingInv /\ DrainInv

\* Writes that fail are writes that were made, and no more of them fail than the
\* bound leaves.
LEMMA LossyBounded ==
  ASSUME losses \in 0..MaxLost, NEW as, NEW l \in Lossy(as)
  PROVE  l \subseteq as /\ losses - Cardinality(l) \in 0..MaxLost
<1>0. losses \in Nat /\ MaxLost \in Nat /\ losses <= MaxLost
  BY LimitsAssumption
<1>1. CASE l = {}
  <2>1. Cardinality(l) = 0
    BY <1>1, FS_EmptySet
  <2> QED BY <2>1, <1>0, <1>1
<1>2. CASE \E f \in [1..losses -> as] : l = {f[i] : i \in 1..losses}
  <2>1. PICK f \in [1..losses -> as] : l = {f[i] : i \in 1..losses}
    BY <1>2
  <2>2. f \in Surjection(1..losses, l)
    BY <2>1 DEF Surjection
  <2>3. IsFiniteSet(1..losses) /\ Cardinality(1..losses) = losses
    BY <1>0, FS_Interval
  <2>4. IsFiniteSet(l) /\ Cardinality(l) <= losses
    BY <2>2, <2>3, FS_Surjection
  <2>5. Cardinality(l) \in Nat
    BY <2>4, FS_CardinalityType
  <2>6. l \subseteq as
    BY <2>1
  <2>7. \A k \in Nat : k <= losses => losses - k \in 0..MaxLost
    BY <1>0
  <2> QED BY <2>4, <2>5, <2>6, <2>7
<1> QED BY <1>1, <1>2 DEF Lossy

\* A batch is empty only when nothing is pending (the lowest dirty address is
\* always among the first kCtlWritesPerTick).
LEMMA BatchNotEmpty ==
  ASSUME DOMAIN ctlDirty \subseteq Nat, DOMAIN ctlDirty # {}
  PROVE  Batch # {}
<1> DEFINE T == DOMAIN ctlDirty
           R == OpToRel(<, Nat)
<1>1. T \subseteq Nat /\ T # {}
  OBVIOUS
<1>2. IsWellFoundedOn(R, Nat)
  BY NatLessThanWellFounded, Zenon
<1>3. \A u, v \in Nat : u < v => <<u, v>> \in R
  BY DEF OpToRel
<1>4. PICK a \in T : \A b \in T : ~(b < a)
  <2> HIDE DEF R
  <2>1. \E t \in T : \A u \in T : ~(<<u, t>> \in R)
    BY <1>1, <1>2, WFMin
  <2> QED BY <1>1, <1>3, <2>1
<1>5. {b \in T : b < a} = {}
  BY <1>4
<1>6. Cardinality({b \in T : b < a}) < kCtlWritesPerTick
  BY <1>5, FS_EmptySet, LimitsAssumption
<1> QED BY <1>6 DEF Batch

\* The defaults are a model.
LEMMA DefaultsTyped == Defaults \in Models
<1> DEFINE unity == [gain |-> kMixerMax \div 2, flags |-> {}]
           cells == [x \in Crosspoints |->
                       IF x[1] = "Playback" /\ x[2] = x[3] THEN unity ELSE Silent]
           outputs == [o \in Channels |-> unity]
<1>1. kMixerMax \div 2 \in Nat
  BY LimitsAssumption
<1>2. unity \in Cells /\ Silent \in Cells
  BY <1>1 DEF Cells, Silent, FlagSets
<1> HIDE DEF unity
<1>3. cells \in [Crosspoints -> Cells] /\ outputs \in [Channels -> Cells]
  BY <1>2
<1>4. Defaults = [cells |-> cells, outputs |-> outputs, scratch |-> Silent, stereo |-> {}]
  BY DEF Defaults, unity, Crosspoints
<1> HIDE DEF cells, outputs
<1> QED BY <1>2, <1>3, <1>4 DEF Models

\* The mixer starts in the invariant.
LEMMA MixerInitInv == MixerInit => MixerInv
<1> SUFFICES ASSUME MixerInit PROVE MixerInv
  OBVIOUS
<1>1. model \in Models /\ Render(model) \in [Ram -> Int] /\ shadow = Render(model)
  BY DefaultsTyped, RenderAt DEF MixerInit
<1>2. device \in [ram: [Ram -> Int], rec: SUBSET Channels, conf: Int]
  <2>1. [a \in Ram |-> kMixerMax] \in [Ram -> Int]
    BY LimitsAssumption
  <2> QED BY <2>1 DEF MixerInit
<1>3. MixerTypeOK
  <2>1. DOMAIN ctlDirty = {} /\ queue \in Seq(Commands) /\ settings \in Nat
    BY DEF MixerInit
  <2>2. /\ sent \in 0..MaxCommands /\ sessions \in 0..MaxSessions
        /\ losses \in 0..MaxLost
    BY LimitsAssumption DEF MixerInit
  <2>3. stateDirty \in BOOLEAN /\ streaming \in BOOLEAN
    BY Zenon DEF MixerInit
  <2>4. pc \in {"waiting", "idle", "retry", "drain", "rest"}
    BY DEF MixerInit
  <2>5. /\ lost \subseteq Int /\ stray \subseteq Nat /\ DOMAIN ctlDirty \subseteq Nat
        /\ \A a \in DOMAIN ctlDirty : ctlDirty[a] \in Int
    BY <2>1 DEF MixerInit
  <2> QED BY <1>1, <1>2, <2>1, <2>2, <2>3, <2>4, <2>5, Zenon
          DEF MixerTypeOK, Models, Crosspoints
<1>4. DOMAIN ctlDirty = {} /\ ~streaming /\ ~stateDirty /\ pc = "waiting" /\ HandedOver
  BY <1>1 DEF MixerInit, HandedOver
<1> QED BY <1>1, <1>3, <1>4 DEF MixerInv, ShadowIsRendered, DeviceFollowsModel, PendingInv,
                                DrainInv

\* The facts about the current state that every step starts from.
LEMMA MixerFacts ==
  ASSUME MixerInv
  PROVE  /\ model \in Models /\ Render(model) \in [Ram -> Int]
         /\ queue \in Seq(Commands) /\ settings \in Nat
         /\ DOMAIN ctlDirty \subseteq Nat /\ \A a \in DOMAIN ctlDirty : ctlDirty[a] \in Int
         /\ shadow \in [Ram -> Int]
         /\ device \in [ram: [Ram -> Int], rec: SUBSET Channels, conf: Int]
         /\ queue # <<>> => Head(queue) \in Commands /\ Tail(queue) \in Seq(Commands)
         /\ lost \subseteq Int /\ losses \in 0..MaxLost /\ stray \subseteq Nat
<1>1. /\ model \in Models
      /\ queue \in Seq(Commands) /\ settings \in Nat
      /\ DOMAIN ctlDirty \subseteq Nat /\ \A a \in DOMAIN ctlDirty : ctlDirty[a] \in Int
      /\ shadow \in [Ram -> Int]
      /\ device \in [ram: [Ram -> Int], rec: SUBSET Channels, conf: Int]
      /\ lost \subseteq Int /\ losses \in 0..MaxLost /\ stray \subseteq Nat
  BY Zenon DEF MixerInv, MixerTypeOK, Models, Crosspoints
<1>2. queue # <<>> => Head(queue) \in Commands /\ Tail(queue) \in Seq(Commands)
  BY <1>1, HeadTailProperties
<1> QED BY <1>1, <1>2, RenderAt

\* A new value of the settings is one.
LEMMA SettingsTyped ==
  ASSUME NEW c \in Commands, c.type = "SetSettings"
  PROVE  c.value \in Nat
BY CommandsAssumption DEF Requests

\* Before the first session a popped command changes the model only.
LEMMA IdlePopInv ==
  ASSUME MixerInv, IdlePop
  PROVE  MixerInv'
<1> DEFINE c == Head(queue)
<1>1. /\ model \in Models /\ c \in Commands /\ Tail(queue) \in Seq(Commands)
      /\ settings \in Nat
  BY MixerFacts DEF IdlePop
<1>2. /\ model' = Updated(model, c) /\ queue' = Tail(queue) /\ pc' = "idle"
      /\ settings' = IF c.type = "SetSettings" THEN c.value ELSE settings
      /\ UNCHANGED <<sent, shadow, ctlDirty, stateDirty, device, streaming, sessions,
                     lost, losses, stray>>
  BY DEF IdlePop, busVars
<1>3. model' \in Models
  BY <1>1, <1>2, UpdateTyped
<1>4. settings' \in Nat
  BY <1>1, <1>2, SettingsTyped
<1>5. MixerTypeOK'
  <2>1. queue' \in Seq(Commands) /\ pc' \in {"waiting", "idle", "retry", "drain", "rest"}
    BY <1>1, <1>2
  <2> QED BY <2>1, <1>2, <1>3, <1>4, Zenon DEF MixerInv, MixerTypeOK, Models, Crosspoints
<1>6. DOMAIN ctlDirty = {} /\ ~streaming /\ ~stateDirty
  BY DEF MixerInv, DrainInv, IdlePop
<1> QED BY <1>2, <1>5, <1>6 DEF MixerInv, ShadowIsRendered, DeviceFollowsModel, PendingInv,
                                DrainInv

\* A command the pump pops.
LEMMA DrainCmdInv ==
  ASSUME MixerInv, Drain
  PROVE  MixerInv'
<1> DEFINE c == Head(queue)
           n == Updated(model, c)
           ws == Writes(n, c)
           recNow == /\ c.type = "SetOutFlags"
                     /\ ("Rec" \in Output(n, c.out).flags) # ("Rec" \in Output(model, c.out).flags)
           confNow == c.type = "SetSettings"
           blocks == Reached({r \in {RecReg, ConfReg} : IF r = RecReg THEN recNow ELSE confNow})
<1>1. /\ model \in Models /\ c \in Commands /\ Tail(queue) \in Seq(Commands)
      /\ settings \in Nat /\ shadow \in [Ram -> Int]
      /\ DOMAIN ctlDirty \subseteq Nat /\ \A a \in DOMAIN ctlDirty : ctlDirty[a] \in Int
      /\ device \in [ram: [Ram -> Int], rec: SUBSET Channels, conf: Int]
      /\ lost \subseteq Int /\ losses \in 0..MaxLost /\ stray \subseteq Nat
      /\ Render(model) \in [Ram -> Int]
  BY MixerFacts DEF Drain
<1>2. /\ model' = n /\ queue' = Tail(queue) /\ pc = "drain" /\ pc' = "drain"
      /\ shadow' = [a \in Ram |-> IF a \in DOMAIN ws THEN ws[a] ELSE shadow[a]]
      /\ ctlDirty' = Over(ws, ctlDirty)
      /\ stray' = IF InRange(c) THEN stray \ DOMAIN ws ELSE stray \cup DOMAIN ws
      /\ stateDirty' = (stateDirty \/ c.type = "SetStereo")
      /\ settings' = IF c.type = "SetSettings" THEN c.value ELSE settings
      /\ UNCHANGED <<sent, streaming, snap, published, sessions>>
  BY DEF Drain
<1>3. PICK l \in Lossy(blocks) :
        /\ Lose(l, blocks)
        /\ device' = [device EXCEPT
                        !.rec = IF RecReg \in blocks \ l THEN RecMask(n) ELSE device.rec,
                        !.conf = IF ConfReg \in blocks \ l THEN c.value ELSE device.conf]
  BY Zenon DEF Drain
<1>o. losses' = losses - Cardinality(l) /\ lost' = (lost \ blocks) \cup l
  BY <1>3, Zenon DEF Lose
<1>b. /\ blocks \subseteq {RecReg, ConfReg} /\ RecReg \notin Nat /\ ConfReg \notin Nat
      /\ RecReg \in Int /\ ConfReg \in Int
      /\ streaming /\ RecReg \notin blocks => ~recNow
      /\ streaming /\ ConfReg \notin blocks => ~confNow
      /\ ConfReg \in blocks => confNow
  BY DEF Reached, RecReg, ConfReg
<1>m. ~recNow => RecMask(n) = RecMask(model)
  <2>1. ~recNow => (c.type = "SetOutFlags" =>
          (("Rec" \in Output(n, c.out).flags) <=> ("Rec" \in Output(model, c.out).flags)))
    BY Zenon
  <2> HIDE DEF recNow, ws, blocks
  <2> QED BY <2>1, <1>1, RecMoves
<1>4. n \in Models /\ Render(n) \in [Ram -> Int]
  BY <1>1, UpdateTyped, RenderAt
<1>5. DOMAIN ws \subseteq Nat /\ \A a \in DOMAIN ws : ws[a] \in Int
  BY <1>1, <1>4, WritesTyped
<1>6. /\ \A a \in DOMAIN ws \ stray' : a \in Ram /\ ws[a] = Render(n)[a]
      /\ \A a \in Ram \ stray' :
           a \notin DOMAIN ws => a \notin stray /\ Render(n)[a] = Render(model)[a]
      /\ stray' \subseteq Ram => stray \subseteq Ram
      /\ stray \ DOMAIN ws \subseteq stray'
      /\ DOMAIN ws # {} \/ c.type = "SetStereo" \/ n = model
  <2>1. n = Updated(model, c) /\ ws = Writes(n, c)
    OBVIOUS
  <2> HIDE DEF c, n, ws, recNow, blocks
  <2>2. CASE InRange(c)
    <3>1. Covers(ws, model, n) /\ (DOMAIN ws # {} \/ c.type = "SetStereo" \/ n = model)
      BY <2>1, <2>2, <1>1, UpdateCovered
    <3>2. stray' = stray \ DOMAIN ws
      BY <2>2, <1>2
    <3> QED BY <3>1, <3>2 DEF Covers
  <2>3. CASE ~InRange(c)
    <3>1. n.cells = model.cells /\ n.outputs = model.outputs /\ DOMAIN ws # {}
      BY <2>1, <2>3, <1>1, StrayUpdate
    <3>2. \A a \in Ram : Render(n)[a] = Render(model)[a]
      BY <3>1, <1>1, <1>4, RenderLocal
    <3>3. stray' = stray \cup DOMAIN ws
      BY <2>3, <1>2
    <3> QED BY <3>1, <3>2, <3>3
  <2> QED BY <2>2, <2>3
<1>r. /\ l \subseteq blocks /\ losses' \in 0..MaxLost
  BY <1>1, <1>o, LossyBounded
<1>t. settings' \in Nat /\ (c.type = "SetSettings" => c.value \in Nat)
  BY <1>1, <1>2, SettingsTyped
<1>s. stray' \subseteq Nat
  BY <1>1, <1>2, <1>5
<1> HIDE DEF n, ws, c, recNow, blocks
<1>7. ASSUME NEW a \in Ram \ stray' PROVE shadow'[a] = Render(n)[a]
  <2>1. CASE a \in DOMAIN ws
    BY <2>1, <1>2, <1>6, <1>7
  <2>2. CASE a \notin DOMAIN ws
    BY <2>2, <1>2, <1>6, <1>7 DEF MixerInv, ShadowIsRendered
  <2> QED BY <2>1, <2>2
<1>8. /\ DOMAIN ctlDirty' = DOMAIN ctlDirty \cup DOMAIN ws
      /\ \A a \in DOMAIN ctlDirty' :
           ctlDirty'[a] = IF a \in DOMAIN ws THEN ws[a] ELSE ctlDirty[a]
  BY <1>2 DEF Over
<1>9. ASSUME NEW a \in DOMAIN ctlDirty' \ stray'
      PROVE  a \in Ram /\ ctlDirty'[a] = Render(n)[a]
  <2>1. CASE a \in DOMAIN ws
    BY <2>1, <1>6, <1>8, <1>9
  <2>2. CASE a \notin DOMAIN ws
    <3>1. a \in DOMAIN ctlDirty \ stray
      BY <2>2, <1>6, <1>8, <1>9
    <3>2. a \in Ram /\ ctlDirty[a] = Render(model)[a]
      BY <3>1 DEF MixerInv, PendingInv
    <3> QED BY <3>2, <2>2, <1>6, <1>8, <1>9
  <2> QED BY <2>1, <2>2
<1>10. /\ device' \in [ram: [Ram -> Int], rec: SUBSET Channels, conf: Int]
       /\ device'.ram = device.ram
       /\ device'.rec = IF RecReg \in blocks \ l THEN RecMask(n) ELSE device.rec
       /\ device'.conf = IF ConfReg \in blocks \ l THEN settings' ELSE device.conf
  <2>1. PICK rec, conf : /\ device' = [device EXCEPT !.rec = rec, !.conf = conf]
                         /\ rec = IF RecReg \in blocks \ l THEN RecMask(n) ELSE device.rec
                         /\ conf = IF ConfReg \in blocks \ l THEN c.value ELSE device.conf
    BY <1>3, Zenon
  <2>2. rec \in SUBSET Channels /\ conf \in Int
    <3>1. rec \in SUBSET Channels
      BY <2>1, <1>1 DEF RecMask
    <3>2. conf \in Int
      BY <2>1, <1>1, <1>b, <1>t
    <3> QED BY <3>1, <3>2
  <2>3. device'.ram = device.ram /\ device'.rec = rec /\ device'.conf = conf
    BY <2>1, <1>1
  <2>4. device' \in [ram: [Ram -> Int], rec: SUBSET Channels, conf: Int]
    BY <2>1, <2>2, <1>1
  <2> QED BY <2>1, <2>3, <2>4, <1>2, <1>b
<1>11. MixerTypeOK'
  <2>1. queue' \in Seq(Commands) /\ pc' \in {"waiting", "idle", "retry", "drain", "rest"}
    BY <1>1, <1>2
  <2>2. shadow' \in [Ram -> Int] /\ model' \in Models
    <3>1. \A a \in Ram : (IF a \in DOMAIN ws THEN ws[a] ELSE shadow[a]) \in Int
      BY <1>1, <1>5
    <3> QED BY <3>1, <1>2, <1>4
  <2>3. stateDirty' \in BOOLEAN
    BY <1>2, Zenon
  <2>4. DOMAIN ctlDirty' \subseteq Nat /\ \A a \in DOMAIN ctlDirty' : ctlDirty'[a] \in Int
    BY <1>1, <1>5, <1>8
  <2>5. lost' \subseteq Int
    BY <1>1, <1>o, <1>b, <1>r
  <2> QED BY <2>1, <2>2, <2>3, <2>4, <2>5, <1>2, <1>r, <1>s, <1>t, <1>10, Zenon
          DEF MixerInv, MixerTypeOK, Models, Crosspoints
<1>12. ASSUME streaming' PROVE DeviceFollowsModel'
  <2>1. /\ streaming
        /\ RecReg \notin lost /\ stray \subseteq Ram => device.rec = RecMask(model)
        /\ ConfReg \notin lost => device.conf = settings
        /\ \A a \in Ram \ stray :
             a \notin DOMAIN ctlDirty /\ a \notin lost => device.ram[a] = Render(model)[a]
    BY <1>2, <1>12 DEF MixerInv, DeviceFollowsModel
  <2>2. ASSUME NEW a \in Ram \ stray', a \notin DOMAIN ctlDirty', a \notin lost'
        PROVE  device'.ram[a] = Render(n)[a]
    <3>1. a \notin DOMAIN ws /\ a \notin DOMAIN ctlDirty
      BY <2>2, <1>8
    <3>2. a \notin blocks
      BY <1>b DEF Ram
    <3>3. a \notin lost /\ a \notin stray /\ Render(n)[a] = Render(model)[a]
      BY <2>2, <3>1, <3>2, <1>o, <1>6
    <3> QED BY <2>1, <3>1, <3>3, <1>10
  <2>3. ASSUME RecReg \notin lost', stray' \subseteq Ram
        PROVE  device'.rec = RecMask(n)
    <3>1. CASE RecReg \in blocks
      BY <2>3, <3>1, <1>o, <1>10
    <3>2. CASE RecReg \notin blocks
      <4>1. RecReg \notin lost /\ stray \subseteq Ram
        BY <2>3, <3>2, <1>o, <1>6
      <4>2. RecMask(n) = RecMask(model)
        BY <2>1, <3>2, <1>b, <1>m
      <4> QED BY <2>1, <3>2, <4>1, <4>2, <1>10
    <3> QED BY <3>1, <3>2
  <2>4. ASSUME ConfReg \notin lost' PROVE device'.conf = settings'
    <3>1. CASE ConfReg \in blocks
      BY <2>4, <3>1, <1>o, <1>10
    <3>2. CASE ConfReg \notin blocks
      <4>1. ConfReg \notin lost
        BY <2>4, <3>2, <1>o
      <4>2. settings' = settings
        BY <2>1, <3>2, <1>2, <1>b
      <4> QED BY <2>1, <3>2, <4>1, <4>2, <1>10
    <3> QED BY <3>1, <3>2
  <2> QED BY <2>2, <2>3, <2>4, <1>2, <1>9 DEF DeviceFollowsModel
<1>13. DOMAIN ctlDirty' # {} \/ stateDirty' \/ HandedOver'
  <2>1. CASE DOMAIN ws # {}
    BY <2>1, <1>8
  <2>2. CASE c.type = "SetStereo"
    BY <2>2, <1>2
  <2>3. CASE n = model /\ DOMAIN ws = {}
    <3>1. DOMAIN ctlDirty' = DOMAIN ctlDirty /\ stray \subseteq stray'
      BY <2>3, <1>6, <1>8
    <3>2. HandedOver => HandedOver'
      BY <2>3, <3>1, <1>2 DEF HandedOver
    <3> QED BY <3>1, <3>2, <1>2 DEF MixerInv, DrainInv
  <2> QED BY <2>1, <2>2, <2>3, <1>6
<1>14. ShadowIsRendered' /\ PendingInv'
  BY <1>2, <1>7, <1>9 DEF ShadowIsRendered, PendingInv
<1>15. DeviceFollowsModel'
  BY <1>12 DEF DeviceFollowsModel
<1>16. DrainInv'
  BY <1>2, <1>13 DEF DrainInv
<1> QED BY <1>11, <1>14, <1>15, <1>16 DEF MixerInv

\* The batch of the tick, its snapshot and its publication.
LEMMA WriteBatchInv ==
  ASSUME MixerInv, WriteBatch
  PROVE  MixerInv'
<1> DEFINE reached == Reached(Batch)
           w == [a \in Batch |-> ctlDirty[a]]
<1>1. /\ model \in Models /\ Render(model) \in [Ram -> Int]
      /\ DOMAIN ctlDirty \subseteq Nat /\ \A a \in DOMAIN ctlDirty : ctlDirty[a] \in Int
      /\ device \in [ram: [Ram -> Int], rec: SUBSET Channels, conf: Int]
      /\ lost \subseteq Int /\ losses \in 0..MaxLost
  BY MixerFacts
<1>2. /\ ctlDirty' = [a \in DOMAIN ctlDirty \ Batch |-> ctlDirty[a]]
      /\ ~stateDirty' /\ pc = "drain" /\ pc' = "rest"
      /\ UNCHANGED <<queue, sent, model, settings, shadow, streaming, sessions, stray>>
  BY DEF WriteBatch
<1>3. Batch \subseteq DOMAIN ctlDirty
  BY DEF Batch
<1>k. PICK l \in Lossy(reached) : \E rec \in RecAfter(reached \ l) :
        /\ Lose(l, reached)
        /\ device' = [device EXCEPT !.ram = Stored(device.ram, w, l), !.rec = rec]
  BY Zenon DEF WriteBatch
<1>o. PICK rec \in RecAfter(reached \ l) :
        /\ Lose(l, reached)
        /\ device' = [device EXCEPT !.ram = Stored(device.ram, w, l), !.rec = rec]
  <2> HIDE DEF reached, w
  <2> QED BY <1>k, Zenon
<1>l. losses' = losses - Cardinality(l) /\ lost' = (lost \ reached) \cup l
  BY <1>o, Zenon DEF Lose
<1>r. l \subseteq reached /\ losses' \in 0..MaxLost
  BY <1>1, <1>l, LossyBounded
<1>b. reached \subseteq Batch /\ (streaming => reached = Batch)
  BY DEF Reached
<1>c. /\ RecReg \notin Nat /\ ConfReg \notin Nat
  BY DEF RecReg, ConfReg
<1>4. /\ rec \in SUBSET Channels
      /\ reached \ l \subseteq Ram => rec = device.rec
  <2> HIDE DEF reached
  <2> QED BY <1>1, <1>o DEF RecAfter
<1>d. /\ DOMAIN w = Batch /\ \A a \in Batch : w[a] = ctlDirty[a]
  OBVIOUS
<1> HIDE DEF w
<1>e. PICK ram \in [Ram -> Int] :
        /\ ram = Stored(device.ram, w, l)
        /\ \A a \in Ram : ram[a] = IF a \in reached \ l THEN ctlDirty[a] ELSE device.ram[a]
  <2>2. Stored(device.ram, w, l)
          = [a \in Ram |-> IF a \in reached \ l THEN w[a] ELSE device.ram[a]]
    BY <1>d DEF Stored
  <2> HIDE DEF reached
  <2>3. \A a \in Ram : /\ (IF a \in reached \ l THEN w[a] ELSE device.ram[a]) \in Int
                       /\ a \in reached \ l => w[a] = ctlDirty[a]
    BY <1>1, <1>3, <1>b, <1>d
  <2> QED BY <2>2, <2>3
<1> HIDE DEF reached
<1>5. /\ device' \in [ram: [Ram -> Int], rec: SUBSET Channels, conf: Int]
      /\ device'.ram = ram /\ device'.rec = rec /\ device'.conf = device.conf
  BY <1>1, <1>o, <1>4, <1>e
<1>6. /\ DOMAIN ctlDirty' = DOMAIN ctlDirty \ Batch
      /\ \A a \in DOMAIN ctlDirty' : ctlDirty'[a] = ctlDirty[a]
  BY <1>2
<1>7. MixerTypeOK'
  <2>1. /\ pc' \in {"waiting", "idle", "retry", "drain", "rest"}
        /\ DOMAIN ctlDirty' \subseteq Nat /\ \A a \in DOMAIN ctlDirty' : ctlDirty'[a] \in Int
    BY <1>1, <1>2, <1>6
  <2>2. stateDirty' \in BOOLEAN
    BY Zenon DEF WriteBatch
  <2>3. lost' \subseteq Int
    <3>1. reached \subseteq Int
      BY <1>1, <1>3, <1>b
    <3> QED BY <3>1, <1>1, <1>l, <1>r
  <2> QED BY <2>1, <2>2, <2>3, <1>2, <1>5, <1>r, Zenon DEF MixerInv, MixerTypeOK
<1>8. ShadowIsRendered' /\ PendingInv'
  BY <1>2, <1>6 DEF MixerInv, ShadowIsRendered, PendingInv
<1>9. DeviceFollowsModel'
  <2> SUFFICES ASSUME streaming' PROVE DeviceFollowsModel'
    BY DEF DeviceFollowsModel
  <2>1. /\ streaming
        /\ RecReg \notin lost /\ stray \subseteq Ram => device.rec = RecMask(model)
        /\ ConfReg \notin lost => device.conf = settings
        /\ \A a \in Ram \ stray :
             a \notin DOMAIN ctlDirty /\ a \notin lost => device.ram[a] = Render(model)[a]
    BY <1>2 DEF MixerInv, DeviceFollowsModel
  <2>2. ASSUME NEW a \in Ram \ stray, a \notin DOMAIN ctlDirty', a \notin lost'
        PROVE  device'.ram[a] = Render(model)[a]
    <3>1. CASE a \in Batch
      <4>1. a \in reached \ l
        BY <2>1, <2>2, <3>1, <1>b, <1>l
      <4>2. ctlDirty[a] = Render(model)[a]
        BY <2>2, <3>1, <1>3 DEF MixerInv, PendingInv
      <4> QED BY <4>1, <4>2, <1>e, <1>5
    <3>2. CASE a \notin Batch
      <4>1. a \notin DOMAIN ctlDirty /\ a \notin lost /\ a \notin reached
        BY <2>2, <3>2, <1>6, <1>b, <1>l
      <4> QED BY <2>1, <4>1, <1>e, <1>5
    <3> QED BY <3>1, <3>2
  <2>3. ASSUME RecReg \notin lost', stray \subseteq Ram PROVE device'.rec = RecMask(model)
    <3>1. Batch \subseteq Ram
      BY <2>3, <1>3 DEF MixerInv, PendingInv
    <3>2. RecReg \notin lost
      BY <2>3, <1>1, <1>3, <1>b, <1>c, <1>l
    <3> QED BY <2>1, <2>3, <3>1, <3>2, <1>4, <1>5, <1>b
  <2>4. ASSUME ConfReg \notin lost' PROVE device'.conf = settings
    <3>1. ConfReg \notin lost
      BY <2>4, <1>1, <1>3, <1>b, <1>c, <1>l
    <3> QED BY <2>1, <3>1, <1>5
  <2>5. \A a \in Ram \ stray : a \in DOMAIN ctlDirty' => ctlDirty'[a] = Render(model)[a]
    BY <1>6 DEF MixerInv, PendingInv
  <2> QED BY <2>2, <2>3, <2>4, <2>5, <1>2 DEF DeviceFollowsModel
<1>10. HandedOver'
  <2>1. \A a \in Ram \ stray : shadow[a] = Render(model)[a]
    BY <1>2 DEF MixerInv, ShadowIsRendered
  <2>2. CASE Batch # {} \/ stateDirty
    <3>1. snap' = Blob(model) /\ published' = [cells |-> shadow, model |-> Blob(model)]
      BY <2>2 DEF WriteBatch, Snapshot
    <3> QED BY <2>1, <3>1, <1>2 DEF HandedOver
  <2>3. CASE Batch = {} /\ ~stateDirty
    <3>1. HandedOver
      BY <2>3, <1>1, <1>2, BatchNotEmpty DEF MixerInv, DrainInv
    <3>2. UNCHANGED <<snap, published>>
      BY <2>3 DEF WriteBatch
    <3> QED BY <3>1, <3>2, <1>2 DEF HandedOver
  <2> QED BY <2>2, <2>3
<1>11. DrainInv'
  BY <1>2, <1>10 DEF DrainInv
<1> QED BY <1>7, <1>8, <1>9, <1>11 DEF MixerInv

\* What a session start leaves on the device.
LEMMA StartedTyped ==
  ASSUME MixerInv, NEW ram \in [Ram -> Int], NEW l
  PROVE  Started(ram, l) \in [ram: [Ram -> Int], rec: SUBSET Channels, conf: Int]
<1>1. /\ device \in [ram: [Ram -> Int], rec: SUBSET Channels, conf: Int] /\ settings \in Nat
  BY MixerFacts
<1>2. [a \in Ram |-> IF a \in l THEN device.ram[a] ELSE ram[a]] \in [Ram -> Int]
  BY <1>1
<1>3. (IF RecReg \in l THEN device.rec ELSE RecMask(model)) \in SUBSET Channels
  BY <1>1 DEF RecMask
<1>4. (IF ConfReg \in l THEN device.conf ELSE settings) \in Int
  BY <1>1
<1> QED BY <1>2, <1>3, <1>4 DEF Started

\* A session comes up: the whole matrix is written.
LEMMA SessionUpInv ==
  ASSUME MixerInv, SessionUp
  PROVE  MixerInv'
<1>1. /\ model \in Models /\ Render(model) \in [Ram -> Int]
      /\ lost \subseteq Int /\ losses \in 0..MaxLost
  BY MixerFacts
<1>2. /\ shadow' = Render(model) /\ streaming' /\ pc' = "rest"
      /\ UNCHANGED <<queue, sent, model, settings, ctlDirty, stateDirty, snap, published,
                     stray>>
  BY DEF SessionUp
<1> DEFINE all == Ram \cup SessionBlocks
<1>l. PICK l \in Lossy(all) :
        /\ losses' = losses - Cardinality(l) /\ lost' = (lost \ all) \cup l
        /\ device' = Started(Render(model), l)
  BY DEF SessionUp, Lose
<1>r. l \subseteq all /\ losses' \in 0..MaxLost
  BY <1>1, <1>l, LossyBounded
<1>i. all \subseteq Int
  BY DEF Ram, SessionBlocks, RecReg, ConfReg
<1> HIDE DEF all
<1>3. device' \in [ram: [Ram -> Int], rec: SUBSET Channels, conf: Int]
  BY <1>1, <1>l, StartedTyped
<1>4. MixerTypeOK'
  <2>1. /\ pc' \in {"waiting", "idle", "retry", "drain", "rest"}
        /\ shadow' \in [Ram -> Int]
    BY <1>1, <1>2
  <2>2. sessions' \in 0..MaxSessions
    BY LimitsAssumption DEF SessionUp, MixerInv, MixerTypeOK
  <2>3. streaming' \in BOOLEAN
    BY Zenon DEF SessionUp
  <2>4. lost' \subseteq Int
    BY <1>1, <1>i, <1>l, <1>r
  <2> QED BY <2>1, <2>2, <2>3, <2>4, <1>2, <1>3, <1>r, Zenon DEF MixerInv, MixerTypeOK
<1>5. PendingInv' /\ ShadowIsRendered'
  BY <1>2 DEF MixerInv, PendingInv, ShadowIsRendered
<1>6. DeviceFollowsModel'
  <2>1. /\ RecReg \notin l => device'.rec = RecMask(model)
        /\ ConfReg \notin l => device'.conf = settings
        /\ \A a \in Ram : a \notin l => device'.ram[a] = Render(model)[a]
    BY <1>l DEF Started
  <2>2. l \subseteq lost'
    BY <1>l
  <2> QED BY <2>1, <2>2, <1>2 DEF MixerInv, PendingInv, DeviceFollowsModel
<1>7. DrainInv'
  BY <1>2 DEF SessionUp, MixerInv, DrainInv, HandedOver
<1> QED BY <1>4, <1>5, <1>6, <1>7 DEF MixerInv

\* A session start that fails writes the record mask and the conf block only.
LEMMA SessionFailInv ==
  ASSUME MixerInv, SessionFail
  PROVE  MixerInv'
<1>1. /\ settings \in Nat /\ lost \subseteq Int /\ losses \in 0..MaxLost
      /\ device.ram \in [Ram -> Int]
  BY MixerFacts
<1>2. /\ pc' = IF pc = "rest" THEN "rest" ELSE "retry"
      /\ pc \in {"waiting", "retry", "rest"} /\ ~streaming
      /\ UNCHANGED <<queue, sent, model, settings, shadow, ctlDirty, stateDirty,
                     streaming, snap, published, stray>>
  BY DEF SessionFail
<1>l. PICK l \in Lossy(SessionBlocks) :
        /\ losses' = losses - Cardinality(l) /\ lost' = (lost \ SessionBlocks) \cup l
        /\ device' = Started(device.ram, l)
  BY DEF SessionFail, Lose
<1>r. l \subseteq SessionBlocks /\ losses' \in 0..MaxLost
  BY <1>1, <1>l, LossyBounded
<1>3. device' \in [ram: [Ram -> Int], rec: SUBSET Channels, conf: Int]
  BY <1>1, <1>l, StartedTyped
<1>4. MixerTypeOK'
  <2>1. pc' \in {"waiting", "idle", "retry", "drain", "rest"}
    BY <1>2
  <2>2. sessions' \in 0..MaxSessions
    BY LimitsAssumption DEF SessionFail, MixerInv, MixerTypeOK
  <2>3. lost' \subseteq Int
    <3>1. SessionBlocks \subseteq Int
      BY DEF SessionBlocks, RecReg, ConfReg
    <3> QED BY <3>1, <1>1, <1>l, <1>r
  <2> QED BY <2>1, <2>2, <2>3, <1>2, <1>3, <1>r, Zenon DEF MixerInv, MixerTypeOK
<1>5. PendingInv' /\ ShadowIsRendered' /\ DeviceFollowsModel'
  BY <1>2 DEF MixerInv, PendingInv, ShadowIsRendered, DeviceFollowsModel
<1>6. DrainInv'
  BY <1>2 DEF MixerInv, DrainInv, HandedOver
<1> QED BY <1>4, <1>5, <1>6 DEF MixerInv

\* Every step of the front-ends, the pump and the session keeps the invariant.
LEMMA MixerStep == MixerInv /\ [MixerNext]_mixerVars => MixerInv'
<1> SUFFICES ASSUME MixerInv, [MixerNext]_mixerVars PROVE MixerInv'
  OBVIOUS
<1>1. ASSUME NEW c \in Commands, Push(c) PROVE MixerInv'
  <2>1. queue' \in Seq(Commands)
    BY <1>1, MixerFacts, AppendProperties DEF Push
  <2>2. sent' \in 0..MaxCommands
    BY <1>1, LimitsAssumption DEF Push, MixerInv, MixerTypeOK
  <2>3. MixerTypeOK'
    BY <2>1, <2>2, <1>1, Zenon DEF Push, busVars, MixerInv, MixerTypeOK
  <2> QED BY <2>3, <1>1 DEF Push, busVars, MixerInv, ShadowIsRendered, DeviceFollowsModel,
                            PendingInv, DrainInv, HandedOver
<1>2. CASE IdlePop
  BY <1>2, IdlePopInv
<1>3. CASE IdleDone
  <2>1. Render(model) \in [Ram -> Int]
    BY MixerFacts
  <2>2. /\ shadow' = Render(model) /\ pc = "idle" /\ pc' = "waiting"
        /\ snap' = Blob(model)
        /\ published' = [cells |-> Render(model), model |-> Blob(model)]
        /\ UNCHANGED <<queue, sent, model, settings, ctlDirty, stateDirty, device,
                       streaming, sessions, lost, losses, stray>>
    BY <1>3 DEF IdleDone, Snapshot, busVars
  <2>3. MixerTypeOK'
    <3>1. pc' \in {"waiting", "idle", "retry", "drain", "rest"} /\ shadow' \in [Ram -> Int]
      BY <2>1, <2>2
    <3> QED BY <3>1, <2>2, Zenon DEF MixerInv, MixerTypeOK
  <2> QED BY <2>2, <2>3 DEF MixerInv, ShadowIsRendered, DeviceFollowsModel, PendingInv,
                            DrainInv, HandedOver
<1>4. CASE Drain
  BY <1>4, DrainCmdInv
<1>5. CASE WriteBatch
  BY <1>5, WriteBatchInv
<1>6. CASE NextTick
  <2>1. /\ pc = "rest" /\ pc' = "drain"
        /\ UNCHANGED <<queue, sent, model, settings, shadow, ctlDirty, stateDirty, device,
                       streaming, snap, sessions, lost, losses, stray>>
    BY <1>6 DEF NextTick, busVars
  <2>2. MixerTypeOK'
    <3>1. pc' \in {"waiting", "idle", "retry", "drain", "rest"}
      BY <2>1
    <3> QED BY <3>1, <2>1, Zenon DEF MixerInv, MixerTypeOK
  <2>3. HandedOver /\ \A a \in Ram \ stray : shadow[a] = Render(model)[a]
    BY <2>1 DEF MixerInv, DrainInv, ShadowIsRendered
  <2>4. HandedOver'
    <3>1. CASE published' = published
      BY <3>1, <2>1, <2>3 DEF HandedOver
    <3>2. CASE published' = [cells |-> shadow, model |-> Blob(model)]
      BY <3>2, <2>1, <2>3 DEF HandedOver
    <3> QED BY <3>1, <3>2, <1>6 DEF NextTick
  <2>5. DrainInv'
    BY <2>1, <2>4 DEF DrainInv
  <2> QED BY <2>1, <2>2, <2>5 DEF MixerInv, ShadowIsRendered, DeviceFollowsModel, PendingInv
<1>7. CASE SessionUp
  BY <1>7, SessionUpInv
<1>8. CASE SessionFail
  BY <1>8, SessionFailInv
<1>9. CASE SessionDown
  <2>1. device' \in [ram: [Ram -> Int], rec: SUBSET Channels, conf: Int]
    <3>1. [a \in Ram |-> kMixerMax] \in [Ram -> Int]
      BY LimitsAssumption
    <3> QED BY <3>1, <1>9 DEF SessionDown
  <2>2. streaming' \in BOOLEAN
    BY <1>9, Zenon DEF SessionDown
  <2>4. lost' \subseteq Int
    BY <1>9 DEF SessionDown
  <2>3. MixerTypeOK'
    BY <2>1, <2>2, <2>4, <1>9, Zenon DEF SessionDown, MixerInv, MixerTypeOK
  <2> QED BY <2>3, <1>9 DEF SessionDown, MixerInv, ShadowIsRendered, DeviceFollowsModel,
                            PendingInv, DrainInv, HandedOver
<1>10. CASE UNCHANGED mixerVars
  <2>1. MixerTypeOK'
    BY <1>10, Zenon DEF mixerVars, MixerInv, MixerTypeOK
  <2> QED BY <2>1, <1>10 DEF mixerVars, MixerInv, ShadowIsRendered, DeviceFollowsModel,
                             PendingInv, DrainInv, HandedOver
<1> QED BY <1>1, <1>2, <1>3, <1>4, <1>5, <1>6, <1>7, <1>8, <1>9, <1>10
        DEF MixerNext, Idle

\* The daemon's mixer keeps its inductive invariant.
THEOREM MixerInvariant == MixerSpec => []MixerInv
BY MixerInitInv, MixerStep, PTL DEF MixerSpec

\* Every variable of the mixer keeps its type.
THEOREM MixerTypeCorrect == MixerSpec => []MixerTypeOK
BY MixerInvariant, PTL DEF MixerInv

\* Shadow, device, saver and front-ends follow the user's model through every
\* command, batch, session start, failure and loss, for any number of channels, any
\* write limit, any set of commands, in range or not, and any number of register
\* writes that fail (the control drain of uf-daemon.cpp with render and render_cell of
\* uf_mixer_model.hpp).  A register is out of step only while its own last write
\* failed, or while the last command aimed at it was out of range.
THEOREM MixerFollowersInStep == MixerSpec => []FollowersInStep
<1>1. MixerInv => FollowersInStep
  BY DEF MixerInv, FollowersInStep, DrainInv, HandedOver, ChangesHandedOver
<1> QED BY <1>1, MixerInvariant, PTL

-----------------------------------------------------------------------------
(* The control socket *)

\* What concerns one client, put together: its connection, the pieces on their way,
\* and the message of it that the thread is in the middle of.
InRest(c) == thread.at = "rest" /\ thread.cur = c
View(c) ==
  [fd |-> fd[c], hung |-> hung[c], pipe |-> pipe[c], client |-> client[c],
   writing |-> writing[c], written |-> written[c], pushed |-> pushed[c],
   faulty |-> faulty[c], rest |-> InRest(c),
   kind |-> IF InRest(c) THEN thread.kind ELSE "none",
   n |-> IF InRest(c) THEN thread.n ELSE 0]

\* Values, and how the two ends of a connection go together.
Connected(v) ==
  /\ v.pipe \in Seq(Pieces) /\ v.pushed \in Seq(1..MaxMessages)
  /\ v.written \in 0..MaxMessages
  /\ v.rest => v.kind \in MsgKinds \cup {"hello"} /\ v.n \in 1..(MaxMessages + 1)
  /\ v.hung => v.client = "off" /\ v.fd \in {"backlog", "open"}
  /\ v.client # "off" => v.fd # "none"
  /\ v.fd \in {"none", "dropped"} => v.pipe = <<>> /\ ~v.rest

\* Where the client is in its stream of pieces.
Sending(v) ==
  /\ v.client = "greet" =>
       v.pipe = <<>> /\ ~v.rest /\ v.pushed = <<>> /\ v.written = 0
  /\ v.client \in {"await", "ready"} =>
       IF v.pipe = <<>> THEN ~v.rest ELSE v.pipe[Len(v.pipe)].part = "rest"
  /\ v.client = "mid" =>
       /\ v.writing \in MsgKinds \cup {"hello"}
       /\ v.writing # "hello" => v.written < MaxMessages
       /\ v.fd # "dropped" =>
            IF v.pipe = <<>>
              THEN v.rest /\ v.kind = v.writing /\ v.n = v.written + 1
              ELSE LET p == v.pipe[Len(v.pipe)]
                   IN p.part = "header" /\ p.kind = v.writing /\ p.n = v.written + 1

\* Headers and rests alternate, from where the thread is.
Alternating(v) ==
  /\ v.pipe # <<>> => v.pipe[1].part = IF v.rest THEN "rest" ELSE "header"
  /\ v.rest /\ v.pipe # <<>> => v.pipe[1].kind = v.kind /\ v.pipe[1].n = v.n
  /\ \A i \in 1..(Len(v.pipe) - 1) :
       IF v.pipe[i].part = "header"
         THEN /\ v.pipe[i + 1].part = "rest" /\ v.pipe[i + 1].kind = v.pipe[i].kind
              /\ v.pipe[i + 1].n = v.pipe[i].n
         ELSE v.pipe[i + 1].part = "header"

\* The messages are numbered upwards: those queued, then the one the thread is in
\* the middle of, then those on their way.
Numbered(v) ==
  /\ \A i \in 1..Len(v.pipe) : v.pipe[i].part = "rest" /\ v.pipe[i].kind # "hello" =>
       /\ v.pipe[i].n <= v.written
       /\ \A j \in (i + 1)..Len(v.pipe) : v.pipe[i].n < v.pipe[j].n
  /\ \A i \in 1..Len(v.pushed) :
       /\ v.pushed[i] <= v.written
       /\ \A j \in 1..Len(v.pipe) : v.pushed[i] < v.pipe[j].n
       /\ v.rest => v.pushed[i] < v.n
       /\ \A j \in (i + 1)..Len(v.pushed) : v.pushed[i] < v.pushed[j]

\* A length that is not its type's is only ever the client's.
Blamed(v) ==
  /\ \A i \in 1..Len(v.pipe) : v.pipe[i].kind = "malformed" => v.faulty
  /\ v.rest /\ v.kind = "malformed" => v.faulty

StreamOK(v) == Connected(v) /\ Sending(v) /\ Alternating(v) /\ Numbered(v) /\ Blamed(v)

\* The thread is at a client whose connection is open and that it has not to
\* serve again; without a daemon there is no thread.
ThreadInv ==
  /\ life = "down" => thread.at = "off"
  /\ thread.at \in {"header", "rest"} =>
       thread.cur \in Clients /\ fd[thread.cur] = "open" /\ thread.cur \notin thread.todo
  /\ thread.at \notin {"header", "rest"} => thread.cur = "none"

\* The inductive invariant of the control socket.
SocketInv ==
  SocketTypeOK /\ ThreadInv /\ \A c \in Clients : StreamOK(View(c))

-----------------------------------------------------------------------------
\* What Append does to the positions of a sequence.
LEMMA AppendPositions ==
  ASSUME NEW S, NEW q \in Seq(S), NEW v \in S
  PROVE  /\ Append(q, v) \in Seq(S) /\ Len(Append(q, v)) = Len(q) + 1
         /\ Len(q) \in Nat /\ Append(q, v) # <<>>
         /\ \A i \in 1..Len(q) : Append(q, v)[i] = q[i]
         /\ Append(q, v)[Len(q) + 1] = v
<1>1. Append(q, v) \in Seq(S) /\ Len(Append(q, v)) = Len(q) + 1 /\ Len(q) \in Nat
  BY AppendProperties, LenProperties
<1>2. /\ \A i \in 1..Len(q) : Append(q, v)[i] = q[i]
      /\ Append(q, v)[Len(q) + 1] = v
  BY AppendProperties
<1> QED BY <1>1, <1>2

\* What taking the first piece leaves.
LEMMA TakePositions ==
  ASSUME NEW S, NEW q \in Seq(S), q # <<>>
  PROVE  LET t == SubSeq(q, 2, Len(q))
         IN  /\ t \in Seq(S) /\ Len(q) \in Nat \ {0} /\ Len(t) = Len(q) - 1
             /\ \A i \in 1..Len(t) : t[i] = q[i + 1]
             /\ t = <<>> <=> Len(q) = 1
             /\ Head(q) = q[1] /\ q[1] \in S
<1>1. Len(q) \in Nat \ {0}
  BY LenProperties, EmptySeq
<1>2. /\ SubSeq(q, 2, Len(q)) \in Seq(S)
      /\ Len(SubSeq(q, 2, Len(q))) = Len(q) - 1
      /\ \A i \in 1..(Len(q) - 1) : SubSeq(q, 2, Len(q))[i] = q[i + 1]
  <2> DEFINE t == SubSeq(q, 2, Len(q))
  <2>1. \A i \in 2..Len(q) : q[i] \in S
    BY <1>1
  <2>2. /\ t \in Seq(S) /\ Len(t) = (IF 2 <= Len(q) THEN Len(q) - 2 + 1 ELSE 0)
        /\ \A i \in 1..(Len(q) - 2 + 1) : t[i] = q[2 + i - 1]
    BY ONLY <1>1, <2>1, SubSeqProperties, 2 \in Int, Len(q) \in Int
  <2> HIDE DEF t
  <2>3. Len(t) = Len(q) - 1
    <3>1. PICK n \in Nat \ {0} : n = Len(q)
      BY <1>1
    <3>2. Len(t) = (IF 2 <= n THEN n - 2 + 1 ELSE 0)
      BY <2>2, <3>1
    <3>3. Len(t) = n - 1
      BY ONLY <3>2, n \in Nat \ {0}
    <3> QED BY <3>1, <3>3
  <2>4. ASSUME NEW i \in 1..(Len(q) - 1) PROVE t[i] = q[i + 1]
    <3>1. i \in 1..(Len(q) - 2 + 1) /\ 2 + i - 1 = i + 1
      BY <1>1
    <3> QED BY <2>2, <3>1
  <2> QED BY <2>2, <2>3, <2>4 DEF t
<1>3. SubSeq(q, 2, Len(q)) = <<>> <=> Len(q) - 1 = 0
  BY <1>1, <1>2, EmptySeq
<1> QED BY <1>1, <1>2, <1>3

-----------------------------------------------------------------------------
(* What a step does to the view of one client *)

\* The client sends the header of its greeting or of a message.
LEMMA ViewSendsHeader ==
  ASSUME NEW v, NEW w, StreamOK(v), NEW kind,
         v.fd # "dropped",
         \/ v.client = "greet" /\ kind = "hello"
         \/ v.client = "ready" /\ kind \in MsgKinds /\ v.written < MaxMessages,
         w.pipe = Append(v.pipe, [part |-> "header", kind |-> kind, n |-> v.written + 1]),
         w.client = "mid", w.writing = kind,
         w.faulty = (v.faulty \/ kind = "malformed"),
         w.fd = v.fd, w.hung = v.hung, w.written = v.written, w.pushed = v.pushed,
         w.rest = v.rest, w.kind = v.kind, w.n = v.n
  PROVE  StreamOK(w)
<1> DEFINE p == v.pipe  q == w.pipe
           new == [part |-> "header", kind |-> kind, n |-> v.written + 1]
<1>a. Connected(v) /\ Sending(v) /\ Alternating(v) /\ Numbered(v) /\ Blamed(v)
  BY DEF StreamOK
<1>t. MaxMessages \in Nat /\ v.written \in Nat /\ kind \in MsgKinds \cup {"hello"}
  BY <1>a, SocketAssumption DEF Connected
<1>1. new \in Pieces
  BY <1>a, <1>t DEF Connected, Pieces
<1>2. /\ new.part = "header" /\ new.kind = kind /\ new.n = v.written + 1
  OBVIOUS
<1>3. /\ p \in Seq(Pieces) /\ q = Append(p, new)
  BY <1>a DEF Connected
<1> HIDE DEF new
<1>4. /\ q \in Seq(Pieces) /\ Len(q) = Len(p) + 1 /\ Len(p) \in Nat /\ q # <<>>
      /\ \A i \in 1..Len(p) : q[i] = p[i]
      /\ q[Len(p) + 1] = new
  BY <1>1, <1>3, AppendPositions
<1>5. p = <<>> <=> Len(p) = 0
  BY <1>3, EmptySeq
<1>6. IF p = <<>> THEN ~v.rest ELSE p[Len(p)].part = "rest"
  BY <1>a DEF Sending
<1> HIDE DEF p, q
<1>7. Connected(w)
  BY <1>a, <1>4, <1>t DEF Connected, p, q
<1>8. Sending(w)
  BY <1>2, <1>4, <1>t DEF Sending, p, q
<1>9. Alternating(w)
  <2>1. /\ p # <<>> => p[1].part = IF v.rest THEN "rest" ELSE "header"
        /\ v.rest /\ p # <<>> => p[1].kind = v.kind /\ p[1].n = v.n
        /\ \A i \in 1..(Len(p) - 1) :
             IF p[i].part = "header"
               THEN /\ p[i + 1].part = "rest" /\ p[i + 1].kind = p[i].kind
                    /\ p[i + 1].n = p[i].n
               ELSE p[i + 1].part = "header"
    BY <1>a DEF Alternating, p
  <2>2. /\ q[1].part = IF v.rest THEN "rest" ELSE "header"
        /\ v.rest => q[1].kind = v.kind /\ q[1].n = v.n
    <3>1. CASE p = <<>>
      BY <3>1, <1>2, <1>4, <1>5, <1>6
    <3>2. CASE p # <<>>
      BY <3>2, <2>1, <1>4, <1>5
    <3> QED BY <3>1, <3>2
  <2>3. ASSUME NEW i \in 1..(Len(q) - 1)
        PROVE  IF q[i].part = "header"
                 THEN /\ q[i + 1].part = "rest" /\ q[i + 1].kind = q[i].kind
                      /\ q[i + 1].n = q[i].n
                 ELSE q[i + 1].part = "header"
    <3>1. CASE i = Len(p)
      BY <3>1, <1>2, <1>4, <1>5, <1>6
    <3>2. CASE i # Len(p)
      <4>1. i \in 1..(Len(p) - 1) /\ i \in 1..Len(p) /\ i + 1 \in 1..Len(p)
        BY <3>2, <1>4
      <4> QED BY <4>1, <2>1, <1>4
    <3> QED BY <3>1, <3>2
  <2> QED BY <2>2, <2>3 DEF Alternating, q
<1>10. Numbered(w)
  <2>1. /\ \A i \in 1..Len(p) : p[i].part = "rest" /\ p[i].kind # "hello" =>
             p[i].n <= v.written /\ \A j \in (i + 1)..Len(p) : p[i].n < p[j].n
        /\ \A i \in 1..Len(v.pushed) :
             /\ v.pushed[i] <= v.written
             /\ \A j \in 1..Len(p) : v.pushed[i] < p[j].n
             /\ v.rest => v.pushed[i] < v.n
             /\ \A j \in (i + 1)..Len(v.pushed) : v.pushed[i] < v.pushed[j]
    BY <1>a DEF Numbered, p
  <2>2. ASSUME NEW i \in 1..Len(q), q[i].part = "rest", q[i].kind # "hello"
        PROVE  q[i].n <= v.written /\ \A j \in (i + 1)..Len(q) : q[i].n < q[j].n
    <3>1. i \in 1..Len(p) /\ q[i] = p[i] /\ p[i] \in Pieces
      BY <2>2, <1>2, <1>3, <1>4
    <3>2. p[i].n <= v.written /\ p[i].n \in Nat
      BY <3>1, <2>1, <2>2 DEF Pieces
    <3>3. ASSUME NEW j \in (i + 1)..Len(q) PROVE q[i].n < q[j].n
      <4>1. CASE j = Len(p) + 1
        BY <4>1, <3>1, <3>2, <1>2, <1>4, <1>t
      <4>2. CASE j # Len(p) + 1
        <5>1. j \in (i + 1)..Len(p) /\ q[j] = p[j]
          BY <4>2, <3>1, <1>4
        <5> QED BY <5>1, <3>1, <2>1, <2>2
      <4> QED BY <4>1, <4>2
    <3> QED BY <3>1, <3>2, <3>3
  <2>3. ASSUME NEW i \in 1..Len(v.pushed), NEW j \in 1..Len(q) PROVE v.pushed[i] < q[j].n
    <3>1. CASE j = Len(p) + 1
      <4>1. v.pushed \in Seq(1..MaxMessages)
        BY <1>a DEF Connected
      <4>2. v.pushed[i] \in Nat /\ v.pushed[i] <= v.written
        BY <4>1, <2>1, <1>t, SMTT(40)
      <4> QED BY <4>2, <3>1, <1>2, <1>4, <1>t
    <3>2. CASE j # Len(p) + 1
      <4>1. j \in 1..Len(p)
        BY <3>2, <1>4
      <4> QED BY <4>1, <2>1, <1>4
    <3> QED BY <3>1, <3>2
  <2> QED BY <2>1, <2>2, <2>3 DEF Numbered, q
<1>11. Blamed(w)
  <2>1. /\ \A i \in 1..Len(p) : p[i].kind = "malformed" => v.faulty
        /\ v.rest /\ v.kind = "malformed" => v.faulty
    BY <1>a DEF Blamed, p
  <2>2. ASSUME NEW i \in 1..Len(q), q[i].kind = "malformed"
        PROVE  v.faulty \/ kind = "malformed"
    <3>1. i \in 1..Len(p) \/ i = Len(p) + 1
      BY <1>4
    <3> QED BY <3>1, <2>1, <2>2, <1>2, <1>4
  <2> QED BY <2>1, <2>2 DEF Blamed, q
<1> QED BY <1>7, <1>8, <1>9, <1>10, <1>11 DEF StreamOK

\* The client sends the rest of what it has begun.
LEMMA ViewSendsRest ==
  ASSUME NEW v, NEW w, StreamOK(v),
         v.fd # "dropped", v.client = "mid",
         w.pipe = Append(v.pipe, [part |-> "rest", kind |-> v.writing, n |-> v.written + 1]),
         w.client = IF v.writing = "hello" THEN "await" ELSE "ready",
         w.written = IF v.writing = "hello" THEN v.written ELSE v.written + 1,
         w.fd = v.fd, w.hung = v.hung, w.writing = v.writing, w.pushed = v.pushed,
         w.faulty = v.faulty, w.rest = v.rest, w.kind = v.kind, w.n = v.n
  PROVE  StreamOK(w)
<1> DEFINE p == v.pipe  q == w.pipe
           new == [part |-> "rest", kind |-> v.writing, n |-> v.written + 1]
<1>a. Connected(v) /\ Sending(v) /\ Alternating(v) /\ Numbered(v) /\ Blamed(v)
  BY DEF StreamOK
<1>t. /\ MaxMessages \in Nat /\ v.written \in Nat /\ v.written <= MaxMessages
      /\ v.writing \in MsgKinds \cup {"hello"}
      /\ v.writing # "hello" => v.written < MaxMessages
      /\ w.written \in Nat /\ v.written <= w.written
      /\ v.writing # "hello" => w.written = v.written + 1
  BY <1>a, SocketAssumption DEF Connected, Sending
<1>1. new \in Pieces
  BY <1>t DEF Pieces
<1>2. new.part = "rest" /\ new.kind = v.writing /\ new.n = v.written + 1
  OBVIOUS
<1>3. p \in Seq(Pieces) /\ q = Append(p, new)
  BY <1>a DEF Connected
<1> HIDE DEF new
<1>4. /\ q \in Seq(Pieces) /\ Len(q) = Len(p) + 1 /\ Len(p) \in Nat /\ q # <<>>
      /\ \A i \in 1..Len(p) : q[i] = p[i]
      /\ q[Len(p) + 1] = new
  BY <1>1, <1>3, AppendPositions
<1>5. p = <<>> <=> Len(p) = 0
  BY <1>3, EmptySeq
<1>6. IF p = <<>> THEN v.rest /\ v.kind = v.writing /\ v.n = v.written + 1
      ELSE /\ p[Len(p)].part = "header" /\ p[Len(p)].kind = v.writing
           /\ p[Len(p)].n = v.written + 1
  BY <1>a DEF Sending
<1> HIDE DEF p, q
<1>7. Connected(w)
  BY <1>a, <1>4, <1>t DEF Connected, p, q
<1>8. Sending(w)
  BY <1>2, <1>4 DEF Sending, p, q
<1>9. Alternating(w)
  <2>1. /\ p # <<>> => p[1].part = IF v.rest THEN "rest" ELSE "header"
        /\ v.rest /\ p # <<>> => p[1].kind = v.kind /\ p[1].n = v.n
        /\ \A i \in 1..(Len(p) - 1) :
             IF p[i].part = "header"
               THEN /\ p[i + 1].part = "rest" /\ p[i + 1].kind = p[i].kind
                    /\ p[i + 1].n = p[i].n
               ELSE p[i + 1].part = "header"
    BY <1>a DEF Alternating, p
  <2>2. /\ q[1].part = IF v.rest THEN "rest" ELSE "header"
        /\ v.rest => q[1].kind = v.kind /\ q[1].n = v.n
    <3>1. CASE p = <<>>
      BY <3>1, <1>2, <1>4, <1>5, <1>6
    <3>2. CASE p # <<>>
      BY <3>2, <2>1, <1>4, <1>5
    <3> QED BY <3>1, <3>2
  <2>3. ASSUME NEW i \in 1..(Len(q) - 1)
        PROVE  IF q[i].part = "header"
                 THEN /\ q[i + 1].part = "rest" /\ q[i + 1].kind = q[i].kind
                      /\ q[i + 1].n = q[i].n
                 ELSE q[i + 1].part = "header"
    <3>1. CASE i = Len(p)
      BY <3>1, <1>2, <1>4, <1>5, <1>6
    <3>2. CASE i # Len(p)
      <4>1. i \in 1..(Len(p) - 1) /\ i \in 1..Len(p) /\ i + 1 \in 1..Len(p)
        BY <3>2, <1>4
      <4> QED BY <4>1, <2>1, <1>4
    <3> QED BY <3>1, <3>2
  <2> QED BY <2>2, <2>3 DEF Alternating, q
<1>10. Numbered(w)
  <2>1. /\ \A i \in 1..Len(p) : p[i].part = "rest" /\ p[i].kind # "hello" =>
             p[i].n <= v.written /\ \A j \in (i + 1)..Len(p) : p[i].n < p[j].n
        /\ \A i \in 1..Len(v.pushed) :
             /\ v.pushed[i] <= v.written
             /\ \A j \in 1..Len(p) : v.pushed[i] < p[j].n
             /\ v.rest => v.pushed[i] < v.n
             /\ \A j \in (i + 1)..Len(v.pushed) : v.pushed[i] < v.pushed[j]
    BY <1>a DEF Numbered, p
  <2>2. ASSUME NEW i \in 1..Len(q), q[i].part = "rest", q[i].kind # "hello"
        PROVE  q[i].n <= w.written /\ \A j \in (i + 1)..Len(q) : q[i].n < q[j].n
    <3>1. CASE i = Len(p) + 1
      BY <3>1, <2>2, <1>2, <1>4, <1>t
    <3>2. CASE i # Len(p) + 1
      <4>1. i \in 1..Len(p) /\ q[i] = p[i] /\ p[i] \in Pieces
        BY <3>2, <1>3, <1>4
      <4>2. p[i].n <= v.written /\ p[i].n \in Nat
        BY <4>1, <2>1, <2>2 DEF Pieces
      <4>3. ASSUME NEW j \in (i + 1)..Len(q) PROVE q[i].n < q[j].n
        <5>1. CASE j = Len(p) + 1
          BY <5>1, <4>1, <4>2, <1>2, <1>4, <1>t
        <5>2. CASE j # Len(p) + 1
          <6>1. j \in (i + 1)..Len(p) /\ j \in 1..Len(p)
            BY ONLY <5>2, <4>1, <1>4, j \in (i + 1)..Len(q)
          <6>2. q[j] = p[j]
            BY <6>1, <1>4
          <6> QED BY <6>1, <6>2, <4>1, <2>1, <2>2
        <5> QED BY <5>1, <5>2
      <4> QED BY <4>1, <4>2, <4>3, <1>t
    <3> QED BY <3>1, <3>2
  <2>3. ASSUME NEW i \in 1..Len(v.pushed)
        PROVE  v.pushed[i] <= w.written /\ \A j \in 1..Len(q) : v.pushed[i] < q[j].n
    <3>1. v.pushed[i] \in Nat /\ v.pushed[i] <= v.written
      <4>1. v.pushed \in Seq(1..MaxMessages)
        BY <1>a DEF Connected
      <4> QED BY <4>1, <2>1, <1>t
    <3>2. ASSUME NEW j \in 1..Len(q) PROVE v.pushed[i] < q[j].n
      <4>1. CASE j = Len(p) + 1
        BY <4>1, <3>1, <1>2, <1>4, <1>t
      <4>2. CASE j # Len(p) + 1
        <5>1. j \in 1..Len(p)
          BY <4>2, <1>4
        <5> QED BY <5>1, <2>1, <1>4
      <4> QED BY <4>1, <4>2
    <3> QED BY <3>1, <3>2, <1>t
  <2> QED BY <2>1, <2>2, <2>3 DEF Numbered, q
<1>11. Blamed(w)
  <2>1. /\ \A i \in 1..Len(p) : p[i].kind = "malformed" => v.faulty
        /\ v.rest /\ v.kind = "malformed" => v.faulty
    BY <1>a DEF Blamed, p
  <2>2. ASSUME NEW i \in 1..Len(q), q[i].kind = "malformed"
        PROVE  v.faulty
    <3>1. CASE i = Len(p) + 1
      <4>1. v.writing = "malformed"
        BY <3>1, <2>2, <1>2, <1>4
      <4>2. CASE p = <<>>
        BY <4>1, <4>2, <2>1, <1>6
      <4>3. CASE p # <<>>
        <5>1. Len(p) \in 1..Len(p)
          BY <4>3, <1>4, <1>5
        <5> QED BY <5>1, <4>1, <4>3, <2>1, <1>6
      <4> QED BY <4>2, <4>3
    <3>2. CASE i # Len(p) + 1
      <4>1. i \in 1..Len(p)
        BY <3>2, <1>4
      <4> QED BY <4>1, <2>1, <2>2, <1>4
    <3> QED BY <3>1, <3>2
  <2> QED BY <2>1, <2>2 DEF Blamed, q
<1> QED BY <1>7, <1>8, <1>9, <1>10, <1>11 DEF StreamOK

\* The thread takes a header.
LEMMA ViewTakesHeader ==
  ASSUME NEW v, NEW w, StreamOK(v),
         ~v.rest, v.pipe # <<>>,
         w.pipe = SubSeq(v.pipe, 2, Len(v.pipe)),
         w.rest, w.kind = v.pipe[1].kind, w.n = v.pipe[1].n,
         w.fd = v.fd, w.hung = v.hung, w.writing = v.writing, w.pushed = v.pushed,
         w.faulty = v.faulty, w.client = v.client, w.written = v.written
  PROVE  StreamOK(w)
<1> DEFINE p == v.pipe  q == w.pipe
<1>a. Connected(v) /\ Sending(v) /\ Alternating(v) /\ Numbered(v) /\ Blamed(v)
  BY DEF StreamOK
<1>1. p \in Seq(Pieces) /\ p # <<>> /\ q = SubSeq(p, 2, Len(p))
  BY <1>a DEF Connected
<1>2. /\ q \in Seq(Pieces) /\ Len(p) \in Nat \ {0} /\ Len(q) = Len(p) - 1
      /\ \A i \in 1..Len(q) : q[i] = p[i + 1]
      /\ q = <<>> <=> Len(p) = 1
      /\ p[1] \in Pieces
  BY <1>1, TakePositions
<1>3. /\ p[1].part = "header" /\ w.kind = p[1].kind /\ w.n = p[1].n
      /\ w.kind \in MsgKinds \cup {"hello"} /\ w.n \in 1..(MaxMessages + 1)
  BY <1>a, <1>2 DEF Alternating, Pieces
<1> HIDE DEF p, q
<1>i. /\ \A i \in 1..Len(q) : i + 1 \in 1..Len(p) /\ q[i] = p[i + 1]
      /\ \A i \in 1..(Len(q) - 1) : i + 1 \in 1..(Len(p) - 1)
      /\ q # <<>> => 1 \in 1..(Len(p) - 1) /\ 1 \in 1..Len(q)
      /\ 1 \in 1..Len(p)
  BY <1>2
<1>4. Connected(w)
  BY <1>a, <1>2, <1>3 DEF Connected, p, q
<1>5. Sending(w)
  <2>1. CASE q = <<>>
    <3>1. Len(p) = 1 /\ p # <<>>
      BY <2>1, <1>1, <1>2 DEF p
    <3> QED BY <3>1, <2>1, <1>a, <1>3 DEF Sending, p, q
  <2>2. CASE q # <<>>
    <3>1. q[Len(q)] = p[Len(p)] /\ p # <<>>
      <4>1. Len(q) \in 1..Len(q) /\ Len(q) + 1 = Len(p)
        BY <2>2, <1>2
      <4> QED BY <4>1, <1>1, <1>2 DEF p
    <3> QED BY <3>1, <2>2, <1>a DEF Sending, p, q
  <2> QED BY <2>1, <2>2
<1>6. Alternating(w)
  <2>1. \A i \in 1..(Len(p) - 1) :
          IF p[i].part = "header"
            THEN /\ p[i + 1].part = "rest" /\ p[i + 1].kind = p[i].kind
                 /\ p[i + 1].n = p[i].n
            ELSE p[i + 1].part = "header"
    BY <1>a DEF Alternating, p
  <2>2. q # <<>> => q[1].part = "rest" /\ q[1].kind = w.kind /\ q[1].n = w.n
    BY <2>1, <1>2, <1>3, <1>i
  <2>3. ASSUME NEW i \in 1..(Len(q) - 1)
        PROVE  IF q[i].part = "header"
                 THEN /\ q[i + 1].part = "rest" /\ q[i + 1].kind = q[i].kind
                      /\ q[i + 1].n = q[i].n
                 ELSE q[i + 1].part = "header"
    <3>1. i + 1 \in 1..(Len(p) - 1) /\ i \in 1..Len(q) /\ i + 1 \in 1..Len(q)
      BY ONLY <1>2, i \in 1..(Len(q) - 1)
    <3>2. q[i] = p[i + 1] /\ q[i + 1] = p[i + 1 + 1]
      BY <3>1, <1>2
    <3> QED BY <3>1, <3>2, <2>1
  <2> QED BY <2>2, <2>3 DEF Alternating, q
<1>7. Numbered(w)
  <2>1. /\ \A i \in 1..Len(p) : p[i].part = "rest" /\ p[i].kind # "hello" =>
             p[i].n <= v.written /\ \A j \in (i + 1)..Len(p) : p[i].n < p[j].n
        /\ \A i \in 1..Len(v.pushed) :
             /\ v.pushed[i] <= v.written
             /\ \A j \in 1..Len(p) : v.pushed[i] < p[j].n
             /\ \A j \in (i + 1)..Len(v.pushed) : v.pushed[i] < v.pushed[j]
    BY <1>a DEF Numbered, p
  <2>2. ASSUME NEW i \in 1..Len(q), q[i].part = "rest", q[i].kind # "hello"
        PROVE  q[i].n <= w.written /\ \A j \in (i + 1)..Len(q) : q[i].n < q[j].n
    <3>1. i + 1 \in 1..Len(p) /\ q[i] = p[i + 1]
      BY <1>i
    <3>2. \A j \in (i + 1)..Len(q) : j + 1 \in (i + 1 + 1)..Len(p) /\ q[j] = p[j + 1]
      BY <1>2
    <3> QED BY <3>1, <3>2, <2>1, <2>2
  <2>3. ASSUME NEW i \in 1..Len(w.pushed)
        PROVE  /\ w.pushed[i] <= w.written
               /\ \A j \in 1..Len(q) : w.pushed[i] < q[j].n
               /\ w.pushed[i] < w.n
               /\ \A j \in (i + 1)..Len(w.pushed) : w.pushed[i] < w.pushed[j]
    BY <2>1, <1>3, <1>i
  <2> QED BY <2>2, <2>3 DEF Numbered, q
<1>8. Blamed(w)
  <2>1. \A i \in 1..Len(p) : p[i].kind = "malformed" => v.faulty
    BY <1>a DEF Blamed, p
  <2> QED BY <2>1, <1>3, <1>i DEF Blamed, q
<1> QED BY <1>4, <1>5, <1>6, <1>7, <1>8 DEF StreamOK

\* The thread takes the rest of a message, and queues it if it is a command.
LEMMA ViewTakesRest ==
  ASSUME NEW v, NEW w, StreamOK(v),
         v.rest, v.pipe # <<>>,
         w.pipe = SubSeq(v.pipe, 2, Len(v.pipe)), ~w.rest,
         \/ w.pushed = v.pushed
         \/ w.pushed = Append(v.pushed, v.n) /\ v.kind = "command",
         w.fd = v.fd, w.hung = v.hung, w.writing = v.writing,
         w.faulty = v.faulty, w.client = v.client, w.written = v.written
  PROVE  StreamOK(w)
<1> DEFINE p == v.pipe  q == w.pipe
<1>a. Connected(v) /\ Sending(v) /\ Alternating(v) /\ Numbered(v) /\ Blamed(v)
  BY DEF StreamOK
<1>t. MaxMessages \in Nat /\ v.written \in 0..MaxMessages
  BY <1>a, SocketAssumption DEF Connected
<1>1. p \in Seq(Pieces) /\ p # <<>> /\ q = SubSeq(p, 2, Len(p))
  BY <1>a DEF Connected
<1>2. /\ q \in Seq(Pieces) /\ Len(p) \in Nat \ {0} /\ Len(q) = Len(p) - 1
      /\ \A i \in 1..Len(q) : q[i] = p[i + 1]
      /\ q = <<>> <=> Len(p) = 1
      /\ p[1] \in Pieces
  BY <1>1, TakePositions
<1>3. /\ p[1].part = "rest" /\ v.kind = p[1].kind /\ v.n = p[1].n
      /\ v.n \in 1..(MaxMessages + 1)
  BY <1>a, <1>2 DEF Alternating, Connected
<1> HIDE DEF p, q
<1>i. /\ \A i \in 1..Len(q) : i + 1 \in 1..Len(p) /\ q[i] = p[i + 1]
      /\ q # <<>> => 1 \in 1..(Len(p) - 1) /\ 1 \in 1..Len(q)
      /\ 1 \in 1..Len(p)
  BY <1>2
<1>4. /\ \A i \in 1..Len(p) : p[i].part = "rest" /\ p[i].kind # "hello" =>
           p[i].n <= v.written /\ \A j \in (i + 1)..Len(p) : p[i].n < p[j].n
      /\ \A i \in 1..Len(v.pushed) :
           /\ v.pushed[i] <= v.written
           /\ \A j \in 1..Len(p) : v.pushed[i] < p[j].n
           /\ \A j \in (i + 1)..Len(v.pushed) : v.pushed[i] < v.pushed[j]
  BY <1>a DEF Numbered, p
<1>5. ASSUME v.kind = "command"
      PROVE  v.n \in 1..MaxMessages /\ v.n <= v.written /\ \A j \in 1..Len(q) : v.n < q[j].n
  <2>1. p[1].n <= v.written /\ \A j \in (1 + 1)..Len(p) : p[1].n < p[j].n
    BY <1>3, <1>4, <1>5, <1>i
  <2>2. \A j \in 1..Len(q) : j + 1 \in (1 + 1)..Len(p)
    BY <1>2
  <2> QED BY <2>1, <2>2, <1>3, <1>i, <1>t
<1>6. /\ w.pushed \in Seq(1..MaxMessages)
      /\ \A i \in 1..Len(w.pushed) :
           /\ w.pushed[i] <= w.written
           /\ \A j \in 1..Len(q) : w.pushed[i] < q[j].n
           /\ \A j \in (i + 1)..Len(w.pushed) : w.pushed[i] < w.pushed[j]
  <2> DEFINE o == v.pushed  u == w.pushed
  <2>1. o \in Seq(1..MaxMessages)
    BY <1>a DEF Connected
  <2>2. CASE u = o
    BY <2>1, <2>2, <1>4, <1>i
  <2>3. CASE u = Append(o, v.n) /\ v.kind = "command"
    <3>1. /\ v.n \in 1..MaxMessages /\ v.n <= v.written
          /\ \A j \in 1..Len(q) : v.n < q[j].n
      BY <2>3, <1>5
    <3>2. /\ u \in Seq(1..MaxMessages) /\ Len(u) = Len(o) + 1 /\ Len(o) \in Nat
          /\ \A i \in 1..Len(o) : u[i] = o[i]
          /\ u[Len(o) + 1] = v.n
      BY <2>1, <2>3, <3>1, AppendPositions
    <3>3. \A i \in 1..Len(o) : o[i] < v.n
      BY <1>3, <1>4, <1>i
    <3> HIDE DEF o, u
    <3>4. ASSUME NEW i \in 1..Len(u)
          PROVE  /\ u[i] <= w.written
                 /\ \A j \in 1..Len(q) : u[i] < q[j].n
                 /\ \A j \in (i + 1)..Len(u) : u[i] < u[j]
      <4>1. CASE i = Len(o) + 1
        BY <4>1, <3>1, <3>2
      <4>2. CASE i # Len(o) + 1
        <5>1. i \in 1..Len(o)
          BY <4>2, <3>2
        <5>2. \A j \in (i + 1)..Len(u) : u[i] < u[j]
          <6> TAKE j \in (i + 1)..Len(u)
          <6>1. CASE j = Len(o) + 1
            BY <6>1, <5>1, <3>2, <3>3
          <6>2. CASE j # Len(o) + 1
            <7>1. j \in (i + 1)..Len(o) /\ j \in 1..Len(o)
              BY ONLY <6>2, <5>1, <3>2, j \in (i + 1)..Len(u)
            <7>2. u[j] = o[j]
              BY <7>1, <3>2
            <7> QED BY <7>1, <7>2, <5>1, <3>2, <1>4 DEF o
          <6> QED BY <6>1, <6>2
        <5> QED BY <5>1, <5>2, <3>2, <1>4, <1>i DEF o
      <4> QED BY <4>1, <4>2
    <3> QED BY <3>2, <3>4 DEF u
  <2> QED BY <2>2, <2>3
<1>7. Connected(w)
  BY <1>a, <1>2, <1>6 DEF Connected, p, q
<1>8. Sending(w)
  <2>1. CASE q = <<>>
    <3>1. Len(p) = 1 /\ p # <<>>
      BY <2>1, <1>1, <1>2 DEF p
    <3> QED BY <3>1, <2>1, <1>a, <1>3 DEF Sending, p, q
  <2>2. CASE q # <<>>
    <3>1. q[Len(q)] = p[Len(p)] /\ p # <<>>
      <4>1. Len(q) \in 1..Len(q) /\ Len(q) + 1 = Len(p)
        BY <2>2, <1>2
      <4> QED BY <4>1, <1>1, <1>2 DEF p
    <3> QED BY <3>1, <2>2, <1>a DEF Sending, p, q
  <2> QED BY <2>1, <2>2
<1>9. Alternating(w)
  <2>1. \A i \in 1..(Len(p) - 1) :
          IF p[i].part = "header"
            THEN /\ p[i + 1].part = "rest" /\ p[i + 1].kind = p[i].kind
                 /\ p[i + 1].n = p[i].n
            ELSE p[i + 1].part = "header"
    BY <1>a DEF Alternating, p
  <2>2. q # <<>> => q[1].part = "header"
    BY <2>1, <1>2, <1>3, <1>i
  <2>3. ASSUME NEW i \in 1..(Len(q) - 1)
        PROVE  IF q[i].part = "header"
                 THEN /\ q[i + 1].part = "rest" /\ q[i + 1].kind = q[i].kind
                      /\ q[i + 1].n = q[i].n
                 ELSE q[i + 1].part = "header"
    <3>1. i + 1 \in 1..(Len(p) - 1) /\ i \in 1..Len(q) /\ i + 1 \in 1..Len(q)
      BY ONLY <1>2, i \in 1..(Len(q) - 1)
    <3>2. q[i] = p[i + 1] /\ q[i + 1] = p[i + 1 + 1]
      BY <3>1, <1>2
    <3> QED BY <3>1, <3>2, <2>1
  <2> QED BY <2>2, <2>3 DEF Alternating, q
<1>10. Numbered(w)
  <2>1. ASSUME NEW i \in 1..Len(q), q[i].part = "rest", q[i].kind # "hello"
        PROVE  q[i].n <= w.written /\ \A j \in (i + 1)..Len(q) : q[i].n < q[j].n
    <3>1. i + 1 \in 1..Len(p) /\ q[i] = p[i + 1]
      BY <1>i
    <3>2. \A j \in (i + 1)..Len(q) : j + 1 \in (i + 1 + 1)..Len(p) /\ q[j] = p[j + 1]
      BY <1>2
    <3> QED BY <3>1, <3>2, <2>1, <1>4
  <2> QED BY <2>1, <1>6 DEF Numbered, q
<1>11. Blamed(w)
  <2>1. \A i \in 1..Len(p) : p[i].kind = "malformed" => v.faulty
    BY <1>a DEF Blamed, p
  <2> QED BY <2>1, <1>i DEF Blamed, q
<1> QED BY <1>7, <1>8, <1>9, <1>10, <1>11 DEF StreamOK

\* A view with nothing on its way and a client that owes nothing is in order if
\* what was queued is.
LEMMA ViewQuiet ==
  ASSUME NEW w, w.pipe = <<>>, ~w.rest, Connected(w), Sending(w),
         \A i \in 1..Len(w.pushed) :
           /\ w.pushed[i] <= w.written
           /\ \A j \in (i + 1)..Len(w.pushed) : w.pushed[i] < w.pushed[j]
  PROVE  StreamOK(w)
<1>1. Len(w.pipe) = 0
  OBVIOUS
<1> QED BY <1>1 DEF StreamOK, Alternating, Numbered, Blamed

\* The daemon closes the connection.
LEMMA ViewDropped ==
  ASSUME NEW v, NEW w, StreamOK(v),
         w.pipe = <<>>, ~w.rest, ~w.hung,
         w.fd = IF v.hung THEN "none" ELSE "dropped",
         w.writing = v.writing, w.pushed = v.pushed,
         w.faulty = v.faulty, w.client = v.client, w.written = v.written
  PROVE  StreamOK(w)
<1>1. Connected(w)
  <2>1. w.pipe \in Seq(Pieces)
    OBVIOUS
  <2> QED BY <2>1 DEF StreamOK, Connected
<1>2. Sending(w)
  BY DEF StreamOK, Sending, Connected
<1> QED BY <1>1, <1>2, ViewQuiet DEF StreamOK, Numbered

\* The client closes the connection.
LEMMA ViewClosed ==
  ASSUME NEW v, NEW w, StreamOK(v), v.client # "off", v.fd \in {"backlog", "open", "dropped"},
         w.client = "off", w.fd = IF v.fd = "dropped" THEN "none" ELSE v.fd,
         w.hung = (v.fd # "dropped"),
         w.pipe = v.pipe, w.rest = v.rest, w.kind = v.kind, w.n = v.n,
         w.pushed = v.pushed, w.faulty = v.faulty, w.written = v.written
  PROVE  StreamOK(w)
<1>1. Connected(w)
  BY DEF StreamOK, Connected
<1>2. Sending(w) /\ Alternating(w) /\ Numbered(w) /\ Blamed(w)
  BY DEF StreamOK, Sending, Alternating, Numbered, Blamed
<1> QED BY <1>1, <1>2 DEF StreamOK

\* The client connects anew.
LEMMA ViewConnects ==
  ASSUME NEW v, NEW w, StreamOK(v), v.client = "off", v.fd = "none",
         w.client = "greet", w.fd = "backlog", w.hung = v.hung, w.pipe = v.pipe,
         w.rest = v.rest, w.kind = v.kind, w.n = v.n, w.written = 0, w.pushed = <<>>
  PROVE  StreamOK(w)
<1>1. Connected(w)
  BY SocketAssumption DEF StreamOK, Connected
<1>2. Sending(w)
  BY DEF StreamOK, Sending, Connected
<1>3. w.pipe = <<>> /\ ~w.rest /\ Len(w.pushed) = 0
  BY DEF StreamOK, Connected
<1> QED BY <1>1, <1>2, <1>3, ViewQuiet

\* The client has its answer, or the daemon accepts its connection.
LEMMA ViewOpened ==
  ASSUME NEW v, NEW w, StreamOK(v),
         \/ v.client = "await" /\ w.client = "ready" /\ w.fd = v.fd
         \/ w.client = v.client /\ v.fd = "backlog" /\ w.fd = "open",
         w.hung = v.hung, w.pipe = v.pipe, w.rest = v.rest, w.kind = v.kind, w.n = v.n,
         w.writing = v.writing, w.written = v.written, w.pushed = v.pushed,
         w.faulty = v.faulty
  PROVE  StreamOK(w)
<1>1. Connected(w)
  BY DEF StreamOK, Connected
<1>2. Sending(w) /\ Alternating(w) /\ Numbered(w) /\ Blamed(w)
  BY DEF StreamOK, Sending, Alternating, Numbered, Blamed
<1> QED BY <1>1, <1>2 DEF StreamOK

-----------------------------------------------------------------------------
\* The fields of a client's view, now and after a step.
LEMMA ViewFields ==
  ASSUME NEW c
  PROVE  /\ View(c).fd = fd[c] /\ View(c).hung = hung[c] /\ View(c).pipe = pipe[c]
         /\ View(c).client = client[c] /\ View(c).writing = writing[c]
         /\ View(c).written = written[c] /\ View(c).pushed = pushed[c]
         /\ View(c).faulty = faulty[c] /\ View(c).rest = InRest(c)
         /\ InRest(c) => View(c).kind = thread.kind /\ View(c).n = thread.n
         /\ ~InRest(c) => View(c).kind = "none" /\ View(c).n = 0
         /\ View(c)'.fd = fd'[c] /\ View(c)'.hung = hung'[c] /\ View(c)'.pipe = pipe'[c]
         /\ View(c)'.client = client'[c] /\ View(c)'.writing = writing'[c]
         /\ View(c)'.written = written'[c] /\ View(c)'.pushed = pushed'[c]
         /\ View(c)'.faulty = faulty'[c] /\ View(c)'.rest = InRest(c)'
         /\ InRest(c)' => View(c)'.kind = thread'.kind /\ View(c)'.n = thread'.n
         /\ ~InRest(c)' => View(c)'.kind = "none" /\ View(c)'.n = 0
BY DEF View

\* A step that changes none of a client's variables.
Untouched(c) ==
  /\ fd'[c] = fd[c] /\ hung'[c] = hung[c] /\ pipe'[c] = pipe[c] /\ client'[c] = client[c]
  /\ writing'[c] = writing[c] /\ written'[c] = written[c] /\ pushed'[c] = pushed[c]
  /\ faulty'[c] = faulty[c]

\* A client none of whose variables changes keeps its view.
LEMMA ViewSame ==
  ASSUME NEW c, StreamOK(View(c)), Untouched(c),
         InRest(c)' <=> InRest(c),
         InRest(c) => thread'.kind = thread.kind /\ thread'.n = thread.n
  PROVE  StreamOK(View(c))'
<1>1. InRest(c)' = InRest(c)
  BY DEF InRest
<1>2. View(c)' = View(c)
  BY <1>1 DEF View, Untouched
<1>3. StreamOK(View(c))' <=> StreamOK(View(c)')
  BY DEF StreamOK, Connected, Sending, Alternating, Numbered, Blamed, Pieces, MsgKinds
<1> QED BY <1>2, <1>3

\* The sockets' types, in the parts that steps change.
ThreadType ==
  [at: {"off", "poll", "each", "header", "rest"}, cur: Clients \cup {"none"},
   kind: MsgKinds \cup {"hello", "none"}, n: 0..(MaxMessages + 1), todo: SUBSET Clients]

\* The facts about the current state that every step starts from.
LEMMA SocketFacts ==
  ASSUME SocketInv
  PROVE  /\ life \in {"down", "up", "stopping"} /\ thread \in ThreadType
         /\ \A c \in thread.todo \cup ({thread.cur} \ {"none"}) : fd[c] = "open"
         /\ fd \in [Clients -> {"none", "backlog", "open", "dropped"}]
         /\ hung \in [Clients -> BOOLEAN] /\ faulty \in [Clients -> BOOLEAN]
         /\ pipe \in [Clients -> Seq(Pieces)]
         /\ reply \in [Clients -> {"none", "ok", "refused"}]
         /\ client \in [Clients -> {"off", "greet", "mid", "await", "ready"}]
         /\ writing \in [Clients -> MsgKinds \cup {"hello", "none"}]
         /\ written \in [Clients -> 0..MaxMessages]
         /\ pushed \in [Clients -> Seq(1..MaxMessages)]
         /\ connects \in 0..MaxConnects /\ lives \in 0..MaxLives /\ crashes \in 0..MaxCrashes
         /\ \A c \in Clients : StreamOK(View(c))
         /\ life = "down" => thread.at = "off"
         /\ thread.at \in {"header", "rest"} =>
              thread.cur \in Clients /\ fd[thread.cur] = "open" /\ thread.cur \notin thread.todo
         /\ thread.at \notin {"header", "rest"} => thread.cur = "none"
BY Zenon DEF SocketInv, SocketTypeOK, ThreadInv, ThreadType

\* The socket starts in the invariant.
LEMMA SocketInitInv == SocketInit => SocketInv
<1> SUFFICES ASSUME SocketInit PROVE SocketInv
  OBVIOUS
<1>1. thread = Off /\ thread.at = "off" /\ thread.cur = "none" /\ thread.todo = {}
  BY DEF SocketInit, Off
<1>2. SocketTypeOK
  <2>1. thread \in ThreadType
    BY <1>1, SocketAssumption DEF ThreadType, Off
  <2>2. /\ hung \in [Clients -> BOOLEAN] /\ faulty \in [Clients -> BOOLEAN]
    BY Zenon DEF SocketInit
  <2>3. /\ pipe \in [Clients -> Seq(Pieces)] /\ pushed \in [Clients -> Seq(1..MaxMessages)]
    BY DEF SocketInit
  <2>4. /\ connects \in 0..MaxConnects /\ lives \in 0..MaxLives /\ crashes \in 0..MaxCrashes
        /\ written \in [Clients -> 0..MaxMessages]
    BY SocketAssumption DEF SocketInit
  <2>5. /\ fd \in [Clients -> {"none", "backlog", "open", "dropped"}]
        /\ reply \in [Clients -> {"none", "ok", "refused"}]
        /\ client \in [Clients -> {"off", "greet", "mid", "await", "ready"}]
        /\ writing \in [Clients -> MsgKinds \cup {"hello", "none"}]
        /\ life \in {"down", "up", "stopping"}
    BY DEF SocketInit
  <2>6. \A c \in thread.todo \cup ({thread.cur} \ {"none"}) : fd[c] = "open"
    BY <1>1
  <2> QED BY <2>1, <2>2, <2>3, <2>4, <2>5, <2>6 DEF SocketTypeOK, ThreadType
<1>3. ThreadInv
  BY <1>1 DEF ThreadInv
<1>4. ASSUME NEW c \in Clients PROVE StreamOK(View(c))
  <2>1. /\ View(c).pipe = <<>> /\ ~View(c).rest /\ View(c).pushed = <<>>
        /\ View(c).client = "off" /\ View(c).fd = "none" /\ View(c).hung = FALSE
        /\ View(c).written = 0
    BY <1>1, ViewFields, ZenonT(60) DEF SocketInit, InRest
  <2>2. Connected(View(c)) /\ Sending(View(c)) /\ Len(View(c).pushed) = 0
    BY <2>1, SocketAssumption DEF Connected, Sending
  <2> QED BY <2>1, <2>2, ViewQuiet
<1> QED BY <1>2, <1>3, <1>4 DEF SocketInv

\* A view after a step, seen from either side of the prime.
LEMMA PrimedView ==
  ASSUME NEW c, StreamOK(View(c)')
  PROVE  StreamOK(View(c))'
BY DEF StreamOK, Connected, Sending, Alternating, Numbered, Blamed, Pieces, MsgKinds

\* The parts of the invariant after a step, put together.
LEMMA SocketAssembled ==
  ASSUME life' \in {"down", "up", "stopping"}, (thread \in ThreadType)',
         \A c \in thread'.todo \cup ({thread'.cur} \ {"none"}) : fd'[c] = "open",
         fd' \in [Clients -> {"none", "backlog", "open", "dropped"}],
         hung' \in [Clients -> BOOLEAN], faulty' \in [Clients -> BOOLEAN],
         pipe' \in [Clients -> Seq(Pieces)],
         reply' \in [Clients -> {"none", "ok", "refused"}],
         client' \in [Clients -> {"off", "greet", "mid", "await", "ready"}],
         writing' \in [Clients -> MsgKinds \cup {"hello", "none"}],
         written' \in [Clients -> 0..MaxMessages],
         pushed' \in [Clients -> Seq(1..MaxMessages)],
         connects' \in 0..MaxConnects, lives' \in 0..MaxLives, crashes' \in 0..MaxCrashes,
         ThreadInv', \A c \in Clients : StreamOK(View(c))'
  PROVE  SocketInv'
<1>1. SocketTypeOK'
  BY Zenon DEF SocketTypeOK, ThreadType, Pieces, MsgKinds
<1> QED BY <1>1 DEF SocketInv

-----------------------------------------------------------------------------
(* The steps of the clients *)

\* A client connects.
LEMMA ConnectStep == ASSUME SocketInv, NEW c \in Clients, Connect(c) PROVE SocketInv'
<1>1. /\ fd' \in [Clients -> {"none", "backlog", "open", "dropped"}]
      /\ client' \in [Clients -> {"off", "greet", "mid", "await", "ready"}]
      /\ reply' \in [Clients -> {"none", "ok", "refused"}]
      /\ \A d \in Clients : fd[d] = "open" => fd'[d] = "open"
  BY SocketFacts DEF Connect
<1>2. faulty' \in [Clients -> BOOLEAN]
  BY SocketFacts, Zenon DEF Connect
<1>3. /\ written' \in [Clients -> 0..MaxMessages] /\ pushed' \in [Clients -> Seq(1..MaxMessages)]
      /\ connects' \in 0..MaxConnects
  BY SocketFacts, SocketAssumption, SMTT(40) DEF Connect
<1>4. /\ ThreadInv'
      /\ \A d \in thread'.todo \cup ({thread'.cur} \ {"none"}) : fd'[d] = "open"
  BY <1>1, SocketFacts DEF Connect, ThreadInv, ThreadType
<1>5. ASSUME NEW d \in Clients PROVE StreamOK(View(d))'
  <2>1. InRest(d)' <=> InRest(d)
    BY DEF InRest, Connect
  <2>2. CASE d = c
    <3>1. /\ client[c] = "off" /\ fd[c] = "none" /\ client'[c] = "greet" /\ fd'[c] = "backlog"
          /\ hung'[c] = hung[c] /\ pipe'[c] = pipe[c] /\ written'[c] = 0 /\ pushed'[c] = <<>>
          /\ thread' = thread /\ InRest(c)' = InRest(c)
      BY SocketFacts DEF Connect, InRest
    <3>2. View(c)'.kind = View(c).kind /\ View(c)'.n = View(c).n
      BY <3>1, ViewFields
    <3>3. StreamOK(View(c)')
      <4> DEFINE v == View(c)  w == View(c)'
      <4>1. StreamOK(v) /\ v.client = "off" /\ v.fd = "none"
        BY <3>1, SocketFacts, ViewFields
      <4>2. /\ w.client = "greet" /\ w.fd = "backlog" /\ w.hung = v.hung /\ w.pipe = v.pipe
            /\ w.rest = v.rest /\ w.kind = v.kind /\ w.n = v.n /\ w.written = 0
            /\ w.pushed = <<>>
        BY <3>1, <3>2, ViewFields
      <4> HIDE DEF v, w
      <4>3. StreamOK(w)
        BY <4>1, <4>2, ViewConnects
      <4> QED BY <4>3 DEF w
    <3> QED BY <3>3, <2>2, PrimedView
  <2>3. CASE d # c
    <3>1. Untouched(d) /\ thread' = thread
      BY <2>3, SocketFacts DEF Connect, Untouched
    <3> QED BY <2>1, <3>1, SocketFacts, ViewSame
  <2> QED BY <2>2, <2>3
<1> QED
  BY <1>1, <1>2, <1>3, <1>4, <1>5, SocketFacts, SocketAssembled, Zenon DEF Connect, bounds,
     ThreadType, MsgKinds, Pieces

\* A client sends the header of a message.
LEMMA SendHeaderStep ==
  ASSUME SocketInv, NEW c \in Clients, NEW kind \in MsgKinds \cup {"hello"},
         SendHeader(c, kind)
  PROVE  SocketInv'
<1> DEFINE new == [part |-> "header", kind |-> kind, n |-> written[c] + 1]
<1>1. /\ client' \in [Clients -> {"off", "greet", "mid", "await", "ready"}]
      /\ writing' \in [Clients -> MsgKinds \cup {"hello", "none"}]
  BY SocketFacts DEF SendHeader
<1>2. faulty' \in [Clients -> BOOLEAN] /\ faulty'[c] = (faulty[c] \/ kind = "malformed")
  <2> DEFINE b == (faulty[c] \/ kind = "malformed")
  <2>1. faulty' = [faulty EXCEPT ![c] = b] /\ faulty \in [Clients -> BOOLEAN]
    BY SocketFacts DEF SendHeader
  <2>2. b \in BOOLEAN
    OBVIOUS
  <2> HIDE DEF b
  <2>3. faulty' \in [Clients -> BOOLEAN] /\ faulty'[c] = b
    BY ONLY <2>1, <2>2, c \in Clients, Zenon
  <2> QED BY <2>3 DEF b
<1>3. pipe' \in [Clients -> Seq(Pieces)] /\ pipe'[c] = Append(pipe[c], new)
  <2>1. /\ pipe' = [pipe EXCEPT ![c] = Append(pipe[c], new)]
        /\ pipe \in [Clients -> Seq(Pieces)] /\ written[c] \in 0..MaxMessages
    BY SocketFacts DEF SendHeader
  <2>2. new \in Pieces
    BY <2>1, SocketAssumption DEF Pieces
  <2> HIDE DEF new
  <2>3. Append(pipe[c], new) \in Seq(Pieces)
    BY <2>1, <2>2, AppendPositions
  <2> QED BY ONLY <2>1, <2>3, c \in Clients
<1>4. /\ ThreadInv'
      /\ \A d \in thread'.todo \cup ({thread'.cur} \ {"none"}) : fd'[d] = "open"
  BY SocketFacts DEF SendHeader, ThreadInv
<1>5. ASSUME NEW d \in Clients PROVE StreamOK(View(d))'
  <2>1. InRest(d)' = InRest(d)
    BY DEF InRest, SendHeader
  <2>2. CASE d = c
    <3> DEFINE v == View(c)  w == View(c)'
    <3>1. /\ fd[c] # "dropped"
          /\ \/ client[c] = "greet" /\ kind = "hello"
             \/ client[c] = "ready" /\ kind \in MsgKinds /\ written[c] < MaxMessages
          /\ client'[c] = "mid" /\ writing'[c] = kind
          /\ fd'[c] = fd[c] /\ hung'[c] = hung[c] /\ written'[c] = written[c]
          /\ pushed'[c] = pushed[c] /\ thread' = thread
      BY SocketFacts DEF SendHeader
    <3>2. w.kind = v.kind /\ w.n = v.n
      BY <2>1, <2>2, <3>1, ViewFields
    <3>3. /\ StreamOK(v) /\ v.fd # "dropped"
          /\ \/ v.client = "greet" /\ kind = "hello"
             \/ v.client = "ready" /\ kind \in MsgKinds /\ v.written < MaxMessages
      BY <3>1, SocketFacts, ViewFields
    <3>4. /\ w.client = "mid" /\ w.writing = kind /\ w.faulty = (v.faulty \/ kind = "malformed")
          /\ w.fd = v.fd /\ w.hung = v.hung /\ w.written = v.written /\ w.pushed = v.pushed
          /\ w.rest = v.rest
      BY <1>2, <2>1, <2>2, <3>1, ViewFields
    <3>5. w.pipe = Append(v.pipe, [part |-> "header", kind |-> kind, n |-> v.written + 1])
      BY <1>3, <3>1, ViewFields
    <3> HIDE DEF v, w
    <3>6. StreamOK(w)
      BY <3>2, <3>3, <3>4, <3>5, ViewSendsHeader
    <3> QED BY <3>6, <2>2, PrimedView DEF w
  <2>3. CASE d # c
    <3>1. Untouched(d) /\ thread' = thread
      BY <2>3, SocketFacts DEF SendHeader, Untouched
    <3> QED BY <2>1, <3>1, SocketFacts, ViewSame
  <2> QED BY <2>2, <2>3
<1> QED
  BY <1>1, <1>2, <1>3, <1>4, <1>5, SocketFacts, SocketAssembled, Zenon DEF SendHeader, bounds,
     ThreadType, MsgKinds, Pieces

\* A client sends the rest of a message.
LEMMA SendRestStep == ASSUME SocketInv, NEW c \in Clients, SendRest(c) PROVE SocketInv'
<1> DEFINE new == [part |-> "rest", kind |-> writing[c], n |-> written[c] + 1]
           v == View(c)  w == View(c)'
<1>1. /\ StreamOK(v) /\ v.fd # "dropped" /\ v.client = "mid"
      /\ v.writing = writing[c] /\ v.written = written[c]
  BY SocketFacts, ViewFields DEF SendRest
<1>2. /\ writing[c] \in MsgKinds \cup {"hello"}
      /\ writing[c] # "hello" => written[c] < MaxMessages
      /\ written[c] \in 0..MaxMessages /\ MaxMessages \in Nat
  BY <1>1, SocketFacts, SocketAssumption DEF StreamOK, Sending
<1>3. client' \in [Clients -> {"off", "greet", "mid", "await", "ready"}]
  BY SocketFacts DEF SendRest
<1>4. written' \in [Clients -> 0..MaxMessages]
  <2>1. PICK n \in 0..MaxMessages : written' = [written EXCEPT ![c] = n]
    <3> DEFINE m == IF writing[c] = "hello" THEN written[c] ELSE written[c] + 1
    <3>1. m \in 0..MaxMessages /\ written' = [written EXCEPT ![c] = m]
      BY <1>2 DEF SendRest
    <3> HIDE DEF m
    <3> QED BY <3>1
  <2> QED BY <2>1, SocketFacts
<1>5. pipe' \in [Clients -> Seq(Pieces)] /\ pipe'[c] = Append(pipe[c], new)
  <2>1. /\ pipe' = [pipe EXCEPT ![c] = Append(pipe[c], new)]
        /\ pipe \in [Clients -> Seq(Pieces)]
    BY SocketFacts DEF SendRest
  <2>2. new \in Pieces
    BY <1>2 DEF Pieces
  <2> HIDE DEF new
  <2>3. Append(pipe[c], new) \in Seq(Pieces)
    BY <2>1, <2>2, AppendPositions
  <2> QED BY ONLY <2>1, <2>3, c \in Clients
<1>6. /\ ThreadInv'
      /\ \A d \in thread'.todo \cup ({thread'.cur} \ {"none"}) : fd'[d] = "open"
  BY SocketFacts DEF SendRest, ThreadInv
<1>7. ASSUME NEW d \in Clients PROVE StreamOK(View(d))'
  <2>1. InRest(d)' = InRest(d)
    BY DEF InRest, SendRest
  <2>2. CASE d = c
    <3>1. /\ client'[c] = IF writing[c] = "hello" THEN "await" ELSE "ready"
          /\ written'[c] = IF writing[c] = "hello" THEN written[c] ELSE written[c] + 1
          /\ fd'[c] = fd[c] /\ hung'[c] = hung[c] /\ writing'[c] = writing[c]
          /\ pushed'[c] = pushed[c] /\ faulty'[c] = faulty[c] /\ thread' = thread
      BY SocketFacts DEF SendRest
    <3>2. w.kind = v.kind /\ w.n = v.n
      BY <2>1, <2>2, <3>1, ViewFields
    <3>3. /\ w.client = IF v.writing = "hello" THEN "await" ELSE "ready"
          /\ w.written = IF v.writing = "hello" THEN v.written ELSE v.written + 1
          /\ w.fd = v.fd /\ w.hung = v.hung /\ w.writing = v.writing /\ w.pushed = v.pushed
          /\ w.faulty = v.faulty /\ w.rest = v.rest
      BY <2>1, <2>2, <3>1, ViewFields
    <3>4. w.pipe = Append(v.pipe, [part |-> "rest", kind |-> v.writing, n |-> v.written + 1])
      BY <1>5, ViewFields
    <3> HIDE DEF v, w
    <3>5. StreamOK(w)
      BY <1>1, <3>2, <3>3, <3>4, ViewSendsRest
    <3> QED BY <3>5, <2>2, PrimedView DEF w
  <2>3. CASE d # c
    <3>1. Untouched(d) /\ thread' = thread
      BY <2>3, SocketFacts DEF SendRest, Untouched
    <3> QED BY <2>1, <3>1, SocketFacts, ViewSame
  <2> QED BY <2>2, <2>3
<1> QED
  BY <1>3, <1>4, <1>5, <1>6, <1>7, SocketFacts, SocketAssembled, Zenon DEF SendRest, bounds,
     ThreadType, MsgKinds, Pieces

\* A client closes its connection.
LEMMA CloseStep ==
  ASSUME SocketInv, NEW c \in Clients, client[c] # "off", Close(c)
  PROVE  SocketInv'
<1>1. /\ client' \in [Clients -> {"off", "greet", "mid", "await", "ready"}]
      /\ writing' \in [Clients -> MsgKinds \cup {"hello", "none"}]
      /\ fd' \in [Clients -> {"none", "backlog", "open", "dropped"}]
      /\ \A d \in Clients : fd[d] = "open" => fd'[d] = "open"
  BY SocketFacts DEF Close
<1>2. hung' \in [Clients -> BOOLEAN] /\ hung'[c] = (fd[c] # "dropped")
  <2> DEFINE b == (fd[c] # "dropped")
  <2>1. hung' = [hung EXCEPT ![c] = b] /\ hung \in [Clients -> BOOLEAN]
    BY SocketFacts DEF Close
  <2>2. b \in BOOLEAN
    OBVIOUS
  <2> HIDE DEF b
  <2>3. hung' \in [Clients -> BOOLEAN] /\ hung'[c] = b
    BY ONLY <2>1, <2>2, c \in Clients, Zenon
  <2> QED BY <2>3 DEF b
<1>3. /\ ThreadInv'
      /\ \A d \in thread'.todo \cup ({thread'.cur} \ {"none"}) : fd'[d] = "open"
  BY <1>1, SocketFacts DEF Close, ThreadInv, ThreadType
<1>4. ASSUME NEW d \in Clients PROVE StreamOK(View(d))'
  <2>1. InRest(d)' = InRest(d)
    BY DEF InRest, Close
  <2>2. CASE d = c
    <3> DEFINE v == View(c)  w == View(c)'
    <3>1. /\ client'[c] = "off" /\ fd'[c] = (IF fd[c] = "dropped" THEN "none" ELSE fd[c])
          /\ pipe'[c] = pipe[c] /\ written'[c] = written[c]
          /\ pushed'[c] = pushed[c] /\ faulty'[c] = faulty[c] /\ thread' = thread
      BY SocketFacts DEF Close
    <3>2. w.kind = v.kind /\ w.n = v.n
      BY <2>1, <2>2, <3>1, ViewFields
    <3>3. StreamOK(v) /\ v.client # "off" /\ v.fd = fd[c]
      BY SocketFacts, ViewFields
    <3>4. v.fd \in {"backlog", "open", "dropped"}
      BY <3>3, SocketFacts DEF StreamOK, Connected
    <3>5. /\ w.client = "off" /\ w.fd = (IF v.fd = "dropped" THEN "none" ELSE v.fd)
          /\ w.hung = (v.fd # "dropped") /\ w.pipe = v.pipe /\ w.rest = v.rest
          /\ w.pushed = v.pushed /\ w.faulty = v.faulty /\ w.written = v.written
      BY <1>2, <2>1, <2>2, <3>1, ViewFields
    <3> HIDE DEF v, w
    <3>6. StreamOK(w)
      BY <3>2, <3>3, <3>4, <3>5, ViewClosed
    <3> QED BY <3>6, <2>2, PrimedView DEF w
  <2>3. CASE d # c
    <3>1. Untouched(d) /\ thread' = thread
      BY <2>3, SocketFacts DEF Close, Untouched
    <3> QED BY <2>1, <3>1, SocketFacts, ViewSame
  <2> QED BY <2>2, <2>3
<1> QED
  BY <1>1, <1>2, <1>3, <1>4, SocketFacts, SocketAssembled, Zenon DEF Close, bounds,
     ThreadType, MsgKinds, Pieces

\* A client has its answer.
LEMMA GreetedStep == ASSUME SocketInv, NEW c \in Clients, Greeted(c) PROVE SocketInv'
<1>1. client' \in [Clients -> {"off", "greet", "mid", "await", "ready"}]
  BY SocketFacts DEF Greeted
<1>2. /\ ThreadInv'
      /\ \A d \in thread'.todo \cup ({thread'.cur} \ {"none"}) : fd'[d] = "open"
  BY SocketFacts DEF Greeted, ThreadInv
<1>3. ASSUME NEW d \in Clients PROVE StreamOK(View(d))'
  <2>1. InRest(d)' = InRest(d)
    BY DEF InRest, Greeted
  <2>2. CASE d = c
    <3> DEFINE v == View(c)  w == View(c)'
    <3>1. /\ client[c] = "await" /\ client'[c] = "ready" /\ fd'[c] = fd[c]
          /\ hung'[c] = hung[c] /\ writing'[c] = writing[c]
          /\ pipe'[c] = pipe[c] /\ written'[c] = written[c]
          /\ pushed'[c] = pushed[c] /\ faulty'[c] = faulty[c] /\ thread' = thread
      BY SocketFacts DEF Greeted
    <3>2. w.kind = v.kind /\ w.n = v.n
      BY <2>1, <2>2, <3>1, ViewFields
    <3>3. /\ StreamOK(v) /\ v.client = "await" /\ w.client = "ready" /\ w.fd = v.fd
          /\ w.hung = v.hung /\ w.pipe = v.pipe /\ w.rest = v.rest /\ w.writing = v.writing
          /\ w.pushed = v.pushed /\ w.faulty = v.faulty /\ w.written = v.written
      BY <2>1, <2>2, <3>1, SocketFacts, ViewFields
    <3> HIDE DEF v, w
    <3>4. StreamOK(w)
      BY <3>2, <3>3, ViewOpened
    <3> QED BY <3>4, <2>2, PrimedView DEF w
  <2>3. CASE d # c
    <3>1. Untouched(d) /\ thread' = thread
      BY <2>3, SocketFacts DEF Greeted, Untouched
    <3> QED BY <2>1, <3>1, SocketFacts, ViewSame
  <2> QED BY <2>2, <2>3
<1> QED
  BY <1>1, <1>2, <1>3, SocketFacts, SocketAssembled, Zenon DEF Greeted, bounds,
     ThreadType, MsgKinds, Pieces

-----------------------------------------------------------------------------
(* The steps of the serving thread and of the daemon *)

\* What closing the connections of some clients does to the connections.
LEMMA DroppedTypes ==
  ASSUME SocketInv, NEW cs, Dropped(cs)
  PROVE  /\ fd' \in [Clients -> {"none", "backlog", "open", "dropped"}]
         /\ hung' \in [Clients -> BOOLEAN] /\ pipe' \in [Clients -> Seq(Pieces)]
         /\ \A c \in Clients : c \notin cs =>
              fd'[c] = fd[c] /\ hung'[c] = hung[c] /\ pipe'[c] = pipe[c]
         /\ \A c \in Clients : c \in cs =>
              /\ fd'[c] = IF hung[c] THEN "none" ELSE "dropped"
              /\ ~hung'[c] /\ pipe'[c] = <<>>
<1>1. /\ fd' \in [Clients -> {"none", "backlog", "open", "dropped"}]
      /\ \A c \in Clients : c \notin cs => fd'[c] = fd[c]
      /\ \A c \in Clients : c \in cs => fd'[c] = IF hung[c] THEN "none" ELSE "dropped"
  BY SocketFacts DEF Dropped
<1>2. /\ hung' \in [Clients -> BOOLEAN]
      /\ \A c \in Clients : c \notin cs => hung'[c] = hung[c]
      /\ \A c \in Clients : c \in cs => ~hung'[c]
  <2>1. /\ hung' = [c \in Clients |-> hung[c] /\ c \notin cs]
        /\ hung \in [Clients -> BOOLEAN]
    BY SocketFacts DEF Dropped
  <2>2. hung' \in [Clients -> BOOLEAN]
    BY ONLY <2>1, Zenon
  <2>3. ASSUME NEW c \in Clients
        PROVE  (c \notin cs => hung'[c] = hung[c]) /\ (c \in cs => ~hung'[c])
    <3>1. hung[c] \in BOOLEAN /\ hung'[c] = (hung[c] /\ c \notin cs)
      BY ONLY <2>1, c \in Clients, Zenon
    <3> QED BY ONLY <3>1
  <2> QED BY <2>2, <2>3
<1>3. /\ pipe' \in [Clients -> Seq(Pieces)]
      /\ \A c \in Clients : c \notin cs => pipe'[c] = pipe[c]
      /\ \A c \in Clients : c \in cs => pipe'[c] = <<>>
  BY SocketFacts DEF Dropped
<1> QED BY <1>1, <1>2, <1>3

\* The views after closing the connections of some clients: those of the clients
\* concerned, if the thread is not in the middle of a message of theirs any more,
\* and those of the others, if it is where it was with them.
LEMMA DroppedViews ==
  ASSUME SocketInv, NEW cs, Dropped(cs), UNCHANGED <<pushed, clientVars>>,
         NEW c \in Clients,
         c \in cs => ~InRest(c)',
         c \notin cs => InRest(c)' = InRest(c),
         c \notin cs /\ InRest(c) => thread'.kind = thread.kind /\ thread'.n = thread.n
  PROVE  StreamOK(View(c))'
<1>1. /\ client' = client /\ writing' = writing /\ written' = written /\ faulty' = faulty
      /\ pushed' = pushed
  BY DEF clientVars
<1>2. CASE c \in cs
  <2> DEFINE v == View(c)  w == View(c)'
  <2>1. /\ fd'[c] = (IF hung[c] THEN "none" ELSE "dropped") /\ ~hung'[c] /\ pipe'[c] = <<>>
    BY <1>2, DroppedTypes
  <2>2. /\ StreamOK(v) /\ w.pipe = <<>> /\ ~w.hung /\ ~w.rest
        /\ w.fd = (IF v.hung THEN "none" ELSE "dropped")
    BY <1>2, <2>1, SocketFacts, ViewFields
  <2>3. /\ w.writing = v.writing /\ w.pushed = v.pushed /\ w.faulty = v.faulty
        /\ w.client = v.client /\ w.written = v.written
    BY <1>1, ViewFields
  <2> HIDE DEF v, w
  <2>4. StreamOK(w)
    BY <2>2, <2>3, ViewDropped
  <2> QED BY <2>4, PrimedView DEF w
<1>3. CASE c \notin cs
  <2>1. Untouched(c)
    BY <1>1, <1>3, DroppedTypes DEF Untouched
  <2> QED BY <1>3, <2>1, SocketFacts, ViewSame
<1> QED BY <1>2, <1>3

\* On to the next client.
LEMMA OnToNextThread ==
  ASSUME SocketInv, OnToNext
  PROVE  /\ (thread \in ThreadType)' /\ thread'.at = "each" /\ thread'.cur = "none"
         /\ thread'.todo = thread.todo
<1>1. thread \in ThreadType
  BY SocketFacts
<1>2. thread' = [at |-> "each", cur |-> "none", kind |-> "none", n |-> 0,
                 todo |-> thread.todo]
  BY <1>1 DEF OnToNext, ThreadType
<1>3. thread.todo \in SUBSET Clients /\ 0 \in 0..(MaxMessages + 1)
  BY <1>1, SocketAssumption DEF ThreadType
<1>4. thread' \in ThreadType
  BY <1>2, <1>3 DEF ThreadType
<1> QED BY <1>2, <1>4 DEF ThreadType, MsgKinds

\* The thread drops the client it is at.
LEMMA DropStep ==
  ASSUME SocketInv, NEW c \in Clients, thread.at \in {"header", "rest"}, thread.cur = c,
         Drop(c), reply' \in [Clients -> {"none", "ok", "refused"}],
         UNCHANGED <<life, pushed, bounds, clientVars>>
  PROVE  SocketInv'
<1>1. /\ (thread \in ThreadType)' /\ thread'.at = "each" /\ thread'.cur = "none"
      /\ thread'.todo = thread.todo
  BY OnToNextThread DEF Drop
<1>2. Dropped({c})
  BY DEF Drop
<1>3. /\ ThreadInv'
      /\ \A d \in thread'.todo \cup ({thread'.cur} \ {"none"}) : fd'[d] = "open"
  <2>1. \A d \in thread.todo : d \in Clients /\ d # c /\ fd'[d] = "open"
    BY <1>2, SocketFacts, DroppedTypes DEF ThreadType
  <2> QED BY <1>1, <2>1, SocketFacts DEF ThreadInv
<1>4. ASSUME NEW d \in Clients PROVE StreamOK(View(d))'
  <2>1. ~InRest(d)' /\ (d # c => ~InRest(d))
    BY <1>1 DEF InRest
  <2>2. UNCHANGED <<pushed, clientVars>>
    OBVIOUS
  <2>3. d \notin {c} => InRest(d)' = InRest(d) /\ ~InRest(d)
    BY <2>1 DEF InRest
  <2> QED BY <1>2, <2>1, <2>2, <2>3, DroppedViews
<1> QED
  BY <1>1, <1>2, <1>3, <1>4, SocketFacts, DroppedTypes, SocketAssembled, Zenon
  DEF bounds, clientVars, ThreadType, MsgKinds, Pieces

\* The thread takes the header of a message.
LEMMA TakeHeaderStep ==
  ASSUME SocketInv, NEW c \in Clients, thread.at = "header", thread.cur = c,
         pipe[c] # <<>>, Head(pipe[c]).part = "header", Take(c),
         thread' = [thread EXCEPT !.at = "rest", !.n = Head(pipe[c]).n,
                                  !.kind = Head(pipe[c]).kind],
         UNCHANGED <<life, fd, hung, reply, pushed, bounds, clientVars>>
  PROVE  SocketInv'
<1>1. /\ pipe \in [Clients -> Seq(Pieces)] /\ Head(pipe[c]) = pipe[c][1]
      /\ pipe[c][1] \in Pieces /\ SubSeq(pipe[c], 2, Len(pipe[c])) \in Seq(Pieces)
  BY SocketFacts, TakePositions
<1>2. pipe' = [pipe EXCEPT ![c] = SubSeq(pipe[c], 2, Len(pipe[c]))]
  BY DEF Take
<1>3. /\ pipe' \in [Clients -> Seq(Pieces)]
      /\ pipe'[c] = SubSeq(pipe[c], 2, Len(pipe[c]))
      /\ \A d \in Clients : d # c => pipe'[d] = pipe[d]
  BY ONLY <1>1, <1>2, c \in Clients
<1>4. /\ thread' \in ThreadType /\ thread'.at = "rest" /\ thread'.cur = c
      /\ thread'.todo = thread.todo /\ thread'.n = pipe[c][1].n
      /\ thread'.kind = pipe[c][1].kind
  <2>1. PICK k, n : k = Head(pipe[c]).kind /\ n = Head(pipe[c]).n
    OBVIOUS
  <2>2. k \in MsgKinds \cup {"hello"} /\ n \in 1..(MaxMessages + 1)
    BY <1>1, <2>1 DEF Pieces
  <2>3. thread' = [thread EXCEPT !.at = "rest", !.n = n, !.kind = k] /\ thread \in ThreadType
    BY <2>1, SocketFacts
  <2>4. thread' = [at |-> "rest", cur |-> c, kind |-> k, n |-> n, todo |-> thread.todo]
    BY <2>3 DEF ThreadType
  <2>5. thread' \in ThreadType
    <3>1. thread.todo \in SUBSET Clients /\ n \in 0..(MaxMessages + 1)
      BY <2>2, <2>3, SocketAssumption DEF ThreadType
    <3> QED BY <3>1, <2>2, <2>4 DEF ThreadType
  <2>6. /\ thread'.at = "rest" /\ thread'.cur = c /\ thread'.todo = thread.todo
        /\ thread'.n = n /\ thread'.kind = k
    BY ONLY <2>4
  <2> QED BY <1>1, <2>1, <2>5, <2>6
<1>5. /\ ThreadInv'
      /\ \A d \in thread'.todo \cup ({thread'.cur} \ {"none"}) : fd'[d] = "open"
  BY <1>4, SocketFacts DEF ThreadInv
<1>6. ASSUME NEW d \in Clients PROVE StreamOK(View(d))'
  <2>1. ~InRest(d) /\ (InRest(d)' <=> d = c)
    BY <1>4 DEF InRest
  <2>2. CASE d = c
    <3> DEFINE v == View(c)  w == View(c)'
    <3>1. /\ StreamOK(v) /\ ~v.rest /\ v.pipe # <<>>
          /\ w.pipe = SubSeq(v.pipe, 2, Len(v.pipe)) /\ w.rest
          /\ w.kind = Head(v.pipe).kind /\ w.n = Head(v.pipe).n
      BY <1>1, <1>3, <1>4, <2>1, <2>2, SocketFacts, ViewFields
    <3>2. /\ w.fd = v.fd /\ w.hung = v.hung /\ w.writing = v.writing /\ w.pushed = v.pushed
          /\ w.faulty = v.faulty /\ w.client = v.client /\ w.written = v.written
      BY ViewFields DEF clientVars
    <3> HIDE DEF v, w
    <3>3. StreamOK(w)
      BY <3>1, <3>2, ViewTakesHeader
    <3> QED BY <3>3, <2>2, PrimedView DEF w
  <2>3. CASE d # c
    <3>1. Untouched(d)
      BY <2>3, <1>3 DEF Untouched, clientVars
    <3> QED BY <2>1, <2>3, <3>1, SocketFacts, ViewSame
  <2> QED BY <2>2, <2>3
<1> QED
  BY <1>3, <1>4, <1>5, <1>6, SocketFacts, SocketAssembled, Zenon
  DEF bounds, clientVars, ThreadType, MsgKinds, Pieces

\* The thread takes the rest of a message, answers it or queues it, and goes on.
LEMMA TakeRestStep ==
  ASSUME SocketInv, NEW c \in Clients, thread.at = "rest", thread.cur = c,
         pipe[c] # <<>>, OnToNext, Take(c),
         reply' \in [Clients -> {"none", "ok", "refused"}],
         \/ pushed' = pushed
         \/ /\ thread.kind = "command"
            /\ pushed' = [pushed EXCEPT ![c] = Append(@, thread.n)],
         UNCHANGED <<life, fd, hung, bounds, clientVars>>
  PROVE  SocketInv'
<1>1. /\ pipe \in [Clients -> Seq(Pieces)]
      /\ SubSeq(pipe[c], 2, Len(pipe[c])) \in Seq(Pieces)
  BY SocketFacts, TakePositions
<1>2. pipe' = [pipe EXCEPT ![c] = SubSeq(pipe[c], 2, Len(pipe[c]))]
  BY DEF Take
<1>3. /\ pipe' \in [Clients -> Seq(Pieces)]
      /\ pipe'[c] = SubSeq(pipe[c], 2, Len(pipe[c]))
      /\ \A d \in Clients : d # c => pipe'[d] = pipe[d]
  BY ONLY <1>1, <1>2, c \in Clients
<1>4. /\ (thread \in ThreadType)' /\ thread'.at = "each" /\ thread'.cur = "none"
      /\ thread'.todo = thread.todo
  BY OnToNextThread
<1>5. /\ ThreadInv'
      /\ \A d \in thread'.todo \cup ({thread'.cur} \ {"none"}) : fd'[d] = "open"
  BY <1>4, SocketFacts DEF ThreadInv
<1>6. InRest(c) /\ \A d \in Clients : ~InRest(d)' /\ (d # c => ~InRest(d))
  BY <1>4 DEF InRest
<1>7. /\ StreamOK(View(c)')
      /\ pushed' \in [Clients -> Seq(1..MaxMessages)]
      /\ \A d \in Clients : d # c => pushed'[d] = pushed[d]
  <2> DEFINE v == View(c)  w == View(c)'
  <2>1. /\ StreamOK(v) /\ v.rest /\ v.pipe # <<>> /\ v.kind = thread.kind /\ v.n = thread.n
        /\ w.pipe = SubSeq(v.pipe, 2, Len(v.pipe)) /\ ~w.rest
    BY <1>3, <1>6, SocketFacts, ViewFields, SMTT(40)
  <2>2. /\ w.fd = v.fd /\ w.hung = v.hung /\ w.writing = v.writing
        /\ w.faulty = v.faulty /\ w.client = v.client /\ w.written = v.written
    BY ViewFields DEF clientVars
  <2>3. v.pushed = pushed[c] /\ w.pushed = pushed'[c]
    BY ViewFields
  <2>4. pushed \in [Clients -> Seq(1..MaxMessages)]
    BY SocketFacts
  <2>5. \/ w.pushed = v.pushed
        \/ w.pushed = Append(v.pushed, v.n) /\ v.kind = "command"
    BY <2>1, <2>3, <2>4
  <2> HIDE DEF v, w
  <2>6. StreamOK(w)
    BY <2>1, <2>2, <2>5, ViewTakesRest
  <2>7. w.pushed \in Seq(1..MaxMessages)
    BY <2>6 DEF StreamOK, Connected
  <2>8. pushed' = [pushed EXCEPT ![c] = w.pushed]
    <3>1. CASE pushed' = pushed
      BY ONLY <3>1, <2>3, <2>4
    <3>2. CASE pushed' = [pushed EXCEPT ![c] = Append(@, thread.n)]
      BY ONLY <3>2, <2>3, <2>4, c \in Clients
    <3> QED BY <3>1, <3>2
  <2>9. /\ pushed' \in [Clients -> Seq(1..MaxMessages)]
        /\ \A d \in Clients : d # c => pushed'[d] = pushed[d]
    BY ONLY <2>4, <2>7, <2>8, c \in Clients
  <2> QED BY <2>6, <2>9 DEF w
<1>8. ASSUME NEW d \in Clients PROVE StreamOK(View(d))'
  <2>1. CASE d = c
    BY <2>1, <1>7, PrimedView
  <2>2. CASE d # c
    <3>1. Untouched(d)
      BY <2>2, <1>3, <1>7 DEF Untouched, clientVars
    <3> QED BY <1>6, <2>2, <3>1, SocketFacts, ViewSame
  <2> QED BY <2>1, <2>2
<1> QED
  BY <1>3, <1>4, <1>5, <1>7, <1>8, SocketFacts, SocketAssembled, Zenon
  DEF bounds, clientVars, ThreadType, MsgKinds, Pieces

\* The thread looks for events, and accepts a connection if one waits.
LEMMA PollStep == ASSUME SocketInv, Poll PROVE SocketInv'
<1> DEFINE s == {c \in Open : Ready(c)}
<1>1. /\ (thread \in ThreadType)' /\ thread'.at = "each" /\ thread'.cur = "none"
      /\ thread'.todo = s /\ thread.at = "poll" /\ thread.cur = "none" /\ life = "up"
  <2>1. thread' = [thread EXCEPT !.at = "each", !.todo = s] /\ thread \in ThreadType
    BY SocketFacts DEF Poll
  <2>2. s \in SUBSET Clients
    BY DEF Open
  <2>3. thread.at = "poll" /\ thread.cur = "none" /\ life = "up"
    BY SocketFacts DEF Poll
  <2> HIDE DEF s
  <2>4. thread' = [at |-> "each", cur |-> "none", kind |-> thread.kind, n |-> thread.n,
                   todo |-> s]
    BY <2>1, <2>3 DEF ThreadType
  <2>5. thread' \in ThreadType
    <3>1. thread.kind \in MsgKinds \cup {"hello", "none"} /\ thread.n \in 0..(MaxMessages + 1)
      BY <2>1 DEF ThreadType
    <3> QED BY <3>1, <2>2, <2>4 DEF ThreadType
  <2>6. thread'.at = "each" /\ thread'.cur = "none" /\ thread'.todo = s
    BY ONLY <2>4
  <2> QED BY <2>3, <2>5, <2>6 DEF ThreadType, MsgKinds
<1>2. /\ fd' \in [Clients -> {"none", "backlog", "open", "dropped"}]
      /\ \A d \in Clients : fd[d] = "open" => fd'[d] = "open"
      /\ \A d \in Clients : fd'[d] = fd[d] \/ (fd[d] = "backlog" /\ fd'[d] = "open")
  <2>1. fd \in [Clients -> {"none", "backlog", "open", "dropped"}]
    BY SocketFacts
  <2>2. CASE fd' = fd
    BY ONLY <2>1, <2>2
  <2>3. CASE \E c \in Clients : fd[c] = "backlog" /\ fd' = [fd EXCEPT ![c] = "open"]
    BY ONLY <2>1, <2>3
  <2> QED BY <2>2, <2>3 DEF Poll
<1>3. /\ ThreadInv'
      /\ \A d \in thread'.todo \cup ({thread'.cur} \ {"none"}) : fd'[d] = "open"
  <2>1. \A d \in s : d \in Clients /\ fd'[d] = "open"
    BY <1>2 DEF Open
  <2> HIDE DEF s
  <2>2. life' # "down"
    BY <1>1 DEF Poll
  <2> QED BY <1>1, <2>1, <2>2 DEF ThreadInv
<1>4. ASSUME NEW d \in Clients PROVE StreamOK(View(d))'
  <2>1. ~InRest(d)' /\ ~InRest(d) /\ InRest(d)' = InRest(d)
    BY <1>1 DEF InRest
  <2>2. CASE fd'[d] = fd[d]
    <3>1. Untouched(d)
      BY <2>2 DEF Poll, Untouched, clientVars
    <3> QED BY <2>1, <3>1, SocketFacts, ViewSame
  <2>3. CASE fd[d] = "backlog" /\ fd'[d] = "open"
    <3> DEFINE v == View(d)  w == View(d)'
    <3>1. /\ StreamOK(v) /\ w.client = v.client /\ v.fd = "backlog" /\ w.fd = "open"
          /\ w.hung = v.hung /\ w.pipe = v.pipe /\ w.rest = v.rest /\ w.writing = v.writing
          /\ w.pushed = v.pushed /\ w.faulty = v.faulty /\ w.written = v.written
          /\ w.kind = v.kind /\ w.n = v.n
      BY <2>1, <2>3, SocketFacts, ViewFields DEF Poll, clientVars
    <3> HIDE DEF v, w
    <3>2. StreamOK(w)
      BY <3>1, ViewOpened
    <3> QED BY <3>2, PrimedView DEF w
  <2> QED BY <2>2, <2>3, <1>2
<1> QED
  BY <1>1, <1>2, <1>3, <1>4, SocketFacts, SocketAssembled, Zenon
  DEF Poll, bounds, clientVars, ThreadType, MsgKinds, Pieces

\* The thread turns to the next client that has something for it.
LEMMA PickStep == ASSUME SocketInv, Pick PROVE SocketInv'
<1>1. /\ thread \in ThreadType /\ thread.at = "each" /\ thread.cur = "none"
      /\ thread.todo \in SUBSET Clients
  BY SocketFacts DEF Pick, ThreadType
<1>2. \/ thread' = [thread EXCEPT !.at = "poll"]
      \/ \E c \in thread.todo :
           thread' = [thread EXCEPT !.at = "header", !.cur = c, !.todo = thread.todo \ {c}]
  BY DEF Pick
<1>3. /\ (thread \in ThreadType)' /\ thread'.at \in {"poll", "header"}
      /\ thread'.todo \in SUBSET thread.todo
      /\ thread'.at = "poll" => thread'.cur = "none"
      /\ thread'.at = "header" => thread'.cur \in thread.todo /\ thread'.cur \notin thread'.todo
  <2>0. thread.kind \in MsgKinds \cup {"hello", "none"} /\ thread.n \in 0..(MaxMessages + 1)
    BY <1>1 DEF ThreadType
  <2>1. CASE thread' = [thread EXCEPT !.at = "poll"]
    <3>1. thread' = [at |-> "poll", cur |-> "none", kind |-> thread.kind, n |-> thread.n,
                     todo |-> thread.todo]
      BY <1>1, <2>1 DEF ThreadType
    <3>2. thread' \in ThreadType
      BY <3>1, <2>0, <1>1 DEF ThreadType
    <3>3. thread'.at = "poll" /\ thread'.cur = "none" /\ thread'.todo = thread.todo
      BY ONLY <3>1
    <3> QED BY <3>2, <3>3 DEF ThreadType, MsgKinds
  <2>2. CASE \E c \in thread.todo :
               thread' = [thread EXCEPT !.at = "header", !.cur = c, !.todo = thread.todo \ {c}]
    <3>1. PICK c \in thread.todo :
            thread' = [thread EXCEPT !.at = "header", !.cur = c, !.todo = thread.todo \ {c}]
      BY <2>2
    <3>2. thread' = [at |-> "header", cur |-> c, kind |-> thread.kind, n |-> thread.n,
                     todo |-> thread.todo \ {c}]
      BY <1>1, <3>1 DEF ThreadType
    <3>3. thread' \in ThreadType
      <4>1. c \in Clients /\ thread.todo \ {c} \in SUBSET Clients
        BY <1>1
      <4> QED BY <4>1, <3>2, <2>0 DEF ThreadType
    <3>4. thread'.at = "header" /\ thread'.cur = c /\ thread'.todo = thread.todo \ {c}
      BY ONLY <3>2
    <3> QED BY <3>3, <3>4 DEF ThreadType, MsgKinds
  <2> QED BY <1>2, <2>1, <2>2
<1>4. /\ ThreadInv'
      /\ \A d \in thread'.todo \cup ({thread'.cur} \ {"none"}) : fd'[d] = "open"
  <2>1. \A d \in thread.todo : d \in Clients /\ fd'[d] = "open"
    BY <1>1, SocketFacts DEF Pick
  <2>2. life' # "down"
    BY <1>1, SocketFacts DEF Pick
  <2> QED BY <1>3, <2>1, <2>2 DEF ThreadInv
<1>5. ASSUME NEW d \in Clients PROVE StreamOK(View(d))'
  <2>1. ~InRest(d)' /\ ~InRest(d)
    BY <1>1, <1>3 DEF InRest
  <2>2. Untouched(d)
    BY DEF Pick, Untouched, clientVars
  <2> QED BY <2>1, <2>2, SocketFacts, ViewSame
<1> QED
  BY <1>3, <1>4, <1>5, SocketFacts, SocketAssembled, Zenon
  DEF Pick, bounds, clientVars, ThreadType, MsgKinds, Pieces

\* The thread ends, on its way out of the daemon or with it: with every connection
\* that it had a message of.
LEMMA ThreadEnds ==
  ASSUME SocketInv, NEW cs, Dropped(cs), thread' = Off,
         life' \in {"down", "up", "stopping"}, crashes' \in 0..MaxCrashes,
         \A c \in Clients : InRest(c) => c \in cs,
         UNCHANGED <<reply, pushed, lives, clientVars>>
  PROVE  SocketInv'
<1>1. /\ (thread \in ThreadType)' /\ thread'.at = "off" /\ thread'.cur = "none"
      /\ thread'.todo = {}
  BY SocketAssumption DEF ThreadType, Off, MsgKinds
<1>2. /\ ThreadInv'
      /\ \A d \in thread'.todo \cup ({thread'.cur} \ {"none"}) : fd'[d] = "open"
  BY <1>1 DEF ThreadInv
<1>3. ASSUME NEW d \in Clients PROVE StreamOK(View(d))'
  <2>1. ~InRest(d)' /\ (d \notin cs => ~InRest(d) /\ InRest(d)' = InRest(d))
    BY <1>1 DEF InRest
  <2>2. UNCHANGED <<pushed, clientVars>>
    OBVIOUS
  <2> QED BY <2>1, <2>2, DroppedViews
<1> QED
  BY <1>1, <1>2, <1>3, SocketFacts, DroppedTypes, SocketAssembled, Zenon
  DEF clientVars, ThreadType, MsgKinds, Pieces

\* The daemon starts, is told to stop, or has stopped.
LEMMA DaemonStep == ASSUME SocketInv, Start \/ Stop \/ Joined PROVE SocketInv'
<1>1. CASE Start
  <2>1. thread' = [Off EXCEPT !.at = "poll"] /\ thread.at = "off"
    BY <1>1, SocketFacts DEF Start
  <2>2. /\ (thread \in ThreadType)' /\ thread'.at = "poll" /\ thread'.cur = "none"
        /\ thread'.todo = {}
    BY <2>1, SocketAssumption DEF ThreadType, Off, MsgKinds
  <2>3. lives' \in 0..MaxLives /\ life' = "up"
    BY <1>1, SocketFacts, SocketAssumption DEF Start
  <2>4. /\ ThreadInv'
        /\ \A d \in thread'.todo \cup ({thread'.cur} \ {"none"}) : fd'[d] = "open"
    BY <2>2, <2>3 DEF ThreadInv
  <2>5. ASSUME NEW d \in Clients PROVE StreamOK(View(d))'
    <3>1. ~InRest(d)' /\ ~InRest(d)
      BY <2>1, <2>2 DEF InRest
    <3>2. Untouched(d)
      BY <1>1 DEF Start, Untouched, clientVars
    <3> QED BY <3>1, <3>2, SocketFacts, ViewSame
  <2> QED
    BY <1>1, <2>2, <2>3, <2>4, <2>5, SocketFacts, SocketAssembled, Zenon
    DEF Start, bounds, clientVars, ThreadType, MsgKinds, Pieces
<1>2. CASE Stop
  <2>1. Dropped(Waiting) /\ thread' = thread /\ life' = "stopping"
    BY <1>2 DEF Stop
  <2>2. \A d \in Clients : d \in Waiting <=> fd[d] = "backlog"
    BY DEF Waiting
  <2>3. \A d \in Clients : InRest(d) => d \notin Waiting
    BY <2>2, SocketFacts DEF InRest
  <2>4. /\ ThreadInv'
        /\ \A d \in thread'.todo \cup ({thread'.cur} \ {"none"}) : fd'[d] = "open"
    <3>1. \A d \in Clients : fd[d] = "open" => fd'[d] = "open"
      BY <2>1, <2>2, DroppedTypes
    <3> QED BY <3>1, <2>1, SocketFacts DEF ThreadInv, ThreadType
  <2>5. ASSUME NEW d \in Clients PROVE StreamOK(View(d))'
    <3>1. InRest(d)' = InRest(d)
      BY <2>1 DEF InRest
    <3>2. UNCHANGED <<pushed, clientVars>>
      BY <1>2 DEF Stop
    <3> QED BY <2>1, <2>3, <3>1, <3>2, DroppedViews
  <2>6. /\ fd' \in [Clients -> {"none", "backlog", "open", "dropped"}]
        /\ hung' \in [Clients -> BOOLEAN] /\ pipe' \in [Clients -> Seq(Pieces)]
    BY <2>1, DroppedTypes
  <2>7. life' \in {"down", "up", "stopping"} /\ (thread \in ThreadType)'
    BY <2>1, SocketFacts DEF ThreadType, MsgKinds
  <2> QED
    BY <1>2, <2>1, <2>4, <2>5, <2>6, <2>7, SocketFacts, SocketAssembled, Zenon
    DEF Stop, bounds, clientVars, ThreadType, MsgKinds, Pieces
<1>3. CASE Joined
  <2>1. /\ ThreadInv'
        /\ \A d \in thread'.todo \cup ({thread'.cur} \ {"none"}) : fd'[d] = "open"
    BY <1>3, SocketFacts DEF Joined, ThreadInv
  <2>2. ASSUME NEW d \in Clients PROVE StreamOK(View(d))'
    <3>1. InRest(d)' = InRest(d) /\ thread' = thread
      BY <1>3 DEF InRest, Joined
    <3>2. Untouched(d)
      BY <1>3 DEF Joined, Untouched, clientVars
    <3> QED BY <3>1, <3>2, SocketFacts, ViewSame
  <2> QED
    BY <1>3, <2>1, <2>2, SocketFacts, SocketAssembled, Zenon
    DEF Joined, bounds, clientVars, ThreadType, MsgKinds, Pieces
<1> QED BY <1>1, <1>2, <1>3

\* A step of the thread with the message of one client keeps the invariant.
LEMMA ServeClientStep ==
  ASSUME SocketInv, NEW c \in Clients,
         \/ RecvHeader(c) \/ Gone(c) \/ BrokenPipe(c) \/ Refuse(c) \/ Welcome(c) \/ Handle(c)
  PROVE  SocketInv'
<1>r. reply \in [Clients -> {"none", "ok", "refused"}]
  BY SocketFacts
<1>1. CASE RecvHeader(c)
  <2>1. thread.at = "header" /\ thread.cur = c /\ UNCHANGED <<life, reply, pushed, bounds, clientVars>>
    BY <1>1 DEF RecvHeader
  <2>2. CASE Drop(c)
    BY <2>1, <2>2, <1>r, DropStep
  <2>3. CASE ~Drop(c)
    <3>1. /\ pipe[c] # <<>> /\ Head(pipe[c]).part = "header" /\ Take(c)
          /\ thread' = [thread EXCEPT !.at = "rest", !.n = Head(pipe[c]).n,
                                      !.kind = Head(pipe[c]).kind]
          /\ UNCHANGED <<fd, hung>>
      BY <1>1, <2>3 DEF RecvHeader, RestFollows
    <3> QED BY <2>1, <3>1, TakeHeaderStep
  <2> QED BY <2>2, <2>3
<1>2. CASE Gone(c)
  BY <1>2, <1>r, DropStep DEF Gone
<1>3. CASE BrokenPipe(c)
  <2> DEFINE cs == {d \in Clients : fd[d] \in {"backlog", "open"}}
  <2>1. /\ Dropped(cs) /\ thread' = Off /\ life' = "down"
        /\ UNCHANGED <<reply, pushed, bounds, clientVars>>
    BY <1>3 DEF BrokenPipe, Dies
  <2>2. \A d \in Clients : InRest(d) => d \in cs
    BY SocketFacts DEF InRest
  <2>3. crashes' \in 0..MaxCrashes /\ lives' = lives
    BY <2>1, SocketFacts DEF bounds
  <2> QED BY <2>1, <2>2, <2>3, ThreadEnds
<1>4. CASE Refuse(c)
  <2>1. reply' \in [Clients -> {"none", "ok", "refused"}]
    BY <1>4, <1>r DEF Refuse
  <2> QED BY <1>4, <2>1, DropStep DEF Refuse
<1>5. CASE Welcome(c)
  <2>1. reply' \in [Clients -> {"none", "ok", "refused"}]
    BY <1>5, <1>r DEF Welcome
  <2> QED BY <1>5, <2>1, TakeRestStep DEF Welcome, BodyHere
<1>6. CASE Handle(c)
  <2>1. /\ thread.at = "rest" /\ thread.cur = c /\ pipe[c] # <<>>
        /\ UNCHANGED <<life, reply, bounds, clientVars>>
    BY <1>6 DEF Handle, BodyHere
  <2>2. CASE thread.kind = "malformed" /\ Drop(c) /\ UNCHANGED pushed
    BY <2>1, <2>2, <1>r, DropStep
  <2>3. CASE ~(thread.kind = "malformed" /\ Drop(c) /\ UNCHANGED pushed)
    <3>1. /\ OnToNext /\ Take(c) /\ UNCHANGED <<fd, hung>>
          /\ \/ pushed' = pushed
             \/ /\ thread.kind = "command"
                /\ pushed' = [pushed EXCEPT ![c] = Append(@, thread.n)]
      BY <1>6, <2>3 DEF Handle
    <3> QED BY <2>1, <3>1, <1>r, TakeRestStep
  <2> QED BY <2>2, <2>3
<1> QED BY <1>1, <1>2, <1>3, <1>4, <1>5, <1>6

\* The end of the serving thread keeps the invariant.
LEMMA ServeEndsStep == ASSUME SocketInv, ServeEnds PROVE SocketInv'
<1>1. /\ Dropped(Closing) /\ thread' = Off /\ UNCHANGED <<life, reply, pushed, bounds, clientVars>>
      /\ thread.at = "poll"
  BY DEF ServeEnds
<1>2. \A d \in Clients : InRest(d) => d \in Closing
  BY <1>1 DEF InRest
<1>3. life' \in {"down", "up", "stopping"} /\ crashes' \in 0..MaxCrashes /\ lives' = lives
  BY <1>1, SocketFacts DEF bounds
<1> QED BY <1>1, <1>2, <1>3, ThreadEnds

\* The end of the daemon's process keeps the invariant.
LEMMA CrashStep == ASSUME SocketInv, Crash PROVE SocketInv'
<1> DEFINE cs == {d \in Clients : fd[d] \in {"backlog", "open"}}
<1>1. Dropped(cs) /\ thread' = Off /\ life' = "down" /\ UNCHANGED <<reply, pushed, lives, clientVars>>
  BY DEF Crash, Dies
<1>2. \A d \in Clients : InRest(d) => d \in cs
  BY SocketFacts DEF InRest
<1>3. crashes' \in 0..MaxCrashes
  BY SocketFacts, SocketAssumption DEF Crash
<1> QED BY <1>1, <1>2, <1>3, ThreadEnds

\* Every step of the socket keeps the invariant.
LEMMA SocketStep == ASSUME SocketInv, [SocketNext]_socketVars PROVE SocketInv'
<1>1. ASSUME NEW c \in Clients, Connect(c) PROVE SocketInv'
  BY <1>1, ConnectStep
<1>2. ASSUME NEW c \in Clients, Quit(c) PROVE SocketInv'
  BY <1>2, CloseStep DEF Quit
<1>3. ASSUME NEW c \in Clients, Finish(c) PROVE SocketInv'
  <2>1. CASE SendRest(c)
    BY <2>1, SendRestStep
  <2>2. CASE Greeted(c)
    BY <2>2, GreetedStep
  <2>3. CASE TurnedAway(c)
    BY <2>3, CloseStep DEF TurnedAway
  <2> QED BY <1>3, <2>1, <2>2, <2>3 DEF Finish
<1>4. ASSUME NEW c \in Clients, NEW kind \in MsgKinds \cup {"hello"}, SendHeader(c, kind)
      PROVE  SocketInv'
  BY <1>4, SendHeaderStep
<1>5. CASE Serve
  BY <1>5, PollStep, PickStep, ServeEndsStep, ServeClientStep DEF Serve
<1>6. CASE Start \/ Stop \/ Joined
  BY <1>6, DaemonStep
<1>7. CASE Crash
  BY <1>7, CrashStep
<1>8. CASE UNCHANGED socketVars
  <2>1. /\ (thread \in ThreadType)' /\ ThreadInv'
        /\ \A d \in thread'.todo \cup ({thread'.cur} \ {"none"}) : fd'[d] = "open"
    BY <1>8, SocketFacts DEF socketVars, ThreadInv, ThreadType, MsgKinds
  <2>2. ASSUME NEW d \in Clients PROVE StreamOK(View(d))'
    <3>1. InRest(d)' = InRest(d) /\ thread' = thread /\ Untouched(d)
      BY <1>8 DEF InRest, socketVars, Untouched
    <3> QED BY <3>1, SocketFacts, ViewSame
  <2> QED BY <1>8, <2>1, <2>2, SocketFacts, SocketAssembled, Zenon DEF socketVars
<1> QED BY <1>1, <1>2, <1>3, <1>4, <1>5, <1>6, <1>7, <1>8 DEF SocketNext

\* The control socket keeps its inductive invariant, whatever clients come and go
\* and whenever either side ends.
THEOREM SocketInvariant == SocketSpec => []SocketInv
BY SocketInitInv, SocketStep, PTL DEF SocketSpec

\* The variables of the control socket keep their types.
THEOREM SocketTypeCorrect == SocketSpec => []SocketTypeOK
<1>1. SocketInv => SocketTypeOK
  BY DEF SocketInv
<1> QED BY <1>1, SocketInvariant, PTL

\* What the queue got from a connection is whole messages in the order sent.
LEMMA SocketWhole == SocketInv => WholeAndInOrder
<1> SUFFICES ASSUME SocketInv, NEW c \in Clients
             PROVE  /\ \A i, j \in DOMAIN pushed[c] : i < j => pushed[c][i] < pushed[c][j]
                    /\ \A i \in DOMAIN pushed[c] : pushed[c][i] \in 1..written[c]
  BY DEF WholeAndInOrder
<1> DEFINE o == pushed[c]
<1>1. o \in Seq(1..MaxMessages) /\ written[c] \in 0..MaxMessages /\ MaxMessages \in Nat
  BY SocketFacts, SocketAssumption
<1>2. \A i \in 1..Len(o) : o[i] <= written[c] /\ \A j \in (i + 1)..Len(o) : o[i] < o[j]
  <2>1. StreamOK(View(c)) /\ View(c).pushed = o /\ View(c).written = written[c]
    BY SocketFacts, ViewFields
  <2> QED BY <2>1 DEF StreamOK, Numbered
<1>3. DOMAIN o = 1..Len(o) /\ Len(o) \in Nat /\ \A i \in 1..Len(o) : o[i] \in 1..MaxMessages
  BY <1>1
<1> HIDE DEF o
<1>4. ASSUME NEW i \in DOMAIN o, NEW j \in DOMAIN o, i < j PROVE o[i] < o[j]
  <2>1. i \in 1..Len(o) /\ j \in (i + 1)..Len(o)
    BY <1>3, <1>4
  <2> QED BY <2>1, <1>2
<1>5. ASSUME NEW i \in DOMAIN o PROVE o[i] \in 1..written[c]
  BY <1>1, <1>2, <1>3
<1> QED BY <1>4, <1>5 DEF o

\* A step of a running daemon drops an open connection of a client that is there
\* only for a length that is not its type's.
LEMMA SocketDrops ==
  ASSUME SocketInv, SocketNext, NEW c \in Current,
         fd[c] = "open", fd'[c] = "dropped", life = "up", life' = "up"
  PROVE  faulty[c]
<1>0. c \in Clients
  BY SocketAssumption
<1>1. /\ fd \in [Clients -> {"none", "backlog", "open", "dropped"}]
      /\ StreamOK(View(c))
  BY <1>0, SocketFacts
<1>2. ASSUME NEW d \in Clients, Drop(d) PROVE d = c /\ ~hung[c]
  <2>1. Dropped({d})
    BY <1>2 DEF Drop
  <2>2. /\ c \notin {d} => fd'[c] = fd[c]
        /\ c \in {d} => fd'[c] = IF hung[c] THEN "none" ELSE "dropped"
    BY <1>0, <2>1, DroppedTypes
  <2> QED BY <2>2
<1>3. ASSUME NEW d \in Clients,
             \/ Connect(d) \/ Quit(d) \/ Finish(d)
             \/ \E kind \in MsgKinds \cup {"hello"} : SendHeader(d, kind)
      PROVE  FALSE
  BY <1>0, <1>1, <1>3
  DEF Connect, Quit, Finish, Close, SendRest, Greeted, TurnedAway, SendHeader
<1>4. ASSUME NEW d \in Clients, RecvHeader(d) PROVE faulty[c]
  <2>1. Drop(d)
    BY <1>4 DEF RecvHeader
  <2>2. d = c /\ ~hung[c] /\ thread.at = "header"
    BY <1>2, <1>4, <2>1 DEF RecvHeader
  <2>3. pipe[c] # <<>> /\ (Head(pipe[c]).kind = "malformed" \/ Head(pipe[c]).part # "header")
    BY <1>4, <2>2 DEF RecvHeader
  <2>4. View(c).pipe = pipe[c] /\ View(c).rest = FALSE /\ View(c).faulty = faulty[c]
    BY <2>2, ViewFields DEF InRest
  <2>5. pipe[c] \in Seq(Pieces) /\ Len(pipe[c]) \in Nat \ {0} /\ Head(pipe[c]) = pipe[c][1]
    BY <1>0, <2>3, SocketFacts, TakePositions
  <2>6. pipe[c][1].part = "header"
    BY <1>1, <2>3, <2>4 DEF StreamOK, Alternating
  <2>7. pipe[c][1].kind = "malformed" /\ 1 \in 1..Len(pipe[c])
    BY <2>3, <2>5, <2>6
  <2> QED BY <1>1, <2>4, <2>7 DEF StreamOK, Blamed
<1>5. ASSUME NEW d \in Clients, Handle(d) PROVE faulty[c]
  <2>1. thread.kind = "malformed" /\ Drop(d) /\ thread.at = "rest" /\ thread.cur = d
    BY <1>5 DEF Handle
  <2>2. d = c
    BY <2>1, <1>2
  <2>3. View(c).rest /\ View(c).kind = "malformed" /\ View(c).faulty = faulty[c]
    BY <2>1, <2>2, ViewFields DEF InRest
  <2> QED BY <1>1, <2>3 DEF StreamOK, Blamed
<1>6. ASSUME NEW d \in Clients, Gone(d) \/ BrokenPipe(d) \/ Refuse(d) \/ Welcome(d) PROVE FALSE
  BY <1>2, <1>6 DEF Gone, BrokenPipe, Dies, Refuse, Welcome
<1>7. CASE Poll \/ Pick \/ ServeEnds
  <2>1. CASE Poll
    <3>1. fd' = fd \/ \E d \in Clients : fd[d] = "backlog" /\ fd' = [fd EXCEPT ![d] = "open"]
      BY <2>1 DEF Poll
    <3> QED BY <1>0, <1>1, <3>1
  <2> QED BY <1>7, <2>1 DEF Pick, ServeEnds, Notices
<1>8. CASE Start \/ Stop \/ Joined \/ Crash
  BY <1>8 DEF Start, Stop, Joined, Crash, Dies
<1> QED BY <1>3, <1>4, <1>5, <1>6, <1>7, <1>8 DEF SocketNext, Serve

\* Commands reach the queue whole, in order and once, and a running daemon drops no
\* client of its version that is there and keeps to the protocol.
THEOREM SocketStaysInSync == SocketSpec => SocketInSync
<1>1. SocketInv /\ [SocketNext]_socketVars =>
        [\A c \in Current :
           fd[c] = "open" /\ fd'[c] = "dropped" /\ life = "up" /\ life' = "up"
             => faulty[c]]_socketVars
  BY SocketDrops
<1>2. SocketSpec => []WholeAndInOrder
  BY SocketInvariant, SocketWhole, PTL
<1>3. SocketSpec => StaysInSync
  BY <1>1, SocketInvariant, PTL DEF SocketSpec, StaysInSync
<1> QED BY <1>2, <1>3 DEF SocketInSync

-----------------------------------------------------------------------------
(* The four of them together *)

\* Each part of the composition keeps its invariant, whichever of them moves.
ChannelsInv == SocketInv /\ QueueInv /\ MixerInv /\ RingInv

\* A step of the composition is a step of every part, of one of them and stuttering
\* of the others.
LEMMA ChannelsSteps ==
  ASSUME [ChannelsNext]_channelVars
  PROVE  /\ [SocketNext]_socketVars /\ [QueueNext]_queueVars
         /\ [MixerNext]_mixerVars /\ [RingNext]_ringVars
BY DEF ChannelsNext, channelVars, OfSocket, OfQueue, OfMixer, OfRing

\* The composition keeps the invariants of its parts.
THEOREM ChannelsInvariant == ChannelsSpec => []ChannelsInv
<1>1. ChannelsInit => ChannelsInv
  BY SocketInitInv, QueueInitInv, MixerInitInv, RingInitInv DEF ChannelsInit, ChannelsInv
<1>2. ChannelsInv /\ [ChannelsNext]_channelVars => ChannelsInv'
  <2> SUFFICES ASSUME ChannelsInv, [ChannelsNext]_channelVars PROVE ChannelsInv'
    OBVIOUS
  <2>1. SocketInv /\ QueueInv /\ MixerInv /\ RingInv
    BY DEF ChannelsInv
  <2>2. /\ [SocketNext]_socketVars /\ [QueueNext]_queueVars
        /\ [MixerNext]_mixerVars /\ [RingNext]_ringVars
    BY ChannelsSteps
  <2>3. SocketInv'
    BY <2>1, <2>2, SocketStep
  <2>4. QueueInv'
    BY <2>1, <2>2, QueueTypeStep, QueueExactStep DEF QueueInv
  <2>5. MixerInv'
    BY <2>1, <2>2, MixerStep
  <2>6. RingInv'
    BY <2>1, <2>2, RingStep
  <2> QED BY <2>3, <2>4, <2>5, <2>6 DEF ChannelsInv
<1> QED BY <1>1, <1>2, PTL DEF ChannelsSpec

\* Every variable of socket, queue, mixer and ring keeps its type.
THEOREM ChannelsTypeCorrect == ChannelsSpec => []ChannelsTypeOK
<1>1. ChannelsInv => ChannelsTypeOK
  BY DEF ChannelsInv, ChannelsTypeOK, SocketInv, QueueInv, MixerInv, RingInv
<1> QED BY <1>1, ChannelsInvariant, PTL
=============================================================================
