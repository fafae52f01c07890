------------------------------ MODULE AudioRing -----------------------------
(***************************************************************************)
(* The shared-memory slot ring of platform/shared/uf_shm_ring.hpp with the *)
(* loops that use it on both sides: frames are written into a claimed slot *)
(* one by one and the slot is committed when full (capture decode in the   *)
(* pump, UFIOHandler::flushStageToRing in the plugin); the consumer reads  *)
(* a claimed slot frame by frame and commits it when spent (TxFill::frame  *)
(* in the pump, UFIOHandler::fillStageFromRing in the plugin).             *)
(*                                                                         *)
(* Producer and consumer are different processes; each step below touches  *)
(* shared memory once.  Frames are numbered in the order they are offered. *)
(* The overrun and underrun counters are telemetry and left out.           *)
(***************************************************************************)
EXTENDS Naturals, Sequences

CONSTANTS
  kSlots,          \* slots in the ring
  kFramesPerSlot,  \* frames in a slot
  MaxFrames,       \* bound on the frames offered
  MaxAbandons,     \* bound on session restarts seen by the producer's side
  MaxResets        \* bound on session restarts seen by the consumer's side

ASSUME SlotsAssumption  == kSlots \in Nat \ {0}
ASSUME FramesAssumption == kFramesPerSlot \in Nat \ {0}
ASSUME RingBoundsAssumption ==
  MaxFrames \in Nat /\ MaxAbandons \in Nat /\ MaxResets \in Nat

VARIABLES
  head,      \* producer cursor: slots committed
  tail,      \* consumer cursor: slots handed back
  slot,      \* index -> the frames in it
  offered,   \* frames offered so far; the next frame's number is offered + 1
  wr,        \* producer: is a slot held (capSlot, wrSlot_), frames in it
  rd,        \* consumer: is a slot held (slot_, rdSlot_), position in it
  dryPacket, \* TxFill: the acquire of this packet already missed
  last,      \* history: number of the frame played last
  restarts   \* session restarts left on either side

ringVars == <<head, tail, slot, offered, wr, rd, dryPacket, last, restarts>>

Index(cursor) == cursor % kSlots
Positions == 0..(kFramesPerSlot - 1)
SlotValue == [Positions -> 0..MaxFrames]

RingInit ==
  /\ head = 0 /\ tail = 0
  /\ slot = [i \in 0..(kSlots - 1) |-> [p \in Positions |-> 0]]
  /\ offered = 0
  /\ wr = [held |-> FALSE, frame |-> 0]
  /\ rd = [held |-> FALSE, pos |-> 0]
  /\ dryPacket = FALSE
  /\ last = 0
  /\ restarts = [write |-> MaxAbandons, read |-> MaxResets]

-----------------------------------------------------------------------------
(* Producer *)

\* Mutation: one slot too many may be claimed.
AcquireWrite_OffByOne ==
  /\ ~wr.held /\ offered < MaxFrames
  /\ head - tail <= kSlots
  /\ wr' = [held |-> TRUE, frame |-> 0]
  /\ UNCHANGED <<head, tail, slot, offered, rd, dryPacket, last, restarts>>

\* acquireWrite: claim the slot at head unless the consumer is a lap behind.
AcquireWrite ==
  /\ ~wr.held /\ offered < MaxFrames
  /\ head - tail < kSlots
  /\ wr' = [held |-> TRUE, frame |-> 0]
  /\ UNCHANGED <<head, tail, slot, offered, rd, dryPacket, last, restarts>>

\* acquireWrite finds the ring full: the frame is dropped.
DropFrame ==
  /\ ~wr.held /\ offered < MaxFrames
  /\ head - tail >= kSlots
  /\ offered' = offered + 1
  /\ UNCHANGED <<head, tail, slot, wr, rd, dryPacket, last, restarts>>

\* Mutation: a full slot is not noticed.
PutFrame_Unbounded ==
  /\ wr.held /\ offered < MaxFrames
  /\ offered' = offered + 1
  /\ slot' = [slot EXCEPT ![Index(head)][wr.frame] = offered + 1]
  /\ wr' = [wr EXCEPT !.frame = @ + 1]
  /\ UNCHANGED <<head, tail, rd, dryPacket, last, restarts>>

\* A frame is copied into the held slot.
PutFrame ==
  /\ wr.held /\ wr.frame < kFramesPerSlot /\ offered < MaxFrames
  /\ offered' = offered + 1
  /\ slot' = [slot EXCEPT ![Index(head)][wr.frame] = offered + 1]
  /\ wr' = [wr EXCEPT !.frame = @ + 1]
  /\ UNCHANGED <<head, tail, rd, dryPacket, last, restarts>>

\* commitWrite: the slot is full.
CommitWrite ==
  /\ wr.held /\ wr.frame >= kFramesPerSlot
  /\ head' = head + 1
  /\ wr' = [held |-> FALSE, frame |-> 0]
  /\ UNCHANGED <<tail, slot, offered, rd, dryPacket, last, restarts>>

\* restart_session forgets the capture slot it was filling.
AbandonWrite ==
  /\ restarts.write > 0
  /\ restarts' = [restarts EXCEPT !.write = @ - 1]
  /\ wr' = [held |-> FALSE, frame |-> 0]
  /\ UNCHANGED <<head, tail, slot, offered, rd, dryPacket, last>>

-----------------------------------------------------------------------------
(* Consumer *)

\* Mutation: the slot is let go but not handed back.
CommitRead_KeepsTail ==
  /\ rd.held /\ rd.pos >= kFramesPerSlot
  /\ rd' = [held |-> FALSE, pos |-> 0]
  /\ UNCHANGED <<head, tail, slot, offered, wr, dryPacket, last, restarts>>

\* commitRead: every frame of the held slot was used.
CommitRead ==
  /\ rd.held /\ rd.pos >= kFramesPerSlot
  /\ tail' = tail + 1
  /\ rd' = [held |-> FALSE, pos |-> 0]
  /\ UNCHANGED <<head, slot, offered, wr, dryPacket, last, restarts>>

\* acquireRead: claim the slot at tail if there is one.
AcquireRead ==
  /\ ~rd.held /\ ~dryPacket
  /\ tail # head
  /\ rd' = [held |-> TRUE, pos |-> 0]
  /\ UNCHANGED <<head, tail, slot, offered, wr, dryPacket, last, restarts>>

\* acquireRead finds the ring empty: the rest of this packet is held frames.
MissRead ==
  /\ ~rd.held /\ ~dryPacket
  /\ tail = head
  /\ dryPacket' = TRUE
  /\ UNCHANGED <<head, tail, slot, offered, wr, rd, last, restarts>>

\* Mutation: the acquire attempt is never re-armed.
BeginPacket_StaysDry == dryPacket /\ UNCHANGED ringVars

\* beginPacket re-arms the single acquire attempt.
BeginPacket ==
  /\ dryPacket
  /\ dryPacket' = FALSE
  /\ UNCHANGED <<head, tail, slot, offered, wr, rd, last, restarts>>

\* A frame of the held slot is played.
TakeFrame ==
  /\ rd.held /\ rd.pos < kFramesPerSlot
  /\ last' = slot[Index(tail)][rd.pos]
  /\ rd' = [rd EXCEPT !.pos = @ + 1]
  /\ UNCHANGED <<head, tail, slot, offered, wr, dryPacket, restarts>>

\* restart_session calls txSrc.reset(): the slot is dropped, not committed.
ResetRead ==
  /\ restarts.read > 0
  /\ restarts' = [restarts EXCEPT !.read = @ - 1]
  /\ rd' = [held |-> FALSE, pos |-> 0]
  /\ dryPacket' = FALSE
  /\ UNCHANGED <<head, tail, slot, offered, wr, last>>

-----------------------------------------------------------------------------
Producer == AcquireWrite \/ DropFrame \/ PutFrame \/ CommitWrite
Consumer == CommitRead \/ AcquireRead \/ MissRead \/ BeginPacket \/ TakeFrame

RingNext == Producer \/ Consumer \/ AbandonWrite \/ ResetRead

\* The consumer is paced by the bus and never stops asking; a producer that
\* has filled a slot commits it in the same loop iteration.
RingFairness == WF_ringVars(Consumer) /\ WF_ringVars(CommitWrite)

RingSpec == RingInit /\ [][RingNext]_ringVars /\ RingFairness

-----------------------------------------------------------------------------
RingTypeOK ==
  /\ head \in Nat /\ tail \in Nat
  /\ slot \in [0..(kSlots - 1) -> SlotValue]
  /\ offered \in 0..MaxFrames /\ last \in 0..MaxFrames
  /\ wr \in [held: BOOLEAN, frame: 0..kFramesPerSlot]
  /\ rd \in [held: BOOLEAN, pos: 0..kFramesPerSlot]
  /\ dryPacket \in BOOLEAN
  /\ restarts \in [write: Nat, read: Nat]

\* The ring never holds more than kSlots slots, and the slot the producer is
\* writing is never the one the consumer is reading, however far the two
\* processes drift apart and however often either drops a slot it held.
NoSharedSlot ==
  /\ tail <= head /\ head - tail <= kSlots
  /\ wr.held /\ rd.held => Index(head) # Index(tail)

\* The committed slots, oldest first.
Queue == [i \in 1..(head - tail) |-> slot[Index(tail + i - 1)]]

\* The ring implements a bounded FIFO of whole slots.
Fifo == INSTANCE SlotFifo WITH Capacity <- kSlots, SlotValues <- SlotValue,
                               queue <- Queue

\* The abstract FIFO's specification: no committed slot is lost, reordered or
\* written to while it waits to be read.
ImplementsFifo == Fifo!Spec

\* Play never goes back to a frame before the one played last, through laps, misses
\* and restarts of the producer.  A session restart drops the slot being played
\* without handing it back: from the first one on a step back is allowed, though
\* never by a whole slot.  (A frame played twice in a row is not told from one held.)
PlayedInOrder ==
  [][\/ last' >= last
     \/ restarts.read < MaxResets /\ last < last' + kFramesPerSlot]_ringVars

\* Every slot the producer committed is eventually played out and handed back.
EverySlotPlayed ==
  \A n \in 0..(MaxFrames \div kFramesPerSlot) : []<>(head > n => tail > n)
=============================================================================
