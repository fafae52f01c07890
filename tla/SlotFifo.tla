------------------------------ MODULE SlotFifo ------------------------------
(***************************************************************************)
(* What the audio ring promises the daemon and the plugin: a bounded FIFO  *)
(* of whole slots.  A slot enters complete, leaves in order, and nothing   *)
(* in between changes it.                                                  *)
(***************************************************************************)
EXTENDS Naturals, Sequences

CONSTANTS Capacity, SlotValues

VARIABLE queue

Init == queue = <<>>

\* A whole slot is appended when there is room.
Put(v) == Len(queue) < Capacity /\ queue' = Append(queue, v)

\* The oldest slot is removed.
Get == queue # <<>> /\ queue' = Tail(queue)

Next == Get \/ \E v \in SlotValues : Put(v)

Spec == Init /\ [][Next]_queue
=============================================================================
