------------------------------ MODULE CtlQueue ------------------------------
(***************************************************************************)
(* The command queue between the control socket's thread and the pump      *)
(* (platform/daemon/uf_ctl_server.hpp, class CtlQueue).                    *)
(*                                                                         *)
(* A full queue drops its oldest command: the producer moves the           *)
(* consumer's cursor.  A command is more than one machine word, so it is   *)
(* copied in two halves; each half holds the number of its command, in the *)
(* order they were pushed.                                                 *)
(***************************************************************************)
EXTENDS Naturals

CONSTANTS
  kCtlSlots, \* slots in the queue
  MaxPushes  \* bound on the commands pushed

ASSUME CtlSlotsAssumption == kCtlSlots \in Nat \ {0}
ASSUME PushesAssumption == MaxPushes \in Nat

VARIABLES
  qHead,   \* head_
  qTail,   \* tail_
  dropped, \* dropped_
  qSlot,   \* slot_: index -> the two halves of the command in it
  push,    \* the socket thread inside push: where, and the tail it loaded
  pop,     \* the pump inside pop: where, the tail it loaded, its copy
  taken    \* history: the command pop returned last

queueVars == <<qHead, qTail, dropped, qSlot, push, pop, taken>>

Halves == {1, 2}
CtlIndex(cursor) == cursor % kCtlSlots
Whole(n) == [h \in Halves |-> n]

QueueInit ==
  /\ qHead = 0 /\ qTail = 0 /\ dropped = 0
  /\ qSlot = [i \in 0..(kCtlSlots - 1) |-> Whole(0)]
  /\ push = [at |-> "idle", t |-> 0, todo |-> {}]
  /\ pop = [at |-> "idle", t |-> 0, todo |-> {}, out |-> Whole(0)]
  /\ taken = Whole(0)

-----------------------------------------------------------------------------
\* push: load both cursors; full or not is decided here.
PushLoad ==
  /\ push.at = "idle" /\ qHead < MaxPushes
  /\ push' = [at |-> IF qHead - qTail >= kCtlSlots THEN "drop" ELSE "store",
              t |-> qTail, todo |-> Halves]
  /\ UNCHANGED <<qHead, qTail, dropped, qSlot, pop, taken>>

\* Full: drop the oldest by advancing the consumer.
PushDrop ==
  /\ push.at = "drop"
  /\ qTail' = push.t + 1
  /\ dropped' = dropped + 1
  /\ push' = [push EXCEPT !.at = "store"]
  /\ UNCHANGED <<qHead, qSlot, pop, taken>>

\* Store the command, a half at a time.
PushStore(h) ==
  /\ push.at = "store" /\ h \in push.todo
  /\ qSlot' = [qSlot EXCEPT ![CtlIndex(qHead)][h] = qHead + 1]
  /\ push' = [push EXCEPT !.todo = @ \ {h}]
  /\ UNCHANGED <<dropped, qHead, qTail, pop, taken>>

\* Mutation: head moves before the command is all there.
PushPublish_Early ==
  /\ push.at = "store"
  /\ qHead' = qHead + 1
  /\ push' = [push EXCEPT !.at = "idle"]
  /\ UNCHANGED <<qTail, dropped, qSlot, pop, taken>>

\* Publish it.
PushPublish ==
  /\ push.at = "store" /\ push.todo = {}
  /\ qHead' = qHead + 1
  /\ push' = [push EXCEPT !.at = "idle"]
  /\ UNCHANGED <<qTail, dropped, qSlot, pop, taken>>

-----------------------------------------------------------------------------
\* pop: load tail ...
PopLoad ==
  /\ pop.at = "idle"
  /\ pop' = [pop EXCEPT !.at = "check", !.t = qTail]
  /\ UNCHANGED <<qHead, qTail, dropped, qSlot, push, taken>>

\* Mutation: one command left looks like none.
PopCheck_OneShort ==
  /\ pop.at = "check"
  /\ pop' = IF pop.t + 1 >= qHead
              THEN [pop EXCEPT !.at = "idle"]
              ELSE [pop EXCEPT !.at = "copy", !.todo = Halves]
  /\ UNCHANGED <<qHead, qTail, dropped, qSlot, push, taken>>

\* ... and compare it with head.
PopCheck ==
  /\ pop.at = "check"
  /\ pop' = IF pop.t = qHead
              THEN [pop EXCEPT !.at = "idle"]
              ELSE [pop EXCEPT !.at = "copy", !.todo = Halves]
  /\ UNCHANGED <<qHead, qTail, dropped, qSlot, push, taken>>

\* Copy the command, a half at a time.
PopCopy(h) ==
  /\ pop.at = "copy" /\ h \in pop.todo
  /\ pop' = [pop EXCEPT !.out[h] = qSlot[CtlIndex(pop.t)][h], !.todo = @ \ {h}]
  /\ UNCHANGED <<qHead, qTail, dropped, qSlot, push, taken>>

\* Hand the slot back and the command to the pump.
PopCommit ==
  /\ pop.at = "copy" /\ pop.todo = {}
  /\ qTail' = pop.t + 1
  /\ taken' = pop.out
  /\ pop' = [pop EXCEPT !.at = "idle"]
  /\ UNCHANGED <<qHead, dropped, qSlot, push>>

Pusher == PushLoad \/ PushDrop \/ PushPublish \/ \E h \in Halves : PushStore(h)
Pop == PopLoad \/ PopCheck \/ PopCommit \/ \E h \in Halves : PopCopy(h)
QueueNext == Pusher \/ Pop

\* A push that was begun ends, and the pump pops every tick.
QueueFairness ==
  /\ WF_queueVars(PushDrop \/ PushPublish \/ \E h \in Halves : PushStore(h))
  /\ WF_queueVars(Pop)

QueueSpec == QueueInit /\ [][QueueNext]_queueVars /\ QueueFairness

-----------------------------------------------------------------------------
Command == [Halves -> 0..MaxPushes]

QueueTypeOK ==
  /\ qHead \in 0..MaxPushes /\ qTail \in Nat /\ dropped \in Nat
  /\ qSlot \in [0..(kCtlSlots - 1) -> Command]
  /\ push \in [at: {"idle", "drop", "store"}, t: Nat, todo: SUBSET Halves]
  /\ pop \in [at: {"idle", "check", "copy"}, t: Nat, todo: SUBSET Halves,
              out: Command]
  /\ taken \in Command

\* As long as no push has found the queue full it delivers every command, whole
\* and in order, though the two threads share its slots without a lock.
DeliversEvery ==
  [][taken' # taken /\ dropped = 0 => taken' = Whole(taken[1] + 1)]_queueVars

\* The comment's promise for a full queue: the oldest commands are missing, and
\* what is delivered is still whole, in order and never repeated.
DropsOnlyTheOldest ==
  [][taken' # taken => taken' = Whole(taken'[1]) /\ taken'[1] > taken[1]]_queueVars

\* The pump never stops short of the newest command, overruns or not: a command
\* is delivered whole, or a newer one is pushed, and whatever was delivered out
\* of turn before it, nothing older follows it.
NewestLands ==
  <>[](qHead = 0 \/ taken = Whole(qHead))
=============================================================================
