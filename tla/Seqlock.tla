------------------------------- MODULE Seqlock ------------------------------
(***************************************************************************)
(* The seqlock the project uses three times, between one writer and        *)
(* readers that never block it: the clock anchor in the capture ring       *)
(* (uf_shm_ring.hpp: publishTimestamp, readTimestamp), the published state *)
(* (uf_state_shm.hpp: publish, read) and the dext's interrupt status page  *)
(* (uf_iso_completion in the dext, status_read in the daemon).             *)
(*                                                                         *)
(* Payload words are stored and loaded one at a time in any order; the     *)
(* fences in the code only order them against the two accesses of the      *)
(* sequence number.  A word holds the number of the publication that wrote *)
(* it.  Readers do not interact, so there is one.                          *)
(***************************************************************************)
EXTENDS Naturals

CONSTANTS
  Words,          \* the payload words
  NeverIsAnswer,  \* TRUE when a read before the first publication succeeds
  MaxWrites       \* bound on publications

ASSUME WordsAssumption == Words # {} /\ NeverIsAnswer \in BOOLEAN
ASSUME MaxWritesAssumption == MaxWrites \in Nat

VARIABLES
  seq,      \* the sequence number: odd while a publication is in progress
  word,     \* the payload in shared memory
  toStore,  \* words the writer has still to store in this publication
  reading,  \* the reader is between its two loads of seq
  seen,     \* its first load of seq
  toLoad,   \* words it has still to copy
  copy,     \* its private copy
  accepted  \* history: publication number of the last accepted read

writerVars == <<seq, word, toStore>>
readerVars == <<reading, seen, toLoad, copy, accepted>>
seqlockVars == <<writerVars, readerVars>>

SeqlockInit ==
  /\ seq = 0
  /\ word = [w \in Words |-> 0]
  /\ toStore = {}
  /\ reading = FALSE
  /\ seen = 0
  /\ toLoad = {}
  /\ copy = [w \in Words |-> 0]
  /\ accepted = 0

Odd(n) == n % 2 = 1

-----------------------------------------------------------------------------
\* The writer marks the payload unstable ...
BeginPublish ==
  /\ ~Odd(seq) /\ seq < 2 * MaxWrites
  /\ seq' = seq + 1
  /\ toStore' = Words
  /\ UNCHANGED <<word, readerVars>>

\* ... stores its words ...
StoreWord(w) ==
  /\ Odd(seq) /\ w \in toStore
  /\ word' = [word EXCEPT ![w] = (seq + 1) \div 2]
  /\ toStore' = toStore \ {w}
  /\ UNCHANGED <<seq, readerVars>>

\* Mutation: the sequence number stays odd.
EndPublish_StaysOdd ==
  /\ Odd(seq) /\ toStore = {}
  /\ seq' = seq + 2
  /\ UNCHANGED <<word, toStore, readerVars>>

\* ... and marks it stable.
EndPublish ==
  /\ Odd(seq) /\ toStore = {}
  /\ seq' = seq + 1
  /\ UNCHANGED <<word, toStore, readerVars>>

-----------------------------------------------------------------------------
\* Mutation: the first load accepts an odd sequence number.
BeginRead_AcceptsOdd ==
  /\ ~reading
  /\ seq = 0 => NeverIsAnswer
  /\ seen' = seq
  /\ reading' = TRUE
  /\ toLoad' = Words
  /\ UNCHANGED <<writerVars, copy, accepted>>

\* First load of seq: give up at once on an odd one (and, where the code says
\* so, before the first publication).
BeginRead ==
  /\ ~reading
  /\ ~Odd(seq) /\ (seq = 0 => NeverIsAnswer)
  /\ seen' = seq
  /\ reading' = TRUE
  /\ toLoad' = Words
  /\ UNCHANGED <<writerVars, copy, accepted>>

\* One payload word is copied.
LoadWord(w) ==
  /\ reading /\ w \in toLoad
  /\ copy' = [copy EXCEPT ![w] = word[w]]
  /\ toLoad' = toLoad \ {w}
  /\ UNCHANGED <<writerVars, reading, seen, accepted>>

\* Second load of seq: unchanged, so the copy is handed to the caller.
AcceptRead ==
  /\ reading /\ toLoad = {}
  /\ seq = seen
  /\ reading' = FALSE
  /\ accepted' = seen \div 2
  /\ UNCHANGED <<writerVars, seen, toLoad, copy>>

\* Second load of seq: moved, so the read is torn and the caller retries.
RejectRead ==
  /\ reading /\ toLoad = {}
  /\ seq # seen
  /\ reading' = FALSE
  /\ UNCHANGED <<writerVars, seen, toLoad, copy, accepted>>

SeqlockNext ==
  \/ BeginPublish \/ EndPublish \/ \E w \in Words : StoreWord(w)
  \/ BeginRead \/ AcceptRead \/ RejectRead \/ \E w \in Words : LoadWord(w)

SeqlockSpec == SeqlockInit /\ [][SeqlockNext]_seqlockVars

-----------------------------------------------------------------------------
SeqlockTypeOK ==
  /\ seq \in 0..(2 * MaxWrites)
  /\ word \in [Words -> Nat]
  /\ toStore \in SUBSET Words
  /\ reading \in BOOLEAN
  /\ seen \in Nat
  /\ toLoad \in SUBSET Words
  /\ copy \in [Words -> Nat]
  /\ accepted \in Nat

\* A read that is accepted returns one publication, whole: every word of the
\* copy was stored by the publication the reader saw, though the writer may
\* have started others between the copies (readTimestamp, state::read and
\* status_read all hand the copy to their caller on this condition).
AcceptedIsWhole ==
  [][AcceptRead => \A w \in Words : copy[w] = accepted']_seqlockVars

\* A reader never goes back in time: what it accepts is no older than what it
\* accepted before, which is what lets the clock trust successive anchors.
NeverOlder == [][accepted' >= accepted]_seqlockVars

\* What the readers of the anchor, the published state and the status page may
\* rely on: whole publications, in order.
ReadsHold == AcceptedIsWhole /\ NeverOlder
=============================================================================
