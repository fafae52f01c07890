---------------------------- MODULE SeqlockProofs ---------------------------
(***************************************************************************)
(* The seqlock proved for any payload and any number of publications.      *)
(***************************************************************************)
EXTENDS Seqlock, TLAPS

\* While seq is even the payload is whole; while it is odd the words stored
\* so far belong to the publication in progress.
PayloadInv ==
  /\ ~Odd(seq) => \A w \in Words : word[w] = seq \div 2
  /\ Odd(seq) => \A w \in Words \ toStore : word[w] = (seq + 1) \div 2

\* A reader's first load is even and in the past, and if seq has not moved
\* since, every word it has copied is of that publication.
ReaderInv ==
  /\ ~Odd(seen) /\ seen <= seq /\ accepted <= seen \div 2
  /\ reading /\ seq = seen => \A w \in Words \ toLoad : copy[w] = seen \div 2

\* The inductive invariant of the seqlock.
SeqlockInv == SeqlockTypeOK /\ PayloadInv /\ ReaderInv

-----------------------------------------------------------------------------
\* The seqlock starts in the invariant.
LEMMA SeqlockInitially == SeqlockInit => SeqlockInv
<1> SUFFICES ASSUME SeqlockInit PROVE SeqlockInv
  OBVIOUS
<1>1. SeqlockTypeOK
  <2>1. seq \in 0..(2 * MaxWrites)
    BY MaxWritesAssumption DEF SeqlockInit
  <2>2. reading \in BOOLEAN
    BY Zenon DEF SeqlockInit
  <2>3. /\ word \in [Words -> Nat] /\ copy \in [Words -> Nat]
        /\ seen \in Nat /\ accepted \in Nat
        /\ toStore \in SUBSET Words /\ toLoad \in SUBSET Words
    BY DEF SeqlockInit
  <2> QED BY <2>1, <2>2, <2>3, Zenon DEF SeqlockTypeOK
<1>2. PayloadInv
  BY DEF SeqlockInit, PayloadInv, Odd
<1>3. ReaderInv
  BY DEF SeqlockInit, ReaderInv, Odd
<1> QED BY <1>1, <1>2, <1>3 DEF SeqlockInv

\* Every step of the writer and the reader keeps the invariant.
LEMMA SeqlockStep == SeqlockInv /\ [SeqlockNext]_seqlockVars => SeqlockInv'
<1> SUFFICES ASSUME SeqlockInv, [SeqlockNext]_seqlockVars PROVE SeqlockInv'
  OBVIOUS
<1> USE MaxWritesAssumption DEF SeqlockInv, writerVars, readerVars
<1>t. SeqlockTypeOK /\ PayloadInv /\ ReaderInv /\ seq \in Nat
  BY DEF SeqlockTypeOK
<1>1. CASE BeginPublish
  <2>1. SeqlockTypeOK'
    BY <1>1, <1>t DEF BeginPublish, SeqlockTypeOK
  <2>2. PayloadInv'
    BY <1>1, <1>t DEF BeginPublish, SeqlockTypeOK, PayloadInv, Odd
  <2>3. ReaderInv'
    BY <1>1, <1>t DEF BeginPublish, SeqlockTypeOK, ReaderInv, Odd
  <2> QED BY <2>1, <2>2, <2>3
<1>2. ASSUME NEW w \in Words, StoreWord(w) PROVE SeqlockInv'
  <2>1. SeqlockTypeOK'
    BY <1>2, <1>t DEF StoreWord, SeqlockTypeOK
  <2>2. PayloadInv'
    BY <1>2, <1>t DEF StoreWord, SeqlockTypeOK, PayloadInv, Odd
  <2>3. ReaderInv'
    BY <1>2, <1>t DEF StoreWord, SeqlockTypeOK, ReaderInv, Odd
  <2> QED BY <2>1, <2>2, <2>3
<1>3. CASE EndPublish
  <2>1. SeqlockTypeOK'
    BY <1>3, <1>t DEF EndPublish, SeqlockTypeOK, Odd
  <2>2. PayloadInv'
    BY <1>3, <1>t DEF EndPublish, SeqlockTypeOK, PayloadInv, Odd
  <2>3. ReaderInv'
    BY <1>3, <1>t DEF EndPublish, SeqlockTypeOK, ReaderInv, Odd
  <2> QED BY <2>1, <2>2, <2>3
<1>4. CASE BeginRead
  <2>1. SeqlockTypeOK'
    BY <1>4, <1>t DEF BeginRead, SeqlockTypeOK
  <2>2. PayloadInv'
    BY <1>4, <1>t DEF BeginRead, PayloadInv, Odd
  <2>3. ReaderInv'
    BY <1>4, <1>t DEF BeginRead, SeqlockTypeOK, ReaderInv, Odd
  <2> QED BY <2>1, <2>2, <2>3
<1>5. ASSUME NEW w \in Words, LoadWord(w) PROVE SeqlockInv'
  <2>1. SeqlockTypeOK'
    BY <1>5, <1>t DEF LoadWord, SeqlockTypeOK
  <2>2. PayloadInv'
    BY <1>5, <1>t DEF LoadWord, PayloadInv, Odd
  <2>3. ReaderInv'
    BY <1>5, <1>t DEF LoadWord, SeqlockTypeOK, PayloadInv, ReaderInv, Odd
  <2> QED BY <2>1, <2>2, <2>3
<1>6. CASE AcceptRead
  <2>1. SeqlockTypeOK'
    <3>1. seen \div 2 \in Nat
      BY <1>t DEF SeqlockTypeOK
    <3> QED BY <3>1, <1>6, <1>t, Zenon DEF AcceptRead, SeqlockTypeOK
  <2>2. PayloadInv'
    BY <1>6, <1>t DEF AcceptRead, PayloadInv, Odd
  <2>3. ReaderInv'
    BY <1>6, <1>t DEF AcceptRead, SeqlockTypeOK, ReaderInv, Odd
  <2> QED BY <2>1, <2>2, <2>3
<1>7. CASE RejectRead
  <2>1. SeqlockTypeOK'
    BY <1>7, <1>t DEF RejectRead, SeqlockTypeOK
  <2>2. PayloadInv'
    BY <1>7, <1>t DEF RejectRead, PayloadInv, Odd
  <2>3. ReaderInv'
    BY <1>7, <1>t DEF RejectRead, SeqlockTypeOK, ReaderInv, Odd
  <2> QED BY <2>1, <2>2, <2>3
<1>8. CASE UNCHANGED seqlockVars
  BY <1>8, <1>t DEF seqlockVars, SeqlockTypeOK, PayloadInv, ReaderInv, Odd
<1> QED BY <1>1, <1>2, <1>3, <1>4, <1>5, <1>6, <1>7, <1>8 DEF SeqlockNext

\* The writer and the reader keep the seqlock's inductive invariant.
THEOREM SeqlockInvariant == SeqlockSpec => []SeqlockInv
BY SeqlockInitially, SeqlockStep, PTL DEF SeqlockSpec

\* Every variable of the seqlock keeps its type.
THEOREM SeqlockTypeCorrect == SeqlockSpec => []SeqlockTypeOK
BY SeqlockInvariant, PTL DEF SeqlockInv

\* readTimestamp, state::read and status_read never hand over a mixture of two
\* publications, whatever the payload's size.
THEOREM SeqlockWhole == SeqlockSpec => AcceptedIsWhole
<1>1. SeqlockInv /\ [SeqlockNext]_seqlockVars
        => [AcceptRead => \A w \in Words : copy[w] = accepted']_seqlockVars
  BY DEF SeqlockInv, ReaderInv, AcceptRead
<1> QED BY <1>1, SeqlockInvariant, PTL DEF SeqlockSpec, AcceptedIsWhole

\* A reader never accepts an older publication than it did before.
THEOREM SeqlockNeverOlder == SeqlockSpec => NeverOlder
<1>1. SeqlockInv /\ [SeqlockNext]_seqlockVars => [accepted' >= accepted]_seqlockVars
  <2> SUFFICES ASSUME SeqlockInv, [SeqlockNext]_seqlockVars PROVE accepted' >= accepted
    OBVIOUS
  <2>1. accepted \in Nat /\ accepted <= seen \div 2
    BY DEF SeqlockInv, SeqlockTypeOK, ReaderInv
  <2>2. accepted' = accepted \/ accepted' = seen \div 2
    BY DEF SeqlockNext, seqlockVars, readerVars, BeginPublish, StoreWord, EndPublish,
           BeginRead, LoadWord, AcceptRead, RejectRead
  <2> QED BY <2>1, <2>2
<1> QED BY <1>1, SeqlockInvariant, PTL DEF SeqlockSpec, NeverOlder

\* The readers of all three seqlocks get whole publications, in order.
THEOREM SeqlockReadsHold == SeqlockSpec => ReadsHold
BY SeqlockWhole, SeqlockNeverOlder, PTL DEF ReadsHold
=============================================================================
