----------------------------- MODULE AsyncProofs ----------------------------
(***************************************************************************)
(* The asynchronous traffic proved correct: the dext's register            *)
(* transactions for any number of labels, attempts, transactions and       *)
(* faults, and MIDI for any size of the receive buffer, of a poll, of a    *)
(* request and of a message.                                               *)
(*                                                                         *)
(* The loop of MidiInPoll is reasoned about turn by turn: an invariant of  *)
(* the loop holds after every turn, and the loop has ended after as many   *)
(* turns as the buffer has quadlets.  The induction over the turns is done *)
(* with a set in place of a predicate, from the least turn that would      *)
(* violate it.                                                             *)
(***************************************************************************)
EXTENDS MCAsync, SequenceTheorems, WellFoundedInduction, TLAPS

\* While nobody has run into a transaction, the request block is its own, and what
\* is on the bus or at the head of the buffer under its label answers it; an ack
\* it polls for is its own, and its write has arrived.
Mine(c) ==
  /\ block.id = call[c].id /\ block.kind = call[c].kind /\ block.label = call[c].label
  /\ \A r \in bus : r.label = call[c].label => r.id = call[c].id
  /\ call[c].kind # "quadlet" /\ ar # Empty /\ ar.label = call[c].label
       => ar.id = call[c].id
  /\ call[c].pc = "poll" /\ status = "ack" /\ call[c].kind \in Writes
       => call[c].id \in reached

\* What a caller knows is true.
ResultTrue(c) ==
  call[c].ok /\ call[c].alone =>
    /\ call[c].kind = "read" => call[c].value = call[c].id
    /\ call[c].kind \in Writes => call[c].id \in reached

CallerInv(c) ==
  /\ made[c] <= serial
  /\ Busy(c) => ~call[c].ok /\ block # None
  /\ call[c].pc = "await" => call[c].kind \in Reads
  /\ Busy(c) /\ call[c].alone => Mine(c)
  /\ ResultTrue(c)

\* The inductive invariant of the transactions.
AsyncInv ==
  /\ TypeOK
  /\ pending => block # None
  /\ \A c \in Callers : CallerInv(c)
-----------------------------------------------------------------------------
\* The label after the last one is the first.
LEMMA NextLabelType ==
  ASSUME NEW label \in 0..(Labels - 1) PROVE NextLabel(label) \in 0..(Labels - 1)
BY TransactorAssumption DEF NextLabel

\* The numbers the steps below keep needing.
LEMMA AsyncFacts ==
  ASSUME TypeOK
  PROVE  /\ MaxCalls \in Nat /\ MaxFaults \in Nat /\ Labels \in Nat \ {0}
         /\ Attempts \in Nat \ {0}
         /\ call \in [Callers -> Calls] /\ serial \in Nat
         /\ \A c \in Callers : call[c] \in Calls /\ made[c] \in Nat
         /\ Idle \in Calls
<1>1. Idle \in Calls
  BY TransactorAssumption DEF Idle, Calls
<1> QED BY <1>1, TransactorAssumption DEF TypeOK

\* A caller that runs into others changes nothing of theirs but that.
LEMMA DisturbedKeeps ==
  ASSUME TypeOK, NEW c \in Callers
  PROVE  /\ Disturbed(c) \in [Callers -> Calls]
         /\ Disturbed(c)[c] = call[c]
         /\ \A d \in Callers \ {c} :
              /\ ~Busy(d) => Disturbed(c)[d] = call[d]
              /\ Busy(d) => Disturbed(c)[d] = [call[d] EXCEPT !.alone = FALSE]
<1> USE AsyncFacts
<1>1. \A d \in Callers : [call[d] EXCEPT !.alone = FALSE] \in Calls
  BY ZenonT(120) DEF Calls
<1> QED BY <1>1 DEF Disturbed

\* A caller that only others' steps concern keeps what it knows: its own request
\* block, unless it was run into, no response under its label but to that block, no
\* ack but to it.
LEMMA CallerKept ==
  ASSUME TypeOK, NEW d \in Callers, CallerInv(d),
         call'[d] = call[d] \/ (Busy(d) /\ call'[d] = [call[d] EXCEPT !.alone = FALSE]),
         made'[d] = made[d], serial' \in Nat, serial <= serial',
         reached \subseteq reached',
         block # None => block' # None,
         call'[d] = call[d] /\ Busy(d) /\ call[d].alone =>
           /\ block' = block
           /\ \/ ar' \in {ar, Empty} \cup bus
              \/ ar # Empty /\ ar'.label = ar.label /\ ar'.id = ar.id
           /\ \A r \in bus' : r \in bus \/ (r.label = block.label => r.id = block.id)
           /\ status' = "ack" => status = "ack" \/ (block.kind \in Writes => block.id \in reached')
  PROVE  CallerInv(d)'
<1> USE AsyncFacts
<1>f. call[d] \in Calls
  OBVIOUS
<1>1. CASE call'[d] = call[d]
  <2>1. CASE Busy(d) /\ call[d].alone
    <3>1. Mine(d)
      BY <2>1 DEF CallerInv
    <3>2. Mine(d)'
      BY <1>1, <2>1, <3>1 DEF Mine
    <3> QED BY <1>1, <2>1, <3>2 DEF CallerInv, Busy, ResultTrue
  <2>2. CASE ~(Busy(d) /\ call[d].alone)
    BY <1>1, <2>2 DEF CallerInv, Busy, ResultTrue
  <2> QED BY <2>1, <2>2
<1>2. CASE Busy(d) /\ call'[d] = [call[d] EXCEPT !.alone = FALSE]
  <2>1. /\ call'[d].pc = call[d].pc /\ call'[d].ok = call[d].ok
        /\ call'[d].kind = call[d].kind /\ call'[d].alone = FALSE
    BY <1>2, <1>f DEF Calls
  <2> QED BY <1>2, <2>1 DEF CallerInv, Busy, ResultTrue
<1> QED BY <1>1, <1>2

-----------------------------------------------------------------------------
(* The callers *)

\* A transaction that begins undisturbed owns the block, its label and the buffer; one
\* that does not is not believed, and neither are those it ran into.
LEMMA BeginKeeps ==
  ASSUME AsyncInv, NEW c \in Callers, NEW kind \in Kind, Begin(c, kind),
         ar' = IF kind = "quadlet" THEN ar ELSE Empty
  PROVE  AsyncInv'
<1> USE AsyncFacts DEF AsyncInv
<1> DEFINE alone == Undisturbed(c)
           now == [pc |-> "run", kind |-> kind, id |-> serial', label |-> tlabel,
                   tries |-> 0, ok |-> FALSE, value |-> 0, alone |-> alone]
<1>0. alone \in BOOLEAN /\ (alone => \A r \in bus : r.label # tlabel)
  BY Zenon DEF Undisturbed
<1>1. /\ serial' = serial + 1 /\ serial' \in 1..MaxCalls
      /\ made' = [made EXCEPT ![c] = @ + 1]
      /\ tlabel \in 0..(Labels - 1) /\ tlabel' \in 0..(Labels - 1)
      /\ block' = [id |-> serial', kind |-> kind, label |-> tlabel]
      /\ UNCHANGED <<powered, found, pending, status, bus, reached, faults>>
  BY NextLabelType DEF Begin, TypeOK
<1>2. /\ block' \in [id: 1..MaxCalls, kind: Kind, label: 0..(Labels - 1)]
      /\ block'.id = serial' /\ block'.kind = kind /\ block'.label = tlabel
  BY <1>1
<1>3. block' # None
  BY <1>1 DEF None
<1>4. now \in Calls
  <2> HIDE DEF alone
  <2> QED BY <1>0, <1>1 DEF Calls
<1>5. call' = [Disturbed(c) EXCEPT ![c] = now]
  BY DEF Begin
<1>6. /\ call' \in [Callers -> Calls] /\ call'[c] = now
      /\ \A d \in Callers \ {c} :
           /\ ~Busy(d) => call'[d] = call[d]
           /\ Busy(d) => call'[d] = [call[d] EXCEPT !.alone = FALSE]
  <2> HIDE DEF now
  <2> QED BY <1>4, <1>5, DisturbedKeeps
<1>7. made' \in [Callers -> 0..MaxCalls] /\ \A d \in Callers : made'[d] <= serial'
  BY <1>1 DEF TypeOK, CallerInv
<1>8. TypeOK'
  <2>1. ar' \in {Empty} \cup Packets
    BY DEF TypeOK
  <2> HIDE DEF now, alone
  <2> QED BY <2>1, <1>1, <1>2, <1>6, <1>7 DEF TypeOK
<1>9. CallerInv(c)'
  <2> HIDE DEF alone
  <2>1. /\ call'[c].pc = "run" /\ call'[c].kind = kind /\ call'[c].id = serial'
        /\ call'[c].label = tlabel /\ call'[c].ok = FALSE /\ call'[c].alone = alone
    BY <1>6
  <2>2. alone => Mine(c)'
    BY <2>1, <1>0, <1>1, <1>2 DEF Mine
  <2> QED BY <2>1, <2>2, <1>3, <1>7 DEF CallerInv, ResultTrue, Busy
<1>10. ASSUME NEW d \in Callers \ {c} PROVE CallerInv(d)'
  <2>1. made'[d] = made[d]
    BY <1>1 DEF TypeOK
  <2>2. CallerInv(d) /\ serial <= serial' /\ serial' \in Nat
    BY <1>1
  <2>3. call'[d] = call[d] /\ Busy(d) => call[d].alone = FALSE
    BY <1>6 DEF Calls
  <2> HIDE DEF now, alone, AsyncInv
  <2> QED BY <2>1, <2>2, <2>3, <1>1, <1>3, <1>6, CallerKept DEF AsyncInv
<1> QED BY <1>3, <1>8, <1>9, <1>10

\* uf_at_run starts the context on the caller's own block, with no ack yet.
LEMMA RunKeeps == ASSUME AsyncInv, NEW c \in Callers, Run(c) PROVE AsyncInv'
<1> USE AsyncFacts DEF AsyncInv
<1>1. /\ call[c].pc = "run" /\ status' = "none" /\ pending' = powered
      /\ call' = [Disturbed(c) EXCEPT ![c].pc = "poll"]
      /\ UNCHANGED <<powered, found, tlabel, block, bus, ar, reached, serial, made, faults>>
  BY DEF Run
<1>2. /\ [call[c] EXCEPT !.pc = "poll"] \in Calls
      /\ [call[c] EXCEPT !.pc = "poll"].pc = "poll"
  BY DEF Calls
<1>3. /\ call' \in [Callers -> Calls] /\ call'[c] = [call[c] EXCEPT !.pc = "poll"]
      /\ \A d \in Callers \ {c} :
           /\ ~Busy(d) => call'[d] = call[d]
           /\ Busy(d) => call'[d] = [call[d] EXCEPT !.alone = FALSE]
  BY <1>1, <1>2, DisturbedKeeps
<1>4. TypeOK'
  BY <1>1, <1>3 DEF TypeOK
<1>5. Busy(c) /\ block # None
  BY <1>1 DEF Busy, CallerInv
<1>6. CallerInv(c)'
  <2>1. /\ call'[c].pc = "poll" /\ call'[c].kind = call[c].kind /\ call'[c].id = call[c].id
        /\ call'[c].label = call[c].label /\ call'[c].ok = call[c].ok
        /\ call'[c].alone = call[c].alone
    BY <1>3 DEF Calls
  <2>2. call[c].alone => Mine(c)'
    BY <2>1, <1>1, <1>5 DEF Mine, CallerInv
  <2> QED BY <2>1, <2>2, <1>1, <1>5 DEF CallerInv, ResultTrue, Busy
<1>7. ASSUME NEW d \in Callers \ {c} PROVE CallerInv(d)'
  <2>1. call'[d] = call[d] /\ Busy(d) => call[d].alone = FALSE
    BY <1>3 DEF Calls
  <2>2. /\ TypeOK /\ CallerInv(d) /\ serial' \in Nat /\ serial <= serial'
        /\ made'[d] = made[d] /\ reached \subseteq reached' /\ block' = block
    BY <1>1
  <2> HIDE DEF AsyncInv
  <2> QED BY <2>1, <2>2, <1>3, CallerKept
<1> QED BY <1>1, <1>4, <1>5, <1>6, <1>7

\* A step that changes only its caller's transaction leaves the others as they are.
LEMMA OthersKept ==
  ASSUME AsyncInv, NEW c \in Callers,
         UNCHANGED <<block, bus, status, reached, serial, made>>, ar' \in {ar, Empty},
         \A d \in Callers \ {c} :
           \/ call'[d] = call[d]
           \/ Busy(d) /\ call'[d] = [call[d] EXCEPT !.alone = FALSE]
  PROVE  \A d \in Callers \ {c} : CallerInv(d)'
<1> SUFFICES ASSUME NEW d \in Callers \ {c} PROVE CallerInv(d)'
  OBVIOUS
<1>1. /\ TypeOK /\ CallerInv(d) /\ serial' \in Nat /\ serial <= serial'
      /\ made'[d] = made[d] /\ reached \subseteq reached' /\ block' = block
  BY AsyncFacts DEF AsyncInv
<1>2. \A r \in bus' : r \in bus
  OBVIOUS
<1>3. status' = "ack" => status = "ack"
  OBVIOUS
<1>4. ar' \in {ar, Empty}
  OBVIOUS
<1>5. call'[d] = call[d] \/ (Busy(d) /\ call'[d] = [call[d] EXCEPT !.alone = FALSE])
  OBVIOUS
<1> QED BY ONLY <1>1, <1>2, <1>3, <1>4, <1>5, CallerKept
\* A transaction that has ended badly is forgotten.
LEMMA FailedKeeps ==
  ASSUME AsyncInv, NEW c \in Callers, call' = Failed(c),
         UNCHANGED <<powered, found, tlabel, block, pending, status, bus, reached, serial,
                     made, faults>>,
         ar' \in {ar, Empty}
  PROVE  AsyncInv'
<1> USE AsyncFacts DEF AsyncInv
<1>1. /\ call' \in [Callers -> Calls] /\ call'[c] = Idle
      /\ \A d \in Callers \ {c} : call'[d] = call[d]
  BY DEF Failed
<1>2. TypeOK'
  BY <1>1 DEF TypeOK
<1>3. CallerInv(c)'
  BY <1>1 DEF CallerInv, Busy, ResultTrue, Idle
<1>4. \A d \in Callers \ {c} : CallerInv(d)'
  BY <1>1, OthersKept
<1> QED BY <1>2, <1>3, <1>4

\* A transaction that has ended well is remembered if nobody ran into it; its
\* result is what the transaction knows by then.
LEMMA SucceededKeeps ==
  ASSUME AsyncInv, NEW c \in Callers, NEW value \in 0..MaxCalls,
         call' = Succeeded(c, value),
         UNCHANGED <<powered, tlabel, block, pending, status, bus, ar, reached, serial,
                     made, faults>>,
         found' \in BOOLEAN,
         call[c].alone => /\ call[c].kind = "read" => value = call[c].id
                          /\ call[c].kind \in Writes => call[c].id \in reached
  PROVE  AsyncInv'
<1> USE AsyncFacts DEF AsyncInv
<1> DEFINE done == [call[c] EXCEPT !.pc = "idle", !.label = 0, !.tries = 0, !.ok = TRUE,
                                   !.value = value]
<1>1. /\ done \in Calls /\ done.pc = "idle" /\ done.kind = call[c].kind
      /\ done.id = call[c].id /\ done.value = value /\ done.alone = call[c].alone
  <2>1. call[c] \in Calls /\ 0 \in 0..(Labels - 1) /\ 0 \in 0..(Attempts - 1)
    OBVIOUS
  <2> QED BY ONLY <2>1, value \in 0..MaxCalls DEF Calls
<1>2. /\ call' \in [Callers -> Calls]
      /\ call'[c] = IF ~call[c].alone THEN Idle ELSE done
      /\ \A d \in Callers \ {c} : call'[d] = call[d]
  BY <1>1 DEF Succeeded
<1>3. TypeOK'
  BY <1>2 DEF TypeOK
<1>4. CallerInv(c)'
  <2>1. CASE ~call[c].alone
    BY <2>1, <1>2 DEF CallerInv, Busy, ResultTrue, Idle
  <2>2. CASE call[c].alone
    <3> HIDE DEF done
    <3>1. call'[c] = done
      BY <2>2, <1>2
    <3> QED BY <3>1, <2>2, <1>1 DEF CallerInv, Busy, ResultTrue
  <2> QED BY <2>1, <2>2
<1>5. \A d \in Callers \ {c} : CallerInv(d)'
  BY <1>2, OthersKept
<1> QED BY <1>3, <1>4, <1>5

\* An ack ends a write, and its write has arrived; it sends a read on to wait.
LEMMA PollAckedKeeps == ASSUME AsyncInv, NEW c \in Callers, PollAcked(c) PROVE AsyncInv'
<1> USE AsyncFacts DEF AsyncInv
<1>1. call[c].pc = "poll" /\ status = "ack" /\ Untouched /\ Busy(c)
  BY DEF PollAcked, Acked, Busy
<1>2. CASE call[c].kind \in Reads
  <2> DEFINE now == [call[c] EXCEPT !.pc = "await"]
  <2>1. /\ now \in Calls /\ now.pc = "await" /\ now.kind = call[c].kind
        /\ now.id = call[c].id /\ now.label = call[c].label /\ now.ok = call[c].ok
        /\ now.alone = call[c].alone
    BY DEF Calls
  <2>2. /\ call' \in [Callers -> Calls] /\ call'[c] = now
        /\ \A d \in Callers \ {c} : call'[d] = call[d]
    BY <1>2, <2>1 DEF PollAcked
  <2> HIDE DEF now
  <2>3. TypeOK'
    BY <2>2, <1>1 DEF TypeOK, Untouched
  <2>4. CallerInv(c)'
    <3>1. call[c].alone => Mine(c)'
      BY <1>1, <2>1, <2>2 DEF CallerInv, Mine, Untouched
    <3> QED BY <3>1, <1>1, <1>2, <2>1, <2>2 DEF CallerInv, Busy, ResultTrue, Untouched
  <2>5. \A d \in Callers \ {c} : CallerInv(d)'
    BY <2>2, <1>1, OthersKept DEF Untouched
  <2> QED BY <2>3, <2>4, <2>5, <1>1 DEF Untouched
<1>3. CASE call[c].kind \notin Reads
  <2>1. call' = Succeeded(c, 0) /\ 0 \in 0..MaxCalls
    BY <1>3 DEF PollAcked
  <2>2. call[c].alone => /\ call[c].kind = "read" => 0 = call[c].id
                         /\ call[c].kind \in Writes => call[c].id \in reached
    BY <1>1, <1>3 DEF CallerInv, Mine, Reads
  <2>3. /\ UNCHANGED <<powered, tlabel, block, pending, status, bus, ar, reached, serial,
                       made, faults>>
        /\ found' \in BOOLEAN
    BY <1>1 DEF Untouched, TypeOK
  <2> QED BY <2>1, <2>2, <2>3, SucceededKeeps
<1> QED BY <1>2, <1>3

\* Another attempt owns the same block and label and counts as one more.
LEMMA PollFailedKeeps == ASSUME AsyncInv, NEW c \in Callers, PollFailed(c) PROVE AsyncInv'
<1> USE AsyncFacts DEF AsyncInv
<1>1. /\ call[c].pc = "poll" /\ Busy(c) /\ ar' \in {ar, Empty}
      /\ UNCHANGED <<powered, found, tlabel, block, pending, status, bus, reached, serial,
                     made, faults>>
  BY DEF PollFailed, Busy, Rearmed
<1>2. CASE call' = Failed(c)
  BY <1>1, <1>2, FailedKeeps
<1>3. CASE call' # Failed(c)
  <2> DEFINE now == [call[c] EXCEPT !.pc = "run", !.tries = @ + 1]
  <2>1. /\ call[c].tries + 1 # Attempts
        /\ call' = [Disturbed(c) EXCEPT ![c].pc = "run", ![c].tries = @ + 1]
    BY <1>3 DEF PollFailed, Again
  <2>2. /\ now \in Calls /\ now.pc = "run" /\ now.kind = call[c].kind
        /\ now.id = call[c].id /\ now.label = call[c].label /\ now.ok = call[c].ok
        /\ now.alone = call[c].alone
    <3>1. call[c] \in Calls
      OBVIOUS
    <3>2. call[c].tries + 1 \in 0..(Attempts - 1)
      BY <2>1 DEF Calls
    <3> QED BY ONLY <3>1, <3>2 DEF Calls
  <2>3. /\ call' \in [Callers -> Calls] /\ call'[c] = now
        /\ \A d \in Callers \ {c} :
             /\ ~Busy(d) => call'[d] = call[d]
             /\ Busy(d) => call'[d] = [call[d] EXCEPT !.alone = FALSE]
    BY <2>1, <2>2, DisturbedKeeps, ZenonT(120)
  <2> HIDE DEF now
  <2>4. TypeOK'
    BY <2>3, <1>1 DEF TypeOK
  <2>5. CallerInv(c)'
    <3>1. call[c].alone => Mine(c)'
      BY <1>1, <2>2, <2>3 DEF CallerInv, Mine
    <3> QED BY <3>1, <1>1, <2>2, <2>3 DEF CallerInv, Busy, ResultTrue
  <2>6. \A d \in Callers \ {c} : CallerInv(d)'
    BY <2>3, <1>1, OthersKept
  <2> QED BY <2>4, <2>5, <2>6, <1>1
<1> QED BY <1>2, <1>3

\* A packet that answers a read nobody ran into is the answer to that read: it has
\* the read's label, and no other request has had it since.
LEMMA TakeKeeps == ASSUME AsyncInv, NEW c \in Callers, Take(c) PROVE AsyncInv'
<1> USE AsyncFacts DEF AsyncInv
<1>1. /\ call[c].pc = "await" /\ Answers(ar, c)
      /\ UNCHANGED <<powered, tlabel, block, pending, status, bus, ar, reached, serial,
                     made, faults>>
  BY DEF Take
<1>2. PICK good \in Trailer(c) :
        /\ call' = IF good /\ ar.ok THEN Succeeded(c, IF ar.whole THEN ar.id ELSE 0)
                                    ELSE Failed(c)
        /\ found' = (found \/ (good /\ ar.ok /\ c = Reset))
  BY DEF Take
<1>3. call[c].kind \in Reads /\ Busy(c)
  BY <1>1 DEF CallerInv, Busy
<1>4. ar # Empty /\ ar \in Packets /\ ar.kind = call[c].kind /\ ar.label = call[c].label
  BY <1>1, <1>3 DEF Answers, Empty, Reads, TypeOK
<1>5. CASE good /\ ar.ok
  <2> DEFINE value == IF ar.whole THEN ar.id ELSE 0
  <2>1. value \in 0..MaxCalls
    BY <1>4 DEF Packets
  <2>2. call[c].alone /\ call[c].kind = "read" => value = call[c].id
    BY <1>2, <1>3, <1>4, <1>5 DEF Trailer, CallerInv, Mine
  <2>3. call' = Succeeded(c, value)
    BY <1>2, <1>5
  <2>4. found' \in BOOLEAN
    BY <1>2, Zenon DEF TypeOK
  <2>5. call[c].kind \notin Writes
    BY <1>3 DEF Reads, Writes
  <2> HIDE DEF value
  <2> QED BY <2>1, <2>2, <2>3, <2>4, <2>5, <1>1, SucceededKeeps
<1>6. CASE ~(good /\ ar.ok)
  <2>1. call' = Failed(c) /\ found' = found
    BY <1>2, <1>6 DEF TypeOK
  <2> QED BY <2>1, <1>1, FailedKeeps
<1> QED BY <1>5, <1>6

\* A read that waited in vain is forgotten.
LEMMA AwaitTimeoutKeeps ==
  ASSUME AsyncInv, NEW c \in Callers, AwaitTimeout(c) PROVE AsyncInv'
BY FailedKeeps DEF AwaitTimeout, Untouched
-----------------------------------------------------------------------------
(* The controller and the bus *)

\* What is sent is the block as it is: its response carries its label and its
\* number, and a write that is acked has arrived.
LEMMA SendKeeps == ASSUME AsyncInv, NEW outcome \in Outcomes, Send(outcome) PROVE AsyncInv'
<1> USE AsyncFacts DEF AsyncInv
<1> DEFINE r == [kind |-> block.kind, label |-> block.label, id |-> block.id,
                 ok |-> outcome # "refused", whole |-> FALSE]
<1>1. /\ pending /\ powered /\ pending' = FALSE
      /\ UNCHANGED <<powered, found, tlabel, block, ar, call, serial, made>>
      /\ bus' \in {bus, bus \cup {r}}
      /\ status' \in {"error", "ack"}
      /\ reached' \in {reached, reached \cup {block.id}}
      /\ status' = "ack" /\ block.kind \in Writes => block.id \in reached'
  BY DEF Send, Outcomes, Reads, Writes
<1>2. block \in [id: 1..MaxCalls, kind: Kind, label: 0..(Labels - 1)]
  BY <1>1 DEF TypeOK
<1>3. r \in Packets /\ r.label = block.label /\ r.id = block.id
  <2>1. (outcome # "refused") \in BOOLEAN
    OBVIOUS
  <2> QED BY <1>2, <2>1 DEF Packets
<1>4. faults' \in 0..MaxFaults
  BY DEF Send, TypeOK
<1> HIDE DEF r
<1>5. TypeOK'
  <2>1. bus' \subseteq Packets /\ reached' \subseteq 1..MaxCalls
    BY <1>1, <1>2, <1>3 DEF TypeOK
  <2>2. pending' \in BOOLEAN
    BY <1>1, Zenon
  <2> QED BY <2>1, <2>2, <1>1, <1>4 DEF TypeOK
<1>6. ASSUME NEW d \in Callers PROVE CallerInv(d)'
  <2>1. /\ TypeOK /\ CallerInv(d) /\ serial' \in Nat /\ serial <= serial'
        /\ made'[d] = made[d] /\ block' = block /\ call'[d] = call[d]
        /\ reached \subseteq reached' /\ ar' = ar
    BY <1>1
  <2>2. \A q \in bus' : q \in bus \/ (q.label = block.label => q.id = block.id)
    BY <1>1, <1>3
  <2>3. status' = "ack" => (block.kind \in Writes => block.id \in reached')
    BY <1>1
  <2> QED BY ONLY <2>1, <2>2, <2>3, CallerKept
<1> QED BY <1>1, <1>5, <1>6

\* A packet at the head of the buffer comes from the bus, and lands bit by bit
\* without becoming another one.
LEMMA ReceiveKeeps == ASSUME AsyncInv, NEW r \in bus, Receive(r) PROVE AsyncInv'
<1> USE AsyncFacts DEF AsyncInv
<1>1. /\ bus' \subseteq bus /\ ar' \in {ar} \cup bus
      /\ UNCHANGED <<powered, found, tlabel, block, pending, status, call, reached, serial,
                     made, faults>>
  BY DEF Receive
<1>2. TypeOK'
  BY <1>1 DEF TypeOK
<1>3. ASSUME NEW d \in Callers PROVE CallerInv(d)'
  <2>1. /\ TypeOK /\ CallerInv(d) /\ serial' \in Nat /\ serial <= serial'
        /\ made'[d] = made[d] /\ block' = block /\ call'[d] = call[d]
        /\ reached \subseteq reached' /\ ar' \in {ar, Empty} \cup bus
        /\ bus' \subseteq bus /\ status' = status
    BY <1>1
  <2> QED BY ONLY <2>1, CallerKept
<1> QED BY <1>1, <1>2, <1>3

\* The trailer changes nothing a caller knows.
LEMMA LandKeeps == ASSUME AsyncInv, Land PROVE AsyncInv'
<1> USE AsyncFacts DEF AsyncInv
<1>1. /\ ar # Empty /\ ar' = [ar EXCEPT !.whole = TRUE]
      /\ UNCHANGED <<powered, found, tlabel, block, pending, status, bus, call, reached,
                     serial, made, faults>>
  BY DEF Land
<1>2. ar' \in Packets /\ ar'.label = ar.label /\ ar'.id = ar.id
  BY <1>1 DEF TypeOK, Packets
<1>3. TypeOK'
  BY <1>1, <1>2 DEF TypeOK
<1>4. ASSUME NEW d \in Callers PROVE CallerInv(d)'
  <2>1. /\ TypeOK /\ CallerInv(d) /\ serial' \in Nat /\ serial <= serial'
        /\ made'[d] = made[d] /\ block' = block /\ call'[d] = call[d]
        /\ reached \subseteq reached' /\ bus' \subseteq bus /\ status' = status
        /\ ar # Empty /\ ar'.label = ar.label /\ ar'.id = ar.id
    BY <1>1, <1>2
  <2> QED BY ONLY <2>1, CallerKept
<1> QED BY <1>1, <1>3, <1>4

\* Sleep and wake change no transaction.
LEMMA PowerKeeps == ASSUME AsyncInv, Sleep \/ WakeUp PROVE AsyncInv'
<1> USE AsyncFacts DEF AsyncInv
<1>1. /\ pending' = FALSE \/ pending' = pending
      /\ UNCHANGED <<found, tlabel, block, status, bus, ar, call, reached, serial, made>>
  BY DEF Sleep, WakeUp
<1>2. TypeOK'
  <2>1. powered' \in BOOLEAN /\ pending' \in BOOLEAN
    BY Zenon DEF Sleep, WakeUp, TypeOK
  <2>2. faults' \in 0..MaxFaults
    BY DEF Sleep, WakeUp, TypeOK
  <2> QED BY <2>1, <2>2, <1>1 DEF TypeOK
<1>3. ASSUME NEW d \in Callers PROVE CallerInv(d)'
  BY <1>1 DEF CallerInv, Busy, Mine, ResultTrue
<1> QED BY <1>1, <1>2, <1>3

-----------------------------------------------------------------------------
\* The transactor starts in the invariant.
LEMMA Initially == Init => AsyncInv
<1> SUFFICES ASSUME Init PROVE AsyncInv
  OBVIOUS
<1> USE TransactorAssumption
<1>1. Idle \in Calls
  BY DEF Idle, Calls
<1>2. powered \in BOOLEAN /\ found \in BOOLEAN /\ pending \in BOOLEAN /\ pending = FALSE
  BY Zenon DEF Init
<1>3. TypeOK
  BY <1>1, <1>2 DEF Init, TypeOK
<1>4. \A c \in Callers : CallerInv(c)
  BY DEF Init, CallerInv, Busy, ResultTrue, Idle
<1> QED BY <1>2, <1>3, <1>4 DEF AsyncInv

\* Every step of the callers, the controller and the bus keeps the invariant.
LEMMA AsyncStep == AsyncInv /\ [Next]_vars => AsyncInv'
<1> SUFFICES ASSUME AsyncInv, [Next]_vars PROVE AsyncInv'
  OBVIOUS
<1>c. Client \in Callers /\ Reset \in Callers
  BY DEF Callers
<1>1. CASE ReadQuadlet \/ WriteQuadlet \/ WriteBlock \/ ReadBlock \/ Identify
  BY <1>1, <1>c, BeginKeeps
     DEF ReadQuadlet, WriteQuadlet, WriteBlock, ReadBlock, Identify, uf_read_quadlet,
         uf_write_quadlet, uf_write_block, uf_read_block, Rearmed, Kind, Reads, Writes
<1>2. ASSUME NEW c \in Callers, Step(c) PROVE AsyncInv'
  BY <1>2, RunKeeps, PollAckedKeeps, PollFailedKeeps, TakeKeeps, AwaitTimeoutKeeps DEF Step
<1>3. CASE Controller
  BY <1>3, SendKeeps, ReceiveKeeps, LandKeeps DEF Controller
<1>4. CASE Sleep \/ WakeUp
  BY <1>4, PowerKeeps
<1>5. CASE UNCHANGED vars
  <2>1. TypeOK'
    BY <1>5 DEF vars, AsyncInv, TypeOK
  <2>2. ASSUME NEW c \in Callers PROVE CallerInv(c)'
    BY <1>5 DEF vars, AsyncInv, CallerInv, Busy, Mine, ResultTrue
  <2> QED BY <1>5, <2>1, <2>2 DEF vars, AsyncInv
<1> QED BY <1>1, <1>2, <1>3, <1>4, <1>5 DEF Next

\* The transactions keep the invariant, whatever the bus loses and however the two
\* queues run into each other.
THEOREM AsyncInvariant == Spec => []AsyncInv
BY Initially, AsyncStep, PTL DEF Spec

\* Every variable of the transactor keeps its type: labels stay within their bits
\* and no transaction is attempted more often than it may be.
THEOREM AsyncTypeCorrect == Spec => []TypeOK
BY AsyncInvariant, PTL DEF AsyncInv

\* uf_read_quadlet returns the device's answer to this very read, and a write that
\* uf_at_run reports as acked has reached the device, unless the other queue's
\* transaction ran into it: neither retries nor late, second or partial responses
\* can change that.
THEOREM AsyncResultIsTrue == Spec => []ResultIsTrue
<1>1. AsyncInv => ResultIsTrue
  BY DEF AsyncInv, CallerInv, ResultTrue, ResultIsTrue, ReadIsAnswer, WriteReached
<1> QED BY <1>1, AsyncInvariant, PTL

-----------------------------------------------------------------------------
(* MIDI. *)

\* Where a request ends.
Ends(p) == p.at + Size(p)

\* The requests lie in the buffer one behind the other, from its head to what has
\* arrived; only the last one may be cut off by the end of the buffer.
LayoutInv ==
  /\ \A p \in packets : p.at < filled
  /\ \A p, q \in packets : p.at < q.at => Ends(p) <= q.at
  /\ \A p, q \in packets : p.at = q.at => p = q
  /\ \A p \in packets :
       \/ Ends(p) = filled + arriving
       \/ Ends(p) >= BufferQuads /\ filled + arriving = BufferQuads
       \/ \E q \in packets : q.at = Ends(p)
  /\ filled + arriving > 0 => \E p \in packets : p.at = 0

\* An offset at which a request starts or the last one ends.
OnBoundary(off) == off = 0 \/ \E p \in packets : off \in {p.at, Ends(p)}

\* The bytes of a sequence are in the order they were sent, none of them twice.
Rising(s) == \A i, j \in DOMAIN s : i < j => s[i] < s[j]

\* What has been heard is in order, and all of it was sent before anything a walk
\* that has come as far as off has still to read.
HeardOK(h, off) ==
  /\ Rising(h)
  /\ \A x \in Range(h) : x <= sent
  /\ \A p \in packets : p.ours /\ off <= p.at =>
       \A x \in Range(h), y \in Range(p.bytes) : x < y

\* So are the bytes within a request and from one request to the next.
OrderInv ==
  /\ \A p \in packets : p.ours => Rising(p.bytes) /\ \A x \in Range(p.bytes) : x <= sent
  /\ \A p, q \in packets : p.ours /\ q.ours /\ p.at < q.at =>
       \A x \in Range(p.bytes), y \in Range(q.bytes) : x < y
  /\ HeardOK(heard, cursor)

\* The bytes of applications are played in order or counted as lost.
OutInv ==
  /\ message.next <= message.last + 1
  /\ Len(played) + dropped = message.next - 1
  /\ Rising(played)
  /\ \A x \in Range(played) : x < message.next

\* The inductive invariant of MIDI.
MidiInv == MidiTypeOK /\ LayoutInv /\ OnBoundary(cursor) /\ OrderInv /\ OutInv

\* The invariant of the loop of MidiInPoll: it is on a boundary, what it has so far is
\* in order behind what was heard before, and while there is room it has all of the
\* bytes it passed.
WalkOK(w) ==
  /\ w \in WalkStates /\ Len(w.out) <= Capacity
  /\ cursor <= w.off /\ w.off <= filled
  /\ OnBoundary(w.off)
  /\ HeardOK(heard \o w.out, w.off)
  /\ Len(w.out) < Capacity =>
       \A p \in packets : p.ours /\ cursor <= p.at /\ p.at < w.off =>
         Range(p.bytes) \subseteq Range(heard \o w.out)
-----------------------------------------------------------------------------
\* A nonempty set of natural numbers has a least element.
LEMMA LeastNatural ==
  ASSUME NEW T, T \subseteq Nat, T # {}
  PROVE  \E t \in T : \A u \in T : t <= u
<1> DEFINE R == OpToRel(<, Nat)
<1>1. IsWellFoundedOn(R, Nat)
  BY NatLessThanWellFounded, Zenon
<1>2. \A u, v \in Nat : u < v => <<u, v>> \in R
  BY DEF OpToRel
<1>3. \E t \in T : \A u \in T : ~(<<u, t>> \in R)
  <2> HIDE DEF R
  <2> QED BY <1>1, WFMin
<1>4. PICK t \in T : \A u \in T : ~(<<u, t>> \in R)
  BY <1>3
<1> HIDE DEF R
<1>5. \A u \in T : ~(u < t)
  BY <1>2, <1>4
<1> QED BY <1>5

\* Induction over an interval, for a set instead of a predicate.
LEMMA IntervalInduction ==
  ASSUME NEW N \in Nat, NEW G, 0 \in G, \A i \in 1..N : i - 1 \in G => i \in G
  PROVE  \A i \in 0..N : i \in G
<1> DEFINE T == (0..N) \ G
<1>1. SUFFICES ASSUME T # {} PROVE FALSE
  OBVIOUS
<1>2. PICK t \in T : \A u \in T : t <= u
  <2>1. T \subseteq Nat
    OBVIOUS
  <2> HIDE DEF T
  <2> QED BY <1>1, <2>1, LeastNatural
<1>3. t \in 1..N /\ t - 1 \in 0..N
  OBVIOUS
<1>4. t - 1 \in G
  <2>1. ~(t <= t - 1)
    BY <1>3
  <2> QED BY <1>2, <1>3, <2>1
<1> QED BY <1>3, <1>4

\* A function that starts with x and goes on by F exists: the recursive definition
\* of a loop defines something.
LEMMA IterationExists ==
  ASSUME NEW S, NEW F \in [S -> S], NEW x \in S, NEW N \in Nat
  PROVE  \E g : g = [i \in 0..N |-> IF i = 0 THEN x ELSE F[g[i - 1]]]
<1> DEFINE Starts(g, n) == g \in [0..n -> S] /\ g[0] = x
                             /\ \A i \in 1..n : g[i] = F[g[i - 1]]
           G == {n \in Nat : \E g : Starts(g, n)}
<1>1. 0 \in G
  <2>1. Starts([i \in 0..0 |-> x], 0)
    OBVIOUS
  <2> QED BY <2>1
<1>2. ASSUME NEW n \in 1..N, n - 1 \in G PROVE n \in G
  <2>1. PICK g : Starts(g, n - 1)
    BY <1>2
  <2> DEFINE h == [i \in 0..n |-> IF i = n THEN F[g[n - 1]] ELSE g[i]]
  <2>2. g[n - 1] \in S
    BY <2>1
  <2>3. Starts(h, n)
    <3>1. h \in [0..n -> S]
      BY <2>1, <2>2
    <3>2. h[0] = x
      BY <2>1
    <3>3. ASSUME NEW i \in 1..n PROVE h[i] = F[h[i - 1]]
      BY <2>1
    <3> QED BY <3>1, <3>2, <3>3
  <2> HIDE DEF h
  <2> QED BY <2>3
<1>3. N \in G
  <2> HIDE DEF G
  <2> QED BY <1>1, <1>2, IntervalInduction
<1>4. PICK g : Starts(g, N)
  BY <1>3
<1>5. g = [i \in 0..N |-> IF i = 0 THEN x ELSE F[g[i - 1]]]
  BY <1>4
<1> QED BY <1>5

\* The bytes of a request are a sequence.
LEMMA BytesAreSeq ==
  ASSUME NEW b \in Bytes
  PROVE  b \in Seq(1..MaxBytes) /\ Len(b) \in Nat /\ DOMAIN b = 1..Len(b)
           /\ \A i \in 1..Len(b) : b[i] \in 1..MaxBytes
<1>1. PICK n \in 0..MaxBlock : b \in [1..n -> 1..MaxBytes]
  BY DEF Bytes
<1>2. n \in Nat
  BY MidiAssumption
<1>3. b \in Seq(1..MaxBytes)
  BY <1>1, <1>2, SeqDef
<1> QED BY <1>3, LenProperties, ElementOfSeq

\* What the type invariant says of a request in the buffer.
LEMMA PacketFacts ==
  ASSUME MidiTypeOK, NEW p \in packets
  PROVE  /\ p.at \in 0..BufferQuads /\ p.ours \in BOOLEAN
         /\ p.tcode \in {"read", "quadlet", "block"}
         /\ p.bytes \in Seq(1..MaxBytes) /\ Len(p.bytes) \in Nat
         /\ DOMAIN p.bytes = 1..Len(p.bytes)
         /\ \A i \in 1..Len(p.bytes) : p.bytes[i] \in 1..MaxBytes
         /\ Size(p) \in Nat /\ Size(p) >= 4 /\ Ends(p) = p.at + Size(p) /\ Ends(p) \in Nat
<1>1. p.at \in 0..BufferQuads /\ p.ours \in BOOLEAN /\ p.bytes \in Bytes
        /\ p.tcode \in {"read", "quadlet", "block"}
  BY DEF MidiTypeOK
<1>2. Size(p) \in Nat /\ Size(p) >= 4
  BY <1>1, BytesAreSeq DEF Size
<1> QED BY <1>1, <1>2, BytesAreSeq, MidiAssumption DEF Ends

\* The numbers of the receive buffer.
LEMMA BufferFacts ==
  ASSUME MidiTypeOK
  PROVE  /\ filled \in Nat /\ filled <= BufferQuads /\ arriving \in Nat
         /\ filled + arriving <= BufferQuads /\ cursor \in Nat /\ cursor <= filled
         /\ BufferQuads \in Nat /\ Capacity \in Nat /\ Capacity > 0 /\ MaxBytes \in Nat
         /\ sent \in 0..MaxBytes /\ heard \in Seq(1..MaxBytes)
BY MidiAssumption DEF MidiTypeOK

\* A prefix of a sequence.
LEMMA PrefixFacts ==
  ASSUME NEW S, NEW s \in Seq(S), NEW m \in Int, m <= Len(s)
  PROVE  /\ SubSeq(s, 1, m) \in Seq(S)
         /\ Len(SubSeq(s, 1, m)) = IF m >= 0 THEN m ELSE 0
         /\ \A i \in 1..m : SubSeq(s, 1, m)[i] = s[i]
<1>1. \A i \in 1..m : s[i] \in S
  <2> Len(s) \in Nat
    BY LenProperties
  <2> QED BY ElementOfSeq
<1>2. /\ SubSeq(s, 1, m) \in Seq(S)
      /\ Len(SubSeq(s, 1, m)) = IF 1 <= m THEN m - 1 + 1 ELSE 0
      /\ \A i \in 1..(m - 1 + 1) : SubSeq(s, 1, m)[i] = s[1 + i - 1]
  BY <1>1, SubSeqProperties
<1> QED BY <1>2

\* What PacketAt returns is sized and typed wherever one asks.
LEMMA PacketAtFacts ==
  ASSUME MidiTypeOK, NEW off \in Nat
  PROVE  LET p == PacketAt(off) IN
         /\ p.at = off /\ p.bytes \in Seq(1..MaxBytes) /\ Len(p.bytes) \in Nat
         /\ Size(p) \in Nat /\ Size(p) >= 4
         /\ (\E q \in packets : q.at = off) => p \in packets
<1>1. CASE \E q \in packets : q.at = off
  <2>1. PacketAt(off) \in packets /\ PacketAt(off).at = off
    BY <1>1 DEF PacketAt
  <2> QED BY <2>1, PacketFacts
<1>2. CASE ~\E q \in packets : q.at = off
  <2>1. PacketAt(off) = [at |-> off, tcode |-> "read", ours |-> FALSE, bytes |-> <<>>]
    BY <1>2, Zenon DEF PacketAt
  <2>2. Size(PacketAt(off)) = 4
    BY <2>1 DEF Size
  <2> QED BY <1>2, <2>1, <2>2, EmptySeq
<1> QED BY <1>1, <1>2

\* What a poll takes from a request: all of it, or as much as there is room for.
LEMMA TakenFacts ==
  ASSUME NEW p, p.bytes \in Seq(1..MaxBytes), NEW n \in Nat, Capacity \in Nat
  PROVE  /\ Taken(p, n) \in Seq(1..MaxBytes)
         /\ Len(Taken(p, n)) <= Len(p.bytes)
         /\ n <= Capacity => n + Len(Taken(p, n)) <= Capacity
         /\ p.ours => \A i \in 1..Len(Taken(p, n)) : Taken(p, n)[i] = p.bytes[i]
         /\ p.ours /\ n + Len(Taken(p, n)) < Capacity => Len(Taken(p, n)) = Len(p.bytes)
         /\ ~p.ours => Taken(p, n) = <<>>
<1>1. Len(p.bytes) \in Nat
  BY LenProperties
<1>2. CASE p.ours
  <2> DEFINE m == IF Len(p.bytes) < Capacity - n THEN Len(p.bytes) ELSE Capacity - n
  <2>1. m \in Int /\ m <= Len(p.bytes)
    BY <1>1
  <2>2. Taken(p, n) = SubSeq(p.bytes, 1, m)
    BY <1>2 DEF Taken
  <2>3. /\ Taken(p, n) \in Seq(1..MaxBytes)
        /\ Len(Taken(p, n)) = IF m >= 0 THEN m ELSE 0
        /\ \A i \in 1..m : Taken(p, n)[i] = p.bytes[i]
    <3> DEFINE b == p.bytes
    <3>1. b \in Seq(1..MaxBytes) /\ m <= Len(b) /\ Taken(p, n) = SubSeq(b, 1, m)
      BY <2>1, <2>2
    <3> HIDE DEF b, m
    <3>2. /\ SubSeq(b, 1, m) \in Seq(1..MaxBytes)
          /\ Len(SubSeq(b, 1, m)) = IF m >= 0 THEN m ELSE 0
          /\ \A i \in 1..m : SubSeq(b, 1, m)[i] = b[i]
      BY <2>1, <3>1, PrefixFacts
    <3> QED BY <3>1, <3>2, Zenon DEF b
  <2> QED BY <1>1, <1>2, <2>1, <2>3
<1>3. CASE ~p.ours
  BY <1>1, <1>3, EmptySeq DEF Taken
<1> QED BY <1>2, <1>3

-----------------------------------------------------------------------------
(* The loop of MidiInPoll.                                                  *)

\* A turn of the loop, case by case.
LEMMA TurnCases ==
  ASSUME NEW w \in WalkStates
  PROVE  LET p == PacketAt(w.off)
             n == Len(w.out)
         IN  \/ turn[w] = w
             \/ /\ ~(w.off + 4 > filled \/ n = Capacity)
                /\ turn[w] = [w EXCEPT !.desync = p.tcode # "quadlet"]
             \/ /\ ~(w.off + 4 > filled \/ n = Capacity)
                /\ ~(p.tcode = "read" \/ w.off + Size(p) > filled)
                /\ turn[w] = [w EXCEPT !.off = After(p, n), !.out = @ \o Taken(p, n)]
BY Zenon DEF turn

\* Every turn leads from a state of the loop to one.
LEMMA TurnType ==
  ASSUME MidiTypeOK
  PROVE  turn \in [WalkStates -> WalkStates]
<1>1. ASSUME NEW w \in WalkStates PROVE turn[w] \in WalkStates
  <2> DEFINE p == PacketAt(w.off)
             n == Len(w.out)
  <2>1. w.off \in Nat /\ w.out \in Seq(1..MaxBytes) /\ w.desync \in BOOLEAN
          /\ w.off \in 0..BufferQuads /\ n \in Nat
    BY BufferFacts, LenProperties DEF WalkStates
  <2>2. p.at = w.off /\ p.bytes \in Seq(1..MaxBytes) /\ Size(p) \in Nat
    BY <2>1, PacketAtFacts
  <2>3. CASE turn[w] = [w EXCEPT !.desync = p.tcode # "quadlet"]
    BY <2>1, <2>3, Zenon DEF WalkStates
  <2>4. CASE /\ ~(p.tcode = "read" \/ w.off + Size(p) > filled)
             /\ turn[w] = [w EXCEPT !.off = After(p, n), !.out = @ \o Taken(p, n)]
    <3>1. After(p, n) \in 0..BufferQuads
      <4>1. /\ w.off \in Nat /\ Size(p) \in Nat
            /\ filled \in Nat /\ BufferQuads \in Nat /\ filled <= BufferQuads
        BY <2>1, <2>2, BufferFacts, Zenon
      <4>2. After(p, n) = w.off + Size(p) /\ ~(w.off + Size(p) > filled)
        BY <2>2, <2>4, Zenon DEF After
      <4> HIDE DEF p, n
      <4> QED BY <4>1, <4>2
    <3>2. w.out \o Taken(p, n) \in Seq(1..MaxBytes)
      <4>1. Taken(p, n) \in Seq(1..MaxBytes)
        BY <2>1, <2>2, TakenFacts, BufferFacts
      <4> QED BY <2>1, <4>1, ConcatProperties
    <3> HIDE DEF p, n
    <3> QED BY <2>4, <3>1, <3>2 DEF WalkStates
  <2> QED BY <2>3, <2>4, TurnCases
<1>2. turn = [w \in WalkStates |-> turn[w]]
  BY DEF turn
<1> QED BY <1>1, <1>2

\* The recursive definition of the loop defines what it says.
LEMMA WalkEquation ==
  ASSUME MidiTypeOK
  PROVE  walk = [i \in 0..BufferQuads |->
                   IF i = 0 THEN [off |-> cursor, out |-> <<>>, desync |-> FALSE]
                   ELSE turn[walk[i - 1]]]
<1> DEFINE Start == [off |-> cursor, out |-> <<>>, desync |-> FALSE]
<1>1. Start \in WalkStates
  BY BufferFacts, EmptySeq DEF WalkStates
<1>2. \E g : g = [i \in 0..BufferQuads |-> IF i = 0 THEN Start ELSE turn[g[i - 1]]]
  <2> HIDE DEF Start
  <2>1. turn \in [WalkStates -> WalkStates] /\ BufferQuads \in Nat
    BY TurnType, BufferFacts
  <2> QED BY <1>1, <2>1, IterationExists
<1> QED BY <1>2, Zenon DEF walk

\* Two rising sequences, the second above the first, are one.
LEMMA RisingConcat ==
  ASSUME NEW s \in Seq(Nat), NEW t \in Seq(Nat), Rising(s), Rising(t),
         \A x \in Range(s), y \in Range(t) : x < y
  PROVE  Rising(s \o t)
<1> DEFINE u == s \o t
           m == Len(s)
           n == Len(t)
<1>1. /\ u \in Seq(Nat) /\ Len(u) = m + n
      /\ \A i \in 1..(m + n) : u[i] = IF i <= m THEN s[i] ELSE t[i - m]
  BY ConcatProperties
<1>2. m \in Nat /\ n \in Nat /\ DOMAIN s = 1..m /\ DOMAIN t = 1..n /\ DOMAIN u = 1..(m + n)
  BY <1>1, LenProperties
<1>3. (\A i \in 1..m : s[i] \in Nat) /\ (\A i \in 1..n : t[i] \in Nat)
  BY <1>2, ElementOfSeq
<1> HIDE DEF u, m, n
<1>4. /\ \A i, j \in 1..m : i < j => s[i] < s[j]
      /\ \A i, j \in 1..n : i < j => t[i] < t[j]
      /\ \A i \in 1..m, j \in 1..n : s[i] < t[j]
  BY <1>2 DEF Rising, Range
<1>5. ASSUME NEW i \in 1..(m + n), NEW j \in 1..(m + n), i < j
      PROVE  u[i] < u[j]
  <2>1. CASE j <= m
    BY <1>1, <1>2, <1>4, <1>5, <2>1
  <2>2. CASE i > m
    <3>1. i - m \in 1..n /\ j - m \in 1..n /\ i - m < j - m
      BY <1>2, <1>5, <2>2
    <3>2. u[i] = t[i - m] /\ u[j] = t[j - m]
      BY <1>1, <1>2, <1>5, <2>2
    <3> QED BY <1>4, <3>1, <3>2
  <2>3. CASE i <= m /\ j > m
    <3>1. i \in 1..m /\ j - m \in 1..n
      BY <1>2, <1>5, <2>3
    <3>2. u[i] = s[i] /\ u[j] = t[j - m]
      BY <1>1, <1>2, <1>5, <2>3
    <3> QED BY <1>4, <3>1, <3>2
  <2> QED BY <1>2, <2>1, <2>2, <2>3
<1>6. Rising(u)
  BY <1>2, <1>5 DEF Rising
<1> QED BY <1>6 DEF u

\* What is in a concatenation.
LEMMA ConcatRange ==
  ASSUME NEW S, NEW s \in Seq(S), NEW t \in Seq(S)
  PROVE  Range(s \o t) = Range(s) \cup Range(t)
<1> DEFINE u == s \o t
           m == Len(s)
           n == Len(t)
<1>1. /\ u \in Seq(S) /\ Len(u) = m + n
      /\ \A i \in 1..(m + n) : u[i] = IF i <= m THEN s[i] ELSE t[i - m]
  BY ConcatProperties
<1>2. m \in Nat /\ n \in Nat /\ DOMAIN s = 1..m /\ DOMAIN t = 1..n /\ DOMAIN u = 1..(m + n)
  BY <1>1, LenProperties
<1> HIDE DEF u, m, n
<1>3. ASSUME NEW i \in 1..(m + n) PROVE u[i] \in Range(s) \cup Range(t)
  <2>1. CASE i <= m
    <3>1. i \in 1..m /\ u[i] = s[i]
      BY <1>1, <1>2, <2>1
    <3> QED BY <1>2, <3>1 DEF Range
  <2>2. CASE i > m
    <3>1. i - m \in 1..n /\ u[i] = t[i - m]
      BY <1>1, <1>2, <2>2
    <3> QED BY <1>2, <3>1 DEF Range
  <2> QED BY <1>2, <2>1, <2>2
<1>4. ASSUME NEW i \in 1..m PROVE s[i] \in Range(u)
  <2>1. i \in 1..(m + n) /\ u[i] = s[i]
    BY <1>1, <1>2
  <2> QED BY <1>2, <2>1 DEF Range
<1>5. ASSUME NEW i \in 1..n PROVE t[i] \in Range(u)
  <2>1. m + i \in 1..(m + n) /\ u[m + i] = t[i]
    <3>1. m + i \in 1..(m + n) /\ ~(m + i <= m) /\ (m + i) - m = i
      BY <1>2
    <3> QED BY <1>1, <3>1
  <2> QED BY <1>2, <2>1 DEF Range
<1>6. Range(u) = Range(s) \cup Range(t)
  <2>1. \A x \in Range(u) : x \in Range(s) \cup Range(t)
    BY <1>2, <1>3 DEF Range
  <2>2. \A x \in Range(s) : x \in Range(u)
    BY <1>2, <1>4 DEF Range
  <2>3. \A x \in Range(t) : x \in Range(u)
    BY <1>2, <1>5 DEF Range
  <2> QED BY <2>1, <2>2, <2>3
<1> QED BY <1>6 DEF u

\* A prefix of a rising sequence rises and adds nothing.
LEMMA PrefixRising ==
  ASSUME NEW s \in Seq(Nat), NEW t \in Seq(Nat), Len(t) <= Len(s),
         \A i \in 1..Len(t) : t[i] = s[i]
  PROVE  /\ Rising(s) => Rising(t)
         /\ Range(t) \subseteq Range(s)
         /\ Len(t) = Len(s) => Range(t) = Range(s)
<1>1. /\ Len(s) \in Nat /\ Len(t) \in Nat /\ DOMAIN s = 1..Len(s) /\ DOMAIN t = 1..Len(t)
  BY LenProperties
<1>2. 1..Len(t) \subseteq 1..Len(s)
  BY <1>1
<1>3. Rising(s) => Rising(t)
  BY <1>1, <1>2 DEF Rising
<1>4. Range(t) \subseteq Range(s)
  BY <1>1, <1>2 DEF Range
<1>5. Len(t) = Len(s) => Range(t) = Range(s)
  BY <1>1 DEF Range
<1> QED BY <1>3, <1>4, <1>5

\* Where the walk stands with something to read before it, a request starts.
LEMMA BoundaryPacket ==
  ASSUME MidiTypeOK, LayoutInv, NEW off \in Nat, OnBoundary(off), off + 4 <= filled
  PROVE  \E q \in packets : q.at = off
<1>1. CASE off = 0
  BY <1>1, BufferFacts DEF LayoutInv
<1>2. CASE \E p \in packets : off = p.at
  BY <1>2
<1>3. CASE \E p \in packets : off = Ends(p)
  <2>1. PICK p \in packets : off = Ends(p)
    BY <1>3
  <2>2. \/ Ends(p) = filled + arriving
        \/ Ends(p) >= BufferQuads /\ filled + arriving = BufferQuads
        \/ \E q \in packets : q.at = Ends(p)
    BY DEF LayoutInv
  <2> QED BY <2>1, <2>2, BufferFacts
<1> QED BY <1>1, <1>2, <1>3 DEF OnBoundary

\* The bytes of a request and of what was heard are numbers.
LEMMA HeardFacts ==
  ASSUME MidiTypeOK
  PROVE  /\ heard \in Seq(Nat) /\ Range(heard) \subseteq Nat
         /\ \A p \in packets : p.bytes \in Seq(Nat) /\ Range(p.bytes) \subseteq Nat
         /\ \A w \in WalkStates : w.out \in Seq(Nat) /\ heard \o w.out \in Seq(Nat)
<1>1. 1..MaxBytes \subseteq Nat
  BY BufferFacts
<1>2. ASSUME NEW s \in Seq(1..MaxBytes) PROVE s \in Seq(Nat) /\ Range(s) \subseteq Nat
  <2>1. s \in Seq(Nat)
    BY <1>1, SeqMonotonic
  <2>2. DOMAIN s = 1..Len(s) /\ \A i \in 1..Len(s) : s[i] \in Nat
    BY <2>1, LenProperties, ElementOfSeq
  <2> QED BY <2>1, <2>2 DEF Range
<1>3. heard \in Seq(1..MaxBytes)
  BY BufferFacts
<1>4. \A p \in packets : p.bytes \in Seq(1..MaxBytes)
  BY PacketFacts
<1>5. \A w \in WalkStates : w.out \in Seq(1..MaxBytes)
  BY DEF WalkStates
<1>6. \A w \in WalkStates : heard \o w.out \in Seq(Nat)
  BY <1>2, <1>3, <1>5, ConcatProperties
<1> QED BY <1>2, <1>3, <1>4, <1>5, <1>6

\* A turn that takes a request's bytes keeps what was heard in order.
LEMMA TurnHears ==
  ASSUME MidiTypeOK, LayoutInv, OrderInv, NEW h \in Seq(Nat), NEW p \in packets,
         HeardOK(h, p.at), NEW t \in Seq(Nat), Len(t) <= Len(p.bytes),
         p.ours => \A i \in 1..Len(t) : t[i] = p.bytes[i], ~p.ours => t = <<>>
  PROVE  HeardOK(h \o t, Ends(p)) /\ Range(h \o t) = Range(h) \cup Range(t)
<1>1. /\ p.at \in Nat /\ Ends(p) \in Nat /\ p.at < Ends(p)
      /\ \A q \in packets : q.at \in Nat
  BY PacketFacts
<1>2. Range(h \o t) = Range(h) \cup Range(t)
  BY ConcatRange
<1>3. CASE ~p.ours
  <2>1. h \o t = h
    BY <1>3, ConcatEmptySeq
  <2>2. \A q \in packets : Ends(p) <= q.at => p.at <= q.at
    BY <1>1
  <2>3. HeardOK(h, Ends(p))
    BY <2>2 DEF HeardOK
  <2> QED BY <1>2, <2>1, <2>3
<1>4. CASE p.ours
  <2>1. /\ p.bytes \in Seq(Nat) /\ Range(p.bytes) \subseteq Nat /\ Rising(p.bytes)
        /\ \A x \in Range(p.bytes) : x <= sent
        /\ \A x \in Range(h), y \in Range(p.bytes) : x < y
    <3>1. p.bytes \in Seq(Nat) /\ Range(p.bytes) \subseteq Nat
      BY HeardFacts
    <3>2. Rising(p.bytes) /\ \A x \in Range(p.bytes) : x <= sent
      BY <1>4 DEF OrderInv
    <3>3. p.at <= p.at
      BY <1>1
    <3>4. \A x \in Range(h), y \in Range(p.bytes) : x < y
      BY <1>4, <3>3, Zenon DEF HeardOK
    <3> QED BY <3>1, <3>2, <3>4
  <2>2. Rising(t) /\ Range(t) \subseteq Range(p.bytes)
    <3> DEFINE b == p.bytes
    <3>1. b \in Seq(Nat) /\ Len(t) <= Len(b) /\ Rising(b) /\ \A i \in 1..Len(t) : t[i] = b[i]
      BY <1>4, <2>1
    <3> HIDE DEF b
    <3>2. Rising(t) /\ Range(t) \subseteq Range(b)
      BY <3>1, PrefixRising
    <3> QED BY <3>2 DEF b
  <2>3. Rising(h \o t)
    <3>1. Rising(h) /\ \A x \in Range(h), y \in Range(t) : x < y
      BY <2>1, <2>2 DEF HeardOK
    <3> QED BY <2>2, <3>1, RisingConcat
  <2>4. \A x \in Range(h \o t) : x <= sent
    BY <1>2, <2>1, <2>2 DEF HeardOK
  <2>5. ASSUME NEW q \in packets, q.ours, Ends(p) <= q.at,
               NEW x \in Range(h \o t), NEW y \in Range(q.bytes)
        PROVE  x < y
    <3>1. p.at < q.at
      BY <1>1, <2>5
    <3>2. CASE x \in Range(h)
      <4>1. p.at <= q.at
        BY <1>1, <3>1
      <4> QED BY <2>5, <3>2, <4>1, Zenon DEF HeardOK
    <3>3. CASE x \in Range(t)
      BY <1>4, <2>2, <2>5, <3>1, <3>3 DEF OrderInv
    <3> QED BY <1>2, <3>2, <3>3
  <2>6. HeardOK(h \o t, Ends(p))
    BY <2>3, <2>4, <2>5 DEF HeardOK
  <2> QED BY <1>2, <2>6
<1> QED BY <1>3, <1>4

\* A turn of the loop keeps what holds of it.
LEMMA TurnKeeps ==
  ASSUME MidiTypeOK, LayoutInv, OrderInv, NEW w, WalkOK(w)
  PROVE  WalkOK(turn[w])
<1> DEFINE p == PacketAt(w.off)
           n == Len(w.out)
           h == heard \o w.out
<1>1. /\ w \in WalkStates /\ w.off \in Nat /\ w.out \in Seq(1..MaxBytes) /\ n \in Nat
      /\ n <= Capacity /\ cursor <= w.off /\ w.off <= filled /\ OnBoundary(w.off)
      /\ HeardOK(h, w.off)
  BY LenProperties DEF WalkOK, WalkStates
<1>2. turn[w] \in WalkStates
  BY <1>1, TurnType
<1>3. CASE turn[w] = w
  BY <1>3
<1>4. CASE turn[w] = [w EXCEPT !.desync = p.tcode # "quadlet"]
  <2>1. turn[w].off = w.off /\ turn[w].out = w.out
    BY <1>1, <1>4, Zenon DEF WalkStates
  <2> QED BY <1>2, <2>1 DEF WalkOK
<1>5. CASE /\ ~(w.off + 4 > filled \/ n = Capacity)
           /\ ~(p.tcode = "read" \/ w.off + Size(p) > filled)
           /\ turn[w] = [w EXCEPT !.off = After(p, n), !.out = @ \o Taken(p, n)]
  <2> DEFINE t == Taken(p, n)
  <2>1. p \in packets /\ p.at = w.off
    <3>1. w.off + 4 <= filled
      BY <1>1, <1>5, BufferFacts
    <3>2. \E q \in packets : q.at = w.off
      BY <1>1, <3>1, BoundaryPacket
    <3> QED BY <1>1, <3>2, PacketAtFacts
  <2>2. Ends(p) = w.off + Size(p) /\ Ends(p) <= filled /\ After(p, n) = Ends(p)
    <3>1. w.off \in Nat /\ Size(p) \in Nat /\ filled \in Nat
      BY <1>1, <2>1, BufferFacts, PacketFacts, Zenon
    <3>2. /\ Ends(p) = w.off + Size(p) /\ After(p, n) = Ends(p)
          /\ ~(w.off + Size(p) > filled)
      BY <1>5, <2>1, Zenon DEF After, Ends
    <3> HIDE DEF p, n
    <3> QED BY <3>1, <3>2
  <2>3. turn[w].off = Ends(p) /\ turn[w].out = w.out \o t
    BY <1>1, <1>5, <2>2 DEF WalkStates
  <2>4. /\ t \in Seq(1..MaxBytes) /\ Len(t) \in Nat /\ Len(t) <= Len(p.bytes)
        /\ n + Len(t) <= Capacity
        /\ p.ours => \A i \in 1..Len(t) : t[i] = p.bytes[i]
        /\ p.ours /\ n + Len(t) < Capacity => Len(t) = Len(p.bytes)
        /\ ~p.ours => t = <<>>
    <3>1. p.bytes \in Seq(1..MaxBytes) /\ Capacity \in Nat
      BY <2>1, PacketFacts, BufferFacts
    <3> HIDE DEF p, n
    <3> QED BY <1>1, <3>1, TakenFacts, LenProperties
  <2>5. Len(w.out \o t) = n + Len(t)
    BY <1>1, <2>4, ConcatProperties
  <2>6. heard \o (w.out \o t) = h \o t
    <3>1. heard \in Seq(1..MaxBytes)
      BY BufferFacts
    <3> DEFINE o == w.out
    <3>2. o \in Seq(1..MaxBytes)
      BY <1>1
    <3> HIDE DEF t, o
    <3>3. t \in Seq(1..MaxBytes)
      BY <2>4
    <3>4. heard \o (o \o t) = (heard \o o) \o t
      BY <3>1, <3>2, <3>3, ConcatAssociative
    <3> QED BY <3>4 DEF o
  <2>7. h \in Seq(Nat) /\ t \in Seq(Nat)
    <3>1. 1..MaxBytes \subseteq Nat
      BY BufferFacts
    <3> QED BY <1>1, <2>4, <3>1, HeardFacts, SeqMonotonic
  <2>8. HeardOK(h \o t, Ends(p)) /\ Range(h \o t) = Range(h) \cup Range(t)
    <3> HIDE DEF p, n, h, t
    <3>1. HeardOK(h, p.at)
      BY <1>1, <2>1
    <3> QED BY <2>1, <2>4, <2>7, <3>1, TurnHears
  <2>9. OnBoundary(Ends(p))
    BY <2>1 DEF OnBoundary
  <2>10. ASSUME n + Len(t) < Capacity, NEW q \in packets, q.ours, cursor <= q.at,
                q.at < Ends(p)
         PROVE  Range(q.bytes) \subseteq Range(h \o t)
    <3>1. CASE q.at < w.off
      <4>1. n < Capacity
        <5>1. Capacity \in Nat
          BY BufferFacts
        <5> HIDE DEF p, n, t
        <5> QED BY <1>1, <2>4, <2>10, <5>1
      <4>2. Range(q.bytes) \subseteq Range(h)
        BY <2>10, <3>1, <4>1 DEF WalkOK
      <4> QED BY <2>8, <4>2
    <3>2. CASE q.at >= w.off
      <4>1. q = p
        <5>1. ~(p.at < q.at)
          BY <2>1, <2>10, PacketFacts DEF LayoutInv
        <5>2. p.at = q.at
          BY <2>1, <3>2, <5>1, PacketFacts
        <5> QED BY <2>1, <5>2 DEF LayoutInv
      <4>2. Range(t) = Range(p.bytes)
        <5> DEFINE b == p.bytes
        <5>1. /\ b \in Seq(Nat) /\ Len(t) <= Len(b) /\ Len(t) = Len(b)
              /\ \A i \in 1..Len(t) : t[i] = b[i]
          BY <2>1, <2>4, <2>10, <4>1, HeardFacts
        <5> HIDE DEF b, t
        <5>2. Range(t) = Range(b)
          BY <2>7, <5>1, PrefixRising
        <5> QED BY <5>2 DEF b
      <4> QED BY <2>8, <4>1, <4>2
    <3> QED BY <1>1, <2>10, <3>1, <3>2, PacketFacts
  <2>11. cursor <= Ends(p)
    <3>1. /\ cursor \in Nat /\ w.off \in Nat /\ Size(p) \in Nat
          /\ cursor <= w.off /\ Ends(p) = w.off + Size(p)
      BY <1>1, <2>1, <2>2, BufferFacts, PacketFacts, Zenon
    <3> HIDE DEF p
    <3> QED BY <3>1
  <2> HIDE DEF p, n, h, t
  <2> QED BY <1>2, <2>2, <2>3, <2>4, <2>5, <2>6, <2>8, <2>9, <2>10, <2>11 DEF WalkOK
<1> QED BY <1>1, <1>3, <1>4, <1>5, TurnCases

\* The walk of a poll: the cursor stays on a boundary, the bytes are the next ones in
\* order, and as long as there is room none is left out.
LEMMA WalkHolds ==
  ASSUME MidiTypeOK, LayoutInv, OrderInv, OnBoundary(cursor)
  PROVE  WalkOK(Walk)
<1> DEFINE G == {i \in 0..BufferQuads : WalkOK(walk[i])}
<1>1. 0 \in G
  <2> DEFINE w == [off |-> cursor, out |-> <<>>, desync |-> FALSE]
  <2>1. walk[0] = w
    BY WalkEquation, BufferFacts
  <2>2. w \in WalkStates
    BY BufferFacts, EmptySeq DEF WalkStates
  <2>3. heard \o w.out = heard
    BY BufferFacts, ConcatEmptySeq
  <2>4. HeardOK(heard \o w.out, w.off)
    BY <2>3 DEF OrderInv
  <2>5. \A p \in packets : ~(cursor <= p.at /\ p.at < w.off)
    <3>1. ASSUME NEW p \in packets PROVE ~(cursor <= p.at /\ p.at < cursor)
      <4>1. cursor \in Nat /\ p.at \in 0..BufferQuads
        BY BufferFacts, PacketFacts, Zenon
      <4> QED BY <4>1
    <3> QED BY <3>1
  <2>6. Len(w.out) <= Capacity /\ cursor <= w.off /\ w.off <= filled
    BY BufferFacts, EmptySeq
  <2>7. WalkOK(w)
    BY <2>2, <2>4, <2>5, <2>6 DEF WalkOK
  <2> QED BY <2>1, <2>7, BufferFacts
<1>2. ASSUME NEW i \in 1..BufferQuads, i - 1 \in G PROVE i \in G
  <2>1. i \in 0..BufferQuads /\ i # 0
    BY BufferFacts
  <2>2. walk[i] = turn[walk[i - 1]]
    BY <2>1, WalkEquation
  <2>3. WalkOK(walk[i - 1])
    BY <1>2
  <2> QED BY <2>1, <2>2, <2>3, TurnKeeps
<1>3. BufferQuads \in G
  <2> HIDE DEF G
  <2>1. BufferQuads \in Nat /\ BufferQuads \in 0..BufferQuads
    BY BufferFacts
  <2> QED BY <1>1, <1>2, <2>1, IntervalInduction
<1> QED BY <1>3 DEF Walk

\* The loop has come to its end by then: one more turn changes nothing.
LEMMA WalkEnds ==
  ASSUME MidiTypeOK, LayoutInv, OrderInv, OnBoundary(cursor)
  PROVE  turn[Walk] = Walk
<1> DEFINE G == {i \in 0..BufferQuads :
                   walk[i] \in WalkStates
                     /\ (walk[i].off >= i \/ turn[walk[i]] = walk[i])}
<1>1. 0 \in G
  <2>1. walk[0] = [off |-> cursor, out |-> <<>>, desync |-> FALSE]
    BY WalkEquation, BufferFacts
  <2>2. walk[0] \in WalkStates
    BY <2>1, BufferFacts, EmptySeq DEF WalkStates
  <2> QED BY <2>1, <2>2, BufferFacts
<1>2. ASSUME NEW i \in 1..BufferQuads, i - 1 \in G PROVE i \in G
  <2> DEFINE w == walk[i - 1]
             p == PacketAt(w.off)
             n == Len(w.out)
  <2>1. i \in 0..BufferQuads /\ i # 0 /\ i \in Nat
    BY BufferFacts
  <2>2. walk[i] = turn[w]
    BY <2>1, WalkEquation
  <2>3. w \in WalkStates /\ w.off \in Nat /\ n \in Nat
          /\ (w.off >= i - 1 \/ turn[w] = w)
    BY <1>2, LenProperties DEF WalkStates
  <2>4. turn[w] \in WalkStates
    BY <2>3, TurnType
  <2> HIDE DEF w
  <2>5. CASE turn[w] = w
    BY <2>1, <2>2, <2>3, <2>5
  <2>6. CASE /\ ~(w.off + 4 > filled \/ n = Capacity)
             /\ p.tcode = "read" \/ w.off + Size(p) > filled
             /\ turn[w] = [w EXCEPT !.desync = p.tcode # "quadlet"]
    <3> DEFINE v == turn[w]
    <3>1. v.off = w.off /\ v.out = w.out /\ v.desync = (p.tcode # "quadlet")
      BY <2>3, <2>6, Zenon DEF WalkStates
    <3>2. [v EXCEPT !.desync = p.tcode # "quadlet"] = v
      BY <2>4, <3>1, Zenon DEF WalkStates
    <3>3. turn[v] = LET q == PacketAt(v.off)
                        m == Len(v.out)
                    IN  IF v.off + 4 > filled \/ m = Capacity THEN v
                        ELSE IF q.tcode = "read" \/ v.off + Size(q) > filled
                          THEN [v EXCEPT !.desync = q.tcode # "quadlet"]
                          ELSE [v EXCEPT !.off = After(q, m), !.out = @ \o Taken(q, m)]
      <4> HIDE DEF v
      <4>1. v \in WalkStates
        BY <2>4 DEF v
      <4> QED BY <4>1, Zenon DEF turn
    <3>4. turn[v] = v
      <4> HIDE DEF v
      <4> QED BY <2>6, <3>1, <3>2, <3>3, Zenon
    <3> QED BY <2>1, <2>2, <2>4, <3>4
  <2>7. CASE /\ ~(w.off + 4 > filled \/ n = Capacity)
             /\ turn[w] = [w EXCEPT !.off = After(p, n), !.out = @ \o Taken(p, n)]
    <3>1. CASE turn[w] = w
      BY <2>5, <3>1
    <3>2. CASE w.off >= i - 1
      <4>1. p.at = w.off /\ Size(p) \in Nat /\ Size(p) >= 4
        BY <2>3, PacketAtFacts
      <4>2. turn[w].off = w.off + Size(p)
        BY <2>3, <2>7, <4>1 DEF WalkStates, After
      <4> HIDE DEF p, n
      <4>3. turn[w].off >= i
        BY <2>1, <2>3, <3>2, <4>1, <4>2
      <4> QED BY <2>1, <2>2, <2>4, <4>3
    <3> QED BY <2>3, <3>1, <3>2
  <2>8. \/ turn[w] = w
        \/ /\ ~(w.off + 4 > filled \/ n = Capacity)
           /\ p.tcode = "read" \/ w.off + Size(p) > filled
           /\ turn[w] = [w EXCEPT !.desync = p.tcode # "quadlet"]
        \/ /\ ~(w.off + 4 > filled \/ n = Capacity)
           /\ turn[w] = [w EXCEPT !.off = After(p, n), !.out = @ \o Taken(p, n)]
    BY <2>3, Zenon DEF turn
  <2> QED BY <2>5, <2>6, <2>7, <2>8
<1>3. BufferQuads \in G
  <2> HIDE DEF G
  <2>1. BufferQuads \in Nat /\ BufferQuads \in 0..BufferQuads
    BY BufferFacts
  <2> QED BY <1>1, <1>2, <2>1, IntervalInduction
<1>4. Walk \in WalkStates /\ (Walk.off >= BufferQuads \/ turn[Walk] = Walk)
  BY <1>3 DEF Walk
<1>5. CASE Walk.off >= BufferQuads
  <2>1. Walk.off + 4 > filled
    BY <1>4, <1>5, BufferFacts DEF WalkStates
  <2> QED BY <1>4, <2>1, Zenon DEF turn
<1> QED BY <1>4, <1>5

-----------------------------------------------------------------------------
(* The steps.                                                               *)

\* Steps that leave the receive side alone.
LEMMA InKept ==
  ASSUME LayoutInv, OnBoundary(cursor), OrderInv,
         UNCHANGED <<packets, filled, arriving, cursor, sent, heard>>
  PROVE  LayoutInv' /\ OnBoundary(cursor)' /\ OrderInv'
<1>1. LayoutInv'
  BY DEF LayoutInv, Ends, Size
<1>2. OnBoundary(cursor)'
  BY DEF OnBoundary, Ends, Size
<1>3. OrderInv'
  BY DEF OrderInv, HeardOK
<1> QED BY <1>1, <1>2, <1>3

\* A buffer started over has nothing to keep.
LEMMA RearmKeeps ==
  ASSUME MidiTypeOK, OrderInv, Rearm, UNCHANGED <<sent, heard>>
  PROVE  LayoutInv' /\ OnBoundary(cursor)' /\ OrderInv'
<1>1. LayoutInv'
  BY DEF LayoutInv, Rearm
<1>2. OnBoundary(cursor)'
  BY DEF OnBoundary, Rearm
<1>3. OrderInv'
  BY DEF OrderInv, HeardOK, Rearm
<1> QED BY <1>1, <1>2, <1>3

\* A request stored behind the others, in full, in part or as far as the buffer goes.
LEMMA StoreKeeps ==
  ASSUME MidiTypeOK, LayoutInv, OnBoundary(cursor), arriving = 0,
         filled < BufferQuads, NEW p, p.at = filled, Size(p) \in Nat, Size(p) >= 4,
         packets' = packets \cup {p}, cursor' = cursor,
         filled' \in Nat, filled' > filled, arriving' \in Nat,
         filled' + arriving' = IF filled + Size(p) < BufferQuads
                                 THEN filled + Size(p) ELSE BufferQuads
  PROVE  LayoutInv' /\ OnBoundary(cursor)'
<1>1. /\ filled \in Nat /\ BufferQuads \in Nat
      /\ \A q \in packets : q.at \in Nat /\ Ends(q) \in Nat
      /\ Ends(p) = filled + Size(p)
  <2>1. ASSUME NEW q \in packets PROVE q.at \in Nat /\ Ends(q) \in Nat
    <3>1. q.at \in 0..BufferQuads /\ Ends(q) \in Nat
      BY PacketFacts, Zenon
    <3> QED BY <3>1
  <2>2. Ends(p) = filled + Size(p)
    BY Zenon DEF Ends
  <2> QED BY <2>1, <2>2, BufferFacts, Zenon
<1>2. \A q \in packets : q.at < filled /\ Ends(q) <= filled
                           /\ (Ends(q) = filled \/ \E r \in packets : r.at = Ends(q))
  <2>1. ASSUME NEW q \in packets
        PROVE  q.at < filled /\ (Ends(q) = filled \/ \E r \in packets : r.at = Ends(q))
    BY <1>1 DEF LayoutInv
  <2>2. ASSUME NEW q \in packets, NEW r \in packets, r.at = Ends(q) PROVE Ends(q) <= filled
    BY <1>1, <2>1, <2>2
  <2> QED BY <1>1, <2>1, <2>2
<1> HIDE DEF Ends
<1>3. \A q \in packets' : Ends(q)' = Ends(q)
  BY DEF Ends, Size
<1>4. (\A q \in packets : q.at < filled)'
  BY <1>1, <1>2
<1>5. (\A q, r \in packets : q.at < r.at => Ends(q) <= r.at)'
  <2>1. ASSUME NEW q \in packets', NEW r \in packets', q.at < r.at PROVE Ends(q) <= r.at
    <3>1. CASE q \in packets /\ r \in packets
      BY <2>1, <3>1 DEF LayoutInv
    <3>2. CASE q \in packets /\ r = p
      BY <1>2, <3>2
    <3>3. CASE q = p
      BY <1>1, <1>2, <2>1, <3>3
    <3> QED BY <3>1, <3>2, <3>3
  <2> QED BY <1>3, <2>1
<1>6. (\A q, r \in packets : q.at = r.at => q = r)'
  <2>1. ASSUME NEW q \in packets', NEW r \in packets', q.at = r.at PROVE q = r
    <3>1. CASE q \in packets /\ r \in packets
      BY <2>1, <3>1 DEF LayoutInv
    <3>2. CASE q = p \/ r = p
      BY <1>1, <1>2, <2>1, <3>2
    <3> QED BY <3>1, <3>2
  <2> QED BY <2>1
<1>7. ASSUME NEW q \in packets'
      PROVE  \/ Ends(q) = filled' + arriving'
             \/ Ends(q) >= BufferQuads /\ filled' + arriving' = BufferQuads
             \/ \E r \in packets' : r.at = Ends(q)
  <2>1. CASE q \in packets
    BY <1>2, <2>1
  <2>2. CASE q = p
    <3>1. Ends(q) = filled + Size(p)
      BY <1>1, <2>2
    <3>2. CASE filled + Size(p) < BufferQuads
      BY <3>1, <3>2
    <3>3. CASE ~(filled + Size(p) < BufferQuads)
      <4>1. filled' + arriving' = BufferQuads
        BY <3>3, Zenon
      <4>2. filled + Size(p) >= BufferQuads
        BY <1>1, <3>3
      <4> QED BY <3>1, <4>1, <4>2
    <3> QED BY <3>2, <3>3
  <2> QED BY <2>1, <2>2
<1>8. \E q \in packets' : q.at = 0
  <2>1. CASE filled > 0
    BY <1>1, <2>1 DEF LayoutInv
  <2>2. CASE filled = 0
    BY <2>2
  <2> QED BY <1>1, <2>1, <2>2
<1>9. LayoutInv'
  BY <1>3, <1>4, <1>5, <1>6, <1>7, <1>8 DEF LayoutInv
<1>10. OnBoundary(cursor)'
  BY <1>3 DEF OnBoundary
<1> QED BY <1>9, <1>10

\* The new bytes of the device are above all earlier ones.
LEMMA RequestKeeps ==
  ASSUME MidiTypeOK, OrderInv, LayoutInv, NEW p, NEW k \in Nat, p.at = filled,
         packets' = packets \cup {p}, cursor' = cursor, heard' = heard, sent' = sent + k,
         p.ours => p.bytes = [i \in 1..k |-> sent + i]
  PROVE  OrderInv'
<1>1. sent \in Nat /\ filled \in Nat
  BY BufferFacts
<1>2. p.ours => /\ \A i, j \in DOMAIN p.bytes : i < j => p.bytes[i] < p.bytes[j]
                /\ \A x \in Range(p.bytes) : x \in Nat /\ sent < x /\ x <= sent + k
  <2>1. SUFFICES ASSUME p.ours PROVE
          /\ \A i, j \in DOMAIN p.bytes : i < j => p.bytes[i] < p.bytes[j]
          /\ \A x \in Range(p.bytes) : x \in Nat /\ sent < x /\ x <= sent + k
    OBVIOUS
  <2> DEFINE b == [i \in 1..k |-> sent + i]
  <2>2. \A i, j \in DOMAIN b : i < j => b[i] < b[j]
    BY <1>1
  <2>3. \A x \in Range(b) : x \in Nat /\ sent < x /\ x <= sent + k
    BY <1>1 DEF Range
  <2> QED BY <2>1, <2>2, <2>3, Zenon
<1>3. \A q \in packets : q.at \in Nat /\ q.at < filled /\ Range(q.bytes) \subseteq Nat
  BY PacketFacts, HeardFacts DEF LayoutInv
<1>4. Range(heard) \subseteq Nat
  BY HeardFacts
<1>5. ASSUME NEW q \in packets', q.ours
      PROVE  Rising(q.bytes) /\ \A x \in Range(q.bytes) : x <= sent + k
  <2>1. CASE q \in packets
    <3>1. Rising(q.bytes) /\ \A x \in Range(q.bytes) : x \in Nat /\ x <= sent
      BY <1>3, <1>5, <2>1 DEF OrderInv
    <3> QED BY <1>1, <3>1
  <2>2. CASE q = p
    BY <1>2, <1>5, <2>2, Zenon DEF Rising
  <2> QED BY <2>1, <2>2
<1>6. ASSUME NEW q \in packets', NEW r \in packets', q.ours, r.ours, q.at < r.at,
             NEW x \in Range(q.bytes), NEW y \in Range(r.bytes)
      PROVE  x < y
  <2>1. CASE q \in packets /\ r \in packets
    BY <1>6, <2>1 DEF OrderInv
  <2>2. CASE q \in packets /\ r = p
    <3>1. x \in Nat /\ x <= sent
      BY <1>3, <1>6, <2>2 DEF OrderInv
    <3>2. y \in Nat /\ sent < y
      BY <1>2, <1>6, <2>2
    <3> QED BY <1>1, <3>1, <3>2
  <2>3. CASE q = p
    BY <1>1, <1>3, <1>6, <2>3
  <2> QED BY <2>1, <2>2, <2>3
<1>7. Rising(heard) /\ \A x \in Range(heard) : x <= sent + k
  <2>1. Rising(heard) /\ \A x \in Range(heard) : x \in Nat /\ x <= sent
    BY <1>4 DEF OrderInv, HeardOK
  <2> QED BY <1>1, <2>1
<1>8. ASSUME NEW q \in packets', q.ours, cursor <= q.at,
             NEW x \in Range(heard), NEW y \in Range(q.bytes)
      PROVE  x < y
  <2>1. CASE q \in packets
    BY <1>8, <2>1 DEF OrderInv, HeardOK
  <2>2. CASE q = p
    <3>1. x \in Nat /\ x <= sent
      BY <1>4 DEF OrderInv, HeardOK
    <3>2. y \in Nat /\ sent < y
      BY <1>2, <1>8, <2>2
    <3> QED BY <1>1, <3>1, <3>2
  <2> QED BY <2>1, <2>2
<1>9. HeardOK(heard, cursor)'
  BY <1>7, <1>8, Zenon DEF HeardOK, Rising
<1> QED BY <1>5, <1>6, <1>9, Zenon DEF OrderInv, Rising

\* Bytes nobody took change nothing but their number.
LEMMA LostKeeps ==
  ASSUME MidiTypeOK, OrderInv, NEW k \in Nat, sent' = sent + k,
         UNCHANGED <<packets, cursor, heard>>
  PROVE  OrderInv'
<1>1. sent \in Nat /\ \A x \in Nat : x <= sent => x <= sent'
  BY BufferFacts
<1>2. Range(heard) \subseteq Nat /\ \A p \in packets : Range(p.bytes) \subseteq Nat
  BY HeardFacts
<1>3. \A x \in Range(heard) : x <= sent'
  BY <1>1, <1>2 DEF OrderInv, HeardOK
<1>4. \A p \in packets : p.ours => \A x \in Range(p.bytes) : x <= sent'
  BY <1>1, <1>2 DEF OrderInv
<1> QED BY <1>3, <1>4 DEF OrderInv, HeardOK

\* MIDI out is a matter of its own.
LEMMA OutKept ==
  ASSUME OutInv, UNCHANGED outVars
  PROVE  OutInv'
BY DEF OutInv, outVars, Rising

\* The type of a request the controller stores.
LEMMA NewPacketType ==
  ASSUME MidiTypeOK, NEW tcode \in {"read", "quadlet", "block"}, NEW ours \in BOOLEAN,
         NEW b \in Bytes
  PROVE  LET p == [at |-> filled, tcode |-> tcode, ours |-> ours, bytes |-> b] IN
         /\ p \in [at: 0..BufferQuads, tcode: {"read", "quadlet", "block"},
                   ours: BOOLEAN, bytes: Bytes]
         /\ Size(p) \in Nat /\ Size(p) >= 4
<1>1. filled \in 0..BufferQuads
  BY BufferFacts
<1>2. Len(b) \in Nat
  BY BytesAreSeq
<1> QED BY <1>1, <1>2 DEF Size

\* Two numbers whose sum is within a bound.
LEMMA SumWithin ==
  ASSUME NEW a \in Nat, NEW b \in Nat, NEW n \in Nat, a + b <= n
  PROVE  a \in 0..n /\ b \in 0..(n - a)
OBVIOUS

\* A request of the device is stored behind the others, its bytes above all others;
\* or nobody takes it.
LEMMA DeviceSendsKeeps ==
  ASSUME MidiInv, NEW k \in 1..MaxBlock, DeviceSends(k)
  PROVE  MidiInv'
<1> USE DEF MidiInv
<1> DEFINE b == [i \in 1..k |-> sent + i]
           tcode == IF k = 1 THEN "quadlet" ELSE "block"
           p == [at |-> filled, tcode |-> tcode, ours |-> TRUE, bytes |-> b]
<1>1. k \in Nat /\ sent \in Nat /\ sent + k <= MaxBytes /\ sent' = sent + k /\ sent' \in 0..MaxBytes
  <2>1. /\ MaxBlock \in Nat /\ MaxBytes \in Nat /\ sent \in 0..MaxBytes
        /\ sent + k <= MaxBytes /\ sent' = sent + k
    BY MidiAssumption, BufferFacts DEF DeviceSends
  <2> QED BY <2>1
<1>2. b \in Bytes
  <2>1. b \in [1..k -> 1..MaxBytes] /\ k \in 0..MaxBlock
    BY <1>1, MidiAssumption
  <2> HIDE DEF b
  <2> QED BY <2>1 DEF Bytes
<1>3. tcode \in {"read", "quadlet", "block"}
  OBVIOUS
<1>4. /\ UNCHANGED <<midiInOn, node, advertised, daemon, desync, heard, outVars, starts>>
      /\ OutInv'
  BY OutKept DEF DeviceSends
<1>5. CASE UNCHANGED inVars /\ Spend(0)
  <2>1. LayoutInv' /\ OnBoundary(cursor)'
    BY <1>5 DEF LayoutInv, OnBoundary, Ends, Size, inVars
  <2>2. OrderInv'
    BY <1>1, <1>4, <1>5, LostKeeps DEF inVars
  <2>3. MidiTypeOK'
    BY <1>1, <1>4, <1>5 DEF MidiTypeOK, inVars, outVars, Spend
  <2> QED BY <1>4, <2>1, <2>2, <2>3
<1>6. CASE /\ arriving = 0 /\ filled < BufferQuads
           /\ packets' = packets \cup {p} /\ UNCHANGED cursor
           /\ filled' \in Nat /\ filled' > filled /\ arriving' \in Nat
           /\ filled' + arriving' = IF filled + Size(p) < BufferQuads
                                      THEN filled + Size(p) ELSE BufferQuads
           /\ trouble' \in 0..MaxTrouble
  <2>1. /\ p \in [at: 0..BufferQuads, tcode: {"read", "quadlet", "block"},
                  ours: BOOLEAN, bytes: Bytes]
        /\ Size(p) \in Nat /\ Size(p) >= 4
    <3> HIDE DEF b, tcode
    <3> QED BY <1>2, <1>3, NewPacketType
  <2>2. p.at = filled /\ p.bytes = b
    OBVIOUS
  <2> HIDE DEF p, b
  <2>3. LayoutInv' /\ OnBoundary(cursor)'
    BY <1>6, <2>1, <2>2, StoreKeeps
  <2>4. OrderInv'
    BY <1>1, <1>4, <1>6, <2>2, RequestKeeps DEF b
  <2>5. filled' \in 0..BufferQuads /\ arriving' \in 0..(BufferQuads - filled')
          /\ cursor' \in 0..filled'
    <3>1. filled \in Nat /\ BufferQuads \in Nat /\ cursor \in Nat /\ cursor <= filled
      BY BufferFacts
    <3>2. filled' + arriving' <= BufferQuads
      <4>1. CASE filled + Size(p) < BufferQuads
        <5>1. filled' + arriving' = filled + Size(p)
          BY <1>6, <4>1, Zenon
        <5> QED BY <2>1, <3>1, <4>1, <5>1
      <4>2. CASE ~(filled + Size(p) < BufferQuads)
        <5>1. filled' + arriving' = BufferQuads
          BY <1>6, <4>2, Zenon
        <5> QED BY <3>1, <5>1
      <4> QED BY <4>1, <4>2
    <3>3. filled' \in Nat /\ filled' > filled /\ arriving' \in Nat /\ cursor' = cursor
      BY <1>6
    <3>4. filled' \in 0..BufferQuads /\ arriving' \in 0..(BufferQuads - filled')
      BY <3>1, <3>2, <3>3, SumWithin
    <3>5. cursor' \in 0..filled'
      BY <3>1, <3>3
    <3> QED BY <3>4, <3>5
  <2>6. MidiTypeOK'
    BY <1>1, <1>4, <1>6, <2>1, <2>5 DEF MidiTypeOK, outVars
  <2> QED BY <1>4, <2>3, <2>4, <2>6
<1>7. \/ UNCHANGED inVars /\ Spend(0)
      \/ /\ arriving = 0 /\ filled < BufferQuads
         /\ packets' = packets \cup {p} /\ UNCHANGED cursor
         /\ filled' \in Nat /\ filled' > filled /\ arriving' \in Nat
         /\ filled' + arriving' = IF filled + Size(p) < BufferQuads
                                    THEN filled + Size(p) ELSE BufferQuads
         /\ trouble' \in 0..MaxTrouble
  <2>1. CASE advertised # node
    BY <2>1 DEF DeviceSends
  <2>2. CASE advertised = node
    <3>1. Accept(tcode, TRUE, b)
      BY <2>2 DEF DeviceSends
    <3>2. /\ filled \in Nat /\ BufferQuads \in Nat /\ filled <= BufferQuads
          /\ trouble \in 0..MaxTrouble /\ MaxTrouble \in Nat
      BY BufferFacts, MidiAssumption DEF MidiTypeOK
    <3>3. Size(p) \in Nat /\ Size(p) >= 4
      <4> HIDE DEF b, tcode
      <4> QED BY <1>2, <1>3, NewPacketType
    <3> HIDE DEF b, tcode
    <3> DEFINE room == BufferQuads - filled
               stored == IF Size(p) < room THEN Size(p) ELSE room
    <3>4. CASE room = 0
      BY <3>1, <3>4 DEF Accept
    <3>5. CASE room # 0
      <4>1. /\ arriving = 0 /\ packets' = packets \cup {p} /\ UNCHANGED cursor
            /\ \/ filled' = filled + stored /\ arriving' = 0 /\ Spend(0)
               \/ /\ stored > 4 /\ Spend(1)
                  /\ filled' = filled + 4 /\ arriving' = stored - 4
        BY <3>1, <3>5 DEF Accept
      <4> HIDE DEF p
      <4>2. trouble' \in 0..MaxTrouble
        BY <3>2, <4>1 DEF Spend
      <4>3. /\ stored \in Nat /\ stored > 0 /\ filled < BufferQuads
            /\ filled + stored = IF filled + Size(p) < BufferQuads
                                   THEN filled + Size(p) ELSE BufferQuads
        BY <3>2, <3>3, <3>5
      <4> HIDE DEF stored, room
      <4>4. filled' \in Nat /\ filled' > filled /\ arriving' \in Nat
              /\ filled' + arriving' = filled + stored
        BY <3>2, <4>1, <4>3
      <4> QED BY <4>1, <4>2, <4>3, <4>4
    <3> QED BY <3>4, <3>5
  <2> QED BY <2>1, <2>2
<1> QED BY <1>5, <1>6, <1>7

\* A request of another node is stored behind the others and carries no byte.
LEMMA PeerRequestKeeps ==
  ASSUME MidiInv, NEW tcode \in {"read", "quadlet"}, PeerRequest(tcode)
  PROVE  MidiInv'
<1> USE DEF MidiInv
<1> DEFINE b == <<>>
           p == [at |-> filled, tcode |-> tcode, ours |-> FALSE, bytes |-> <<>>]
<1>1. /\ UNCHANGED <<arriving, cursor, midiInOn, node, advertised, daemon, desync, sent,
                     heard, outVars, starts>>
      /\ OutInv'
  BY OutKept DEF PeerRequest
<1>2. /\ p \in [at: 0..BufferQuads, tcode: {"read", "quadlet", "block"},
                ours: BOOLEAN, bytes: Bytes]
      /\ Size(p) \in Nat /\ Size(p) >= 4
  <2>1. <<>> \in Bytes
    <3>1. <<>> \in [1..0 -> 1..MaxBytes] /\ 0 \in 0..MaxBlock
      BY MidiAssumption
    <3> QED BY <3>1 DEF Bytes
  <2> QED BY <2>1, NewPacketType
<1>3. /\ arriving = 0 /\ filled < BufferQuads /\ packets' = packets \cup {p}
      /\ filled' = IF filled + Size(p) < BufferQuads THEN filled + Size(p) ELSE BufferQuads
  BY DEF PeerRequest
<1>4. trouble' \in 0..MaxTrouble
  BY MidiAssumption DEF PeerRequest, Spend, MidiTypeOK
<1>5. p.at = filled /\ p.ours = FALSE
  OBVIOUS
<1> HIDE DEF p
<1>6. /\ filled \in Nat /\ BufferQuads \in Nat /\ cursor \in Nat /\ cursor <= filled
      /\ sent \in Nat
  BY BufferFacts
<1>7. /\ filled' \in Nat /\ filled' > filled /\ arriving' = 0 /\ filled' <= BufferQuads
      /\ filled' + arriving' = filled'
  BY <1>1, <1>2, <1>3, <1>6
<1>8. LayoutInv' /\ OnBoundary(cursor)'
  BY <1>1, <1>2, <1>3, <1>5, <1>7, StoreKeeps
<1>9. OrderInv'
  <2>1. sent' = sent + 0
    BY <1>1, <1>6
  <2> QED BY <1>1, <1>3, <1>5, <2>1, RequestKeeps
<1>10. MidiTypeOK'
  <2>1. filled' \in 0..BufferQuads /\ arriving' \in 0..(BufferQuads - filled')
          /\ cursor' \in 0..filled'
    <3>1. cursor' = cursor
      BY <1>1, Zenon
    <3>2. filled' \in 0..BufferQuads /\ arriving' \in 0..(BufferQuads - filled')
      BY <1>6, <1>7, SumWithin
    <3>3. cursor' \in 0..filled'
      BY <1>6, <1>7, <3>1
    <3> QED BY <3>2, <3>3, Zenon
  <2>2. packets' \subseteq [at: 0..BufferQuads, tcode: {"read", "quadlet", "block"},
                            ours: BOOLEAN, bytes: Bytes]
    BY <1>2, <1>3, Zenon DEF MidiTypeOK
  <2> QED BY <1>1, <1>4, <2>1, <2>2, Zenon DEF MidiTypeOK, outVars
<1> QED BY <1>1, <1>8, <1>9, <1>10

\* The rest of a request completes what the layout already counts.
LEMMA RestKeeps ==
  ASSUME MidiInv, Rest
  PROVE  MidiInv'
<1> USE DEF MidiInv
<1>1. /\ filled' = filled + arriving /\ arriving' = 0 /\ OutInv'
      /\ UNCHANGED <<packets, cursor, midiInOn, node, advertised, daemon, desync, sent,
                     heard, outVars, starts, trouble>>
  BY OutKept DEF Rest
<1>2. filled \in Nat /\ arriving \in Nat /\ filled' \in Nat /\ filled' <= BufferQuads
        /\ filled' >= filled /\ filled' + arriving' = filled + arriving
        /\ cursor \in Nat /\ cursor <= filled /\ BufferQuads \in Nat
  BY <1>1, BufferFacts
<1>3. LayoutInv'
  <2>1. \A p \in packets' : Ends(p)' = Ends(p) /\ p.at \in Nat
    BY <1>1, PacketFacts DEF Ends, Size
  <2>2. \A p \in packets : p.at < filled'
    <3>1. \A p \in packets : p.at < filled
      BY DEF LayoutInv
    <3> QED BY <1>1, <1>2, <2>1, <3>1
  <2>3. filled' > 0 => \E p \in packets : p.at = 0
    BY <1>1, <1>2 DEF LayoutInv
  <2> QED BY <1>1, <1>2, <2>1, <2>2, <2>3 DEF LayoutInv
<1>4. OnBoundary(cursor)'
  BY <1>1 DEF OnBoundary, Ends, Size
<1>5. OrderInv'
  BY <1>1 DEF OrderInv, HeardOK
<1>6. MidiTypeOK'
  BY <1>1, <1>2 DEF MidiTypeOK, outVars
<1> QED BY <1>1, <1>3, <1>4, <1>5, <1>6

\* A bus reset leaves the buffer alone; a bring-up restarts it.
LEMMA BusKeeps ==
  ASSUME MidiInv, BusReset \/ BringUp
  PROVE  MidiInv'
<1> USE DEF MidiInv
<1>1. CASE BusReset
  <2>1. LayoutInv' /\ OnBoundary(cursor)' /\ OrderInv'
    BY <1>1, InKept DEF BusReset, inVars
  <2>2. OutInv'
    BY <1>1, OutKept DEF BusReset
  <2>3. MidiTypeOK'
    BY <1>1, MidiAssumption DEF BusReset, inVars, outVars, MidiTypeOK, Spend
  <2> QED BY <2>1, <2>2, <2>3
<1>2. CASE BringUp
  <2>1. LayoutInv' /\ OnBoundary(cursor)' /\ OrderInv'
    BY <1>2, RearmKeeps DEF BringUp
  <2>2. OutInv'
    BY <1>2, OutKept DEF BringUp
  <2>3. MidiTypeOK'
    BY <1>2, MidiAssumption DEF BringUp, Rearm, outVars, MidiTypeOK, Spend
  <2> QED BY <2>1, <2>2, <2>3
<1> QED BY <1>1, <1>2

\* A poll hands on the next bytes in order and leaves the cursor on a boundary.
LEMMA PollKeeps ==
  ASSUME MidiInv, midi_poll_in
  PROVE  MidiInv'
<1> USE DEF MidiInv
<1>1. WalkOK(Walk)
  BY WalkHolds
<1>2. /\ cursor' = Walk.off /\ desync' = Walk.desync /\ heard' = heard \o Walk.out
      /\ daemon' = "polled"
      /\ UNCHANGED <<packets, filled, arriving, midiInOn, node, advertised, sent, outVars,
                     starts, trouble>>
  BY DEF midi_poll_in, MidiInPoll
<1>3. /\ Walk.desync \in BOOLEAN /\ Walk.out \in Seq(1..MaxBytes) /\ Walk.off \in 0..BufferQuads
      /\ Walk.off <= filled /\ OnBoundary(Walk.off) /\ HeardOK(heard \o Walk.out, Walk.off)
  BY <1>1 DEF WalkOK, WalkStates
<1>4. LayoutInv'
  BY <1>2 DEF LayoutInv, Ends, Size
<1>5. OnBoundary(cursor)'
  BY <1>2, <1>3 DEF OnBoundary, Ends, Size
<1>6. OrderInv'
  <2>1. HeardOK(heard, cursor)'
    <3>1. HeardOK(heard', cursor')
      BY <1>2, <1>3
    <3> QED BY <1>2, <3>1 DEF HeardOK
  <2> QED BY <1>2, <2>1 DEF OrderInv
<1>7. OutInv'
  BY <1>2, OutKept
<1>8. MidiTypeOK'
  <2>1. heard' \in Seq(1..MaxBytes)
    BY <1>2, <1>3, BufferFacts, ConcatProperties
  <2>2. cursor' \in 0..filled'
    BY <1>2, <1>3, BufferFacts
  <2> QED BY <1>2, <1>3, <2>1, <2>2 DEF MidiTypeOK, outVars
<1> QED BY <1>4, <1>5, <1>6, <1>7, <1>8

\* The end of a poll restarts the buffer or leaves it.
LEMMA RecycleKeeps ==
  ASSUME MidiInv, Recycle \/ UNCHANGED inVars, UNCHANGED <<sent, heard>>
  PROVE  /\ LayoutInv' /\ OnBoundary(cursor)' /\ OrderInv'
         /\ packets' \subseteq [at: 0..BufferQuads, tcode: {"read", "quadlet", "block"},
                                ours: BOOLEAN, bytes: Bytes]
         /\ filled' \in 0..BufferQuads /\ arriving' \in 0..(BufferQuads - filled')
         /\ cursor' \in 0..filled'
<1> USE DEF MidiInv
<1>1. CASE Rearm
  BY <1>1, RearmKeeps, MidiAssumption DEF Rearm
<1>2. CASE UNCHANGED inVars
  BY <1>2, InKept DEF inVars, MidiTypeOK
<1> QED BY <1>1, <1>2 DEF Recycle

\* The end of a poll restarts a spent buffer, with the cursor.
LEMMA PollReturnsKeeps ==
  ASSUME MidiInv, PollReturns
  PROVE  MidiInv'
<1> USE DEF MidiInv
<1>1. /\ LayoutInv' /\ OnBoundary(cursor)' /\ OrderInv'
      /\ packets' \subseteq [at: 0..BufferQuads, tcode: {"read", "quadlet", "block"},
                             ours: BOOLEAN, bytes: Bytes]
      /\ filled' \in 0..BufferQuads /\ arriving' \in 0..(BufferQuads - filled')
      /\ cursor' \in 0..filled'
  BY RecycleKeeps DEF PollReturns
<1>2. OutInv'
  BY OutKept DEF PollReturns
<1>3. MidiTypeOK'
  BY <1>1 DEF MidiTypeOK, PollReturns, outVars
<1> QED BY <1>1, <1>2, <1>3

\* A new registration starts a new sequence.
LEMMA EnableKeeps ==
  ASSUME MidiInv, Enable
  PROVE  MidiInv'
<1> USE DEF MidiInv
<1>1. /\ cursor' = 0 /\ heard' = <<>> /\ midiInOn' = TRUE /\ daemon' = "up"
      /\ starts' = starts + 1 /\ starts < MaxStarts
      /\ UNCHANGED <<packets, filled, arriving, node, desync, sent, outVars>>
  BY DEF Enable, MidiInEnable
<1>2. advertised' \in Nodes \cup {NoNode} /\ trouble' \in 0..MaxTrouble
  <2>1. \/ advertised' = node /\ Spend(0)
        \/ advertised' = advertised /\ Spend(1)
    BY Zenon DEF Enable, MidiInEnable, Advertise
  <2>2. /\ node \in Nodes /\ advertised \in Nodes \cup {NoNode}
        /\ trouble \in 0..MaxTrouble /\ MaxTrouble \in Nat
    BY MidiAssumption DEF MidiTypeOK
  <2>3. advertised' \in Nodes \cup {NoNode}
    BY <2>1, <2>2, Zenon
  <2>4. trouble' \in 0..MaxTrouble
    BY <2>1, <2>2 DEF Spend
  <2> QED BY <2>3, <2>4
<1>3. LayoutInv'
  BY <1>1 DEF LayoutInv, Ends, Size
<1>4. OnBoundary(cursor)'
  BY <1>1 DEF OnBoundary
<1>5. OrderInv'
  <2>1. Range(<<>>) = {} /\ Rising(<<>>)
    BY DEF Range, Rising
  <2>2. HeardOK(heard, cursor)'
    <3>1. HeardOK(heard', cursor')
      BY <1>1, <2>1, Zenon DEF HeardOK
    <3> QED BY <1>1, <3>1 DEF HeardOK
  <2> QED BY <1>1, <2>2 DEF OrderInv
<1>6. OutInv'
  BY <1>1, OutKept
<1>7. MidiTypeOK'
  <2>1. cursor' \in 0..filled' /\ starts' \in 0..MaxStarts /\ heard' \in Seq(1..MaxBytes)
    BY <1>1, BufferFacts, MidiAssumption, EmptySeq DEF MidiTypeOK
  <2> QED BY <1>1, <1>2, <2>1 DEF MidiTypeOK, outVars
<1> QED BY <1>3, <1>4, <1>5, <1>6, <1>7

\* What is known of the message an application is sending.
LEMMA OutFacts ==
  ASSUME MidiInv
  PROVE  /\ message.next \in Nat /\ message.last \in Nat /\ message.next >= 1
         /\ message.last <= MaxOut /\ message.next <= message.last + 1
         /\ message \in [next: 1..(MaxOut + 1), last: 0..MaxOut]
         /\ dropped \in Nat /\ MaxOut \in Nat
         /\ played \in Seq(1..MaxOut) /\ Len(played) \in Nat
         /\ Len(played) + dropped = message.next - 1
BY MidiAssumption, LenProperties DEF MidiInv, MidiTypeOK, OutInv

\* What is left of a message is counted as lost.
LEMMA ForgetKeeps ==
  ASSUME MidiInv, Forget, UNCHANGED played
  PROVE  /\ OutInv' /\ message' \in [next: 1..(MaxOut + 1), last: 0..MaxOut]
         /\ dropped' \in 0..MaxOut
<1>1. /\ message' = [message EXCEPT !.next = message.last + 1]
      /\ dropped' = dropped + (message.last - message.next + 1)
  BY DEF Forget
<1>2. message'.next = message.last + 1 /\ message'.last = message.last
  BY <1>1, OutFacts
<1>3. message' \in [next: 1..(MaxOut + 1), last: 0..MaxOut]
  BY <1>1, OutFacts
<1>4. Len(played) + dropped' = message'.next - 1 /\ dropped' \in 0..MaxOut
  <2> DEFINE m == message.next
             l == message.last
             n == Len(played)
  <2>1. /\ m \in Nat /\ l \in Nat /\ m <= l + 1 /\ l <= MaxOut /\ dropped \in Nat
        /\ MaxOut \in Nat /\ n \in Nat /\ n + dropped = m - 1
        /\ dropped' = dropped + (l - m + 1) /\ message'.next = l + 1
    BY <1>1, <1>2, OutFacts
  <2> HIDE DEF m, l, n
  <2>2. n + dropped' = (l + 1) - 1 /\ dropped' \in 0..MaxOut
    BY <2>1
  <2> QED BY <2>1, <2>2 DEF n
<1>5. \A x \in Range(played) : x < message'.next
  <2>1. \A x \in Range(played) : x \in Nat /\ x < message.next
    <3>1. \A i \in DOMAIN played : played[i] \in Nat
      BY OutFacts, LenProperties, ElementOfSeq
    <3> QED BY <3>1 DEF MidiInv, OutInv, Range
  <2> QED BY <1>2, <2>1, OutFacts
<1>6. OutInv'
  BY <1>2, <1>4, <1>5, OutFacts DEF OutInv, MidiInv, Rising
<1> QED BY <1>3, <1>4, <1>6

\* A daemon that stops or dies takes the rest of a message with it.
LEMMA DaemonEndsKeeps ==
  ASSUME MidiInv, Disable \/ Crash
  PROVE  MidiInv'
<1>0. MidiTypeOK
  BY DEF MidiInv
<1>1. /\ Forget /\ (Recycle \/ UNCHANGED inVars)
      /\ midiInOn' \in BOOLEAN /\ daemon' = "down" /\ desync' \in BOOLEAN
      /\ UNCHANGED <<node, sent, heard, played, starts>>
  <2>1. CASE Disable
    BY <1>0, <2>1, Zenon DEF Disable, MidiInDisable, MidiTypeOK
  <2>2. CASE Crash
    BY <1>0, <2>2, Zenon DEF Crash, MidiTypeOK
  <2> QED BY <2>1, <2>2
<1>2. advertised' \in Nodes \cup {NoNode} /\ trouble' \in 0..MaxTrouble
  <2>1. trouble \in 0..MaxTrouble /\ MaxTrouble \in Nat /\ advertised \in Nodes \cup {NoNode}
    BY <1>0, MidiAssumption DEF MidiTypeOK
  <2>2. Spend(0) \/ Spend(1)
    BY DEF Disable, Crash, MidiInDisable, Advertise
  <2>3. advertised' \in {advertised, NoNode}
    BY DEF Disable, Crash, MidiInDisable, Advertise
  <2> QED BY <2>1, <2>2, <2>3 DEF Spend
<1>3. /\ LayoutInv' /\ OnBoundary(cursor)' /\ OrderInv'
      /\ packets' \subseteq [at: 0..BufferQuads, tcode: {"read", "quadlet", "block"},
                             ours: BOOLEAN, bytes: Bytes]
      /\ filled' \in 0..BufferQuads /\ arriving' \in 0..(BufferQuads - filled')
      /\ cursor' \in 0..filled'
  <2>1. CASE Recycle
    BY <1>1, <2>1, RecycleKeeps
  <2>2. CASE UNCHANGED inVars
    BY <1>0, <1>1, <2>2, InKept DEF MidiInv, inVars, MidiTypeOK
  <2> QED BY <1>1, <2>1, <2>2
<1>4. /\ OutInv' /\ message' \in [next: 1..(MaxOut + 1), last: 0..MaxOut]
      /\ dropped' \in 0..MaxOut
  BY <1>1, ForgetKeeps
<1>5. MidiTypeOK'
  BY <1>0, <1>1, <1>2, <1>3, <1>4 DEF MidiTypeOK
<1> QED BY <1>3, <1>4, <1>5 DEF MidiInv

\* A new message starts behind the last one.
LEMMA MessageComesKeeps ==
  ASSUME MidiInv, NEW n \in 1..MaxOut, MessageComes(n)
  PROVE  MidiInv'
<1> USE DEF MidiInv
<1>1. /\ message.next > message.last /\ message.last + n <= MaxOut
      /\ message' = [message EXCEPT !.last = message.last + n]
      /\ UNCHANGED <<inVars, midiInOn, node, advertised, daemon, desync, sent, heard,
                     played, dropped, starts, trouble>>
  BY DEF MessageComes
<1>2. LayoutInv' /\ OnBoundary(cursor)' /\ OrderInv'
  BY <1>1, InKept DEF inVars
<1>3. message'.next = message.next /\ message'.last = message.last + n
        /\ message' \in [next: 1..(MaxOut + 1), last: 0..MaxOut]
  <2>1. /\ message \in [next: 1..(MaxOut + 1), last: 0..MaxOut]
        /\ message.last \in Nat /\ MaxOut \in Nat
    BY OutFacts, Zenon
  <2>2. message.last + n \in 0..MaxOut
    BY <1>1, <2>1
  <2> QED BY <1>1, <2>1, <2>2, Zenon
<1>4. OutInv'
  <2>1. message'.next <= message'.last + 1
    BY <1>3, OutFacts
  <2> QED BY <1>1, <1>3, <2>1 DEF OutInv, Rising
<1>5. MidiTypeOK'
  BY <1>1, <1>3 DEF MidiTypeOK, inVars
<1> QED BY <1>2, <1>4, <1>5

\* A transaction carries the next bytes of the message.
LEMMA SendOutKeeps ==
  ASSUME MidiInv, midi_send_to_ff800
  PROVE  MidiInv'
<1> USE DEF MidiInv
<1> DEFINE m == message.next
           l == message.last
           c == Chunk
           q == midi_out_quadlets(m, c)
<1>1. /\ m \in Nat /\ l \in Nat /\ m >= 1 /\ m <= l + 1 /\ l <= MaxOut /\ MaxOut \in Nat
      /\ dropped \in Nat /\ Len(played) \in Nat /\ Len(played) + dropped = m - 1
      /\ played \in Seq(1..MaxOut)
  BY OutFacts
<1>2. /\ m <= l /\ message' = [message EXCEPT !.next = m + c]
      /\ \/ played' = played \o q /\ UNCHANGED dropped /\ Spend(0)
         \/ UNCHANGED played /\ dropped' = dropped + c /\ Spend(1)
      /\ UNCHANGED <<inVars, midiInOn, node, advertised, daemon, desync, sent, heard,
                     starts>>
  BY DEF midi_send_to_ff800
<1>3. LayoutInv' /\ OnBoundary(cursor)' /\ OrderInv'
  BY <1>2, InKept DEF inVars
<1>4. c \in Nat /\ c > 0 /\ m + c <= l + 1 /\ c <= kMidiMaxQuads /\ kMidiMaxQuads \in Nat
  <2>1. c = IF (l - m) + 1 < kMidiMaxQuads THEN (l - m) + 1 ELSE kMidiMaxQuads
    BY DEF Chunk
  <2>2. kMidiMaxQuads \in Nat \ {0} /\ m <= l
    BY <1>2, MidiAssumption
  <2> HIDE DEF c, m, l
  <2> QED BY <1>1, <2>1, <2>2
<1>5. q = [i \in 1..c |-> m + i - 1]
  BY <1>4 DEF midi_out_quadlets
<1> HIDE DEF c, q
<1>6. message'.next = m + c /\ message'.last = l
        /\ message' \in [next: 1..(MaxOut + 1), last: 0..MaxOut]
  <2>1. m + c \in 1..(MaxOut + 1)
    <3> HIDE DEF m, l
    <3> QED BY <1>1, <1>4
  <2> QED BY <1>2, <2>1, OutFacts
<1>7. trouble' \in 0..MaxTrouble
  <2>1. trouble \in 0..MaxTrouble /\ MaxTrouble \in Nat
    BY MidiAssumption DEF MidiTypeOK
  <2>2. Spend(0) \/ Spend(1)
    BY <1>2
  <2> QED BY <2>1, <2>2 DEF Spend
<1> HIDE DEF m, l
<1>8. /\ q \in Seq(1..MaxOut) /\ Len(q) = c /\ \A i, j \in DOMAIN q : i < j => q[i] < q[j]
      /\ \A x \in Range(q) : x \in Nat /\ m <= x /\ x < m + c
  <2>1. q \in [1..c -> 1..MaxOut]
    <3>1. \A i \in 1..c : m + i - 1 \in 1..MaxOut
      BY <1>1, <1>4
    <3> QED BY <1>5, <3>1
  <2>2. q \in Seq(1..MaxOut)
    BY <1>4, <2>1, SeqDef
  <2>3. Len(q) = c
    <3>1. DOMAIN q = 1..Len(q) /\ Len(q) \in Nat /\ DOMAIN q = 1..c
      BY <2>1, <2>2, LenProperties
    <3>2. ~(Len(q) < c)
      <4>1. c \in 1..c /\ c \in Nat
        BY <1>4
      <4>2. c \in 1..Len(q)
        BY <3>1, <4>1
      <4> QED BY <3>1, <4>1, <4>2
    <3>3. ~(c < Len(q))
      <4>1. CASE Len(q) = 0
        BY <1>4, <4>1
      <4>2. CASE Len(q) # 0
        <5>1. Len(q) \in 1..Len(q)
          BY <3>1, <4>2
        <5>2. Len(q) \in 1..c
          BY <3>1, <5>1
        <5> QED BY <1>4, <3>1, <5>2
      <4> QED BY <4>1, <4>2
    <3> DEFINE k == Len(q)
    <3>4. k \in Nat /\ c \in Nat /\ ~(k < c) /\ ~(c < k)
      BY <1>4, <3>1, <3>2, <3>3
    <3> HIDE DEF k
    <3>5. k = c
      BY <3>4
    <3> QED BY <3>5 DEF k
  <2>4. \A i, j \in DOMAIN q : i < j => q[i] < q[j]
    BY <1>1, <1>4, <1>5
  <2>5. \A x \in Range(q) : x \in Nat /\ m <= x /\ x < m + c
    BY <1>1, <1>4, <1>5 DEF Range
  <2> QED BY <2>2, <2>3, <2>4, <2>5
<1>9. \A x \in Range(played) : x \in Nat /\ x < m
  <2>1. \A i \in DOMAIN played : played[i] \in Nat
    BY <1>1, LenProperties, ElementOfSeq
  <2> QED BY <2>1 DEF OutInv, Range, m
<1>10. CASE played' = played \o q /\ UNCHANGED dropped
  <2>1. played' \in Seq(1..MaxOut) /\ Len(played') = Len(played) + c
    BY <1>1, <1>8, <1>10, ConcatProperties
  <2>2. Range(played') = Range(played) \cup Range(q)
    BY <1>1, <1>8, <1>10, ConcatRange
  <2>3. Rising(played \o q)
    <3>1. played \in Seq(Nat) /\ q \in Seq(Nat)
      <4>1. 1..MaxOut \subseteq Nat
        BY <1>1
      <4> QED BY <1>1, <1>8, <4>1, SeqMonotonic
    <3>2. Rising(played) /\ Rising(q)
      BY <1>8 DEF OutInv, Rising
    <3>3. \A x \in Range(played), y \in Range(q) : x < y
      BY <1>1, <1>8, <1>9
    <3> QED BY <3>1, <3>2, <3>3, RisingConcat
  <2>4. \A x \in Range(played') : x < m + c
    BY <1>1, <1>4, <1>8, <1>9, <2>2
  <2>5. Len(played') + dropped' = (m + c) - 1 /\ dropped' \in 0..MaxOut
    <3> DEFINE n == Len(played)
               n1 == Len(played')
    <3>1. /\ n \in Nat /\ n1 = n + c /\ dropped' = dropped /\ n + dropped = m - 1
          /\ dropped \in 0..MaxOut /\ c \in Nat /\ m \in Nat /\ dropped \in Nat
      BY <1>1, <1>4, <1>10, <2>1 DEF MidiTypeOK
    <3> HIDE DEF n, n1
    <3>2. n1 + dropped' = (m + c) - 1 /\ dropped' \in 0..MaxOut
      BY <3>1
    <3> QED BY <3>2 DEF n1
  <2>6. OutInv'
    BY <1>1, <1>4, <1>6, <1>10, <2>3, <2>4, <2>5 DEF OutInv, Rising
  <2>7. MidiTypeOK'
    BY <1>2, <1>6, <1>7, <2>1, <2>5 DEF MidiTypeOK, inVars
  <2> QED BY <1>3, <2>6, <2>7
<1>11. CASE UNCHANGED played /\ dropped' = dropped + c
  <2>1. \A x \in Range(played) : x < m + c
    BY <1>1, <1>4, <1>9
  <2>2. Len(played) + dropped' = (m + c) - 1 /\ dropped' \in 0..MaxOut
    BY <1>1, <1>4, <1>11
  <2>3. OutInv'
    BY <1>1, <1>4, <1>6, <1>11, <2>1, <2>2 DEF OutInv, Rising
  <2>4. MidiTypeOK'
    BY <1>2, <1>6, <1>7, <1>11, <2>2 DEF MidiTypeOK, inVars
  <2> QED BY <1>3, <2>3, <2>4
<1> QED BY <1>2, <1>10, <1>11

-----------------------------------------------------------------------------
\* No request, nothing heard, nothing played.
LEMMA MidiInitially == MidiInit => MidiInv
<1> SUFFICES ASSUME MidiInit PROVE MidiInv
  OBVIOUS
<1>1. MidiTypeOK
  <2>1. /\ packets = {} /\ filled = 0 /\ arriving = 0 /\ cursor = 0 /\ midiInOn = FALSE
        /\ node = 0 /\ advertised = NoNode /\ daemon = "down" /\ desync = FALSE /\ sent = 0
        /\ heard = <<>> /\ message = [next |-> 1, last |-> 0] /\ played = <<>> /\ dropped = 0
        /\ starts = 0 /\ trouble = 0
    BY DEF MidiInit
  <2>2. /\ BufferQuads \in Nat /\ MaxOut \in Nat /\ MaxBytes \in Nat /\ MaxStarts \in Nat
        /\ MaxTrouble \in Nat
    BY MidiAssumption
  <2>3. /\ filled \in 0..BufferQuads /\ arriving \in 0..(BufferQuads - filled)
        /\ cursor \in 0..filled /\ sent \in 0..MaxBytes /\ dropped \in 0..MaxOut
        /\ starts \in 0..MaxStarts /\ trouble \in 0..MaxTrouble
    BY <2>1, <2>2
  <2>4. message \in [next: 1..(MaxOut + 1), last: 0..MaxOut]
    <3>1. 1 \in 1..(MaxOut + 1) /\ 0 \in 0..MaxOut
      BY <2>2
    <3> QED BY <2>1, <3>1
  <2>5. heard \in Seq(1..MaxBytes) /\ played \in Seq(1..MaxOut)
    BY <2>1, EmptySeq
  <2>6. node \in Nodes /\ advertised \in Nodes \cup {NoNode}
    BY <2>1 DEF Nodes
  <2>7. midiInOn \in BOOLEAN /\ desync \in BOOLEAN /\ daemon \in {"down", "up", "polled"}
    BY <2>1
  <2> QED BY <2>1, <2>3, <2>4, <2>5, <2>6, <2>7 DEF MidiTypeOK
<1>2. LayoutInv /\ OnBoundary(cursor)
  BY DEF MidiInit, LayoutInv, OnBoundary
<1>3. Range(<<>>) = {} /\ Rising(<<>>)
  BY DEF Range, Rising
<1>4. OrderInv
  BY <1>3, Zenon DEF MidiInit, OrderInv, HeardOK
<1>5. OutInv
  <2>1. message.next = 1 /\ message.last = 0 /\ played = <<>> /\ dropped = 0 /\ Len(<<>>) = 0
    BY EmptySeq DEF MidiInit
  <2> QED BY <1>3, <2>1 DEF OutInv
<1> QED BY <1>1, <1>2, <1>4, <1>5 DEF MidiInv

\* Every step of MIDI keeps the invariant.
LEMMA MidiStep == MidiInv /\ [MidiNext]_midiVars => MidiInv'
<1> SUFFICES ASSUME MidiInv, [MidiNext]_midiVars PROVE MidiInv'
  OBVIOUS
<1>1. CASE UNCHANGED midiVars
  <2>1. LayoutInv' /\ OnBoundary(cursor)' /\ OrderInv'
    BY <1>1, InKept DEF MidiInv, midiVars, inVars
  <2>2. OutInv'
    BY <1>1, OutKept DEF MidiInv, midiVars
  <2>3. MidiTypeOK'
    BY <1>1 DEF MidiInv, MidiTypeOK, midiVars, inVars, outVars
  <2> QED BY <2>1, <2>2, <2>3 DEF MidiInv
<1> QED BY <1>1, DeviceSendsKeeps, PeerRequestKeeps, RestKeeps, BusKeeps, PollKeeps,
           PollReturnsKeeps, EnableKeeps, DaemonEndsKeeps, MessageComesKeeps, SendOutKeeps
        DEF MidiNext, Poll

\* The invariant of MIDI holds in every state: the requests lie in the buffer one
\* behind the other, the cursor is on a boundary between them, and what CoreMIDI has
\* heard comes before what is still unread.
THEOREM MidiInvariant == MidiSpec => []MidiInv
BY MidiInitially, MidiStep, PTL DEF MidiSpec

\* Every variable of MIDI keeps its type, the bytes MidiInPoll returns included: they
\* are bytes of the device.
THEOREM MidiTypeCorrect == MidiSpec => []MidiTypeOK
<1>1. MidiInv => MidiTypeOK
  BY DEF MidiInv
<1> QED BY <1>1, MidiInvariant, PTL

\* The invariant says what the property says.
LEMMA MidiInvOrders == MidiInv => MidiInOrder
<1> SUFFICES ASSUME MidiInv PROVE MidiInOrder
  OBVIOUS
<1>1. CursorOnBoundary
  BY DEF MidiInv, OnBoundary, CursorOnBoundary, Ends
<1>2. HeardInOrder
  BY DEF MidiInv, OrderInv, HeardOK, Rising, HeardInOrder
<1>3. OutAccounted
  BY DEF MidiInv, OutInv, Rising, OutAccounted
<1> QED BY <1>1, <1>2, <1>3 DEF MidiInOrder

\* For every size of the receive buffer, of a poll and of a request: MidiInPoll never
\* takes data for a header, CoreMIDI gets the device's bytes in order and once, and
\* every byte of an application is played in order or counted as lost.
THEOREM MidiStaysInOrder == MidiSpec => []MidiInOrder
BY MidiInvOrders, MidiInvariant, PTL

\* Only a poll takes the daemon into MidiInPoll.
LEMMA PollHears ==
  ASSUME MidiInv, [MidiNext]_midiVars, daemon = "up", daemon' = "polled",
         Len(heard') - Len(heard) < Capacity
  PROVE  PassedBytes \subseteq Range(heard')
<1>1. midi_poll_in
  BY DEF MidiNext, midiVars, DeviceSends, PeerRequest, Rest, BusReset, BringUp, Poll,
         PollReturns, Enable, Disable, Crash, MessageComes, midi_send_to_ff800
<1>2. cursor' = Walk.off /\ heard' = heard \o Walk.out
  BY <1>1 DEF midi_poll_in, MidiInPoll
<1>3. WalkOK(Walk)
  BY WalkHolds DEF MidiInv
<1>4. Len(Walk.out) < Capacity
  <2> DEFINE a == Len(heard)
             b == Len(Walk.out)
             c == Len(heard')
  <2>1. heard \in Seq(1..MaxBytes) /\ Walk.out \in Seq(1..MaxBytes)
    BY <1>3 DEF WalkOK, WalkStates, MidiInv, MidiTypeOK
  <2>2. a \in Nat /\ b \in Nat /\ c = a + b /\ c - a < Capacity /\ Capacity \in Nat
    BY <1>2, <2>1, ConcatProperties, LenProperties, MidiAssumption
  <2> HIDE DEF a, b, c
  <2>3. b < Capacity
    BY <2>2
  <2> QED BY <2>3 DEF b
<1>5. \A p \in packets : p.ours /\ cursor <= p.at /\ p.at < cursor' =>
        Range(p.bytes) \subseteq Range(heard')
  BY <1>2, <1>3, <1>4 DEF WalkOK
<1> QED BY <1>5 DEF PassedBytes

\* A poll with room left has returned every byte of the requests it walked past.
THEOREM MidiPassedIsHeard == MidiSpec => PassedIsHeard
<1>1. MidiInv /\ [MidiNext]_midiVars =>
        [daemon = "up" /\ daemon' = "polled" /\ Len(heard') - Len(heard) < Capacity
           => PassedBytes \subseteq Range(heard')]_midiVars
  BY PollHears
<1> QED BY <1>1, MidiInvariant, PTL DEF MidiSpec, PassedIsHeard

-----------------------------------------------------------------------------
(* The two parts together. *)

\* A step of the composition is a step of one part and leaves the other one alone.
LEMMA AsyncStepOfParts == [AsyncNext]_asyncVars => [Next]_vars /\ [MidiNext]_midiVars
BY DEF AsyncNext, asyncVars, OfCalls, OfMidi

\* Every variable of the transactor and of MIDI keeps its type in the composition.
THEOREM AsyncTypesCorrect == AsyncSpec => []AsyncTypeOK
<1>1. AsyncInit => AsyncInv /\ MidiInv
  BY Initially, MidiInitially DEF AsyncInit
<1>2. (AsyncInv /\ MidiInv) /\ [AsyncNext]_asyncVars => (AsyncInv /\ MidiInv)'
  BY AsyncStepOfParts, AsyncStep, MidiStep
<1>3. AsyncInv /\ MidiInv => AsyncTypeOK
  BY DEF AsyncInv, MidiInv, AsyncTypeOK
<1> QED BY <1>1, <1>2, <1>3, PTL DEF AsyncSpec

\* The composition keeps each part's promise: the results of the transactions are
\* true, and MIDI stays in order.
THEOREM AsyncKeepsPromises == AsyncSpec => [](ResultIsTrue /\ MidiInOrder)
<1>1. AsyncInit => AsyncInv /\ MidiInv
  BY Initially, MidiInitially DEF AsyncInit
<1>2. (AsyncInv /\ MidiInv) /\ [AsyncNext]_asyncVars => (AsyncInv /\ MidiInv)'
  BY AsyncStepOfParts, AsyncStep, MidiStep
<1>3. AsyncInv /\ MidiInv => ResultIsTrue /\ MidiInOrder
  BY MidiInvOrders
  DEF AsyncInv, CallerInv, ResultTrue, ResultIsTrue, ReadIsAnswer, WriteReached
<1> QED BY <1>1, <1>2, <1>3, PTL DEF AsyncSpec
=============================================================================
