-------------------------- MODULE AsyncTransactor ---------------------------
(***************************************************************************)
(* The dext's register transactions (ohci-dext/UFFireWireOHCI.cpp): one    *)
(* request block in the transmit context, one buffer in the response       *)
(* context, polling, and no lock.  User-client calls run on one queue, the *)
(* identification that follows a bus reset on another.                     *)
(*                                                                         *)
(* The bus loses requests, acknowledgements and responses, and delivers    *)
(* responses late.  A request is known by its serial number, which is what *)
(* the device sends back as the value read.  A context that gave up on a   *)
(* request is not stopped before the next one has been built over it.  Of  *)
(* the response buffer only the packet at the head is ever looked at, so   *)
(* that is all the model keeps of it.                                      *)
(***************************************************************************)
EXTENDS Naturals, Sequences, FiniteSets

CONSTANTS
  Client,      \* the queue of the user clients' calls
  Reset,       \* the queue that identifies the device after a bus reset
  Labels,      \* transaction labels (64)
  Attempts,    \* attempts of a read or a block write (3)
  MaxCalls,    \* bound on transactions
  MaxReads,    \* bound on the reads of the identification
  MaxFaults    \* bound on what the bus loses and on how often the machine sleeps

Callers == {Client, Reset}
Reads == {"read", "readblock"}
Writes == {"quadlet", "block"}

ASSUME TransactorAssumption ==
  /\ Client # Reset
  /\ MaxReads \in Nat
  /\ Labels \in Nat \ {0} /\ Attempts \in Nat \ {0}
  /\ MaxCalls \in Nat /\ MaxFaults \in Nat

VARIABLES
  powered,  \* g_powered: registers can be touched
  found,    \* ff800Found
  tlabel,   \* the next transaction label
  block,    \* the request in atCPU, or None
  pending,  \* the transmit context has a block to send
  status,   \* transfer_status of the block: "none", "ack" or "error"
  bus,      \* responses on their way
  ar,       \* the packet at the head of the response buffer, or Empty
  call,     \* caller -> its transaction
  reached,  \* writes that reached the device
  serial,   \* transactions begun, the last one's serial number
  made,     \* caller -> transactions it has begun
  faults    \* losses and sleeps so far

vars == <<powered, found, tlabel, block, pending, status, bus, ar, call, reached,
          serial, made, faults>>

None == [id |-> 0, kind |-> "none", label |-> 0]
Empty == [id |-> 0, kind |-> "none", label |-> 0, ok |-> FALSE, whole |-> FALSE]
Idle == [pc |-> "idle", kind |-> "none", id |-> 0, label |-> 0, tries |-> 0,
         ok |-> FALSE, value |-> 0, alone |-> TRUE]

Init ==
  /\ powered = TRUE /\ found \in BOOLEAN /\ tlabel = 0 /\ block = None
  /\ pending = FALSE /\ status = "none" /\ bus = {} /\ ar = Empty
  /\ call = [c \in Callers |-> Idle]
  /\ reached = {} /\ serial = 0 /\ made = [c \in Callers |-> 0] /\ faults = 0

Busy(c) == call[c].pc # "idle"

\* The transactions other callers are in the middle of are not alone any more.
Disturbed(c) ==
  [d \in Callers |-> IF d # c /\ Busy(d) THEN [call[d] EXCEPT !.alone = FALSE]
                                         ELSE call[d]]

\* uf_ar_rearm: the head of the buffer is cleared whether or not the registers
\* that restart the context can be reached.
Rearmed == Empty

Untouched == UNCHANGED <<powered, found, tlabel, block, pending, status, bus, ar,
                         reached, serial, made, faults>>

-----------------------------------------------------------------------------
\* Mutation: the label is not masked to its six bits.
NextLabel_NoWrap(label) == label + 1

\* The label after this one.
NextLabel(label) == (label + 1) % Labels

\* Nobody else is in a transaction, and no answer under the label that is next is
\* still on its way.
Undisturbed(c) ==
  (\A d \in Callers \ {c} : ~Busy(d)) /\ (\A r \in bus : r.label # tlabel)

\* A transaction takes the next label, whoever used it last, and builds its request
\* over the last one.
Begin(c, kind) ==
  /\ ~Busy(c) /\ serial < MaxCalls
  /\ made[c] < (IF c = Reset THEN MaxReads ELSE MaxCalls - MaxReads)
  /\ serial' = serial + 1 /\ made' = [made EXCEPT ![c] = @ + 1]
  /\ tlabel' = NextLabel(tlabel)
  /\ block' = [id |-> serial', kind |-> kind, label |-> tlabel]
  /\ call' = [Disturbed(c) EXCEPT ![c] =
       [pc |-> "run", kind |-> kind, id |-> serial', label |-> tlabel, tries |-> 0,
        ok |-> FALSE, value |-> 0, alone |-> Undisturbed(c)]]
  /\ UNCHANGED <<powered, found, pending, status, bus, reached, faults>>

\* A read, or a block write, restarts the response context on a cleared buffer;
\* a quadlet write leaves it alone.
uf_read_quadlet(c) == Begin(c, "read") /\ ar' = Rearmed
uf_read_block(c) == Begin(c, "readblock") /\ ar' = Rearmed
uf_write_block(c) == Begin(c, "block") /\ ar' = Rearmed
uf_write_quadlet(c) == Begin(c, "quadlet") /\ ar' = ar

\* The transport methods, as the user client dispatches them: none before the
\* device has been found.
ReadQuadlet == found /\ uf_read_quadlet(Client)
WriteQuadlet == found /\ uf_write_quadlet(Client)
WriteBlock == found /\ uf_write_block(Client)
ReadBlock == found /\ uf_read_block(Client)
\* A read of the configuration ROM, after a bus reset.
Identify == uf_read_quadlet(Reset)

Failed(c) == [call EXCEPT ![c] = Idle]
\* Only the result of a transaction that nobody ran into, and that no old answer
\* under its label awaited, is kept.
Succeeded(c, value) ==
  [call EXCEPT ![c] = IF ~@.alone THEN Idle
                      ELSE [@ EXCEPT !.pc = "idle", !.label = 0, !.tries = 0,
                                     !.ok = TRUE, !.value = value]]

\* uf_at_run stops the context, whatever it was about to send, and starts it on
\* the block.  Register writes of a sleeping controller go nowhere.
Run(c) ==
  /\ call[c].pc = "run"
  /\ status' = "none" /\ pending' = powered
  /\ call' = [Disturbed(c) EXCEPT ![c].pc = "poll"]
  /\ UNCHANGED <<powered, found, tlabel, block, bus, ar, reached, serial, made, faults>>

\* The request is done with when the controller has written its ack code.
Acked == status = "ack"

PollAcked(c) ==
  /\ call[c].pc = "poll" /\ powered /\ Acked
  /\ call' = IF call[c].kind \in Reads THEN [call EXCEPT ![c].pc = "await"]
                                       ELSE Succeeded(c, 0)
  /\ Untouched

\* Mutation: the attempt is not counted.
Again_Uncounted(c) == [call EXCEPT ![c].pc = "run"]

\* Another attempt, or none is left.
Again(c) ==
  IF call[c].tries + 1 = Attempts THEN Failed(c)
  ELSE [Disturbed(c) EXCEPT ![c].pc = "run", ![c].tries = @ + 1]

\* An error event, 100 polls without an ack, or a gated register that reads as a
\* dead context.  A quadlet write is not tried again; before another attempt of
\* the others, and after the last one, the response buffer is cleared.
PollFailed(c) ==
  /\ call[c].pc = "poll" /\ (~powered \/ ~Acked)
  /\ call' = IF call[c].kind = "quadlet" THEN Failed(c) ELSE Again(c)
  /\ ar' = IF call[c].kind = "quadlet" THEN ar ELSE Rearmed
  /\ UNCHANGED <<powered, found, tlabel, block, pending, status, bus, reached,
                 serial, made, faults>>

\* Mutation: the label is not compared.
Answers_AnyLabel(packet, c) == packet.kind = call[c].kind

\* The packet at the head of the buffer is the response to this read.
Answers(packet, c) == packet.kind = call[c].kind /\ packet.label = call[c].label

\* The trailer behind the packet, which says that all of it arrived: a quadlet
\* response's was zero before, a block response's is beyond the words uf_ar_rearm
\* clears and may be the one an earlier response left there.
Trailer(c) ==
  IF ar.whole THEN {TRUE} ELSE IF call[c].kind = "readblock" THEN BOOLEAN ELSE {FALSE}

\* The packet at the head answers the read: its trailer, its response code and
\* its value count.  A value the controller has not written yet is an older one.
\* The device has been found when the identification has read its ROM.
Take(c) ==
  /\ call[c].pc = "await" /\ Answers(ar, c)
  /\ \E good \in Trailer(c) :
       /\ call' = IF good /\ ar.ok THEN Succeeded(c, IF ar.whole THEN ar.id ELSE 0)
                                   ELSE Failed(c)
       /\ found' = (found \/ (good /\ ar.ok /\ c = Reset))
  /\ UNCHANGED <<powered, tlabel, block, pending, status, bus, ar, reached, serial,
                 made, faults>>

\* 100 polls without the response at the head of the buffer.
AwaitTimeout(c) ==
  /\ call[c].pc = "await" /\ ~Answers(ar, c)
  /\ call' = Failed(c)
  /\ Untouched

-----------------------------------------------------------------------------
\* What may become of a request, and what each outcome costs of the fault budget:
\* answered with an error code, accepted but never answered, executed though the
\* ack was lost, lost.
Outcomes == {"good", "refused", "unanswered", "unacked", "lost"}

\* The controller sends the block, as it is by now.  A write is answered too when
\* it was acked "pending".
Send(outcome) ==
  /\ pending /\ powered /\ pending' = FALSE
  /\ outcome # "good" => faults < MaxFaults
  /\ outcome = "refused" => block.kind \in Reads
  /\ faults' = IF outcome = "good" THEN faults ELSE faults + 1
  /\ status' = IF outcome \in {"unacked", "lost"} THEN "error" ELSE "ack"
  /\ reached' = IF outcome # "lost" /\ block.kind \in Writes
                  THEN reached \cup {block.id} ELSE reached
  /\ bus' = IF outcome \in {"unanswered", "lost"} THEN bus
            ELSE bus \cup {[kind |-> block.kind, label |-> block.label,
                            id |-> block.id, ok |-> outcome # "refused",
                            whole |-> FALSE]}
  /\ UNCHANGED <<powered, found, tlabel, block, ar, call, serial, made>>

\* A response is appended to the buffer, head first; a packet that is not the
\* first one, or that arrives at a sleeping controller, is never seen.
Receive(r) ==
  /\ r \in bus /\ bus' = bus \ {r}
  /\ ar' = IF powered /\ ar = Empty THEN r ELSE ar
  /\ UNCHANGED <<powered, found, tlabel, block, pending, status, call, reached, serial,
                 made, faults>>
Land ==
  /\ ar # Empty /\ ~ar.whole /\ ar' = [ar EXCEPT !.whole = TRUE]
  /\ UNCHANGED <<powered, found, tlabel, block, pending, status, bus, call, reached,
                 serial, made, faults>>

\* Sleep stops the contexts; waking up rebuilds the controller.
Sleep ==
  /\ powered /\ faults < MaxFaults
  /\ powered' = FALSE /\ pending' = FALSE /\ faults' = faults + 1
  /\ UNCHANGED <<found, tlabel, block, status, bus, ar, call, reached, serial, made>>
WakeUp ==
  /\ ~powered /\ powered' = TRUE
  /\ UNCHANGED <<found, tlabel, block, pending, status, bus, ar, call, reached, serial,
                 made, faults>>

-----------------------------------------------------------------------------
Step(c) ==
  Run(c) \/ PollAcked(c) \/ PollFailed(c) \/ Take(c) \/ AwaitTimeout(c)
Controller ==
  (\E outcome \in Outcomes : Send(outcome)) \/ (\E r \in bus : Receive(r)) \/ Land
Next ==
  \/ ReadQuadlet \/ WriteQuadlet \/ WriteBlock \/ ReadBlock \/ Identify
  \/ \E c \in Callers : Step(c)
  \/ Controller \/ Sleep \/ WakeUp
Spec == Init /\ [][Next]_vars /\ \A c \in Callers : WF_vars(Step(c))

-----------------------------------------------------------------------------
\* The values every variable stays within.
Kind == Reads \cup Writes
Calls ==
  [pc: {"idle", "run", "poll", "await"},
   kind: Kind \cup {"none"}, id: 0..MaxCalls, label: 0..(Labels - 1),
   tries: 0..(Attempts - 1), ok: BOOLEAN, value: 0..MaxCalls, alone: BOOLEAN]
Packets ==
  [kind: Kind, label: 0..(Labels - 1), id: 1..MaxCalls, ok: BOOLEAN,
   whole: BOOLEAN]
TypeOK ==
  /\ powered \in BOOLEAN /\ found \in BOOLEAN /\ pending \in BOOLEAN
  /\ tlabel \in 0..(Labels - 1)
  /\ block \in {None} \cup [id: 1..MaxCalls, kind: Kind, label: 0..(Labels - 1)]
  /\ status \in {"none", "ack", "error"}
  /\ bus \subseteq Packets /\ ar \in {Empty} \cup Packets
  /\ call \in [Callers -> Calls] /\ reached \subseteq 1..MaxCalls
  /\ serial \in 0..MaxCalls /\ made \in [Callers -> 0..MaxCalls]
  /\ faults \in 0..MaxFaults

\* A quadlet read that returns a value returns the device's answer to this read,
\* though answers to earlier reads that were given up on, second answers to a
\* request that was tried again and responses to writes arrive in the same buffer
\* at any time and bit by bit, unless another queue's transaction ran into it, or its
\* label had come round to that of an answer still on its way when it began.
ReadIsAnswer ==
  \A c \in Callers :
    call[c].kind = "read" /\ call[c].ok /\ call[c].alone
      => call[c].value = call[c].id

\* A write that is reported as done has reached the device, with the same two
\* exceptions: neither a context that has not started yet nor the ack of an earlier
\* request is taken for it.
WriteReached ==
  \A c \in Callers :
    call[c].kind \in Writes /\ call[c].ok /\ call[c].alone
      => call[c].id \in reached

\* Every transaction ends, whatever the bus loses, the other queue does or the
\* gate shuts off in the middle.
EveryCallReturns == \A c \in Callers : []<>~Busy(c)

\* What a transaction reports is true: a value read is the device's answer, and a
\* write reported as done has arrived.
ResultIsTrue == ReadIsAnswer /\ WriteReached
=============================================================================
