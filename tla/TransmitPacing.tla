--------------------------- MODULE TransmitPacing ---------------------------
(***************************************************************************)
(* Isochronous transmit: the controller cycles through a ring of packet    *)
(* slots without ever waiting for anybody; the dext's completion interrupt *)
(* finds out how far it got (ohci-dext/UFFireWireOHCI.cpp) and the         *)
(* daemon's pump keeps the slots ahead of it filled (daemon/uf-daemon.cpp).*)
(*                                                                         *)
(* A slot's status is written by the controller when its packet is on the  *)
(* wire and cleared when the slot is handed back.  Pump and interrupt      *)
(* share one page: the interrupt publishes its cursor in it and applies    *)
(* the pump's.  What a slot holds is the number of the packet it was       *)
(* written for.  Interrupts are paced by the capture stream, one every     *)
(* kIrqEvery cycles; the wake-up message they end with is only an edge.    *)
(***************************************************************************)
EXTENDS Integers, FiniteSetsExt

CONSTANTS
  kITPackets,     \* slots of the transmit ring (kUFOhciTxSlots)
  fullCount,      \* full packets per lap of the ring
  kTxIrqEvery,    \* bus cycles between interrupts
  kTxLeadPkts,    \* lead the pump keeps over the transmit head
  kTxMinLeadPkts, \* lead below which the pump resynchronises
  TxSettleCycles, \* bus cycles session_start sleeps with the stream up
  TxHorizon,      \* cycles within which the pump has to be back in step
  MaxTxCycles,    \* bound on bus cycles
  MaxLate,        \* bound on cycles that find the pump or interrupt late
  MaxTxRestarts   \* bound on session restarts

ASSUME RingAssumption ==
  /\ kITPackets \in Nat \ {0} /\ kTxIrqEvery \in Nat \ {0}
  /\ fullCount \in 0..kITPackets
  /\ kTxMinLeadPkts \in Nat /\ kTxLeadPkts \in kTxMinLeadPkts..kITPackets
\* The lead holds the packets of three interrupts and, one of them short, is still
\* above the least one; no two packets in a row are empty (a lead of 64 packets, 8
\* at the least and 8 for each interrupt; half of them full at the lowest rate).
ASSUME LeadAssumption ==
  /\ 3 * kTxIrqEvery <= kTxLeadPkts /\ kTxMinLeadPkts + kTxIrqEvery < kTxLeadPkts
  /\ kITPackets <= 2 * fullCount
ASSUME TxBoundsAssumption ==
  /\ TxSettleCycles \in Nat /\ TxHorizon \in Nat
  /\ MaxTxCycles \in Nat /\ MaxLate \in Nat /\ MaxTxRestarts \in Nat

VARIABLES
  txCycle,    \* the bus clock
  itRunning,  \* itRunning
  txHead,     \* packets the controller has put on the wire this session
  written,    \* slots whose transfer_status the controller has written
  sent,       \* itSentCursor
  fill,       \* itFillCursor
  payload,    \* slot -> the packet number it was filled for, or Silence
  txIrq,      \* a completion interrupt is pending
  txSent,     \* status page: the cursor the last interrupt published
  txNews,     \* the interrupt's message has not been taken yet
  txFillUpTo, \* control block: the pump's cursor for the next interrupt
  txPump,     \* the pump: where it is, its snapshot, txFillPkt
  txCalm,     \* history: cycles in a row that pump and interrupt kept up with
  late,       \* cycles so far that they did not, a starting session aside
  txRestarts  \* session restarts left

txDext == <<itRunning, written, sent, fill, txIrq, txSent, txNews>>
transmitVars ==
  <<txCycle, txHead, txDext, payload, txFillUpTo, txPump, txCalm, late, txRestarts>>

Silence == 0 - 1
TxSlots == 0..(kITPackets - 1)

Slot(packet) == packet % kITPackets

\* is_full_packet: the cadence of full packets spread over the ring.
IsFull(i) ==
  ((i + 1) * fullCount) \div kITPackets > (i * fullCount) \div kITPackets

TransmitInit ==
  /\ txCycle = 0 /\ itRunning = FALSE /\ txHead = 0 /\ written = {}
  /\ sent = 0 /\ fill = 0 /\ payload = [i \in TxSlots |-> Silence]
  /\ txIrq = FALSE /\ txNews = FALSE /\ txSent = 0 /\ txFillUpTo = 0
  /\ txPump = [at |-> "start", sent |-> 0, fillPkt |-> kITPackets, up |-> 0]
  /\ txCalm = 0 /\ late = 0 /\ txRestarts = MaxTxRestarts

-----------------------------------------------------------------------------
\* The last interrupt was taken and the pump is done with what it found.
TxKeptUp == ~txIrq /\ ~txNews /\ txPump.at = "wait"

\* session_start is asleep with both streams up.
TxStarting == txPump.at = "settle" /\ txCycle < txPump.up + TxSettleCycles

\* One bus cycle: the next slot goes on the wire, whatever is in it.
TxCycle ==
  /\ txCycle < MaxTxCycles
  /\ txCycle' = txCycle + 1
  /\ txHead' = IF itRunning THEN txHead + 1 ELSE txHead
  /\ written' = IF itRunning THEN written \cup {Slot(txHead)} ELSE written
  /\ txIrq' = (txIrq \/ (itRunning /\ txHead % kTxIrqEvery = 0))
  /\ txCalm' = IF TxKeptUp THEN txCalm + 1 ELSE 0
  /\ late' = IF TxKeptUp \/ TxStarting THEN late ELSE late + 1
  /\ late' <= MaxLate
  /\ UNCHANGED <<itRunning, sent, fill, txSent, txNews, payload, txFillUpTo, txPump,
                 txRestarts>>

\* uf_it_refill: how far the fill cursor moves, at most one lap ahead of sent.
RefillTo(upTo) == Max({fill, Min({upTo, sent + kITPackets})})

\* Mutation: the status of the slots handed back is left as it was.
Pending_KeepsStatus(to) == written

\* ... and the statuses that are left once it has cleared those it passed.
Pending(to) == written \ {Slot(k) : k \in fill..(to - 1)}

\* The scan: packets sent up to the fill cursor, empty ones counted without a
\* look at their status.
ScanTo(to, statuses) ==
  Max({s \in sent..to : \A k \in sent..(s - 1) :
         IsFull(Slot(k)) => Slot(k) \in statuses})

\* uf_iso_completion, as far as transmit goes.
TxInterrupt ==
  /\ txIrq /\ txIrq' = FALSE
  /\ IF itRunning
       THEN /\ fill' = IF txFillUpTo = 0 THEN fill ELSE RefillTo(txFillUpTo)
            /\ written' = Pending(fill')
            /\ sent' = ScanTo(fill', written')
       ELSE UNCHANGED <<fill, written, sent>>
  /\ txSent' = sent' /\ txNews' = TRUE
  /\ UNCHANGED <<txCycle, itRunning, txHead, payload, txFillUpTo, txPump, txCalm, late,
                 txRestarts>>

-----------------------------------------------------------------------------
TxRest == <<txCycle, txHead, txDext, txCalm, late, txRestarts>>

\* The tick takes the cursor from the status page ...
ReadTxStatus ==
  /\ txPump.at = "tick"
  /\ txPump' = [txPump EXCEPT !.at = "store", !.sent = txSent]
  /\ UNCHANGED <<TxRest, payload, txFillUpTo>>

\* ... and leaves its own, from the tick before, in the control block.
StoreFill ==
  /\ txPump.at = "store"
  /\ txFillUpTo' = txPump.fillPkt
  /\ txPump' = [txPump EXCEPT !.at = "resync"]
  /\ UNCHANGED <<TxRest, payload>>

\* A lead that is lost, or cannot be right, is given up on.
Resync ==
  /\ txPump.at = "resync"
  /\ txPump' = [txPump EXCEPT !.at = "fill", !.fillPkt =
                IF \/ @ < txPump.sent + kTxMinLeadPkts
                   \/ @ - txPump.sent > kITPackets
                  THEN txPump.sent + kTxLeadPkts ELSE @]
  /\ UNCHANGED <<TxRest, payload, txFillUpTo>>

\* The next packet of the lead is written, unless it is an empty one.
FillPacket ==
  /\ txPump.at = "fill" /\ txPump.fillPkt < txPump.sent + kTxLeadPkts
  /\ payload' = IF IsFull(Slot(txPump.fillPkt))
                  THEN [payload EXCEPT ![Slot(txPump.fillPkt)] = txPump.fillPkt]
                  ELSE payload
  /\ txPump' = [txPump EXCEPT !.fillPkt = @ + 1]
  /\ UNCHANGED <<TxRest, txFillUpTo>>

\* The lead is complete: the pump waits for the next interrupt.
Wait ==
  /\ txPump.at = "fill" /\ txPump.fillPkt >= txPump.sent + kTxLeadPkts
  /\ txPump' = [txPump EXCEPT !.at = "wait"]
  /\ UNCHANGED <<TxRest, payload, txFillUpTo>>

\* The interrupt's message, or the 20 ms time-out.
TxWake ==
  /\ txPump.at = "wait"
  /\ txPump' = [txPump EXCEPT !.at = "tick"]
  /\ txNews' = FALSE
  /\ UNCHANGED <<txCycle, txHead, itRunning, written, sent, fill, txIrq, txSent, payload,
                 txFillUpTo, txCalm, late, txRestarts>>

-----------------------------------------------------------------------------
\* restart_session clears the control block, then stops the stream.
TxRestart ==
  /\ txPump.at = "resync" /\ txRestarts > 0
  /\ txRestarts' = txRestarts - 1
  /\ txFillUpTo' = 0
  /\ txPump' = [txPump EXCEPT !.at = "stop"]
  /\ UNCHANGED <<txCycle, txHead, txDext, payload, txCalm, late>>

\* IsoTxStop
IsoTxStop ==
  /\ txPump.at = "stop"
  /\ itRunning' = FALSE
  /\ txPump' = [txPump EXCEPT !.at = "start"]
  /\ UNCHANGED <<txCycle, txHead, written, sent, fill, txIrq, txSent, txNews, payload,
                 txFillUpTo, txCalm, late, txRestarts>>

\* IsoTxStart: the ring starts a full lap filled.
IsoTxStart ==
  /\ txPump.at = "start"
  /\ itRunning' = TRUE /\ txHead' = 0 /\ written' = {}
  /\ sent' = 0 /\ fill' = kITPackets
  /\ txPump' = [txPump EXCEPT !.at = "settle", !.up = txCycle]
  /\ UNCHANGED <<txCycle, txIrq, txSent, txNews, payload, txFillUpTo, txCalm, late,
                 txRestarts>>

\* session_start returns: the pump's cursors are reset and the transmit buffer
\* is silenced.
TxSettle ==
  /\ txPump.at = "settle" /\ ~TxStarting
  /\ payload' = [i \in TxSlots |-> Silence]
  /\ txPump' = [txPump EXCEPT !.at = "tick", !.sent = 0, !.fillPkt = kITPackets]
  /\ UNCHANGED <<TxRest, txFillUpTo>>

-----------------------------------------------------------------------------
TxTick == ReadTxStatus \/ StoreFill \/ Resync \/ FillPacket \/ Wait \/ TxWake
TxSession == TxRestart \/ IsoTxStop \/ IsoTxStart \/ TxSettle
TransmitNext == TxCycle \/ TxInterrupt \/ TxTick \/ TxSession
TransmitSpec == TransmitInit /\ [][TransmitNext]_transmitVars

-----------------------------------------------------------------------------
TransmitTypeOK ==
  /\ txCycle \in 0..MaxTxCycles /\ itRunning \in BOOLEAN /\ txIrq \in BOOLEAN
  /\ txNews \in BOOLEAN
  /\ txHead \in Nat /\ written \subseteq TxSlots
  /\ sent \in Nat /\ fill \in Nat /\ txSent \in Nat /\ txFillUpTo \in Nat
  /\ payload \in [TxSlots -> Nat \cup {Silence}]
  /\ txPump \in [at: {"tick", "store", "resync", "fill", "wait", "stop", "start",
                    "settle"}, sent: Nat, fillPkt: Nat, up: Nat]
  /\ txCalm \in Nat /\ late \in 0..MaxLate /\ txRestarts \in Nat

\* The dext's own note on its cursors: "itSentCursor <= itFillCursor <=
\* itSentCursor + kITPackets", whatever the pump hands over and however late,
\* cursors of the session before included.
LeadWithinLap == sent <= fill /\ fill <= sent + kITPackets

\* The slot going on the wire holds what the pump wrote for a packet that is
\* still ahead of the sent cursor: neither a packet of the lap before nor one
\* the pump is already overwriting for the lap to come.
InStep ==
  IsFull(Slot(txHead)) =>
    /\ payload[Slot(txHead)] \in sent..(txPump.fillPkt - 1)
    /\ Slot(payload[Slot(txHead)]) = Slot(txHead)

\* Every session starts with the lead lost, because session_start sleeps for
\* longer than a lap, and any stall of the pump may lose it again.  Once the
\* pump has kept up for two laps and a lead, the packets on the wire are again
\* the ones it wrote for them, though neither the dext's scan nor the pump's
\* resynchronisation ever learns by how many packets they were off, and stale
\* statuses may have made the scan jump.
RegainsStep == txCalm >= TxHorizon => InStep

\* The pump leads the controller: packet number at goes on the wire next, and was
\* number base when the last interrupt was raised.  That interrupt has counted
\* every packet before base, and base itself if that is an empty one; the statuses
\* ahead of the sent cursor are those of the packets since;
StatusLeads(at, base) ==
  /\ itRunning /\ Slot(at) = Slot(txHead)
  /\ sent = base \/ (sent = base + 1 /\ ~IsFull(Slot(base)))
  /\ txSent = sent /\ (txHead - (at - base) - 1) % kTxIrqEvery = 0
  /\ IF txIrq THEN at = base + kTxIrqEvery ELSE at \in base..(base + kTxIrqEvery - 1)
  /\ \A k \in sent..(fill - 1) : IsFull(Slot(k)) => (Slot(k) \in written <=> k < at)

\* the packets of the lead are written and none is overwritten before its turn, and
\* the slots are handed back one and two interrupts behind;
FillLeads(at, base) ==
  /\ {fill, txFillUpTo} \subseteq (base + kTxLeadPkts - 2 * kTxIrqEvery)..txPump.fillPkt
  /\ txPump.fillPkt \in (base + kTxLeadPkts - kTxIrqEvery)..(txPump.sent + kTxLeadPkts)
  /\ txPump.sent <= sent
  /\ \A k \in at..(txPump.fillPkt - 1) : IsFull(Slot(k)) => payload[Slot(k)] = k

\* and the pump has done, or is about to do, what the last interrupt asks of it.
TickLeads(at, base) ==
  /\ txPump.at \in {"tick", "store", "resync", "fill", "wait"}
  /\ txIrq => /\ ~txNews /\ txPump.fillPkt >= sent + kTxLeadPkts
              /\ txFillUpTo >= base + kTxLeadPkts - kTxIrqEvery
  /\ txNews => at = base
  /\ txPump.at \in {"store", "resync", "fill", "wait"} /\ ~txNews => txPump.sent = sent
  /\ txPump.at \in {"resync", "fill", "wait"} /\ ~txNews =>
       txFillUpTo >= base + kTxLeadPkts - kTxIrqEvery
  /\ txPump.at = "wait" /\ ~txNews => txPump.fillPkt >= sent + kTxLeadPkts

Leads ==
  \E base \in 0..sent : \E at \in base..(base + kTxIrqEvery) :
    StatusLeads(at, base) /\ FillLeads(at, base) /\ TickLeads(at, base)

\* Once the pump has kept up for long enough it does, unless the session is just
\* being taken down.
ComesToLead ==
  txCalm >= TxHorizon /\ txPump.at \notin {"stop", "start", "settle"} => Leads

\* A cycle that finds pump or interrupt late, or the end of the session.
TxUpset == (txCycle' # txCycle /\ txCalm' = 0) \/ txPump'.at = "stop"

\* Nothing but that costs the pump its lead again, wherever in its tick the
\* interrupt finds it and however often it wakes by itself; the resynchronisation
\* in particular never moves a lead that is right.
KeepsLeading == [][Leads /\ ~TxUpset => Leads']_transmitVars

\* The transmit cursors stay within a lap of each other and fall back into step
\* with the controller.
TransmitInStep == LeadWithinLap /\ RegainsStep /\ ComesToLead
=============================================================================
