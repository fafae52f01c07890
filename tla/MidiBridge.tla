----------------------------- MODULE MidiBridge -----------------------------
(***************************************************************************)
(* MIDI between the FF800 and CoreMIDI: the dext's receive context for     *)
(* requests (ohci-dext/UFFireWireOHCI.cpp, MidiInPoll), which the daemon's *)
(* pump polls (daemon/uf-daemon.cpp, midi_poll_in), and the writes by      *)
(* which the daemon plays what applications send.                          *)
(*                                                                         *)
(* Offsets and sizes are in quadlets.  A MIDI byte is known by its number  *)
(* in the stream.  The controller fills the buffer packet by packet, stops *)
(* at its end in the middle of one, and may report a packet it has only    *)
(* begun.  Requests of other nodes land in the same buffer.                *)
(***************************************************************************)
EXTENDS Integers, Sequences, Functions

CONSTANTS
  BufferQuads,   \* size of the receive buffer (kARBufferBytes / 4 = 1024)
  Capacity,      \* bytes a poll returns (8)
  MaxBlock,      \* MIDI bytes in one request of the device (kMidiAddrRange / 4)
  kMidiMaxQuads, \* bytes in one write to the device (9)
  MaxBytes,      \* bound on the bytes the device sends
  MaxOut,        \* bound on the bytes an application sends
  MaxStarts,     \* bound on the daemon's starts
  MaxTrouble     \* bound on foreign requests, split packets, resets and lost writes

ASSUME MidiAssumption ==
  /\ BufferQuads \in Nat \ {0} /\ Capacity \in Nat \ {0} /\ MaxBlock \in Nat \ {0}
  /\ kMidiMaxQuads \in Nat \ {0}
  /\ {MaxBytes, MaxOut, MaxStarts, MaxTrouble} \subseteq Nat

VARIABLES
  packets,    \* the requests in the buffer, each with its offset
  filled,     \* BufferQuads - res_count: what the controller reports as written
  arriving,   \* what it has not written yet of the last packet
  cursor,     \* arReqReadBytes
  midiInOn,   \* midiInOn
  node,       \* localNodeId
  advertised, \* the node the device writes its MIDI to, or NoNode
  daemon,     \* "down", "up", or "polled": inside MidiInPoll, behind its walk
  desync,     \* desync of that poll
  sent,       \* bytes the device has sent
  heard,      \* bytes handed to CoreMIDI since MidiInEnable
  message,    \* bytes of the application's message not written yet: first and last
  played,     \* bytes the device has been given
  dropped,    \* bytes of messages that were lost on the way to it
  starts,     \* starts of the daemon
  trouble     \* faults so far

inVars == <<packets, filled, arriving, cursor>>
outVars == <<message, played, dropped>>
midiVars == <<inVars, midiInOn, node, advertised, daemon, desync, sent, heard, outVars,
              starts, trouble>>

Nodes == {0, 1}
NoNode == -1

MidiInit ==
  /\ packets = {} /\ filled = 0 /\ arriving = 0 /\ cursor = 0 /\ midiInOn = FALSE
  /\ node = 0 /\ advertised = NoNode /\ daemon = "down" /\ desync = FALSE
  /\ sent = 0 /\ heard = <<>> /\ message = [next |-> 1, last |-> 0] /\ played = <<>>
  /\ dropped = 0
  /\ starts = 0 /\ trouble = 0

Spend(n) == trouble + n <= MaxTrouble /\ trouble' = trouble + n

-----------------------------------------------------------------------------
(* The controller and the nodes on the bus. *)

\* A read request is three header quadlets, a quadlet write four with its data, a
\* block write four and its data; the controller appends a trailer to each.
Size(p) ==
  CASE p.tcode = "read" -> 4 [] p.tcode = "quadlet" -> 5 [] OTHER -> 5 + Len(p.bytes)

\* The controller stores the packet as far as the buffer goes, at once or after
\* having reported its header; a context with a full buffer accepts nothing.
Accept(tcode, ours, bytes) ==
  LET p == [at |-> filled, tcode |-> tcode, ours |-> ours, bytes |-> bytes]
      room == BufferQuads - filled
      stored == IF Size(p) < room THEN Size(p) ELSE room
  IN  /\ arriving = 0
      /\ IF room = 0 THEN Spend(0) /\ UNCHANGED inVars
         ELSE /\ packets' = packets \cup {p} /\ UNCHANGED cursor
              /\ \/ filled' = filled + stored /\ arriving' = 0 /\ Spend(0)
                 \/ /\ stored > 4 /\ Spend(1)
                    /\ filled' = filled + 4 /\ arriving' = stored - 4

Rest ==
  /\ arriving > 0 /\ arriving' = 0 /\ filled' = filled + arriving
  /\ UNCHANGED <<packets, cursor, midiInOn, node, advertised, daemon, desync, sent,
                 heard, outVars, starts, trouble>>

\* The device sends to the node it was told; nobody else takes the bytes.
DeviceSends(k) ==
  /\ advertised # NoNode /\ sent + k <= MaxBytes
  /\ sent' = sent + k
  /\ IF advertised = node
       THEN Accept(IF k = 1 THEN "quadlet" ELSE "block", TRUE,
                   [i \in 1..k |-> sent + i])
       ELSE Spend(0) /\ UNCHANGED inVars
  /\ UNCHANGED <<midiInOn, node, advertised, daemon, desync, heard, outVars, starts>>

\* A node reads our configuration ROM, or writes to another address of ours.
PeerRequest(tcode) ==
  /\ trouble < MaxTrouble /\ filled < BufferQuads /\ arriving = 0
  /\ LET p == [at |-> filled, tcode |-> tcode, ours |-> FALSE, bytes |-> <<>>]
     IN  /\ packets' = packets \cup {p}
         /\ filled' = IF filled + Size(p) < BufferQuads THEN filled + Size(p)
                                                        ELSE BufferQuads
  /\ Spend(1)
  /\ UNCHANGED <<arriving, cursor, midiInOn, node, advertised, daemon, desync, sent,
                 heard, outVars, starts>>

\* The bus numbers its nodes again.
BusReset ==
  /\ Spend(1) /\ node' \in Nodes \ {node}
  /\ UNCHANGED <<inVars, midiInOn, advertised, daemon, desync, sent, heard, outVars,
                 starts>>

-----------------------------------------------------------------------------
(* The dext. *)

\* uf_arreq_rearm: the context is stopped, what it was writing is gone, and it
\* starts over at the head of the buffer, as the walk does.
Rearm == packets' = {} /\ filled' = 0 /\ arriving' = 0 /\ cursor' = 0

\* The bring-up after a wake arms the context too.
BringUp ==
  /\ Spend(1) /\ Rearm
  /\ UNCHANGED <<midiInOn, node, advertised, daemon, desync, sent, heard, outVars,
                 starts>>

\* What is read as a packet at an offset: anything, where none starts.
PacketAt(off) ==
  IF \E p \in packets : p.at = off THEN CHOOSE p \in packets : p.at = off
  ELSE [at |-> off, tcode |-> "read", ours |-> FALSE, bytes |-> <<>>]

\* Mutation: the last byte that fits is left out.
Taken_OneShort(p, n) ==
  IF p.ours THEN SubSeq(p.bytes, 1, IF Len(p.bytes) < Capacity - n
                                      THEN Len(p.bytes) ELSE Capacity - n - 1)
            ELSE <<>>

\* The bytes of a request that a poll which has n already takes from it: those
\* that still fit.
Taken(p, n) ==
  IF p.ours THEN SubSeq(p.bytes, 1, IF Len(p.bytes) < Capacity - n
                                      THEN Len(p.bytes) ELSE Capacity - n)
            ELSE <<>>

\* Mutation: a request of which not every byte fitted is read again.
After_StaysAtCut(p, n) ==
  IF Len(Taken(p, n)) < Len(p.bytes) THEN p.at ELSE p.at + Size(p)

\* Where the walk goes on, all of the request's bytes taken or not.
After(p, n) == p.at + Size(p)

\* The loop's variables: the offset, the bytes so far, and whether it has lost the
\* boundaries of the packets.
WalkStates ==
  [off: 0..BufferQuads, out: Seq(1..MaxBytes), desync: BOOLEAN]

\* A turn of the loop: it ends at what the controller reports, with all the bytes
\* there is room for, and at a packet that is not all there or cannot be sized; one
\* more turn then changes nothing.
turn[w \in WalkStates] ==
  LET p == PacketAt(w.off)
      n == Len(w.out)
  IN  IF w.off + 4 > filled \/ n = Capacity THEN w
      ELSE IF p.tcode = "read" \/ w.off + Size(p) > filled
        THEN [w EXCEPT !.desync = p.tcode # "quadlet"]
        ELSE [w EXCEPT !.off = After(p, n), !.out = @ \o Taken(p, n)]

\* The loop of MidiInPoll after i turns; no buffer takes more of them than its size.
walk[i \in 0..BufferQuads] ==
  IF i = 0 THEN [off |-> cursor, out |-> <<>>, desync |-> FALSE]
  ELSE turn[walk[i - 1]]

Walk == walk[BufferQuads]

\* MidiInPoll up to the end of its walk: the bytes are in its caller's hands.
MidiInPoll ==
  /\ midiInOn /\ cursor' = Walk.off /\ desync' = Walk.desync
  /\ UNCHANGED <<packets, filled, arriving, midiInOn>>

\* Mutation: a full buffer is recycled only once all of it has been read.
Spent_WhenRead == desync \/ (filled = BufferQuads /\ cursor >= filled)

\* The walk is lost, or the buffer is full by now, read or not.
Spent == desync \/ filled = BufferQuads

\* The end of MidiInPoll, by when more may have arrived.
Recycle == IF Spent THEN Rearm ELSE UNCHANGED inVars

PollReturns ==
  /\ daemon = "polled" /\ daemon' = "up" /\ desync' = FALSE /\ Recycle
  /\ UNCHANGED <<midiInOn, node, advertised, sent, heard, outVars, starts, trouble>>

-----------------------------------------------------------------------------
(* The daemon. *)

\* A poll of the pump, whose bytes go to CoreMIDI.
midi_poll_in ==
  /\ daemon = "up" /\ daemon' = "polled"
  /\ MidiInPoll /\ heard' = heard \o Walk.out
  /\ UNCHANGED <<node, advertised, sent, outVars, starts, trouble>>

\* A write of the device's address register: one that fails changes nothing, and
\* nobody looks.
Advertise(to) ==
  \/ advertised' = to /\ Spend(0)
  \/ UNCHANGED advertised /\ Spend(1)

\* The walk starts at the head of the buffer again, whatever is in it.
MidiInEnable ==
  /\ midiInOn' = TRUE /\ cursor' = 0 /\ Advertise(node)
  /\ UNCHANGED <<packets, filled, arriving>>
MidiInDisable == midiInOn' = FALSE /\ Advertise(NoNode) /\ UNCHANGED inVars

\* A daemon enables MIDI once, when its session is up.
Enable ==
  /\ daemon = "down" /\ starts < MaxStarts
  /\ starts' = starts + 1 /\ daemon' = "up" /\ heard' = <<>> /\ MidiInEnable
  /\ UNCHANGED <<node, desync, sent, outVars>>

\* The rest of a message an application is sending goes with the daemon.
Forget ==
  /\ message' = [message EXCEPT !.next = message.last + 1]
  /\ dropped' = dropped + (message.last - message.next + 1)

\* It disables it when it stops.
Disable ==
  /\ daemon = "up" /\ daemon' = "down" /\ MidiInDisable /\ Forget
  /\ UNCHANGED <<node, desync, sent, heard, played, starts>>

\* A daemon that dies leaves the dext and the device as they are.
Crash ==
  /\ daemon # "down" /\ daemon' = "down" /\ desync' = FALSE
  /\ Forget
  /\ IF daemon = "polled" THEN Recycle ELSE UNCHANGED inVars
  /\ Spend(1)
  /\ UNCHANGED <<midiInOn, node, advertised, sent, heard, played, starts>>

\* An application sends a message; CoreMIDI calls midi_read_proc.
MessageComes(n) ==
  /\ daemon # "down" /\ message.next > message.last /\ message.last + n <= MaxOut
  /\ message' = [message EXCEPT !.last = @ + n]
  /\ UNCHANGED <<inVars, midiInOn, node, advertised, daemon, desync, sent, heard, played,
                 dropped, starts, trouble>>

\* midi_out_quadlets: a byte per quadlet, no more than a transaction takes.
midi_out_quadlets(first, n) ==
  [i \in 1..(IF n > kMidiMaxQuads THEN kMidiMaxQuads ELSE n) |-> first + i - 1]

\* What midi_send_to_ff800 hands to the next transaction.
Chunk ==
  LET left == message.last - message.next + 1
  IN  IF left < kMidiMaxQuads THEN left ELSE kMidiMaxQuads

\* A transaction, which the bus may lose without anyone noticing.
midi_send_to_ff800 ==
  /\ message.next <= message.last
  /\ message' = [message EXCEPT !.next = @ + Chunk]
  /\ \/ /\ played' = played \o midi_out_quadlets(message.next, Chunk)
        /\ UNCHANGED dropped /\ Spend(0)
     \/ UNCHANGED played /\ dropped' = dropped + Chunk /\ Spend(1)
  /\ UNCHANGED <<inVars, midiInOn, node, advertised, daemon, desync, sent, heard,
                 starts>>

-----------------------------------------------------------------------------
Poll == midi_poll_in \/ PollReturns
MidiNext ==
  \/ \E k \in 1..MaxBlock : DeviceSends(k)
  \/ \E tcode \in {"read", "quadlet"} : PeerRequest(tcode)
  \/ Rest \/ BusReset \/ BringUp \/ Poll \/ Enable \/ Disable \/ Crash
  \/ \E n \in 1..MaxOut : MessageComes(n)
  \/ midi_send_to_ff800
\* The pump polls on every tick; the controller finishes what it writes.
MidiSpec == MidiInit /\ [][MidiNext]_midiVars /\ WF_midiVars(Poll) /\ WF_midiVars(Rest)

-----------------------------------------------------------------------------
\* The values every variable stays within.
Bytes == UNION {[1..n -> 1..MaxBytes] : n \in 0..MaxBlock}
MidiTypeOK ==
  /\ packets \subseteq [at: 0..BufferQuads, tcode: {"read", "quadlet", "block"},
                        ours: BOOLEAN, bytes: Bytes]
  /\ filled \in 0..BufferQuads /\ arriving \in 0..(BufferQuads - filled)
  /\ cursor \in 0..filled
  /\ midiInOn \in BOOLEAN /\ node \in Nodes /\ advertised \in Nodes \cup {NoNode}
  /\ daemon \in {"down", "up", "polled"} /\ desync \in BOOLEAN
  /\ sent \in 0..MaxBytes /\ heard \in Seq(1..MaxBytes)
  /\ message \in [next: 1..(MaxOut + 1), last: 0..MaxOut]
  /\ played \in Seq(1..MaxOut) /\ dropped \in 0..MaxOut
  /\ starts \in 0..MaxStarts /\ trouble \in 0..MaxTrouble

\* MidiInPoll never takes the data of a request for a header: its cursor is at the
\* start of a packet or behind the last one, whatever was cut off at the end of
\* the buffer, restarted in the middle of a packet or enabled again.
CursorOnBoundary ==
  cursor = 0 \/ \E p \in packets : cursor \in {p.at, p.at + Size(p)}

\* From one MidiInEnable to the next, CoreMIDI gets the device's bytes in the order
\* they were sent and none of them twice, though the buffer is restarted with
\* requests in it and a poll may end in the middle of one.
HeardInOrder ==
  \A i, j \in DOMAIN heard : i < j => heard[i] < heard[j]

\* The bytes of the requests MidiInPoll walks past.
PassedBytes ==
  UNION {Range(p.bytes) : p \in {q \in packets : q.ours /\ cursor <= q.at /\ q.at < cursor'}}

\* A poll that returns fewer bytes than it has room for has returned every byte of
\* the requests it walked past: only a backlog loses bytes to the limit of a poll.
PassedIsHeard ==
  [][daemon = "up" /\ daemon' = "polled" /\ Len(heard') - Len(heard) < Capacity
       => PassedBytes \subseteq Range(heard')]_midiVars

\* The port never stays dead: while the daemon polls, the buffer is over and over
\* again not full and read to its end, whatever kind of request or piece of one
\* the walk met.
PortComesBack == []<>(daemon = "down" \/ (filled < BufferQuads /\ cursor + 4 > filled))

\* The device gets the bytes of applications in order, and each of them that was
\* not in a transaction the bus lost or left over when the daemon ended.
OutAccounted ==
  /\ Len(played) + dropped = message.next - 1
  /\ \A i, j \in DOMAIN played : i < j => played[i] < played[j]

\* Bytes pass in order and once in both directions, and the walk through the
\* receive buffer never loses its footing.
MidiInOrder == CursorOnBoundary /\ HeardInOrder /\ OutAccounted
=============================================================================
