---------------------------- MODULE CaptureDrain ----------------------------
(***************************************************************************)
(* Isochronous receive: the controller drops every packet of the device    *)
(* into the next slot of a ring that wraps by itself; the dext's           *)
(* completion interrupt re-arms the slots the daemon has read and counts   *)
(* the ones that were filled (ohci-dext/UFFireWireOHCI.cpp); the daemon's  *)
(* pump drains them, and watches the stream for missed bus cycles and for  *)
(* silence, either of which makes it rebuild the session                   *)
(* (daemon/uf-daemon.cpp).                                                 *)
(*                                                                         *)
(* A packet is the number of the bus cycle it arrived in.  The controller  *)
(* never waits: a slot nobody has read yet is overwritten.  session_start  *)
(* sleeps with the stream up for longer than a lap of the ring.            *)
(***************************************************************************)
EXTENDS Integers, FiniteSetsExt

CONSTANTS
  Ring,             \* slots of the capture ring (kUFOhciIsoMaxPackets)
  kIrqEvery,        \* packets between interrupts (kUFOhciIrqEvery)
  CycleSpan,        \* cycles the packet's time stamp can tell apart
  kCycleGapRestart, \* cycles between packets that count as a broken stream
  ArmCycles,        \* kCycleArmSec: cycles of the proving window
  FloorCycles,      \* kCycleRestartFloorSec: restarts closer are flapping
  kWedgeMs,         \* cycles without a packet that count as a wedge
  BackoffCycles,    \* the same once three rebuilds have not helped
  WakeCycles,       \* the 20 ms the pump waits for an interrupt
  SettleCycles,     \* cycles session_start sleeps with the stream up
  Horizon,          \* cycles within which the drain is back in step
  MaxCycles,        \* bound on bus cycles
  MaxFaults,        \* bound on what goes wrong: see faults
  MaxRestarts       \* bound on session restarts

ASSUME CaptureAssumption ==
  /\ Ring \in Nat \ {0} /\ kIrqEvery \in Nat \ {0} /\ Ring % kIrqEvery = 0
  /\ CycleSpan \in Nat \ {0} /\ kCycleGapRestart \in Nat \ {0}
  /\ ArmCycles \in Nat /\ FloorCycles \in Nat \ {0} /\ Horizon \in Nat
  /\ kWedgeMs \in Nat /\ BackoffCycles \in Nat /\ SettleCycles \in Nat
  /\ WakeCycles \in Nat
  /\ MaxCycles \in Nat /\ MaxFaults \in Nat /\ MaxRestarts \in Nat
\* The ring holds the packets of three interrupts: those being drained, those the
\* pump has not handed back yet and those coming in (512 slots, 8 packets each).
ASSUME LapAssumption == 3 * kIrqEvery <= Ring /\ CycleSpan > 1

VARIABLES
  cycle,       \* the bus clock
  alive,       \* the device is transmitting
  running,     \* isoRunning
  head,        \* packets the controller has stored this session
  held,        \* slot -> the packet it holds, or Empty
  filled,      \* slots whose transfer_status is set
  write,       \* isoWriteCursor
  read,        \* isoReadCursor
  irq,         \* a completion interrupt is pending
  rxCompleted, \* status page; Empty until the first interrupt ever
  news,        \* the interrupt's message has not been taken yet
  releaseUpTo, \* control block: the pump's cursor for the next interrupt
  pump,        \* the pump: where it is, its cursors and its wedge watch
  watch,       \* the pump's cycle-continuity watch
  calm,        \* history: cycles in a row that everybody kept up with
  stale,       \* history: the session drained the count of an earlier one
  faults,      \* late or missed cycles, turns of the device, requests and failures
  restarts     \* session restarts left

bus == <<cycle, alive, head, calm, faults>>
dext == <<running, filled, write, read, irq, rxCompleted, news>>
captureVars == <<bus, held, dext, releaseUpTo, pump, watch, stale, restarts>>

Empty == 0 - 1
Slots == 0..(Ring - 1)

\* What a new daemon process starts with; UF_CYCLE_RESTART=1 arms at once.
FreshPump ==
  [at |-> "start", up |-> 0, woke |-> 0, total |-> 0, consumed |-> 0,
   progress |-> 0, seen |-> 0, wedges |-> 0]
FreshWatch(armed) ==
  [since |-> Empty, have |-> FALSE, last |-> 0, gaps |-> FALSE, worst |-> 0,
   armed |-> armed, disarmed |-> FALSE, burst |-> 0, at |-> 0 - FloorCycles, restarts |-> 0]

CaptureInit ==
  /\ cycle = 0 /\ alive = TRUE /\ running = FALSE /\ head = 0
  /\ held = [i \in Slots |-> Empty] /\ filled = {} /\ write = 0 /\ read = 0
  /\ irq = FALSE /\ rxCompleted = Empty /\ news = FALSE /\ releaseUpTo = 0
  /\ pump = FreshPump /\ watch \in {FreshWatch(armed) : armed \in BOOLEAN}
  /\ calm = 0 /\ stale = FALSE /\ faults = 0 /\ restarts = MaxRestarts

-----------------------------------------------------------------------------
\* The last interrupt was taken and the pump is done with what it found.
KeptUp == ~irq /\ ~news /\ pump.at = "wait"

\* session_start is asleep with the stream up.
Starting == pump.at = "settle" /\ cycle < pump.up + SettleCycles

\* One bus cycle, with a packet in it or without.
Cycle(packet) ==
  /\ cycle < MaxCycles /\ cycle' = cycle + 1
  /\ packet => alive /\ running
  /\ IF packet
       THEN /\ head' = head + 1
            /\ held' = [held EXCEPT ![head % Ring] = cycle]
            /\ filled' = filled \cup {head % Ring}
            /\ irq' = (irq \/ head % kIrqEvery = 0)
       ELSE UNCHANGED <<head, held, filled, irq>>
  /\ calm' = IF packet /\ KeptUp THEN calm + 1 ELSE 0
  /\ faults' = IF (KeptUp \/ (Starting /\ ~irq)) /\ (packet \/ ~alive \/ ~running)
                 THEN faults ELSE faults + 1
  /\ faults' <= MaxFaults
  /\ UNCHANGED <<alive, running, write, read, rxCompleted, news, releaseUpTo,
                 pump, watch, stale, restarts>>

\* The device stops transmitting, or starts to.
Turn ==
  /\ faults < MaxFaults /\ faults' = faults + 1
  /\ alive' = ~alive
  /\ UNCHANGED <<cycle, head, calm, held, dext, releaseUpTo, pump,
                 watch, stale, restarts>>

\* uf_iso_release: how far the read cursor moves.
ReleaseTo(upTo) == Max({read, Min({upTo, write})})

\* ... and the statuses left once it has re-armed the slots it passed.
Rearmed(to) == filled \ {k % Ring : k \in read..(to - 1)}

\* Mutation: one slot per look instead of all that are filled.
CompletedTo_Single(from, statuses) ==
  IF write < from + Ring /\ write % Ring \in statuses THEN write + 1 ELSE write

\* IsoCompletedCount, and the same scan in the interrupt.
CompletedTo(from, statuses) ==
  Max({w \in write..(from + Ring) :
         \A k \in write..(w - 1) : k % Ring \in statuses})

\* uf_iso_completion, as far as capture goes.
Interrupt ==
  /\ irq /\ irq' = FALSE
  /\ read' = IF releaseUpTo = 0 THEN read ELSE ReleaseTo(releaseUpTo)
  /\ filled' = Rearmed(read')
  /\ write' = IF running THEN CompletedTo(read', filled') ELSE write
  /\ rxCompleted' = write' /\ news' = TRUE
  /\ UNCHANGED <<bus, held, running, releaseUpTo, pump, watch, stale, restarts>>

-----------------------------------------------------------------------------
PumpOnly == UNCHANGED <<bus, held, dext, restarts>>

\* Before the first interrupt of all the tick asks the dext itself: release,
\* then count (kUFOhciPump).
PumpDext ==
  /\ pump.at = "tick" /\ rxCompleted = Empty
  /\ read' = ReleaseTo(pump.consumed)
  /\ filled' = Rearmed(read')
  /\ write' = CompletedTo(read', filled')
  /\ pump' = [pump EXCEPT !.at = "request", !.total = write']
  /\ UNCHANGED <<bus, held, running, irq, rxCompleted, news, releaseUpTo, watch,
                 stale, restarts>>

\* Otherwise it takes the count from the status page ...
ReadStatus ==
  /\ pump.at = "tick" /\ rxCompleted # Empty
  /\ pump' = [pump EXCEPT !.at = "store", !.total = rxCompleted]
  /\ stale' = (stale \/ pump'.total > write)
  /\ PumpOnly /\ UNCHANGED <<releaseUpTo, watch>>

\* Mutation: what this tick is about to drain is handed back already.
StoreControl_Early ==
  /\ pump.at = "store"
  /\ releaseUpTo' = pump.total
  /\ pump' = [pump EXCEPT !.at = "request"]
  /\ PumpOnly /\ UNCHANGED <<watch, stale>>

\* ... and leaves the cursor of the tick before in the control block.
StoreControl ==
  /\ pump.at = "store"
  /\ releaseUpTo' = pump.consumed
  /\ pump' = [pump EXCEPT !.at = "request"]
  /\ PumpOnly /\ UNCHANGED <<watch, stale>>

\* No request for another rate is waiting.
NoRequest ==
  /\ pump.at = "request"
  /\ pump' = [pump EXCEPT !.at = "drain"]
  /\ PumpOnly /\ UNCHANGED <<releaseUpTo, watch, stale>>

\* Mutation: a time stamp that has wrapped is not unwrapped.
Distance_NoWrap(from, to) == (to % CycleSpan) - (from % CycleSpan)

\* The distance between two time stamps, which wrap.
Distance(from, to) ==
  LET d == (to % CycleSpan) - (from % CycleSpan)
  IN  IF d < 0 THEN d + CycleSpan ELSE d

\* The next packet is drained and its time stamp compared with the last one's.
DrainPacket ==
  /\ pump.at = "drain" /\ pump.consumed < pump.total
  /\ LET packet == held[pump.consumed % Ring]
         d == IF watch.have THEN Distance(watch.last, packet) ELSE 1
     IN  watch' = [watch EXCEPT
           !.gaps = @ \/ d # 1,
           !.worst = IF d > kCycleGapRestart THEN d ELSE @,
           !.last = packet, !.have = TRUE]
  /\ pump' = [pump EXCEPT !.consumed = @ + 1]
  /\ PumpOnly /\ UNCHANGED <<releaseUpTo, stale>>

\* The proving window is over: the restart is armed if there was no gap in it.
Proved(w) ==
  IF ~w.armed /\ ~w.disarmed /\ cycle - w.since >= ArmCycles
    THEN [w EXCEPT !.armed = ~w.gaps, !.disarmed = w.gaps]
    ELSE w

Drained ==
  /\ pump.at = "drain" /\ pump.consumed >= pump.total
  /\ watch' = Proved(watch)
  /\ pump' = [pump EXCEPT !.at = "gap"]
  /\ PumpOnly /\ UNCHANGED <<releaseUpTo, stale>>

\* restart_session clears the control block, then stops the stream.
Restart ==
  /\ restarts > 0 /\ restarts' = restarts - 1
  /\ releaseUpTo' = 0
  /\ UNCHANGED <<cycle, alive, head, calm, held, dext, stale>>

\* Mutation: every restart starts a burst of its own.
Burst_NeverFlapping(since) == 0

\* How many restarts in a row came within the floor of the one before.
Burst(since) == IF since < FloorCycles THEN watch.burst + 1 ELSE 0

Broken == watch.worst > 0 /\ watch.armed /\ ~watch.disarmed

\* A gap restarts the stream ...
GapRestart ==
  /\ pump.at = "gap" /\ Broken /\ Burst(cycle - watch.at) < 3
  /\ watch' = [watch EXCEPT !.worst = 0, !.at = cycle, !.have = FALSE,
                 !.burst = Burst(cycle - watch.at), !.restarts = @ + 1]
  /\ pump' = [pump EXCEPT !.at = "stop"]
  /\ Restart /\ UNCHANGED faults

\* ... unless restarts have been coming too fast, which disarms it.
Disarm ==
  /\ pump.at = "gap" /\ Broken /\ Burst(cycle - watch.at) >= 3
  /\ watch' = [watch EXCEPT !.worst = 0, !.at = cycle, !.disarmed = TRUE,
                 !.burst = Burst(cycle - watch.at)]
  /\ pump' = [pump EXCEPT !.at = "wedge"]
  /\ PumpOnly /\ UNCHANGED <<releaseUpTo, stale>>

NoGap ==
  /\ pump.at = "gap" /\ ~Broken
  /\ watch' = [watch EXCEPT !.worst = 0]
  /\ pump' = [pump EXCEPT !.at = "wedge"]
  /\ PumpOnly /\ UNCHANGED <<releaseUpTo, stale>>

\* Packets advanced: the wedge clock starts again.
Progress ==
  /\ pump.at = "wedge" /\ pump.consumed # pump.seen
  /\ pump' = [pump EXCEPT !.at = "wait", !.seen = pump.consumed,
                !.progress = cycle, !.wedges = 0]
  /\ PumpOnly /\ UNCHANGED <<releaseUpTo, watch, stale>>

\* How long without a packet is a wedge, with a back-off after three rebuilds.
Stalled ==
  cycle - pump.progress >
    IF pump.wedges >= 3 THEN BackoffCycles ELSE kWedgeMs

NoProgress ==
  /\ pump.at = "wedge" /\ pump.consumed = pump.seen /\ ~Stalled
  /\ pump' = [pump EXCEPT !.at = "wait"]
  /\ PumpOnly /\ UNCHANGED <<releaseUpTo, watch, stale>>

WedgeRestart ==
  /\ pump.at = "wedge" /\ pump.consumed = pump.seen /\ Stalled
  /\ pump' = [pump EXCEPT !.at = "stop", !.wedges = @ + 1]
  /\ Restart /\ UNCHANGED <<watch, faults>>

\* CoreAudio asked for another rate.
RateRestart ==
  /\ pump.at = "request" /\ faults < MaxFaults /\ faults' = faults + 1
  /\ pump' = [pump EXCEPT !.at = "stop"]
  /\ Restart /\ UNCHANGED watch

\* The interrupt's message, or the 20 ms time-out.
Wake ==
  /\ pump.at = "wait" /\ (news \/ cycle >= pump.woke + WakeCycles)
  /\ news' = FALSE
  /\ pump' = [pump EXCEPT !.at = "tick", !.woke = cycle]
  /\ UNCHANGED <<bus, held, running, filled, write, read, irq, rxCompleted,
                 releaseUpTo, watch, stale, restarts>>

-----------------------------------------------------------------------------
\* IsoStop, from session_stop.
IsoStop ==
  /\ pump.at = "stop"
  /\ running' = FALSE
  /\ pump' = [pump EXCEPT !.at = "start"]
  /\ UNCHANGED <<bus, held, filled, write, read, irq, rxCompleted, news,
                 releaseUpTo, watch, stale, restarts>>

\* IsoStartContinuous: cursors and statuses from the start, the page as it was.
IsoStartContinuous ==
  /\ pump.at = "start"
  /\ running' = TRUE /\ head' = 0
  /\ filled' = {} /\ write' = 0 /\ read' = 0
  /\ pump' = [pump EXCEPT !.at = "settle", !.up = cycle]
  /\ UNCHANGED <<cycle, alive, calm, faults, held, irq, rxCompleted, news,
                 releaseUpTo, watch, stale, restarts>>

\* session_start failed before the stream was up: back to the wedge schedule.
\* The first session of a daemon is tried until it starts.
SessionFails ==
  /\ pump.at = "start" /\ watch.since # Empty
  /\ faults < MaxFaults /\ faults' = faults + 1
  /\ pump' = [pump EXCEPT !.at = "tick", !.progress = cycle]
  /\ UNCHANGED <<cycle, alive, head, calm, held, dext, releaseUpTo, watch, stale,
                 restarts>>

\* session_start returns; only some of what the watches know is reset.
SessionUp ==
  /\ pump.at = "settle" /\ ~Starting
  /\ pump' = [pump EXCEPT !.at = "tick", !.consumed = 0, !.progress = cycle]
  /\ watch' = [watch EXCEPT !.since = IF @ = Empty THEN cycle ELSE @]
  /\ stale' = FALSE
  /\ PumpOnly /\ UNCHANGED releaseUpTo

-----------------------------------------------------------------------------
\* The daemon dies and another one starts.  The dext notices neither: the
\* contexts run on, and the control block keeps the dead daemon's cursor until
\* the first tick of the new one, since it is mapped after session_start.
DaemonCrash ==
  /\ faults < MaxFaults /\ faults' = faults + 1
  /\ restarts > 0 /\ restarts' = restarts - 1
  /\ pump' = FreshPump /\ news' = FALSE
  /\ watch' = FreshWatch(FALSE) /\ calm' = 0
  /\ UNCHANGED <<cycle, alive, head, held, running, filled, write, read, irq,
                 rxCompleted, releaseUpTo, stale>>

-----------------------------------------------------------------------------
Tick == PumpDext \/ ReadStatus \/ StoreControl \/ NoRequest \/ DrainPacket \/ Drained \/ Wake
Watches == GapRestart \/ Disarm \/ NoGap \/ Progress \/ NoProgress \/ WedgeRestart
Session ==
  RateRestart \/ IsoStop \/ IsoStartContinuous \/ SessionFails \/ SessionUp
    \/ DaemonCrash
CaptureNext ==
  \/ \E packet \in BOOLEAN : Cycle(packet)
  \/ Turn \/ Interrupt \/ Tick \/ Watches \/ Session
CaptureSpec == CaptureInit /\ [][CaptureNext]_captureVars

-----------------------------------------------------------------------------
CaptureTypeOK ==
  /\ cycle \in 0..MaxCycles /\ alive \in BOOLEAN /\ running \in BOOLEAN
  /\ head \in Nat /\ held \in [Slots -> Nat \cup {Empty}]
  /\ filled \subseteq Slots /\ write \in Nat /\ read \in 0..write
  /\ irq \in BOOLEAN /\ rxCompleted \in Nat \cup {Empty} /\ news \in BOOLEAN
  /\ releaseUpTo \in Nat
  /\ pump \in [at: {"tick", "store", "request", "drain", "gap", "wedge", "wait",
                    "stop", "start", "settle"}, up: Nat, woke: Nat, total: Nat,
               consumed: Nat, progress: Nat, seen: Nat, wedges: Nat]
  /\ watch \in [since: Nat \cup {Empty}, have: BOOLEAN, last: Nat, gaps: BOOLEAN,
                worst: Nat, armed: BOOLEAN, disarmed: BOOLEAN, burst: Nat,
                at: Int, restarts: Nat]
  /\ calm \in Nat /\ stale \in BOOLEAN
  /\ faults \in 0..MaxFaults /\ restarts \in 0..MaxRestarts

\* "Bounded by one ring-length so we never overtake unreleased slots": the
\* dext never counts a packet the controller has not stored, however often the
\* controller has lapped the ring and whichever statuses an old lap left set.
CountsOnlyStored == write <= head

\* session_start lets the controller lap the ring, so every session begins with
\* slots read in the wrong order, a whole ring re-armed under the controller and
\* up to a lap of waiting; a stall of the pump does the same later, and a device
\* that is slow to start leaves the pump with the count of the session before.
\* Whatever it was, once the stream has been kept up with for Horizon cycles the
\* packet drained last is one of the newest.
CaptureIsFresh == calm >= Horizon => watch.last >= cycle - 1 - kIrqEvery

\* ... and from then on the packets come one cycle after the other: no gap is
\* counted that the controller did not make.
NoPhantomGap ==
  [][calm >= Horizon /\ DrainPacket
       => Distance(watch.last, watch'.last) = 1]_captureVars

\* Dext and pump follow the controller, which is at the packet with the number at
\* in the dext's count, whole laps of the ring having been lost.  The statuses that
\* are set are those of the packets not re-armed yet, and the last interrupt has
\* counted every packet there was;
RingFollows(at) ==
  /\ running /\ at % Ring = head % Ring
  /\ rxCompleted = write /\ write > 0 /\ (write - 1) % kIrqEvery = 0
  /\ filled = {k % Ring : k \in read..(at - 1)}
  /\ IF irq THEN at = write + kIrqEvery ELSE at \in write..(write + kIrqEvery - 1)

\* what the pump has not drained yet came in one cycle after the other, up to the
\* present one, and right after what it drained last;
DataFollows(at) ==
  /\ pump.consumed \in (at - kIrqEvery)..write
  /\ \A k \in pump.consumed..(at - 1) : held[k % Ring] = cycle - (at - k)
  /\ watch.have /\ watch.last = cycle - (at - pump.consumed) - 1

\* and the pump has done, or is about to do, what the last interrupt asks of it,
\* the cursor it hands back for the next one being one tick behind.
PumpFollows(at) ==
  /\ {read, releaseUpTo} \subseteq (write - 2 * kIrqEvery)..pump.consumed
  /\ pump.at \in {"tick", "store", "request", "drain", "gap", "wedge", "wait"}
  /\ irq => ~news /\ pump.consumed = write /\ releaseUpTo >= write - kIrqEvery
  /\ news => at = write
  /\ pump.at \in {"store", "request", "drain"} =>
       pump.total <= write /\ (~news => pump.total = write)
  /\ pump.at \in {"gap", "wedge", "wait"} /\ ~news => pump.consumed = write
  /\ pump.at \in {"request", "drain", "gap", "wedge", "wait"} /\ ~news =>
       releaseUpTo >= write - kIrqEvery

Follows ==
  \E at \in 0..head : RingFollows(at) /\ DataFollows(at) /\ PumpFollows(at)

\* Once the stream has been kept up with for Horizon cycles they do, unless the
\* session is just being taken down.
ComesToFollow ==
  calm >= Horizon /\ running /\ pump.at \notin {"stop", "start", "settle"} => Follows

\* A cycle without a packet or one that finds pump or interrupt late, or the end of
\* the session.
Upset == (cycle' # cycle /\ calm' = 0) \/ pump'.at \in {"stop", "start"}

\* Nothing but that makes them lose the controller again, wherever in its tick the
\* interrupt finds the pump and however often it wakes by itself.
KeepsFollowing == [][Follows /\ ~Upset => Follows']_captureVars

\* A live stream is never torn down as wedged: when the wedge clock runs out,
\* then some cycle since it was started had no packet or found the pump or the
\* interrupt late, the wait for the controller to come round after a lap
\* included.  The one exception is a session that has drained the count the
\* session before it left in the status page.
NoFalseWedge ==
  [][WedgeRestart => calm < kWedgeMs \/ stale]_captureVars

\* "A false positive costs a few restarts, not an endless loop": though a
\* restart brings gaps of its own, a daemon makes at most three of them within
\* any stretch of FloorCycles that starts with one, so their number is bounded
\* by how long it has been up.
FlappingStops ==
  watch.restarts <= 3 * (1 + (cycle - watch.since) \div FloorCycles)

\* The dext's cursor never runs ahead of the controller, and the pump's is back
\* with it within Horizon cycles of whatever went wrong.
CaptureInStep == CountsOnlyStored /\ CaptureIsFresh /\ ComesToFollow

\* The watches of the pump raise no false alarm, about gaps or about a wedge.
NoFalseAlarm == NoPhantomGap /\ NoFalseWedge
=============================================================================
