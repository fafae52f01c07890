----------------------------- MODULE DextPower ------------------------------
(***************************************************************************)
(* Bring-up, sleep and wake, and bus resets of the dext                    *)
(* (ohci-dext/UFFireWireOHCI.cpp).  Start programs the controller on its   *)
(* own thread, SetPowerState arrives from the power manager at any time,   *)
(* and one serial queue runs the interrupt handler and the rebuilds that   *)
(* wakes leave on it.  Every register access goes through the sleep gate:  *)
(* a write to a closed gate is dropped and a read returns all ones, which  *)
(* some loops take for failure and the link-power loop for success.        *)
(*                                                                         *)
(* The bus has the host and perhaps the device on it; the root has the     *)
(* highest node number, so a reset that moves the root renumbers the       *)
(* device.  The device cannot be cycle master.                             *)
(***************************************************************************)
EXTENDS Naturals, Sequences, FiniteSets

CONSTANTS
  MaxOffs,     \* bound on how often the machine goes to sleep
  MaxResets,   \* bound on bus resets nobody here asked for
  MaxFaults    \* bound on operations that fail with the power on

ASSUME PowerAssumption == MaxOffs \in Nat /\ MaxResets \in Nat /\ MaxFaults \in Nat

VARIABLES
  gate,       \* g_powered
  live,       \* the controller has power
  hw,         \* the controller: how far it is set up, its events and masks
  bus,        \* the bus: device attached, root, settled, root hold-off set here,
              \* another node holds it too, the device's node in the self-IDs
  intOn,      \* the interrupt source is enabled
  starting,   \* Start: "idle", "buffers", a step of the bring-up, "finish", "done",
              \* "failed"
  job,        \* what the serial queue is running
  queued,     \* rebuilds waiting on it
  started, wasPoweredDown,
  found,      \* ff800Found with ff800Node: the node, or None
  isRoot, forced,   \* isRoot, forcedFF800Root
  stopped,    \* Stop has run
  count,      \* sleeps, foreign resets and faults so far
  history     \* what the exceptions of the properties are about

vars == <<gate, live, hw, bus, intOn, starting, job, queued, started, wasPoweredDown,
          found, isRoot, forced, stopped, count, history>>

None == "none"
Nodes == {None, "low", "high"}
Steps == {"reset", "lps", "program", "kick"}
Handling == {"nodeid", "identify", "conclude"}
Blank == [stage |-> "lost", busReset |-> FALSE, selfId |-> FALSE, tooLong |-> FALSE,
          masked |-> FALSE, master |-> FALSE]
\* nodes and local are what the interrupt handler keeps in locals across its 200 ms
\* pause: the number of self-IDs and the host's own node (None: no node of this bus).
NoJob == [kind |-> "idle", step |-> "idle", nodes |-> 0, local |-> None]

\* The device's node number, given who is root, and the host's.
NodeOf(root) == IF root = "device" THEN "high" ELSE "low"
HostOf(root) == IF root = "host" THEN "high" ELSE "low"

Init ==
  /\ gate = TRUE /\ live = TRUE /\ hw = Blank
  /\ bus \in [attached: BOOLEAN, root: {"host"}, settled: {TRUE}, rhb: {FALSE},
              rival: BOOLEAN, ids: {None}]
  /\ intOn = FALSE /\ starting = "idle" /\ job = NoJob /\ queued = 0
  /\ started = FALSE /\ wasPoweredDown = FALSE /\ found = None
  /\ isRoot = FALSE /\ forced = FALSE /\ stopped = FALSE
  /\ count = [offs |-> 0, resets |-> 0, faults |-> 0]
  /\ history = [failed |-> FALSE, offInStart |-> FALSE, lostForce |-> FALSE,
                late |-> FALSE, missed |-> FALSE]

Fault ==
  count.faults < MaxFaults /\ count' = [count EXCEPT !.faults = @ + 1]

-----------------------------------------------------------------------------
(* uf_hw_bring_up, step by step, run by Start and by the rebuilds *)

\* A bus reset, with the link up to notice it: the node numbers are void until
\* the self-IDs are in.
ResetBus(h) == [h EXCEPT !.busReset = @ \/ h.stage = "up"]
Unsettled(b) == [b EXCEPT !.settled = FALSE]

\* What a step leaves in the controller.  Soft reset clears everything, whatever
\* state the controller is in; the link needs power before it can be programmed.
Programmed(step) ==
  IF ~gate THEN hw
  ELSE CASE step = "reset" -> [Blank EXCEPT !.stage = "reset"]
         [] step = "lps" -> [hw EXCEPT !.stage = "linked"]
         [] step = "program" -> [hw EXCEPT !.stage = IF @ = "linked" THEN "up" ELSE @,
                                           !.master = TRUE, !.masked = FALSE]
         [] step = "kick" -> ResetBus(hw)

After == [reset |-> "lps", lps |-> "program", program |-> "kick"]

\* With the gate shut the soft reset and the PHY read of the last step find no
\* device; the link-power loop reads all ones and goes on.
Gated(step) == ~gate /\ step \in {"reset", "kick"}

\* A step is taken, or it fails: at the gate, at a controller that lost its power
\* since the soft reset, or because the controller does not respond.
StepTaken(step) == ~Gated(step) /\ hw' = Programmed(step) /\ count' = count
StepBroken(step) ==
  /\ UNCHANGED hw
  /\ \/ Gated(step) /\ UNCHANGED <<count, history>>
     \/ gate /\ step = "kick" /\ hw.stage \in {"lost", "reset"} /\ UNCHANGED <<count, history>>
     \/ /\ gate /\ step # "program" /\ Fault
        /\ history' = [history EXCEPT !.failed = TRUE]

Kicked(step) == IF step = "kick" /\ gate THEN Unsettled(bus) ELSE bus

-----------------------------------------------------------------------------
(* Start *)

\* Mutation: SetPowerState is let in before the controller is programmed.
StartAllocate_Started ==
  /\ starting = "idle" /\ starting' = "buffers" /\ intOn' = TRUE /\ started' = TRUE
  /\ UNCHANGED <<gate, live, hw, bus, job, queued, wasPoweredDown, found, isRoot,
                 forced, stopped, count, history>>

\* The self-ID and status buffers, the queue and the interrupt source, which is
\* enabled at once.
StartAllocate ==
  /\ starting = "idle" /\ starting' = "buffers" /\ intOn' = TRUE
  /\ UNCHANGED <<gate, live, hw, bus, job, queued, started, wasPoweredDown, found,
                 isRoot, forced, stopped, count, history>>

\* The isochronous buffers and descriptors and the configuration ROM's buffer, the
\* ones whose result Start looks at.
StartBuffers ==
  /\ starting = "buffers" /\ starting' = "reset"
  /\ UNCHANGED <<gate, live, hw, bus, intOn, job, queued, started, wasPoweredDown,
                 found, isRoot, forced, stopped, count, history>>

\* One of the results that Start looks at is a failure, or memory in more than one
\* piece, and ends it; an interrupt source that is enabled by then stays so.  The
\* results for the asynchronous contexts, and of every mapping, are not looked at:
\* what follows from such a failure is not modelled.
StartNoMemory ==
  /\ starting \in {"idle", "buffers"} /\ starting' = "failed" /\ Fault
  /\ history' = [history EXCEPT !.failed = TRUE]
  /\ UNCHANGED <<gate, live, hw, bus, intOn, job, queued, started, wasPoweredDown,
                 found, isRoot, forced, stopped>>

StartStep ==
  /\ starting \in Steps /\ StepTaken(starting)
  /\ bus' = Kicked(starting)
  /\ starting' = IF starting = "kick" THEN "finish" ELSE After[starting]
  /\ UNCHANGED <<gate, live, intOn, job, queued, started, wasPoweredDown, found,
                 isRoot, forced, stopped, history>>

StartFails ==
  /\ starting \in Steps /\ StepBroken(starting) /\ starting' = "failed"
  /\ UNCHANGED <<gate, live, bus, intOn, job, queued, started, wasPoweredDown, found,
                 isRoot, forced, stopped>>

StartFinish ==
  /\ starting = "finish" /\ starting' = "done"
  /\ started' = TRUE /\ wasPoweredDown' = FALSE
  /\ UNCHANGED <<gate, live, hw, bus, intOn, job, queued, found, isRoot, forced,
                 stopped, count, history>>

-----------------------------------------------------------------------------
(* SetPowerState *)

\* The way down: nothing but the gate, the interrupt source and the flags.
PowerOff ==
  /\ gate /\ starting # "idle" /\ ~stopped /\ count.offs < MaxOffs
  /\ count' = [count EXCEPT !.offs = @ + 1]
  /\ gate' = FALSE /\ intOn' = FALSE /\ wasPoweredDown' = TRUE
  /\ history' = [history EXCEPT !.offInStart = @ \/ ~started]
  /\ UNCHANGED <<live, hw, bus, starting, job, queued, started, found, isRoot, forced,
                 stopped>>

\* Power goes after that, and with it all the controller and its PHY knew.
PowerCut ==
  /\ ~gate /\ live /\ live' = FALSE /\ hw' = Blank
  /\ bus' = [bus EXCEPT !.rhb = FALSE]
  /\ history' = [history EXCEPT !.lostForce = @ \/ forced]
  /\ UNCHANGED <<gate, intOn, starting, job, queued, started, wasPoweredDown, found,
                 isRoot, forced, stopped, count>>

\* Only a power-on that followed a way down, after Start, is a wake.
IsWake == started /\ wasPoweredDown

\* The way up: the gate first, then a rebuild is left on the queue.
PowerOn ==
  /\ ~gate /\ ~stopped /\ gate' = TRUE /\ live' = TRUE
  /\ IF IsWake THEN queued' = queued + 1 /\ wasPoweredDown' = FALSE
               ELSE UNCHANGED <<queued, wasPoweredDown>>
  /\ UNCHANGED <<hw, bus, intOn, starting, job, started, found, isRoot, forced, stopped,
                 count, history>>

-----------------------------------------------------------------------------
(* The rebuild on the queue *)

\* A rebuild that was queued before another sleep or a stop does nothing.
MayRebuild == gate /\ started

\* Mutation: a rebuild that finds the machine asleep again puts itself back twice.
RebuildBegin_Requeues ==
  /\ job.kind = "idle" /\ queued > 0
  /\ queued' = IF gate THEN queued - 1 ELSE queued + 1
  /\ job' = IF MayRebuild THEN [NoJob EXCEPT !.kind = "rebuild", !.step = "reset"]
                          ELSE NoJob
  /\ UNCHANGED <<gate, live, hw, bus, intOn, starting, started, wasPoweredDown, found,
                 isRoot, forced, stopped, count, history>>

RebuildBegin ==
  /\ job.kind = "idle" /\ queued > 0 /\ queued' = queued - 1
  /\ job' = IF MayRebuild THEN [NoJob EXCEPT !.kind = "rebuild", !.step = "reset"]
                          ELSE NoJob
  /\ UNCHANGED <<gate, live, hw, bus, intOn, starting, started, wasPoweredDown, found,
                 isRoot, forced, stopped, count, history>>

RebuildStep ==
  /\ job.kind = "rebuild" /\ job.step \in Steps /\ StepTaken(job.step)
  /\ bus' = Kicked(job.step)
  /\ job' = [job EXCEPT !.step = IF @ = "kick" THEN "enable" ELSE After[@]]
  /\ UNCHANGED <<gate, live, intOn, starting, queued, started, wasPoweredDown, found,
                 isRoot, forced, stopped, history>>

RebuildFails ==
  /\ job.kind = "rebuild" /\ job.step \in Steps /\ StepBroken(job.step) /\ job' = NoJob
  /\ UNCHANGED <<gate, live, bus, intOn, starting, queued, started, wasPoweredDown,
                 found, isRoot, forced, stopped>>

RebuildEnable ==
  /\ job.kind = "rebuild" /\ job.step = "enable" /\ job' = NoJob
  /\ intOn' = (intOn \/ ~stopped)
  /\ UNCHANGED <<gate, live, hw, bus, starting, queued, started, wasPoweredDown, found,
                 isRoot, forced, stopped, count, history>>

-----------------------------------------------------------------------------
(* The interrupt handler *)

Raised == (hw.busReset /\ ~hw.masked) \/ hw.selfId \/ hw.tooLong

\* The events are read and cleared, busReset masked until the self-IDs have been
\* seen to, cycleMaster put back if the root is here.  With the gate shut all ones
\* are read and the handler returns.
Interrupt ==
  /\ job.kind = "idle" /\ intOn /\ gate /\ hw.stage = "up" /\ Raised
  /\ hw' = [hw EXCEPT !.selfId = FALSE, !.tooLong = FALSE, !.masked = @ \/ hw.busReset,
                      !.master = @ \/ (hw.tooLong /\ isRoot)]
  /\ job' = IF hw.selfId THEN [NoJob EXCEPT !.kind = "irq", !.step = "nodeid"] ELSE NoJob
  /\ UNCHANGED <<gate, live, bus, intOn, starting, queued, started, wasPoweredDown,
                 found, isRoot, forced, stopped, count, history>>

\* A write the gate may drop.
Write(h) == IF gate THEN h ELSE hw

\* A self-ID error, or a node number that does not become valid in time: busReset
\* is unmasked and that is all.
NodeIdFails ==
  /\ job.kind = "irq" /\ job.step = "nodeid" /\ job' = NoJob
  /\ hw' = Write([hw EXCEPT !.masked = FALSE])
  /\ \/ gate /\ ~bus.settled /\ UNCHANGED <<count, history>>
     \/ gate /\ bus.settled /\ Fault /\ history' = [history EXCEPT !.missed = TRUE]
  /\ UNCHANGED <<gate, live, bus, intOn, starting, queued, started, wasPoweredDown,
                 found, isRoot, forced, stopped>>

\* With a valid number, cycleMaster is claimed.  At a shut gate all ones are read.
\* As the count of self-IDs they are an error, and the handler returns; if the gate
\* shut behind the count, they are a valid number, the root's, that no node has.
NodeId ==
  /\ job.kind = "irq" /\ job.step = "nodeid"
  /\ LET Pause(own) == [job EXCEPT !.step = "identify", !.local = own,
                                   !.nodes = IF bus.ids = None THEN 1 ELSE 2]
     IN  \/ ~gate /\ job' = NoJob /\ UNCHANGED <<hw, isRoot>>
         \/ ~gate /\ isRoot' = TRUE /\ job' = Pause(None) /\ UNCHANGED hw
         \/ /\ gate /\ bus.settled /\ isRoot' = (bus.root = "host")
            /\ hw' = [hw EXCEPT !.master = TRUE]
            /\ job' = Pause(HostOf(bus.root))
  /\ UNCHANGED <<gate, live, bus, intOn, starting, queued, started, wasPoweredDown,
                 found, forced, stopped, count, history>>

\* 200 ms later the self-IDs are read out of the buffer, which a later reset may
\* have filled anew, as many as there were before; the node that had the host's
\* number then is passed over, and the other's ROM is read.  A node that does not
\* answer, and a ROM that breaks off, change nothing.
Listed == bus.ids # None /\ (bus.ids = "low" \/ job.nodes = 2) /\ bus.ids # job.local
Answered(node) ==
  gate /\ hw.stage = "up" /\ bus.attached /\ bus.settled /\ NodeOf(bus.root) = node

\* Mutation: a device that has been found is not looked for again.
Identified_Once == IF found = None THEN bus.ids ELSE found

\* The node the device was found at.
Identified == bus.ids

Identify ==
  /\ job.kind = "irq" /\ job.step = "identify"
  /\ job' = [NoJob EXCEPT !.kind = "irq", !.step = "conclude"]
  /\ \/ /\ Listed /\ Answered(bus.ids)
        /\ found' = Identified /\ UNCHANGED <<count, history>>
     \/ /\ Listed /\ Answered(bus.ids) /\ Fault
        /\ history' = [history EXCEPT !.missed = TRUE] /\ UNCHANGED found
     \/ /\ ~(Listed /\ Answered(bus.ids))
        /\ UNCHANGED <<found, count, history>>
  /\ UNCHANGED <<gate, live, hw, bus, intOn, starting, queued, started, wasPoweredDown,
                 isRoot, forced, stopped>>

\* Root is taken back once per episode.
TakesRoot == ~isRoot /\ ~forced

\* busReset is cleared and unmasked; if the device is root, root hold-off is set
\* and the bus reset once.
Conclude ==
  /\ job.kind = "irq" /\ job.step = "conclude" /\ job' = NoJob
  /\ forced' = (~isRoot /\ (forced \/ TakesRoot))
  /\ LET h == Write([hw EXCEPT !.masked = FALSE, !.busReset = FALSE])
     IN  IF TakesRoot /\ gate
           THEN hw' = ResetBus(h) /\ bus' = [Unsettled(bus) EXCEPT !.rhb = TRUE]
           ELSE hw' = h /\ bus' = bus
  /\ history' = [history EXCEPT !.lostForce = @ \/ (TakesRoot /\ ~gate)]
  /\ UNCHANGED <<gate, live, intOn, starting, queued, started, wasPoweredDown, found,
                 isRoot, stopped, count>>

-----------------------------------------------------------------------------
(* Stop *)

\* Interrupts off, contexts stopped, link down.
Quiet == IF gate THEN Blank ELSE hw

Stop ==
  /\ started /\ ~stopped /\ stopped' = TRUE /\ started' = FALSE /\ intOn' = FALSE
  /\ hw' = Quiet
  /\ history' = [history EXCEPT !.late = job.kind = "rebuild"]
  /\ UNCHANGED <<gate, live, bus, starting, job, queued, wasPoweredDown, found, isRoot,
                 forced, count>>

-----------------------------------------------------------------------------
(* The bus and the controller *)

\* Somebody resets the bus, perhaps by plugging the device in or out.
ForeignReset(attached) ==
  /\ count.resets < MaxResets /\ count' = [count EXCEPT !.resets = @ + 1]
  /\ bus' = [Unsettled(bus) EXCEPT !.attached = attached]
  /\ hw' = ResetBus(hw)
  /\ UNCHANGED <<gate, live, intOn, starting, job, queued, started, wasPoweredDown,
                 found, isRoot, forced, stopped, history>>

\* The bus settles with a new root; root hold-off wins it
\* unless another node has it set as well.
SelfIds(root) ==
  /\ ~bus.settled
  /\ root = "device" => bus.attached /\ (bus.rhb => bus.rival)
  /\ bus' = [bus EXCEPT !.settled = TRUE, !.root = root,
                        !.ids = IF hw.stage # "up" THEN @
                                ELSE IF bus.attached THEN NodeOf(root) ELSE None]
  /\ hw' = IF hw.stage = "up" THEN [hw EXCEPT !.selfId = TRUE] ELSE hw
  /\ UNCHANGED <<gate, live, intOn, starting, job, queued, started, wasPoweredDown,
                 found, isRoot, forced, stopped, count, history>>

\* A cycle that ran too long makes the hardware give up cycleMaster.
TooLong ==
  /\ hw.stage = "up" /\ hw.master /\ bus.settled /\ bus.root = "host"
  /\ count.resets < MaxResets /\ count' = [count EXCEPT !.resets = @ + 1]
  /\ hw' = [hw EXCEPT !.tooLong = TRUE, !.master = FALSE]
  /\ UNCHANGED <<gate, live, bus, intOn, starting, job, queued, started, wasPoweredDown,
                 found, isRoot, forced, stopped, history>>

-----------------------------------------------------------------------------
Starting ==
  StartAllocate \/ StartBuffers \/ StartNoMemory \/ StartStep \/ StartFails \/ StartFinish
Queue ==
  \/ RebuildBegin \/ RebuildStep \/ RebuildFails \/ RebuildEnable
  \/ Interrupt \/ NodeIdFails \/ NodeId \/ Identify \/ Conclude
Settling == \E root \in {"host", "device"} : SelfIds(root)
Next ==
  \/ Starting \/ PowerOff \/ PowerCut \/ PowerOn \/ Queue \/ Stop \/ Settling \/ TooLong
  \/ \E attached \in BOOLEAN : ForeignReset(attached)
Spec ==
  Init /\ [][Next]_vars /\ WF_vars(Starting) /\ WF_vars(Queue) /\ WF_vars(Settling)

-----------------------------------------------------------------------------
\* The values every variable stays within.
TypeOK ==
  /\ {gate, live, intOn, started, wasPoweredDown, isRoot, forced, stopped} \subseteq BOOLEAN
  /\ hw \in [stage: {"lost", "reset", "linked", "up"}, busReset: BOOLEAN,
             selfId: BOOLEAN, tooLong: BOOLEAN, masked: BOOLEAN, master: BOOLEAN]
  /\ bus \in [attached: BOOLEAN, root: {"host", "device"}, settled: BOOLEAN,
              rhb: BOOLEAN, rival: BOOLEAN, ids: Nodes]
  /\ starting \in Steps \cup {"idle", "buffers", "finish", "done", "failed"}
  /\ job \in {NoJob}
       \cup [kind: {"rebuild"}, step: Steps \cup {"enable"}, nodes: {0}, local: {None}]
       \cup [kind: {"irq"}, step: Handling, nodes: 0..2, local: Nodes]
  /\ queued \in 0..MaxOffs /\ found \in Nodes
  /\ count \in [offs: 0..MaxOffs, resets: 0..MaxResets, faults: 0..MaxFaults]
  /\ history \in [failed: BOOLEAN, offInStart: BOOLEAN, lostForce: BOOLEAN,
                  late: BOOLEAN, missed: BOOLEAN]

\* A power-on during Start does not run a second bring-up beside Start's own: the
\* two never program the controller at the same time.
BringUpsApart == ~(starting \in Steps /\ job.kind = "rebuild")

\* After Stop the link is down and stays down, wakes that were still queued
\* included, unless a rebuild was already at work when Stop came.
StopQuiesces == stopped /\ gate /\ ~history.late => hw.stage # "up"

\* Awake, started, and neither a bring-up that failed with the power on nor a
\* sleep that fell into Start.
Sound == gate /\ started /\ ~history.failed /\ ~history.offInStart

\* However sleeps, wakes and queued rebuilds overlap, a machine that stays awake
\* ends up with a programmed controller and interrupts enabled.
ControllerComesBack == <>[](Sound => hw.stage = "up" /\ intOn)

\* However bus resets and their handling overlap, transactions end up addressed to
\* the node the device has now, unless the handler was told of a self-ID error or
\* got no answer from the device.
NodeFollowsBus ==
  <>[](Sound /\ ~history.missed /\ bus.attached => found = NodeOf(bus.root))

\* The host ends up as the root and cycle master of the bus, unless another node
\* insists on being root or a sleep swallowed the attempt to take root back.
HostBecomesMaster ==
  <>[](Sound /\ ~history.missed /\ ~history.lostForce /\ ~bus.rival
         => bus.root = "host" /\ hw.master)

\* The bus comes to rest: taking root back does not lead to resets without end,
\* even if another node insists on being root.
NoResetStorm == <>[]bus.settled

\* One bring-up at a time, and none once Stop has had its turn.
BringUpsInTurn == BringUpsApart /\ StopQuiesces

\* Whatever sleeps, wakes, bus resets and rebuilds did to each other, in the end
\* the controller is up, the device is addressed where it is, the host is the
\* cycle master, and the bus is at rest.
ComesToRest == ControllerComesBack /\ NodeFollowsBus /\ HostBecomesMaster /\ NoResetStorm
=============================================================================
