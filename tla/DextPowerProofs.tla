------------------------- MODULE DextPowerProofs ----------------------------
(***************************************************************************)
(* The order of the dext's bring-ups proved for any number of sleeps, bus  *)
(* resets and faults.                                                      *)
(***************************************************************************)
EXTENDS DextPower, TLAPS

HwType ==
  [stage: {"lost", "reset", "linked", "up"}, busReset: BOOLEAN, selfId: BOOLEAN,
   tooLong: BOOLEAN, masked: BOOLEAN, master: BOOLEAN]
BusType ==
  [attached: BOOLEAN, root: {"host", "device"}, settled: BOOLEAN, rhb: BOOLEAN,
   rival: BOOLEAN, ids: Nodes]
HandlerJob == [kind: {"irq"}, step: Handling, nodes: 0..2, local: Nodes]
JobType ==
  {NoJob}
    \cup [kind: {"rebuild"}, step: Steps \cup {"enable"}, nodes: {0}, local: {None}]
    \cup HandlerJob
CountType == [offs: 0..MaxOffs, resets: 0..MaxResets, faults: 0..MaxFaults]
HistoryType ==
  [failed: BOOLEAN, offInStart: BOOLEAN, lostForce: BOOLEAN, late: BOOLEAN, missed: BOOLEAN]
StartType == Steps \cup {"idle", "buffers", "finish", "done", "failed"}

FlagsOK ==
  /\ gate \in BOOLEAN /\ live \in BOOLEAN /\ intOn \in BOOLEAN /\ started \in BOOLEAN
  /\ wasPoweredDown \in BOOLEAN /\ isRoot \in BOOLEAN /\ forced \in BOOLEAN
  /\ stopped \in BOOLEAN
DataOK ==
  /\ hw \in HwType /\ bus \in BusType /\ starting \in StartType /\ job \in JobType
  /\ queued \in 0..MaxOffs /\ found \in Nodes
  /\ count \in CountType /\ history \in HistoryType

\* Until Start is through nothing is started, stopped, queued or rebuilt.
TurnInv ==
  /\ started \/ stopped \/ queued # 0 \/ job.kind = "rebuild" => starting = "done"
  /\ stopped => ~started

\* Every rebuild on the queue, and the one a wake may yet leave there, answers a
\* sleep of its own.
QueuedInv == queued + (IF wasPoweredDown THEN 1 ELSE 0) <= count.offs

\* Once Stop has run with no rebuild at work, none is, and a controller whose gate
\* is open is not up.
QuietInv ==
  stopped /\ ~history.late => job.kind # "rebuild" /\ (gate => hw.stage # "up")

\* The inductive invariant of the power states.
PowerInv == TypeOK /\ TurnInv /\ QueuedInv /\ QuietInv

-----------------------------------------------------------------------------
\* The type invariant taken apart: the flags, and the data by its types.
LEMMA TypeSplit ==
  (TypeOK <=> FlagsOK /\ DataOK) /\ (TypeOK' <=> FlagsOK' /\ DataOK')
BY DEF TypeOK, FlagsOK, DataOK, HwType, BusType, StartType, JobType, HandlerJob, CountType,
   HistoryType

\* The interrupt handler begins and concludes with nothing in mind.
LEMMA HandlingBegins ==
  ASSUME NEW step \in Handling
  PROVE  [NoJob EXCEPT !.kind = "irq", !.step = step] \in HandlerJob
<1>1. NoJob \in [kind: {"idle"}, step: {"idle"}, nodes: 0..2, local: Nodes]
  BY DEF NoJob, Nodes
<1> QED BY <1>1, Zenon DEF HandlerJob

\* It pauses with the number of nodes and its own node in mind.
LEMMA HandlingPauses ==
  ASSUME NEW j \in HandlerJob, NEW step \in Handling, NEW n \in 0..2, NEW own \in Nodes
  PROVE  [j EXCEPT !.step = step, !.local = own, !.nodes = n] \in HandlerJob
BY Zenon DEF HandlerJob

\* A fault is counted up to its bound.
LEMMA FaultType ==
  ASSUME count \in CountType, Fault \/ UNCHANGED count PROVE count' \in CountType
BY PowerAssumption DEF Fault, CountType

\* A bus reset leaves the controller where it is.
LEMMA ResetBusType ==
  ASSUME NEW h \in HwType PROVE ResetBus(h) \in HwType /\ ResetBus(h).stage = h.stage
BY DEF ResetBus, HwType

\* What uf_hw_bring_up programs is a state of the controller.
LEMMA ProgrammedType ==
  ASSUME hw \in HwType, NEW step \in Steps PROVE Programmed(step) \in HwType
<1>1. [Blank EXCEPT !.stage = "reset"] \in HwType
  BY DEF Blank, HwType
<1>2. [hw EXCEPT !.stage = "linked"] \in HwType
  BY DEF HwType
<1>3. [hw EXCEPT !.stage = IF @ = "linked" THEN "up" ELSE @, !.master = TRUE,
                 !.masked = FALSE] \in HwType
  BY DEF HwType
<1> QED BY <1>1, <1>2, <1>3, ResetBusType DEF Programmed, Steps

\* The reset at the end of a bring-up unsettles the bus.
LEMMA KickedType == ASSUME bus \in BusType, NEW step PROVE Kicked(step) \in BusType
BY DEF Kicked, Unsettled, BusType

\* A step that fails changes the counts at most.
LEMMA StepBrokenType ==
  ASSUME hw \in HwType, count \in CountType, history \in HistoryType, NEW step,
         StepBroken(step)
  PROVE  hw' \in HwType /\ count' \in CountType /\ history' \in HistoryType
<1>1. count' \in CountType
  BY FaultType DEF StepBroken
<1>2. history' \in HistoryType
  BY DEF StepBroken, HistoryType
<1> QED BY <1>1, <1>2 DEF StepBroken

-----------------------------------------------------------------------------
\* Start enables interrupts before anything is started.
LEMMA StartAllocateKeeps ==
  ASSUME PowerInv, StartAllocate PROVE PowerInv'
<1>t. FlagsOK /\ DataOK
  BY TypeSplit DEF PowerInv
<1>1. FlagsOK'
  BY <1>t, Zenon DEF FlagsOK, StartAllocate
<1>2. starting' \in StartType
  BY <1>t DEF DataOK, StartAllocate, StartType
<1>3. DataOK'
  BY <1>t, <1>2 DEF DataOK, StartAllocate
<1>4. TurnInv' /\ QueuedInv' /\ QuietInv'
  BY PowerAssumption
     DEF PowerInv, TypeOK, TurnInv, QueuedInv, QuietInv, NoJob, StartAllocate
<1> QED BY <1>1, <1>3, <1>4, TypeSplit DEF PowerInv

\* The buffers of Start change nothing else.
LEMMA StartBuffersKeeps ==
  ASSUME PowerInv, StartBuffers PROVE PowerInv'
<1>t. FlagsOK /\ DataOK
  BY TypeSplit DEF PowerInv
<1>1. FlagsOK'
  BY <1>t, Zenon DEF FlagsOK, StartBuffers
<1>2. starting' \in StartType
  BY <1>t DEF DataOK, StartBuffers, StartType, Steps
<1>3. DataOK'
  BY <1>t, <1>2 DEF DataOK, StartBuffers
<1>4. TurnInv' /\ QueuedInv' /\ QuietInv'
  BY PowerAssumption
     DEF PowerInv, TypeOK, TurnInv, QueuedInv, QuietInv, NoJob, StartBuffers
<1> QED BY <1>1, <1>3, <1>4, TypeSplit DEF PowerInv

\* Without memory Start ends, with nothing started.
LEMMA StartNoMemoryKeeps ==
  ASSUME PowerInv, StartNoMemory PROVE PowerInv'
<1>t. FlagsOK /\ DataOK
  BY TypeSplit DEF PowerInv
<1>1. FlagsOK'
  BY <1>t, Zenon DEF FlagsOK, StartNoMemory
<1>2. starting' \in StartType
  BY <1>t DEF DataOK, StartNoMemory, StartType
<1>3. count' \in CountType
  BY <1>t, FaultType DEF DataOK, StartNoMemory
<1>4. history' \in HistoryType
  BY <1>t DEF DataOK, StartNoMemory, HistoryType
<1>5. DataOK'
  BY <1>t, <1>2, <1>3, <1>4 DEF DataOK, StartNoMemory
<1>6. TurnInv' /\ QueuedInv' /\ QuietInv'
  BY PowerAssumption
     DEF PowerInv, TypeOK, TurnInv, QueuedInv, QuietInv, NoJob, StartNoMemory,
         Fault
<1> QED BY <1>1, <1>5, <1>6, TypeSplit DEF PowerInv

\* A step of Start's bring-up comes before anything is started.
LEMMA StartStepKeeps ==
  ASSUME PowerInv, StartStep PROVE PowerInv'
<1>t. FlagsOK /\ DataOK
  BY TypeSplit DEF PowerInv
<1>1. FlagsOK'
  BY <1>t, Zenon DEF FlagsOK, StartStep
<1>2. hw' \in HwType /\ count' \in CountType
  BY <1>t, ProgrammedType DEF DataOK, StartStep, StepTaken
<1>3. bus' \in BusType
  BY <1>t, KickedType DEF DataOK, StartStep
<1>4. starting' \in StartType
  BY <1>t DEF DataOK, StartStep, StartType, Steps, After
<1>5. DataOK'
  BY <1>t, <1>2, <1>3, <1>4 DEF DataOK, StartStep
<1>6. TurnInv' /\ QueuedInv' /\ QuietInv'
  BY PowerAssumption
     DEF PowerInv, TypeOK, TurnInv, QueuedInv, QuietInv, NoJob, StartStep,
         StepTaken, Gated, Kicked, Unsettled, After, Steps
<1> QED BY <1>1, <1>5, <1>6, TypeSplit DEF PowerInv

\* A step of Start that fails leaves nothing started.
LEMMA StartFailsKeeps ==
  ASSUME PowerInv, StartFails PROVE PowerInv'
<1>t. FlagsOK /\ DataOK
  BY TypeSplit DEF PowerInv
<1>1. FlagsOK'
  BY <1>t, Zenon DEF FlagsOK, StartFails
<1>2. starting' \in StartType
  BY <1>t DEF DataOK, StartFails, StartType
<1>3. hw' \in HwType /\ count' \in CountType /\ history' \in HistoryType
  BY <1>t, StepBrokenType DEF DataOK, StartFails
<1>4. DataOK'
  BY <1>t, <1>2, <1>3 DEF DataOK, StartFails
<1>5. TurnInv' /\ QueuedInv' /\ QuietInv'
  BY PowerAssumption
     DEF PowerInv, TypeOK, TurnInv, QueuedInv, QuietInv, NoJob, StartFails,
         StepBroken, Gated, Fault, Steps
<1> QED BY <1>1, <1>4, <1>5, TypeSplit DEF PowerInv

\* Start lets wakes in only when its own bring-up is over.
LEMMA StartFinishKeeps ==
  ASSUME PowerInv, StartFinish PROVE PowerInv'
<1>t. FlagsOK /\ DataOK
  BY TypeSplit DEF PowerInv
<1>1. FlagsOK'
  BY <1>t, Zenon DEF FlagsOK, StartFinish
<1>2. starting' \in StartType
  BY <1>t DEF DataOK, StartFinish, StartType
<1>3. DataOK'
  BY <1>t, <1>2 DEF DataOK, StartFinish
<1>4. TurnInv' /\ QueuedInv' /\ QuietInv'
  BY PowerAssumption
     DEF PowerInv, TypeOK, TurnInv, QueuedInv, QuietInv, NoJob, StartFinish
<1> QED BY <1>1, <1>3, <1>4, TypeSplit DEF PowerInv

\* A sleep accounts for one more rebuild at most.
LEMMA PowerOffKeeps ==
  ASSUME PowerInv, PowerOff PROVE PowerInv'
<1>t. FlagsOK /\ DataOK
  BY TypeSplit DEF PowerInv
<1>1. FlagsOK'
  BY <1>t, Zenon DEF FlagsOK, PowerOff
<1>2. count' \in CountType
  BY <1>t, PowerAssumption DEF DataOK, PowerOff, CountType
<1>3. history' \in HistoryType
  BY <1>t DEF DataOK, PowerOff, HistoryType, FlagsOK
<1>4. DataOK'
  BY <1>t, <1>2, <1>3 DEF DataOK, PowerOff
<1>5. TurnInv' /\ QueuedInv' /\ QuietInv'
  BY PowerAssumption
     DEF PowerInv, TypeOK, TurnInv, QueuedInv, QuietInv, NoJob, PowerOff
<1> QED BY <1>1, <1>4, <1>5, TypeSplit DEF PowerInv

\* The power that goes takes the controller down.
LEMMA PowerCutKeeps ==
  ASSUME PowerInv, PowerCut PROVE PowerInv'
<1>t. FlagsOK /\ DataOK
  BY TypeSplit DEF PowerInv
<1>1. FlagsOK'
  BY <1>t, Zenon DEF FlagsOK, PowerCut
<1>2. hw' \in HwType
  BY <1>t DEF DataOK, PowerCut, Blank, HwType
<1>3. bus' \in BusType
  BY <1>t DEF DataOK, PowerCut, BusType
<1>4. history' \in HistoryType
  BY <1>t DEF DataOK, PowerCut, HistoryType, FlagsOK
<1>5. DataOK'
  BY <1>t, <1>2, <1>3, <1>4 DEF DataOK, PowerCut
<1>6. TurnInv' /\ QueuedInv' /\ QuietInv'
  BY PowerAssumption
     DEF PowerInv, TypeOK, TurnInv, QueuedInv, QuietInv, NoJob, PowerCut,
         Blank
<1> QED BY <1>1, <1>5, <1>6, TypeSplit DEF PowerInv

\* A wake uses up the sleep it follows.
LEMMA PowerOnKeeps ==
  ASSUME PowerInv, PowerOn PROVE PowerInv'
<1>t. FlagsOK /\ DataOK
  BY TypeSplit DEF PowerInv
<1>1. FlagsOK'
  BY <1>t, Zenon DEF FlagsOK, PowerOn, IsWake
<1>2. queued' \in 0..MaxOffs
  BY <1>t, PowerAssumption DEF DataOK, PowerOn, IsWake, PowerInv, QueuedInv, CountType, FlagsOK
<1>3. DataOK'
  BY <1>t, <1>2 DEF DataOK, PowerOn
<1>4. TurnInv' /\ QueuedInv' /\ QuietInv'
  BY PowerAssumption
     DEF PowerInv, TypeOK, TurnInv, QueuedInv, QuietInv, NoJob, PowerOn,
         IsWake
<1> QED BY <1>1, <1>3, <1>4, TypeSplit DEF PowerInv

\* No rebuild begins once Stop has run.
LEMMA RebuildBeginKeeps ==
  ASSUME PowerInv, RebuildBegin PROVE PowerInv'
<1>t. FlagsOK /\ DataOK
  BY TypeSplit DEF PowerInv
<1>1. FlagsOK'
  BY <1>t, Zenon DEF FlagsOK, RebuildBegin
<1>2. queued' \in 0..MaxOffs
  BY <1>t, PowerAssumption DEF DataOK, RebuildBegin
<1>3. job' \in JobType
  BY <1>t DEF DataOK, RebuildBegin, JobType, NoJob, Steps
<1>4. DataOK'
  BY <1>t, <1>2, <1>3 DEF DataOK, RebuildBegin
<1>5. TurnInv' /\ QueuedInv' /\ QuietInv'
  BY PowerAssumption
     DEF PowerInv, TypeOK, TurnInv, QueuedInv, QuietInv, NoJob, RebuildBegin,
         MayRebuild, Steps
<1> QED BY <1>1, <1>4, <1>5, TypeSplit DEF PowerInv

\* A rebuild at work is one Stop saw.
LEMMA RebuildStepKeeps ==
  ASSUME PowerInv, RebuildStep PROVE PowerInv'
<1>t. FlagsOK /\ DataOK
  BY TypeSplit DEF PowerInv
<1>1. FlagsOK'
  BY <1>t, Zenon DEF FlagsOK, RebuildStep
<1>2. hw' \in HwType /\ count' \in CountType
  BY <1>t, ProgrammedType DEF DataOK, RebuildStep, StepTaken
<1>3. bus' \in BusType
  BY <1>t, KickedType DEF DataOK, RebuildStep
<1>4. job' \in JobType
  BY <1>t DEF DataOK, RebuildStep, JobType, HandlerJob, NoJob, Steps, Handling, After
<1>5. DataOK'
  BY <1>t, <1>2, <1>3, <1>4 DEF DataOK, RebuildStep
<1>6. TurnInv' /\ QueuedInv' /\ QuietInv'
  BY PowerAssumption
     DEF PowerInv, TypeOK, TurnInv, QueuedInv, QuietInv, NoJob, RebuildStep,
         StepTaken, Gated, Kicked, Unsettled, After, Steps
<1> QED BY <1>1, <1>5, <1>6, TypeSplit DEF PowerInv

\* A rebuild that fails is over.
LEMMA RebuildFailsKeeps ==
  ASSUME PowerInv, RebuildFails PROVE PowerInv'
<1>t. FlagsOK /\ DataOK
  BY TypeSplit DEF PowerInv
<1>1. FlagsOK'
  BY <1>t, Zenon DEF FlagsOK, RebuildFails
<1>2. job' \in JobType
  BY <1>t DEF DataOK, RebuildFails, JobType
<1>3. hw' \in HwType /\ count' \in CountType /\ history' \in HistoryType
  BY <1>t, StepBrokenType DEF DataOK, RebuildFails
<1>4. DataOK'
  BY <1>t, <1>2, <1>3 DEF DataOK, RebuildFails
<1>5. TurnInv' /\ QueuedInv' /\ QuietInv'
  BY PowerAssumption
     DEF PowerInv, TypeOK, TurnInv, QueuedInv, QuietInv, NoJob, RebuildFails,
         StepBroken, Gated, Fault, Steps
<1> QED BY <1>1, <1>4, <1>5, TypeSplit DEF PowerInv

\* A rebuild ends with the interrupts it found wanted.
LEMMA RebuildEnableKeeps ==
  ASSUME PowerInv, RebuildEnable PROVE PowerInv'
<1>t. FlagsOK /\ DataOK
  BY TypeSplit DEF PowerInv
<1>1. FlagsOK'
  BY <1>t, Zenon DEF FlagsOK, RebuildEnable
<1>2. job' \in JobType
  BY <1>t DEF DataOK, RebuildEnable, JobType
<1>3. DataOK'
  BY <1>t, <1>2 DEF DataOK, RebuildEnable
<1>4. TurnInv' /\ QueuedInv' /\ QuietInv'
  BY PowerAssumption
     DEF PowerInv, TypeOK, TurnInv, QueuedInv, QuietInv, NoJob, RebuildEnable
<1> QED BY <1>1, <1>3, <1>4, TypeSplit DEF PowerInv

\* The interrupt handler does not bring the link up.
LEMMA InterruptKeeps ==
  ASSUME PowerInv, Interrupt PROVE PowerInv'
<1>t. FlagsOK /\ DataOK
  BY TypeSplit DEF PowerInv
<1>1. FlagsOK'
  BY <1>t, Zenon DEF FlagsOK, Interrupt
<1>2. hw' \in HwType
  BY <1>t, ZenonT(60) DEF DataOK, Interrupt, HwType, FlagsOK
<1>3. job' \in JobType
  <2>1. "nodeid" \in Handling
    BY DEF Handling
  <2>2. [NoJob EXCEPT !.kind = "irq", !.step = "nodeid"] \in JobType
    BY <2>1, HandlingBegins DEF JobType
  <2> QED BY <2>2 DEF Interrupt, JobType
<1>4. DataOK'
  BY <1>t, <1>2, <1>3 DEF DataOK, Interrupt
<1>5. TurnInv' /\ QueuedInv' /\ QuietInv'
  BY PowerAssumption
     DEF PowerInv, TypeOK, TurnInv, QueuedInv, QuietInv, NoJob, Interrupt,
         Handling
<1> QED BY <1>1, <1>4, <1>5, TypeSplit DEF PowerInv

\* Nor does a handler that gives up.
LEMMA NodeIdFailsKeeps ==
  ASSUME PowerInv, NodeIdFails PROVE PowerInv'
<1>t. FlagsOK /\ DataOK
  BY TypeSplit DEF PowerInv
<1>1. FlagsOK'
  BY <1>t, Zenon DEF FlagsOK, NodeIdFails
<1>2. hw' \in HwType
  BY <1>t DEF DataOK, NodeIdFails, Write, HwType
<1>3. job' \in JobType
  BY <1>t DEF DataOK, NodeIdFails, JobType
<1>4. count' \in CountType
  BY <1>t, FaultType DEF DataOK, NodeIdFails
<1>5. history' \in HistoryType
  BY <1>t DEF DataOK, NodeIdFails, HistoryType
<1>6. DataOK'
  BY <1>t, <1>2, <1>3, <1>4, <1>5 DEF DataOK, NodeIdFails
<1>7. TurnInv' /\ QueuedInv' /\ QuietInv'
  BY PowerAssumption
     DEF PowerInv, TypeOK, TurnInv, QueuedInv, QuietInv, NoJob, NodeIdFails,
         Fault, Write
<1> QED BY <1>1, <1>6, <1>7, TypeSplit DEF PowerInv

\* Nor does the claim of the cycle master.
LEMMA NodeIdKeeps ==
  ASSUME PowerInv, NodeId PROVE PowerInv'
<1>t. FlagsOK /\ DataOK
  BY TypeSplit DEF PowerInv
<1>1. FlagsOK'
  BY <1>t, Zenon DEF FlagsOK, NodeId
<1>2. hw' \in HwType /\ (gate => hw'.stage = hw.stage)
  BY <1>t DEF DataOK, NodeId, HwType
<1>3. job' \in JobType /\ job'.kind # "rebuild"
  <2> DEFINE own == IF gate THEN HostOf(bus.root) ELSE None
             n == IF bus.ids = None THEN 1 ELSE 2
             paused == [job EXCEPT !.step = "identify", !.local = own, !.nodes = n]
  <2>1. job \in HandlerJob
    BY <1>t DEF DataOK, NodeId, JobType, NoJob, HandlerJob
  <2>2. own \in Nodes /\ n \in 0..2 /\ "identify" \in Handling
    BY DEF HostOf, Nodes, Handling
  <2>3. job' = NoJob \/ job' = paused
    BY DEF NodeId
  <2> HIDE DEF own, n
  <2>4. paused \in HandlerJob
    BY <2>1, <2>2, HandlingPauses
  <2> HIDE DEF paused
  <2>5. paused \in JobType /\ paused.kind # "rebuild"
    BY <2>4 DEF JobType, HandlerJob
  <2>6. NoJob \in JobType /\ NoJob.kind # "rebuild"
    BY DEF JobType, NoJob
  <2> QED BY <2>3, <2>5, <2>6
<1>4. DataOK'
  BY <1>t, <1>2, <1>3 DEF DataOK, NodeId
<1>5. TurnInv' /\ QueuedInv'
  BY <1>3 DEF PowerInv, TurnInv, QueuedInv, NodeId
<1>6. QuietInv'
  BY <1>2, <1>3 DEF PowerInv, QuietInv, NodeId
<1> QED BY <1>1, <1>4, <1>5, <1>6, TypeSplit DEF PowerInv

\* The search for the device touches no state of the bring-up.
LEMMA IdentifyKeeps ==
  ASSUME PowerInv, Identify PROVE PowerInv'
<1>t. FlagsOK /\ DataOK
  BY TypeSplit DEF PowerInv
<1>1. FlagsOK'
  BY <1>t, Zenon DEF FlagsOK, Identify
<1>2. job' \in JobType
  <2>1. "conclude" \in Handling
    BY DEF Handling
  <2>2. [NoJob EXCEPT !.kind = "irq", !.step = "conclude"] \in JobType
    BY <2>1, HandlingBegins DEF JobType
  <2> QED BY <2>2 DEF Identify
<1>3. found' \in Nodes
  BY <1>t DEF DataOK, Identify, Identified, BusType
<1>4. count' \in CountType
  BY <1>t, FaultType DEF DataOK, Identify
<1>5. history' \in HistoryType
  BY <1>t DEF DataOK, Identify, HistoryType
<1>6. DataOK'
  BY <1>t, <1>2, <1>3, <1>4, <1>5 DEF DataOK, Identify
<1>7. TurnInv' /\ QueuedInv' /\ QuietInv'
  BY PowerAssumption
     DEF PowerInv, TypeOK, TurnInv, QueuedInv, QuietInv, NoJob, Identify,
         Fault, Identified, Answered, Nodes, Handling
<1> QED BY <1>1, <1>6, <1>7, TypeSplit DEF PowerInv

\* Taking root back resets the bus and not the controller.
LEMMA ConcludeKeeps ==
  ASSUME PowerInv, Conclude PROVE PowerInv'
<1>t. FlagsOK /\ DataOK
  BY TypeSplit DEF PowerInv
<1>1. FlagsOK'
  BY <1>t, Zenon DEF FlagsOK, Conclude
<1>2. job' \in JobType
  BY <1>t DEF DataOK, Conclude, JobType
<1>3. hw' \in HwType
  <2> DEFINE h == Write([hw EXCEPT !.masked = FALSE, !.busReset = FALSE])
  <2>1. h \in HwType
    BY <1>t DEF DataOK, Write, HwType
  <2>2. hw' = h \/ hw' = ResetBus(h)
    BY DEF Conclude
  <2> HIDE DEF h
  <2> QED BY <2>1, <2>2, ResetBusType
<1>4. bus' \in BusType
  BY <1>t DEF DataOK, Conclude, Unsettled, BusType
<1>5. history' \in HistoryType
  BY <1>t DEF DataOK, Conclude, TakesRoot, HistoryType, FlagsOK
<1>6. DataOK'
  BY <1>t, <1>2, <1>3, <1>4, <1>5 DEF DataOK, Conclude
<1>7. TurnInv' /\ QueuedInv' /\ QuietInv'
  BY PowerAssumption
     DEF PowerInv, TypeOK, TurnInv, QueuedInv, QuietInv, NoJob, Conclude,
         TakesRoot, Write, ResetBus, Unsettled
<1> QED BY <1>1, <1>6, <1>7, TypeSplit DEF PowerInv

\* Stop finds a rebuild at work or leaves the controller down.
LEMMA StopKeeps ==
  ASSUME PowerInv, Stop PROVE PowerInv'
<1>t. FlagsOK /\ DataOK
  BY TypeSplit DEF PowerInv
<1>1. FlagsOK'
  BY <1>t, Zenon DEF FlagsOK, Stop
<1>2. hw' \in HwType
  BY <1>t DEF DataOK, Stop, Quiet, Blank, HwType
<1>3. history' \in HistoryType
  BY <1>t DEF DataOK, Stop, HistoryType
<1>4. DataOK'
  BY <1>t, <1>2, <1>3 DEF DataOK, Stop
<1>5. TurnInv' /\ QueuedInv' /\ QuietInv'
  BY PowerAssumption
     DEF PowerInv, TypeOK, TurnInv, QueuedInv, QuietInv, NoJob, Stop,
         Quiet, Blank
<1> QED BY <1>1, <1>4, <1>5, TypeSplit DEF PowerInv

\* A long cycle does not bring the link up.
LEMMA TooLongKeeps ==
  ASSUME PowerInv, TooLong PROVE PowerInv'
<1>t. FlagsOK /\ DataOK
  BY TypeSplit DEF PowerInv
<1>1. FlagsOK'
  BY <1>t, Zenon DEF FlagsOK, TooLong
<1>2. hw' \in HwType
  BY <1>t DEF DataOK, TooLong, HwType
<1>3. count' \in CountType
  BY <1>t, PowerAssumption DEF DataOK, TooLong, CountType
<1>4. DataOK'
  BY <1>t, <1>2, <1>3 DEF DataOK, TooLong
<1>5. TurnInv' /\ QueuedInv' /\ QuietInv'
  BY PowerAssumption
     DEF PowerInv, TypeOK, TurnInv, QueuedInv, QuietInv, NoJob, TooLong
<1> QED BY <1>1, <1>4, <1>5, TypeSplit DEF PowerInv

\* Nor does a bus reset.
LEMMA ForeignResetKeeps ==
  ASSUME NEW attached \in BOOLEAN, PowerInv, ForeignReset(attached) PROVE PowerInv'
<1>t. FlagsOK /\ DataOK
  BY TypeSplit DEF PowerInv
<1>1. FlagsOK'
  BY <1>t, Zenon DEF FlagsOK, ForeignReset
<1>2. hw' \in HwType
  BY <1>t, ResetBusType DEF DataOK, ForeignReset
<1>3. bus' \in BusType
  BY <1>t DEF DataOK, ForeignReset, Unsettled, BusType
<1>4. count' \in CountType
  BY <1>t, PowerAssumption DEF DataOK, ForeignReset, CountType
<1>5. DataOK'
  BY <1>t, <1>2, <1>3, <1>4 DEF DataOK, ForeignReset
<1>6. TurnInv' /\ QueuedInv' /\ QuietInv'
  BY PowerAssumption
     DEF PowerInv, TypeOK, TurnInv, QueuedInv, QuietInv, NoJob, ForeignReset,
         ResetBus, Unsettled
<1> QED BY <1>1, <1>5, <1>6, TypeSplit DEF PowerInv

\* Nor do the self-IDs after it.
LEMMA SelfIdsKeeps ==
  ASSUME NEW root \in {"host", "device"}, PowerInv, SelfIds(root) PROVE PowerInv'
<1>t. FlagsOK /\ DataOK
  BY TypeSplit DEF PowerInv
<1>1. FlagsOK'
  BY <1>t, Zenon DEF FlagsOK, SelfIds
<1>2. hw' \in HwType
  BY <1>t DEF DataOK, SelfIds, HwType
<1>3. bus' \in BusType
  BY <1>t DEF DataOK, SelfIds, NodeOf, BusType, Nodes
<1>4. DataOK'
  BY <1>t, <1>2, <1>3 DEF DataOK, SelfIds
<1>5. TurnInv' /\ QueuedInv' /\ QuietInv'
  BY PowerAssumption
     DEF PowerInv, TypeOK, TurnInv, QueuedInv, QuietInv, NoJob, SelfIds
<1> QED BY <1>1, <1>4, <1>5, TypeSplit DEF PowerInv

-----------------------------------------------------------------------------
\* The dext starts in the invariant.
LEMMA Initially == Init => PowerInv
<1> SUFFICES ASSUME Init PROVE PowerInv
  OBVIOUS
<1>1. FlagsOK
  BY Zenon DEF Init, FlagsOK
<1>2. hw \in HwType /\ job \in JobType /\ starting \in StartType
  BY DEF Init, Blank, HwType, JobType, StartType
<1>3. bus \in BusType
  BY DEF Init, BusType, Nodes
<1>4. count \in CountType /\ history \in HistoryType /\ queued \in 0..MaxOffs /\ found \in Nodes
  BY PowerAssumption DEF Init, CountType, HistoryType, Nodes
<1>5. TurnInv /\ QueuedInv /\ QuietInv
  BY DEF Init, TurnInv, QueuedInv, QuietInv, NoJob
<1> QED BY <1>1, <1>2, <1>3, <1>4, <1>5, TypeSplit DEF PowerInv, DataOK

\* Every step of Start, the power manager, the queue, the bus and the controller
\* keeps the invariant.
LEMMA PowerStep == PowerInv /\ [Next]_vars => PowerInv'
<1> SUFFICES ASSUME PowerInv, [Next]_vars PROVE PowerInv'
  OBVIOUS
<1>1. CASE Starting
  BY <1>1, StartAllocateKeeps, StartBuffersKeeps, StartNoMemoryKeeps, StartStepKeeps,
     StartFailsKeeps, StartFinishKeeps DEF Starting
<1>2. CASE PowerOff \/ PowerCut \/ PowerOn \/ Stop \/ TooLong
  BY <1>2, PowerOffKeeps, PowerCutKeeps, PowerOnKeeps, StopKeeps, TooLongKeeps
<1>3. CASE Queue
  BY <1>3, RebuildBeginKeeps, RebuildStepKeeps, RebuildFailsKeeps, RebuildEnableKeeps,
     InterruptKeeps, NodeIdFailsKeeps, NodeIdKeeps, IdentifyKeeps, ConcludeKeeps DEF Queue
<1>4. CASE Settling
  BY <1>4, SelfIdsKeeps DEF Settling
<1>5. ASSUME NEW attached \in BOOLEAN, ForeignReset(attached) PROVE PowerInv'
  BY <1>5, ForeignResetKeeps
<1>6. CASE UNCHANGED vars
  <2>1. FlagsOK' /\ DataOK'
    BY <1>6, TypeSplit DEF PowerInv, FlagsOK, DataOK, vars
  <2>2. TurnInv' /\ QueuedInv' /\ QuietInv'
    BY <1>6 DEF PowerInv, TurnInv, QueuedInv, QuietInv, vars
  <2> QED BY <2>1, <2>2, TypeSplit DEF PowerInv
<1> QED BY <1>1, <1>2, <1>3, <1>4, <1>5, <1>6 DEF Next

\* The dext keeps the invariant, however sleeps, wakes, bus resets, rebuilds, Start
\* and Stop interleave.
THEOREM PowerInvariant == Spec => []PowerInv
BY Initially, PowerStep, PTL DEF Spec

\* Every variable of the dext's power states keeps its type; no more rebuilds are
\* ever queued than the machine went to sleep.
THEOREM PowerTypeCorrect == Spec => []TypeOK
BY PowerInvariant, PTL DEF PowerInv

\* Start and a rebuild never program the controller at the same time, and once Stop
\* has run with no rebuild at work nothing brings the link up again.
THEOREM PowerBringUpsInTurn == Spec => []BringUpsInTurn
<1>1. PowerInv => BringUpsInTurn
  BY DEF PowerInv, TurnInv, QuietInv, BringUpsInTurn, BringUpsApart, StopQuiesces, Steps
<1> QED BY <1>1, PowerInvariant, PTL
=============================================================================
