SPECIFICATION RealtimeSpec
CONSTANTS
  a1 = a1
  a2 = a2
  a3 = a3
  a4 = a4
  analog = analog
  adat = adat
  Addrs <- MCAddrs
  Streams <- MCStreams
  kSlots = 2
  kFramesPerSlot = 2
  Grace = 1
  CallPolls = 1
  MaxRings = 3
  MaxCycles = 5
  MaxPolls = 6
  Words = {"sampleTime", "hostTime", "cycleTimer"}
  NeverIsAnswer = FALSE
  MaxWrites = 3
INVARIANTS
  RealtimeTypeOK
  NeverUnmapped
  CursorsInStep
  StageIsOneCycle
PROPERTIES
  ReadsHold
SYMMETRY Symmetry
CHECK_DEADLOCK FALSE
