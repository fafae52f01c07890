SPECIFICATION StreamsSpec
CONSTANTS
  Ring = 4
  kIrqEvery = 1
  CycleSpan = 16
  kCycleGapRestart = 2
  ArmCycles = 7
  FloorCycles = 32
  kWedgeMs = 8
  BackoffCycles = 12
  WakeCycles = 3
  SettleCycles = 6
  Horizon = 18
  MaxCycles = 33
  MaxFaults = 2
  MaxRestarts = 4
  kITPackets = 6
  fullCount = 5
  kTxIrqEvery = 1
  kTxLeadPkts = 3
  kTxMinLeadPkts = 1
  TxSettleCycles = 8
  TxHorizon = 15
  MaxTxCycles = 34
  MaxLate = 2
  MaxTxRestarts = 1
  Period = 2
  StaleMargin = 1
  Slopes <- MCSlopes
  Times <- MCTimes
  DevSamples <- MCDevSamples
  DevHosts <- MCDevHosts
  MaxSeed = 4
INVARIANTS
  StreamsTypeOK
  ComesInStep
  FlappingStops
  StampValid
PROPERTIES
  NoFalseAlarm
  StaysInStep
  TimelineHolds
CHECK_DEADLOCK FALSE
