SPECIFICATION ChannelsSpec
CONSTANTS
  Clients = {"tui", "old"}
  Current = {"tui"}
  MaxMessages = 2
  MaxConnects = 3
  MaxLives = 2
  MaxCrashes = 1
  kCtlSlots = 2
  MaxPushes = 6
  kCh = 2
  Block = 3
  Dests = 3
  kMixerMax = 2
  kCtlWritesPerTick = 3
  Commands <- MCCommands
  MaxCommands = 2
  MaxLost = 1
  MaxSessions = 2
  kSlots = 2
  kFramesPerSlot = 2
  MaxFrames = 10
  MaxAbandons = 1
  MaxResets = 1
INVARIANTS
  ChannelsTypeOK
  FollowersInStep
PROPERTIES
  SocketInSync
  HandshakeEnds
  StopReturns
  DeliversEvery
  NewestLands
  DeviceCatchesUp
  ImplementsFifo
  PlayedInOrder
  EverySlotPlayed
CHECK_DEADLOCK FALSE
