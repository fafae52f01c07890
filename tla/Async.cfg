SPECIFICATION AsyncSpec
CONSTANTS
  Client = client
  Reset = reset
  MaxReads = 1
  Labels = 2
  Attempts = 2
  MaxCalls = 3
  MaxFaults = 1
  BufferQuads = 13
  Capacity = 2
  MaxBlock = 3
  kMidiMaxQuads = 2
  MaxBytes = 5
  MaxOut = 3
  MaxStarts = 2
  MaxTrouble = 1
INVARIANTS
  AsyncTypeOK
  ResultIsTrue
  MidiInOrder
PROPERTIES
  EveryCallReturns
  PassedIsHeard
  PortComesBack
CHECK_DEADLOCK FALSE
