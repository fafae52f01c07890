SPECIFICATION Spec
CONSTANTS
  kStablePolls = 2
  MaxChanges = 2
  MaxStops = 1
  MaxExits = 1
  MaxFails = 1
  MaxCrashes = 1
INVARIANTS
  TypeOK
  FileComplete
PROPERTIES
  ChangesReachDisk
  QuietStopSaves
