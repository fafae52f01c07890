SPECIFICATION Spec
CONSTANTS
  kStablePolls = 2
  MaxChanges = 2
  MaxStops = 0
  MaxExits = 0
  MaxFails = 0
  MaxCrashes = 0
INVARIANTS
  FileIsOneSnapshot
