SPECIFICATION Spec
CONSTANTS
  Rates = {48, 96}
  StartRate = 48
  kSampleRate = 48
  kMaxRestartFailures = 2
  MaxRuns = 2
  MaxPluginRuns = 1
  MaxSets = 1
  MaxWedges = 0
  MaxFails = 0
  MaxCrashes = 1
PROPERTIES
  Agreement
