SPECIFICATION Spec
CONSTANTS
  Rates = {48, 96}
  StartRate = 48
  kSampleRate = 48
  kMaxRestartFailures = 2
  MaxRuns = 1
  MaxPluginRuns = 1
  MaxSets = 1
  MaxWedges = 0
  MaxFails = 1
  MaxCrashes = 0
PROPERTIES
  RequestRetried
