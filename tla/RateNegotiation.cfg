SPECIFICATION Spec
CONSTANTS
  Rates = {48, 96}
  StartRate = 48
  kSampleRate = 48
  kMaxRestartFailures = 2
  MaxRuns = 2
  MaxPluginRuns = 2
  MaxSets = 2
  MaxWedges = 1
  MaxFails = 2
  MaxCrashes = 1
INVARIANTS
  TypeOK
  FollowsTrueRate
PROPERTIES
  StreamRecovers
  RequestHonoured
