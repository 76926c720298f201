SPECIFICATION StreamSpec
CONSTANTS
  MaxRuns = 3
  MaxSeq = 3
  MaxAttempts = 2
  MaxInFlight = 2
  MaxManagerRestarts = 1
  NoSession = NoSession
  Samples <- MCSamples
  Scores = {0}
  EntriesPerHost = 2
  RetiredPerHost = 1
INVARIANTS
  LiveIsHeard
PROPERTIES
  GateComesBack
CHECK_DEADLOCK FALSE
