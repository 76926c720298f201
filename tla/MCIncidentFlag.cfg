SPECIFICATION ReadersSpec
CONSTANTS
  Hosts = {h1, h2}
  MaxHistory = 1
  QueueCapacity = 2
  MaxRev = 2
  MaxIncidents = 2
  MaxCrashes = 1
  None = None
INVARIANTS
  FlagCoversAll
CHECK_DEADLOCK FALSE
