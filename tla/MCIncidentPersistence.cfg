SPECIFICATION ReadersSpec
CONSTANTS
  Hosts = {h1}
  MaxHistory = 1
  QueueCapacity = 2
  MaxRev = 2
  MaxIncidents = 2
  MaxCrashes = 1
  None = None
INVARIANTS
  TypeOK
  EpisodesDistinct
  FlagCoversFailures
  AnswerIsPromised
PROPERTIES
  RowsMoveForward
  PendingClears
CHECK_DEADLOCK FALSE
