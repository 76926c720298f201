SPECIFICATION Spec
CONSTANTS
  MaxEpisodes = 2
  MaxSeverity = 2
  MaxAlerts = 1
  MaxPending = 1
  HostOf <- MCHostOf
  PageSize = 2
  MaxEvents = 2
  None = None
INVARIANTS
  TypeOK
  SeverityAnnounced
  AnalysesAlive
PROPERTIES
  AckStands
  SettlesOnTruth
