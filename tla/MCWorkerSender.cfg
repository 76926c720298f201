SPECIFICATION Spec
CONSTANTS
  Sizes = {1, 2, 5}
  MaxItems = 3
  MaxBytes = 4
  MaxRetries = 1
  MaxSamples = 4
  None = None
INVARIANTS
  TypeOK
  SentInOrder
  OneAttemptAfterStop
PROPERTIES
  EvidenceKept
  StopEnds
CHECK_DEADLOCK FALSE
