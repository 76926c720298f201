SPECIFICATION Spec
CONSTANTS
  Sizes = {1}
  MaxItems = 2
  MaxBytes = 2
  MaxRetries = 1
  MaxSamples = 2
  None = None
PROPERTIES
  RestIsSent
CHECK_DEADLOCK FALSE
