SPECIFICATION Spec
CONSTANTS
  AnomalyEnterCount = 2
  DiagnosticEnterCount = 2
  AnomalyExitCount = 2
  ProfilingDuration = 2
  CooldownDuration = 2
  MaxFeedbackAge = 1
  Triggers = {0, 4}
  None = None
  Flaky = {"Tcp", "OnCpuProfile"}
  MaxAttach = 3
  RetryDelay = 1
  MaxDuration = 2
  Nothing = Nothing
INVARIANTS
  TypeOK
  ProbesFollowState
PROPERTIES
  ProfilingIsShort
  MovesOnStreaks
  ObservedAgain
  AttemptsBounded
  QuietsDown
  ProfilesEnd
