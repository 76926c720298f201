SPECIFICATION Spec
CONSTANTS
  s1 = s1
  s2 = s2
  s3 = s3
  NoSession = NoSession
  Samples <- MCSamples
  Scores = {0}
  EntriesPerHost = 2
  RetiredPerHost = 1
SYMMETRY Symmetry
INVARIANTS
  TypeOK
  AtMostOnce
  FeedbackIsOwn
  OwnedTogether
PROPERTIES
  InOrder
