SPECIFICATION Spec
CONSTANTS
  r1 = r1
  r2 = r2
  r3 = r3
  h1 = h1
  h2 = h2
  A = A
  B = B
  None = None
  Requests = {r1, r2, r3}
  Hosts = {h1, h2}
  Shards = {A, B}
  HostOf <- MCHostOf
  ShardOf <- MCShardOf
  ItemBytes <- MCItemBytes
  TaskBytes <- MCTaskBytes
  ShardMaxItems = 2
  ShardMaxBytes = 3
  PersistMaxItems = 1
  PersistMaxBytes = 4
INVARIANTS
  TypeOK
  PromiseOnce
  NothingLostOnStop
PROPERTIES
  QueueFullWhileOpen
  StopEnds
  ImplementsIntake
CHECK_DEADLOCK FALSE
