CONSTANTS
  Conns = {c1, c2}
  Requests <- FewRequests
  MaxRequests = 2
  Modes <- AllModes
  PoolSize = 1
  FileChunks = 1
  Faults = {"slow", "reset", "send"}
SPECIFICATION FairSpec
INVARIANTS TypeOK ThreadsConserved QueueHoldsTheWaiting PoolSurvives
PROPERTIES EventuallyServed
CHECK_DEADLOCK FALSE
