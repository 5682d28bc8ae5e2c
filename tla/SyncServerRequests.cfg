CONSTANTS
  Conns = {c1}
  Requests <- AllRequests
  MaxRequests = 2
  Modes <- AllModes
  PoolSize = 1
  FileChunks = 1
  Faults = {"slow", "reset", "sigpipe", "accept", "thread"}
SPECIFICATION FairSpec
INVARIANTS AnswersInOrder
PROPERTIES ImplementsHttpService
CHECK_DEADLOCK FALSE
