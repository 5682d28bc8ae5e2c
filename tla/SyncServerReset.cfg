CONSTANTS
  Conns = {c1}
  Requests <- FewRequests
  MaxRequests = 1
  Modes = {"pool"}
  PoolSize = 1
  FileChunks = 1
  Faults = {"reset"}
SPECIFICATION Spec
PROPERTIES WriteSeesClosed
CHECK_DEADLOCK FALSE
