CONSTANTS
  Conns = {c1}
  Requests <- FaultyRequests
  MaxRequests = 2
  MaxOps = 2
  FileChunks = 1
  Faults = {"slow", "reset", "sigpipe", "accept", "spurious", "send", "poll"}
SPECIFICATION Spec
INVARIANTS EachAnswerWhole
CHECK_DEADLOCK FALSE
