CONSTANTS
  Conns = {c1}
  Requests <- AnsweredRequests
  MaxRequests = 3
  MaxOps = 2
  FileChunks = 1
  Faults = {}
SPECIFICATION FairSpec
PROPERTIES EventuallyAnswered
