CONSTANTS
  Conns = {c1}
  Requests <- FaultyRequests
  MaxRequests = 1
  MaxOps = 2
  FileChunks = 1
  Faults = {"spurious"}
SPECIFICATION Spec
PROPERTIES ReadsCompleteFirst
