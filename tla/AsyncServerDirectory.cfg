CONSTANTS
  Conns = {c1}
  Requests <- DirectoryRequests
  MaxRequests = 1
  MaxOps = 2
  FileChunks = 1
  Faults = {"slow"}
SPECIFICATION FairSpec
PROPERTIES DeadlinesEnd
