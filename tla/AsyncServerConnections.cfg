CONSTANTS
  Conns = {c1, c2}
  Requests <- FewRequests
  MaxRequests = 1
  MaxOps = 2
  FileChunks = 1
  Faults = {"slow"}
SPECIFICATION FairSpec
INVARIANTS EveryPollableHeldOnce ListenerStays
PROPERTIES EventuallyAccepted ConnectionsEnd
