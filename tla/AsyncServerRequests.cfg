CONSTANTS
  Conns = {c1}
  Requests <- AllRequests
  MaxRequests = 2
  MaxOps = 2
  FileChunks = 1
  Faults = {"slow", "reset"}
SPECIFICATION FairSpec
INVARIANTS TypeOK SingleOperation AnswersInOrder
PROPERTIES ClosedForAReason ImplementsHttpService
