SPECIFICATION Spec
CONSTANTS
  Requests = {1, 2, 3}
  Shapes <- MCShapes
  Transports = {"stdio", "http"}
  Burst = 2
INVARIANTS
  LinesInOrder
  DeletedStaysDeleted
  SessionsAreKept
PROPERTIES
  EveryRequestIsSettled
CHECK_DEADLOCK FALSE
