SPECIFICATION Spec
CONSTANTS
  Callers = {c1, c2, c3}
  NULL = NULL
  MaxRequests = 3
  MaxSectors = 2
INVARIANTS
  QueueIsInOrder
  AloneWaitsToTheEnd

  
