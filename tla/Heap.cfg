SPECIFICATION Spec
CONSTANTS
  HEAP_START = 8
  HEAP_SIZE = 16
  PageSize = 8
  Word = 2
  BLOCK_SIZES = {2, 4, 8}
  Layouts <- Requests
  MemoryMaps <- Maps
  Tables = 1
INVARIANTS
  EveryByteAccounted
  HeapIsMapped
PROPERTY
  ImplementsHeap
