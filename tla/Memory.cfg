SPECIFICATION CacheSpec
CONSTANTS
  e820 <- SmallMap
  PageSize = 2
  Word = 4
  KernelEnd = 1
  Classes <- TwoClasses
  SlabClass = 1
  MaxRun = 2
  Count = 2
  CacheClass = 1
  MapClass = 2
INVARIANTS OwnedOnce CountsAgree CacheExact
PROPERTY ReleaseKeepsReserve
CHECK_DEADLOCK FALSE
