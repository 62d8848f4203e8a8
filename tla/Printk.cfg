SPECIFICATION FairConsoleSpec
CONSTANTS
  CPUs = {bsp, ap}
  BSP = bsp
  None = None
  Lost = Lost
INVARIANT LockedWriterOwns
PROPERTY LockGivenBack
CHECK_DEADLOCK FALSE
