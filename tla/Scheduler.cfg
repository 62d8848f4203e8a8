SPECIFICATION Spec
CONSTANTS
  CPUs = {bsp, ap}
  BSP = bsp
  Forkers = {bsp, ap}
  Slice = 1
  None = None
  Lost = Lost
INVARIANTS TakenOnce CountExact IdleIfNoneWaits SliceEnds
CHECK_DEADLOCK FALSE
