SPECIFICATION FairSpec
CONSTANTS
  CPUs = {bsp, ap}
  BSP = bsp
  Timers = {t1, t2}
  timer_list_head = head
  Delays = {1, 2}
  None = None
  Lost = Lost
  MaxJiffies = 2
  MaxOver = 1
  MaxPrints = 2
INVARIANT NoTimerLost
PROPERTY EventuallyRuns
