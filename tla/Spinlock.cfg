SPECIFICATION FairLockSpec
CONSTANTS
  Contexts = {c1, c2, c3}
  None = None
INVARIANT LockInv
PROPERTIES AbstractSpec WaiterGetsLock
