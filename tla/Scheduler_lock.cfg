SPECIFICATION Spec
CONSTANTS
  CPUs = {bsp}
  BSP = bsp
  Forkers = {bsp}
  Slice = 4
  None = None
  Lost = Lost
PROPERTY HolderGoesOn
CHECK_DEADLOCK FALSE
