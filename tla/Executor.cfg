SPECIFICATION Spec
CONSTANTS
  Keyboard = keyboard
  Others = {example}
  TaskQueueSize = 3
  ScancodeSize = 2
  MaxKeys = 6
INVARIANTS NoLostWakeup PrintedInOrder
PROPERTY InputIsRead
