SPECIFICATION FairSpec
CONSTANTS
  N = 3
  Forker = 3
INVARIANTS OwnStack OwnTss CountLeftBehind TickFindsQueue
PROPERTIES AllBooted InterruptsServed
