SPECIFICATION Spec
CONSTANTS
  Size = 3
  Keys = {"shift_l", "ctrl_r", "print", "home", "pause"}
  MaxCodes <- Codes
  MaxAhead = 4
  MaxLost = 1
INVARIANTS
  ReadInPlace
  ModifiersFollow
  PacketsInPhase

  
