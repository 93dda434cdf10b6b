CONSTANTS
  Prompts = {"p"}
  Window = 1
  BusCap = 2
  Written = 4
  MaxNew = 3
  MaxDrops = 2
SPECIFICATION Spec
CHECK_DEADLOCK FALSE
INVARIANTS
  Accounted
  
  CursorIsSafe
