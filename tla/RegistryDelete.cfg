CONSTANTS
  Callers = {c1, c2}
  Modes = {"ask"}
  MaxLaunches = 1
  MaxInbox = 1
  MayAbandon = FALSE
SPECIFICATION Spec
SYMMETRY CallerSymmetry
CHECK_DEADLOCK FALSE
INVARIANTS
  DeletedRunsNothing
