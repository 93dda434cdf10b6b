CONSTANTS
  Callers = {c1, c2, c3, c4}
  Modes = {"ask", "dangerous"}
  MaxLaunches = 3
  MaxInbox = 2
  MayAbandon = TRUE
SPECIFICATION Spec
SYMMETRY CallerSymmetry
CHECK_DEADLOCK FALSE
INVARIANTS
  OneChild
  LiveChildIsHeld
  SlotHeldForAReason
  LiveRowIsOwned
