CONSTANTS
  Tasks = {t1, t2, t3}
  MaxSubagents = 2
  MaxTurns = 2
  MaxInbox = 1
  MaxRaised = 1
SPECIFICATION Spec
SYMMETRY TaskSymmetry
CHECK_DEADLOCK FALSE
INVARIANTS
  ComesToRest
  HeldForAReason
  FirstTurnIdleIsYourTurn
  ShownEndsAreReal
  NoGhostSubagents
