CONSTANTS
  Cli = 2
  Shell = 3
  Pids = {4, 5}
  ClockSlack = 0
  ProofSlack = 2
  Lag = 1
  Coarse = 0
  PidWrap = 2
  MaxGroups = 1
  MaxChanges = 3
  MaxTime = 5
SPECIFICATION Spec
CHECK_DEADLOCK FALSE
INVARIANTS
  OnlyOurs
  ProofsHold
  NoneLeft
