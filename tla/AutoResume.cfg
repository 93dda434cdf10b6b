CONSTANTS
  TICK = 1
  RESET_GRACE = 1
  PATIENCE = 2
  FIRST_BACKOFF = 1
  MAX_BACKOFF = 2
  DENSE_TRIES = 2
  PROBE = 3
  REARM_FLOOR = 2
  MAX_NUDGES = 3
  PROGRESS = 2
  Ahead = {1}
  MaxTime = 6
SPECIFICATION WatcherSpec
CHECK_DEADLOCK FALSE
INVARIANTS
  Ceiling
  SaysWhereItStands
PROPERTIES
  PacedWhateverTheEvidence
  NeverSleepsThrough
