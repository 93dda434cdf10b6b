CONSTANTS
  Prompts = {}
  Window = 1
  BusCap = 2
  Written = 4
  MaxNew = 2
  MaxDrops = 2
SPECIFICATION Spec
CHECK_DEADLOCK FALSE
PROPERTIES
  FollowsTheLog
