SPECIFICATION Spec
CONSTANTS
  Devices = {d1, d2}
  MaxKeys = 2
  Puts = {p1, p2}
  Settings = {"default", "mine"}
  Valid = {"default", "mine"}
  Default = "default"
  MaxMoves = 3
INVARIANTS KeepsThePaired ListensAsTold SettingsAgree
PROPERTY NewKeyIsTaken
CHECK_DEADLOCK FALSE
