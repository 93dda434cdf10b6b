SPECIFICATION Spec
CONSTANTS
  MaxSpawns = 2
  MaxDeletes = 2
  MaxClones = 2
  Folders = {"repo", "cloned", "attic"}
  Kind <- KindIs
  Target = "cloned"
  Requests <- RequestsAre
  Tasks = {"fix"}
  MaxSuffix = 3
  MaxCommits = 1
  MaxMoves = 3
INVARIANTS NothingLost KeepsOthers RowsAndTreesAgree CloneIsKept
CHECK_DEADLOCK FALSE
