SPECIFICATION Spec
CONSTANTS
  Nothing = Nothing
  Torn = Torn
  Hole = "0"
  r1 = r1
  r2 = r2
  Paths <- MCPaths
  Bodies <- MCBodies
  Reqs = {r1, r2}
  FileOps = {"write", "delete"}
  MaxTime = 1
  MayAbort = TRUE
  MayCrash = TRUE
ACTION_CONSTRAINT Traffic
SYMMETRY SlotSymmetry
INVARIANTS
  FilesTypeOK
  UntornAgree
PROPERTIES
  OthersKept
