SPECIFICATION GaiaFairSpec
CONSTANTS
  Nothing = Nothing
  Torn = Torn
  Any = Any
  Hole = "0"
  r1 = r1
  r2 = r2
  r3 = r3
  Paths <- MCPaths
  Bodies <- MCBodies
  Reqs = {r1, r2, r3}
  FileOps = {}
  MaxTime = 2
  MayAbort = TRUE
  MayCrash = TRUE
  AddressInParams = TRUE
INVARIANTS
  NoTwoWriters
  UntornAgree
PROPERTIES
  LocksFreed
  ConditionsHold
