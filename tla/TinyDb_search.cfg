SPECIFICATION Spec
CONSTANTS
  Nothing = Nothing
  r1 = r1
  r2 = r2
  Reqs = {r1}
  User = "u1"
  Scopes = {"", "a_b", "axb"}
  Ids = {1}
  Values = {"v"}
  MaxVersion = 1
  MayCrash = FALSE
  Tables <- MCTables
  Definitions <- MCDefinitions
  TinyTypes <- MCTypes
  NodeTables <- MCNodeTables
  Keys <- MCKeys
  Types <- MCGQLTypes
  Split <- MCSplit
  Escaped <- MCEscaped
  Folds <- MCFolds
  Likes <- MCLikes
PROPERTY SearchFindsStored
