SPECIFICATION MCFairSpec
CONSTANTS
  NoRow = NoRow
  ada = ada
  bob = bob
  u3 = u3
  u4 = u4
  s1 = s1
  s2 = s2
  s3 = s3
  k1 = k1
  r1 = r1
  r2 = r2
  r3 = r3
  UserIds = {ada}
  SessionIds = {s1, s2, s3}
  KeyIds = {}
  HandshakeIds = {}
  Scopes = {"none"}
  NoScope = "none"
  Names = {"ada"}
  Passwords = {"old", "new"}
  Apps = {"app"}
  Whitelist = {}
  Reqs = {r1, r2}
  Ops = {"login", "deleteSelf"}
  MayCrash = FALSE
  Expiring = {s1, s3}
  MaxPurges = 1
PROPERTIES
  DeletedUsersSessionsGo
