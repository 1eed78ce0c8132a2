SPECIFICATION MCSpec
CONSTANTS
  NoRow = NoRow
  ada = ada
  bob = bob
  u3 = u3
  u4 = u4
  s1 = s1
  s2 = s2
  s3 = s3
  k1 = k1
  r1 = r1
  r2 = r2
  r3 = r3
  UserIds = {ada, u3, u4}
  SessionIds = {s1, s3}
  KeyIds = {k1}
  HandshakeIds = {}
  Scopes = {"none"}
  NoScope = "none"
  Names = {"ada"}
  Passwords = {"old"}
  Apps = {"app"}
  Whitelist = {}
  Reqs = {r1, r2}
  Ops = {"addMasterKey", "deleteSelf"}
  MayCrash = FALSE
  Expiring = {}
  MaxPurges = 1
INVARIANT DeletedUserLeavesNothing
