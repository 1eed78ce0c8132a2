SPECIFICATION MCSpec
CONSTANTS
  NoRow = NoRow
  ada = ada
  bob = bob
  u3 = u3
  u4 = u4
  s1 = s1
  s2 = s2
  s3 = s3
  k1 = k1
  r1 = r1
  r2 = r2
  r3 = r3
  UserIds = {ada, bob}
  SessionIds = {s1, s2, s3}
  KeyIds = {}
  HandshakeIds = {}
  Scopes = {"none"}
  NoScope = "none"
  Names = {"ada", "bob"}
  Passwords = {"old"}
  Apps = {"app"}
  Whitelist = {}
  Reqs = {r1}
  Ops = {"deleteSessions"}
  MayCrash = TRUE
  Expiring = {s3}
  MaxPurges = 1
PROPERTY RevokeAllRevokes
