SPECIFICATION MCSpec
CONSTANTS
  NoRow = NoRow
  ada = ada
  bob = bob
  s1 = s1
  s2 = s2
  s3 = s3
  s4 = s4
  k1 = k1
  h1 = h1
  h2 = h2
  c1 = c1
  c2 = c2
  r1 = r1
  r2 = r2
  r3 = r3
  UserIds = {ada, bob}
  SessionIds = {s1, s2, s3}
  KeyIds = {k1}
  HandshakeIds = {h1}
  Scopes = {"none", "docs", "all"}
  NoScope = "none"
  Names = {"ada", "bob"}
  Passwords = {"old"}
  Apps = {"app", "secure"}
  Whitelist = {}
  Reqs = {r1, r2}
  Ops = {"login", "refresh", "addMasterKey", "generateSession", "approveHandshake", "cancelHandshake", "completeHandshake", "deleteSelf"}
  MayCrash = TRUE
  Expiring = {s1}
  MaxPurges = 0
  Codes = {c1, c2}
  Redirects = {"there", "astray"}
  Terms <- MCTerms
  Started <- MCStarted
ACTION_CONSTRAINT Traffic
SYMMETRY SlotSymmetry
INVARIANTS
  HsTypeOK
  SessionIsApprovers
  NeverActsForTheGone
PROPERTIES
  HandshakesStayClosed
  SessionsAreGiven
