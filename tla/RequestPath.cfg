SPECIFICATION PathSpec
CONSTANTS
  c1 = c1  c2 = c2
  s1 = s1  s2 = s2
  p1 = p1  p2 = p2
  boss = boss  alice = alice
  idBoss = idBoss  idAlice = idAlice  idAlias = idAlias
  admin = admin
  fast = fast  slow = slow
  u1 = u1  u2 = u2  u3 = u3
  Nil = Nil
  Client = {c1, c2}
  SessionId = {s1, s2}
  Pair = {p1, p2}
  User = {boss, alice}
  UserKey = {idBoss, idAlice, idAlias}
  Admin = admin
  Seeded = {boss}
  RoleList <- MCRoleList
  Canonical <- MCCanonical
  Parse <- MCParse
  LoginId = {s1, s2}
  Pod = {fast, slow}
  Offset <- MCOffset
  Lifetime = {2, 3, 5}
  Leeway = 1
  Second = 2
  MaxTime = 7
  Listed = {u1, u2, u3}
  Stamp = {1, 2, 3}
  DefaultPerPage = 2
  MaxPerPage = 3
  IntMax = 15
  Int32Max = 3
SYMMETRY MCSymmetry
INVARIANTS PathTypeOK ChangesAreEntitled TransportsAgree AuthorityIsBounded FreshTokenAccepted IndexCoversSessions PagesExact WalkSeesEveryone
CHECK_DEADLOCK FALSE
