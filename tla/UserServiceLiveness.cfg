SPECIFICATION FairServiceSpec
CONSTANTS
  c1 = c1  c2 = c2
  s1 = s1  s2 = s2
  p1 = p1  p2 = p2  p3 = p3
  alice = alice
  customer = customer
  canonical = canonical  uppercase = uppercase  garbage = garbage
  Nil = Nil
  Client = {c1, c2}
  SessionId = {s1}
  Pair = {p1, p2}
  User = {alice}
  UserKey = {canonical}
  Role = {customer}
  RoleList <- MCRoleList
  Customer = customer
  Canonical <- MCCanonical
  Parse <- MCParse
  MaxAttempts = 3
  MaxRevision = 0
INVARIANTS RequestsCanGoOn
PROPERTIES RequestsReturn
