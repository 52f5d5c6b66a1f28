SPECIFICATION CacheSpec
CONSTANTS
  c1 = c1  c2 = c2
  s1 = s1  s2 = s2
  u1 = u1  u2 = u2
  p1 = p1  p2 = p2  p3 = p3
  plain = plain
  Nil = Nil
  Client = {c1, c2}
  SessionId = {s1, s2}
  UserKey = {u1}
  RoleList = {plain}
  Pair = {p1, p2}
  MaxAttempts = 3
SYMMETRY MCSymmetry
PROPERTIES DeleteAllListsEverySession
