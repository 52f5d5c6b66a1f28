SPECIFICATION Spec
CONSTANTS
  c1 = c1  c2 = c2
  u1 = u1  u2 = u2
  e1 = e1  e2 = e2
  n1 = n1  n2 = n2
  ph1 = ph1  ph2 = ph2
  customer = customer  unknown = unknown
  Nil = Nil
  NoPhone = NoPhone
  Customer = customer
  Client = {c1, c2}
  User = {u1, u2}
  Email = {e1, e2}
  Name = {n1}
  Phone = {ph1, ph2}
  Role = {customer, unknown}
  RoleTable = {customer}
  MaxCommits = 2
SYMMETRY MCSymmetry
INVARIANTS TypeOK AssignmentsMatchCommits KeysStayTaken
PROPERTIES DeletedRowFrozen FieldsChangeByRequest ImplementsAccounts
