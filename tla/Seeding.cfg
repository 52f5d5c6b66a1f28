SPECIFICATION Spec
CONSTANTS
  pod1 = pod1  pod2 = pod2  pod3 = pod3
  customer = customer  admin = admin
  demo = demo  renamed = renamed  boss = boss
  ph1 = ph1  ph2 = ph2  ph3 = ph3
  Nil = Nil
  Pod = {pod1, pod2, pod3}
  DefaultRoles <- MCDefaultRoles
  Environment <- MCEnvironment
  Customer = customer
  Email = {demo, renamed, boss}
  Phone = {ph1, ph2, ph3}
  MaxCrashes = 2
  MaxRequests = 2
INVARIANTS TypeOK ServingMeansSeeded
PROPERTIES ExistingUsersKept StartsSucceed
CHECK_DEADLOCK FALSE
