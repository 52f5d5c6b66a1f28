SPECIFICATION Spec
CONSTANTS
  pod1 = pod1  pod2 = pod2  pod3 = pod3
  customer = customer  admin = admin
  demo = demo  renamed = renamed  boss = boss
  ph1 = ph1  ph2 = ph2  ph3 = ph3
  Nil = Nil
  Pod = {pod1}
  DefaultRoles <- MCDefaultRoles
  Environment <- MCRenamed
  Customer = customer
  Email = {demo, renamed, boss}
  Phone = {ph1, ph2, ph3}
  MaxCrashes = 1
  MaxRequests = 0
PROPERTIES StartsSucceed
CHECK_DEADLOCK FALSE
