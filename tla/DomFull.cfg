CONSTANTS
  foo = foo
  foonet = foonet
  bar = bar
  fooUser = fooUser
  barUser = barUser
  r1 = r1
  r2 = r2
  v1 = v1
  v2 = v2
  None = None
  Domain = {foo, foonet, bar}
  Name = {fooUser, barUser}
  NameOf <- Users
  Version = {v1, v2}
  Request = {r1, r2}
  Op <- AllOps
  Rejected = {}
  MaxFaults = 2
SPECIFICATION Spec
INVARIANTS ActiveIsProvisioned InactiveIsDown OwnAccount
CHECK_DEADLOCK FALSE
