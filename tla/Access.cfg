SPECIFICATION Spec
CONSTANTS
  Users = {u1, u2}
  Roles = {"admin", "sales"}
  Permissions = {"ManageUsers", "WriteCustomer"}
  Replicas = {r1, r2}
  AccessTtl = 1
  MaxIatSkew = 1
  MaxSkew = 1
  MaxTime = 2
  MaxTokens = 2
  Requests = {x1, x2}
  None = None
SYMMETRY Symmetry
INVARIANTS
  TypeOK
  ActsWithinAuthority
  AcceptedWhileLive
CHECK_DEADLOCK FALSE
