SPECIFICATION Spec
CONSTANTS
  Users = {1, 2}
  Roles = {"admin", "sales"}
  Patches <- DemoteOrPromote
  Requests = {x1, x2, x3}
SYMMETRY Symmetry
INVARIANTS
  SomeActiveAdmin
