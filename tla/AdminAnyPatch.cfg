SPECIFICATION Spec
CONSTANTS
  Users = {1, 2}
  Roles = {"admin", "sales"}
  Patches <- AnyPatch
  Requests = {x1, x2, x3}
SYMMETRY Symmetry
INVARIANTS
  TypeOK
  CheckedRemovalIsSafe
  AdminRemovalsDoNotDeadlock
