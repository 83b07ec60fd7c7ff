SPECIFICATION Spec
CONSTANTS
  Customers = {c1, c2}
  Contacts = {k1}
  Optional = {"phone"}
  Values = {v1}
  Requests = {x1, x2, x3}
  None = None
SYMMETRY Symmetry
INVARIANTS
  TypeOK
  CodesGapFree
  NoOrphan
  NoDeadlock
PROPERTIES
  ArchivedIsFrozen
  PatchesCompose
  ImplementsBook
