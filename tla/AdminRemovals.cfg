SPECIFICATION FairSpec
CONSTANTS
  Users = {1, 2}
  Roles = {"admin", "sales"}
  Patches <- RemovalOfEach
  Requests = {x1, x2, x3}
INVARIANTS
  SomeActiveAdmin
PROPERTIES
  RequestsFinish
