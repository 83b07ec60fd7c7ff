SPECIFICATION FairSpec
CONSTANTS
  Rows = {1, 2, 3}
  Cores = {1, 2}
  Refused = Refused
  None = None
  Creations <- SomeCreations
  Patches <- SomePatches
  Limits = {0, 1, 3}
  MaxPerPage = 2
  DefaultPerPage = 1
  MaxOffset = 3
  MaxContacts = 3
  MaxTime = 1
INVARIANTS
  TypeOK
  ListNeverFails
  OneAccountPerAddress
  PagesMissNobody
PROPERTIES
  PagingEnds
