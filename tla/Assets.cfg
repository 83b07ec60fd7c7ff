SPECIFICATION FairSpec
CONSTANTS
  Assets = {a1}
  Sizes = {1, 2}
  Requests = {x1, x2, x3}
  None = None
INVARIANTS
  TypeOK
  BytesAreRecorded
  DeletedLeavesNoBytes
  ReadyIsVerified
PROPERTIES
  ImplementsLife
  DeletionSucceeds
CHECK_DEADLOCK FALSE
