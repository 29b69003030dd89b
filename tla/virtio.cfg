SPECIFICATION FairSpec
CONSTANTS
  None = None
  Sectors = {0, 1}
  Blocks = {b1, b2}
  Disks <- SmallDisks
  IdxSize = 6
  QUEUE_SIZE = 4
  MaxSizes = {0, 2, 3, 5, 6}
  Buses <- SmallBuses
  UsedIds = {0, 1}
  FenceOrdersIo = TRUE
INVARIANTS
  TypeOK
  IndicesAgree
  ServesTheCallInProgress
  ReadsOwnUsedElem
PROPERTIES
  ImplementsStore
  CallsReturn
