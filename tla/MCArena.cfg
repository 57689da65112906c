SPECIFICATION Spec
CONSTANTS
  BlockSizes <- MCBlockSizes
  Requests <- MCRequests
  MaxBlocks = 4
  MaxLog = 4
  MaxMarks = 2
  MaxTotal = 80
INVARIANTS
  HeldInside
  HeldDisjoint
  MarksReachable
  NothingLeaks
  HeldAligned
  WithinCapacity
CHECK_DEADLOCK FALSE
