SPECIFICATION Spec
CONSTANTS
  N = 2
  Key = {1, 2}
  Workloads <- All
  Elapsed = {TRUE}
  BOOST = 1
  MaxSlot = 7
  None = None
INVARIANTS ListsInOrder NothingCollectedInUse TimestampOrder NoWaitingInCircles
