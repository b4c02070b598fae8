SPECIFICATION FairSpec
CONSTANTS
  Thread = {1, 2}
  Key = {1, 2, 3, 4, 5, 6, 7}
  Initial = {1, 2}
  OrderBase = 4
  Workloads <- AllWorkloads
  Record = {1, 2, 3, 4, 5}
  FirstEpoch = 2
  MaxEpoch = 4
  EpochSpan = 8
INVARIANTS SerializableCommits IndexSound
PROPERTY AttemptEnds
CHECK_DEADLOCK FALSE
