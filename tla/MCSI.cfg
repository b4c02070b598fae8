SPECIFICATION SpecERMIA
CONSTANTS
  Thread = {0, 1}
  Key = {1, 2}
  Procedure <- Workloads
  Builds = {"CCTR_ON", "CCTR_TW", "ERMIA"}
  RESERVE = 5
  MaxTry <- Tries
  UINT32_MAX = 63
INVARIANTS ListsInOrder SeesWhatHadEnded SuccessorsKnown NothingReusedInUse NobodyWaitsInCircles
