SPECIFICATION FairSpec
CONSTANTS
  Thread = {t1, t2}
  Key = {1, 2}
  Procedure <- Procedures
  PRE_NUM = 3
  WAIT_LIST_SIZE = 5
  Builds = {"determinism", "fixed"}
  None = None
INVARIANT SerialInTxOrder
PROPERTY EveryTxCommits
