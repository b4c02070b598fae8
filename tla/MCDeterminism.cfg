SPECIFICATION FairSpec
CONSTANTS
  Thread = {t1, t2, t3}
  Key = {1, 2}
  Procedure <- Procedures
  PRE_NUM = 3
  FirstTx = 0
  Variants = {TRUE, FALSE}
  None = None
INVARIANT SerialInTxOrder
PROPERTY EveryTxCommits
