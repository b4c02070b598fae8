SPECIFICATION FairSpec
CONSTANTS
  Thread = {t1, t2, t3}
  Key = {1, 2, 3}
  Builds <- TwoBuilds
  Procedure <- Procedures
  MaxTxn = 1
  None = None
INVARIANTS LocksMatch ReadsStayValid
PROPERTIES SerialExecution 
