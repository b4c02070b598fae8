SPECIFICATION FairSpec
CONSTANTS
  Thread = {t1, t2}
  Key = {1, 2}
  Procedure <- Mixed
  OCC_GC_THRESHOLD = 2
  WORDS = 2
  MaxTxn = 2
INVARIANT WriteSetsKept
PROPERTIES SerialExecution Shutdown
