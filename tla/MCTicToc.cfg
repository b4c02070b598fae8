SPECIFICATION Spec
CONSTANTS
  Thread = {t1, t2}
  Key = {1, 2}
  Procedure <- Mixed
  Builds <- AllLocking
  PREEMPTIVE_ABORTS = TRUE
  DELTA_MAX = 1
  MaxTxn = 2
  None = None
SYMMETRY Symmetry
INVARIANTS LocksOwned TimestampOrder SerializableWithoutHistory
