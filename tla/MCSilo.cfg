SPECIFICATION Spec
CONSTANTS
  Thread = {0, 1}
  Leader = 0
  Key = {0, 1}
  Word = {1}
  Procedure <- SkewProcedures
  NoTxn = NoTxn
  TidSpan = 16
  LockPolicy = "abort"
  WAL = FALSE
  LogFlush = 0
  MaxTxn = 2
  MaxEpoch = 3
INVARIANTS LockOwnership EpochWindow SerializableCommits EpochOrder TidOrder
