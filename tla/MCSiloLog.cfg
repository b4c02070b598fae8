SPECIFICATION FairSpec
CONSTANTS
  Thread = {0, 1}
  Leader = 0
  Key = {0, 1}
  Word = {1, 2}
  Procedure <- MixedProcedures
  NoTxn = NoTxn
  TidSpan = 2
  LockPolicy = "retry"
  WAL = TRUE
  LogFlush = 1
  MaxTxn = 1
  MaxEpoch = 2
INVARIANTS SerializableCommits LogWhole
PROPERTIES LocksReleased Shutdown
