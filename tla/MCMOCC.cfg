SPECIFICATION Spec
CONSTANTS
  Thread = {0, 1}
  Leader = 0
  Key = {0, 1, 2}
  Page <- OwnPage
  Procedure <- Procedures
  NoTxn = NoTxn
  TEMP_THRESHOLD = 1
  TEMP_MAX = 1
  TidSpan = 16
  MaxTxn = 1
  MaxEpoch = 2
INVARIANTS NoWaitingInCircles LockedReadsSerializable

