---------------------------- MODULE LockedTable ----------------------------
(***************************************************************************)
(* What the locking programs have in common: workers that run transactions *)
(* on records, each with a value and a reader/writer lock.  The promises   *)
(* that TxOrder and TwoPhase state are about this.                         *)
(***************************************************************************)
CONSTANTS
    Thread,
    Key,
    None             \* the value a record is loaded with

VARIABLES
    lock,         \* the counter of each record's lock_
    value,        \* the value of each record: the transaction that wrote it
    pc,           \* where each worker is
    reads,        \* what the transaction of each worker has read
    committed     \* history: the committed transactions
=============================================================================
