---------------------------- MODULE SerialStore -----------------------------
(***************************************************************************)
(* What a serializable protocol of this repository promises: a store whose *)
(* transactions are executed one at a time.  In the step in which it       *)
(* commits a transaction reads what the store then holds of the records it *)
(* reads, and replaces the records it writes.  What a record holds is the  *)
(* transaction that wrote it.                                              *)
(*                                                                         *)
(* This is the serial execution of ss2pl_serial/, where one worker runs    *)
(* every transaction to its end, with the steps of a transaction as one.   *)
(***************************************************************************)
EXTENDS Naturals, Sequences

CONSTANTS
    Key,
    TxnId,      \* the transactions
    Initial     \* what the records are loaded with

VARIABLES
    db,         \* what each record holds
    log         \* the committed transactions: id, reads, writes

Init ==
    /\ db = [k \in Key |-> Initial]
    /\ log = << >>

\* Transaction id reads the records in R and writes those in W.
Execute(id, R, W) ==
    /\ log' = Append(log, [id |-> id,
                           reads |-> {[key |-> k, ver |-> db[k]] : k \in R},
                           writes |-> W])
    /\ db' = [k \in Key |-> IF k \in W THEN id ELSE db[k]]

\* Every step commits a transaction, the last in the new log.
Next ==
    /\ Len(log') = Len(log) + 1
    /\ log'[Len(log')].id \in TxnId
    /\ \E R, W \in SUBSET Key : Execute(log'[Len(log')].id, R, W)

Spec == Init /\ [][Next]_<< db, log >>
=============================================================================
