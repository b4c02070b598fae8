------------------------------ MODULE TwoPhase ------------------------------
(***************************************************************************)
(* What strict two-phase locking promises: the locks are those in the      *)
(* lists of their holders, what a transaction has read stays as it is, and *)
(* the transactions are executed as by the serial store.                   *)
(***************************************************************************)
EXTENDS Sequences, FiniteSets, RWLock, LockedTable

CONSTANT MaxTxn    \* bound: transactions a worker commits

VARIABLES
    r_lock_list,   \* the records each worker holds read locks on
    w_lock_list,   \* the records it holds write locks on
    unstored,      \* in commit: the keys of write_set_ it has yet to store
    txn            \* the transactions it has committed

Txn == Thread \X (0 .. MaxTxn - 1)

\* The transaction a worker is at, which is also the version it writes.
Id(t) == << t, txn[t] >>

ReadersOf(k) == {t \in Thread : k \in r_lock_list[t]}
WritersOf(k) == {t \in Thread : k \in w_lock_list[t]}

\* The counter of a lock is what its holders' lists say, and a writer is alone:
\* through upgrades and aborts no lock is leaked and none is released twice.
LocksMatch ==
    \A k \in Key :
        \/ WritersOf(k) = {} /\ lock[k] = Cardinality(ReadersOf(k))
        \/ /\ \E t \in Thread : WritersOf(k) = {t}
           /\ ReadersOf(k) = {} /\ lock[k] = WriteLocked

\* Until a transaction commits or aborts, every value it has read is the one in
\* the database: its reads can be repeated, and it has read no write of a
\* transaction that may still store others.
ReadsStayValid ==
    \A t \in Thread : pc[t] = "run" =>
        \A r \in reads[t] : value[r.key] = r.ver

\* What the database holds, with the values that committed transactions have yet
\* to store.
Database ==
    [k \in Key |-> IF \E t \in Thread : k \in unstored[t]
                   THEN Id(CHOOSE t \in Thread : k \in unstored[t])
                   ELSE value[k]]

Serial == INSTANCE SerialStore WITH
    TxnId <- Txn, Initial <- None, db <- Database, log <- committed

\* The transactions are executed one at a time, in the step in which each begins
\* to commit: what a transaction reads at different times, and stores one value
\* after another, it reads and stores at once.
SerialExecution == Serial!Spec
=============================================================================
