------------------------------ MODULE TxOrder ------------------------------
(***************************************************************************)
(* What the deterministic programs promise.  Transactions are drawn before *)
(* the run and numbered, and the numbers alone decide what each reads and  *)
(* what a record holds when: lock-manager/ and its variants arrive at that *)
(* by wait lists, determinism_end_after_tx1/ and its variants by taking    *)
(* all locks under the giant lock.                                         *)
(***************************************************************************)
EXTENDS Integers, Sequences, History, LockedTable

CONSTANTS
    PRE_NUM,         \* number of transactions drawn
    FirstTx          \* the initial tx_counter: 0, 1 or 3 in the variants

TxId == FirstTx .. PRE_NUM - 1

VARIABLES
    pre,          \* Pre_tx_set, never changed
    order         \* history: the writers of each record, oldest first

\* The number of the last transaction before i, or of i itself, to write k.
Writers(k, i) == {j \in TxId : j <= i /\ \E n \in DOMAIN pre[j] :
                                  pre[j][n] = [op |-> "WRITE", key |-> k]}
LastWriter(k, i) ==
    IF Writers(k, i) = {} THEN None
    ELSE CHOOSE j \in Writers(k, i) : \A m \in Writers(k, i) : m <= j

\* Determinism: the transactions read what they would if they were run one at a
\* time in the order of their numbers, and write each record in that order,
\* whatever worker ran them when, and whatever was refused in between.
SerialInTxOrder ==
    /\ \A a \in committed : \A r \in a.reads :
          r.ver = LastWriter(r.key, a.id) \/ r.ver = LastWriter(r.key, a.id - 1)
    /\ \A k \in Key : \A i, j \in DOMAIN order[k] :
          i < j => order[k][i] < order[k][j]
=============================================================================
