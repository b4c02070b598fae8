------------------------------ MODULE MCSS2PL -------------------------------
(* Instances of SS2PL for TLC. *)
EXTENDS SS2PL

R(k) == [ope |-> "READ", key |-> k]
W(k) == [ope |-> "WRITE", key |-> k]
RMW(k) == [ope |-> "READ_MODIFY_WRITE", key |-> k]

NoWait == [DLR0 |-> FALSE, KEY_SORT |-> FALSE]
SortedWait == [DLR0 |-> TRUE, KEY_SORT |-> TRUE]
TwoBuilds == {NoWait, SortedWait}

\* No-wait, with FLAGS_rmw so that every write is a read-modify-write: upgrades,
\* hits in the local sets, and two records in both orders.  Waiting, with the
\* operations sorted: a chain of three records, in both orders, and one record twice.
Procedures ==
    [b \in TwoBuilds |->
        IF b = NoWait
        THEN { << R(1), RMW(1), R(1) >>, << R(2), RMW(1) >>, << RMW(1), W(2) >> }
        ELSE { << R(1), W(2) >>, << W(2), R(1) >>, << R(2), W(3) >>, << W(3), R(2) >>,
               << R(1), W(1) >>, << W(1), R(1) >> }]
=============================================================================
