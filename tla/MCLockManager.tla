--------------------------- MODULE MCLockManager ---------------------------
(* Instances of LockManager for TLC. *)
EXTENDS LockManager

R(k) == [op |-> "READ", key |-> k]
W(k) == [op |-> "WRITE", key |-> k]

\* Reads shared by two transactions, writes behind them, and an upgrade.
Procedures == { << R(1), W(2) >>, << R(2), R(1), W(1) >> }
=============================================================================
