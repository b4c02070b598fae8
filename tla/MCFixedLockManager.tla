------------------------- MODULE MCFixedLockManager -------------------------
(* Instances of FixedLockManager for TLC. *)
EXTENDS FixedLockManager

R(k) == [op |-> "READ", key |-> k]
W(k) == [op |-> "WRITE", key |-> k]

\* Reads shared by two transactions, writes behind them, and an upgrade with
\* one entry too many.
Procedures == { << R(1), W(2) >>, << R(1), W(1), W(1) >>, << R(2), R(1), W(1) >> }
=============================================================================
