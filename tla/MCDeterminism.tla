--------------------------- MODULE MCDeterminism ---------------------------
(* Instances of Determinism for TLC. *)
EXTENDS Determinism

R(k) == [op |-> "READ", key |-> k]
W(k) == [op |-> "WRITE", key |-> k]

\* Shared reads, upgrades another reader refuses, a read after an upgrade, and
\* the procedure of makeTask_init.
Procedures == { << W(1) >>, << R(1), R(2), W(1) >>, << R(2), W(2), R(2) >> }
=============================================================================
