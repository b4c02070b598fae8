-------------------------------- MODULE MCOCC -------------------------------
(* Instances of OCC for TLC. *)
EXTENDS OCC

R(k) == [ope |-> "READ", key |-> k]
W(k) == [ope |-> "WRITE", key |-> k]

\* Write skew, a read of an own write, and a read-modify-write.
Mixed == { << R(1), W(2) >>, << R(2), W(1), R(1) >>, << R(1), W(1) >> }

\* A counter, and a write of another record.
Counting == { << R(1), W(1) >>, << W(2) >> }
=============================================================================
