------------------------------- MODULE MCSilo -------------------------------
(* Instances of Silo for TLC: the operations are short transactions over    *)
(* two records that read one and write the other, or read-modify-write.     *)
EXTENDS Silo

R(k) == [op |-> "READ", key |-> k]
W(k) == [op |-> "WRITE", key |-> k]

\* Write skew, and blind writes around it.
SkewProcedures == { << R(0), W(1) >>, << R(1), W(0) >>, << W(0) >>, << W(1) >> }

\* Read-only transactions, read-modify-writes, and a read of one's own write.
MixedProcedures == { << R(0), R(1) >>, << R(0), W(0), W(1) >>, << W(1), R(0), R(1) >> }
=============================================================================
