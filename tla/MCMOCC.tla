------------------------------- MODULE MCMOCC -------------------------------
(* Instances of MOCC for TLC: transactions of two operations on two records  *)
(* that are hot after one failed verification.                               *)
EXTENDS MOCC

R(k) == [op |-> "READ", key |-> k]
W(k) == [op |-> "WRITE", key |-> k]
RMW(k) == [op |-> "READ_MODIFY_WRITE", key |-> k]

\* A page for every record.
OwnPage == [k \in Key |-> k]

Procedures ==
    { << R(2), W(1), RMW(0) >>, << R(1), RMW(2), W(0) >>, << RMW(0), W(2), R(1) >>,
      << R(0), R(1), W(2) >>, << W(2), R(1), RMW(1) >> }

\* Write skew.
SkewProcedures == { << R(1), W(0) >>, << R(0), W(1) >> }
=============================================================================
