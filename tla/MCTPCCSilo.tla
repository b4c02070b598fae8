----------------------------- MODULE MCTPCCSilo -----------------------------
(* Instances of TPCCSilo for TLC.  Keys 1 and 2 are loaded; 1 is a district, *)
(* whose orders have the keys from 4.                                        *)
EXTENDS TPCCSilo

R(k) == [op |-> "READ", key |-> k]
U(k) == [op |-> "UPDATE", key |-> k]
I(k) == [op |-> "INSERT", key |-> k]
D(k) == [op |-> "DELETE", key |-> k]

NewOrder == << R(2), R(1), [op |-> "ADVANCE", key |-> 1], [op |-> "INSERT_ORDER", key |-> 1] >>
Payment == << R(1), U(1) >>

\* Two workers on one district.
Orders == { << << NewOrder >>, << Payment, NewOrder >> >> }

\* A record is deleted while another worker is to update it, which then
\* inserts it again.
Deletes == { << << << R(1), D(2), R(1) >> >>,
                << << R(2), U(1), I(3), U(2) >>, << I(2), U(2), R(1) >> >> >>,
             << << << R(2), D(2), R(1) >> >>, << << U(1), U(2) >>, << I(2), U(2), R(1) >> >> >> }

\* Each reads what the other writes.
Crosswise == { << << << R(1), U(2), R(2) >> >>, << << R(2), I(3), U(1) >> >> >> }

\* A record is deleted, freed and allocated again while an update holds it.
Reclaimed == { << << << R(1), D(1), R(2) >>, << I(1), U(1) >> >>,
                  << << R(1), U(2) >>, << U(1), I(3) >> >> >> }

\* Two updates of a record that a third worker deletes.
Leaked == { << << << R(2), D(2) >> >>, << << U(2) >> >>, << << U(2) >> >> >> }

AllWorkloads == Orders \cup Deletes \cup Crosswise
=============================================================================
