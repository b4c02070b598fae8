------------------------------ MODULE MCCicada ------------------------------
(* Instances of Cicada for TLC. *)
EXTENDS Cicada

R(k) == [ope |-> "READ", key |-> k]
W(k) == [ope |-> "WRITE", key |-> k]

Workers(a, b) == [t \in Thread |-> IF t = 0 THEN a ELSE b]

\* Two transactions write two records crosswise, then each reads or writes both.
Crosswise ==
    [promotion |-> FALSE, tries |-> Workers(2, 2),
     procedures |-> Workers(<< << R(1), W(2), R(2) >>, << R(1), R(2) >> >>,
                            << << R(2), W(2), W(1) >>, << W(2), W(1) >> >>)]

\* One worker overwrites a record until its versions can be collected, and the other
\* reads it.
Collecting ==
    [promotion |-> TRUE, tries |-> Workers(3, 3),
     procedures |-> Workers(<< << W(2) >>, << R(1), W(2) >>, << R(1), R(2) >> >>,
                            << << W(1) >>, << R(2), W(1) >>, << R(1), W(1) >> >>)]

\* The two collect versions of one record.
Overwriting ==
    [promotion |-> FALSE, tries |-> Workers(4, 3),
     procedures |-> Workers(<< << W(1) >>, << W(1) >>, << W(1) >>, << W(1) >> >>,
                            << << W(1) >>, << W(1) >>, << W(1) >> >>)]

All == {Crosswise, Collecting, Overwriting}

\* Once versions have been collected, a read-only transaction reads two records
\* while a transaction reads the one and writes the other.
Promoting ==
    {[promotion |-> TRUE, tries |-> Workers(3, 4),
      procedures |-> Workers(<< << W(2) >>, << W(2) >>, << R(2), R(1) >> >>,
                             << << W(1) >>, << W(2) >>, << W(2) >>, << R(1), W(2) >> >>)]}
=============================================================================
