-------------------------------- MODULE MCSI --------------------------------
(* Instances of SI and ERMIA for TLC. *)
EXTENDS ERMIA

R(k) == [ope |-> "READ", key |-> k]
W(k) == [ope |-> "WRITE", key |-> k]

\* The leader overwrites a record until its versions can be reclaimed; then the
\* two write two records crosswise.
Crosswise ==
    [t \in Thread |->
        IF t = 0 THEN << {<< W(1) >>}, {<< W(1) >>}, {<< R(1), W(1), W(2) >>} >>
        ELSE << {<< R(1), W(1) >>}, {<< W(2), R(2), W(1) >>} >>]

\* ERMIA: write skew, then writes of both to one record, until the first version of
\* a record can be reclaimed.
Skew ==
    [t \in Thread |->
        IF t = 0 THEN << {<< R(1), W(2) >>}, {<< W(1) >>}, {<< W(2) >>} >>
        ELSE << {<< R(2), W(1) >>}, {<< R(1), W(1) >>} >>]

Workloads == [b \in Builds |-> IF b = "ERMIA" THEN Skew ELSE Crosswise]

\* In SI the leader starts often enough for the threshold to move twice.  In ERMIA
\* its third procedure only lets it lead once more.
Tries ==
    [b \in Builds |-> [t \in Thread |->
        IF b = "ERMIA" THEN IF t = 0 THEN 2 ELSE 3 ELSE IF t = 0 THEN 4 ELSE 3]]
=============================================================================
