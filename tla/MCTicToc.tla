----------------------------- MODULE MCTicToc ------------------------------
(* Instances of TicToc for TLC. *)
EXTENDS TicToc

Symmetry == Permutations(Thread)

Build(l, h) == [locking |-> l, timestamp_history |-> h]
AllLocking == { Build("no_wait", FALSE), Build("no_wait_of_tictoc", TRUE),
                Build("wait", FALSE) }
Default == { Build("no_wait", TRUE) }

R(k) == [ope |-> "READ", key |-> k]
W(k) == [ope |-> "WRITE", key |-> k]

\* Reads and writes of two records crosswise, one with a read of an own write, and
\* writes that lock both.
Mixed == { << R(1), W(2) >>, << R(2), W(1), R(1) >>, << W(2), W(1) >> }

\* Write skew, and a write that overwrites once more.
Skew == { << R(1), W(2) >>, << R(2), W(1) >>, << W(1) >> }
=============================================================================
