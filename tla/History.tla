------------------------------ MODULE History ------------------------------
(***************************************************************************)
(* What a concurrency-control protocol of this repository promises about   *)
(* the transactions it commits, stated over the history of a run.          *)
(*                                                                         *)
(* A committed transaction is a record with the fields                     *)
(*   id     its identifier, also the version its writes install            *)
(*   reads  the set of [key, ver] it read from the database, "ver" being   *)
(*          the identifier of the transaction that wrote what it read      *)
(* and an installation order gives, for every key, the sequence of the     *)
(* identifiers whose writes reached the record, oldest first.  The version *)
(* the database is loaded with is in no sequence and precedes them all.    *)
(***************************************************************************)
EXTENDS Naturals, Sequences

\* The place of version v among the versions of a key; 0 is the loaded one.
Place(versions, v) ==
    IF \E i \in DOMAIN versions : versions[i] = v
    THEN CHOOSE i \in DOMAIN versions : versions[i] = v
    ELSE 0

\* b read what a wrote.
ReadsFrom(a, b) == \E r \in b.reads : r.ver = a.id

\* b overwrote what a wrote.
Overwrites(order, a, b) ==
    \E k \in DOMAIN order :
        /\ Place(order[k], a.id) > 0
        /\ Place(order[k], a.id) < Place(order[k], b.id)

\* a read a version that b overwrote: a must come first.
AntiDepends(order, a, b) ==
    \E r \in a.reads : Place(order[r.key], r.ver) < Place(order[r.key], b.id)

\* In every equivalent serial execution a comes before b.
MustPrecede(order, a, b) ==
    /\ a.id # b.id
    /\ \/ ReadsFrom(a, b)
       \/ Overwrites(order, a, b)
       \/ AntiDepends(order, a, b)

\* The committed transactions have an equivalent serial execution: every
\* nonempty set of them has a member nothing in the set must precede.
Serializable(committed, order) ==
    \A S \in SUBSET committed :
        S # {} => \E a \in S : \A b \in S : ~MustPrecede(order, b, a)
=============================================================================
