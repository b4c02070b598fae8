------------------------------ MODULE TPCCSilo ------------------------------
(***************************************************************************)
(* The transaction engine of tpcc_silo/: Silo's commit over an index, with *)
(* records that are inserted and deleted while others hold pointers to     *)
(* them.                                                                   *)
(*                                                                         *)
(* insert puts a record into the index at once, locked and absent, and     *)
(* commit stores a TID into it; abort takes it out again.  delete_record   *)
(* takes a record out of the index at commit and marks it absent.  Records *)
(* out of the index go to the garbage of the session and are freed when    *)
(* their epoch is not above the reclamation epoch.  Memory that has been   *)
(* freed keeps its contents here.                                          *)
(*                                                                         *)
(* A session is one worker; it stays in the table from enter to leave, and *)
(* the epoch advances when every session has stored the current one.  A    *)
(* worker runs its transactions in turn, as run_new_order and run_payment  *)
(* do: it goes on when an insert finds the key taken, aborts when a record *)
(* is not found, and does not try again what was aborted.                  *)
(***************************************************************************)
EXTENDS Integers, FiniteSetsExt, SequencesExt, History

CONSTANTS
    Thread,
    Key,            \* the keys of the index, numbers in their order
    Initial,        \* the keys loaded before the workers start
    OrderBase,      \* the key of an order is OrderBase plus its number
    Workloads,      \* what the workers may be given to run: sequences of transactions
    Record,         \* bound: the records there is memory for, numbers above NULL
    FirstEpoch,     \* the epoch when the workers start
    MaxEpoch,       \* bound on the epochs
    EpochSpan       \* 2^32: the epochs epoch_t counts

\* ADVANCE is the update of a district that takes the next order number, and
\* INSERT_ORDER inserts the order with the number the district then has.
Operation ==
    [op : {"READ", "UPDATE", "ADVANCE", "INSERT", "INSERT_ORDER", "DELETE"}, key : Key]

ASSUME TPCCSiloAssumption ==
    /\ IsFiniteSet(Thread)
    /\ Key \subseteq Nat /\ Initial \subseteq Key /\ OrderBase \in Nat
    /\ \A w \in Workloads, t \in Thread : w[t] \in Seq(Seq(Operation))
    /\ Record \subseteq Nat \ {0} /\ IsFiniteSet(Record)
    /\ Cardinality(Record) >= Cardinality(Initial)
    /\ FirstEpoch \in Nat /\ MaxEpoch \in Nat /\ EpochSpan \in Nat \ {0}

NULL == 0

VARIABLES
    work,           \* the workload
    epoch,          \* kGlobalEpoch
    reclamation,    \* kReclamationEpoch
    epocher,        \* where the epoch thread is
    sepoch,         \* the epoch of each session
    visible,        \* the sessions in the table
    tree,           \* the index: the record of each key, or NULL
    rec,            \* the records
    unused,         \* the records that have not been allocated
    freed,          \* those that have been freed
    garbage,        \* the record container of each session
    pc,             \* where each worker is
    txn,            \* the number of its transaction
    pos,            \* the operation it is at; in validation, the element of the read set
    ptr,            \* the record it has found
    seen,           \* the word it has loaded of it, and the copy it has made
    read_set,       \* what it has read, in order
    write_set,      \* what it is to write, with distinct keys
    left,           \* in a phase of the commit, the elements still to be gone through
    maxset,         \* the largest TID of the sets so far
    mrctid,         \* mrc_tid_
    committed,      \* history: the committed transactions
    order           \* history: whose writes reached each key, in order

vars == << work, epoch, reclamation, epocher, sepoch, visible, tree, rec, unused, freed,
           garbage, pc, txn, pos, ptr, seen, read_set, write_set, left, maxset, mrctid,
           committed, order >>

clock   == << epoch, reclamation, epocher, visible >>
memory  == << tree, rec, unused >>
heap    == << freed, garbage >>
sets    == << read_set, write_set >>
local   == << ptr, seen >>
commits == << left, maxset, mrctid >>
history == << committed, order >>

(* TID words *)

Tid == [epoch : Nat, tid : Nat]
ZeroTid == [epoch |-> 0, tid |-> 0]

TidLess(a, b) == a.epoch < b.epoch \/ (a.epoch = b.epoch /\ a.tid < b.tid)
MaxTid(a, b) == IF TidLess(a, b) THEN b ELSE a
IncTid(a) == [a EXCEPT !.tid = @ + 1]

\* What was loaded: no transaction has written it.
Loaded == << 0, 0 >>

\* A record as Record(Tuple&&) makes it: locked and absent.
NewRecord(k, v, id) ==
    [key |-> k, lock |-> TRUE, absent |-> TRUE, tid |-> ZeroTid, val |-> v, ver |-> id]

\* The word of a record, and what read_record has copied under it.
Word(r) == [lock |-> rec[r].lock, absent |-> rec[r].absent, tid |-> rec[r].tid]
Copied(r) == [val |-> rec[r].val, ver |-> rec[r].ver]
Nothing == [word |-> [lock |-> FALSE, absent |-> FALSE, tid |-> ZeroTid],
            copy |-> [val |-> 0, ver |-> Loaded]]

Init ==
    /\ work \in Workloads
    /\ epoch = FirstEpoch /\ epocher = "check"
    /\ reclamation = (FirstEpoch - 2) % EpochSpan
    /\ sepoch = [t \in Thread |-> 0]
    /\ visible = Thread
    /\ LET place == CHOOSE f \in [Initial -> Record] : IsInjective(f)
                        /\ \A r \in Range(f), q \in Record : q < r => q \in Range(f)
       IN /\ tree = [k \in Key |-> IF k \in Initial THEN place[k] ELSE NULL]
          /\ unused = Record \ Range(place)
          /\ rec = [r \in Record |->
                     IF r \in Range(place)
                     THEN [NewRecord(CHOOSE k \in Initial : place[k] = r, 0, Loaded)
                             EXCEPT !.lock = FALSE, !.absent = FALSE]
                     ELSE NewRecord(NULL, 0, Loaded)]
    /\ freed = {}
    /\ garbage = [t \in Thread |-> << >>]
    /\ pc = [t \in Thread |-> "idle"]
    /\ txn = [t \in Thread |-> 0]
    /\ pos = [t \in Thread |-> 1]
    /\ ptr = [t \in Thread |-> NULL]
    /\ seen = [t \in Thread |-> Nothing]
    /\ read_set = [t \in Thread |-> << >>]
    /\ write_set = [t \in Thread |-> {}]
    /\ left = [t \in Thread |-> {}]
    /\ maxset = [t \in Thread |-> ZeroTid]
    /\ mrctid = [t \in Thread |-> ZeroTid]
    /\ committed = {}
    /\ order = [k \in Key |-> << >>]

Goto(t, l) == pc' = [pc EXCEPT ![t] = l]
Id(t) == << t, txn[t] >>

-----------------------------------------------------------------------------
(* The epoch thread *)

\* It goes through the sessions; their epochs can only become the current one.
check_epoch_loaded == \A t \in visible : sepoch[t] = epoch

atomic_add_global_epoch ==
    /\ epocher = "check" /\ epoch < MaxEpoch
    /\ check_epoch_loaded
    /\ epoch' = epoch + 1
    /\ epocher' = "store"
    /\ UNCHANGED << work, reclamation, sepoch, visible, memory, heap, pc, txn, pos, local,
                    sets, commits, history >>

storeReclamation ==
    /\ epocher = "store"
    /\ reclamation' = (epoch - 2) % EpochSpan
    /\ epocher' = "check"
    /\ UNCHANGED << work, epoch, sepoch, visible, memory, heap, pc, txn, pos, local, sets,
                    commits, history >>
-----------------------------------------------------------------------------
(* The operations of a transaction *)

Op(t) == work[t][txn[t]][pos[t]]
Entry(t, k) == CHOOSE e \in write_set[t] : e.key = k
Written(t) == {e.key : e \in write_set[t]}
ReadKeys(t) == {r.key : r \in Range(read_set[t])}

\* The tuple search_key_local_set finds: of an update its own, else the record's.
LocalValue(t, k) ==
    CASE k \in Written(t) -> IF Entry(t, k).op = "UPDATE" THEN Entry(t, k).val
                             ELSE rec[Entry(t, k).rec].val
      [] k \in ReadKeys(t) \ Written(t) ->
            (CHOOSE r \in Range(read_set[t]) : r.key = k).copy.val
      [] OTHER -> 0

KeyOf(t) ==
    IF Op(t).op = "INSERT_ORDER" THEN OrderBase + LocalValue(t, Op(t).key) ELSE Op(t).key
NewValue(t) ==
    CASE Op(t).op = "ADVANCE" -> LocalValue(t, Op(t).key) + 1
      [] Op(t).op = "UPDATE" -> LocalValue(t, Op(t).key)
      [] OTHER -> 0

Updates(t) == Op(t).op \in {"UPDATE", "ADVANCE"}
Inserts(t) == Op(t).op \in {"INSERT", "INSERT_ORDER"}

\* On to the next operation, or to the commit: what is to be locked is left.
Continue(t, ws) ==
    IF pos[t] < Len(work[t][txn[t]])
    THEN pos' = [pos EXCEPT ![t] = @ + 1] /\ Goto(t, "search") /\ left' = left
    ELSE /\ pos' = [pos EXCEPT ![t] = 1] /\ Goto(t, "lock")
         /\ left' = [left EXCEPT ![t] = {e.key : e \in {x \in ws : x.op # "INSERT"}}]

\* The run functions call abort: the inserted records are to be taken out.
GiveUp(t, ws) ==
    /\ Goto(t, "abort")
    /\ left' = [left EXCEPT ![t] = {e.key : e \in {x \in ws : x.op = "INSERT"}}]
    /\ UNCHANGED pos

tx_begin(t) ==
    /\ pc[t] = "idle" /\ txn[t] < Len(work[t])
    /\ txn' = [txn EXCEPT ![t] = @ + 1]
    /\ pos' = [pos EXCEPT ![t] = 1]
    /\ sepoch' = [sepoch EXCEPT ![t] = epoch]
    /\ maxset' = [maxset EXCEPT ![t] = ZeroTid]
    /\ Goto(t, "search")
    /\ UNCHANGED << work, clock, memory, heap, local, sets, left, mrctid, history >>

\* At any time between transactions quit may be set.
leave(t) ==
    /\ pc[t] = "idle"
    /\ visible' = visible \ {t}
    /\ Goto(t, "done")
    /\ UNCHANGED << work, epoch, reclamation, epocher, sepoch, memory, heap, txn, pos, local,
                    sets, commits, history >>

\* The key is in the write set: reads and writes stay there, but the value of
\* a record that is inserted, or deleted, is in the record.
searchLocalWrite(t) ==
    /\ pc[t] = "search" /\ Op(t).op # "DELETE" /\ KeyOf(t) \in Written(t)
    /\ LET e == Entry(t, KeyOf(t))
           new == (write_set[t] \ {e}) \cup {[e EXCEPT !.val = NewValue(t)]}
       IN /\ write_set' = IF Op(t).op # "READ" /\ e.op = "UPDATE"
                          THEN [write_set EXCEPT ![t] = new] ELSE write_set
          /\ rec' = IF Op(t).op # "READ" /\ e.op # "UPDATE"
                    THEN [rec EXCEPT ![e.rec].val = NewValue(t), ![e.rec].ver = Id(t)]
                    ELSE rec
    /\ Continue(t, write_set[t])
    /\ UNCHANGED << work, clock, sepoch, tree, unused, heap, txn, local, read_set, maxset,
                    mrctid, history >>

searchLocalRead(t) ==
    /\ pc[t] = "search" /\ Op(t).op = "READ"
    /\ KeyOf(t) \in ReadKeys(t) \ Written(t)
    /\ Continue(t, write_set[t])
    /\ UNCHANGED << work, clock, sepoch, memory, heap, txn, local, sets, maxset, mrctid,
                    history >>

\* The index is searched; delete_record has dropped its own entry before that.
searchIndex(t) ==
    LET k == KeyOf(t)
        ws == {e \in write_set[t] : e.key # k}
    IN /\ pc[t] = "search"
       /\ \/ Op(t).op = "READ" /\ k \notin ReadKeys(t) \cup Written(t)
          \/ (Updates(t) \/ Inserts(t)) /\ k \notin Written(t)
          \/ Op(t).op = "DELETE"
       /\ write_set' = [write_set EXCEPT ![t] = ws]
       /\ ptr' = [ptr EXCEPT ![t] = tree[k]]
       /\ \/ Inserts(t) /\ tree[k] # NULL /\ Continue(t, ws)
          \/ Inserts(t) /\ tree[k] = NULL /\ Goto(t, "insert") /\ UNCHANGED << pos, left >>
          \/ ~Inserts(t) /\ tree[k] = NULL /\ GiveUp(t, ws)
          \/ ~Inserts(t) /\ tree[k] # NULL /\ Goto(t, "check") /\ UNCHANGED << pos, left >>
    /\ UNCHANGED << work, clock, sepoch, memory, heap, txn, seen, read_set, maxset, mrctid,
                    history >>

\* A record that is being inserted, or has been deleted, is not there.
checkAbsent(t) ==
    /\ pc[t] = "check"
    /\ rec[ptr[t]].absent
    /\ GiveUp(t, write_set[t])
    /\ UNCHANGED << work, clock, sepoch, memory, heap, txn, local, sets, maxset, mrctid,
                    history >>

startRead(t) ==
    /\ pc[t] = "check" /\ Op(t).op = "READ"
    /\ ~rec[ptr[t]].absent
    /\ Goto(t, "load")
    /\ UNCHANGED << work, clock, sepoch, memory, heap, txn, pos, local, sets, commits,
                    history >>

addWrite(t) ==
    /\ pc[t] = "check" /\ Op(t).op # "READ"
    /\ ~rec[ptr[t]].absent
    /\ LET e == [key |-> KeyOf(t), rec |-> ptr[t], val |-> NewValue(t),
                 op |-> IF Updates(t) THEN "UPDATE" ELSE "DELETE"]
       IN /\ write_set' = [write_set EXCEPT ![t] = @ \cup {e}]
          /\ Continue(t, write_set[t] \cup {e})
    /\ UNCHANGED << work, clock, sepoch, memory, heap, txn, local, read_set, maxset, mrctid,
                    history >>

\* read_record: it waits while the record is locked.
read_record_load(t) ==
    /\ pc[t] = "load"
    /\ ~rec[ptr[t]].lock
    /\ seen' = [seen EXCEPT ![t].word = Word(ptr[t])]
    /\ IF rec[ptr[t]].absent THEN GiveUp(t, write_set[t])
       ELSE Goto(t, "copy") /\ UNCHANGED << pos, left >>
    /\ UNCHANGED << work, clock, sepoch, memory, heap, txn, ptr, sets, maxset, mrctid,
                    history >>

read_record_copy(t) ==
    /\ pc[t] = "copy"
    /\ seen' = [seen EXCEPT ![t].copy = Copied(ptr[t])]
    /\ Goto(t, "recheck")
    /\ UNCHANGED << work, clock, sepoch, memory, heap, txn, pos, ptr, sets, commits, history >>

\* The word has not changed: the copy is of one version.
read_record_done(t) ==
    /\ pc[t] = "recheck"
    /\ Word(ptr[t]) = seen[t].word
    /\ read_set' = [read_set EXCEPT ![t] =
                      Append(@, [key |-> KeyOf(t), rec |-> ptr[t], tid |-> seen[t].word.tid,
                                 copy |-> seen[t].copy])]
    /\ Continue(t, write_set[t])
    /\ UNCHANGED << work, clock, sepoch, memory, heap, txn, local, write_set, maxset, mrctid,
                    history >>

read_record_again(t) ==
    /\ pc[t] = "recheck"
    /\ Word(ptr[t]) # seen[t].word
    /\ seen' = [seen EXCEPT ![t].word = Word(ptr[t])]
    /\ \/ rec[ptr[t]].lock /\ Goto(t, "load") /\ UNCHANGED << pos, left >>
       \/ ~rec[ptr[t]].lock /\ rec[ptr[t]].absent /\ GiveUp(t, write_set[t])
       \/ /\ ~rec[ptr[t]].lock /\ ~rec[ptr[t]].absent
          /\ Goto(t, "copy") /\ UNCHANGED << pos, left >>
    /\ UNCHANGED << work, clock, sepoch, memory, heap, txn, ptr, sets, maxset, mrctid,
                    history >>

\* The new record is in the index from now on.  Its memory may be that of a
\* record that has been freed.
insert_record(t) ==
    LET k == KeyOf(t)
        new(r) == [key |-> k, rec |-> r, val |-> 0, op |-> "INSERT"]
    IN /\ pc[t] = "insert" /\ tree[k] = NULL
       /\ \E r \in freed \cup {q \in unused : \A p \in unused : q <= p} :
             /\ unused' = unused \ {r} /\ freed' = freed \ {r}
             /\ rec' = [rec EXCEPT ![r] = NewRecord(k, 0, Id(t))]
             /\ tree' = [tree EXCEPT ![k] = r]
             /\ write_set' = [write_set EXCEPT ![t] = @ \cup {new(r)}]
             /\ Continue(t, write_set[t] \cup {new(r)})
       /\ UNCHANGED << work, clock, sepoch, garbage, txn, local, read_set, maxset, mrctid,
                       history >>

\* Another worker was faster; the transaction goes on without the insert.
insertAlreadyExists(t) ==
    /\ pc[t] = "insert" /\ tree[KeyOf(t)] # NULL
    /\ Continue(t, write_set[t])
    /\ UNCHANGED << work, clock, sepoch, memory, heap, txn, local, sets, maxset, mrctid,
                    history >>

-----------------------------------------------------------------------------
(* Commit *)

First(S) == CHOOSE k \in S : \A l \in S : k <= l
NextEntry(t) == Entry(t, First(left[t]))

\* Mutation: the entries after the record are unlocked, not those before it.
After(t, e) == {k \in Written(t) : k > e.key}

\* What is unlocked again when an update finds the record e deleted.
Before(t, e) == {k \in Written(t) : k < e.key}

\* Phase 2: updates and deletes are locked in key order, waiting for each.
lockRecord(t) ==
    LET e == NextEntry(t) IN
    /\ pc[t] = "lock" /\ left[t] # {}
    /\ ~rec[e.rec].lock
    /\ rec' = [rec EXCEPT ![e.rec].lock = TRUE]
    /\ IF e.op = "UPDATE" /\ rec[e.rec].absent
       THEN /\ Goto(t, "unlock")           \* what precedes the record is unlocked
            /\ left' = [left EXCEPT ![t] = Before(t, e)]
            /\ UNCHANGED maxset
       ELSE /\ maxset' = [maxset EXCEPT ![t] = MaxTid(@, rec[e.rec].tid)]
            /\ left' = [left EXCEPT ![t] = @ \ {e.key}]
            /\ UNCHANGED pc
    /\ UNCHANGED << work, clock, sepoch, tree, unused, heap, txn, pos, local, sets, mrctid,
                    history >>

\* The serialization point.
set_epoch(t) ==
    /\ pc[t] = "lock" /\ left[t] = {}
    /\ sepoch' = [sepoch EXCEPT ![t] = epoch]
    /\ Goto(t, "validate")
    /\ UNCHANGED << work, clock, memory, heap, txn, pos, local, sets, commits, history >>

\* Mutation: what was read may be locked by another worker.
ValidTidOnly(t, r) == rec[r.rec].tid = r.tid /\ ~rec[r.rec].absent

\* Phase 3: what was read is the same, is not deleted, and no one else holds it.
Valid(t, r) ==
    /\ rec[r.rec].tid = r.tid
    /\ ~rec[r.rec].absent
    /\ rec[r.rec].lock => \E e \in write_set[t] : e.rec = r.rec

validateRead(t) ==
    LET r == read_set[t][pos[t]] IN
    /\ pc[t] = "validate" /\ pos[t] <= Len(read_set[t])
    /\ IF Valid(t, r)
       THEN /\ maxset' = [maxset EXCEPT ![t] = MaxTid(@, rec[r.rec].tid)]
            /\ pos' = [pos EXCEPT ![t] = @ + 1]
            /\ UNCHANGED << pc, left >>
       ELSE /\ Goto(t, "unlock")
            /\ left' = [left EXCEPT ![t] = Written(t)]
            /\ UNCHANGED << maxset, pos >>
    /\ UNCHANGED << work, clock, sepoch, memory, heap, txn, local, sets, mrctid, history >>

\* The commit TID, larger than those of the sets and the last one, in the epoch.
commitTid(t) ==
    LET largest == MaxTid(MaxTid(IncTid(maxset[t]), IncTid(mrctid[t])),
                          [epoch |-> sepoch[t], tid |-> 0])
    IN [largest EXCEPT !.epoch = sepoch[t]]

write_phase(t) ==
    /\ pc[t] = "validate" /\ pos[t] > Len(read_set[t])
    /\ mrctid' = [mrctid EXCEPT ![t] = commitTid(t)]
    /\ left' = [left EXCEPT ![t] = Written(t)]
    /\ committed' = committed \cup
         {[id |-> Id(t), reads |-> {[key |-> r.key, ver |-> r.copy.ver] : r \in Range(read_set[t])}]}
    /\ Goto(t, "write")
    /\ UNCHANGED << work, clock, sepoch, memory, heap, txn, pos, local, sets, maxset, order >>

\* The value of an updated record is exchanged before its word is stored.
swap_value(t) ==
    LET e == NextEntry(t) IN
    /\ pc[t] = "write" /\ left[t] # {} /\ e.op = "UPDATE"
    /\ rec' = [rec EXCEPT ![e.rec].val = e.val, ![e.rec].ver = Id(t)]
    /\ Goto(t, "stamp")
    /\ UNCHANGED << work, clock, sepoch, tree, unused, heap, txn, pos, local, sets, commits,
                    history >>

\* A deleted record leaves the index, by its key, before its word is stored.
remove_value(t) ==
    LET e == NextEntry(t) IN
    /\ pc[t] = "write" /\ left[t] # {} /\ e.op = "DELETE"
    /\ tree' = [tree EXCEPT ![e.key] = NULL]
    /\ order' = [order EXCEPT ![e.key] = Append(@, Id(t))]
    /\ Goto(t, "stamp")
    /\ UNCHANGED << work, clock, sepoch, rec, unused, heap, txn, pos, local, sets, commits,
                    committed >>

storeTid(t) ==
    LET e == NextEntry(t) IN
    /\ left[t] # {}
    /\ pc[t] = "stamp" \/ (pc[t] = "write" /\ e.op = "INSERT")
    /\ rec' = [rec EXCEPT ![e.rec].lock = FALSE, ![e.rec].tid = mrctid[t],
                          ![e.rec].absent = (e.op = "DELETE")]
    /\ order' = IF e.op = "DELETE" THEN order
                ELSE [order EXCEPT ![e.key] = Append(@, Id(t))]
    /\ garbage' = IF e.op = "DELETE" THEN [garbage EXCEPT ![t] = Append(@, e.rec)]
                  ELSE garbage
    /\ left' = [left EXCEPT ![t] = @ \ {e.key}]
    /\ Goto(t, "write")
    /\ UNCHANGED << work, clock, sepoch, tree, unused, freed, txn, pos, local, sets, maxset,
                    mrctid, committed >>

\* The records at the front of the container that are old enough are freed.
gc_records(t) ==
    LET old(i) == rec[garbage[t][i]].tid.epoch <= reclamation
        n == CHOOSE n \in 0 .. Len(garbage[t]) :
               /\ \A i \in 1 .. n : old(i)
               /\ n < Len(garbage[t]) => ~old(n + 1)
    IN /\ freed' = freed \cup {garbage[t][i] : i \in 1 .. n}
       /\ garbage' = [garbage EXCEPT ![t] = SubSeq(@, n + 1, Len(@))]

\* The end of a commit, or of an abort.
finish(t) ==
    /\ pc[t] \in {"write", "abort"} /\ left[t] = {}
    /\ read_set' = [read_set EXCEPT ![t] = << >>]
    /\ write_set' = [write_set EXCEPT ![t] = {}]
    /\ ptr' = [ptr EXCEPT ![t] = NULL]
    /\ seen' = [seen EXCEPT ![t] = Nothing]
    /\ gc_records(t)
    /\ Goto(t, "idle")
    /\ UNCHANGED << work, clock, sepoch, memory, txn, pos, commits, history >>

-----------------------------------------------------------------------------
(* Abort *)

unlock_write_set(t) ==
    LET e == NextEntry(t) IN
    /\ pc[t] = "unlock" /\ left[t] # {}
    /\ rec' = [rec EXCEPT ![e.rec].lock = FALSE]
    /\ left' = [left EXCEPT ![t] = @ \ {e.key}]
    /\ UNCHANGED << work, clock, sepoch, tree, unused, heap, pc, txn, pos, local, sets, maxset,
                    mrctid, history >>

abort(t) ==
    /\ pc[t] = "unlock" /\ left[t] = {}
    /\ GiveUp(t, write_set[t])
    /\ UNCHANGED << work, clock, sepoch, memory, heap, txn, local, sets, maxset, mrctid,
                    history >>

\* Mutation: the record that goes to the garbage stays in the index.
remove_inserted_nothing(t) ==
    /\ pc[t] = "abort" /\ left[t] # {}
    /\ \E k \in left[t] :
         /\ ptr' = [ptr EXCEPT ![t] = Entry(t, k).rec]
         /\ left' = [left EXCEPT ![t] = @ \ {k}]
    /\ Goto(t, "retire")
    /\ UNCHANGED << work, clock, sepoch, memory, heap, txn, pos, seen, sets, maxset, mrctid,
                    history >>

\* What the transaction inserted leaves the index, by its key ...
remove_inserted_record(t) ==
    /\ pc[t] = "abort" /\ left[t] # {}
    /\ \E k \in left[t] :
         /\ tree' = [tree EXCEPT ![k] = NULL]
         /\ ptr' = [ptr EXCEPT ![t] = Entry(t, k).rec]
         /\ left' = [left EXCEPT ![t] = @ \ {k}]
    /\ Goto(t, "retire")
    /\ UNCHANGED << work, clock, sepoch, rec, unused, heap, txn, pos, seen, sets, maxset,
                    mrctid, history >>

\* ... and goes to the garbage, with a word that has neither lock nor absent.
retireInsertedRecord(t) ==
    /\ pc[t] = "retire"
    /\ garbage' = [garbage EXCEPT ![t] = Append(@, ptr[t])]
    /\ rec' = [rec EXCEPT ![ptr[t]].lock = FALSE, ![ptr[t]].absent = FALSE,
                          ![ptr[t]].tid = [epoch |-> sepoch[t], tid |-> 0]]
    /\ Goto(t, "abort")
    /\ UNCHANGED << work, clock, sepoch, tree, unused, freed, txn, pos, local, sets, commits,
                    history >>

-----------------------------------------------------------------------------
(* Specification *)

EpochThread == atomic_add_global_epoch \/ storeReclamation

operation(t) ==
    \/ searchLocalWrite(t) \/ searchLocalRead(t) \/ searchIndex(t)
    \/ checkAbsent(t) \/ startRead(t) \/ addWrite(t)
    \/ read_record_load(t) \/ read_record_copy(t)
    \/ read_record_done(t) \/ read_record_again(t)
    \/ insert_record(t) \/ insertAlreadyExists(t)

commit(t) ==
    \/ lockRecord(t) \/ set_epoch(t) \/ validateRead(t) \/ write_phase(t)
    \/ swap_value(t) \/ remove_value(t) \/ storeTid(t) \/ finish(t)
    \/ unlock_write_set(t) \/ abort(t)
    \/ remove_inserted_record(t) \/ retireInsertedRecord(t)

Next == EpochThread \/ \E t \in Thread : tx_begin(t) \/ leave(t) \/ operation(t) \/ commit(t)

Spec == Init /\ [][Next]_vars

\* Within a transaction a worker goes on.
FairSpec == Spec /\ \A t \in Thread : WF_vars(operation(t)) /\ WF_vars(commit(t))

-----------------------------------------------------------------------------
(* Properties *)

TypeOK ==
    /\ epoch \in FirstEpoch .. MaxEpoch /\ reclamation \in 0 .. EpochSpan - 1
    /\ epocher \in {"check", "store"}
    /\ sepoch \in [Thread -> 0 .. MaxEpoch] /\ visible \subseteq Thread
    /\ tree \in [Key -> Record \cup {NULL}]
    /\ unused \subseteq Record /\ freed \subseteq Record
    /\ \A r \in Record : rec[r].tid \in Tid /\ {rec[r].lock, rec[r].absent} \subseteq BOOLEAN
    /\ \A t \in Thread :
         /\ pc[t] \in {"idle", "done", "search", "check", "load", "copy", "recheck", "insert",
                       "lock", "validate", "write", "stamp", "unlock", "abort", "retire"}
         /\ garbage[t] \in Seq(Record) /\ ptr[t] \in Record \cup {NULL}
         /\ left[t] \subseteq Key /\ {maxset[t], mrctid[t]} \subseteq Tid

\* The transactions that commit have an equivalent serial execution, with the
\* inserts and the deletes among the writes of a key: the lock a deleter or an
\* updater takes, the words a reader copies and validates, and the absent bit
\* (session_info.cpp, interface_termination.cpp) are what keeps it so.
SerializableCommits == Serializable(committed, order)

\* What the index gives out is a live record of that key: it is not in any
\* garbage, and when it is locked or absent, a transaction that has it in its
\* write set is still to store its word or take it out.  A record goes to one
\* garbage, once (interface_helper.cpp:188-202, session_info.cpp:85-131).
InWriteSet(r) ==
    \E t \in Thread : pc[t] \notin {"idle", "done"} /\ \E e \in write_set[t] : e.rec = r
Places(r) ==
    {<< t, i >> \in Thread \X (1 .. Cardinality(Record)) :
        i <= Len(garbage[t]) /\ garbage[t][i] = r}
IndexSound ==
    /\ \A k \in Key : tree[k] # NULL =>
         /\ tree[k] \notin freed \cup unused /\ Places(tree[k]) = {}
         /\ rec[tree[k]].key = k
         /\ rec[tree[k]].lock \/ rec[tree[k]].absent => InWriteSet(tree[k])
    /\ \A r \in Record : Cardinality(Places(r)) + (IF r \in freed THEN 1 ELSE 0) <= 1

\* A transaction ends: a worker waits for no record for ever, whether the other
\* one commits, gives up, or has failed to insert (interface_helper.cpp:96-98,
\* interface_termination.cpp:36-48).
AttemptEnds ==
    \A t \in Thread : pc[t] \notin {"idle", "done"} ~> pc[t] \in {"idle", "done"}

\* What a transaction has read or is to write stays allocated, and is the same
\* record, until it ends: "Returned tuple pointers are valid untill commit/abort"
\* (interface/interface.h:243).  The reclamation epoch (epoch.cpp:73) is one too
\* large for it.
PointersValid ==
    \A t \in Thread : pc[t] \notin {"idle", "done"} =>
        \A x \in Range(read_set[t]) \cup write_set[t] :
            x.rec \notin freed /\ rec[x.rec].key = x.key

\* The order a committed NewOrder has taken the number of is in the index
\* (tpcc/neworder.cpp:92-94), unless it has been deleted.
OrderInserted ==
    \A t \in Thread : pc[t] = "write" /\ left[t] = {} =>
        \A i \in DOMAIN work[t][txn[t]] :
            LET o == work[t][txn[t]][i] IN
            o.op = "INSERT_ORDER" => tree[OrderBase + LocalValue(t, o.key)] # NULL
=============================================================================
