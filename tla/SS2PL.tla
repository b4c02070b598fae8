------------------------------- MODULE SS2PL --------------------------------
(***************************************************************************)
(* Strong strict two-phase locking, ss2pl/.  A transaction takes the read  *)
(* or write lock of each record at its first access, turns a read lock     *)
(* into a write lock when it writes what it has read, stores its writes at *)
(* commit and releases every lock at its end.  A lock that is refused is   *)
(* waited for (DLR0) or ends the attempt, which is then retried (DLR1).    *)
(*                                                                         *)
(* The value of a record is loaded in the step that takes its lock: the    *)
(* lock is held from there on.                                             *)
(***************************************************************************)
EXTENDS TwoPhase

CONSTANTS
    Builds,       \* the builds: DLR0, to wait for a lock, or DLR1, no-wait; and
                  \* KEY_SORT, makeProcedure sorts the operations
    Procedure     \* of each build: the operation sequences makeProcedure may draw

Operation == [ope : {"READ", "WRITE", "READ_MODIFY_WRITE"}, key : Key]

ASSUME SS2PLAssumption ==
    /\ Key \subseteq Int
    /\ IsFiniteSet(Thread)
    /\ Builds \subseteq [DLR0 : BOOLEAN, KEY_SORT : BOOLEAN]
    /\ MaxTxn \in Nat
    /\ None \notin Txn
    /\ \A b \in Builds : Procedure[b] \subseteq Seq(Operation)

VARIABLES
    quit,
    build,         \* never changes
    pro_set,       \* the operations of each worker
    pos,           \* the operation it is at
    status,        \* status_
    read_set,      \* the keys of read_set_
    write_set      \* the keys of write_set_

vars == << quit, build, lock, value, pc, pro_set, pos, status, r_lock_list, w_lock_list,
           read_set, write_set, unstored, txn, reads, committed >>

run   == << quit, build >>
lists == << r_lock_list, w_lock_list >>
sets  == << read_set, write_set >>

Init ==
    /\ quit = FALSE
    /\ build \in Builds
    /\ lock = [k \in Key |-> Free]
    /\ value = [k \in Key |-> None]
    /\ pc = [t \in Thread |-> "next"]
    /\ pro_set = [t \in Thread |-> << >>]
    /\ pos = [t \in Thread |-> 1]
    /\ status = [t \in Thread |-> "inFlight"]
    /\ r_lock_list = [t \in Thread |-> {}]
    /\ w_lock_list = [t \in Thread |-> {}]
    /\ read_set = [t \in Thread |-> {}]
    /\ write_set = [t \in Thread |-> {}]
    /\ unstored = [t \in Thread |-> {}]
    /\ txn = [t \in Thread |-> 0]
    /\ reads = [t \in Thread |-> {}]
    /\ committed = << >>

Goto(t, label) == pc' = [pc EXCEPT ![t] = label]

-----------------------------------------------------------------------------
(* worker *)

\* main: the run time is over.
Quit ==
    /\ ~quit
    /\ quit' = TRUE
    /\ UNCHANGED << build, lock, value, pc, pro_set, pos, status, lists, sets, unstored,
                    txn, reads, committed >>

\* Procedure::operator<.  Of two writes of a key each is less than the other;
\* a READ and a READ_MODIFY_WRITE of a key are not ordered.
SortsBefore(a, b) ==
    \/ a.key < b.key
    \/ a.key = b.key /\ a.ope = "WRITE" /\ b.ope \in {"READ", "WRITE"}

\* What makeProcedure returns: with KEY_SORT, a drawn sequence in an order that
\* the comparison does not refute.
makeProcedure ==
    {p \in Procedure[build] : build.KEY_SORT =>
        \A i, j \in DOMAIN p :
            i < j => SortsBefore(p[i], p[j]) \/ ~SortsBefore(p[j], p[i])}

NextProcedure(t) ==
    /\ pc[t] = "next" /\ ~quit
    /\ txn[t] < MaxTxn
    /\ \E p \in makeProcedure : pro_set' = [pro_set EXCEPT ![t] = p]
    /\ Goto(t, "retry")
    /\ UNCHANGED << run, lock, value, pos, status, lists, sets, unstored, txn, reads,
                    committed >>

\* The head of the loop, and RETRY.
leave(t) ==
    /\ pc[t] \in {"next", "retry"} /\ quit
    /\ Goto(t, "done")
    /\ UNCHANGED << run, lock, value, pro_set, pos, status, lists, sets, unstored, txn,
                    reads, committed >>

begin(t) ==
    /\ pc[t] = "retry" /\ ~quit
    /\ Goto(t, "run")
    /\ status' = [status EXCEPT ![t] = "inFlight"]
    /\ pos' = [pos EXCEPT ![t] = 1]
    /\ UNCHANGED << run, lock, value, pro_set, lists, sets, unstored, txn, reads,
                    committed >>

-----------------------------------------------------------------------------
(* read, write and readWrite *)

searchWriteSet(t, k) == k \in write_set[t]
searchReadSet(t, k) == k \in read_set[t]

\* The worker is at an operation.
Executes(t) == pc[t] = "run" /\ pos[t] \in DOMAIN pro_set[t]
Op(t) == pro_set[t][pos[t]]

Advance(t) == pos' = [pos EXCEPT ![t] = @ + 1]

\* The operation finds what it needs in the local sets.
Hit(t) ==
    \/ searchWriteSet(t, Op(t).key)
    \/ Op(t).ope = "READ" /\ searchReadSet(t, Op(t).key)

hit(t) ==
    /\ Executes(t)
    /\ Hit(t)
    /\ Advance(t)
    /\ UNCHANGED << run, lock, value, pc, pro_set, status, lists, sets, unstored, txn,
                    reads, committed >>

\* The lock that the operation needs, when it does not hit: a read lock, a write
\* lock in place of the read lock the worker holds, or a write lock.
NeedsRead(t) == Op(t).ope = "READ"
NeedsUpgrade(t) == Op(t).ope # "READ" /\ searchReadSet(t, Op(t).key)
NeedsWrite(t) == Op(t).ope # "READ" /\ ~searchReadSet(t, Op(t).key)

\* The lock of the record does not admit the worker.
Refused(t) ==
    LET c == lock[Op(t).key]
    IN /\ Executes(t)
       /\ ~Hit(t)
       /\ \/ NeedsRead(t) /\ ~CanReadLock(c)
          \/ NeedsUpgrade(t) /\ ~CanUpgrade(c)
          \/ NeedsWrite(t) /\ ~CanWriteLock(c)

Loads(t, k) ==
    reads' = [reads EXCEPT ![t] = @ \cup {[key |-> k, ver |-> value[k]]}]

\* read
readLock(t) ==
    /\ Executes(t) /\ ~Hit(t) /\ NeedsRead(t)
    /\ LET k == Op(t).key
       IN /\ CanReadLock(lock[k])
          /\ lock' = [lock EXCEPT ![k] = ReadLock(@)]
          /\ r_lock_list' = [r_lock_list EXCEPT ![t] = @ \cup {k}]
          /\ read_set' = [read_set EXCEPT ![t] = @ \cup {k}]
          /\ Loads(t, k)
    /\ Advance(t)
    /\ UNCHANGED << run, value, pc, pro_set, status, w_lock_list, write_set, unstored,
                    txn, committed >>

\* The entries of a record in the read lists, but for the lock itself.
MovesSets(t, k) ==
    /\ read_set' = [read_set EXCEPT ![t] = @ \ {k}]
    /\ write_set' = [write_set EXCEPT ![t] = @ \cup {k}]

\* Mutation: other readers do not keep a reader from becoming the writer.
upgradeShared(t) ==
    /\ Executes(t) /\ ~Hit(t) /\ NeedsUpgrade(t)
    /\ LET k == Op(t).key
       IN /\ lock[k] # WriteLocked
          /\ lock' = [lock EXCEPT ![k] = Upgrade(@)]
          /\ r_lock_list' = [r_lock_list EXCEPT ![t] = @ \ {k}]
          /\ w_lock_list' = [w_lock_list EXCEPT ![t] = @ \cup {k}]
          /\ MovesSets(t, k)
    /\ Advance(t)
    /\ UNCHANGED << run, value, pc, pro_set, status, unstored, txn, reads, committed >>

\* write and readWrite, of a record that has been read: its entries move from
\* the read lists to the write lists.
upgrade(t) ==
    /\ Executes(t) /\ ~Hit(t) /\ NeedsUpgrade(t)
    /\ LET k == Op(t).key
       IN /\ CanUpgrade(lock[k])
          /\ lock' = [lock EXCEPT ![k] = Upgrade(@)]
          /\ r_lock_list' = [r_lock_list EXCEPT ![t] = @ \ {k}]
          /\ w_lock_list' = [w_lock_list EXCEPT ![t] = @ \cup {k}]
          /\ MovesSets(t, k)
    /\ Advance(t)
    /\ UNCHANGED << run, value, pc, pro_set, status, unstored, txn, reads, committed >>

\* write and readWrite, of any other record; the latter also loads its value.
writeLock(t) ==
    /\ Executes(t) /\ ~Hit(t) /\ NeedsWrite(t)
    /\ LET k == Op(t).key
       IN /\ CanWriteLock(lock[k])
          /\ lock' = [lock EXCEPT ![k] = WriteLock(@)]
          /\ w_lock_list' = [w_lock_list EXCEPT ![t] = @ \cup {k}]
          /\ write_set' = [write_set EXCEPT ![t] = @ \cup {k}]
          /\ IF Op(t).ope = "READ_MODIFY_WRITE" THEN Loads(t, k)
             ELSE UNCHANGED reads
    /\ Advance(t)
    /\ UNCHANGED << run, value, pc, pro_set, status, r_lock_list, read_set, unstored,
                    txn, committed >>

\* Mutation: an aborted transaction forgets its locks.
refuseForgetting(t) ==
    /\ ~build.DLR0
    /\ Refused(t)
    /\ status' = [status EXCEPT ![t] = "aborted"]
    /\ r_lock_list' = [r_lock_list EXCEPT ![t] = {}]
    /\ w_lock_list' = [w_lock_list EXCEPT ![t] = {}]
    /\ Goto(t, "unlock")
    /\ UNCHANGED << run, lock, value, pro_set, pos, sets, unstored, txn, reads,
                    committed >>

\* DLR1: the lock is refused, and the worker calls abort.  (With DLR0 it loads
\* the counter again, which changes nothing.)
refuse(t) ==
    /\ ~build.DLR0
    /\ Refused(t)
    /\ status' = [status EXCEPT ![t] = "aborted"]
    /\ Goto(t, "unlock")
    /\ UNCHANGED << run, lock, value, pro_set, pos, lists, sets, unstored, txn, reads,
                    committed >>

-----------------------------------------------------------------------------
(* commit, abort and unlockList *)

commit(t) ==
    /\ pc[t] = "run" /\ pos[t] \notin DOMAIN pro_set[t]
    /\ committed' = Append(committed,
                        [id |-> Id(t), reads |-> reads[t], writes |-> write_set[t]])
    /\ unstored' = [unstored EXCEPT ![t] = write_set[t]]
    /\ Goto(t, "store")
    /\ UNCHANGED << run, lock, value, pro_set, pos, status, lists, sets, txn, reads >>

\* commit: store the payload of the next write.
store(t) ==
    /\ pc[t] = "store"
    /\ \E k \in unstored[t] :
          /\ value' = [value EXCEPT ![k] = Id(t)]
          /\ unstored' = [unstored EXCEPT ![t] = @ \ {k}]
    /\ UNCHANGED << run, lock, pc, pro_set, pos, status, lists, sets, txn, reads,
                    committed >>

\* Mutation: locks are released while values are still to be stored.
storedPartly(t) ==
    /\ pc[t] = "store"
    /\ Goto(t, "unlock")
    /\ UNCHANGED << run, lock, value, pro_set, pos, status, lists, sets, unstored, txn,
                    reads, committed >>

stored(t) ==
    /\ pc[t] = "store" /\ unstored[t] = {}
    /\ Goto(t, "unlock")
    /\ UNCHANGED << run, lock, value, pro_set, pos, status, lists, sets, unstored, txn,
                    reads, committed >>

\* unlockList: the read locks ...
readUnlock(t) ==
    /\ pc[t] = "unlock"
    /\ \E k \in r_lock_list[t] :
          /\ lock' = [lock EXCEPT ![k] = ReadUnlock(@)]
          /\ r_lock_list' = [r_lock_list EXCEPT ![t] = @ \ {k}]
    /\ UNCHANGED << run, value, pc, pro_set, pos, status, w_lock_list, sets, unstored,
                    txn, reads, committed >>


\* ... and then the write locks.
writeUnlock(t) ==
    /\ pc[t] = "unlock" /\ r_lock_list[t] = {}
    /\ \E k \in w_lock_list[t] :
          /\ lock' = [lock EXCEPT ![k] = WriteUnlock(@)]
          /\ w_lock_list' = [w_lock_list EXCEPT ![t] = @ \ {k}]
    /\ UNCHANGED << run, value, pc, pro_set, pos, status, r_lock_list, sets, unstored,
                    txn, reads, committed >>

\* The end of commit, or of abort, which the worker follows with another attempt.
finish(t) ==
    /\ pc[t] = "unlock" /\ r_lock_list[t] = {} /\ w_lock_list[t] = {}
    /\ read_set' = [read_set EXCEPT ![t] = {}]
    /\ write_set' = [write_set EXCEPT ![t] = {}]
    /\ reads' = [reads EXCEPT ![t] = {}]
    /\ \/ /\ status[t] = "aborted"
          /\ Goto(t, "retry")
          /\ UNCHANGED txn
       \/ /\ status[t] = "inFlight"
          /\ Goto(t, "next")
          /\ txn' = [txn EXCEPT ![t] = @ + 1]
    /\ UNCHANGED << run, lock, value, pro_set, pos, status, lists, unstored, committed >>

-----------------------------------------------------------------------------
worker(t) ==
    \/ NextProcedure(t) \/ leave(t) \/ begin(t)
    \/ hit(t) \/ readLock(t) \/ upgrade(t) \/ writeLock(t) \/ refuse(t)
    \/ commit(t) \/ store(t) \/ stored(t)
    \/ readUnlock(t) \/ writeUnlock(t) \/ finish(t)

\* main joins the workers: nothing is left to do.
Joined ==
    /\ \A t \in Thread : pc[t] = "done"
    /\ UNCHANGED vars

Next == Quit \/ (\E t \in Thread : worker(t)) \/ Joined

Spec == Init /\ [][Next]_vars

\* Every thread is scheduled, and main sets quit when the run time is over.
FairSpec == Spec /\ WF_vars(Quit) /\ \A t \in Thread : WF_vars(worker(t))

-----------------------------------------------------------------------------
(* Properties *)

Version == Txn \cup {None}
Transaction == [id : Txn, reads : SUBSET [key : Key, ver : Version], writes : SUBSET Key]

\* The variables keep their types; a lock counter is -1 or a number of workers,
\* so a lock is never released by who does not hold it.
TypeOK ==
    /\ quit \in BOOLEAN
    /\ build \in Builds
    /\ lock \in [Key -> WriteLocked .. Cardinality(Thread)]
    /\ value \in [Key -> Version]
    /\ pc \in [Thread -> {"next", "retry", "run", "store", "unlock", "done"}]
    /\ pro_set \in [Thread -> Seq(Operation)]
    /\ pos \in [Thread -> Nat \ {0}]
    /\ status \in [Thread -> {"inFlight", "aborted"}]
    /\ r_lock_list \in [Thread -> SUBSET Key]
    /\ w_lock_list \in [Thread -> SUBSET Key]
    /\ read_set \in [Thread -> SUBSET Key]
    /\ write_set \in [Thread -> SUBSET Key]
    /\ unstored \in [Thread -> SUBSET Key]
    /\ txn \in [Thread -> 0 .. MaxTxn]
    /\ reads \in [Thread -> SUBSET [key : Key, ver : Version]]
    /\ committed \in Seq(Transaction)

\* An attempt ends, with a commit or an abort, and the worker holds no locks.
AttemptEnds ==
    \A t \in Thread :
        pc[t] = "run" ~> /\ pc[t] \in {"next", "retry"}
                         /\ r_lock_list[t] = {} /\ w_lock_list[t] = {}
=============================================================================
