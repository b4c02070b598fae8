-------------------------- MODULE FixedLockManager --------------------------
(***************************************************************************)
(* The lock managers whose wait lists are arrays of fixed size:            *)
(* determinism_lock_manager/ and lock_manager_fixed/.  As in LockManager,  *)
(* a worker numbers a transaction and enters it in the wait lists under    *)
(* the giant lock, and locks a record when its number is at the head of    *)
(* the record's list.  Here a head is taken off by advancing the index     *)
(* lower, a slot is never used again, and a write after a read enters the  *)
(* list a second time, to upgrade the lock when its turn comes.            *)
(*                                                                         *)
(* The two programs differ in what an unfilled slot holds, in what happens *)
(* when an array is full, in whether a worker that waits for locks looks   *)
(* at quit, and in a third entry of a transaction in the same list:        *)
(* "build" is the program that runs.                                       *)
(*                                                                         *)
(* lock_for_lock_ is held over one step, except when an array is full.     *)
(* Because another worker may hold it for a moment, a worker that scans    *)
(* future_lock_ may pass over any entry: it may lock in any order.         *)
(***************************************************************************)
EXTENDS SequencesExt, FiniteSets, History, RWLock

CONSTANTS
    Thread,
    Key,
    Procedure,       \* the task sequences makeTask may return
    PRE_NUM,         \* number of transactions drawn
    WAIT_LIST_SIZE,  \* slots of a wait list
    Builds,          \* the programs checked
    None

Task == [op : {"READ", "WRITE"}, key : Key]
TxId == 0 .. PRE_NUM - 1

ASSUME FixedLockManagerAssumption ==
    /\ IsFiniteSet(Thread)
    /\ PRE_NUM \in Nat
    /\ WAIT_LIST_SIZE \in Nat \ {0}
    /\ Builds \subseteq {"determinism", "fixed"}
    /\ None \notin Nat
    /\ None \notin Thread
    /\ \A p \in Procedure : p \in Seq(Task)

VARIABLES
    build,
    quit,
    exited,       \* the process has called exit(0)
    giant,        \* giant_lock: the worker that holds it, or None
    tx_counter,
    pre,          \* Pre_tx_set, never changed
    wait_list,    \* the filled slots of wait_list_; upper is their number
    lower,
    stuck,        \* the records whose lock_for_lock_ is never released
    lock,         \* the counter of each record's lock_
    value,        \* value_ of each record: the transaction that wrote it
    pc,           \* where each worker is
    tx_id,        \* the transaction each worker runs
    pos,          \* the task it is at
    future,       \* future_lock_: the locks it has registered, not yet taken
    rlocks,       \* r_lock_list_, as the set of the records
    wlocks,       \* w_lock_list_, as the set of the records
    reads,        \* read_set_: the versions read
    committed,    \* history: the committed transactions
    order         \* history: the writers of each record, oldest first

dispatch == << build, pre, tx_counter, giant >>
lists    == << wait_list, lower, stuck >>
held     == << lock, rlocks, wlocks >>
records  == << value, order >>
history  == << reads, committed >>
vars == << dispatch, quit, exited, lists, held, records, pc, tx_id, pos, future,
           history >>

Tasks(t) == pre[tx_id[t]]

Init ==
    /\ build \in Builds
    /\ quit = FALSE
    /\ exited = FALSE
    /\ giant = None
    /\ tx_counter = 0
    /\ pre \in [TxId -> Procedure]
    /\ wait_list = [k \in Key |-> << >>]
    /\ lower = [k \in Key |-> 0]
    /\ stuck = {}
    /\ lock = [k \in Key |-> Free]
    /\ value = [k \in Key |-> None]
    /\ pc = [t \in Thread |-> "idle"]
    /\ tx_id = [t \in Thread |-> None]
    /\ pos = [t \in Thread |-> 1]
    /\ future = [t \in Thread |-> << >>]
    /\ rlocks = [t \in Thread |-> {}]
    /\ wlocks = [t \in Thread |-> {}]
    /\ reads = [t \in Thread |-> {}]
    /\ committed = {}
    /\ order = [k \in Key |-> << >>]

Goto(t, label) == pc' = [pc EXCEPT ![t] = label]

-----------------------------------------------------------------------------
(* worker: taking a transaction *)

\* main: the run time is over.
Quit ==
    /\ ~quit
    /\ quit' = TRUE
    /\ UNCHANGED << dispatch, exited, lists, held, records, pc, tx_id, pos,
                    future, history >>

\* The head of the loop, also on GIANT_RETRY.
leave(t) ==
    /\ pc[t] = "idle" /\ quit
    /\ Goto(t, "done")
    /\ UNCHANGED << dispatch, quit, exited, lists, held, records, tx_id, pos,
                    future, history >>

\* Take the giant lock and the next transaction.  With none left the worker
\* returns, and the giant lock stays locked.
acquireGiant(t) ==
    /\ pc[t] = "idle" /\ ~quit /\ giant = None
    /\ giant' = t
    /\ IF tx_counter >= PRE_NUM
       THEN Goto(t, "done") /\ UNCHANGED << tx_counter, tx_id, pos >>
       ELSE /\ tx_id' = [tx_id EXCEPT ![t] = tx_counter]
            /\ tx_counter' = tx_counter + 1
            /\ pos' = [pos EXCEPT ![t] = 1]
            /\ Goto(t, "regist")
    /\ UNCHANGED << build, pre, quit, exited, lists, held, records, future,
                    history >>

-----------------------------------------------------------------------------
(* lockmanager_regist *)

\* dup_check: what the first earlier task of the transaction on k does to it.
dup_check(t, k) ==
    LET earlier == {i \in 1 .. pos[t] - 1 : Tasks(t)[i].key = k}
    IN IF earlier = {} THEN "NONE"
       ELSE Tasks(t)[CHOOSE i \in earlier : \A j \in earlier : i <= j].op

\* A task enters the list unless the transaction has an entry that covers it.
\* After a read every write enters, however many there are: only the first
\* earlier task counts.
Enters(task, dup) ==
    \/ dup = "NONE"
    \/ dup = "READ" /\ task.op = "WRITE"

\* wait_add fills the next slot.  If that was the last one, one program exits
\* and the other returns with lock_for_lock_ held.
wait_add(t, k) ==
    /\ k \notin stuck
    /\ wait_list' = [wait_list EXCEPT ![k] = Append(@, tx_id[t])]
    /\ \/ /\ Len(wait_list[k]) + 1 < WAIT_LIST_SIZE
          /\ UNCHANGED << stuck, exited >>
       \/ /\ Len(wait_list[k]) + 1 >= WAIT_LIST_SIZE
          /\ build = "determinism"
          /\ stuck' = stuck \cup {k}
          /\ UNCHANGED exited
       \/ /\ Len(wait_list[k]) + 1 >= WAIT_LIST_SIZE
          /\ build = "fixed"
          /\ exited' = TRUE
          /\ UNCHANGED stuck
    /\ UNCHANGED lower

\* Register the lock of the next task.
regist(t) ==
    /\ pc[t] = "regist"
    /\ pos[t] <= Len(Tasks(t))
    /\ LET task == Tasks(t)[pos[t]]
       IN \/ /\ Enters(task, dup_check(t, task.key))
             /\ wait_add(t, task.key)
             /\ future' = [future EXCEPT ![t] = Append(@, task)]
          \/ /\ ~Enters(task, dup_check(t, task.key))
             /\ UNCHANGED << lists, exited, future >>
    /\ pos' = [pos EXCEPT ![t] = @ + 1]
    /\ UNCHANGED << dispatch, quit, held, records, pc, tx_id, history >>

\* After the last task: check_waitlist, or with nothing to lock the transaction.
releaseGiant(t) ==
    /\ pc[t] = "regist"
    /\ pos[t] > Len(Tasks(t))
    /\ giant' = None
    /\ Goto(t, IF future[t] = << >> THEN "exec" ELSE "wait")
    /\ pos' = [pos EXCEPT ![t] = 1]
    /\ UNCHANGED << build, pre, tx_counter, quit, exited, lists, held, records,
                    tx_id, future, history >>

-----------------------------------------------------------------------------
(* check_waitlist *)

\* What an unfilled slot holds: in one program the number of transaction 0.
Unfilled == IF build = "determinism" THEN 0 ELSE None

\* The slot i of the wait list of k, counted from 0.
slot(k, i) == IF i < Len(wait_list[k]) THEN wait_list[k][i + 1] ELSE Unfilled

\* Mutation: the wait list is not consulted.
AtHeadAnywhere(t, k) == k \notin stuck

\* t is the next to lock k, and lock_for_lock_ can be had.
AtHead(t, k) == k \notin stuck /\ slot(k, lower[k]) = tx_id[t]

\* Mutation: a further entry of the worker is not looked for.
NextIsNever(t, k) == FALSE

\* The entry after the head is the worker's own too.
NextIsOwn(t, k) == slot(k, lower[k] + 1) = tx_id[t]

\* Strike the entry i off future_lock_ and the head off the wait list; with
\* nothing left to lock the transaction runs.
Dequeues(t, i) ==
    LET rest == RemoveAt(future[t], i)
    IN /\ lower' = [lower EXCEPT ![future[t][i].key] = @ + 1]
       /\ future' = [future EXCEPT ![t] = rest]
       /\ IF rest = << >> THEN Goto(t, "exec") ELSE UNCHANGED pc
       /\ UNCHANGED << dispatch, quit, exited, wait_list, stuck, records, tx_id,
                       pos, history >>

readLock(t, i) ==
    LET k == future[t][i].key
    IN /\ future[t][i].op = "READ" /\ AtHead(t, k)
       /\ CanReadLock(lock[k])
       /\ lock' = [lock EXCEPT ![k] = ReadLock(@)]
       /\ rlocks' = [rlocks EXCEPT ![t] = @ \cup {k}]
       /\ UNCHANGED wlocks
       /\ Dequeues(t, i)

\* A write of a record the worker has read-locked: the lock is upgraded ...
upgrade(t, i) ==
    LET k == future[t][i].key
    IN /\ future[t][i].op = "WRITE" /\ AtHead(t, k)
       /\ k \in rlocks[t]
       /\ build = "fixed" => ~NextIsOwn(t, k)
       /\ CanUpgrade(lock[k])
       /\ lock' = [lock EXCEPT ![k] = Upgrade(@)]
       /\ wlocks' = [wlocks EXCEPT ![t] = @ \cup {k}]
       /\ rlocks' = [rlocks EXCEPT ![t] = @ \ {k}]
       /\ Dequeues(t, i)

\* ... by the last entry of the transaction: the ones before it are dropped.
drop(t, i) ==
    LET k == future[t][i].key
    IN /\ build = "fixed"
       /\ future[t][i].op = "WRITE" /\ AtHead(t, k)
       /\ k \in rlocks[t] /\ NextIsOwn(t, k)
       /\ UNCHANGED held
       /\ Dequeues(t, i)

\* A write of a record the worker has not locked.  If its own number comes next
\* too, it takes its entry for the one of the write after the read.
writeLock(t, i) ==
    LET k == future[t][i].key
    IN /\ future[t][i].op = "WRITE" /\ AtHead(t, k)
       /\ k \notin rlocks[t] /\ ~NextIsOwn(t, k)
       /\ CanWriteLock(lock[k])
       /\ lock' = [lock EXCEPT ![k] = WriteLock(@)]
       /\ wlocks' = [wlocks EXCEPT ![t] = @ \cup {k}]
       /\ UNCHANGED rlocks
       /\ Dequeues(t, i)

check_waitlist(t) ==
    /\ pc[t] = "wait"
    /\ \E i \in DOMAIN future[t] :
          readLock(t, i) \/ upgrade(t, i) \/ drop(t, i) \/ writeLock(t, i)

\* One program gives up waiting when quit is set, and runs the transaction with
\* the locks it has.
giveUp(t) ==
    /\ pc[t] = "wait"
    /\ build = "determinism" /\ quit
    /\ Goto(t, "exec")
    /\ UNCHANGED << dispatch, quit, exited, lists, held, records, tx_id, pos,
                    future, history >>

-----------------------------------------------------------------------------
(* Running the transaction, and commit *)

\* read and write: the value is loaded or stored in place.
execute(t) ==
    /\ pc[t] = "exec"
    /\ pos[t] <= Len(Tasks(t))
    /\ LET task == Tasks(t)[pos[t]]
           k == task.key
       IN \/ /\ task.op = "READ"
             /\ reads' = [reads EXCEPT ![t] = @ \cup {[key |-> k, ver |-> value[k]]}]
             /\ UNCHANGED records
          \/ /\ task.op = "WRITE"
             /\ value' = [value EXCEPT ![k] = tx_id[t]]
             /\ order' = IF Place(order[k], tx_id[t]) = 0
                         THEN [order EXCEPT ![k] = Append(@, tx_id[t])]
                         ELSE order
             /\ UNCHANGED reads
    /\ pos' = [pos EXCEPT ![t] = @ + 1]
    /\ UNCHANGED << dispatch, quit, exited, lists, held, pc, tx_id, future,
                    committed >>

\* commit: every task has run.
commit(t) ==
    /\ pc[t] = "exec"
    /\ pos[t] > Len(Tasks(t))
    /\ committed' = committed \cup
          {[id |-> tx_id[t], reads |-> reads[t], locked |-> ~quit \/ build = "fixed"]}
    /\ Goto(t, "unlock")
    /\ UNCHANGED << dispatch, quit, exited, lists, held, records, tx_id, pos,
                    future, reads >>

\* commit releases the read locks ...
readUnlock(t) ==
    /\ pc[t] = "unlock"
    /\ \E k \in rlocks[t] :
        /\ lock' = [lock EXCEPT ![k] = ReadUnlock(@)]
        /\ rlocks' = [rlocks EXCEPT ![t] = @ \ {k}]
    /\ UNCHANGED << dispatch, quit, exited, lists, wlocks, records, pc, tx_id,
                    pos, future, history >>

\* ... and then the write locks ...
writeUnlock(t) ==
    /\ pc[t] = "unlock"
    /\ rlocks[t] = {}
    /\ \E k \in wlocks[t] :
        /\ lock' = [lock EXCEPT ![k] = WriteUnlock(@)]
        /\ wlocks' = [wlocks EXCEPT ![t] = @ \ {k}]
    /\ UNCHANGED << dispatch, quit, exited, lists, rlocks, records, pc, tx_id,
                    pos, future, history >>

\* ... and the worker goes on.  Locks it gave up waiting for stay registered,
\* in the wait lists and in its own future_lock_, but it will not run again.
finish(t) ==
    /\ pc[t] = "unlock"
    /\ rlocks[t] = {} /\ wlocks[t] = {}
    /\ reads' = [reads EXCEPT ![t] = {}]
    /\ tx_id' = [tx_id EXCEPT ![t] = None]
    /\ Goto(t, "idle")
    /\ UNCHANGED << dispatch, quit, exited, lists, held, records, pos, future,
                    committed >>

-----------------------------------------------------------------------------
worker(t) ==
    \/ leave(t) \/ acquireGiant(t) \/ regist(t) \/ releaseGiant(t)
    \/ check_waitlist(t) \/ giveUp(t)
    \/ execute(t) \/ commit(t) \/ readUnlock(t) \/ writeUnlock(t) \/ finish(t)

\* Nothing runs after exit(0).
Running(t) == ~exited /\ worker(t)
Timer == ~exited /\ Quit

\* The worker t waits in wait_add for a lock_for_lock_ nobody will release.
Spinning(t) ==
    /\ pc[t] = "regist" /\ pos[t] <= Len(Tasks(t))
    /\ Enters(Tasks(t)[pos[t]], dup_check(t, Tasks(t)[pos[t]].key))
    /\ Tasks(t)[pos[t]].key \in stuck

\* main has joined the workers, or the process has exited, or main waits for a
\* worker that spins.
Ended ==
    /\ \/ exited
       \/ quit /\ \A t \in Thread : pc[t] = "done" \/ Spinning(t)
    /\ UNCHANGED vars

Next == Timer \/ (\E t \in Thread : Running(t)) \/ Ended

Spec == Init /\ [][Next]_vars

\* Every worker is scheduled; the timer may take as long as it likes.
FairSpec == Spec /\ \A t \in Thread : WF_vars(Running(t))

-----------------------------------------------------------------------------
(* Properties *)

TypeOK ==
    /\ build \in Builds
    /\ quit \in BOOLEAN /\ exited \in BOOLEAN
    /\ giant \in Thread \cup {None}
    /\ tx_counter \in 0 .. PRE_NUM
    /\ pre \in [TxId -> Procedure]
    /\ wait_list \in [Key -> Seq(TxId)]
    /\ lower \in [Key -> 0 .. WAIT_LIST_SIZE]
    /\ stuck \subseteq Key
    /\ lock \in [Key -> Int]
    /\ value \in [Key -> TxId \cup {None}]
    /\ pc \in [Thread -> {"idle", "regist", "wait", "exec", "unlock", "done"}]
    /\ tx_id \in [Thread -> TxId \cup {None}]
    /\ pos \in [Thread -> Nat]
    /\ future \in [Thread -> Seq(Task)]
    /\ rlocks \in [Thread -> SUBSET Key]
    /\ wlocks \in [Thread -> SUBSET Key]

\* The number of the last transaction before i, or of i itself, to write k.
Writers(k, i) == {j \in TxId : j <= i /\ \E n \in DOMAIN pre[j] :
                                  pre[j][n] = [op |-> "WRITE", key |-> k]}
LastWriter(k, i) ==
    IF Writers(k, i) = {} THEN None
    ELSE CHOOSE j \in Writers(k, i) : \A m \in Writers(k, i) : m <= j

\* Determinism: the transactions read what they would if they were run one at a
\* time in the order of their numbers.  In the program that gives up waiting
\* for locks on quit this is so of the transactions committed before.
SerialInTxOrder ==
    LET C == {a \in committed : a.locked}
    IN /\ \A a \in C : \A r \in a.reads :
             r.ver = LastWriter(r.key, a.id) \/ r.ver = LastWriter(r.key, a.id - 1)
       /\ \A a, b \in C : MustPrecede(order, a, b) => a.id < b.id

\* In the program without the test for a further entry, a transaction that
\* writes a record twice after reading it waits for the write lock it holds;
\* and transaction 0, which a slot not yet filled names too, waits for another
\* to enter the list after it before it locks a record it has not read.
WaitsForItself(i) ==
    /\ build = "determinism"
    /\ LET On(k) == SelectSeq(pre[i], LAMBDA f : f.key = k)
       IN \E k \in Key :
             \/ Len(On(k)) > 2 /\ On(k)[1].op = "READ"
                /\ Cardinality({n \in DOMAIN On(k) : On(k)[n].op = "WRITE"}) > 1
             \/ i = 0 /\ On(k) # << >> /\ On(k)[1].op = "WRITE"

\* Every transaction handed out commits: the second entry of an upgrade starves
\* nobody and no worker waits for another in a circle.  What can keep a
\* transaction waiting is a full list, or a transaction up to it that waits
\* for itself; quit then ends the wait.
EveryTxCommits ==
    \A i \in TxId : tx_counter > i ~>
        \/ \E a \in committed : a.id = i
        \/ exited \/ stuck # {}
        \/ \E j \in 0 .. i : WaitsForItself(j)

=============================================================================
