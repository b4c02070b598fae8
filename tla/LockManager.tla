---------------------------- MODULE LockManager ----------------------------
(***************************************************************************)
(* The lock manager of lock-manager/ and its variants.  Transactions are   *)
(* drawn before the run and numbered.  A worker takes the next one under   *)
(* the giant lock, enters its number in the wait list of every record the  *)
(* transaction accesses, releases the giant lock, and then locks a record  *)
(* when its number is at the head of the record's list.  It runs the       *)
(* transaction once it holds every lock and then releases them.  Nothing   *)
(* aborts, and conflicting transactions run in the order of their numbers. *)
(*                                                                         *)
(* lock_for_lock_, the lock of a wait list, is held over one step: what    *)
(* its holder does in between, others can see only by the locks it takes.  *)
(* The exception is the head of the list, which check_waitlist reads       *)
(* without it: see dangling.                                               *)
(***************************************************************************)
EXTENDS SequencesExt, FiniteSets, TxOrder, RWLock

CONSTANTS
    Procedure,       \* the task sequences makeTask may return
    EndAfterFirst,   \* the worker of transaction FirstTx sets quit (the
                     \* _end_after_tx1 variant), not main's timer
    Racing           \* whether a wait list may move in memory between the two
                     \* loads of a worker that reads its head

Task == [op : {"READ", "WRITE"}, key : Key]

ASSUME LockManagerAssumption ==
    /\ IsFiniteSet(Thread)
    /\ PRE_NUM \in Nat
    /\ FirstTx \in Nat
    /\ EndAfterFirst \in BOOLEAN
    /\ Racing \in BOOLEAN
    /\ None \notin Nat
    /\ None \notin Thread
    /\ \A p \in Procedure : p \in Seq(Task)

VARIABLES
    quit,
    giant,        \* giant_lock: the worker that holds it, or None
    tx_counter,
    wait_list,    \* wait_list_ of each record
    capacity,     \* the capacity of each wait_list_
    tx_id,        \* the transaction each worker runs
    pos,          \* the task it is at
    future,       \* future_lock_: the locks it has registered, not yet taken
    cur,          \* the entry of future check_waitlist looks at
    dangling,     \* the buffer of that entry's wait list has been freed since
                  \* the worker loaded its address
    rlocks,       \* r_lock_list_, as the set of the records
    wlocks        \* w_lock_list_, as the set of the records

vars == << quit, giant, tx_counter, pre, wait_list, capacity, lock, value, pc, tx_id,
           pos, future, cur, dangling, rlocks, wlocks, reads, committed, order >>

dispatch == << quit, giant, tx_counter, pre >>
lists    == << wait_list, capacity >>
held     == << rlocks, wlocks >>
records  == << value, order >>

Tasks(t) == pre[tx_id[t]]

Init ==
    /\ quit = FALSE
    /\ giant = None
    /\ tx_counter = FirstTx
    /\ pre \in [TxId -> Procedure]
    /\ wait_list = [k \in Key |-> << >>]
    /\ capacity = [k \in Key |-> 0]
    /\ lock = [k \in Key |-> Free]
    /\ value = [k \in Key |-> None]
    /\ pc = [t \in Thread |-> "idle"]
    /\ tx_id = [t \in Thread |-> None]
    /\ pos = [t \in Thread |-> 1]
    /\ future = [t \in Thread |-> << >>]
    /\ cur = [t \in Thread |-> 1]
    /\ dangling = [t \in Thread |-> FALSE]
    /\ rlocks = [t \in Thread |-> {}]
    /\ wlocks = [t \in Thread |-> {}]
    /\ reads = [t \in Thread |-> {}]
    /\ committed = {}
    /\ order = [k \in Key |-> << >>]

Goto(t, label) == pc' = [pc EXCEPT ![t] = label]

-----------------------------------------------------------------------------
(* worker: taking a transaction *)

\* main: the run time is over.
Quit ==
    /\ ~quit /\ ~EndAfterFirst
    /\ quit' = TRUE
    /\ UNCHANGED << giant, tx_counter, pre, lists, lock, records, pc, tx_id,
                    pos, future, cur, dangling, held, reads, committed >>

\* The head of the loop, also on GIANT_RETRY.
leave(t) ==
    /\ pc[t] = "idle" /\ quit
    /\ Goto(t, "done")
    /\ UNCHANGED << dispatch, lists, lock, records, tx_id, pos, future, cur,
                    dangling, held, reads, committed >>

\* Mutation: transactions are numbered and registered without the giant lock.
acquireNothing(t) ==
    /\ pc[t] = "idle" /\ ~quit
    /\ IF tx_counter >= PRE_NUM
       THEN Goto(t, "done") /\ UNCHANGED << tx_counter, tx_id, pos >>
       ELSE /\ tx_id' = [tx_id EXCEPT ![t] = tx_counter]
            /\ tx_counter' = tx_counter + 1
            /\ pos' = [pos EXCEPT ![t] = 1]
            /\ Goto(t, "regist")
    /\ UNCHANGED << quit, giant, pre, lists, lock, records, future, cur,
                    dangling, held, reads, committed >>

\* Take the giant lock and the next transaction.  With none left the worker
\* returns, and the giant lock stays locked.
acquireGiant(t) ==
    /\ pc[t] = "idle" /\ ~quit /\ giant = None
    /\ giant' = t
    /\ IF tx_counter >= PRE_NUM
       THEN Goto(t, "done") /\ UNCHANGED << tx_counter, tx_id, pos >>
       ELSE /\ tx_id' = [tx_id EXCEPT ![t] = tx_counter]
            /\ tx_counter' = tx_counter + 1
            /\ pos' = [pos EXCEPT ![t] = 1]
            /\ Goto(t, "regist")
    /\ UNCHANGED << quit, pre, lists, lock, records, future, cur, dangling,
                    held, reads, committed >>

-----------------------------------------------------------------------------
(* lockmanager_regist *)

\* dup_check: what the first earlier task of the transaction on k does to it.
dup_check(t, k) ==
    LET earlier == {i \in 1 .. pos[t] - 1 : Tasks(t)[i].key = k}
    IN IF earlier = {} THEN "NONE"
       ELSE Tasks(t)[CHOOSE i \in earlier : \A j \in earlier : i <= j].op

\* Readers that are between loading the address of this list's buffer and
\* loading its head are left with a freed buffer if the list has to grow.
LoadedAddress(k) ==
    {u \in Thread : pc[u] = "wait" /\ future[u][cur[u]].key = k}

wait_add(t, k) ==
    /\ wait_list' = [wait_list EXCEPT ![k] = Append(@, tx_id[t])]
    /\ IF Len(wait_list[k]) < capacity[k]
       THEN UNCHANGED << capacity, dangling >>
       ELSE /\ capacity' = [capacity EXCEPT ![k] = IF @ = 0 THEN 1 ELSE 2 * @]
            /\ \E U \in IF Racing THEN SUBSET LoadedAddress(k) ELSE {{}} :
                  dangling' = [u \in Thread |-> dangling[u] \/ u \in U]

\* Mutation: a write after a read enters the wait list once more.
registTwice(t) ==
    /\ pc[t] = "regist"
    /\ pos[t] <= Len(Tasks(t))
    /\ LET task == Tasks(t)[pos[t]]
           dup  == dup_check(t, task.key)
       IN IF dup = "NONE" \/ (dup = "READ" /\ task.op = "WRITE")
          THEN /\ wait_add(t, task.key)
               /\ future' = [future EXCEPT ![t] = Append(@, task)]
          ELSE UNCHANGED << lists, dangling, future >>
    /\ pos' = [pos EXCEPT ![t] = @ + 1]
    /\ UNCHANGED << dispatch, lock, records, pc, tx_id, cur, held, reads,
                    committed >>

\* Register the lock of the next task: the first access of a record enters the
\* wait list, and a write after a read turns the entry into a write lock.
regist(t) ==
    /\ pc[t] = "regist"
    /\ pos[t] <= Len(Tasks(t))
    /\ LET task == Tasks(t)[pos[t]]
           dup  == dup_check(t, task.key)
       IN \/ /\ dup = "NONE"
             /\ wait_add(t, task.key)
             /\ future' = [future EXCEPT ![t] = Append(@, task)]
          \/ /\ dup = "READ" /\ task.op = "WRITE"
             /\ future' = [future EXCEPT ![t] =
                    [i \in DOMAIN @ |-> IF @[i].key = task.key THEN task ELSE @[i]]]
             /\ UNCHANGED << lists, dangling >>
          \/ /\ dup = "WRITE" \/ (dup = "READ" /\ task.op = "READ")
             /\ UNCHANGED << lists, dangling, future >>
    /\ pos' = [pos EXCEPT ![t] = @ + 1]
    /\ UNCHANGED << dispatch, lock, records, pc, tx_id, cur, held, reads,
                    committed >>

\* After the last task: check_waitlist, or with nothing to lock the transaction.
releaseGiant(t) ==
    /\ pc[t] = "regist"
    /\ pos[t] > Len(Tasks(t))
    /\ giant' = None
    /\ Goto(t, IF future[t] = << >> THEN "exec" ELSE "wait")
    /\ pos' = [pos EXCEPT ![t] = 1]
    /\ cur' = [cur EXCEPT ![t] = 1]
    /\ UNCHANGED << quit, tx_counter, pre, lists, lock, records, tx_id, future,
                    dangling, held, reads, committed >>

-----------------------------------------------------------------------------
(* check_waitlist *)

\* The number at the head of the wait list of k, as t reads it: any number if
\* the buffer has been freed, for the allocator may have given it to any list,
\* or if the list is empty, as it can be once an entry has been lost that way.
Heads(t, k) ==
    IF dangling[t] \/ wait_list[k] = << >> THEN TxId ELSE {wait_list[k][1]}

\* Take the lock that f asks for.
Locks(t, f) ==
    \/ /\ f.op = "READ"
       /\ CanReadLock(lock[f.key])
       /\ lock' = [lock EXCEPT ![f.key] = ReadLock(@)]
       /\ rlocks' = [rlocks EXCEPT ![t] = @ \cup {f.key}]
       /\ UNCHANGED wlocks
    \/ /\ f.op = "WRITE"
       /\ CanWriteLock(lock[f.key])
       /\ lock' = [lock EXCEPT ![f.key] = WriteLock(@)]
       /\ wlocks' = [wlocks EXCEPT ![t] = @ \cup {f.key}]
       /\ UNCHANGED rlocks

\* Strike the current entry off future_lock_ and the head off the wait list;
\* with nothing left to lock the transaction runs.
Dequeues(t) ==
    LET rest == RemoveAt(future[t], cur[t])
    IN /\ wait_list' = [wait_list EXCEPT ![future[t][cur[t]].key] = Tail(@)]
       /\ future' = [future EXCEPT ![t] = rest]
       /\ cur' = [cur EXCEPT ![t] = IF @ > Len(rest) THEN 1 ELSE @]
       /\ IF rest = << >> THEN Goto(t, "exec") ELSE UNCHANGED pc

\* Mutation: the wait list is not consulted.
grantUnordered(t) ==
    /\ pc[t] = "wait"
    /\ Locks(t, future[t][cur[t]])
    /\ Dequeues(t)
    /\ dangling' = [dangling EXCEPT ![t] = FALSE]
    /\ UNCHANGED << dispatch, capacity, records, tx_id, pos, reads, committed >>

\* The worker's number is at the head of the list and the lock is free: lock.
grant(t) ==
    /\ pc[t] = "wait"
    /\ tx_id[t] \in Heads(t, future[t][cur[t]].key)
    /\ Locks(t, future[t][cur[t]])
    /\ Dequeues(t)
    /\ dangling' = [dangling EXCEPT ![t] = FALSE]
    /\ UNCHANGED << dispatch, capacity, records, tx_id, pos, reads, committed >>

\* Otherwise go on to the next entry, after the last to the first again.  (A
\* worker may also pass because another has lock_for_lock_, or because a lock is
\* freed just after it has looked: it comes back.)
pass(t) ==
    /\ pc[t] = "wait"
    /\ LET f == future[t][cur[t]]
       IN \/ Heads(t, f.key) # {tx_id[t]}
          \/ f.op = "READ" /\ ~CanReadLock(lock[f.key])
          \/ f.op = "WRITE" /\ ~CanWriteLock(lock[f.key])
    /\ cur' = [cur EXCEPT ![t] = IF @ = Len(future[t]) THEN 1 ELSE @ + 1]
    /\ dangling' = [dangling EXCEPT ![t] = FALSE]
    /\ UNCHANGED << dispatch, lists, lock, records, pc, tx_id, pos, future, held,
                    reads, committed >>

-----------------------------------------------------------------------------
(* Running the transaction, and commit *)

\* read and write: the value is loaded or stored in place.
execute(t) ==
    /\ pc[t] = "exec"
    /\ pos[t] <= Len(Tasks(t))
    /\ LET task == Tasks(t)[pos[t]]
           k == task.key
       IN \/ /\ task.op = "READ"
             /\ reads' = [reads EXCEPT ![t] = @ \cup {[key |-> k, ver |-> value[k]]}]
             /\ UNCHANGED records
          \/ /\ task.op = "WRITE"
             /\ value' = [value EXCEPT ![k] = tx_id[t]]
             /\ order' = IF Place(order[k], tx_id[t]) = 0
                         THEN [order EXCEPT ![k] = Append(@, tx_id[t])]
                         ELSE order
             /\ UNCHANGED reads
    /\ pos' = [pos EXCEPT ![t] = @ + 1]
    /\ UNCHANGED << dispatch, lists, lock, pc, tx_id, future, cur, dangling,
                    held, committed >>

\* commit: every task has run.
commit(t) ==
    /\ pc[t] = "exec"
    /\ pos[t] > Len(Tasks(t))
    /\ committed' = committed \cup {[id |-> tx_id[t], reads |-> reads[t]]}
    /\ Goto(t, "unlock")
    /\ UNCHANGED << dispatch, lists, lock, records, tx_id, pos, future, cur,
                    dangling, held, reads >>

\* commit releases the read locks ...
readUnlock(t) ==
    /\ pc[t] = "unlock"
    /\ \E k \in rlocks[t] :
        /\ lock' = [lock EXCEPT ![k] = ReadUnlock(@)]
        /\ rlocks' = [rlocks EXCEPT ![t] = @ \ {k}]
    /\ UNCHANGED << dispatch, lists, records, pc, tx_id, pos, future, cur,
                    dangling, wlocks, reads, committed >>

\* ... and then the write locks.
writeUnlock(t) ==
    /\ pc[t] = "unlock"
    /\ rlocks[t] = {}
    /\ \E k \in wlocks[t] :
        /\ lock' = [lock EXCEPT ![k] = WriteUnlock(@)]
        /\ wlocks' = [wlocks EXCEPT ![t] = @ \ {k}]
    /\ UNCHANGED << dispatch, lists, records, pc, tx_id, pos, future, cur,
                    dangling, rlocks, reads, committed >>

\* The transaction is over; in the _end_after_tx1 variant so is the run, if it
\* was the first one.
finish(t) ==
    /\ pc[t] = "unlock"
    /\ rlocks[t] = {} /\ wlocks[t] = {}
    /\ reads' = [reads EXCEPT ![t] = {}]
    /\ tx_id' = [tx_id EXCEPT ![t] = None]
    /\ quit' = (quit \/ (EndAfterFirst /\ tx_id[t] = FirstTx))
    /\ Goto(t, "idle")
    /\ UNCHANGED << giant, tx_counter, pre, lists, lock, records, pos,
                    future, cur, dangling, held, committed >>

-----------------------------------------------------------------------------
worker(t) ==
    \/ leave(t) \/ acquireGiant(t) \/ regist(t) \/ releaseGiant(t)
    \/ grant(t) \/ pass(t)
    \/ execute(t) \/ commit(t) \/ readUnlock(t) \/ writeUnlock(t) \/ finish(t)

\* main joins the workers: nothing is left to do.
Joined ==
    /\ \A t \in Thread : pc[t] = "done"
    /\ UNCHANGED vars

Next == Quit \/ (\E t \in Thread : worker(t)) \/ Joined

Spec == Init /\ [][Next]_vars

\* Every thread is scheduled, and main sets quit when the run time is over.
Fairness == WF_vars(Quit) /\ \A t \in Thread : WF_vars(worker(t))

FairSpec == Spec /\ Fairness

-----------------------------------------------------------------------------
(* Properties *)

TypeOK ==
    /\ quit \in BOOLEAN
    /\ giant \in Thread \cup {None}
    /\ tx_counter \in Nat
    /\ pre \in [TxId -> Procedure]
    /\ wait_list \in [Key -> Seq(TxId)]
    /\ capacity \in [Key -> Nat]
    /\ lock \in [Key -> Int]
    /\ value \in [Key -> TxId \cup {None}]
    /\ pc \in [Thread -> {"idle", "regist", "wait", "exec", "unlock", "done"}]
    /\ tx_id \in [Thread -> TxId \cup {None}]
    /\ pos \in [Thread -> Nat]
    /\ future \in [Thread -> Seq(Task)]
    /\ cur \in [Thread -> Nat]
    /\ dangling \in [Thread -> BOOLEAN]
    /\ rlocks \in [Thread -> SUBSET Key]
    /\ wlocks \in [Thread -> SUBSET Key]
    /\ reads \in [Thread -> SUBSET [key : Key, ver : TxId \cup {None}]]
    /\ committed \subseteq [id : TxId,
                            reads : SUBSET [key : Key, ver : TxId \cup {None}]]
    /\ order \in [Key -> Seq(TxId)]

Pending(t, k) == \E i \in DOMAIN future[t] : future[t][i].key = k

\* A wait list holds exactly the transactions still to lock the record, in the
\* order of their numbers: no entry is lost, left behind or overtaken, so the
\* head of a list is always a worker that will come for it.
WaitListsInOrder ==
    \A k \in Key :
        /\ \A i, j \in DOMAIN wait_list[k] : i < j => wait_list[k][i] < wait_list[k][j]
        /\ \A t \in Thread : Pending(t, k) <=>
              pc[t] \in {"regist", "wait"} /\ \E i \in DOMAIN wait_list[k] :
                                                 wait_list[k][i] = tx_id[t]

\* Every transaction that has been handed out commits: no worker waits for another
\* in a circle, and the wait lists starve nobody.  And once quit is set every worker
\* leaves, though a worker that ran out of transactions has left with the giant lock.
Progress ==
    /\ \A i \in TxId : tx_counter > i ~> \E a \in committed : a.id = i
    /\ quit ~> (\A t \in Thread : pc[t] = "done")

\* "Own tx_id is at the head of the lock manager's wait_list_" where a lock is
\* taken off it (comment of check_waitlist).
GrantedAtHead ==
    [][\A t \in Thread :
         \A k \in (rlocks'[t] \cup wlocks'[t]) \ (rlocks[t] \cup wlocks[t]) :
            wait_list[k][1] = tx_id[t]]_vars
=============================================================================
