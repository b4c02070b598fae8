---------------------------- MODULE Determinism ----------------------------
(***************************************************************************)
(* Deterministic locking under the giant lock                              *)
(* (determinism_end_after_tx1/ and its variants).  Transactions are drawn  *)
(* before the run and numbered.  A worker that has the giant lock takes    *)
(* every lock of the next transaction without waiting, starts again with   *)
(* the giant lock held when one is refused, and only when it has them all  *)
(* gives the giant lock to the next worker and runs the transaction.       *)
(***************************************************************************)
EXTENDS SequencesExt, FiniteSets, TxOrder, RWLock

CONSTANTS
    Procedure,       \* the task sequences makeTask and makeTask_init may return
    Variants         \* the programs checked: TRUE is the one in which the worker
                     \* of transaction 0 sets quit, not main's timer

Task == [op : {"READ", "WRITE"}, key : Key]

ASSUME DeterminismAssumption ==
    /\ IsFiniteSet(Thread)
    /\ PRE_NUM \in Nat
    /\ FirstTx \in Nat
    /\ Variants \subseteq BOOLEAN
    /\ None \notin Nat
    /\ None \notin Thread
    /\ \A p \in Procedure : p \in Seq(Task)

VARIABLES
    end_after_tx1,  \* the program that runs
    quit,
    giant,        \* lock_for_locks: the worker that holds it, or None
    tx_counter,
    tx_pos,       \* the transaction each worker tries or runs
    pos,          \* the task it is at
    rlocks,       \* r_lock_list_, as the set of the records
    wlocks        \* w_lock_list_, as the set of the records

dispatch == << end_after_tx1, quit, giant, tx_counter, pre >>
held     == << lock, rlocks, wlocks >>
records  == << value, order >>
history  == << reads, committed >>
vars == << dispatch, held, records, pc, tx_pos, pos, history >>

Tasks(t) == pre[tx_pos[t]]

Init ==
    /\ end_after_tx1 \in Variants
    /\ quit = FALSE
    /\ giant = None
    /\ tx_counter = FirstTx
    /\ pre \in [TxId -> Procedure]
    /\ lock = [k \in Key |-> Free]
    /\ value = [k \in Key |-> None]
    /\ pc = [t \in Thread |-> "point"]
    /\ tx_pos = [t \in Thread |-> FirstTx]
    /\ pos = [t \in Thread |-> 1]
    /\ rlocks = [t \in Thread |-> {}]
    /\ wlocks = [t \in Thread |-> {}]
    /\ reads = [t \in Thread |-> {}]
    /\ committed = {}
    /\ order = [k \in Key |-> << >>]

Goto(t, label) == pc' = [pc EXCEPT ![t] = label]

-----------------------------------------------------------------------------
(* worker: taking a transaction *)

\* main: the run time is over.
Quit ==
    /\ ~quit /\ ~end_after_tx1
    /\ quit' = TRUE
    /\ UNCHANGED << end_after_tx1, giant, tx_counter, pre, held, records, pc,
                    tx_pos, pos, history >>

\* The head of the loop, POINT; a worker that is refused the giant lock comes
\* back to it.
leave(t) ==
    /\ pc[t] = "point" /\ quit
    /\ Goto(t, "done")
    /\ UNCHANGED << dispatch, held, records, tx_pos, pos, history >>

\* Take the giant lock and look up the next transaction.  With none left the
\* worker returns, and the giant lock stays locked.
acquireGiant(t) ==
    /\ pc[t] = "point" /\ ~quit /\ giant = None
    /\ giant' = t
    /\ tx_pos' = [tx_pos EXCEPT ![t] = tx_counter]
    /\ Goto(t, IF tx_counter >= PRE_NUM THEN "done" ELSE "retry")
    /\ UNCHANGED << end_after_tx1, quit, tx_counter, pre, held, records, pos,
                    history >>

\* RETRY.  On quit the worker leaves, and the giant lock stays locked.
retry(t) ==
    /\ pc[t] = "retry"
    /\ IF quit
       THEN Goto(t, "done") /\ UNCHANGED pos
       ELSE pos' = [pos EXCEPT ![t] = 1] /\ Goto(t, "lock")
    /\ UNCHANGED << dispatch, held, records, tx_pos, history >>

-----------------------------------------------------------------------------
(* Locking *)

Grant(t) ==
    /\ pos' = [pos EXCEPT ![t] = @ + 1]
    /\ UNCHANGED << dispatch, records, pc, tx_pos, history >>

Refuse(t) ==
    /\ Goto(t, "abort")
    /\ UNCHANGED << dispatch, held, records, tx_pos, pos, history >>

Locking(t, op) ==
    /\ pc[t] = "lock" /\ pos[t] <= Len(Tasks(t))
    /\ Tasks(t)[pos[t]].op = op

\* Mutation: a read looks for a lock of its own among the read locks only.
lockReadUpgraded(t) ==
    /\ Locking(t, "READ")
    /\ LET k == Tasks(t)[pos[t]].key
       IN \/ /\ k \in rlocks[t]
             /\ UNCHANGED held
             /\ Grant(t)
          \/ /\ k \notin rlocks[t]
             /\ CanReadLock(lock[k])
             /\ lock' = [lock EXCEPT ![k] = ReadLock(@)]
             /\ rlocks' = [rlocks EXCEPT ![t] = @ \cup {k}]
             /\ UNCHANGED wlocks
             /\ Grant(t)
          \/ /\ k \notin rlocks[t]
             /\ ~CanReadLock(lock[k])
             /\ Refuse(t)

\* READ: the lock is taken unless the transaction has one on the record.
lockRead(t) ==
    /\ Locking(t, "READ")
    /\ LET k == Tasks(t)[pos[t]].key
       IN \/ /\ k \in rlocks[t] \cup wlocks[t]
             /\ UNCHANGED held
             /\ Grant(t)
          \/ /\ k \notin rlocks[t] \cup wlocks[t]
             /\ CanReadLock(lock[k])
             /\ lock' = [lock EXCEPT ![k] = ReadLock(@)]
             /\ rlocks' = [rlocks EXCEPT ![t] = @ \cup {k}]
             /\ UNCHANGED wlocks
             /\ Grant(t)
          \/ /\ k \notin rlocks[t] \cup wlocks[t]
             /\ ~CanReadLock(lock[k])
             /\ Refuse(t)

\* WRITE: a read lock is upgraded, another write's lock serves this one too.
\* (After a refused upgrade the code tries for a write lock; the read lock that
\* the transaction itself holds refuses it again.)
lockWrite(t) ==
    /\ Locking(t, "WRITE")
    /\ LET k == Tasks(t)[pos[t]].key
       IN \/ /\ k \in wlocks[t]
             /\ UNCHANGED held
             /\ Grant(t)
          \/ /\ k \in rlocks[t] /\ CanUpgrade(lock[k])
             /\ lock' = [lock EXCEPT ![k] = Upgrade(@)]
             /\ wlocks' = [wlocks EXCEPT ![t] = @ \cup {k}]
             /\ rlocks' = [rlocks EXCEPT ![t] = @ \ {k}]
             /\ Grant(t)
          \/ /\ k \notin rlocks[t] \cup wlocks[t] /\ CanWriteLock(lock[k])
             /\ lock' = [lock EXCEPT ![k] = WriteLock(@)]
             /\ wlocks' = [wlocks EXCEPT ![t] = @ \cup {k}]
             /\ UNCHANGED rlocks
             /\ Grant(t)
          \/ /\ \/ k \in rlocks[t] /\ ~CanUpgrade(lock[k])
                \/ k \notin rlocks[t] \cup wlocks[t] /\ ~CanWriteLock(lock[k])
             /\ Refuse(t)

\* Mutation: the giant lock is released before the last lock is taken.
lockedBeforeLast(t) ==
    /\ pc[t] = "lock" /\ giant = t
    /\ pos[t] >= Len(Tasks(t))
    /\ tx_counter' = tx_pos[t] + 1
    /\ giant' = None
    /\ IF pos[t] > Len(Tasks(t))
       THEN pos' = [pos EXCEPT ![t] = 1] /\ Goto(t, "exec")
       ELSE UNCHANGED << pos, pc >>
    /\ UNCHANGED << end_after_tx1, quit, pre, held, records, tx_pos, history >>

\* Every lock is held: count the transaction and release the giant lock.
locked(t) ==
    /\ pc[t] = "lock" /\ pos[t] > Len(Tasks(t))
    /\ tx_counter' = tx_pos[t] + 1
    /\ giant' = None
    /\ pos' = [pos EXCEPT ![t] = 1]
    /\ Goto(t, "exec")
    /\ UNCHANGED << end_after_tx1, quit, pre, held, records, tx_pos, history >>

\* abort and commit release the read locks ...
readUnlock(t) ==
    /\ pc[t] \in {"abort", "unlock"}
    /\ \E k \in rlocks[t] :
        /\ lock' = [lock EXCEPT ![k] = ReadUnlock(@)]
        /\ rlocks' = [rlocks EXCEPT ![t] = @ \ {k}]
    /\ UNCHANGED << dispatch, wlocks, records, pc, tx_pos, pos, history >>

\* ... and then the write locks.
writeUnlock(t) ==
    /\ pc[t] \in {"abort", "unlock"}
    /\ rlocks[t] = {}
    /\ \E k \in wlocks[t] :
        /\ lock' = [lock EXCEPT ![k] = WriteUnlock(@)]
        /\ wlocks' = [wlocks EXCEPT ![t] = @ \ {k}]
    /\ UNCHANGED << dispatch, rlocks, records, pc, tx_pos, pos, history >>

aborted(t) ==
    /\ pc[t] = "abort"
    /\ rlocks[t] = {} /\ wlocks[t] = {}
    /\ Goto(t, "retry")
    /\ UNCHANGED << dispatch, held, records, tx_pos, pos, history >>

-----------------------------------------------------------------------------
(* Running the transaction, and commit *)

\* read and write: the value is loaded or stored in place.
execute(t) ==
    /\ pc[t] = "exec" /\ pos[t] <= Len(Tasks(t))
    /\ LET task == Tasks(t)[pos[t]]
           k == task.key
       IN \/ /\ task.op = "READ"
             /\ reads' = [reads EXCEPT ![t] = @ \cup {[key |-> k, ver |-> value[k]]}]
             /\ UNCHANGED records
          \/ /\ task.op = "WRITE"
             /\ value' = [value EXCEPT ![k] = tx_pos[t]]
             /\ order' = IF Place(order[k], tx_pos[t]) = 0
                         THEN [order EXCEPT ![k] = Append(@, tx_pos[t])]
                         ELSE order
             /\ UNCHANGED reads
    /\ pos' = [pos EXCEPT ![t] = @ + 1]
    /\ UNCHANGED << dispatch, held, pc, tx_pos, committed >>

\* commit: every task has run.
commit(t) ==
    /\ pc[t] = "exec" /\ pos[t] > Len(Tasks(t))
    /\ committed' = committed \cup {[id |-> tx_pos[t], reads |-> reads[t]]}
    /\ Goto(t, "unlock")
    /\ UNCHANGED << dispatch, held, records, tx_pos, pos, reads >>

\* The transaction is over; in the _end_after_tx1 variant so is the run, if it
\* was transaction 0.
finish(t) ==
    /\ pc[t] = "unlock"
    /\ rlocks[t] = {} /\ wlocks[t] = {}
    /\ reads' = [reads EXCEPT ![t] = {}]
    /\ quit' = (quit \/ (end_after_tx1 /\ tx_pos[t] = 0))
    /\ Goto(t, "point")
    /\ UNCHANGED << end_after_tx1, giant, tx_counter, pre, held, records,
                    tx_pos, pos, committed >>

-----------------------------------------------------------------------------
worker(t) ==
    \/ leave(t) \/ acquireGiant(t) \/ retry(t)
    \/ lockRead(t) \/ lockWrite(t) \/ locked(t) \/ aborted(t)
    \/ execute(t) \/ commit(t) \/ readUnlock(t) \/ writeUnlock(t) \/ finish(t)

\* main joins the workers: nothing is left to do.
Joined ==
    /\ \A t \in Thread : pc[t] = "done"
    /\ UNCHANGED vars

Next == Quit \/ (\E t \in Thread : worker(t)) \/ Joined

Spec == Init /\ [][Next]_vars

\* Every worker is scheduled; the timer may take as long as it likes.
FairSpec == Spec /\ \A t \in Thread : WF_vars(worker(t))

-----------------------------------------------------------------------------
(* Properties *)

\* A transaction that has been looked up commits, although it starts again as
\* long as a lock is refused and holds up every other worker meanwhile: those
\* that have its locks need nothing it has.  Only quit ends the attempts.
EveryTxCommits ==
    \A i \in TxId :
        (giant # None /\ tx_counter = i) ~> (quit \/ \E a \in committed : a.id = i)

=============================================================================
