-------------------------------- MODULE Silo --------------------------------
(***************************************************************************)
(* The Silo protocol of silo/: optimistic transactions that lock their     *)
(* write set in key order, load the global epoch, validate their read set  *)
(* against the TID words of the records, and install their writes with a   *)
(* commit TID.  Worker 0 (Leader) advances the global epoch between its    *)
(* transactions.                                                           *)
(*                                                                         *)
(* The grain of atomicity is one access to memory that other threads use:  *)
(* a load or store of a TID word, of an epoch, or of one word of a value.  *)
(* A compare-and-swap loop is its successful iteration.                    *)
(***************************************************************************)
EXTENDS Integers, FiniteSets, History

CONSTANTS
    Thread,          \* worker threads
    Leader,          \* the worker with thid 0
    Key,             \* keys of the table
    Word,            \* the parts memcpy moves a value in
    Procedure,       \* the operation sequences makeProcedure may return
    NoTxn,           \* the writer of the loaded database
    TidSpan,         \* number of values of the tid field (2^29 in the code)
    LockPolicy,      \* what lockWriteSet does at a locked record: "abort" under
                     \* NO_WAIT_LOCKING_IN_VALIDATION, "retry" under
                     \* NO_WAIT_OF_TICTOC, "spin" under neither
    WAL,             \* whether commits are logged
    LogFlush,        \* LOGSET_SIZE / 2: records a worker buffers before writing
    MaxTxn,          \* bound on the transactions a worker commits
    MaxEpoch         \* bound on the global epoch

Operation == [op : {"READ", "WRITE"}, key : Key]

ASSUME SiloAssumption ==
    /\ Leader \in Thread
    /\ Key \subseteq Nat
    /\ TidSpan \in Nat \ {0}
    /\ LockPolicy \in {"abort", "retry", "spin"}
    /\ WAL \in BOOLEAN
    /\ LogFlush \in Nat
    /\ MaxTxn \in Nat
    /\ MaxEpoch \in Nat
    /\ \A p \in Procedure : p \in Seq(Operation) /\ 0 < Len(p)

\* No transaction has the name of the writer of the loaded database.
ASSUME NoTxnAssumption == NoTxn \notin Thread \X (Nat \ {0})

VARIABLES
    quit,          \* set by main when the run time is over
    GlobalEpoch,
    ThLocalEpoch,  \* the epoch each worker published in its last validation
    tidword,       \* the TID word of each record
    val,           \* each record's value: the writer of each of its words
    pc,            \* where each worker is
    pro,           \* pro_set_, the procedure being run
    pos,           \* next operation of pro, then next entry of rset to validate
    rset,          \* read_set_
    wset,          \* write_set_, as the set of its keys
    held,          \* the keys of wset whose record this worker has locked
    expected,      \* the TID word a read started from
    todo,          \* the words the current memcpy has still to copy
    buf,           \* return_val_: the words read so far
    maxset,        \* the larger of max_wset_ and max_rset_
    epoch,         \* a global epoch loaded but not yet published
    mrctid,        \* mrctid_, the worker's most recently chosen TID
    logset,        \* log_set_, records not yet written
    logfile,       \* the worker's log file
    n,             \* how many transactions the worker has committed
    committed,     \* history: the committed transactions
    order          \* history: the writers of each record, oldest first

vars == << quit, GlobalEpoch, ThLocalEpoch, tidword, val, pc, pro, pos, rset,
           wset, held, expected, todo, buf, maxset, epoch, mrctid, logset,
           logfile, n, committed, order >>

\* What no step of the read phase, of validation or of the write phase touches.
control  == << quit, GlobalEpoch, n, pro >>
epochs   == << ThLocalEpoch, epoch >>
copying  == << expected, todo, buf >>
logs     == << logset, logfile >>
history  == << committed, order >>
txnsets  == << rset, wset, maxset, mrctid >>

\* A TID, the tid and epoch fields of Tidword.  TIDs compare as obj_ does:
\* the epoch is in the high bits.
Tid == [epoch : Nat, tid : 0 .. TidSpan - 1]
ZeroTid == [epoch |-> 0, tid |-> 0]
TidOf(w) == [epoch |-> w.epoch, tid |-> w.tid]
TidLess(a, b) == a.epoch < b.epoch \/ (a.epoch = b.epoch /\ a.tid < b.tid)
MaxTid(a, b) == IF TidLess(a, b) THEN b ELSE a
\* ++ on the 29 bit field: it wraps and does not carry into the epoch.
IncTid(a) == [a EXCEPT !.tid = (@ + 1) % TidSpan]

\* Sorted sets are walked from their smallest key.
IsFirst(k, S) == k \in S /\ \A j \in S : k <= j

TxnId(t) == << t, n[t] + 1 >>

Init ==
    /\ quit = FALSE
    /\ GlobalEpoch = 1
    /\ ThLocalEpoch = [t \in Thread |-> 0]
    /\ tidword = [k \in Key |-> [epoch |-> 1, tid |-> 0, lock |-> FALSE]]
    /\ val = [k \in Key |-> [w \in Word |-> NoTxn]]
    /\ pc = [t \in Thread |-> "idle"]
    /\ pro = [t \in Thread |-> << >>]
    /\ pos = [t \in Thread |-> 1]
    /\ rset = [t \in Thread |-> << >>]
    /\ wset = [t \in Thread |-> {}]
    /\ held = [t \in Thread |-> {}]
    /\ expected = [t \in Thread |-> ZeroTid]
    /\ todo = [t \in Thread |-> {}]
    /\ buf = [t \in Thread |-> [w \in Word |-> NoTxn]]
    /\ maxset = [t \in Thread |-> ZeroTid]
    /\ epoch = [t \in Thread |-> 0]
    /\ mrctid = [t \in Thread |-> ZeroTid]
    /\ logset = [t \in Thread |-> {}]
    /\ logfile = [t \in Thread |-> {}]
    /\ n = [t \in Thread |-> 0]
    /\ committed = {}
    /\ order = [k \in Key |-> << >>]

Goto(t, label) == pc' = [pc EXCEPT ![t] = label]

-----------------------------------------------------------------------------
(* The worker loop *)

\* main: the run time is over.
Quit ==
    /\ ~quit
    /\ quit' = TRUE
    /\ UNCHANGED << GlobalEpoch, ThLocalEpoch, tidword, val, pc, pro, pos,
                    held, copying, epoch, txnsets, logs, n, history >>

\* The head of the loop: stop, or draw the next procedure.
NextProcedure(t) ==
    /\ pc[t] = "idle"
    /\ \/ /\ quit
          /\ Goto(t, "done")
          /\ UNCHANGED pro
       \/ /\ ~quit
          /\ n[t] < MaxTxn
          /\ \E p \in Procedure : pro' = [pro EXCEPT ![t] = p]
          /\ Goto(t, "retry")
    /\ UNCHANGED << quit, GlobalEpoch, ThLocalEpoch, tidword, val, pos, held,
                    copying, epoch, txnsets, logs, n, history >>

\* Mutation: the epoch advances on the timer alone.
chkEpochLoadedNot == TRUE

\* Every other worker has published the current epoch.
chkEpochLoaded ==
    \A t \in Thread \ {Leader} : ThLocalEpoch[t] = GlobalEpoch

\* Worker 0, before each attempt: if the epoch timer has run out and every
\* worker has loaded the epoch, the next epoch begins.
leaderWork ==
    /\ pc[Leader] = "retry"
    /\ \/ UNCHANGED GlobalEpoch
       \/ /\ chkEpochLoaded
          /\ GlobalEpoch < MaxEpoch
          /\ GlobalEpoch' = GlobalEpoch + 1
    /\ Goto(Leader, "begin")
    /\ UNCHANGED << quit, ThLocalEpoch, tidword, val, pro, pos, held, copying,
                    epoch, txnsets, logs, n, history >>

\* Mutation: a retry does not look at quit.
beginRegardless(t) ==
    /\ pc[t] = IF t = Leader THEN "begin" ELSE "retry"
    /\ Goto(t, "exec")
    /\ pos' = [pos EXCEPT ![t] = 1]
    /\ maxset' = [maxset EXCEPT ![t] = ZeroTid]
    /\ UNCHANGED << quit, GlobalEpoch, ThLocalEpoch, tidword, val, pro, rset,
                    wset, held, copying, epoch, mrctid, logs, n, history >>

\* An attempt begins, unless the run is over.
begin(t) ==
    /\ pc[t] = IF t = Leader THEN "begin" ELSE "retry"
    /\ IF quit
       THEN Goto(t, "done") /\ UNCHANGED << pos, maxset >>
       ELSE /\ Goto(t, "exec")
            /\ pos' = [pos EXCEPT ![t] = 1]
            /\ maxset' = [maxset EXCEPT ![t] = ZeroTid]
    /\ UNCHANGED << quit, GlobalEpoch, ThLocalEpoch, tidword, val, pro, rset,
                    wset, held, copying, epoch, mrctid, logs, n, history >>

-----------------------------------------------------------------------------
(* The read phase: read() and write() *)

searchReadSet(t, k) == \E i \in DOMAIN rset[t] : rset[t][i].key = k
searchWriteSet(t, k) == k \in wset[t]

Executes(t, op) ==
    /\ pc[t] = "exec"
    /\ pro[t][pos[t]].op = op

OpKey(t) == pro[t][pos[t]].key

\* The next operation, or validation once the procedure has run.
Advance(t) ==
    IF pos[t] < Len(pro[t])
    THEN Goto(t, "exec") /\ pos' = [pos EXCEPT ![t] = @ + 1]
    ELSE Goto(t, "lock") /\ pos' = [pos EXCEPT ![t] = 1]

\* write: remember the key, once.
write(t) ==
    /\ Executes(t, "WRITE")
    /\ wset' = [wset EXCEPT ![t] = @ \cup {OpKey(t)}]
    /\ Advance(t)
    /\ UNCHANGED << control, epochs, tidword, val, rset, held, copying,
                    maxset, mrctid, logs, history >>

\* read: a key of the read or write set is served locally.
readLocal(t) ==
    /\ Executes(t, "READ")
    /\ searchReadSet(t, OpKey(t)) \/ searchWriteSet(t, OpKey(t))
    /\ Advance(t)
    /\ UNCHANGED << control, epochs, tidword, val, txnsets, held, copying,
                    logs, history >>

\* read (a): load the TID word, spinning while it is locked.
readTid(t) ==
    /\ Executes(t, "READ")
    /\ ~searchReadSet(t, OpKey(t)) /\ ~searchWriteSet(t, OpKey(t))
    /\ ~tidword[OpKey(t)].lock
    /\ expected' = [expected EXCEPT ![t] = TidOf(tidword[OpKey(t)])]
    /\ todo' = [todo EXCEPT ![t] = Word]
    /\ Goto(t, "copy")
    /\ UNCHANGED << control, epochs, tidword, val, pos, txnsets, held, buf,
                    logs, history >>

\* read (c): one step of the memcpy.
readCopy(t) ==
    /\ pc[t] = "copy"
    /\ \E w \in todo[t] :
        /\ buf' = [buf EXCEPT ![t][w] = val[OpKey(t)][w]]
        /\ todo' = [todo EXCEPT ![t] = @ \ {w}]
    /\ UNCHANGED << control, epochs, tidword, val, pc, pos, txnsets, held,
                    expected, logs, history >>

\* read (e): load the TID word again.  If it has not moved the read is done;
\* if it has, copy again under the new word, or spin if that one is locked.
readCheck(t) ==
    /\ pc[t] = "copy"
    /\ todo[t] = {}
    /\ LET check == tidword[OpKey(t)] IN
       IF ~check.lock /\ TidOf(check) = expected[t]
       THEN /\ rset' = [rset EXCEPT ![t] = Append(@,
                          [key |-> OpKey(t), tid |-> expected[t], val |-> buf[t]])]
            /\ Advance(t)
            /\ UNCHANGED << expected, todo >>
       ELSE /\ expected' = [expected EXCEPT ![t] = TidOf(check)]
            /\ IF check.lock
               THEN Goto(t, "exec") /\ UNCHANGED todo
               ELSE todo' = [todo EXCEPT ![t] = Word] /\ UNCHANGED pc
            /\ UNCHANGED << pos, rset >>
    /\ UNCHANGED << control, epochs, tidword, val, wset, held, buf, maxset,
                    mrctid, logs, history >>

-----------------------------------------------------------------------------
(* The validation phase *)

\* Mutation: the lock bit is stored without a compare-and-swap.
lockRecordBlindly(t) ==
    /\ pc[t] = "lock"
    /\ \E k \in wset[t] \ held[t] :
       /\ IsFirst(k, wset[t] \ held[t])
       /\ tidword' = [tidword EXCEPT ![k].lock = TRUE]
       /\ held' = [held EXCEPT ![t] = @ \cup {k}]
       /\ maxset' = [maxset EXCEPT ![t] = MaxTid(@, TidOf(tidword[k]))]
    /\ UNCHANGED << control, epochs, val, pc, pos, rset, wset, copying,
                    mrctid, logs, history >>

\* lockWriteSet: lock the next record in key order, if it is unlocked.
lockRecord(t) ==
    /\ pc[t] = "lock"
    /\ \E k \in wset[t] \ held[t] :
       /\ IsFirst(k, wset[t] \ held[t])
       /\ ~tidword[k].lock
       /\ tidword' = [tidword EXCEPT ![k].lock = TRUE]
       /\ held' = [held EXCEPT ![t] = @ \cup {k}]
       /\ maxset' = [maxset EXCEPT ![t] = MaxTid(@, TidOf(tidword[k]))]
    /\ UNCHANGED << control, epochs, val, pc, pos, rset, wset, copying,
                    mrctid, logs, history >>

\* lockWriteSet: the next record is locked, so release those already locked,
\* then abort or start locking again.  Under neither macro the loop has no
\* statement that loads the TID word again, and so no way out.
lockFailed(t) ==
    /\ pc[t] = "lock"
    /\ \E k \in wset[t] \ held[t] :
       IsFirst(k, wset[t] \ held[t]) /\ tidword[k].lock
    /\ Goto(t, CASE LockPolicy = "abort" -> "unlock"
                 [] LockPolicy = "retry" -> "relock"
                 [] LockPolicy = "spin"  -> "spin")
    /\ UNCHANGED << control, epochs, tidword, val, pos, txnsets, held, copying,
                    logs, history >>

\* All locks are held: load the global epoch ...
loadEpoch(t) ==
    /\ pc[t] = "lock"
    /\ wset[t] = held[t]
    /\ epoch' = [epoch EXCEPT ![t] = GlobalEpoch]
    /\ Goto(t, "epoch")
    /\ UNCHANGED << control, ThLocalEpoch, tidword, val, pos, txnsets, held,
                    copying, logs, history >>

\* ... and publish it.
storeEpoch(t) ==
    /\ pc[t] = "epoch"
    /\ ThLocalEpoch' = [ThLocalEpoch EXCEPT ![t] = epoch[t]]
    /\ Goto(t, "validate")
    /\ UNCHANGED << control, epoch, tidword, val, pos, txnsets, held, copying,
                    logs, history >>

\* Mutation: a record locked by another worker passes validation.
validateReadTidOnly(t) ==
    /\ pc[t] = "validate"
    /\ pos[t] \in DOMAIN rset[t]
    /\ LET e == rset[t][pos[t]]
           check == tidword[e.key]
       IN IF TidOf(check) # e.tid
          THEN Goto(t, "unlock") /\ UNCHANGED << pos, maxset >>
          ELSE /\ pos' = [pos EXCEPT ![t] = @ + 1]
               /\ maxset' = [maxset EXCEPT ![t] = MaxTid(@, TidOf(check))]
               /\ UNCHANGED pc
    /\ UNCHANGED << control, epochs, tidword, val, rset, wset, mrctid, held,
                    copying, logs, history >>

\* Validate the next entry of the read set: its TID has not moved, and nobody
\* else has the record locked.
validateRead(t) ==
    /\ pc[t] = "validate"
    /\ pos[t] \in DOMAIN rset[t]
    /\ LET e == rset[t][pos[t]]
           check == tidword[e.key]
       IN IF TidOf(check) # e.tid \/ (check.lock /\ ~searchWriteSet(t, e.key))
          THEN Goto(t, "unlock") /\ UNCHANGED << pos, maxset >>
          ELSE /\ pos' = [pos EXCEPT ![t] = @ + 1]
               /\ maxset' = [maxset EXCEPT ![t] = MaxTid(@, TidOf(check))]
               /\ UNCHANGED pc
    /\ UNCHANGED << control, epochs, tidword, val, rset, wset, mrctid, held,
                    copying, logs, history >>

\* unlockWriteSet: release the first record still held.
unlockRecord(t) ==
    /\ pc[t] \in {"unlock", "relock"}
    /\ \E k \in held[t] :
       /\ IsFirst(k, held[t])
       /\ tidword' = [tidword EXCEPT ![k].lock = FALSE]
       /\ held' = [held EXCEPT ![t] = @ \ {k}]
    /\ UNCHANGED << control, epochs, val, pc, pos, txnsets, copying, logs,
                    history >>

\* goto retry in lockWriteSet.
relock(t) ==
    /\ pc[t] = "relock"
    /\ held[t] = {}
    /\ Goto(t, "lock")
    /\ UNCHANGED << control, epochs, tidword, val, pos, txnsets, held, copying,
                    logs, history >>

\* abort: forget the sets and retry the same procedure.
abort(t) ==
    /\ pc[t] = "unlock"
    /\ held[t] = {}
    /\ rset' = [rset EXCEPT ![t] = << >>]
    /\ wset' = [wset EXCEPT ![t] = {}]
    /\ Goto(t, "retry")
    /\ UNCHANGED << control, epochs, tidword, val, pos, maxset, mrctid, held,
                    copying, logs, history >>

-----------------------------------------------------------------------------
(* The write phase *)

\* Mutation: the epoch is that of the write phase, not of the validation.
commitTidLate(t) ==
    MaxTid(MaxTid(IncTid(maxset[t]), IncTid(mrctid[t])),
           [epoch |-> GlobalEpoch, tid |-> 0])

\* Mutation: the worker's last TID is not taken into account.
commitTidForgetful(t) ==
    MaxTid(IncTid(maxset[t]), [epoch |-> ThLocalEpoch[t], tid |-> 0])

\* The commit TID: above every TID read or overwritten, above the worker's
\* last one, and in the epoch the worker published.
commitTid(t) ==
    MaxTid(MaxTid(IncTid(maxset[t]), IncTid(mrctid[t])),
           [epoch |-> ThLocalEpoch[t], tid |-> 0])

\* Mutation: the records of the commit that fills the buffer are dropped.
walLosing(t, ctid) ==
    LET full == logset[t] \cup
                {[id |-> TxnId(t), tid |-> ctid, key |-> k] : k \in wset[t]}
    IN IF Cardinality(full) > LogFlush
       THEN /\ logfile' = [logfile EXCEPT ![t] = @ \cup logset[t]]
            /\ logset' = [logset EXCEPT ![t] = {}]
       ELSE /\ logset' = [logset EXCEPT ![t] = full]
            /\ UNCHANGED logfile

\* wal: buffer a log record per write, and write the buffer to the log file
\* once more than LogFlush records have piled up.
wal(t, ctid) ==
    LET full == logset[t] \cup
                {[id |-> TxnId(t), tid |-> ctid, key |-> k] : k \in wset[t]}
    IN IF Cardinality(full) > LogFlush
       THEN /\ logfile' = [logfile EXCEPT ![t] = @ \cup full]
            /\ logset' = [logset EXCEPT ![t] = {}]
       ELSE /\ logset' = [logset EXCEPT ![t] = full]
            /\ UNCHANGED logfile

\* What the transaction read, word by word: the writers of the values.
ReadVersions(t) ==
    {[key |-> rset[t][i].key, ver |-> rset[t][i].val[w]] :
        i \in DOMAIN rset[t], w \in Word}

\* Every read is valid: the transaction commits.  Choose its TID and log it.
commit(t) ==
    /\ pc[t] = "validate"
    /\ pos[t] \notin DOMAIN rset[t]
    /\ mrctid' = [mrctid EXCEPT ![t] = commitTid(t)]
    /\ IF WAL THEN wal(t, commitTid(t)) ELSE UNCHANGED logs
    /\ committed' = committed \cup
           {[id |-> TxnId(t), reads |-> ReadVersions(t), tid |-> commitTid(t)]}
    /\ todo' = [todo EXCEPT ![t] = Word]
    /\ Goto(t, "install")
    /\ UNCHANGED << control, epochs, tidword, val, pos, rset, wset, maxset,
                    held, expected, buf, order >>

\* One step of the memcpy into the first record still to be written.
installWord(t) ==
    /\ pc[t] = "install"
    /\ \E k \in held[t], w \in todo[t] :
        /\ IsFirst(k, held[t])
        /\ val' = [val EXCEPT ![k][w] = TxnId(t)]
        /\ todo' = [todo EXCEPT ![t] = @ \ {w}]
    /\ UNCHANGED << control, epochs, tidword, pc, pos, txnsets, held, expected,
                    buf, logs, history >>

\* Mutation: the TID is published before the value has been copied.
installTidEarly(t) ==
    /\ pc[t] = "install"
    /\ \E k \in held[t] :
       /\ IsFirst(k, held[t])
       /\ tidword' = [tidword EXCEPT ![k] = [epoch |-> mrctid[t].epoch,
                                             tid |-> mrctid[t].tid,
                                             lock |-> FALSE]]
       /\ held' = [held EXCEPT ![t] = @ \ {k}]
       /\ order' = [order EXCEPT ![k] = Append(@, TxnId(t))]
    /\ todo' = [todo EXCEPT ![t] = Word]
    /\ UNCHANGED << control, epochs, val, pc, pos, txnsets, expected, buf, logs,
                    committed >>

\* Mutation: the lock bit of a validated TID word stays in the commit TID.
installTidLocked(t) ==
    /\ pc[t] = "install"
    /\ todo[t] = {}
    /\ \E k \in held[t] :
       /\ IsFirst(k, held[t])
       /\ tidword' = [tidword EXCEPT ![k] = [epoch |-> mrctid[t].epoch,
                                             tid |-> mrctid[t].tid,
                                             lock |-> TRUE]]
       /\ held' = [held EXCEPT ![t] = @ \ {k}]
       /\ order' = [order EXCEPT ![k] = Append(@, TxnId(t))]
    /\ todo' = [todo EXCEPT ![t] = Word]
    /\ UNCHANGED << control, epochs, val, pc, pos, txnsets, expected, buf, logs,
                    committed >>

\* Store the commit TID in its TID word: this publishes and unlocks it.
installTid(t) ==
    /\ pc[t] = "install"
    /\ todo[t] = {}
    /\ \E k \in held[t] :
       /\ IsFirst(k, held[t])
       /\ tidword' = [tidword EXCEPT ![k] = [epoch |-> mrctid[t].epoch,
                                             tid |-> mrctid[t].tid,
                                             lock |-> FALSE]]
       /\ held' = [held EXCEPT ![t] = @ \ {k}]
       /\ order' = [order EXCEPT ![k] = Append(@, TxnId(t))]
    /\ todo' = [todo EXCEPT ![t] = Word]
    /\ UNCHANGED << control, epochs, val, pc, pos, txnsets, expected, buf, logs,
                    committed >>

\* The end of the write phase.
finish(t) ==
    /\ pc[t] = "install"
    /\ held[t] = {}
    /\ rset' = [rset EXCEPT ![t] = << >>]
    /\ wset' = [wset EXCEPT ![t] = {}]
    /\ n' = [n EXCEPT ![t] = @ + 1]
    /\ Goto(t, "idle")
    /\ UNCHANGED << quit, GlobalEpoch, epochs, tidword, val, pro, pos, maxset,
                    mrctid, held, copying, logs, history >>

-----------------------------------------------------------------------------
worker(t) ==
    \/ NextProcedure(t)
    \/ t = Leader /\ leaderWork
    \/ begin(t)
    \/ write(t) \/ readLocal(t) \/ readTid(t) \/ readCopy(t) \/ readCheck(t)
    \/ lockRecord(t) \/ lockFailed(t) \/ loadEpoch(t) \/ storeEpoch(t)
    \/ validateRead(t) \/ unlockRecord(t) \/ relock(t) \/ abort(t)
    \/ commit(t) \/ installWord(t) \/ installTid(t) \/ finish(t)

\* main joins the workers: nothing is left to do.
Joined ==
    /\ \A t \in Thread : pc[t] = "done"
    /\ UNCHANGED vars

Next == Quit \/ (\E t \in Thread : worker(t)) \/ Joined

Spec == Init /\ [][Next]_vars

\* Every thread is scheduled, and main sets quit when the run time is over.
Fairness == WF_vars(Quit) /\ \A t \in Thread : WF_vars(worker(t))

FairSpec == Spec /\ Fairness

-----------------------------------------------------------------------------
(* Properties *)

Label == {"idle", "retry", "begin", "exec", "copy", "lock", "relock", "spin",
          "epoch", "validate", "unlock", "install", "done"}
Txn == (Thread \X (Nat \ {0})) \cup {NoTxn}
ReadElement == [key : Key, tid : Tid, val : [Word -> Txn]]
LogRecord == [id : Txn, tid : Tid, key : Key]

\* The sets the variables range over; the tid field stays within its width.
Types ==
    /\ quit \in BOOLEAN
    /\ GlobalEpoch \in Nat
    /\ ThLocalEpoch \in [Thread -> Nat]
    /\ tidword \in [Key -> [epoch : Nat, tid : 0 .. TidSpan - 1, lock : BOOLEAN]]
    /\ val \in [Key -> [Word -> Txn]]
    /\ pc \in [Thread -> Label]
    /\ pro \in [Thread -> Seq(Operation)]
    /\ pos \in [Thread -> Nat]
    /\ rset \in [Thread -> Seq(ReadElement)]
    /\ wset \in [Thread -> SUBSET Key]
    /\ held \in [Thread -> SUBSET Key]
    /\ expected \in [Thread -> Tid]
    /\ todo \in [Thread -> SUBSET Word]
    /\ buf \in [Thread -> [Word -> Txn]]
    /\ maxset \in [Thread -> Tid]
    /\ epoch \in [Thread -> Nat]
    /\ mrctid \in [Thread -> Tid]
    /\ logset \in [Thread -> SUBSET LogRecord]
    /\ logfile \in [Thread -> SUBSET LogRecord]
    /\ n \in [Thread -> Nat]
    /\ committed \subseteq [id : Txn, tid : Tid,
                            reads : SUBSET [key : Key, ver : Txn]]
    /\ order \in [Key -> Seq(Txn)]

\* A worker that runs its procedure is at one of its operations.
Running ==
    \A t \in Thread :
        /\ pc[t] \notin {"idle", "done"} => 0 < Len(pro[t])
        /\ pc[t] \in {"exec", "copy"} => pos[t] \in 1 .. Len(pro[t])

\* Every variable is in its type, and every index within its sequence, so no
\* access of a step is out of bounds.
TypeOK == Types /\ Running

\* A record is locked exactly while one worker holds it as part of its write
\* set, and a worker that is not validating or installing holds none: no lock
\* is lost, stolen or leaked on any path out of lockWriteSet, validationPhase
\* and writePhase.
LockOwnership ==
    /\ \A k \in Key : tidword[k].lock <=> \E t \in Thread : k \in held[t]
    /\ \A t, u \in Thread : t # u => held[t] \cap held[u] = {}
    /\ \A t \in Thread : held[t] \subseteq wset[t]
    /\ \A t \in Thread : pc[t] \in {"idle", "retry", "begin", "exec", "copy", "done"}
                            => held[t] = {}

\* The global epoch is at most one ahead of what any worker but the leader has
\* published (chkEpochLoaded), so commits of at most two epochs are in flight;
\* and, (C) of writePhase, a commit TID is in the epoch its worker published
\* whatever TIDs it read, overwrote or chose before.
EpochWindow ==
    /\ \A t \in Thread : ThLocalEpoch[t] <= GlobalEpoch
    /\ \A t \in Thread \ {Leader} : GlobalEpoch <= ThLocalEpoch[t] + 1
    /\ \A t \in Thread : pc[t] = "install" => mrctid[t].epoch = ThLocalEpoch[t]

\* The committed transactions have an equivalent serial execution; a read that
\* mixes the words of two versions, or sees a write that never commits, has none.
SerializableCommits == Serializable(committed, order)

\* The epoch boundaries are consistent with that execution: a transaction never
\* has to come before one of an earlier epoch (why the epoch is loaded after
\* locking and before validation).
EpochOrder ==
    \A a, b \in committed : MustPrecede(order, a, b) => a.tid.epoch <= b.tid.epoch

\* A commit TID is larger than that of every version it overwrites, (a) of
\* writePhase, and than those its worker chose before, (b): replaying logged
\* writes by TID rebuilds the table.
TidOrder ==
    \A a, b \in committed :
        \/ Overwrites(order, a, b)
        \/ a.id[1] = b.id[1] /\ a.id[2] < b.id[2]
        => TidLess(a.tid, b.tid)

\* Under WAL a transaction's log records reach the file together, and no version
\* is in the table whose record is in neither the buffer nor the file.
LogWhole ==
    WAL => /\ \A t \in Thread, r \in UNION {logfile[u] : u \in Thread} :
                 r.id \notin {s.id : s \in logset[t]}
           /\ \A k \in Key : \A i \in DOMAIN order[k] :
                 \E t \in Thread : \E r \in logset[t] \cup logfile[t] :
                    r.id = order[k][i] /\ r.key = k

\* A locked record is eventually unlocked: no worker waits while it holds one.
LocksReleased == \A k \in Key : tidword[k].lock ~> ~tidword[k].lock

\* Once main sets quit every worker leaves its loop, whatever it is spinning on.
Shutdown == quit ~> (\A t \in Thread : pc[t] = "done")

\* Phase 1 of validation, "lock write_set_ sorted", ends: with the whole write
\* set locked or with the attempt given up.
Phase1Ends ==
    \A t \in Thread : pc[t] = "lock" ~> pc[t] \notin {"lock", "relock", "spin"}
=============================================================================
