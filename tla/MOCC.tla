-------------------------------- MODULE MOCC --------------------------------
(***************************************************************************)
(* The protocol of mocc/, built with RWLOCK as its CMakeLists.txt says:    *)
(* Silo's validation, and locks that a worker also takes while it reads    *)
(* when a record is hot or made its last attempt fail.  Locks are taken in *)
(* key order: before it waits for a record a worker releases every lock it *)
(* holds on that record and those after it.                                *)
(*                                                                         *)
(* The grain of atomicity is one access to memory that other threads use.  *)
(* The temperatures only choose between locking and validating, so the     *)
(* accesses construct_RLL makes to them are one step.                      *)
(***************************************************************************)
EXTENDS RWLock, FiniteSets, History

CONSTANTS
    Thread,          \* worker threads
    Leader,          \* the worker with thid 0
    Key,             \* keys of the table
    Page,            \* the entry of EpotempAry each key belongs to
    Procedure,       \* the operation sequences makeProcedure may return
    NoTxn,           \* the writer of the loaded database
    TEMP_THRESHOLD,  \* the temperature from which a record is locked
    TEMP_MAX,        \* the highest temperature
    TidSpan,         \* number of values of the tid field (2^32 in the code)
    MaxTxn,          \* bound on the transactions a worker commits
    MaxEpoch         \* bound on the global epoch

Operation == [op : {"READ", "WRITE", "READ_MODIFY_WRITE"}, key : Key]

ASSUME MOCCAssumption ==
    /\ Leader \in Thread /\ IsFiniteSet(Thread)
    /\ Key \subseteq Nat /\ Key # {}
    /\ DOMAIN Page = Key
    /\ TEMP_THRESHOLD \in Nat /\ TEMP_MAX \in Nat
    /\ TidSpan \in Nat \ {0}
    /\ MaxTxn \in Nat /\ MaxEpoch \in Nat
    /\ \A p \in Procedure : p \in Seq(Operation) /\ 0 < Len(p)

\* No transaction has the name of the writer of the loaded database.
ASSUME NoTxnAssumption == NoTxn \notin Thread \X (Nat \ {0})

VARIABLES
    quit,          \* set by main when the run time is over
    GlobalEpoch,
    ThLocalEpoch,  \* the epoch each worker stored in its last commit()
    EpotempAry,    \* the temperature of each page and the epoch it is of
    tidword,       \* the TID of each record
    rwlock,        \* the counter of each record's lock
    val,           \* each record's value: the transaction that stored it
    pc,            \* where each worker is
    pro,           \* pro_set_, the procedure being run
    pos,           \* next operation of pro, then next entry of rset to validate
    rset,          \* read_set_
    wset,          \* write_set_, as the set of its keys
    CLL,           \* current lock list, [key, mode] with mode TRUE for a writer
    RLL,           \* retrospective lock list, of the same kind
    want,          \* the parameters of the call of lock() in progress
    locking,       \* whether the read in progress holds the record's lock
    expected,      \* the TID word the read in progress started from
    buf,           \* return_val_
    todo,          \* the keys of wset that commit or writePhase has yet to visit
    maxset,        \* the larger of max_wset_ and max_rset_
    epoch,         \* a global epoch loaded but not yet stored
    mrctid,        \* mrctid_, the worker's most recently chosen TID
    n,             \* how many transactions the worker has committed
    committed,     \* history: the committed transactions
    order          \* history: the writers of each record, oldest first

records  == << tidword, rwlock, val >>
control  == << quit, GlobalEpoch, n, pro >>
epochs   == << ThLocalEpoch, epoch >>
sets     == << rset, wset >>
lists    == << CLL, RLL >>
reading  == << locking, expected, buf >>
tids     == << maxset, mrctid >>
history  == << committed, order >>
vars == << records, control, epochs, sets, lists, reading, tids, history,
           EpotempAry, pc, pos, want, todo >>

Tid == [epoch : Nat, tid : 0 .. TidSpan - 1]
ZeroTid == [epoch |-> 0, tid |-> 0]
TidLess(a, b) == a.epoch < b.epoch \/ (a.epoch = b.epoch /\ a.tid < b.tid)
MaxTid(a, b) == IF TidLess(a, b) THEN b ELSE a
IncTid(a) == [a EXCEPT !.tid = (@ + 1) % TidSpan]

TxnId(t) == << t, n[t] + 1 >>

\* Sorted sets are walked from their smallest key.
First(S) == CHOOSE k \in S : \A j \in S : k <= j
KeysOf(list) == {e.key : e \in list}
EntryOf(list, k) == CHOOSE e \in list : e.key = k

Init ==
    /\ quit = FALSE
    /\ GlobalEpoch = 1
    /\ ThLocalEpoch = [t \in Thread |-> 0]
    /\ EpotempAry = [p \in {Page[k] : k \in Key} |-> [temp |-> 0, epoch |-> 1]]
    /\ tidword = [k \in Key |-> [epoch |-> 1, tid |-> 0]]
    /\ rwlock = [k \in Key |-> Free]
    /\ val = [k \in Key |-> NoTxn]
    /\ pc = [t \in Thread |-> "idle"]
    /\ pro = [t \in Thread |-> << >>]
    /\ pos = [t \in Thread |-> 1]
    /\ rset = [t \in Thread |-> << >>]
    /\ wset = [t \in Thread |-> {}]
    /\ CLL = [t \in Thread |-> {}]
    /\ RLL = [t \in Thread |-> {}]
    /\ want = [t \in Thread |-> [key |-> First(Key), mode |-> FALSE]]
    /\ locking = [t \in Thread |-> FALSE]
    /\ expected = [t \in Thread |-> ZeroTid]
    /\ buf = [t \in Thread |-> NoTxn]
    /\ todo = [t \in Thread |-> {}]
    /\ maxset = [t \in Thread |-> ZeroTid]
    /\ epoch = [t \in Thread |-> 0]
    /\ mrctid = [t \in Thread |-> ZeroTid]
    /\ n = [t \in Thread |-> 0]
    /\ committed = {}
    /\ order = [k \in Key |-> << >>]

Goto(t, label) == pc' = [pc EXCEPT ![t] = label]

-----------------------------------------------------------------------------
(* The worker loop *)

\* main: the run time is over.
Quit ==
    /\ ~quit
    /\ quit' = TRUE
    /\ UNCHANGED << GlobalEpoch, n, pro, records, epochs, sets, lists, reading,
                    tids, history, EpotempAry, pc, pos, want, todo >>

\* The head of the loop: stop, or draw the next procedure.
NextProcedure(t) ==
    /\ pc[t] = "idle"
    /\ \/ quit /\ Goto(t, "done") /\ UNCHANGED pro
       \/ /\ ~quit
          /\ n[t] < MaxTxn
          /\ \E p \in Procedure : pro' = [pro EXCEPT ![t] = p]
          /\ Goto(t, "retry")
    /\ UNCHANGED << quit, GlobalEpoch, n, records, epochs, sets, lists, reading,
                    tids, history, EpotempAry, pos, want, todo >>

\* Every other worker has stored the current epoch.
chkEpochLoaded ==
    \A t \in Thread \ {Leader} : ThLocalEpoch[t] = GlobalEpoch

\* Worker 0, before an attempt, once the epoch timer has run out.
leaderWork ==
    /\ pc[Leader] = "retry"
    /\ chkEpochLoaded
    /\ GlobalEpoch < MaxEpoch
    /\ GlobalEpoch' = GlobalEpoch + 1
    /\ UNCHANGED << quit, n, pro, records, epochs, sets, lists, reading, tids,
                    history, EpotempAry, pc, pos, want, todo >>

\* An attempt begins, unless the run is over.
begin(t) ==
    /\ pc[t] = "retry"
    /\ IF quit
       THEN Goto(t, "done") /\ UNCHANGED << pos, maxset >>
       ELSE /\ Goto(t, "exec")
            /\ pos' = [pos EXCEPT ![t] = 1]
            /\ maxset' = [maxset EXCEPT ![t] = ZeroTid]
    /\ UNCHANGED << control, records, epochs, sets, lists, reading, mrctid,
                    history, EpotempAry, want, todo >>

-----------------------------------------------------------------------------
(* The operations: read(), write() and read_write() *)

searchReadSet(t, k) == \E i \in DOMAIN rset[t] : rset[t][i].key = k
searchWriteSet(t, k) == k \in wset[t]
searchRLL(t, k) == k \in KeysOf(RLL[t])
Hot(k) == EpotempAry[Page[k]].temp >= TEMP_THRESHOLD

Op(t) == pro[t][pos[t]].op
OpKey(t) == pro[t][pos[t]].key

\* The next operation, or commit() once the procedure has run with the write
\* set w.
Advance(t, w) ==
    IF pos[t] < Len(pro[t])
    THEN Goto(t, "exec") /\ pos' = [pos EXCEPT ![t] = @ + 1] /\ UNCHANGED todo
    ELSE /\ Goto(t, "commit")
         /\ pos' = [pos EXCEPT ![t] = 1]
         /\ todo' = [todo EXCEPT ![t] = w]

\* The write set once the operation is done, with the key unless it only reads.
Written(t) == IF Op(t) = "READ" THEN wset[t] ELSE wset[t] \cup {OpKey(t)}

\* What needs no access to the record: an operation on a key of the write set,
\* a read of a key of the read set, read_write of such a key, and a write that
\* takes no lock.
operateLocally(t) ==
    /\ pc[t] = "exec"
    /\ LET k == OpKey(t) IN
       \/ searchWriteSet(t, k)
       \/ searchReadSet(t, k) /\ Op(t) # "WRITE"
       \/ Op(t) = "WRITE" /\ ~Hot(k) /\ ~searchRLL(t, k)
    /\ wset' = [wset EXCEPT ![t] = Written(t)]
    /\ Advance(t, Written(t))
    /\ UNCHANGED << control, records, epochs, rset, lists, reading, tids,
                    history, EpotempAry, want >>

\* A record that is hot, or in the retrospective lock list, is locked: in the
\* list's mode for a read, else for writing.
operateLocking(t) ==
    /\ pc[t] = "exec"
    /\ LET k == OpKey(t) IN
       /\ ~searchWriteSet(t, k)
       /\ Op(t) = "WRITE" \/ ~searchReadSet(t, k)
       /\ Hot(k) \/ searchRLL(t, k)
       /\ want' = [want EXCEPT ![t] =
             [key |-> k,
              mode |-> \/ Op(t) = "WRITE"
                       \/ searchRLL(t, k) /\ EntryOf(RLL[t], k).mode
                       \/ ~searchRLL(t, k) /\ Op(t) = "READ_MODIFY_WRITE"]]
    /\ locking' = [locking EXCEPT ![t] = TRUE]
    /\ Goto(t, "lock")
    /\ UNCHANGED << control, records, epochs, sets, lists, expected, buf, tids,
                    history, EpotempAry, pos, todo >>

\* Any other read is optimistic.
operateOptimistically(t) ==
    /\ pc[t] = "exec"
    /\ Op(t) # "WRITE"
    /\ LET k == OpKey(t) IN
       ~searchWriteSet(t, k) /\ ~searchReadSet(t, k) /\ ~Hot(k) /\ ~searchRLL(t, k)
    /\ locking' = [locking EXCEPT ![t] = FALSE]
    /\ Goto(t, "tid")
    /\ UNCHANGED << control, records, epochs, sets, lists, expected, buf, tids,
                    history, EpotempAry, pos, want, todo >>

\* Load the TID word the read starts from.
readTid(t) ==
    /\ pc[t] = "tid"
    /\ expected' = [expected EXCEPT ![t] = tidword[OpKey(t)]]
    /\ Goto(t, IF locking[t] THEN "copy" ELSE "wait")
    /\ UNCHANGED << control, records, epochs, sets, lists, locking, buf, tids,
                    history, EpotempAry, pos, want, todo >>

\* The end of the list of locks, which the code looks at without knowing that
\* there is one: with an empty list it is what lies before the vector.
BehindOf(t, k) ==
    IF CLL[t] = {} THEN BOOLEAN ELSE {\E e \in CLL[t] : k < e.key}

\* An optimistic read looks at the lock.  While a writer has it, a worker that
\* holds a lock on a later record gives up, and others load the TID word again.
readWait(t) ==
    /\ pc[t] = "wait"
    /\ \/ /\ rwlock[OpKey(t)] # WriteLocked
          /\ Goto(t, "copy")
          /\ UNCHANGED << sets, expected >>
       \/ /\ rwlock[OpKey(t)] = WriteLocked
          /\ TRUE \in BehindOf(t, OpKey(t))
          /\ rset' = [rset EXCEPT ![t] = Append(@,
                [key |-> OpKey(t), tid |-> ZeroTid, val |-> NoTxn, failed |-> TRUE])]
          /\ wset' = [wset EXCEPT ![t] = Written(t)]
          /\ Goto(t, "abort")
          /\ UNCHANGED expected
       \/ /\ rwlock[OpKey(t)] = WriteLocked
          /\ FALSE \in BehindOf(t, OpKey(t))
          /\ expected' = [expected EXCEPT ![t] = tidword[OpKey(t)]]
          /\ UNCHANGED << pc, sets >>
    /\ UNCHANGED << control, records, epochs, lists, locking, buf, tids,
                    history, EpotempAry, pos, want, todo >>

\* memcpy of the value.
readCopy(t) ==
    /\ pc[t] = "copy"
    /\ buf' = [buf EXCEPT ![t] = val[OpKey(t)]]
    /\ Goto(t, "check")
    /\ UNCHANGED << control, records, epochs, sets, lists, locking, expected,
                    tids, history, EpotempAry, pos, want, todo >>

\* The read is done if it holds the lock or the TID word has not moved; if the
\* word has moved, look at the lock and copy again.
readCheck(t) ==
    /\ pc[t] = "check"
    /\ LET k == OpKey(t) IN
       IF locking[t] \/ tidword[k] = expected[t]
       THEN /\ rset' = [rset EXCEPT ![t] = Append(@,
                 [key |-> k, tid |-> expected[t], val |-> buf[t], failed |-> FALSE])]
            /\ wset' = [wset EXCEPT ![t] = Written(t)]
            /\ Advance(t, Written(t))
            /\ UNCHANGED expected
       ELSE /\ expected' = [expected EXCEPT ![t] = tidword[k]]
            /\ Goto(t, "wait")
            /\ UNCHANGED << sets, pos, todo >>
    /\ UNCHANGED << control, records, epochs, lists, locking, buf, tids,
                    history, EpotempAry, want >>

-----------------------------------------------------------------------------
(* lock(): the RLL loop of its canonical mode takes no lock, because the keys *)
(* it skips are those up to a threshold that is never below the key wanted.   *)

\* The lock is already held in a mode that is strong enough.
Covered(t) ==
    \E e \in CLL[t] : e.key = want[t].key /\ (want[t].mode => e.mode)

\* Mutation: only a lock on the very record is released.
ViolationsHere(t) == {e \in CLL[t] : e.key = want[t].key}

\* The entries out of canonical order.
Violations(t) == {e \in CLL[t] : e.key >= want[t].key}

CanLock(mode, c) == IF mode THEN CanWriteLock(c) ELSE CanReadLock(c)
Lock(mode, c) == IF mode THEN WriteLock(c) ELSE ReadLock(c)
Unlock(mode, c) == IF mode THEN WriteUnlock(c) ELSE ReadUnlock(c)

\* Where lock() returns to: commit() visits the next key of its write set and
\* keeps the largest TID; write() enters the key into the write set; a read
\* goes on to load the TID word.
Return(t) ==
    IF todo[t] # {}
    THEN /\ todo' = [todo EXCEPT ![t] = @ \ {want[t].key}]
         /\ maxset' = [maxset EXCEPT ![t] = MaxTid(@, tidword[want[t].key])]
         /\ Goto(t, "commit")
         /\ UNCHANGED << pos, wset >>
    ELSE /\ IF Op(t) = "WRITE"
            THEN wset' = [wset EXCEPT ![t] = Written(t)] /\ Advance(t, Written(t))
            ELSE Goto(t, "tid") /\ UNCHANGED << wset, pos, todo >>
         /\ UNCHANGED maxset

\* The list has the lock: nothing to do.
lockHeld(t) ==
    /\ pc[t] = "lock"
    /\ Covered(t)
    /\ Return(t)
    /\ UNCHANGED << control, records, epochs, rset, lists, reading, mrctid,
                    history, EpotempAry, want >>

\* Not in canonical mode: release the locks on this record and later ones.
lockRestore(t) ==
    /\ pc[t] = "lock"
    /\ ~Covered(t)
    /\ Violations(t) # {}
    /\ LET k == First(KeysOf(Violations(t)))
           e == EntryOf(CLL[t], k)
       IN /\ rwlock' = [rwlock EXCEPT ![k] = Unlock(e.mode, @)]
          /\ CLL' = [CLL EXCEPT ![t] = @ \ {e}]
    /\ UNCHANGED << control, tidword, val, epochs, sets, RLL, reading, tids,
                    history, EpotempAry, pc, pos, want, todo >>

\* Wait for the lock and take it.
lockTake(t) ==
    /\ pc[t] = "lock"
    /\ ~Covered(t)
    /\ Violations(t) = {}
    /\ CanLock(want[t].mode, rwlock[want[t].key])
    /\ rwlock' = [rwlock EXCEPT ![want[t].key] = Lock(want[t].mode, @)]
    /\ CLL' = [CLL EXCEPT ![t] = @ \cup {want[t]}]
    /\ Return(t)
    /\ UNCHANGED << control, tidword, val, epochs, rset, RLL, reading, mrctid,
                    history, EpotempAry, want >>

-----------------------------------------------------------------------------
(* commit() *)

\* Lock the next record of the write set in key order ...
commitLock(t) ==
    /\ pc[t] = "commit"
    /\ todo[t] # {}
    /\ want' = [want EXCEPT ![t] = [key |-> First(todo[t]), mode |-> TRUE]]
    /\ Goto(t, "lock")
    /\ UNCHANGED << control, records, epochs, sets, lists, reading, tids,
                    history, EpotempAry, pos, todo >>

\* ... then load the global epoch ...
loadEpoch(t) ==
    /\ pc[t] = "commit"
    /\ todo[t] = {}
    /\ epoch' = [epoch EXCEPT ![t] = GlobalEpoch]
    /\ Goto(t, "epoch")
    /\ UNCHANGED << control, records, ThLocalEpoch, sets, lists, reading, tids,
                    history, EpotempAry, pos, want, todo >>

\* ... and store it.
storeEpoch(t) ==
    /\ pc[t] = "epoch"
    /\ ThLocalEpoch' = [ThLocalEpoch EXCEPT ![t] = epoch[t]]
    /\ Goto(t, "validate")
    /\ UNCHANGED << control, records, epoch, sets, lists, reading, tids,
                    history, EpotempAry, pos, want, todo >>

\* The entry of the read set fails its verification.
Fail(t) ==
    /\ rset' = [rset EXCEPT ![t][pos[t]].failed = TRUE]
    /\ Goto(t, "abort")

\* Mutation: the TID word is not compared.
validateTidNot(t) ==
    /\ pc[t] = "validate"
    /\ pos[t] \in DOMAIN rset[t]
    /\ Goto(t, "owner") /\ UNCHANGED rset
    /\ UNCHANGED << control, records, epochs, wset, lists, reading, tids,
                    history, EpotempAry, pos, want, todo >>

\* Verify the next entry of the read set: its TID word has not moved ...
validateTid(t) ==
    /\ pc[t] = "validate"
    /\ pos[t] \in DOMAIN rset[t]
    /\ LET e == rset[t][pos[t]] IN
       IF tidword[e.key] # e.tid THEN Fail(t) ELSE Goto(t, "owner") /\ UNCHANGED rset
    /\ UNCHANGED << control, records, epochs, wset, lists, reading, tids,
                    history, EpotempAry, pos, want, todo >>

\* ... and then, in a second load, no other worker has the record locked.
validateOwner(t) ==
    /\ pc[t] = "owner"
    /\ LET k == rset[t][pos[t]].key IN
       IF rwlock[k] = WriteLocked /\ ~searchWriteSet(t, k)
       THEN Fail(t) /\ UNCHANGED << pos, maxset >>
       ELSE /\ maxset' = [maxset EXCEPT ![t] = MaxTid(@, tidword[k])]
            /\ pos' = [pos EXCEPT ![t] = @ + 1]
            /\ Goto(t, "validate")
            /\ UNCHANGED rset
    /\ UNCHANGED << control, records, epochs, wset, lists, reading, mrctid,
                    history, EpotempAry, want, todo >>

-----------------------------------------------------------------------------
(* writePhase() *)

\* Above every TID read or overwritten, above the worker's last one, and in
\* the epoch the worker stored.
commitTid(t) ==
    MaxTid(MaxTid(IncTid(maxset[t]), IncTid(mrctid[t])),
           [epoch |-> ThLocalEpoch[t], tid |-> 0])

\* Everything is verified: the transaction commits.  The history keeps what
\* it read and whether it still held a lock on it.
chooseTid(t) ==
    /\ pc[t] = "validate"
    /\ pos[t] \notin DOMAIN rset[t]
    /\ mrctid' = [mrctid EXCEPT ![t] = commitTid(t)]
    /\ todo' = [todo EXCEPT ![t] = wset[t]]
    /\ Goto(t, "write")
    /\ committed' = committed \cup
          {[id |-> TxnId(t),
            reads |-> {[key |-> rset[t][i].key, ver |-> rset[t][i].val,
                        locked |-> rset[t][i].key \in KeysOf(CLL[t])]
                         : i \in DOMAIN rset[t]}]}
    /\ UNCHANGED << control, records, epochs, sets, lists, reading, maxset,
                    order, EpotempAry, pos, want >>

\* Copy the new value of the next record ...
storeValue(t) ==
    /\ pc[t] = "write"
    /\ todo[t] # {}
    /\ val' = [val EXCEPT ![First(todo[t])] = TxnId(t)]
    /\ Goto(t, "publish")
    /\ UNCHANGED << control, tidword, rwlock, epochs, sets, lists, reading,
                    tids, history, EpotempAry, pos, want, todo >>

\* ... and store its TID word.
storeTid(t) ==
    /\ pc[t] = "publish"
    /\ LET k == First(todo[t]) IN
       /\ tidword' = [tidword EXCEPT ![k] = mrctid[t]]
       /\ order' = [order EXCEPT ![k] = Append(@, TxnId(t))]
       /\ todo' = [todo EXCEPT ![t] = @ \ {k}]
    /\ Goto(t, "write")
    /\ UNCHANGED << control, rwlock, val, epochs, sets, lists, reading, tids,
                    committed, EpotempAry, pos, want >>

-----------------------------------------------------------------------------
(* unlockCLL(), which ends the write phase and begins abort() *)

unlockCLL(t) ==
    /\ pc[t] = "write" => todo[t] = {}
    /\ pc[t] \in {"write", "abort"}
    /\ CLL[t] # {}
    /\ LET e == EntryOf(CLL[t], First(KeysOf(CLL[t]))) IN
       /\ rwlock' = [rwlock EXCEPT ![e.key] = Unlock(e.mode, @)]
       /\ CLL' = [CLL EXCEPT ![t] = @ \ {e}]
    /\ UNCHANGED << control, tidword, val, epochs, sets, RLL, reading, tids,
                    history, EpotempAry, pc, pos, want, todo >>

\* The write phase is over.
committedTxn(t) ==
    /\ pc[t] = "write"
    /\ todo[t] = {}
    /\ CLL[t] = {}
    /\ RLL' = [RLL EXCEPT ![t] = {}]
    /\ rset' = [rset EXCEPT ![t] = << >>]
    /\ wset' = [wset EXCEPT ![t] = {}]
    /\ n' = [n EXCEPT ![t] = @ + 1]
    /\ Goto(t, "idle")
    /\ UNCHANGED << quit, GlobalEpoch, pro, records, epochs, CLL, reading, tids,
                    history, EpotempAry, pos, want, todo >>

\* The entry that failed its verification: whatever aborts has one.
FailedKey(t) ==
    rset[t][CHOOSE i \in DOMAIN rset[t] : rset[t][i].failed].key

\* construct_RLL: the page of the record that failed is reset if it is of an
\* older epoch, and may become hotter by one.
Heated(e) ==
    LET now == IF e.epoch # GlobalEpoch THEN [temp |-> 0, epoch |-> GlobalEpoch] ELSE e
    IN {now} \cup IF now.temp < TEMP_MAX THEN {[now EXCEPT !.temp = @ + 1]} ELSE {}

\* abort: the next attempt will lock what this one wrote, what failed, and
\* what it read of hot pages.
abort(t) ==
    /\ pc[t] = "abort"
    /\ CLL[t] = {}
    /\ \E e \in Heated(EpotempAry[Page[FailedKey(t)]]) :
         EpotempAry' = [EpotempAry EXCEPT ![Page[FailedKey(t)]] = e]
    /\ LET read == {rset[t][i].key : i \in DOMAIN rset[t]} \ wset[t]
           kept == {k \in read : k = FailedKey(t) \/ EpotempAry'[Page[k]].temp >= TEMP_THRESHOLD}
       IN RLL' = [RLL EXCEPT ![t] = {[key |-> k, mode |-> TRUE] : k \in wset[t]}
                                    \cup {[key |-> k, mode |-> FALSE] : k \in kept}]
    /\ rset' = [rset EXCEPT ![t] = << >>]
    /\ wset' = [wset EXCEPT ![t] = {}]
    /\ todo' = [todo EXCEPT ![t] = {}]
    /\ Goto(t, "retry")
    /\ UNCHANGED << control, records, epochs, CLL, reading, tids, history,
                    pos, want >>

-----------------------------------------------------------------------------
worker(t) ==
    \/ NextProcedure(t) \/ begin(t)
    \/ operateLocally(t) \/ operateLocking(t) \/ operateOptimistically(t)
    \/ readTid(t) \/ readWait(t) \/ readCopy(t) \/ readCheck(t)
    \/ lockHeld(t) \/ lockRestore(t) \/ lockTake(t)
    \/ commitLock(t) \/ loadEpoch(t) \/ storeEpoch(t)
    \/ validateTid(t) \/ validateOwner(t)
    \/ chooseTid(t) \/ storeValue(t) \/ storeTid(t)
    \/ unlockCLL(t) \/ committedTxn(t) \/ abort(t)

\* Every worker has left its loop, or has reached the bound of the model.
Joined ==
    /\ \A t \in Thread : pc[t] = "done" \/ (pc[t] = "idle" /\ n[t] = MaxTxn)
    /\ quit
    /\ UNCHANGED vars

Next == Quit \/ leaderWork \/ (\E t \in Thread : worker(t)) \/ Joined

Spec == Init /\ [][Next]_vars

-----------------------------------------------------------------------------
(* Properties *)

\* t is in a loop that only u can end, by releasing a lock.
WaitsFor(t, u) ==
    \/ /\ pc[t] = "lock" /\ ~Covered(t) /\ Violations(t) = {}
       /\ \E e \in CLL[u] : e.key = want[t].key /\ (want[t].mode \/ e.mode)
    \/ /\ pc[t] = "wait" /\ BehindOf(t, OpKey(t)) = {FALSE}
       /\ [key |-> OpKey(t), mode |-> TRUE] \in CLL[u]

\* Workers wait for locks while they hold others, readers that take no lock
\* among them, and yet never in a circle.
NoWaitingInCircles ==
    \A S \in SUBSET Thread :
        S # {} => \E t \in S : \A u \in S : ~WaitsFor(t, u)

\* What transactions wrote, and what they read and held a lock on when they
\* committed, have an equivalent serial execution, although locks are taken in
\* the middle of a transaction, dropped and taken again.
LockedReadsSerializable ==
    Serializable({[c EXCEPT !.reads = {r \in @ : r.locked}] : c \in committed}, order)

\* The committed transactions have an equivalent serial execution.
SerializableCommits == Serializable(committed, order)
=============================================================================
