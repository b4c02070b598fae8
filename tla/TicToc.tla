------------------------------- MODULE TicToc -------------------------------
(***************************************************************************)
(* TicToc, tictoc/: every version of a record is valid from its write      *)
(* timestamp wts to its read timestamp rts = wts + delta, and the commit   *)
(* timestamp of a transaction is computed from those of what it accessed.  *)
(* To commit, a worker locks its write set in key order, computes the      *)
(* commit timestamp, and extends the validity of each version it read to   *)
(* include it, unless the version has been overwritten.                    *)
(*                                                                         *)
(* A value has the default size, VAL_SIZE = 4, and is copied in one        *)
(* access.  A compare-and-swap loop takes effect in the load and swap of   *)
(* its last iteration, which are one step.                                 *)
(***************************************************************************)
EXTENDS SequencesExt, FiniteSetsExt, History

CONSTANTS
    Thread,
    Key,
    Procedure,           \* the operation sequences makeProcedure may return
    Builds,              \* the combinations of options it may be built with
    PREEMPTIVE_ABORTS,
    DELTA_MAX,           \* the largest delta, 0x7fff in the code
    MaxTxn,              \* bound: transactions a worker commits
    None                 \* the value a record is loaded with

\* A READ_MODIFY_WRITE is a READ followed by a WRITE.
Operation == [ope : {"READ", "WRITE"}, key : Key]
Txn == Thread \X (0 .. MaxTxn - 1)
Version == Txn \cup {None}
\* The ways to meet a lock in lockWriteSet: NO_WAIT_LOCKING_IN_VALIDATION,
\* NO_WAIT_OF_TICTOC, or neither.
Locking == {"no_wait", "no_wait_of_tictoc", "wait"}
TsWord == [wts : Nat, delta : 0 .. DELTA_MAX, lock : BOOLEAN]
ReadElement == [key : Key, tsw : TsWord, val : Version]
WriteElement == [key : Key, tsw : TsWord]

ASSUME TicTocAssumption ==
    /\ Key \subseteq Int
    /\ Builds \subseteq [locking : Locking, timestamp_history : BOOLEAN]
    /\ PREEMPTIVE_ABORTS \in BOOLEAN
    /\ DELTA_MAX \in Nat
    /\ MaxTxn \in Nat
    /\ None \notin Txn
    /\ \A p \in Procedure : p \in Seq(Operation)

VARIABLES
    quit,
    locking,       \* the options the program is built with, which no step
    timestamp_history,  \* changes
    tsw,           \* tsw_ of each record
    pre_wts,       \* the write timestamp in pre_tsw_ of each record
    val,           \* val_ of each record: the transaction that wrote it
    pc,            \* where each worker is
    pro_set,       \* its operations
    pos,           \* the operation it is at
    v1,            \* the word it loaded
    return_val,    \* the value it copied
    read_set,      \* read_set_: [key, tsw, val], in order
    write_set,     \* write_set_: [key, tsw], in order
    commit_ts,
    appro_commit_ts,
    idx,           \* the element of a set it is at
    held,          \* how many records of its write set it has locked or, when it
                   \* releases them, is to release
    status,
    txn,           \* the transactions it has committed
    committed,     \* history: the committed transactions, with timestamps
    order          \* history: the writers of each record, oldest first

vars == << quit, locking, timestamp_history, tsw, pre_wts, val, pc, pro_set,
           pos, v1, return_val, read_set, write_set, commit_ts, appro_commit_ts, idx,
           held, status, txn, committed, order >>

build      == << locking, timestamp_history >>
control    == << quit, build >>
records    == << tsw, pre_wts, val, order >>
sets       == << read_set, write_set >>
timestamps == << commit_ts, appro_commit_ts >>
copies     == << v1, return_val >>
history    == << txn, committed >>

rts(word) == word.wts + word.delta
Unlocked == [wts |-> 0, delta |-> 0, lock |-> FALSE]
Larger(a, b) == IF a < b THEN b ELSE a

Init ==
    /\ quit = FALSE
    /\ \E b \in Builds : locking = b.locking /\ timestamp_history = b.timestamp_history
    /\ tsw = [k \in Key |-> Unlocked]
    /\ pre_wts = [k \in Key |-> 0]
    /\ val = [k \in Key |-> None]
    /\ pc = [t \in Thread |-> "next"]
    /\ pro_set = [t \in Thread |-> << >>]
    /\ pos = [t \in Thread |-> 1]
    /\ v1 = [t \in Thread |-> Unlocked]
    /\ return_val = [t \in Thread |-> None]
    /\ read_set = [t \in Thread |-> << >>]
    /\ write_set = [t \in Thread |-> << >>]
    /\ commit_ts = [t \in Thread |-> 0]
    /\ appro_commit_ts = [t \in Thread |-> 0]
    /\ idx = [t \in Thread |-> 1]
    /\ held = [t \in Thread |-> 0]
    /\ status = [t \in Thread |-> "inFlight"]
    /\ txn = [t \in Thread |-> 0]
    /\ committed = {}
    /\ order = [k \in Key |-> << >>]

Goto(t, label) == pc' = [pc EXCEPT ![t] = label]

\* The transaction a worker is at, which is also the version it writes.
Id(t) == << t, txn[t] >>

-----------------------------------------------------------------------------
(* worker *)

\* main: the run time is over.
Quit ==
    /\ ~quit
    /\ quit' = TRUE
    /\ UNCHANGED << build, records, pc, pro_set, pos, copies, sets, timestamps,
                    idx, held, status, history >>

NextProcedure(t) ==
    /\ pc[t] = "next" /\ ~quit
    /\ txn[t] < MaxTxn
    /\ \E p \in Procedure : pro_set' = [pro_set EXCEPT ![t] = p]
    /\ Goto(t, "retry")
    /\ UNCHANGED << control, records, pos, copies, sets, timestamps, idx, held,
                    status, history >>

\* The head of the loop, and RETRY.
leave(t) ==
    /\ pc[t] \in {"next", "retry"} /\ quit
    /\ Goto(t, "done")
    /\ UNCHANGED << control, records, pro_set, pos, copies, sets, timestamps, idx,
                    held, status, history >>

begin(t) ==
    /\ pc[t] = "retry" /\ ~quit
    /\ status' = [status EXCEPT ![t] = "inFlight"]
    /\ commit_ts' = [commit_ts EXCEPT ![t] = 0]
    /\ appro_commit_ts' = [appro_commit_ts EXCEPT ![t] = 0]
    /\ pos' = [pos EXCEPT ![t] = 1]
    /\ Goto(t, "run")
    /\ UNCHANGED << control, records, pro_set, copies, sets, idx, held, history >>

-----------------------------------------------------------------------------
(* read and write *)

InSet(set, k) == \E i \in DOMAIN set : set[i].key = k
searchReadSet(t, k) == InSet(read_set[t], k)
searchWriteSet(t, k) == InSet(write_set[t], k)

\* The worker is at an operation.
Executes(t, ope) == pos[t] <= Len(pro_set[t]) /\ pro_set[t][pos[t]].ope = ope
OpKey(t) == pro_set[t][pos[t]].key
Advance(t) == pos' = [pos EXCEPT ![t] = @ + 1]

\* read, of a record that has been read or written.
readLocal(t) ==
    /\ pc[t] = "run" /\ Executes(t, "READ")
    /\ searchReadSet(t, OpKey(t)) \/ searchWriteSet(t, OpKey(t))
    /\ Advance(t)
    /\ UNCHANGED << control, records, pc, pro_set, copies, sets, timestamps, idx,
                    held, status, history >>

\* preemptiveAborts: the record is being written, and what it holds now will not
\* be valid when this transaction commits.
preemptiveAborts(t, word) == PREEMPTIVE_ABORTS /\ rts(word) < appro_commit_ts[t]

\* The read loop, from the word it has loaded: abort, load again, or copy.
Inspects(t, word) ==
    \/ /\ word.lock /\ preemptiveAborts(t, word)
       /\ status' = [status EXCEPT ![t] = "aborted"]
       /\ Goto(t, "abort")
       /\ UNCHANGED v1
    \/ /\ word.lock /\ ~preemptiveAborts(t, word)
       /\ Goto(t, "run")
       /\ UNCHANGED << status, v1 >>
    \/ /\ ~word.lock
       /\ v1' = [v1 EXCEPT ![t] = word]
       /\ Goto(t, "copy")
       /\ UNCHANGED status

readLoad(t) ==
    /\ pc[t] = "run" /\ Executes(t, "READ")
    /\ ~searchReadSet(t, OpKey(t)) /\ ~searchWriteSet(t, OpKey(t))
    /\ Inspects(t, tsw[OpKey(t)])
    /\ UNCHANGED << control, records, pro_set, pos, return_val, sets, timestamps,
                    idx, held, history >>

readCopy(t) ==
    /\ pc[t] = "copy"
    /\ return_val' = [return_val EXCEPT ![t] = val[OpKey(t)]]
    /\ Goto(t, "check")
    /\ UNCHANGED << control, records, pro_set, pos, v1, sets, timestamps, idx,
                    held, status, history >>

\* The word has not changed around the copy: the read is done.
readDone(t) ==
    /\ pc[t] = "check"
    /\ tsw[OpKey(t)] = v1[t]
    /\ appro_commit_ts' = [appro_commit_ts EXCEPT ![t] = Larger(@, v1[t].wts)]
    /\ read_set' = [read_set EXCEPT ![t] =
            Append(@, [key |-> OpKey(t), tsw |-> v1[t], val |-> return_val[t]])]
    /\ Advance(t)
    /\ Goto(t, "run")
    /\ UNCHANGED << control, records, pro_set, copies, write_set, commit_ts, idx,
                    held, status, history >>

\* It has: go on with the new one.
readAgain(t) ==
    /\ pc[t] = "check"
    /\ tsw[OpKey(t)] # v1[t]
    /\ Inspects(t, tsw[OpKey(t)])
    /\ UNCHANGED << control, records, pro_set, pos, return_val, sets, timestamps,
                    idx, held, history >>

write(t) ==
    /\ pc[t] = "run" /\ Executes(t, "WRITE")
    /\ LET k == OpKey(t)
       IN IF searchWriteSet(t, k)
          THEN UNCHANGED << write_set, appro_commit_ts >>
          ELSE /\ write_set' = [write_set EXCEPT ![t] =
                                   Append(@, [key |-> k, tsw |-> tsw[k]])]
               /\ appro_commit_ts' = [appro_commit_ts EXCEPT ![t] =
                                         Larger(@, rts(tsw[k]) + 1)]
    /\ Advance(t)
    /\ UNCHANGED << control, records, pc, pro_set, copies, read_set, commit_ts,
                    idx, held, status, history >>

-----------------------------------------------------------------------------
(* lockWriteSet *)

\* sort, by key: a write set has one element for each key.
Sorts(sorted, set) ==
    /\ ToSet(sorted) = ToSet(set)
    /\ \A i, j \in DOMAIN sorted : i < j => sorted[i].key < sorted[j].key

validationPhase(t) ==
    /\ pc[t] = "run" /\ pos[t] > Len(pro_set[t])
    /\ \E sorted \in [DOMAIN write_set[t] -> ToSet(write_set[t])] :
          /\ Sorts(sorted, write_set[t])
          /\ write_set' = [write_set EXCEPT ![t] = sorted]
    /\ idx' = [idx EXCEPT ![t] = 1]
    /\ Goto(t, "lock")
    /\ UNCHANGED << control, records, pro_set, pos, copies, read_set, timestamps,
                    held, status, history >>

\* Mutation: the write may precede a read that has been promised the old version.
afterWts(t, word) == Larger(commit_ts[t], word.wts + 1)

\* The commit timestamp is later than every time the old version is valid at.
afterRts(t, word) == Larger(commit_ts[t], rts(word) + 1)

lockRecord(t) ==
    /\ pc[t] = "lock" /\ idx[t] <= Len(write_set[t])
    /\ LET k == write_set[t][idx[t]].key
       IN /\ ~tsw[k].lock
          /\ tsw' = [tsw EXCEPT ![k].lock = TRUE]
          /\ commit_ts' = [commit_ts EXCEPT ![t] = afterRts(t, tsw[k])]
    /\ idx' = [idx EXCEPT ![t] = @ + 1]
    /\ held' = [held EXCEPT ![t] = @ + 1]
    /\ UNCHANGED << control, pre_wts, val, order, pc, pro_set, pos, copies, sets,
                    appro_commit_ts, status, history >>

\* Mutation: no-wait locking leaves behind what it has locked.
lockBusyLeaving(t) ==
    /\ pc[t] = "lock" /\ idx[t] <= Len(write_set[t])
    /\ tsw[write_set[t][idx[t]].key].lock
    /\ locking # "wait"
    /\ IF locking = "no_wait"
       THEN /\ status' = [status EXCEPT ![t] = "aborted"]
            /\ held' = [held EXCEPT ![t] = 0]
       ELSE UNCHANGED << status, held >>
    /\ idx' = [idx EXCEPT ![t] = 1]
    /\ Goto(t, "unlock")
    /\ UNCHANGED << control, records, pro_set, pos, copies, sets, timestamps,
                    history >>

\* The next record is locked: release those locked so far and abort, or verify
\* the reads and start again.  (With "wait" the word is loaded again.)
lockBusy(t) ==
    /\ pc[t] = "lock" /\ idx[t] <= Len(write_set[t])
    /\ tsw[write_set[t][idx[t]].key].lock
    /\ locking # "wait"
    /\ status' = IF locking = "no_wait" THEN [status EXCEPT ![t] = "aborted"]
                 ELSE status
    /\ idx' = [idx EXCEPT ![t] = 1]
    /\ Goto(t, "unlock")
    /\ UNCHANGED << control, records, pro_set, pos, copies, sets, timestamps, held,
                    history >>

Released(t) == idx[t] > held[t]

\* unlockWriteSet: the word of the next record is loaded ...
unlockLoad(t) ==
    /\ pc[t] = "unlock" /\ ~Released(t)
    /\ v1' = [v1 EXCEPT ![t] = tsw[write_set[t][idx[t]].key]]
    /\ Goto(t, "unlocking")
    /\ UNCHANGED << control, records, pro_set, pos, return_val, sets, timestamps, idx,
                    held, status, history >>

\* ... and stored without the lock.
unlockStore(t) ==
    /\ pc[t] = "unlocking"
    /\ tsw' = [tsw EXCEPT ![write_set[t][idx[t]].key] = [v1[t] EXCEPT !.lock = FALSE]]
    /\ idx' = [idx EXCEPT ![t] = @ + 1]
    /\ Goto(t, "unlock")
    /\ UNCHANGED << control, pre_wts, val, order, pro_set, pos, copies, sets,
                    timestamps, held, status, history >>

unlocked(t) ==
    /\ pc[t] = "unlock" /\ Released(t)
    /\ idx' = [idx EXCEPT ![t] = 1]
    /\ held' = [held EXCEPT ![t] = 0]
    /\ Goto(t, IF status[t] = "aborted" THEN "abort" ELSE "preverify")
    /\ UNCHANGED << control, records, pro_set, pos, copies, sets, timestamps,
                    status, history >>

\* All records of the write set are locked: the reads' write timestamps enter the
\* commit timestamp.
locked(t) ==
    /\ pc[t] = "lock" /\ idx[t] > Len(write_set[t])
    /\ commit_ts' = [commit_ts EXCEPT ![t] =
            Max({@} \cup {read_set[t][i].tsw.wts : i \in DOMAIN read_set[t]})]
    /\ idx' = [idx EXCEPT ![t] = 1]
    /\ Goto(t, "validate")
    /\ UNCHANGED << control, records, pro_set, pos, copies, sets, appro_commit_ts,
                    held, status, history >>

-----------------------------------------------------------------------------
(* Validation of the read set, and the pre-verification of NO_WAIT_OF_TICTOC *)

\* The worker is at element r of the read set, whose record has the word w.
Verifies(t, label) == pc[t] = label /\ idx[t] <= Len(read_set[t])
Element(t) == read_set[t][idx[t]]
Word(t) == tsw[Element(t).key]

\* What was read is known to be valid at the commit timestamp ...
KnownValid(t) == rts(Element(t).tsw) >= commit_ts[t]
\* ... or the record has a new version since ...
Overwritten(t) == ~KnownValid(t) /\ Word(t).wts # Element(t).tsw.wts
\* ... or the version has to be made valid until then.
Expires(t) ==
    ~KnownValid(t) /\ Word(t).wts = Element(t).tsw.wts /\ rts(Word(t)) < commit_ts[t]

\* Mutation: a lock does not keep a version from being extended.
FailsNever(t) == FALSE

\* The version expires, and the record is locked by another worker, which may be
\* about to overwrite it.  (The pre-verification does not look whose lock it is:
\* the worker has none.)
Fails(t) ==
    /\ Expires(t) /\ Word(t).lock
    /\ pc[t] = "validate" => ~searchWriteSet(t, Element(t).key)

NextElement(t) == idx' = [idx EXCEPT ![t] = @ + 1]

\* Validation fails: release the write set, all of it.  A pre-verification that
\* fails ends lockWriteSet; only with NO_WAIT_LOCKING_IN_VALIDATION does its caller
\* look at the status, so the worker goes on to validate.
Reject(t) ==
    /\ status' = [status EXCEPT ![t] = "aborted"]
    /\ IF pc[t] \in {"validate", "history"}
       THEN /\ idx' = [idx EXCEPT ![t] = 1]
            /\ held' = [held EXCEPT ![t] = Len(write_set[t])]
            /\ Goto(t, "unlock")
       ELSE /\ idx' = [idx EXCEPT ![t] = Len(write_set[t]) + 1]
            /\ Goto(t, "lock")
            /\ UNCHANGED held

pass(t) ==
    /\ \/ /\ Verifies(t, "validate")
          /\ ~Overwritten(t)
          /\ ~Expires(t) \/ searchWriteSet(t, Element(t).key)
       \/ /\ Verifies(t, "preverify")
          /\ ~Overwritten(t)
          /\ ~Fails(t)
    /\ NextElement(t)
    /\ UNCHANGED << control, records, pc, pro_set, pos, copies, sets, timestamps,
                    held, status, history >>

\* A word whose version is valid until ts.  Of a delta that does not fit, the part
\* above its width is added to wts.
Extended(word, ts) ==
    LET delta == ts - word.wts
        low   == delta % (DELTA_MAX + 1)
    IN [word EXCEPT !.wts = @ + (delta - low), !.delta = low]

extend(t) ==
    /\ Verifies(t, "validate")
    /\ Expires(t) /\ ~searchWriteSet(t, Element(t).key) /\ ~Fails(t)
    /\ tsw' = [tsw EXCEPT ![Element(t).key] = Extended(@, commit_ts[t])]
    /\ NextElement(t)
    /\ UNCHANGED << control, pre_wts, val, order, pc, pro_set, pos, copies, sets,
                    timestamps, held, status, history >>

fail(t) ==
    /\ Verifies(t, "validate") \/ Verifies(t, "preverify")
    /\ Fails(t) \/ (Overwritten(t) /\ ~timestamp_history)
    /\ Reject(t)
    /\ UNCHANGED << control, records, pro_set, pos, copies, sets, timestamps,
                    history >>

\* There is a new version: go and look at the timestamp of the one before.
seeNewer(t) ==
    /\ timestamp_history
    /\ Verifies(t, "validate") \/ Verifies(t, "preverify")
    /\ Overwritten(t)
    /\ v1' = [v1 EXCEPT ![t] = Word(t)]
    /\ Goto(t, IF pc[t] = "validate" THEN "history" ELSE "prehistory")
    /\ UNCHANGED << control, records, pro_set, pos, return_val, sets, timestamps,
                    idx, held, status, history >>

\* The version before the new one is valid at the commit timestamp, or not.
seeHistory(t) ==
    /\ pc[t] \in {"history", "prehistory"}
    /\ IF pre_wts[Element(t).key] <= commit_ts[t] /\ commit_ts[t] < v1[t].wts
       THEN /\ NextElement(t)
            /\ Goto(t, IF pc[t] = "history" THEN "validate" ELSE "preverify")
            /\ UNCHANGED << status, held >>
       ELSE Reject(t)
    /\ UNCHANGED << control, records, pro_set, pos, copies, sets, timestamps,
                    history >>

\* The pre-verification is over: lock again.
relock(t) ==
    /\ pc[t] = "preverify" /\ idx[t] > Len(read_set[t])
    /\ idx' = [idx EXCEPT ![t] = 1]
    /\ Goto(t, "lock")
    /\ UNCHANGED << control, records, pro_set, pos, copies, sets, timestamps, held,
                    status, history >>

-----------------------------------------------------------------------------
(* abort and writePhase *)

abort(t) ==
    /\ pc[t] = "abort"
    /\ read_set' = [read_set EXCEPT ![t] = << >>]
    /\ write_set' = [write_set EXCEPT ![t] = << >>]
    /\ Goto(t, "retry")
    /\ UNCHANGED << control, records, pro_set, pos, copies, timestamps, idx, held,
                    status, history >>

\* Validation succeeds.
commit(t) ==
    /\ pc[t] = "validate" /\ idx[t] > Len(read_set[t])
    /\ committed' = committed \cup
            {[id |-> Id(t), ts |-> commit_ts[t],
              reads |-> {[key |-> r.key, ver |-> r.val] : r \in ToSet(read_set[t])}]}
    /\ idx' = [idx EXCEPT ![t] = 1]
    /\ Goto(t, "install")
    /\ UNCHANGED << control, records, pro_set, pos, copies, sets, timestamps, held,
                    status, txn >>

\* writePhase: the payload and pre_tsw_, at which no other worker looks at once ...
installValue(t) ==
    /\ pc[t] = "install" /\ idx[t] <= Len(write_set[t])
    /\ LET w == write_set[t][idx[t]]
       IN /\ val' = [val EXCEPT ![w.key] = Id(t)]
          /\ pre_wts' = IF timestamp_history
                        THEN [pre_wts EXCEPT ![w.key] = w.tsw.wts] ELSE pre_wts
          /\ order' = [order EXCEPT ![w.key] = Append(@, Id(t))]
    /\ Goto(t, "publish")
    /\ UNCHANGED << control, tsw, pro_set, pos, copies, sets, timestamps, idx,
                    held, status, history >>

\* ... and then the word, which releases the lock.
installWord(t) ==
    /\ pc[t] = "publish"
    /\ tsw' = [tsw EXCEPT ![write_set[t][idx[t]].key] =
                  [wts |-> commit_ts[t], delta |-> 0, lock |-> FALSE]]
    /\ idx' = [idx EXCEPT ![t] = @ + 1]
    /\ Goto(t, "install")
    /\ UNCHANGED << control, pre_wts, val, order, pro_set, pos, copies, sets,
                    timestamps, held, status, history >>

finish(t) ==
    /\ pc[t] = "install" /\ idx[t] > Len(write_set[t])
    /\ read_set' = [read_set EXCEPT ![t] = << >>]
    /\ write_set' = [write_set EXCEPT ![t] = << >>]
    /\ held' = [held EXCEPT ![t] = 0]
    /\ txn' = [txn EXCEPT ![t] = @ + 1]
    /\ Goto(t, "next")
    /\ UNCHANGED << control, records, pro_set, pos, copies, timestamps, idx,
                    status, committed >>

-----------------------------------------------------------------------------
worker(t) ==
    \/ NextProcedure(t) \/ leave(t) \/ begin(t)
    \/ readLocal(t) \/ readLoad(t) \/ readCopy(t) \/ readDone(t) \/ readAgain(t)
    \/ write(t)
    \/ validationPhase(t) \/ lockRecord(t) \/ lockBusy(t) \/ locked(t)
    \/ unlockLoad(t) \/ unlockStore(t) \/ unlocked(t)
    \/ pass(t) \/ extend(t) \/ fail(t) \/ seeNewer(t) \/ seeHistory(t) \/ relock(t)
    \/ abort(t) \/ commit(t) \/ installValue(t) \/ installWord(t) \/ finish(t)

\* main joins the workers: nothing is left to do.
Joined ==
    /\ \A t \in Thread : pc[t] = "done"
    /\ UNCHANGED vars

Next == Quit \/ (\E t \in Thread : worker(t)) \/ Joined

Spec == Init /\ [][Next]_vars

-----------------------------------------------------------------------------
(* Properties *)

Label == {"next", "retry", "run", "copy", "check", "lock", "unlock", "unlocking",
          "preverify", "prehistory", "validate", "history", "abort", "install",
          "publish", "done"}
Commitment == [id : Txn, ts : Nat, reads : SUBSET [key : Key, ver : Version]]

\* The variables keep their types; in particular a delta fits its 15 bits.
TypeOK ==
    /\ quit \in BOOLEAN
    /\ locking \in Locking
    /\ timestamp_history \in BOOLEAN
    /\ tsw \in [Key -> TsWord]
    /\ pre_wts \in [Key -> Nat]
    /\ val \in [Key -> Version]
    /\ pc \in [Thread -> Label]
    /\ pro_set \in [Thread -> Seq(Operation)]
    /\ pos \in [Thread -> Nat \ {0}]
    /\ v1 \in [Thread -> TsWord]
    /\ return_val \in [Thread -> Version]
    /\ read_set \in [Thread -> Seq(ReadElement)]
    /\ write_set \in [Thread -> Seq(WriteElement)]
    /\ commit_ts \in [Thread -> Nat]
    /\ appro_commit_ts \in [Thread -> Nat]
    /\ idx \in [Thread -> Nat \ {0}]
    /\ held \in [Thread -> Nat]
    /\ status \in [Thread -> {"inFlight", "aborted"}]
    /\ txn \in [Thread -> 0 .. MaxTxn]
    /\ committed \subseteq Commitment
    /\ order \in [Key -> Seq(Txn)]

\* The records that t has locked: those of its write set from element first on.
First(t) == IF pc[t] \in {"unlock", "unlocking", "install", "publish"} THEN idx[t] ELSE 1
Locks(t) == {write_set[t][i].key : i \in First(t) .. held[t]}

\* The builds in which a worker that is to abort does so: with NO_WAIT_OF_TICTOC
\* one whose pre-verification has failed may yet commit, without any lock.
AbortsTake == locking # "no_wait_of_tictoc"

\* A record is locked exactly while one worker has locked it, through partial
\* locking, partial release and installation.
LocksOwned ==
    AbortsTake =>
        /\ \A k \in Key : tsw[k].lock <=> \E t \in Thread : k \in Locks(t)
        /\ \A t, u \in Thread : t # u => Locks(t) \cap Locks(u) = {}

\* Commit timestamps agree with every dependency: a transaction is later than
\* those whose writes it overwrites and than those that read what it overwrites,
\* and not earlier than those whose writes it reads.  Without TIMESTAMP_HISTORY.
TimestampOrder ==
    AbortsTake /\ ~timestamp_history =>
        \A a, b \in committed :
            a.id # b.id =>
                /\ ReadsFrom(a, b) => a.ts <= b.ts
                /\ Overwrites(order, a, b) \/ AntiDepends(order, a, b) => a.ts < b.ts

\* The committed transactions are serializable, in every build.
SerializableCommits == Serializable(committed, order)

\* They are serializable in the builds without TIMESTAMP_HISTORY in which aborts
\* take effect.
SerializableWithoutHistory == AbortsTake /\ ~timestamp_history => SerializableCommits
=============================================================================
