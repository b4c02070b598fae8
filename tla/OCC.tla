-------------------------------- MODULE OCC ---------------------------------
(***************************************************************************)
(* The optimistic protocol of Kung and Robinson, occ/.  A transaction      *)
(* reads without locks and keeps its writes to itself.  To commit, it      *)
(* takes the global lock, compares what it has read with the write sets of *)
(* the transactions that committed since it began, stores its writes, adds *)
(* its write set to ws_list and counts txId up.  Write sets that no worker *)
(* needs any more are erased from the front of ws_list.                    *)
(*                                                                         *)
(* ws_list, progress and deletedTxId are used under the global lock alone, *)
(* so validation is one step and so is the garbage collection.  txId and   *)
(* the records are read without it, the latter word by word.               *)
(***************************************************************************)
EXTENDS Integers, FiniteSetsExt, SequencesExt, RWLock

CONSTANTS
    Thread,
    Key,
    Procedure,          \* the operation sequences makeProcedure may return
    OCC_GC_THRESHOLD,
    WORDS,              \* words memcpy copies a value in
    MaxTxn              \* bound: transactions a worker commits

\* A READ_MODIFY_WRITE is a READ followed by a WRITE.
Operation == [ope : {"READ", "WRITE"}, key : Key]

ASSUME OCCAssumption ==
    /\ IsFiniteSet(Thread)
    /\ OCC_GC_THRESHOLD \in Nat
    /\ WORDS \in Nat \ {0}
    /\ MaxTxn \in Nat
    /\ \A p \in Procedure : p \in Seq(Operation)

VARIABLES
    quit,
    global_lock,    \* the counter of the lock
    txId,           \* the number of the next transaction to commit
    deletedTxId,    \* the last transaction whose write set has been erased
    ws_list,        \* the write sets of transactions deletedTxId + 1 to txId - 1
    progress,       \* the last transaction each worker committed, initially 0
    value,          \* the words of each record: the transactions that wrote them
    pc,             \* where each worker is
    pro_set,        \* its operations
    pos,            \* the operation it is at; in writePhase, the write
    word,           \* the word of the record it copies
    startTxId,
    read_set,       \* the words it has read, as [key, ver]
    read_keys,      \* the keys of the elements of read_set_ that are complete
    write_set,      \* the keys of write_set_, in order
    txn,            \* the transactions it has committed
    committed       \* history: what each transaction read and wrote, by number

vars == << quit, global_lock, txId, deletedTxId, ws_list, progress, value, pc, pro_set,
           pos, word, startTxId, read_set, read_keys, write_set, txn, committed >>

globals == << txId, deletedTxId, ws_list, progress >>
sets    == << read_set, read_keys, write_set >>

\* The version a record is loaded with.
Loaded == -1

Init ==
    /\ quit = FALSE
    /\ global_lock = Free
    /\ txId = 0
    /\ deletedTxId = -1
    /\ ws_list = << >>
    /\ progress = [t \in Thread |-> 0]
    /\ value = [k \in Key |-> [w \in 1 .. WORDS |-> Loaded]]
    /\ pc = [t \in Thread |-> "next"]
    /\ pro_set = [t \in Thread |-> << >>]
    /\ pos = [t \in Thread |-> 1]
    /\ word = [t \in Thread |-> 1]
    /\ startTxId = [t \in Thread |-> 0]
    /\ read_set = [t \in Thread |-> {}]
    /\ read_keys = [t \in Thread |-> {}]
    /\ write_set = [t \in Thread |-> << >>]
    /\ txn = [t \in Thread |-> 0]
    /\ committed = << >>

Goto(t, label) == pc' = [pc EXCEPT ![t] = label]

-----------------------------------------------------------------------------
(* worker *)

\* main: the run time is over.
Quit ==
    /\ ~quit
    /\ quit' = TRUE
    /\ UNCHANGED << global_lock, globals, value, pc, pro_set, pos, word,
                    startTxId, sets, txn, committed >>

NextProcedure(t) ==
    /\ pc[t] = "next" /\ ~quit
    /\ txn[t] < MaxTxn
    /\ \E p \in Procedure : pro_set' = [pro_set EXCEPT ![t] = p]
    /\ Goto(t, "retry")
    /\ UNCHANGED << quit, global_lock, globals, value, pos, word, startTxId,
                    sets, txn, committed >>

\* The head of the loop, and RETRY.
leave(t) ==
    /\ pc[t] \in {"next", "retry"} /\ quit
    /\ Goto(t, "done")
    /\ UNCHANGED << quit, global_lock, globals, value, pro_set, pos, word,
                    startTxId, sets, txn, committed >>

begin(t) ==
    /\ pc[t] = "retry" /\ ~quit
    /\ startTxId' = [startTxId EXCEPT ![t] = txId]
    /\ pos' = [pos EXCEPT ![t] = 1]
    /\ Goto(t, "run")
    /\ UNCHANGED << quit, global_lock, globals, value, pro_set, word, sets, txn,
                    committed >>

-----------------------------------------------------------------------------
(* read and write *)

searchReadSet(t, k) == k \in read_keys[t]
searchWriteSet(t, k) == \E i \in DOMAIN write_set[t] : write_set[t][i] = k

\* The worker is at an operation.
Executes(t, ope) ==
    pc[t] = "run" /\ pos[t] <= Len(pro_set[t]) /\ pro_set[t][pos[t]].ope = ope
OpKey(t) == pro_set[t][pos[t]].key

Advance(t) == pos' = [pos EXCEPT ![t] = @ + 1]

\* read, of a record that has been read or written.
readLocal(t) ==
    /\ Executes(t, "READ")
    /\ searchReadSet(t, OpKey(t)) \/ searchWriteSet(t, OpKey(t))
    /\ Advance(t)
    /\ UNCHANGED << quit, global_lock, globals, value, pc, pro_set, word,
                    startTxId, sets, txn, committed >>

\* read, of any other record: copy the next word of its value.
readWord(t) ==
    /\ Executes(t, "READ")
    /\ ~searchReadSet(t, OpKey(t)) /\ ~searchWriteSet(t, OpKey(t))
    /\ LET k == OpKey(t)
       IN /\ read_set' = [read_set EXCEPT ![t] =
                             @ \cup {[key |-> k, ver |-> value[k][word[t]]]}]
          /\ \/ /\ word[t] < WORDS
                /\ word' = [word EXCEPT ![t] = @ + 1]
                /\ UNCHANGED << read_keys, pos >>
             \/ /\ word[t] = WORDS
                /\ word' = [word EXCEPT ![t] = 1]
                /\ read_keys' = [read_keys EXCEPT ![t] = @ \cup {k}]
                /\ Advance(t)
    /\ UNCHANGED << quit, global_lock, globals, value, pc, pro_set, startTxId,
                    write_set, txn, committed >>

write(t) ==
    /\ Executes(t, "WRITE")
    /\ write_set' = IF searchWriteSet(t, OpKey(t)) THEN write_set
                    ELSE [write_set EXCEPT ![t] = Append(@, OpKey(t))]
    /\ Advance(t)
    /\ UNCHANGED << quit, global_lock, globals, value, pc, pro_set, word,
                    startTxId, read_set, read_keys, txn, committed >>

-----------------------------------------------------------------------------
(* validationPhase and writePhase, under the global lock *)

lock(t) ==
    /\ pc[t] = "run" /\ pos[t] > Len(pro_set[t])
    /\ CanWriteLock(global_lock)
    /\ global_lock' = WriteLock(global_lock)
    /\ Goto(t, "validate")
    /\ UNCHANGED << quit, globals, value, pro_set, pos, word, startTxId, sets,
                    txn, committed >>

\* Mutation: the first transaction to compare with is left out.
beginIndexPast(t) == startTxId[t] - deletedTxId

\* begin in validationPhase: the index in ws_list, counted from 0, of the first
\* transaction to compare with.
beginIndex(t) == startTxId[t] - (deletedTxId + 1)

\* The keys of the transactions to compare with.  What lies before ws_list is no
\* write set: it may have any keys.
ComparedKeys(t) ==
    LET inside == {i \in DOMAIN ws_list : i > beginIndex(t)}
        listed == UNION {ws_list[i] : i \in inside}
    IN IF beginIndex(t) >= 0 THEN {listed}
       ELSE {listed \cup stray : stray \in SUBSET Key}

valid(t) ==
    /\ pc[t] = "validate"
    /\ \E keys \in ComparedKeys(t) : read_keys[t] \cap keys = {}
    /\ pos' = [pos EXCEPT ![t] = 1]
    /\ Goto(t, "store")
    /\ UNCHANGED << quit, global_lock, globals, value, pro_set, word, startTxId,
                    sets, txn, committed >>

\* Mutation: the lock is not released on the way to RETRY.
abortLocked(t) ==
    /\ pc[t] = "validate"
    /\ \E keys \in ComparedKeys(t) : read_keys[t] \cap keys # {}
    /\ read_set' = [read_set EXCEPT ![t] = {}]
    /\ read_keys' = [read_keys EXCEPT ![t] = {}]
    /\ write_set' = [write_set EXCEPT ![t] = << >>]
    /\ Goto(t, "retry")
    /\ UNCHANGED << quit, global_lock, globals, value, pro_set, pos, word,
                    startTxId, txn, committed >>

\* Validation fails: abort, release the lock and retry.
abort(t) ==
    /\ pc[t] = "validate"
    /\ \E keys \in ComparedKeys(t) : read_keys[t] \cap keys # {}
    /\ read_set' = [read_set EXCEPT ![t] = {}]
    /\ read_keys' = [read_keys EXCEPT ![t] = {}]
    /\ write_set' = [write_set EXCEPT ![t] = << >>]
    /\ global_lock' = WriteUnlock(global_lock)
    /\ Goto(t, "retry")
    /\ UNCHANGED << quit, globals, value, pro_set, pos, word, startTxId, txn,
                    committed >>

\* writePhase: store the next word.
store(t) ==
    /\ pc[t] = "store" /\ pos[t] <= Len(write_set[t])
    /\ value' = [value EXCEPT ![write_set[t][pos[t]]][word[t]] = txId]
    /\ \/ /\ word[t] < WORDS
          /\ word' = [word EXCEPT ![t] = @ + 1]
          /\ UNCHANGED pos
       \/ /\ word[t] = WORDS
          /\ word' = [word EXCEPT ![t] = 1]
          /\ Advance(t)
    /\ UNCHANGED << quit, global_lock, globals, pc, pro_set, startTxId, sets,
                    txn, committed >>

\* writePhase: the write set enters ws_list, and the transaction is counted.
publish(t) ==
    /\ pc[t] = "store" /\ pos[t] > Len(write_set[t])
    /\ ws_list' = Append(ws_list, ToSet(write_set[t]))
    /\ committed' = Append(committed,
                        [id |-> txId, reads |-> read_set[t], writes |-> ToSet(write_set[t])])
    /\ read_set' = [read_set EXCEPT ![t] = {}]
    /\ read_keys' = [read_keys EXCEPT ![t] = {}]
    /\ write_set' = [write_set EXCEPT ![t] = << >>]
    /\ progress' = [progress EXCEPT ![t] = txId]
    /\ txId' = txId + 1
    /\ Goto(t, "gc")
    /\ UNCHANGED << quit, global_lock, deletedTxId, value, pro_set, pos, word,
                    startTxId, txn >>

\* Mutation: what the fastest worker has passed is erased.
fastest == Max({progress[t] : t \in Thread})

\* gc: the transaction that every worker has committed or passed.
slowest == Min({progress[t] : t \in Thread})

\* gc, and the release of the lock.
gc(t) ==
    /\ pc[t] = "gc"
    /\ IF Len(ws_list) > OCC_GC_THRESHOLD /\ slowest > deletedTxId
       THEN /\ ws_list' = SubSeq(ws_list, slowest - deletedTxId + 1, Len(ws_list))
            /\ deletedTxId' = slowest
       ELSE UNCHANGED << ws_list, deletedTxId >>
    /\ global_lock' = WriteUnlock(global_lock)
    /\ txn' = [txn EXCEPT ![t] = @ + 1]
    /\ Goto(t, "next")
    /\ UNCHANGED << quit, txId, progress, value, pro_set, pos, word, startTxId,
                    sets, committed >>

-----------------------------------------------------------------------------
worker(t) ==
    \/ NextProcedure(t) \/ leave(t) \/ begin(t)
    \/ readLocal(t) \/ readWord(t) \/ write(t)
    \/ lock(t) \/ valid(t) \/ abort(t) \/ store(t) \/ publish(t) \/ gc(t)

\* main joins the workers: nothing is left to do.
Joined ==
    /\ \A t \in Thread : pc[t] = "done"
    /\ UNCHANGED vars

Next == Quit \/ (\E t \in Thread : worker(t)) \/ Joined

Spec == Init /\ [][Next]_vars

\* Every thread is scheduled, and main sets quit when the run time is over.
FairSpec == Spec /\ WF_vars(Quit) /\ \A t \in Thread : WF_vars(worker(t))

-----------------------------------------------------------------------------
(* Properties *)

Version == Nat \cup {Loaded}

\* The variables keep their types; in particular the global lock has one holder
\* at a time, who releases it once.
TypeOK ==
    /\ quit \in BOOLEAN
    /\ global_lock \in {WriteLocked, Free}
    /\ txId \in Nat
    /\ deletedTxId \in Version
    /\ ws_list \in Seq(SUBSET Key)
    /\ progress \in [Thread -> Nat]
    /\ value \in [Key -> [1 .. WORDS -> Version]]
    /\ pc \in [Thread -> {"next", "retry", "run", "validate", "store", "gc", "done"}]
    /\ pro_set \in [Thread -> Seq(Operation)]
    /\ pos \in [Thread -> Nat \ {0}]
    /\ word \in [Thread -> 1 .. WORDS]
    /\ startTxId \in [Thread -> Nat]
    /\ read_set \in [Thread -> SUBSET [key : Key, ver : Version]]
    /\ read_keys \in [Thread -> SUBSET Key]
    /\ write_set \in [Thread -> Seq(Key)]
    /\ txn \in [Thread -> 0 .. MaxTxn]
    /\ committed \in Seq([id : Nat, reads : SUBSET [key : Key, ver : Version],
                          writes : SUBSET Key])

\* Garbage collection keeps the write set of every transaction that committed
\* since a running one began: validation finds them, each at its own index.
WriteSetsKept ==
    /\ Len(ws_list) = txId - (deletedTxId + 1)
    /\ \A i \in DOMAIN ws_list : ws_list[i] = committed[deletedTxId + 1 + i].writes
    /\ \A t \in Thread : pc[t] \in {"run", "validate"} => beginIndex(t) >= 0

\* The last transaction to write k.
LastWriter(k) == Max({Loaded} \cup {j \in 0 .. txId - 1 : k \in committed[j + 1].writes})

\* What the database holds, without the values of a transaction that has not yet
\* been counted.
Database ==
    [k \in Key |-> IF \E t \in Thread : pc[t] = "store" /\ k \in ToSet(write_set[t])
                   THEN LastWriter(k) ELSE value[k][1]]

Serial == INSTANCE SerialStore WITH
    TxnId <- Nat, Initial <- Loaded,
    db <- Database, log <- committed

\* The transactions are executed one at a time, in the order of their numbers:
\* each has read what the last writer before it stored, and no torn value.
SerialExecution == Serial!Spec

\* After quit every worker stops, though it may be waiting for the global lock.
Shutdown == quit ~> \A t \in Thread : pc[t] = "done"
=============================================================================
