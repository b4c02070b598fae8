----------------------------- MODULE OCCProofs ------------------------------
(***************************************************************************)
(* Theorems about OCC for every set of workers, keys and procedures.  The  *)
(* protocol is serial as long as no write set of transaction 0 or later is *)
(* erased while a worker runs that began before transaction 0 committed:   *)
(* such a worker is taken for one that has committed it.  That condition,  *)
(* FirstSetsKept, is the only one, and what the rest of the garbage        *)
(* collection needs is proved.                                             *)
(***************************************************************************)
EXTENDS OCC, CommonProofs, FiniteSetTheorems, SequenceTheorems, TLAPS

\* No write set has been erased while a worker runs that has met no commit.
FirstSetsKept ==
    \A t \in Thread :
        pc[t] \in {"run", "validate"} /\ startTxId[t] = 0 => deletedTxId = -1

Active(t) == pc[t] \in {"run", "validate", "store"}
Critical(t) == pc[t] \in {"validate", "store", "gc"}

\* Whoever validates, stores or collects holds the lock, alone.
LockHeld ==
    /\ \A t \in Thread : Critical(t) => global_lock = WriteLocked
    /\ \A t, u \in Thread : Critical(t) /\ Critical(u) => t = u

\* A worker is in the middle of a value it reads, of a record not met before.
Reading(t) ==
    /\ Executes(t, "READ")
    /\ ~searchReadSet(t, OpKey(t)) /\ ~searchWriteSet(t, OpKey(t))

\* The sets of a worker, and how far it has come.
WorkerMatches(t) ==
    /\ pc[t] \notin {"next", "done"} => txn[t] < MaxTxn
    /\ ~Active(t) => read_set[t] = {} /\ read_keys[t] = {} /\ write_set[t] = << >>
    /\ word[t] > 1 =>
          Reading(t) \/ (pc[t] = "store" /\ pos[t] <= Len(write_set[t]))
    /\ \A k \in read_keys[t] : \E r \in read_set[t] : r.key = k
    /\ \A r \in read_set[t] :
          r.key \in read_keys[t] \/ (word[t] > 1 /\ Reading(t) /\ r.key = OpKey(t))

WorkersMatch == \A t \in Thread : WorkerMatches(t)

\* The numbers of transactions: erased, committed by a worker, met by it.
Numbers ==
    /\ Len(committed) = txId
    /\ Len(ws_list) = txId - (deletedTxId + 1)
    /\ \A i \in DOMAIN ws_list : ws_list[i] = committed[deletedTxId + 1 + i].writes
    /\ \A t \in Thread : progress[t] = 0 \/ progress[t] < txId
    /\ \A t \in Thread : deletedTxId <= progress[t]
    /\ \A t \in Thread : Active(t) =>
          /\ startTxId[t] <= txId
          /\ startTxId[t] > 0 => progress[t] < startTxId[t]

\* Word w of record k has been stored by the transaction in writePhase.
Stored(t, k, w) ==
    /\ pc[t] = "store"
    /\ \E i \in DOMAIN write_set[t] :
          /\ write_set[t][i] = k
          /\ i < pos[t] \/ (i = pos[t] /\ w < word[t])

\* A word comes from the transaction in writePhase, or from the last to commit.
WordsHold ==
    \A k \in Key, w \in 1 .. WORDS :
        /\ (\E t \in Thread : Stored(t, k, w)) => value[k][w] = txId
        /\ (\A t \in Thread : ~Stored(t, k, w)) => value[k][w] = LastWriter(k)

\* The record has been written since t began, or is being written.
Overwritten(t, k) ==
    \/ \E j \in startTxId[t] .. txId - 1 : k \in committed[j + 1].writes
    \/ \E u \in Thread : u # t /\ pc[u] = "store" /\ k \in ToSet(write_set[u])

\* A word that has been read is of the last version, or validation will tell.
ReadsFresh ==
    \A t \in Thread : Active(t) =>
        \A r \in read_set[t] : Overwritten(t, r.key) \/ r.ver = LastWriter(r.key)

\* A transaction that passes validation has read nothing that was overwritten.
ReadsValid ==
    \A t \in Thread : pc[t] = "store" =>
        \A k \in read_keys[t] : ~Overwritten(t, k)

Sets == TypeOK /\ LockHeld /\ WorkersMatch /\ Numbers

Inv == Sets /\ WordsHold /\ ReadsFresh /\ ReadsValid

-----------------------------------------------------------------------------
(* Minimum and maximum *)

\* gc: the slowest worker is the least advanced one.
LEMMA SlowestIsLeast ==
    ASSUME TypeOK, NEW t \in Thread
    PROVE  slowest \in Nat /\ \A u \in Thread : slowest <= progress[u]
<1> DEFINE S == {progress[u] : u \in Thread}
<1>1. S \subseteq Nat /\ S # {}
  BY DEF TypeOK
<1>2. Min(S) \in S /\ \A y \in S : Min(S) <= y
  BY <1>1, HasMinimum DEF Min
<1> QED
  BY <1>1, <1>2 DEF slowest

\* The last writer is what it was, but for the records of a new commit.
LEMMA LastWriterNext ==
    ASSUME TypeOK, Numbers, NEW W, NEW c,
           committed' = Append(committed, c), c.writes = W, txId' = txId + 1,
           NEW k \in Key
    PROVE  LastWriter(k)' = IF k \in W THEN txId ELSE LastWriter(k)
<1> DEFINE S == {Loaded} \cup {j \in 0 .. txId - 1 : k \in committed[j + 1].writes}
           T == {Loaded} \cup {j \in 0 .. txId : k \in committed'[j + 1].writes}
<1>1. txId \in Nat /\ Len(committed) = txId
  BY DEF TypeOK, Numbers
<1>2. committed'[txId + 1] = c /\ \A j \in 0 .. txId - 1 : committed'[j + 1] = committed[j + 1]
  <2>1. \A i \in 1 .. Len(committed) : committed'[i] = committed[i]
    BY AppendProperties DEF TypeOK
  <2>2. committed'[Len(committed) + 1] = c
    BY AppendProperties DEF TypeOK
  <2>3. \A j \in 0 .. txId - 1 : j + 1 \in 1 .. Len(committed)
    BY <1>1
  <2> QED
    BY <1>1, <2>1, <2>2, <2>3
<1>3. T = S \cup (IF k \in W THEN {txId} ELSE {})
  <2>1. 0 .. txId = (0 .. txId - 1) \cup {txId}
    BY <1>1
  <2>2. \A j \in 0 .. txId - 1 : committed'[j + 1].writes = committed[j + 1].writes
    BY <1>2
  <2>3. k \in committed'[txId + 1].writes <=> k \in W
    BY <1>2
  <2> QED
    BY <2>1, <2>2, <2>3
<1>4. LastWriter(k)' = Max(T)
  <2>1. txId' - 1 = txId
    BY <1>1
  <2>2. LastWriter(k)' =
            Max({Loaded} \cup {j \in 0 .. txId' - 1 : k \in committed'[j + 1].writes})
    BY DEF LastWriter, Loaded
  <2> QED
    BY <2>1, <2>2
<1>5. LastWriter(k) = Max(S)
  BY DEF LastWriter
<1>6. CASE k \notin W
  BY <1>3, <1>4, <1>5, <1>6
<1>7. CASE k \in W
  <2>1. txId \in T /\ \A y \in T : y \in Int /\ txId >= y
    <3>1. T = S \cup {txId}
      BY <1>3, <1>7
    <3>2. \A y \in S : y \in Int /\ txId >= y
      BY <1>1 DEF Loaded
    <3> HIDE DEF S, T
    <3> QED
      BY <1>1, <3>1, <3>2
  <2>2. \A x \in T : (\A y \in T : x >= y) => x = txId
    <3> HIDE DEF T
    <3> QED
      BY <1>1, <2>1
  <2>3. Max(T) = txId
    <3> HIDE DEF T
    <3> QED
      BY <2>1, <2>2 DEF Max
  <2> QED
    BY <1>4, <1>7, <2>3
<1> QED
  BY <1>6, <1>7

-----------------------------------------------------------------------------
(* Types *)

\* The operation a worker is at.
LEMMA OperationType ==
    ASSUME TypeOK, NEW t \in Thread, pos[t] <= Len(pro_set[t])
    PROVE  pro_set[t][pos[t]] \in Operation /\ OpKey(t) \in Key
<1>1. pro_set[t] \in Seq(Operation) /\ pos[t] \in 1 .. Len(pro_set[t])
  BY DEF TypeOK
<1>2. pro_set[t][pos[t]] \in Operation
  BY <1>1
<1> QED
  BY <1>2 DEF OpKey, Operation

\* readWord, store: the next word, or the first.
LEMMA WordType ==
    ASSUME TypeOK, NEW t \in Thread,
           \/ word[t] < WORDS /\ word' = [word EXCEPT ![t] = @ + 1]
           \/ word' = [word EXCEPT ![t] = 1]
    PROVE  word' \in [Thread -> 1 .. WORDS]
<1>1. WORDS \in Nat \ {0} /\ word \in [Thread -> 1 .. WORDS]
  BY OCCAssumption DEF TypeOK
<1>2. CASE word[t] < WORDS /\ word' = [word EXCEPT ![t] = @ + 1]
  <2>1. word[t] + 1 \in 1 .. WORDS
    BY <1>1, <1>2
  <2> QED
    BY <1>1, <1>2, <2>1
<1>3. CASE word' = [word EXCEPT ![t] = 1]
  BY <1>1, <1>3
<1> QED
  BY <1>2, <1>3

LEMMA PositionType ==
    ASSUME TypeOK, NEW t \in Thread, UNCHANGED pos \/ Advance(t)
    PROVE  pos' \in [Thread -> Nat \ {0}]
<1>1. pos \in [Thread -> Nat \ {0}] /\ pos[t] + 1 \in Nat \ {0}
  BY DEF TypeOK
<1> QED
  BY <1>1 DEF Advance

\* publish, gc: what is left of ws_list is a sequence of write sets.
LEMMA SuffixType ==
    ASSUME TypeOK, NEW i \in Nat \ {0}, i <= Len(ws_list) + 1
    PROVE  SubSeq(ws_list, i, Len(ws_list)) \in Seq(SUBSET Key)
  BY DEF TypeOK

LEMMA TypesStep ==
    ASSUME Sets, [Next]_vars
    PROVE  TypeOK'
<1> USE DEF Sets, globals, sets, Goto, Advance
<1>1. CASE Quit \/ Joined \/ UNCHANGED vars
  BY <1>1 DEF Quit, Joined, vars, TypeOK
<1>2. ASSUME NEW t \in Thread, NextProcedure(t)
      PROVE  TypeOK'
  BY <1>2, OCCAssumption DEF NextProcedure, TypeOK
<1>3. ASSUME NEW t \in Thread, leave(t) \/ begin(t) \/ readLocal(t)
      PROVE  TypeOK'
  <2>1. CASE leave(t)
    BY <2>1 DEF leave, TypeOK
  <2>2. CASE begin(t)
    BY <2>2 DEF begin, TypeOK
  <2>3. CASE readLocal(t)
    BY <2>3, PositionType DEF readLocal, TypeOK
  <2> QED
    BY <1>3, <2>1, <2>2, <2>3
<1>4. ASSUME NEW t \in Thread, readWord(t)
      PROVE  TypeOK'
  <2>1. OpKey(t) \in Key
    BY <1>4, OperationType DEF readWord, Executes
  <2> DEFINE r == [key |-> OpKey(t), ver |-> value[OpKey(t)][word[t]]]
  <2>2. r \in [key : Key, ver : Version]
    <3>1. value[OpKey(t)] \in [1 .. WORDS -> Version] /\ word[t] \in 1 .. WORDS
      BY <2>1 DEF TypeOK
    <3>2. value[OpKey(t)][word[t]] \in Version
      BY <3>1
    <3> QED
      BY <2>1, <3>2
  <2>3. read_set' = [read_set EXCEPT ![t] = @ \cup {r}]
    BY <1>4 DEF readWord
  <2>4. read_set' \in [Thread -> SUBSET [key : Key, ver : Version]]
    <3> HIDE DEF r
    <3> QED
      BY <2>2, <2>3 DEF TypeOK
  <2>5. word' \in [Thread -> 1 .. WORDS]
    BY <1>4, WordType DEF readWord
  <2>6. pos' \in [Thread -> Nat \ {0}]
    BY <1>4, PositionType DEF readWord
  <2>7. read_keys' \in [Thread -> SUBSET Key]
    <3>1. UNCHANGED read_keys \/ read_keys' = [read_keys EXCEPT ![t] = @ \cup {OpKey(t)}]
      BY <1>4 DEF readWord
    <3>2. read_keys[t] \cup {OpKey(t)} \in SUBSET Key
      BY <2>1 DEF TypeOK
    <3> QED
      BY <3>1, <3>2 DEF TypeOK
  <2>8. UNCHANGED << quit, global_lock, txId, deletedTxId, ws_list, progress, value, pc, pro_set,
                     startTxId, write_set, txn, committed >>
    BY <1>4 DEF readWord
  <2> QED
    BY <2>4, <2>5, <2>6, <2>7, <2>8 DEF TypeOK
<1>5. ASSUME NEW t \in Thread, write(t)
      PROVE  TypeOK'
  <2>1. OpKey(t) \in Key
    BY <1>5, OperationType DEF write, Executes
  <2>2. write_set' \in [Thread -> Seq(Key)]
    BY <1>5, <2>1 DEF write, TypeOK
  <2> QED
    BY <1>5, <2>2 DEF write, TypeOK
<1>6. ASSUME NEW t \in Thread, lock(t) \/ valid(t)
      PROVE  TypeOK'
  <2>1. CASE lock(t)
    BY <2>1 DEF lock, WriteLock, TypeOK
  <2>2. CASE valid(t)
    BY <2>2 DEF valid, TypeOK
  <2> QED
    BY <1>6, <2>1, <2>2
<1>7. ASSUME NEW t \in Thread, abort(t)
      PROVE  TypeOK'
  <2>1. global_lock' \in {WriteLocked, Free}
    BY <1>7 DEF abort, LockHeld, Critical, WriteUnlock, WriteLocked, Free
  <2>2. << >> \in Seq(Key)
    OBVIOUS
  <2> QED
    BY <1>7, <2>1, <2>2 DEF abort, TypeOK
<1>8. ASSUME NEW t \in Thread, store(t)
      PROVE  TypeOK'
  <2>1. write_set[t][pos[t]] \in Key
    BY <1>8 DEF store, TypeOK
  <2>2. value' \in [Key -> [1 .. WORDS -> Version]]
    BY <1>8, <2>1 DEF store, TypeOK, Version
  <2>3. word' \in [Thread -> 1 .. WORDS] /\ pos' \in [Thread -> Nat \ {0}]
    BY <1>8, WordType, PositionType DEF store
  <2> QED
    BY <1>8, <2>2, <2>3 DEF store, TypeOK
<1>9. ASSUME NEW t \in Thread, publish(t)
      PROVE  TypeOK'
  <2>1. ToSet(write_set[t]) \in SUBSET Key /\ << >> \in Seq(Key)
    BY DEF ToSet, TypeOK
  <2> DEFINE c == [id |-> txId, reads |-> read_set[t], writes |-> ToSet(write_set[t])]
             Transaction == [id : Nat, reads : SUBSET [key : Key, ver : Version], writes : SUBSET Key]
  <2>2. c \in Transaction
    BY <2>1 DEF TypeOK
  <2>3. committed' \in Seq(Transaction)
    <3>1. committed' = Append(committed, c)
      BY <1>9 DEF publish
    <3> HIDE DEF c
    <3> QED
      BY <2>2, <3>1 DEF TypeOK
  <2>4. ws_list' \in Seq(SUBSET Key)
    BY <1>9, <2>1 DEF publish, TypeOK
  <2> HIDE DEF c
  <2> QED
    BY <1>9, <2>1, <2>3, <2>4 DEF publish, TypeOK
<1>10. ASSUME NEW t \in Thread, gc(t)
       PROVE  TypeOK'
  <2>1. global_lock' \in {WriteLocked, Free}
    BY <1>10 DEF gc, LockHeld, Critical, WriteUnlock, WriteLocked, Free
  <2>2. txn' \in [Thread -> 0 .. MaxTxn]
    <3>1. txn[t] + 1 \in 0 .. MaxTxn
      <4>1. txn[t] < MaxTxn /\ txn[t] \in 0 .. MaxTxn
        BY <1>10 DEF gc, WorkersMatch, WorkerMatches, TypeOK
      <4> QED
        BY <4>1, OCCAssumption
    <3> QED
      BY <1>10, <3>1 DEF gc, TypeOK
  <2>3. ws_list' \in Seq(SUBSET Key) /\ deletedTxId' \in Version
    <3>1. CASE UNCHANGED << ws_list, deletedTxId >>
      BY <3>1 DEF TypeOK
    <3>2. CASE /\ Len(ws_list) > OCC_GC_THRESHOLD /\ slowest > deletedTxId
               /\ ws_list' = SubSeq(ws_list, slowest - deletedTxId + 1, Len(ws_list))
               /\ deletedTxId' = slowest
      <4>1. slowest \in Nat /\ slowest <= progress[t]
        BY SlowestIsLeast
      <4>2. slowest - deletedTxId + 1 \in Nat \ {0}
        BY <3>2, <4>1 DEF TypeOK, Version, Loaded
      <4>3. slowest - deletedTxId + 1 <= Len(ws_list) + 1
        <5>1. Len(ws_list) = txId - (deletedTxId + 1) /\ txId \in Nat /\ deletedTxId \in Int
          BY DEF Numbers, TypeOK, Version, Loaded
        <5>2. progress[t] \in Nat /\ (progress[t] = 0 \/ progress[t] < txId)
          BY DEF Numbers, TypeOK
        <5>3. slowest < txId
          BY <3>2, <4>1, <5>1, <5>2, OCCAssumption DEF TypeOK, Version, Loaded
        <5> QED
          BY <4>1, <5>1, <5>3
      <4> QED
        BY <3>2, <4>1, <4>2, <4>3, SuffixType DEF Version
    <3> QED
      BY <1>10, <3>1, <3>2 DEF gc
  <2> QED
    BY <1>10, <2>1, <2>2, <2>3 DEF gc, TypeOK
<1> QED
  BY <1>1, <1>2, <1>3, <1>4, <1>5, <1>6, <1>7, <1>8, <1>9, <1>10 DEF Next, worker

-----------------------------------------------------------------------------
(* The global lock *)

LEMMA LockStep ==
    ASSUME TypeOK, LockHeld, [Next]_vars
    PROVE  LockHeld'
<1> USE DEF Goto, Critical, WriteLocked, Free
<1>1. ASSUME UNCHANGED << pc, global_lock >>
      PROVE  LockHeld'
  BY <1>1 DEF LockHeld
<1>2. ASSUME NEW t \in Thread, NEW label \in {"next", "retry", "run", "done"},
             ~Critical(t), UNCHANGED global_lock, pc' = [pc EXCEPT ![t] = label]
      PROVE  LockHeld'
  BY <1>2 DEF LockHeld, TypeOK
<1>3. ASSUME NEW t \in Thread, lock(t)
      PROVE  LockHeld'
  <2>1. \A u \in Thread : ~Critical(u)
    BY <1>3 DEF lock, CanWriteLock, LockHeld
  <2> QED
    BY <1>3, <2>1 DEF lock, WriteLock, LockHeld, TypeOK
<1>4. ASSUME NEW t \in Thread, valid(t) \/ publish(t)
      PROVE  LockHeld'
  <2>1. /\ Critical(t) /\ UNCHANGED global_lock
        /\ \E label \in {"store", "gc"} : pc' = [pc EXCEPT ![t] = label]
    BY <1>4 DEF valid, publish
  <2>2. \A u \in Thread : Critical(u)' <=> Critical(u)
    BY <2>1 DEF TypeOK
  <2> QED
    BY <2>1, <2>2 DEF LockHeld
<1>5. ASSUME NEW t \in Thread, abort(t) \/ gc(t)
      PROVE  LockHeld'
  <2>1. Critical(t) /\ \E label \in {"retry", "next"} : pc' = [pc EXCEPT ![t] = label]
    BY <1>5 DEF abort, gc
  <2>2. \A u \in Thread : ~Critical(u)'
    BY <2>1 DEF LockHeld, TypeOK
  <2> QED
    BY <2>2 DEF LockHeld
<1>6. CASE Quit \/ Joined \/ UNCHANGED vars
  BY <1>1, <1>6 DEF Quit, Joined, vars
<1>7. ASSUME NEW t \in Thread, NextProcedure(t) \/ leave(t) \/ begin(t)
      PROVE  LockHeld'
  BY <1>2, <1>7 DEF NextProcedure, leave, begin
<1>8. ASSUME NEW t \in Thread, readLocal(t) \/ readWord(t) \/ write(t) \/ store(t)
      PROVE  LockHeld'
  BY <1>1, <1>8 DEF readLocal, readWord, write, store
<1> QED
  BY <1>3, <1>4, <1>5, <1>6, <1>7, <1>8 DEF Next, worker

-----------------------------------------------------------------------------
(* What a worker's sets hold *)

\* A worker is not disturbed by what leaves its own variables alone.
LEMMA WorkerKept ==
    ASSUME NEW u \in Thread, WorkerMatches(u),
           pc'[u] = pc[u], pro_set'[u] = pro_set[u], pos'[u] = pos[u], word'[u] = word[u],
           read_set'[u] = read_set[u], read_keys'[u] = read_keys[u],
           write_set'[u] = write_set[u], txn'[u] = txn[u]
    PROVE  WorkerMatches(u)'
  BY DEF WorkerMatches, Active, Reading, Executes, OpKey, searchReadSet, searchWriteSet

LEMMA OthersKept ==
    ASSUME TypeOK, WorkersMatch, NEW t \in Thread, worker(t), NEW u \in Thread, u # t
    PROVE  WorkerMatches(u)'
<1> USE DEF sets, Goto, Advance
<1>1. pc'[u] = pc[u] /\ pro_set'[u] = pro_set[u] /\ pos'[u] = pos[u] /\ word'[u] = word[u]
  BY DEF worker, NextProcedure, leave, begin, readLocal, readWord, write, lock, valid, abort,
         store, publish, gc, TypeOK
<1>2. read_set'[u] = read_set[u] /\ read_keys'[u] = read_keys[u]
  BY DEF worker, NextProcedure, leave, begin, readLocal, readWord, write, lock, valid, abort,
         store, publish, gc, TypeOK
<1>3. write_set'[u] = write_set[u] /\ txn'[u] = txn[u]
  BY DEF worker, NextProcedure, leave, begin, readLocal, readWord, write, lock, valid, abort,
         store, publish, gc, TypeOK
<1> QED
  BY <1>1, <1>2, <1>3, WorkerKept DEF WorkersMatch

LEMMA WorkerStep ==
    ASSUME TypeOK, WorkersMatch, NEW t \in Thread, worker(t)
    PROVE  WorkerMatches(t)'
<1> USE DEF sets, Goto, Advance
<1>0. WorkerMatches(t)
  BY DEF WorkersMatch
<1>1. CASE NextProcedure(t) \/ leave(t) \/ gc(t)
  <2>1. pc[t] \notin {"run", "store", "validate"} /\ pc'[t] \notin {"run", "store", "validate"}
    BY <1>1 DEF NextProcedure, leave, gc, TypeOK
  <2>2. UNCHANGED << word, read_set, read_keys, write_set >>
    BY <1>1 DEF NextProcedure, leave, gc
  <2>3. ~(word[t] > 1) /\ ~Active(t) /\ ~Active(t)'
    BY <1>0, <2>1 DEF WorkerMatches, Reading, Executes, Active
  <2>4. pc'[t] \notin {"next", "done"} => txn'[t] < MaxTxn
    BY <1>1 DEF NextProcedure, leave, gc, TypeOK
  <2> QED
    BY <1>0, <2>2, <2>3, <2>4 DEF WorkerMatches
<1>2. CASE begin(t)
  <2>1. pc[t] = "retry" /\ pc'[t] = "run" /\ UNCHANGED << word, sets, txn >>
    BY <1>2 DEF begin, TypeOK
  <2>2. ~(word[t] > 1) /\ read_set[t] = {} /\ read_keys[t] = {}
    BY <1>0, <2>1 DEF WorkerMatches, Reading, Executes, Active
  <2> QED
    BY <1>0, <2>1, <2>2 DEF WorkerMatches, Active
<1>3. CASE readLocal(t) \/ lock(t)
  <2>1. /\ pc[t] = "run" /\ ~Reading(t) /\ pc'[t] \in {"run", "validate"}
        /\ UNCHANGED << word, sets, txn >>
    BY <1>3 DEF readLocal, lock, Reading, Executes, TypeOK
  <2>2. ~(word[t] > 1)
    BY <1>0, <2>1 DEF WorkerMatches
  <2> QED
    BY <1>0, <2>1, <2>2 DEF WorkerMatches, Active
<1>4. CASE write(t)
  <2>1. /\ pc[t] = "run" /\ ~Reading(t) /\ pc'[t] = "run"
        /\ UNCHANGED << word, read_set, read_keys, txn >>
    BY <1>4 DEF write, Reading, Executes
  <2>2. ~(word[t] > 1)
    BY <1>0, <2>1 DEF WorkerMatches
  <2> QED
    BY <1>0, <2>1, <2>2 DEF WorkerMatches, Active
<1>5. CASE readWord(t)
  <2> DEFINE k == OpKey(t)
             r == [key |-> k, ver |-> value[k][word[t]]]
  <2>1. pc[t] = "run" /\ pc'[t] = "run" /\ Reading(t) /\ UNCHANGED << txn, pro_set, write_set >>
    BY <1>5 DEF readWord, Reading, Executes
  <2>2. read_set'[t] = read_set[t] \cup {r} /\ r.key = k
    BY <1>5 DEF readWord, TypeOK
  <2>3. \A q \in read_set[t] : q.key \in read_keys[t] \/ q.key = k
    BY <1>0 DEF WorkerMatches
  <2> HIDE DEF r
  <2>4. CASE UNCHANGED << read_keys, pos >> /\ word' = [word EXCEPT ![t] = @ + 1]
    <3>1. Reading(t)' /\ OpKey(t)' = k
      BY <2>1, <2>4 DEF Reading, Executes, searchReadSet, searchWriteSet, OpKey
    <3>2. word'[t] > 1
      BY <2>4 DEF TypeOK
    <3>3. txn'[t] < MaxTxn /\ Active(t)'
      BY <1>0, <2>1 DEF WorkerMatches, Active
    <3>4. \A j \in read_keys'[t] : \E q \in read_set'[t] : q.key = j
      BY <1>0, <2>2, <2>4 DEF WorkerMatches
    <3>5. \A q \in read_set'[t] : q.key \in read_keys'[t] \/ q.key = k
      BY <2>2, <2>3, <2>4
    <3> QED
      BY <3>1, <3>2, <3>3, <3>4, <3>5 DEF WorkerMatches
  <2>5. CASE /\ word' = [word EXCEPT ![t] = 1]
             /\ read_keys' = [read_keys EXCEPT ![t] = @ \cup {k}]
    <3>1. word'[t] = 1 /\ read_keys'[t] = read_keys[t] \cup {k}
      BY <2>5 DEF TypeOK
    <3>2. txn'[t] < MaxTxn /\ Active(t)'
      BY <1>0, <2>1 DEF WorkerMatches, Active
    <3>3. \A j \in read_keys'[t] : \E q \in read_set'[t] : q.key = j
      BY <1>0, <2>2, <3>1 DEF WorkerMatches
    <3>4. \A q \in read_set'[t] : q.key \in read_keys'[t]
      BY <2>2, <2>3, <3>1
    <3> QED
      BY <3>1, <3>2, <3>3, <3>4 DEF WorkerMatches
  <2> QED
    BY <1>5, <2>4, <2>5 DEF readWord
<1>6. CASE valid(t)
  <2>1. pc[t] = "validate" /\ pc'[t] = "store" /\ UNCHANGED << word, sets, txn >>
    BY <1>6 DEF valid, TypeOK
  <2>2. ~(word[t] > 1)
    BY <1>0, <2>1 DEF WorkerMatches, Reading, Executes
  <2> QED
    BY <1>0, <2>1, <2>2 DEF WorkerMatches, Active
<1>7. CASE abort(t) \/ publish(t)
  <2>1. /\ pc[t] \in {"validate", "store"} /\ pc'[t] \in {"retry", "gc"}
        /\ pc[t] = "store" => pos[t] > Len(write_set[t])
        /\ UNCHANGED << word, txn >>
    BY <1>7 DEF abort, publish, TypeOK
  <2>2. read_set'[t] = {} /\ read_keys'[t] = {} /\ write_set'[t] = << >>
    BY <1>7 DEF abort, publish, TypeOK
  <2>3. ~(word[t] > 1)
    BY <1>0, <2>1 DEF WorkerMatches, Reading, Executes, TypeOK
  <2> QED
    BY <1>0, <2>1, <2>2, <2>3 DEF WorkerMatches
<1>8. CASE store(t)
  <2>1. pc[t] = "store" /\ pos[t] <= Len(write_set[t]) /\ UNCHANGED << pc, sets, txn >>
    BY <1>8 DEF store
  <2>2. UNCHANGED pos \/ word'[t] = 1
    BY <1>8 DEF store, TypeOK
  <2>3. \A q \in read_set[t] : q.key \in read_keys[t]
    BY <1>0, <2>1 DEF WorkerMatches, Reading, Executes
  <2> QED
    BY <1>0, <2>1, <2>2, <2>3 DEF WorkerMatches, Active
<1> QED
  BY <1>1, <1>2, <1>3, <1>4, <1>5, <1>6, <1>7, <1>8 DEF worker

LEMMA WorkersStep ==
    ASSUME TypeOK, WorkersMatch, [Next]_vars
    PROVE  WorkersMatch'
<1>1. ASSUME NEW t \in Thread, worker(t)
      PROVE  WorkersMatch'
  BY <1>1, OthersKept, WorkerStep DEF WorkersMatch
<1>2. CASE Quit \/ Joined \/ UNCHANGED vars
  BY <1>2, WorkerKept DEF WorkersMatch, Quit, Joined, vars, sets
<1> QED
  BY <1>1, <1>2 DEF Next

-----------------------------------------------------------------------------
(* The numbers of transactions *)

\* Steps that neither commit nor collect.
LEMMA NumbersKept ==
    ASSUME TypeOK, Numbers, UNCHANGED << globals, committed >>,
           \A t \in Thread : Active(t)' =>
               \/ Active(t) /\ startTxId'[t] = startTxId[t]
               \/ startTxId'[t] = txId
    PROVE  Numbers'
<1> USE DEF globals
<1>1. ASSUME NEW t \in Thread, Active(t)'
      PROVE  startTxId'[t] <= txId /\ (startTxId'[t] > 0 => progress[t] < startTxId'[t])
  <2>1. CASE Active(t) /\ startTxId'[t] = startTxId[t]
    BY <2>1 DEF Numbers
  <2>2. CASE startTxId'[t] = txId
    BY <2>2 DEF Numbers, TypeOK
  <2> QED
    BY <1>1, <2>1, <2>2
<1>2. \A i \in DOMAIN ws_list' : ws_list'[i] = committed'[deletedTxId' + 1 + i].writes
  BY DEF Numbers
<1> QED
  BY <1>1, <1>2 DEF Numbers

\* publish: the write set is listed and the transaction counted.
LEMMA PublishNumbers ==
    ASSUME TypeOK, Numbers, NEW t \in Thread, publish(t)
    PROVE  Numbers'
<1> USE DEF globals, sets, Goto
<1> DEFINE c == [id |-> txId, reads |-> read_set[t], writes |-> ToSet(write_set[t])]
<1>1. txId \in Nat /\ deletedTxId \in Int /\ Len(committed) = txId
      /\ Len(ws_list) = txId - (deletedTxId + 1)
  BY DEF TypeOK, Version, Loaded, Numbers
<1>2. /\ committed' = Append(committed, c) /\ ws_list' = Append(ws_list, c.writes)
      /\ txId' = txId + 1 /\ deletedTxId' = deletedTxId
      /\ progress' = [progress EXCEPT ![t] = txId]
      /\ pc' = [pc EXCEPT ![t] = "gc"] /\ startTxId' = startTxId
  BY DEF publish
<1> HIDE DEF c
<1>3. /\ Len(committed') = Len(committed) + 1
      /\ \A i \in 1 .. Len(committed) : committed'[i] = committed[i]
      /\ committed'[Len(committed) + 1] = c
  BY <1>2, AppendProperties DEF TypeOK
<1>4. /\ Len(ws_list') = Len(ws_list) + 1 /\ DOMAIN ws_list' = 1 .. Len(ws_list) + 1
      /\ \A i \in 1 .. Len(ws_list) : ws_list'[i] = ws_list[i]
      /\ ws_list'[Len(ws_list) + 1] = c.writes
  <2>1. ws_list' \in Seq(UNION {SUBSET Key, {c.writes}})
    BY <1>2 DEF TypeOK
  <2>2. ws_list \in Seq(UNION {SUBSET Key, {c.writes}})
    BY DEF TypeOK
  <2> QED
    BY <1>2, <2>1, <2>2
<1>5. ASSUME NEW i \in DOMAIN ws_list'
      PROVE  ws_list'[i] = committed'[deletedTxId' + 1 + i].writes
  <2>1. CASE i = Len(ws_list) + 1
    <3>1. deletedTxId' + 1 + i = Len(committed) + 1
      BY <1>1, <1>2, <2>1
    <3> QED
      BY <1>3, <1>4, <2>1, <3>1
  <2>2. CASE i \in 1 .. Len(ws_list)
    <3>1. ws_list[i] = committed[deletedTxId + 1 + i].writes
      BY <2>2 DEF Numbers, TypeOK
    <3>2. deletedTxId + 1 \in Nat
      BY DEF TypeOK, Version, Loaded
    <3>3. deletedTxId + 1 + i \in 1 .. Len(committed)
      BY ONLY <1>1, <2>2, <3>2
    <3> QED
      BY <1>2, <1>3, <1>4, <2>2, <3>1, <3>3
  <2> QED
    BY <1>1, <1>4, <2>1, <2>2
<1>t. /\ progress \in [Thread -> Nat] /\ startTxId \in [Thread -> Nat]
      /\ \A u \in Thread : progress[u] = 0 \/ progress[u] < txId
      /\ \A u \in Thread : deletedTxId <= progress[u]
      /\ \A u \in Thread : Active(u) =>
            startTxId[u] <= txId /\ (startTxId[u] > 0 => progress[u] < startTxId[u])
  BY DEF Numbers, TypeOK
<1>6. \A u \in Thread : progress'[u] = 0 \/ progress'[u] < txId'
  BY ONLY <1>1, <1>2, <1>t
<1>7. \A u \in Thread : deletedTxId' <= progress'[u]
  <2>1. deletedTxId <= txId
    <3>1. Len(ws_list) \in Nat
      BY DEF TypeOK
    <3> QED
      BY ONLY <1>1, <3>1
  <2> QED
    BY ONLY <1>1, <1>2, <1>t, <2>1
<1>8. ASSUME NEW u \in Thread, Active(u)'
      PROVE  startTxId'[u] <= txId' /\ (startTxId'[u] > 0 => progress'[u] < startTxId'[u])
  <2>1. u # t /\ Active(u)
    BY <1>2, <1>8 DEF Active, TypeOK
  <2>2. startTxId'[u] = startTxId[u] /\ progress'[u] = progress[u]
    BY ONLY <1>2, <1>t, <2>1
  <2>3. startTxId[u] <= txId /\ startTxId[u] \in Nat
        /\ (startTxId[u] > 0 => progress[u] < startTxId[u])
    BY ONLY <1>t, <2>1
  <2> QED
    BY ONLY <1>1, <1>2, <2>2, <2>3
<1>9. Len(committed') = txId' /\ Len(ws_list') = txId' - (deletedTxId' + 1)
  BY <1>1, <1>2, <1>3, <1>4
<1> QED
  BY <1>5, <1>6, <1>7, <1>8, <1>9 DEF Numbers

\* gc: the write sets up to the slowest worker's transaction are erased.
LEMMA CollectNumbers ==
    ASSUME TypeOK, Numbers, NEW t \in Thread, gc(t)
    PROVE  Numbers'
<1> USE DEF globals, sets, Goto
<1>1. /\ txId \in Nat /\ deletedTxId \in Int /\ deletedTxId >= -1
      /\ Len(ws_list) = txId - (deletedTxId + 1) /\ Len(ws_list) \in Nat
  BY DEF TypeOK, Version, Loaded, Numbers
<1>2. UNCHANGED << txId, progress, startTxId, committed >> /\ pc' = [pc EXCEPT ![t] = "next"]
  BY DEF gc
<1>3. \A u \in Thread : Active(u)' => Active(u)
  BY <1>2 DEF Active, TypeOK
<1>4. CASE UNCHANGED << ws_list, deletedTxId >>
  BY <1>2, <1>3, <1>4, NumbersKept
<1>5. CASE /\ Len(ws_list) > OCC_GC_THRESHOLD /\ slowest > deletedTxId
           /\ ws_list' = SubSeq(ws_list, slowest - deletedTxId + 1, Len(ws_list))
           /\ deletedTxId' = slowest
  <2> DEFINE n == slowest - deletedTxId
  <2>1. slowest \in Nat /\ \A u \in Thread : slowest <= progress[u]
    BY SlowestIsLeast
  <2>2. slowest < txId
    <3>1. progress[t] \in Nat /\ (progress[t] = 0 \/ progress[t] < txId)
      BY DEF Numbers, TypeOK
    <3>2. txId > 0
      BY <1>1, <1>5, OCCAssumption
    <3> QED
      BY <1>1, <2>1, <3>1, <3>2
  <2>3. n \in Nat \ {0} /\ n <= Len(ws_list)
    BY <1>1, <1>5, <2>1, <2>2
  <2>4. /\ Len(ws_list') = Len(ws_list) - n
        /\ DOMAIN ws_list' = 1 .. Len(ws_list) - n
        /\ \A i \in 1 .. Len(ws_list) - n : ws_list'[i] = ws_list[n + i]
    <3> HIDE DEF n
    <3>1. ws_list' = SubSeq(ws_list, n + 1, Len(ws_list))
      BY <1>5 DEF n
    <3>2. ws_list \in Seq(SUBSET Key)
      BY DEF TypeOK
    <3> QED
      BY ONLY <2>3, <3>1, <3>2
  <2>5. ASSUME NEW i \in DOMAIN ws_list'
        PROVE  ws_list'[i] = committed'[deletedTxId' + 1 + i].writes
    <3>1. n + i \in DOMAIN ws_list
      <4>1. ws_list \in Seq(SUBSET Key)
        BY DEF TypeOK
      <4> QED
        BY ONLY <2>3, <2>4, <2>5, <4>1
    <3>2. ws_list[n + i] = committed[deletedTxId + 1 + (n + i)].writes
      BY <3>1 DEF Numbers
    <3>3. deletedTxId + 1 + (n + i) = deletedTxId' + 1 + i
      BY <1>1, <1>5, <2>1, <2>4
    <3> QED
      BY <1>2, <2>4, <3>2, <3>3
  <2>6. Len(ws_list') = txId' - (deletedTxId' + 1)
    BY <1>1, <1>2, <1>5, <2>1, <2>4
  <2> QED
    BY <1>2, <1>3, <1>5, <2>1, <2>5, <2>6 DEF Numbers
<1> QED
  BY <1>4, <1>5 DEF gc

LEMMA NumbersStep ==
    ASSUME TypeOK, Numbers, [Next]_vars
    PROVE  Numbers'
<1> USE DEF Goto, Advance
<1>1. CASE Quit \/ Joined \/ UNCHANGED vars
  BY <1>1, NumbersKept DEF Quit, Joined, vars, Active, globals
<1>2. ASSUME NEW t \in Thread, NextProcedure(t) \/ leave(t) \/ abort(t)
      PROVE  Numbers'
  <2>1. UNCHANGED << globals, startTxId, committed >>
    BY <1>2 DEF NextProcedure, leave, abort
  <2>2. \A u \in Thread : Active(u)' => Active(u)
    BY <1>2 DEF NextProcedure, leave, abort, Active, TypeOK
  <2> QED
    BY <2>1, <2>2, NumbersKept
<1>3. ASSUME NEW t \in Thread, begin(t)
      PROVE  Numbers'
  <2>1. UNCHANGED << globals, committed >>
    BY <1>3 DEF begin
  <2>2. \A u \in Thread : Active(u)' =>
            (Active(u) /\ startTxId'[u] = startTxId[u]) \/ startTxId'[u] = txId
    BY <1>3 DEF begin, Active, TypeOK
  <2> QED
    BY <2>1, <2>2, NumbersKept
<1>4. ASSUME NEW t \in Thread,
             readLocal(t) \/ readWord(t) \/ write(t) \/ lock(t) \/ valid(t) \/ store(t)
      PROVE  Numbers'
  <2>1. UNCHANGED << globals, startTxId, committed >>
    BY <1>4 DEF readLocal, readWord, write, lock, valid, store
  <2>2. \A u \in Thread : Active(u)' => Active(u)
    BY <1>4 DEF readLocal, readWord, write, lock, valid, store, Active, TypeOK
  <2> QED
    BY <2>1, <2>2, NumbersKept
<1> QED
  BY <1>1, <1>2, <1>3, <1>4, PublishNumbers, CollectNumbers DEF Next, worker

-----------------------------------------------------------------------------
(* What does not depend on FirstSetsKept *)

LEMMA SetsInvariance == Spec => []Sets
<1>1. Init => Sets
  <2>1. ASSUME Init
        PROVE  TypeOK
    <3>1. 1 \in 1 .. WORDS /\ 0 \in 0 .. MaxTxn /\ -1 \in Version
      BY OCCAssumption DEF Version, Loaded
    <3>2. /\ quit \in BOOLEAN /\ txId \in Nat /\ global_lock \in {WriteLocked, Free}
          /\ deletedTxId \in Version /\ progress \in [Thread -> Nat]
      BY <2>1, <3>1 DEF Init
    <3>3. value \in [Key -> [1 .. WORDS -> Version]]
      BY <2>1, <3>1 DEF Init, Loaded
    <3>4. /\ word \in [Thread -> 1 .. WORDS] /\ txn \in [Thread -> 0 .. MaxTxn]
          /\ pos \in [Thread -> Nat \ {0}] /\ startTxId \in [Thread -> Nat]
      BY <2>1, <3>1 DEF Init
    <3>5. pc \in [Thread -> {"next", "retry", "run", "validate", "store", "gc", "done"}]
      BY <2>1 DEF Init
    <3>6. /\ read_set \in [Thread -> SUBSET [key : Key, ver : Version]]
          /\ read_keys \in [Thread -> SUBSET Key]
      BY <2>1 DEF Init
    <3>7. /\ ws_list \in Seq(SUBSET Key)
          /\ pro_set \in [Thread -> Seq(Operation)] /\ write_set \in [Thread -> Seq(Key)]
      BY <2>1 DEF Init
    <3>8. committed \in Seq([id : Nat, reads : SUBSET [key : Key, ver : Version],
                             writes : SUBSET Key])
      BY <2>1 DEF Init
    <3> QED
      BY <3>2, <3>3, <3>4, <3>5, <3>6, <3>7, <3>8 DEF TypeOK
  <2>2. Init => LockHeld /\ WorkersMatch
    BY DEF Init, LockHeld, Critical, WorkersMatch, WorkerMatches, Active
  <2>3. Init => Numbers
    BY DEF Init, Numbers, Active
  <2> QED
    BY <2>1, <2>2, <2>3 DEF Sets
<1>2. Sets /\ [Next]_vars => Sets'
  BY TypesStep, LockStep, WorkersStep, NumbersStep DEF Sets
<1> QED
  BY <1>1, <1>2, PTL DEF Spec

\* Every variable keeps its type: the lock is held by one worker at most and
\* released once, whatever validation and garbage collection do.
THEOREM TypeCorrect == Spec => []TypeOK
<1>1. Sets => TypeOK
  BY DEF Sets
<1> QED
  BY <1>1, SetsInvariance, PTL

\* What a worker compares with begins inside ws_list.
LEMMA StartsInside ==
    ASSUME Sets, FirstSetsKept, NEW t \in Thread, pc[t] \in {"run", "validate"}
    PROVE  beginIndex(t) >= 0
<1>1. startTxId[t] \in Nat /\ progress[t] \in Nat /\ deletedTxId \in Int
  BY DEF Sets, TypeOK, Version, Loaded
<1>2. CASE startTxId[t] = 0
  BY <1>1, <1>2 DEF FirstSetsKept, beginIndex
<1>3. CASE startTxId[t] > 0
  <2>1. progress[t] < startTxId[t] /\ deletedTxId <= progress[t]
    BY <1>3 DEF Sets, Numbers, Active
  <2> QED
    BY <1>1, <2>1 DEF beginIndex
<1> QED
  BY <1>1, <1>2, <1>3

\* gc erases no write set that a running worker has still to be compared with,
\* unless it is that of transaction 0 and the worker has committed nothing.
THEOREM WriteSetsAreKept == Spec /\ []FirstSetsKept => []WriteSetsKept
<1>1. Sets /\ FirstSetsKept => WriteSetsKept
  BY StartsInside DEF WriteSetsKept, Sets, Numbers
<1> QED
  BY <1>1, SetsInvariance, PTL

-----------------------------------------------------------------------------
(* What the records hold *)

LEMMA LastWriterKept ==
    ASSUME UNCHANGED << txId, committed >>, NEW k
    PROVE  LastWriter(k)' = LastWriter(k)
  BY DEF LastWriter, Loaded

LEMMA WordsKept ==
    ASSUME WordsHold, UNCHANGED << value, txId, committed >>,
           \A t \in Thread, k \in Key, w \in 1 .. WORDS : Stored(t, k, w)' <=> Stored(t, k, w)
    PROVE  WordsHold'
  BY LastWriterKept DEF WordsHold

\* store: one more word is the transaction's.
LEMMA StoreWords ==
    ASSUME Sets, WordsHold, NEW t \in Thread, store(t)
    PROVE  WordsHold'
<1> USE DEF globals, sets, Advance
<1> DEFINE key == write_set[t][pos[t]]
<1>1. /\ pc[t] = "store" /\ pos[t] \in DOMAIN write_set[t] /\ key \in Key
      /\ word[t] \in 1 .. WORDS /\ pos[t] \in Nat
  BY DEF store, Sets, TypeOK
<1>2. UNCHANGED << pc, write_set, txId, committed >>
  BY DEF store
<1>3. ASSUME NEW u \in Thread, u # t, NEW k \in Key, NEW w \in 1 .. WORDS
      PROVE  ~Stored(u, k, w) /\ ~Stored(u, k, w)'
  BY <1>1, <1>2, <1>3 DEF Stored, Sets, LockHeld, Critical
<1>4. ASSUME NEW k \in Key, NEW w \in 1 .. WORDS
      PROVE  /\ Stored(t, k, w)' <=> Stored(t, k, w) \/ (k = key /\ w = word[t])
             /\ value'[k][w] = IF k = key /\ w = word[t] THEN txId ELSE value[k][w]
  <2>1. value'[k][w] = IF k = key /\ w = word[t] THEN txId ELSE value[k][w]
    <3>1. value' = [value EXCEPT ![key] = [value[key] EXCEPT ![word[t]] = txId]]
      BY DEF store
    <3>2. value \in [Key -> [1 .. WORDS -> Version]]
      BY DEF Sets, TypeOK
    <3> HIDE DEF key
    <3> QED
      BY <1>1, <3>1, <3>2
  <2>2. CASE UNCHANGED pos /\ word' = [word EXCEPT ![t] = @ + 1]
    <3>1. pos'[t] = pos[t] /\ word'[t] = word[t] + 1
      BY <2>2 DEF Sets, TypeOK
    <3>2. \A i \in DOMAIN write_set[t] :
              i < pos[t] \/ (i = pos[t] /\ w < word[t] + 1) <=>
              (i < pos[t] \/ (i = pos[t] /\ w < word[t])) \/ (i = pos[t] /\ w = word[t])
      BY <1>1
    <3> QED
      BY <1>1, <1>2, <2>1, <3>1, <3>2 DEF Stored
  <2>3. CASE word[t] = WORDS /\ word' = [word EXCEPT ![t] = 1] /\ Advance(t)
    <3>1. pos'[t] = pos[t] + 1 /\ word'[t] = 1
      BY <2>3 DEF Sets, TypeOK
    <3>2. \A i \in DOMAIN write_set[t] :
              i < pos[t] + 1 \/ (i = pos[t] + 1 /\ w < 1) <=>
              (i < pos[t] \/ (i = pos[t] /\ w < word[t])) \/ (i = pos[t] /\ w = word[t])
      BY <1>1, <2>3, OCCAssumption DEF Sets, TypeOK
    <3> QED
      BY <1>1, <1>2, <2>1, <3>1, <3>2 DEF Stored
  <2> QED
    BY <2>2, <2>3 DEF store
<1> HIDE DEF key
<1>5. ASSUME NEW k \in Key, NEW w \in 1 .. WORDS
      PROVE  /\ (\E u \in Thread : Stored(u, k, w)') => value'[k][w] = txId'
             /\ (\A u \in Thread : ~Stored(u, k, w)') => value'[k][w] = LastWriter(k)'
  <2>1. LastWriter(k)' = LastWriter(k)
    BY <1>2, LastWriterKept
  <2>2. /\ (\E u \in Thread : Stored(u, k, w)') => Stored(t, k, w) \/ (k = key /\ w = word[t])
        /\ (\A u \in Thread : ~Stored(u, k, w)') =>
              ~(k = key /\ w = word[t]) /\ \A u \in Thread : ~Stored(u, k, w)
    BY <1>3, <1>4
  <2> QED
    BY <1>2, <1>4, <2>1, <2>2 DEF WordsHold
<1> QED
  BY <1>5 DEF WordsHold

\* In the critical section a worker stores alone.
LEMMA StoresAlone ==
    ASSUME Sets, NEW t \in Thread, Critical(t), NEW u \in Thread, u # t
    PROVE  pc[u] # "store"
  BY DEF Sets, LockHeld, Critical

\* publish: what has been stored is now the last version.
LEMMA PublishWords ==
    ASSUME Sets, WordsHold, NEW t \in Thread, publish(t)
    PROVE  WordsHold'
<1> USE DEF globals, sets, Goto
<1> DEFINE W == ToSet(write_set[t])
           c == [id |-> txId, reads |-> read_set[t], writes |-> W]
<1>1. /\ pc[t] = "store" /\ pos[t] > Len(write_set[t]) /\ UNCHANGED value
      /\ committed' = Append(committed, c) /\ c.writes = W /\ txId' = txId + 1
      /\ pc' = [pc EXCEPT ![t] = "gc"]
  BY DEF publish
<1>2. \A u \in Thread : pc'[u] # "store" /\ (u # t => pc[u] # "store")
  BY <1>1, StoresAlone DEF Critical, Sets, TypeOK
<1>3. ASSUME NEW k \in Key, NEW w \in 1 .. WORDS
      PROVE  value'[k][w] = LastWriter(k)'
  <2>1. LastWriter(k)' = IF k \in W THEN txId ELSE LastWriter(k)
    <3> HIDE DEF W, c
    <3> QED
      BY <1>1, LastWriterNext DEF Sets
  <2>2. Stored(t, k, w) <=> k \in W
    <3>1. \A i \in DOMAIN write_set[t] : i < pos[t]
      BY <1>1 DEF Sets, TypeOK
    <3> QED
      BY <1>1, <3>1 DEF Stored, ToSet
  <2>3. \A u \in Thread : u # t => ~Stored(u, k, w)
    BY <1>2 DEF Stored
  <2> QED
    BY <1>1, <2>1, <2>2, <2>3 DEF WordsHold
<1> QED
  BY <1>2, <1>3 DEF WordsHold, Stored

LEMMA WordsStep ==
    ASSUME Sets, WordsHold, [Next]_vars
    PROVE  WordsHold'
<1> USE DEF Goto, Advance, globals, sets
<1>1. CASE Quit \/ Joined \/ UNCHANGED vars
  BY <1>1, WordsKept DEF Quit, Joined, vars, Stored
<1>2. ASSUME NEW t \in Thread, worker(t), ~store(t), ~publish(t)
      PROVE  WordsHold'
  <2>1. UNCHANGED << value, txId, committed >>
    BY <1>2 DEF worker, NextProcedure, leave, begin, readLocal, readWord, write, lock, valid,
                abort, gc
  <2>2. ASSUME NEW u \in Thread, u # t
        PROVE  pc'[u] = pc[u] /\ pos'[u] = pos[u] /\ word'[u] = word[u] /\ write_set'[u] = write_set[u]
    BY <1>2, <2>2 DEF worker, NextProcedure, leave, begin, readLocal, readWord, write, lock,
                      valid, abort, gc, Sets, TypeOK
  <2>3. pc[t] # "store"
    BY <1>2 DEF worker, NextProcedure, leave, begin, readLocal, readWord, write, lock, valid,
                abort, gc, Executes
  <2>4. pc'[t] = "store" => pos'[t] = 1 /\ word'[t] = 1
    <3>1. CASE valid(t)
      <4>1. ~(word[t] > 1)
        BY <3>1 DEF valid, Sets, WorkersMatch, WorkerMatches, Reading, Executes
      <4> QED
        BY <3>1, <4>1, OCCAssumption DEF valid, Sets, TypeOK
    <3>2. CASE ~valid(t)
      BY <1>2, <3>2 DEF worker, NextProcedure, leave, begin, readLocal, readWord, write, lock,
                        abort, gc, Executes, Sets, TypeOK
    <3> QED
      BY <3>1, <3>2
  <2>5. write_set[t] \in Seq(Key) /\ write_set'[t] \in Seq(Key)
    <3>1. TypeOK'
      BY <1>2, TypesStep DEF Next
    <3> QED
      BY <3>1 DEF Sets, TypeOK
  <2>6. ASSUME NEW u \in Thread, NEW k \in Key, NEW w \in 1 .. WORDS
        PROVE  Stored(u, k, w)' <=> Stored(u, k, w)
    <3>1. CASE u = t
      BY <2>3, <2>4, <2>5, <3>1 DEF Stored
    <3>2. CASE u # t
      BY <2>2, <3>2 DEF Stored
    <3> QED
      BY <3>1, <3>2
  <2> QED
    BY <2>1, <2>6, WordsKept
<1> QED
  BY <1>1, <1>2, StoreWords, PublishWords DEF Next

-----------------------------------------------------------------------------
(* What a transaction has read *)

\* A worker stays in its transaction.
Stays(t) == Active(t) /\ Active(t)' /\ startTxId'[t] = startTxId[t]

\* Steps but publish.
LEMMA OverwrittenKept ==
    ASSUME Sets, NEW t \in Thread, startTxId'[t] = startTxId[t], UNCHANGED << txId, committed >>,
           \A u \in Thread : u # t /\ pc[u] = "store" =>
               pc'[u] = "store" /\ write_set'[u] = write_set[u],
           NEW k, Overwritten(t, k)
    PROVE  Overwritten(t, k)'
  BY DEF Overwritten

\* publish by another worker: what was being overwritten has been overwritten.
LEMMA OverwrittenPublished ==
    ASSUME Sets, NEW u \in Thread, publish(u), NEW t \in Thread, t # u, Active(t),
           NEW k, Overwritten(t, k) \/ k \in ToSet(write_set[u])
    PROVE  Overwritten(t, k)'
<1> USE DEF sets, globals, Goto
<1> DEFINE c == [id |-> txId, reads |-> read_set[u], writes |-> ToSet(write_set[u])]
<1>1. /\ pc[u] = "store" /\ txId' = txId + 1 /\ committed' = Append(committed, c)
      /\ startTxId' = startTxId /\ c.writes = ToSet(write_set[u])
  BY DEF publish
<1> HIDE DEF c
<1>2. /\ \A i \in 1 .. Len(committed) : committed'[i] = committed[i]
      /\ committed'[Len(committed) + 1] = c
  BY <1>1, AppendProperties DEF Sets, TypeOK
<1>3. /\ txId \in Nat /\ Len(committed) = txId
      /\ startTxId[t] \in Nat /\ startTxId[t] <= txId
  BY DEF Sets, TypeOK, Numbers
<1>4. CASE \E j \in startTxId[t] .. txId - 1 : k \in committed[j + 1].writes
  <2>1. PICK j \in startTxId[t] .. txId - 1 : k \in committed[j + 1].writes
    BY <1>4
  <2>2. j \in startTxId'[t] .. txId' - 1 /\ j + 1 \in 1 .. Len(committed)
    BY <1>1, <1>3, <2>1
  <2> QED
    BY <1>2, <2>1, <2>2 DEF Overwritten
<1>5. CASE k \in ToSet(write_set[u])
  <2>1. txId \in startTxId'[t] .. txId' - 1
    BY <1>1, <1>3
  <2>2. k \in committed'[txId + 1].writes
    BY <1>1, <1>2, <1>3, <1>5
  <2> QED
    BY <2>1, <2>2 DEF Overwritten
<1>6. \A v \in Thread : v # u => pc[v] # "store"
  BY <1>1, StoresAlone DEF Critical
<1> QED
  BY <1>4, <1>5, <1>6 DEF Overwritten

\* What one word that is read shows.
LEMMA WordIsFresh ==
    ASSUME Sets, WordsHold, NEW t \in Thread, pc[t] = "run",
           NEW k \in Key, NEW w \in 1 .. WORDS
    PROVE  Overwritten(t, k) \/ value[k][w] = LastWriter(k)
<1>1. CASE \E u \in Thread : Stored(u, k, w)
  <2>1. PICK u \in Thread : Stored(u, k, w)
    BY <1>1
  <2>2. u # t /\ pc[u] = "store" /\ k \in ToSet(write_set[u])
    BY <2>1 DEF Stored, ToSet
  <2> QED
    BY <2>2 DEF Overwritten
<1>2. CASE \A u \in Thread : ~Stored(u, k, w)
  BY <1>2 DEF WordsHold
<1> QED
  BY <1>1, <1>2

\* A worker that a step leaves in its transaction, having read no more.
LEMMA FreshKept ==
    ASSUME Sets, ReadsFresh, NEW t \in Thread, Stays(t), UNCHANGED << txId, committed >>,
           \A u \in Thread : u # t /\ pc[u] = "store" =>
               pc'[u] = "store" /\ write_set'[u] = write_set[u],
           NEW r \in read_set[t]
    PROVE  Overwritten(t, r.key)' \/ r.ver = LastWriter(r.key)'
<1>1. Overwritten(t, r.key) \/ r.ver = LastWriter(r.key)
  BY DEF ReadsFresh, Stays
<1> QED
  BY <1>1, OverwrittenKept, LastWriterKept DEF Stays

LEMMA FreshStep ==
    ASSUME Sets, Sets', WordsHold, ReadsFresh, [Next]_vars
    PROVE  ReadsFresh'
<1> USE DEF Goto, Advance, globals, sets
<1>1. CASE Quit \/ Joined \/ UNCHANGED vars
  <2>1. UNCHANGED << pc, txId, committed, startTxId, read_set, write_set >>
    BY <1>1 DEF Quit, Joined, vars
  <2>2. \A t \in Thread : Active(t)' => Stays(t)
    BY <2>1 DEF Stays, Active
  <2> QED
    BY <2>1, <2>2, FreshKept DEF ReadsFresh
<1>2. ASSUME NEW u \in Thread, publish(u)
      PROVE  ReadsFresh'
  <2> DEFINE W == ToSet(write_set[u])
             c == [id |-> txId, reads |-> read_set[u], writes |-> W]
  <2>1. /\ committed' = Append(committed, c) /\ c.writes = W /\ txId' = txId + 1
        /\ ~Active(u)' /\ startTxId' = startTxId
    BY <1>2 DEF publish, Active, Sets, TypeOK
  <2>2. ASSUME NEW t \in Thread, Active(t)', NEW r \in read_set'[t]
        PROVE  Overwritten(t, r.key)' \/ r.ver = LastWriter(r.key)'
    <3>1. t # u /\ Active(t) /\ r \in read_set[t]
      BY <1>2, <2>1, <2>2 DEF publish, Active, Sets, TypeOK
    <3>2. r.key \in Key
      BY <3>1 DEF Sets, TypeOK
    <3>3. Overwritten(t, r.key) \/ r.ver = LastWriter(r.key)
      BY <3>1 DEF ReadsFresh
    <3>4. LastWriter(r.key)' = IF r.key \in W THEN txId ELSE LastWriter(r.key)
      <4> HIDE DEF W, c
      <4> QED
        BY <2>1, <3>2, LastWriterNext DEF Sets
    <3> QED
      BY <1>2, <3>1, <3>3, <3>4, OverwrittenPublished
  <2> QED
    BY <2>2 DEF ReadsFresh
<1>3. ASSUME NEW u \in Thread, worker(u), ~publish(u)
      PROVE  ReadsFresh'
  <2>1. UNCHANGED << txId, committed >>
    BY <1>3 DEF worker, NextProcedure, leave, begin, readLocal, readWord, write, lock, valid,
                abort, store, gc
  <2>2. \A v \in Thread : pc[v] = "store" => pc'[v] = "store" /\ write_set'[v] = write_set[v]
    <3> SUFFICES ASSUME NEW v \in Thread, pc[v] = "store"
                 PROVE  pc'[v] = "store" /\ write_set'[v] = write_set[v]
      OBVIOUS
    <3>1. /\ pc \in [Thread -> {"next", "retry", "run", "validate", "store", "gc", "done"}]
          /\ write_set \in [Thread -> Seq(Key)]
      BY DEF Sets, TypeOK
    <3> QED
      BY <1>3, <3>1 DEF worker, NextProcedure, leave, begin, readLocal, readWord, write, lock,
                        valid, abort, store, gc, Executes
  <2>3. \A t \in Thread : t # u =>
            pc'[t] = pc[t] /\ startTxId'[t] = startTxId[t] /\ read_set'[t] = read_set[t]
    <3> SUFFICES ASSUME NEW t \in Thread, t # u
                 PROVE  /\ pc'[t] = pc[t] /\ startTxId'[t] = startTxId[t]
                        /\ read_set'[t] = read_set[t]
      OBVIOUS
    <3>1. /\ pc \in [Thread -> {"next", "retry", "run", "validate", "store", "gc", "done"}]
          /\ startTxId \in [Thread -> Nat]
          /\ read_set \in [Thread -> SUBSET [key : Key, ver : Version]]
      BY DEF Sets, TypeOK
    <3> QED
      BY <1>3, <3>1 DEF worker, NextProcedure, leave, begin, readLocal, readWord, write, lock,
                        valid, abort, store, gc
  <2>4. ASSUME NEW t \in Thread, Active(t)', NEW r \in read_set'[t], Stays(t), r \in read_set[t]
        PROVE  Overwritten(t, r.key)' \/ r.ver = LastWriter(r.key)'
    BY <2>1, <2>2, <2>4, FreshKept
  <2>5. ASSUME NEW t \in Thread, t # u, Active(t)'
        PROVE  Stays(t)
    BY <2>3, <2>5 DEF Stays, Active
  <2>6. ASSUME readWord(u), NEW r \in read_set'[u], r \notin read_set[u]
        PROVE  Overwritten(u, r.key)' \/ r.ver = LastWriter(r.key)'
    <3> DEFINE k == OpKey(u)
    <3>1. pc[u] = "run" /\ k \in Key /\ word[u] \in 1 .. WORDS /\ startTxId'[u] = startTxId[u]
      BY <2>6, OperationType DEF readWord, Executes, Sets, TypeOK
    <3>2. r = [key |-> k, ver |-> value[k][word[u]]]
      BY <2>6 DEF readWord, Sets, TypeOK
    <3>3. r.key = k /\ r.ver = value[k][word[u]]
      BY <3>2
    <3> HIDE DEF k
    <3>4. Overwritten(u, k) \/ value[k][word[u]] = LastWriter(k)
      BY <3>1, WordIsFresh
    <3> QED
      BY <2>1, <2>2, <3>1, <3>3, <3>4, OverwrittenKept, LastWriterKept
  <2>7. ASSUME Active(u)', NEW r \in read_set'[u], ~readWord(u)
        PROVE  Stays(u) /\ r \in read_set[u]
    <3>1. CASE begin(u)
      <4>1. read_set'[u] = {}
        BY <3>1 DEF begin, Sets, WorkersMatch, WorkerMatches, Active
      <4> QED
        BY <2>7, <4>1
    <3>2. CASE readLocal(u) \/ write(u) \/ lock(u) \/ valid(u) \/ store(u)
      BY <2>7, <3>2 DEF readLocal, write, lock, valid, store, Executes, Stays, Active, Sets, TypeOK
    <3>3. CASE NextProcedure(u) \/ leave(u) \/ abort(u) \/ gc(u)
      BY <2>7, <3>3 DEF NextProcedure, leave, abort, gc, Active, Sets, TypeOK
    <3> QED
      BY <1>3, <2>7, <3>1, <3>2, <3>3 DEF worker
  <2>8. ASSUME readWord(u)
        PROVE  Stays(u)
    BY <2>8 DEF readWord, Executes, Stays, Active
  <2>9. ASSUME NEW t \in Thread, Active(t)', NEW r \in read_set'[t]
        PROVE  Overwritten(t, r.key)' \/ r.ver = LastWriter(r.key)'
    BY <2>3, <2>4, <2>5, <2>6, <2>7, <2>8, <2>9
  <2> QED
    BY <2>9 DEF ReadsFresh
<1> QED
  BY <1>1, <1>2, <1>3 DEF Next

\* valid: nothing that was read has been overwritten.
LEMMA ValidReads ==
    ASSUME Sets, FirstSetsKept, NEW t \in Thread, valid(t), NEW k \in read_keys[t]
    PROVE  ~Overwritten(t, k)
<1>1. \A u \in Thread : u # t => pc[u] # "store"
  BY StoresAlone DEF valid, Critical
<1>2. beginIndex(t) >= 0
  BY StartsInside DEF valid
<1>3. \A i \in DOMAIN ws_list : i > beginIndex(t) => k \notin ws_list[i]
  BY <1>2 DEF valid, ComparedKeys
<1>4. ASSUME NEW j \in startTxId[t] .. txId - 1
      PROVE  k \notin committed[j + 1].writes
  <2> DEFINE i == j - deletedTxId
  <2>1. /\ startTxId[t] \in Nat /\ txId \in Nat /\ deletedTxId \in Int
        /\ Len(ws_list) = txId - (deletedTxId + 1)
    BY DEF Sets, TypeOK, Version, Loaded, Numbers
  <2>2. i > beginIndex(t) /\ i \in 1 .. Len(ws_list) /\ deletedTxId + 1 + i = j + 1
    BY <1>2, <2>1 DEF beginIndex
  <2>3. i \in DOMAIN ws_list
    BY <2>2 DEF Sets, TypeOK
  <2>4. ws_list[i] = committed[j + 1].writes
    BY <2>2, <2>3 DEF Sets, Numbers
  <2> QED
    BY <1>3, <2>2, <2>3, <2>4
<1> QED
  BY <1>1, <1>4 DEF Overwritten

LEMMA ValidStep ==
    ASSUME Sets, Sets', FirstSetsKept, ReadsValid, [Next]_vars
    PROVE  ReadsValid'
<1> USE DEF Goto, Advance, globals, sets
<1> SUFFICES ASSUME NEW t \in Thread, pc'[t] = "store", NEW k \in read_keys'[t]
             PROVE  ~Overwritten(t, k)'
  BY DEF ReadsValid
<1>1. \A u \in Thread : u # t => pc'[u] # "store"
  BY StoresAlone DEF Sets, LockHeld, Critical
<1>2. UNCHANGED << txId, committed >> /\ startTxId'[t] = startTxId[t]
  <2>1. \A u \in Thread : ~publish(u)
    <3> SUFFICES ASSUME NEW u \in Thread, publish(u)
                 PROVE  FALSE
      OBVIOUS
    <3>1. pc'[u] = "gc"
      BY DEF publish, Sets, TypeOK
    <3> QED
      BY <3>1 DEF Sets, LockHeld, Critical
  <2>2. CASE Quit \/ Joined \/ UNCHANGED vars
    BY <2>2 DEF Quit, Joined, vars
  <2>3. ASSUME NEW u \in Thread, worker(u)
        PROVE  UNCHANGED << txId, committed >> /\ startTxId'[t] = startTxId[t]
    <3>1. UNCHANGED << txId, committed >>
      BY <2>1, <2>3 DEF worker, NextProcedure, leave, begin, readLocal, readWord, write, lock,
                        valid, abort, store, gc
    <3>2. startTxId'[t] = startTxId[t]
      BY <2>1, <2>3 DEF worker, NextProcedure, leave, begin, readLocal, readWord, write, lock,
                        valid, abort, store, gc, Sets, TypeOK
    <3> QED
      BY <3>1, <3>2
  <2> QED
    BY <2>2, <2>3 DEF Next
<1>3. ~Overwritten(t, k) => ~Overwritten(t, k)'
  BY <1>1, <1>2 DEF Overwritten
<1>4. CASE pc[t] = "store"
  <2>1. read_keys'[t] = read_keys[t]
    <3>1. CASE Quit \/ Joined \/ UNCHANGED vars
      BY <3>1 DEF Quit, Joined, vars
    <3>2. ASSUME NEW u \in Thread, worker(u)
          PROVE  read_keys'[t] = read_keys[t]
      <4>1. /\ pc \in [Thread -> {"next", "retry", "run", "validate", "store", "gc", "done"}]
            /\ read_keys \in [Thread -> SUBSET Key] /\ read_keys' \in [Thread -> SUBSET Key]
        BY DEF Sets, TypeOK
      <4> QED
        BY <1>4, <3>2, <4>1
           DEF worker, NextProcedure, leave, begin, readLocal, readWord, write, lock, valid,
               abort, store, publish, gc, Executes
    <3> QED
      BY <3>1, <3>2 DEF Next
  <2> QED
    BY <1>3, <1>4, <2>1 DEF ReadsValid
<1>5. CASE pc[t] # "store"
  <2>1. valid(t)
    <3>1. CASE Quit \/ Joined \/ UNCHANGED vars
      BY <1>5, <3>1 DEF Quit, Joined, vars
    <3>2. ASSUME NEW u \in Thread, worker(u)
          PROVE  valid(t)
      <4>1. pc' = pc \/ \E l \in {"next", "retry", "run", "validate", "gc", "done"} :
                             pc' = [pc EXCEPT ![u] = l]
            \/ valid(u)
        BY <3>2 DEF worker, NextProcedure, leave, begin, readLocal, readWord, write, lock,
                    abort, store, publish, gc
      <4> QED
        BY <1>5, <4>1 DEF valid, Sets, TypeOK
    <3> QED
      BY <3>1, <3>2 DEF Next
  <2>2. read_keys'[t] = read_keys[t]
    BY <2>1 DEF valid
  <2> QED
    BY <1>3, <2>1, <2>2, ValidReads
<1> QED
  BY <1>4, <1>5

-----------------------------------------------------------------------------
(* Refinement *)

LEMMA Invariance == Spec /\ []FirstSetsKept => []Inv
<1>1. Init /\ Sets => Inv
  <2>1. Init /\ Sets => ReadsFresh /\ ReadsValid
    BY DEF Init, ReadsFresh, ReadsValid, Active
  <2>2. ASSUME Init, Sets
        PROVE  WordsHold
    <3>1. \A k \in Key : LastWriter(k) = Loaded
      <4>1. ASSUME NEW k \in Key
            PROVE  {Loaded} \cup {j \in 0 .. txId - 1 : k \in committed[j + 1].writes} = {Loaded}
        BY <2>2 DEF Init
      <4>2. Max({Loaded}) = Loaded
        BY DEF Max, Loaded
      <4> QED
        BY <4>1, <4>2 DEF LastWriter
    <3> QED
      BY <2>2, <3>1 DEF WordsHold, Stored, Init
  <2> QED
    BY <2>1, <2>2 DEF Inv
<1>2. Inv /\ Sets' /\ FirstSetsKept /\ [Next]_vars => Inv'
  BY WordsStep, FreshStep, ValidStep DEF Inv
<1> QED
  BY <1>1, <1>2, SetsInvariance, PTL DEF Spec

\* The store of the refinement mapping holds what the last writers left.
LEMMA DatabaseHolds ==
    ASSUME Sets, WordsHold
    PROVE  Database = [k \in Key |-> LastWriter(k)]
<1>1. ASSUME NEW k \in Key, \A t \in Thread : ~(pc[t] = "store" /\ k \in ToSet(write_set[t]))
      PROVE  value[k][1] = LastWriter(k)
  <2>1. \A t \in Thread : ~Stored(t, k, 1)
    BY <1>1 DEF Stored, ToSet
  <2> QED
    BY <2>1, OCCAssumption DEF WordsHold
<1> QED
  BY <1>1 DEF Database

LEMMA DatabaseHoldsNext ==
    ASSUME Sets', WordsHold'
    PROVE  Database' = [k \in Key |-> LastWriter(k)']
<1>1. ASSUME NEW k \in Key, \A t \in Thread : ~(pc'[t] = "store" /\ k \in ToSet(write_set'[t]))
      PROVE  value'[k][1] = LastWriter(k)'
  <2>1. \A t \in Thread : ~Stored(t, k, 1)'
    BY <1>1 DEF Stored, ToSet
  <2> QED
    BY <2>1, OCCAssumption DEF WordsHold
<1> QED
  BY <1>1 DEF Database

\* publish: the transaction is executed.
LEMMA PublishExecutes ==
    ASSUME Inv, Inv', NEW t \in Thread, publish(t)
    PROVE  Serial!Next
<1> DEFINE W == ToSet(write_set[t])
           c == [id |-> txId, reads |-> read_set[t], writes |-> W]
<1>1. /\ pc[t] = "store" /\ committed' = Append(committed, c) /\ txId' = txId + 1
      /\ txId \in Nat /\ W \in SUBSET Key /\ read_keys[t] \in SUBSET Key
  BY DEF publish, ToSet, Inv, Sets, TypeOK
<1>2. Database = [k \in Key |-> LastWriter(k)] /\ Database' = [k \in Key |-> LastWriter(k)']
  BY DatabaseHolds, DatabaseHoldsNext DEF Inv
<1>3. ASSUME NEW r \in read_set[t]
      PROVE  r.key \in read_keys[t] /\ r = [key |-> r.key, ver |-> Database[r.key]]
  <2>1. r.key \in Key /\ r = [key |-> r.key, ver |-> r.ver]
    <3>1. read_set \in [Thread -> SUBSET [key : Key, ver : Version]]
      BY DEF Inv, Sets, TypeOK
    <3> QED
      BY ONLY <1>3, <3>1
  <2>2. r.key \in read_keys[t]
    BY <1>1 DEF Inv, Sets, WorkersMatch, WorkerMatches, Reading, Executes
  <2>3. r.ver = LastWriter(r.key)
    BY <1>1, <2>2 DEF Inv, ReadsFresh, ReadsValid, Active
  <2> QED
    BY <1>2, <2>1, <2>2, <2>3
<1>4. ASSUME NEW k \in read_keys[t]
      PROVE  \E r \in read_set[t] : r.key = k
  BY DEF Inv, Sets, WorkersMatch, WorkerMatches
<1>5. read_set[t] = {[key |-> k, ver |-> Database[k]] : k \in read_keys[t]}
  BY <1>3, <1>4
<1>6. Database' = [k \in Key |-> IF k \in W THEN txId ELSE Database[k]]
  <2>1. ASSUME NEW k \in Key
        PROVE  LastWriter(k)' = IF k \in W THEN txId ELSE LastWriter(k)
    <3>1. c.writes = W
      OBVIOUS
    <3> HIDE DEF c, W
    <3> QED
      BY <1>1, <3>1, LastWriterNext DEF Inv, Sets
  <2> QED
    BY <1>2, <2>1
<1>7. /\ Len(committed') = Len(committed) + 1
      /\ committed'[Len(committed')].id = txId
  <2>1. c.id = txId
    OBVIOUS
  <2> HIDE DEF c
  <2>2. Len(committed') = Len(committed) + 1 /\ committed'[Len(committed) + 1] = c
    BY <1>1, AppendProperties DEF Inv, Sets, TypeOK
  <2> QED
    BY <2>1, <2>2
<1>8. Serial!Execute(txId, read_keys[t], W)
  BY <1>1, <1>5, <1>6 DEF Serial!Execute
<1> HIDE DEF W
<1> QED
  BY <1>1, <1>7, <1>8 DEF Serial!Next

LEMMA StepSimulates ==
    ASSUME Inv, Inv', [Next]_vars
    PROVE  [Serial!Next]_<< Database, committed >>
<1>1. ASSUME UNCHANGED << txId, committed >>
      PROVE  UNCHANGED << Database, committed >>
  <2>1. \A k \in Key : LastWriter(k)' = LastWriter(k)
    BY <1>1, LastWriterKept
  <2> QED
    BY <1>1, <2>1, DatabaseHolds, DatabaseHoldsNext DEF Inv
<1>2. CASE Quit \/ Joined \/ UNCHANGED vars
  BY <1>1, <1>2 DEF Quit, Joined, vars, globals
<1>3. ASSUME NEW t \in Thread, worker(t), ~publish(t)
      PROVE  UNCHANGED << txId, committed >>
  BY <1>3 DEF worker, NextProcedure, leave, begin, readLocal, readWord, write, lock, valid,
              abort, store, gc, globals
<1> QED
  BY <1>1, <1>2, <1>3, PublishExecutes DEF Next

\* The transactions are executed as if one at a time, in the order of their
\* numbers, whatever was read meanwhile and however much of ws_list is erased.
THEOREM Implements == Spec /\ []FirstSetsKept => SerialExecution
<1>1. Init /\ Inv => Serial!Init
  <2>1. ASSUME Init, Inv
        PROVE  Database = [k \in Key |-> Loaded] /\ committed = << >>
    BY <2>1, OCCAssumption DEF Init, Database
  <2> QED
    BY <2>1 DEF Serial!Init
<1>2. Inv /\ Inv' /\ [Next]_vars => [Serial!Next]_<< Database, committed >>
  BY StepSimulates
<1> QED
  BY <1>1, <1>2, Invariance, PTL DEF Spec, SerialExecution, Serial!Spec
=============================================================================
