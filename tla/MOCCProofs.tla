----------------------------- MODULE MOCCProofs -----------------------------
(***************************************************************************)
(* Theorems about MOCC for every set of workers, records and procedures,   *)
(* every temperature threshold and every width of the tid field: no circle *)
(* of workers waits for locks, the lists of locks and the counters agree,  *)
(* and, as long as no TID wraps, what transactions wrote and read under a  *)
(* lock is serializable.                                                   *)
(*                                                                         *)
(* The serial order is that in which transactions choose their TIDs.  Who  *)
(* chooses one has its writes locked and has verified, under the locks it  *)
(* still has, that what it read is the newest: it comes after all that     *)
(* have chosen theirs before.                                              *)
(***************************************************************************)
EXTENDS MOCC, CommonProofs, SequenceTheorems

Label == {"idle", "done", "retry", "exec", "lock", "tid", "wait", "copy", "check",
          "commit", "epoch", "validate", "owner", "write", "publish", "abort"}
Txn == Thread \X (Nat \ {0})
Version == Txn \cup {NoTxn}
Entry == [key : Key, mode : BOOLEAN]
ReadElement == [key : Key, tid : Tid, val : Version, failed : BOOLEAN]
CommittedRead == [key : Key, ver : Version, locked : BOOLEAN]
Commitment == [id : Txn, reads : SUBSET CommittedRead]
Temperature == [temp : Nat, epoch : Nat]

\* Every variable in its type.
Types ==
    /\ quit \in BOOLEAN
    /\ GlobalEpoch \in Nat
    /\ ThLocalEpoch \in [Thread -> Nat]
    /\ EpotempAry \in [{Page[k] : k \in Key} -> Temperature]
    /\ tidword \in [Key -> Tid]
    /\ rwlock \in [Key -> Int]
    /\ val \in [Key -> Version]
    /\ pc \in [Thread -> Label]
    /\ pro \in [Thread -> Seq(Operation)]
    /\ pos \in [Thread -> Nat \ {0}]
    /\ rset \in [Thread -> Seq(ReadElement)]
    /\ wset \in [Thread -> SUBSET Key]
    /\ CLL \in [Thread -> SUBSET Entry]
    /\ RLL \in [Thread -> SUBSET Entry]
    /\ want \in [Thread -> Entry]
    /\ locking \in [Thread -> BOOLEAN]
    /\ expected \in [Thread -> Tid]
    /\ buf \in [Thread -> Version]
    /\ todo \in [Thread -> SUBSET Key]
    /\ maxset \in [Thread -> Tid]
    /\ epoch \in [Thread -> Nat]
    /\ mrctid \in [Thread -> Tid]
    /\ n \in [Thread -> Nat]
    /\ committed \subseteq Commitment
    /\ order \in [Key -> Seq(Txn)]

\* Where a worker is: in an operation, copying a record, in commit() after the
\* locks on the keys it is past, in the write phase.
Operating(t) ==
    pc[t] \in {"exec", "tid", "wait", "copy", "check"} \/ (pc[t] = "lock" /\ todo[t] = {})
Copying(t) == pc[t] \in {"tid", "wait", "copy", "check"}
Committing(t) ==
    pc[t] \in {"commit", "epoch", "validate", "owner"} \/ (pc[t] = "lock" /\ todo[t] # {})
Writing(t) == pc[t] \in {"write", "publish"}

\* The indexes and sets of a worker fit where it is.
Placed(t) ==
    /\ pc[t] \in {"idle", "retry", "done"} =>
          rset[t] = << >> /\ wset[t] = {} /\ CLL[t] = {}
    /\ pc[t] \notin {"idle", "done"} => 0 < Len(pro[t])
    /\ Operating(t) => pos[t] \in DOMAIN pro[t]
    /\ pc[t] = "owner" => pos[t] \in DOMAIN rset[t]
    /\ todo[t] \subseteq wset[t]
    /\ todo[t] # {} => pc[t] \in {"commit", "lock", "write", "publish"}
    /\ pc[t] = "publish" => todo[t] # {}
    /\ pc[t] = "lock" => IF todo[t] = {} THEN locking[t] /\ want[t].key = OpKey(t)
                         ELSE want[t] = [key |-> First(todo[t]), mode |-> TRUE]
    /\ pc[t] = "wait" => ~locking[t]
    /\ pc[t] = "abort" <=> \E i \in DOMAIN rset[t] : rset[t][i].failed

\* A worker has its locks on records it has operated on, or is reading and
\* locked for that; a record it reads without is new to it.
ReadKeys(t) == {rset[t][i].key : i \in DOMAIN rset[t]}
Known(t) ==
    /\ \A e, f \in CLL[t] : e.key = f.key => e = f
    /\ \A e \in CLL[t] : e.key \in wset[t] \cup ReadKeys(t)
                            \/ (Copying(t) /\ locking[t] /\ e.key = OpKey(t))
    /\ Copying(t) /\ ~locking[t] => OpKey(t) \notin wset[t] \cup ReadKeys(t)

\* A worker has the locks for writing: in commit() on the keys it is past, in
\* the write phase on those it has yet to store.
Mine(t, k) == [key |-> k, mode |-> TRUE] \in CLL[t]
Past(t, k) == Committing(t) /\ k \in wset[t] \ todo[t]
Pending(t, k) == Writing(t) /\ k \in todo[t]
WriteLocks(t) ==
    \A k \in Key : /\ Past(t, k) => Mine(t, k) /\ \A j \in todo[t] : k < j
                   /\ Pending(t, k) => Mine(t, k)

Matches(t) == Placed(t) /\ Known(t) /\ WriteLocks(t)
WorkersMatch == \A t \in Thread : Matches(t)

\* The counters of the locks and the lists of their holders agree.
Held(mode) == [t \in Thread |-> {k \in Key : [key |-> k, mode |-> mode] \in CLL[t]}]
Counted == LocksAgree(Thread, Key, rwlock, Held(FALSE), Held(TRUE))

Base == Types /\ WorkersMatch /\ Counted

\* The increment of a TID stays within the width of its field.
TidsFit ==
    \A t \in Thread : maxset[t].tid + 1 < TidSpan /\ mrctid[t].tid + 1 < TidSpan

AtMost(a, b) == a = b \/ TidLess(a, b)

\* TID words rise: what was read is no newer than the record, and what is to be
\* stored is newer.
Rising(t) ==
    /\ pc[t] \in {"wait", "copy", "check"} => AtMost(expected[t], tidword[OpKey(t)])
    /\ \A i \in DOMAIN rset[t] :
          rset[t][i].failed \/ AtMost(rset[t][i].tid, tidword[rset[t][i].key])
    /\ \A k \in Key : /\ Past(t, k) => AtMost(tidword[k], maxset[t])
                      /\ Pending(t, k) => TidLess(tidword[k], mrctid[t])

\* No worker is between storing the value of k and storing its TID word.
Publishing(t, k) == pc[t] = "publish" /\ k = First(todo[t])
Steady(k) == \A t \in Thread : ~Publishing(t, k)

\* A copy whose TID word is still the record's is of the record's value.
Copied(k, tid, v) == tid = tidword[k] /\ Steady(k) => v = val[k]
Copies(t) ==
    /\ pc[t] = "check" => Copied(OpKey(t), expected[t], buf[t])
    /\ \A i \in DOMAIN rset[t] :
          rset[t][i].failed \/ Copied(rset[t][i].key, rset[t][i].tid, rset[t][i].val)

\* The entries that have been verified and are locked have not changed.
Verified(t) ==
    /\ Committing(t) /\ pc[t] \notin {"validate", "owner"} => pos[t] = 1
    /\ pc[t] \in {"validate", "owner"} =>
          \A i \in DOMAIN rset[t] :
              /\ i < pos[t] \/ (i = pos[t] /\ pc[t] = "owner")
              /\ rset[t][i].key \in KeysOf(CLL[t])
              => rset[t][i].tid = tidword[rset[t][i].key]

\* The value of a record is that of its last writer.
Newest(k) == IF order[k] = << >> THEN NoTxn ELSE order[k][Len(order[k])]
Stored(k) ==
    /\ Steady(k) => val[k] = Newest(k)
    /\ \A t \in Thread : Publishing(t, k) => val[k] = TxnId(t)

\* The writers of a record, and the transactions committed, have counted or are
\* in the write phase; none writes a record twice.
Counts(v) == v[2] <= n[v[1]] \/ (v = TxnId(v[1]) /\ Writing(v[1]))
Installed(k, v) == \E i \in DOMAIN order[k] : order[k][i] = v
Identified ==
    /\ \A a \in committed :
          /\ Counts(a.id)
          /\ \A r \in a.reads : r.locked => r.ver = NoTxn \/ Installed(r.key, r.ver)
    /\ \A k \in Key : \A i \in DOMAIN order[k] :
          LET v == order[k][i]
          IN v[2] <= n[v[1]] \/ (Counts(v) /\ ~Pending(v[1], k))
    /\ \A k \in Key : \A i, j \in DOMAIN order[k] : order[k][i] = order[k][j] => i = j

\* The order of the writers once the write phases begun are over.
Decided ==
    [k \in Key |-> IF \E t \in Thread : Pending(t, k)
                   THEN Append(order[k], TxnId(CHOOSE t \in Thread : Pending(t, k)))
                   ELSE order[k]]

\* The transactions with the reads they had locked.
LockedReads(c) == [c EXCEPT !.reads = {r \in @ : r.locked}]
LockedCommits == {LockedReads(c) : c \in committed}

Serial == Serializable(LockedCommits, Decided)

ValuesMatch ==
    /\ \A t \in Thread : Rising(t) /\ Copies(t) /\ Verified(t)
    /\ \A k \in Key : Stored(k)
SerialInd == ValuesMatch /\ Identified /\ Serial

-----------------------------------------------------------------------------
(* Types *)

\* A set of keys that is not empty has a smallest.
LEMMA FirstIs ==
    ASSUME NEW S \in SUBSET Key, S # {}
    PROVE  First(S) \in S /\ First(S) \in Key /\ \A j \in S : First(S) <= j
<1>1. \E k \in S : \A j \in S : k <= j
  BY HasMinimum, MOCCAssumption
<1> QED
  BY <1>1 DEF First

LEMMA IncTidType ==
    ASSUME NEW a \in Tid
    PROVE  IncTid(a) \in Tid
<1>1. (a.tid + 1) % TidSpan \in 0 .. TidSpan - 1
  BY MOCCAssumption DEF Tid
<1> QED
  BY <1>1 DEF IncTid, Tid

LEMMA MaxTidType ==
    ASSUME NEW a \in Tid, NEW b \in Tid
    PROVE  MaxTid(a, b) \in Tid
BY DEF MaxTid

LEMMA ZeroTidType == ZeroTid \in Tid
BY MOCCAssumption DEF ZeroTid, Tid

LEMMA CommitTidType ==
    ASSUME Types, NEW t \in Thread
    PROVE  commitTid(t) \in Tid
<1>1. [epoch |-> ThLocalEpoch[t], tid |-> 0] \in Tid
  <2>1. ThLocalEpoch[t] \in Nat
    BY DEF Types
  <2>2. 0 \in 0 .. TidSpan - 1
    BY MOCCAssumption
  <2> QED
    BY <2>1, <2>2 DEF Tid
<1>2. IncTid(maxset[t]) \in Tid /\ IncTid(mrctid[t]) \in Tid
  BY IncTidType DEF Types
<1> QED
  BY <1>1, <1>2, MaxTidType DEF commitTid

LEMMA TxnIdType ==
    ASSUME Types, NEW t \in Thread
    PROVE  TxnId(t) \in Txn /\ TxnId(t) # NoTxn /\ TxnId(t)[1] = t /\ TxnId(t)[2] = n[t] + 1
BY NoTxnAssumption DEF Types, TxnId, Txn

\* The operation a worker is at.
LEMMA OpType ==
    ASSUME Types, NEW t \in Thread, Placed(t), Operating(t)
    PROVE  /\ OpKey(t) \in Key /\ pos[t] \in 1 .. Len(pro[t]) /\ Len(pro[t]) \in Nat
           /\ Written(t) \subseteq Key /\ wset[t] \subseteq Written(t)
           /\ Written(t) \subseteq wset[t] \cup {OpKey(t)}
<1>1. pro[t] \in Seq(Operation) /\ pos[t] \in DOMAIN pro[t] /\ wset[t] \subseteq Key
  BY DEF Types, Placed
<1>2. pro[t][pos[t]] \in Operation
  BY <1>1
<1>3. OpKey(t) \in Key
  BY <1>2 DEF OpKey, Operation
<1> QED
  BY <1>1, <1>3 DEF Written

\* The types of the sets and of the elements in them.
LEMMA EntryType ==
    ASSUME NEW k \in Key, NEW m \in BOOLEAN
    PROVE  [key |-> k, mode |-> m] \in Entry
BY DEF Entry

LEMMA ReadElementType ==
    ASSUME NEW k \in Key, NEW a \in Tid, NEW v \in Version, NEW f \in BOOLEAN
    PROVE  [key |-> k, tid |-> a, val |-> v, failed |-> f] \in ReadElement
BY DEF ReadElement

LEMMA AtReadElement ==
    ASSUME Types, NEW t \in Thread, NEW i \in DOMAIN rset[t]
    PROVE  /\ rset[t][i] \in ReadElement /\ i \in Nat \ {0}
           /\ rset[t][i].key \in Key /\ rset[t][i].tid \in Tid
           /\ rset[t][i].val \in Version /\ rset[t][i].failed \in BOOLEAN
<1>1. rset[t] \in Seq(ReadElement)
  BY DEF Types
<1>2. rset[t][i] \in ReadElement /\ i \in Nat \ {0}
  BY <1>1
<1> QED
  BY <1>2 DEF ReadElement

\* The entry of a list for a key in it.
LEMMA EntryFound ==
    ASSUME NEW L \in SUBSET Entry, NEW k \in KeysOf(L)
    PROVE  /\ EntryOf(L, k) \in L /\ EntryOf(L, k).key = k
           /\ EntryOf(L, k) \in Entry /\ EntryOf(L, k).mode \in BOOLEAN
<1>1. \E e \in L : e.key = k
  BY DEF KeysOf
<1>2. EntryOf(L, k) \in L /\ EntryOf(L, k).key = k
  BY <1>1 DEF EntryOf
<1> QED
  BY <1>2 DEF Entry

LEMMA KeysAreKeys ==
    ASSUME NEW L \in SUBSET Entry
    PROVE  KeysOf(L) \subseteq Key /\ (L # {} <=> KeysOf(L) # {})
BY DEF KeysOf, Entry

LEMMA LockTyped ==
    ASSUME NEW c \in Int, NEW m
    PROVE  Lock(m, c) \in Int /\ Unlock(m, c) \in Int
BY DEF Lock, Unlock, ReadLock, WriteLock, ReadUnlock, WriteUnlock, WriteLocked

\* The entry of the list of locks a worker releases next, of all its locks or of
\* those out of order.
LEMMA ReleasedEntry ==
    ASSUME Types, NEW t \in Thread, NEW L, L \subseteq CLL[t], L # {}
    PROVE  LET e == EntryOf(CLL[t], First(KeysOf(L)))
           IN /\ e \in CLL[t] /\ e \in Entry /\ e.key = First(KeysOf(L))
              /\ e.key \in Key /\ e.mode \in BOOLEAN
              /\ e.key \in KeysOf(L)
<1>1. CLL[t] \subseteq Entry
  BY DEF Types
<1>2. First(KeysOf(L)) \in KeysOf(L)
  BY <1>1, FirstIs, KeysAreKeys
<1>3. First(KeysOf(L)) \in KeysOf(CLL[t])
  BY <1>2 DEF KeysOf
<1>4. First(KeysOf(L)) \in Key
  BY <1>1, <1>3, KeysAreKeys
<1> QED
  BY <1>1, <1>2, <1>3, <1>4, EntryFound

LEMMA GotoType ==
    ASSUME Types, NEW t \in Thread, NEW l \in Label, Goto(t, l)
    PROVE  pc' \in [Thread -> Label] /\ pc'[t] = l
BY DEF Types, Goto

\* Moving on in the procedure.
LEMMA AdvanceType ==
    ASSUME Types, NEW t \in Thread, Placed(t), Operating(t), NEW w \in SUBSET Key,
           Advance(t, w)
    PROVE  /\ pc' \in [Thread -> Label] /\ pos' \in [Thread -> Nat \ {0}]
           /\ todo' \in [Thread -> SUBSET Key]
           /\ \/ /\ pc'[t] = "exec" /\ pos'[t] \in DOMAIN pro[t]
                 /\ todo' = todo
              \/ pc'[t] = "commit" /\ todo'[t] = w /\ pos'[t] = 1
           /\ \A u \in Thread \ {t} :
                 pc'[u] = pc[u] /\ pos'[u] = pos[u] /\ todo'[u] = todo[u]
<1>1. pos[t] \in 1 .. Len(pro[t]) /\ Len(pro[t]) \in Nat /\ DOMAIN pro[t] = 1 .. Len(pro[t])
  <2>1. pro[t] \in Seq(Operation)
    BY DEF Types
  <2> QED
    BY <2>1, OpType
<1>2. /\ pc \in [Thread -> Label] /\ pos \in [Thread -> Nat \ {0}]
      /\ todo \in [Thread -> SUBSET Key] /\ "exec" \in Label /\ "commit" \in Label
  BY DEF Types, Label
<1>3. CASE pos[t] < Len(pro[t])
  BY <1>1, <1>2, <1>3 DEF Advance, Goto
<1>4. CASE ~(pos[t] < Len(pro[t]))
  BY <1>1, <1>2, <1>4 DEF Advance, Goto
<1> QED
  BY <1>3, <1>4

\* Returning from lock().
LEMMA ReturnType ==
    ASSUME Types, NEW t \in Thread, Placed(t), pc[t] = "lock", Return(t)
    PROVE  /\ pc' \in [Thread -> Label] /\ pos' \in [Thread -> Nat \ {0}]
           /\ todo' \in [Thread -> SUBSET Key]
           /\ wset' \in [Thread -> SUBSET Key] /\ maxset' \in [Thread -> Tid]
           /\ \A u \in Thread \ {t} :
                 /\ pc'[u] = pc[u] /\ pos'[u] = pos[u] /\ todo'[u] = todo[u]
                 /\ wset'[u] = wset[u] /\ maxset'[u] = maxset[u]
<1>1. CASE todo[t] # {}
  <2>1. want[t].key \in Key /\ tidword[want[t].key] \in Tid /\ maxset[t] \in Tid
    BY DEF Types, Entry
  <2>2. MaxTid(maxset[t], tidword[want[t].key]) \in Tid
    BY <2>1, MaxTidType
  <2>3. maxset' \in [Thread -> Tid] /\ \A u \in Thread \ {t} : maxset'[u] = maxset[u]
    <3>1. maxset' = [maxset EXCEPT ![t] = MaxTid(maxset[t], tidword[want[t].key])]
      BY <1>1 DEF Return
    <3>2. maxset \in [Thread -> Tid]
      BY DEF Types
    <3> QED
      BY <2>2, <3>1, <3>2
  <2>4. pc' \in [Thread -> Label] /\ \A u \in Thread \ {t} : pc'[u] = pc[u]
    BY <1>1 DEF Return, Types, Goto, Label
  <2>5. /\ todo' \in [Thread -> SUBSET Key] /\ pos' = pos /\ wset' = wset
        /\ \A u \in Thread \ {t} : todo'[u] = todo[u]
    <3>1. /\ todo' = [todo EXCEPT ![t] = todo[t] \ {want[t].key}]
          /\ pos' = pos /\ wset' = wset
      BY <1>1 DEF Return
    <3>2. todo \in [Thread -> SUBSET Key]
      BY DEF Types
    <3> QED
      BY <3>1, <3>2
  <2> QED
    BY <2>3, <2>4, <2>5 DEF Types
<1>2. CASE todo[t] = {}
  <2>1. Operating(t) /\ maxset' = maxset
    BY <1>2 DEF Operating, Return
  <2>2. Written(t) \in SUBSET Key
    BY <2>1, OpType
  <2>3. CASE Op(t) = "WRITE"
    <3>1. wset' = [wset EXCEPT ![t] = Written(t)] /\ Advance(t, Written(t))
      BY <1>2, <2>3 DEF Return
    <3>2. wset' \in [Thread -> SUBSET Key] /\ \A u \in Thread \ {t} : wset'[u] = wset[u]
      BY <2>2, <3>1 DEF Types
    <3> QED
      BY <2>1, <2>2, <3>1, <3>2, AdvanceType DEF Types
  <2>4. CASE Op(t) # "WRITE"
    <3>1. Goto(t, "tid") /\ UNCHANGED << wset, pos, todo >>
      BY <1>2, <2>4 DEF Return
    <3>2. pc' \in [Thread -> Label] /\ \A u \in Thread \ {t} : pc'[u] = pc[u]
      BY <3>1 DEF Types, Goto, Label
    <3> QED
      BY <2>1, <3>1, <3>2 DEF Types
  <2> QED
    BY <2>3, <2>4
<1> QED
  BY <1>1, <1>2

-----------------------------------------------------------------------------
(* What a step may change *)

\* A step of a worker leaves what belongs to the others alone.
Private(u) ==
    << pc[u], pro[u], pos[u], rset[u], wset[u], CLL[u], want[u], locking[u],
       expected[u], buf[u], todo[u], maxset[u], mrctid[u], n[u] >>

LEMMA OthersUnchanged ==
    ASSUME Types, NEW t \in Thread, Placed(t), worker(t), NEW u \in Thread, u # t
    PROVE  UNCHANGED Private(u)
<1>0. /\ pc \in [Thread -> Label] /\ pro \in [Thread -> Seq(Operation)]
      /\ pos \in [Thread -> Nat \ {0}] /\ rset \in [Thread -> Seq(ReadElement)]
      /\ wset \in [Thread -> SUBSET Key] /\ CLL \in [Thread -> SUBSET Entry]
      /\ want \in [Thread -> Entry] /\ locking \in [Thread -> BOOLEAN]
      /\ expected \in [Thread -> Tid] /\ buf \in [Thread -> Version]
      /\ todo \in [Thread -> SUBSET Key] /\ maxset \in [Thread -> Tid]
      /\ mrctid \in [Thread -> Tid] /\ n \in [Thread -> Nat]
  BY DEF Types
<1> USE DEF control, records, epochs, sets, lists, reading, tids, history, Goto
<1>1. CASE NextProcedure(t)
  BY <1>0, <1>1 DEF NextProcedure, Private
<1>2. CASE begin(t)
  BY <1>0, <1>2 DEF begin, Private
<1>3. CASE operateLocally(t)
  <2>1. Operating(t)
    BY <1>3 DEF operateLocally, Operating
  <2>2. Written(t) \in SUBSET Key
    BY <2>1, OpType
  <2>3. pc'[u] = pc[u] /\ pos'[u] = pos[u] /\ todo'[u] = todo[u]
    BY <1>3, <2>1, <2>2, AdvanceType DEF operateLocally
  <2> QED
    BY <1>0, <1>3, <2>3 DEF operateLocally, Private
<1>4. CASE operateLocking(t)
  BY <1>0, <1>4 DEF operateLocking, Private
<1>5. CASE operateOptimistically(t)
  BY <1>0, <1>5 DEF operateOptimistically, Private
<1>6. CASE readTid(t)
  BY <1>0, <1>6 DEF readTid, Private
<1>7. CASE readWait(t)
  BY <1>0, <1>7 DEF readWait, Private
<1>8. CASE readCopy(t)
  BY <1>0, <1>8 DEF readCopy, Private
<1>9. CASE readCheck(t)
  <2>1. Operating(t)
    BY <1>9 DEF readCheck, Operating
  <2>2. Written(t) \in SUBSET Key
    BY <2>1, OpType
  <2>3. pc'[u] = pc[u] /\ pos'[u] = pos[u] /\ todo'[u] = todo[u]
    <3>1. Advance(t, Written(t)) \/ (Goto(t, "wait") /\ UNCHANGED << pos, todo >>)
      BY <1>9 DEF readCheck
    <3> QED
      BY <1>0, <2>1, <2>2, <3>1, AdvanceType
  <2> QED
    BY <1>0, <1>9, <2>3 DEF readCheck, Private
<1>10. CASE lockHeld(t)
  <2>1. /\ pc'[u] = pc[u] /\ pos'[u] = pos[u] /\ todo'[u] = todo[u]
        /\ wset'[u] = wset[u] /\ maxset'[u] = maxset[u]
    BY <1>10, ReturnType DEF lockHeld
  <2> QED
    BY <1>10, <2>1 DEF lockHeld, Private
<1>11. CASE lockRestore(t)
  BY <1>0, <1>11 DEF lockRestore, Private
<1>12. CASE lockTake(t)
  <2>1. /\ pc'[u] = pc[u] /\ pos'[u] = pos[u] /\ todo'[u] = todo[u]
        /\ wset'[u] = wset[u] /\ maxset'[u] = maxset[u]
    BY <1>12, ReturnType DEF lockTake
  <2> QED
    BY <1>0, <1>12, <2>1 DEF lockTake, Private
<1>13. CASE commitLock(t)
  BY <1>0, <1>13 DEF commitLock, Private
<1>14. CASE loadEpoch(t)
  BY <1>0, <1>14 DEF loadEpoch, Private
<1>15. CASE storeEpoch(t)
  BY <1>0, <1>15 DEF storeEpoch, Private
<1>16. CASE validateTid(t)
  BY <1>0, <1>16 DEF validateTid, Fail, Private
<1>17. CASE validateOwner(t)
  BY <1>0, <1>17 DEF validateOwner, Fail, Private
<1>18. CASE chooseTid(t)
  BY <1>0, <1>18 DEF chooseTid, Private
<1>19. CASE storeValue(t)
  BY <1>0, <1>19 DEF storeValue, Private
<1>20. CASE storeTid(t)
  BY <1>0, <1>20 DEF storeTid, Private
<1>21. CASE unlockCLL(t)
  BY <1>0, <1>21 DEF unlockCLL, Private
<1>22. CASE committedTxn(t)
  BY <1>0, <1>22 DEF committedTxn, Private
<1>23. CASE abort(t)
  BY <1>0, <1>23 DEF abort, Private
<1> QED
  BY <1>1, <1>2, <1>3, <1>4, <1>5, <1>6, <1>7, <1>8, <1>9, <1>10, <1>11, <1>12, <1>13,
     <1>14, <1>15, <1>16, <1>17, <1>18, <1>19, <1>20, <1>21, <1>22, <1>23 DEF worker

\* Any other step leaves the workers alone, and the records.
LEMMA NoWorker ==
    ASSUME Quit \/ leaderWork \/ Joined \/ UNCHANGED vars
    PROVE  UNCHANGED << records, pro, n, pc, pos, rset, wset, CLL, RLL, want, reading,
                        todo, tids, history, epochs, EpotempAry >>
<1> USE DEF control, records, epochs, sets, lists, reading, tids, history, vars
<1>1. CASE Quit
  BY <1>1 DEF Quit
<1>2. CASE leaderWork
  BY <1>2 DEF leaderWork
<1>3. CASE Joined
  BY <1>3 DEF Joined
<1>4. CASE UNCHANGED vars
  BY <1>4
<1> QED
  BY <1>1, <1>2, <1>3, <1>4

LEMMA TypesInit == Init => Types
<1> SUFFICES ASSUME Init PROVE Types
  OBVIOUS
<1>1. "idle" \in Label /\ NoTxn \in Version /\ ZeroTid \in Tid
  BY ZeroTidType DEF Label, Version
<1>2. First(Key) \in Key
  BY FirstIs, MOCCAssumption
<1>3. [key |-> First(Key), mode |-> FALSE] \in Entry
  BY <1>2, EntryType
<1>4. [epoch |-> 1, tid |-> 0] \in Tid
  <2>1. 0 \in 0 .. TidSpan - 1
    BY MOCCAssumption
  <2> QED
    BY <2>1 DEF Tid
<1>5. [temp |-> 0, epoch |-> 1] \in Temperature
  BY DEF Temperature
<1>6. /\ quit \in BOOLEAN /\ GlobalEpoch \in Nat /\ ThLocalEpoch \in [Thread -> Nat]
      /\ EpotempAry \in [{Page[k] : k \in Key} -> Temperature]
      /\ tidword \in [Key -> Tid] /\ rwlock \in [Key -> Int] /\ val \in [Key -> Version]
  <2>1. quit \in BOOLEAN /\ GlobalEpoch \in Nat /\ ThLocalEpoch \in [Thread -> Nat]
    BY DEF Init
  <2>2. EpotempAry \in [{Page[k] : k \in Key} -> Temperature]
    <3>1. EpotempAry = [p \in {Page[k] : k \in Key} |-> [temp |-> 0, epoch |-> 1]]
      BY DEF Init
    <3> QED
      BY <1>5, <3>1
  <2>3. tidword \in [Key -> Tid]
    BY <1>4 DEF Init
  <2>4. rwlock \in [Key -> Int] /\ val \in [Key -> Version]
    BY <1>1 DEF Init, Free
  <2> QED
    BY <2>1, <2>2, <2>3, <2>4
<1>7. /\ pc \in [Thread -> Label] /\ pro \in [Thread -> Seq(Operation)]
      /\ pos \in [Thread -> Nat \ {0}] /\ rset \in [Thread -> Seq(ReadElement)]
      /\ wset \in [Thread -> SUBSET Key] /\ CLL \in [Thread -> SUBSET Entry]
      /\ RLL \in [Thread -> SUBSET Entry]
  BY <1>1 DEF Init
<1>8. /\ want \in [Thread -> Entry] /\ locking \in [Thread -> BOOLEAN]
      /\ expected \in [Thread -> Tid] /\ buf \in [Thread -> Version]
      /\ todo \in [Thread -> SUBSET Key] /\ maxset \in [Thread -> Tid]
      /\ epoch \in [Thread -> Nat] /\ mrctid \in [Thread -> Tid]
      /\ n \in [Thread -> Nat]
  BY <1>1, <1>3 DEF Init
<1>9. committed \subseteq Commitment /\ order \in [Key -> Seq(Txn)]
  BY DEF Init
<1> QED
  BY <1>6, <1>7, <1>8, <1>9 DEF Types

LEMMA HeatedType ==
    ASSUME GlobalEpoch \in Nat, NEW a \in Temperature, NEW b \in Heated(a)
    PROVE  b \in Temperature
BY DEF Heated, Temperature

\* What t writes into the read set.
LEMMA AppendType ==
    ASSUME Types, NEW t \in Thread, NEW e \in ReadElement
    PROVE  [rset EXCEPT ![t] = Append(@, e)] \in [Thread -> Seq(ReadElement)]
<1>1. rset \in [Thread -> Seq(ReadElement)]
  BY DEF Types
<1>2. Append(rset[t], e) \in Seq(ReadElement)
  BY <1>1
<1> QED
  BY <1>1, <1>2

LEMMA FailType ==
    ASSUME Types, NEW t \in Thread, NEW i \in DOMAIN rset[t]
    PROVE  /\ [rset EXCEPT ![t][i].failed = TRUE] \in [Thread -> Seq(ReadElement)]
           /\ [rset EXCEPT ![t][i].failed = TRUE][t] =
                [rset[t] EXCEPT ![i] = [rset[t][i] EXCEPT !.failed = TRUE]]
<1>1. rset \in [Thread -> Seq(ReadElement)] /\ rset[t][i] \in ReadElement
  BY AtReadElement DEF Types
<1>2. [rset[t][i] EXCEPT !.failed = TRUE] \in ReadElement
  BY <1>1 DEF ReadElement
<1>3. [rset[t] EXCEPT ![i] = [rset[t][i] EXCEPT !.failed = TRUE]] \in Seq(ReadElement)
  <2>1. rset[t] \in Seq(ReadElement)
    BY <1>1
  <2>2. rset[t] \in [1 .. Len(rset[t]) -> ReadElement] /\ Len(rset[t]) \in Nat
    BY <2>1
  <2>3. [rset[t] EXCEPT ![i] = [rset[t][i] EXCEPT !.failed = TRUE]]
            \in [1 .. Len(rset[t]) -> ReadElement]
    BY <1>2, <2>2
  <2> QED
    BY <2>2, <2>3
<1> QED
  BY <1>1, <1>3

LEMMA TypesStep ==
    ASSUME Types, \A t \in Thread : Placed(t), [Next]_vars
    PROVE  Types'
<1> USE DEF control, records, epochs, sets, lists, reading, tids, history, vars
<1>1. CASE Quit
  BY <1>1 DEF Quit, Types
<1>2. CASE leaderWork
  BY <1>2 DEF leaderWork, Types
<1>3. CASE Joined
  BY <1>3 DEF Joined, Types
<1>4. CASE UNCHANGED vars
  BY <1>4 DEF Types
<1>5. ASSUME NEW t \in Thread, worker(t)
      PROVE  Types'
  <2>0. /\ Placed(t)
        /\ {"idle", "done", "retry", "exec", "lock", "tid", "wait", "copy", "check",
            "commit", "epoch", "validate", "owner", "write", "publish", "abort"} = Label
    BY DEF Label
  <2>1. CASE NextProcedure(t)
    <3>1. pc' \in [Thread -> Label]
      BY <2>0, <2>1, GotoType DEF NextProcedure
    <3>2. pro' \in [Thread -> Seq(Operation)]
      BY <2>1, MOCCAssumption DEF NextProcedure, Types
    <3> QED
      BY <2>1, <3>1, <3>2 DEF NextProcedure, Types
  <2>2. CASE begin(t)
    <3>1. pc' \in [Thread -> Label]
      BY <2>0, <2>2, GotoType DEF begin
    <3>2. pos' \in [Thread -> Nat \ {0}]
      <4>1. pos' = pos \/ pos' = [pos EXCEPT ![t] = 1]
        BY <2>2 DEF begin
      <4>2. pos \in [Thread -> Nat \ {0}]
        BY DEF Types
      <4> QED
        BY <4>1, <4>2
    <3>3. maxset' \in [Thread -> Tid]
      <4>1. maxset' = maxset \/ maxset' = [maxset EXCEPT ![t] = ZeroTid]
        BY <2>2 DEF begin
      <4>2. maxset \in [Thread -> Tid]
        BY DEF Types
      <4> QED
        BY <4>1, <4>2, ZeroTidType
    <3> QED
      BY <2>2, <3>1, <3>2, <3>3 DEF begin, Types
  <2>3. CASE operateLocally(t)
    <3>1. Operating(t) /\ Advance(t, Written(t))
      BY <2>3 DEF operateLocally, Operating
    <3>2. Written(t) \in SUBSET Key
      BY <2>0, <3>1, OpType
    <3>3. wset' \in [Thread -> SUBSET Key]
      BY <2>3, <3>2 DEF operateLocally, Types
    <3>4. /\ pc' \in [Thread -> Label] /\ pos' \in [Thread -> Nat \ {0}]
          /\ todo' \in [Thread -> SUBSET Key]
      BY <2>0, <3>1, <3>2, AdvanceType
    <3> QED
      BY <2>3, <3>3, <3>4 DEF operateLocally, Types
  <2>4. CASE operateLocking(t)
    <3>1. pc' \in [Thread -> Label]
      BY <2>0, <2>4, GotoType DEF operateLocking
    <3>2. Operating(t) /\ OpKey(t) \in Key
      BY <2>0, <2>4, OpType DEF operateLocking, Operating
    <3>3. PICK m : want' = [want EXCEPT ![t] = [key |-> OpKey(t), mode |-> m]]
                   /\ m = (\/ Op(t) = "WRITE"
                           \/ searchRLL(t, OpKey(t)) /\ EntryOf(RLL[t], OpKey(t)).mode
                           \/ ~searchRLL(t, OpKey(t)) /\ Op(t) = "READ_MODIFY_WRITE")
      BY <2>4 DEF operateLocking
    <3>4. m \in BOOLEAN
      BY <3>3
    <3>5. [key |-> OpKey(t), mode |-> m] \in Entry
      BY <3>2, <3>4, EntryType
    <3>6. want' \in [Thread -> Entry]
      BY <3>3, <3>5 DEF Types
    <3>7. locking' \in [Thread -> BOOLEAN]
      BY <2>4 DEF operateLocking, Types
    <3> QED
      BY <2>4, <3>1, <3>6, <3>7 DEF operateLocking, Types
  <2>5. CASE operateOptimistically(t)
    <3>1. pc' \in [Thread -> Label]
      BY <2>0, <2>5, GotoType DEF operateOptimistically
    <3> QED
      BY <2>5, <3>1 DEF operateOptimistically, Types
  <2>6. CASE readTid(t)
    <3>1. pc' \in [Thread -> Label]
      BY <2>0, <2>6, GotoType DEF readTid
    <3>2. Operating(t) /\ OpKey(t) \in Key
      BY <2>0, <2>6, OpType DEF readTid, Operating
    <3>3. expected' \in [Thread -> Tid]
      BY <2>6, <3>2 DEF readTid, Types
    <3> QED
      BY <2>6, <3>1, <3>3 DEF readTid, Types
  <2>7. CASE readWait(t)
    <3>1. pc' \in [Thread -> Label]
      <4>1. pc \in [Thread -> Label]
        BY DEF Types
      <4> QED
        BY <2>0, <2>7, <4>1 DEF readWait, Goto
    <3>2. Operating(t) /\ OpKey(t) \in Key /\ Written(t) \in SUBSET Key
      BY <2>0, <2>7, OpType DEF readWait, Operating
    <3>3. expected' \in [Thread -> Tid]
      BY <2>7, <3>2 DEF readWait, Types
    <3>4. wset' \in [Thread -> SUBSET Key]
      BY <2>7, <3>2 DEF readWait, Types
    <3>5. [key |-> OpKey(t), tid |-> ZeroTid, val |-> NoTxn, failed |-> TRUE] \in ReadElement
      BY <3>2, ZeroTidType, ReadElementType DEF Version
    <3>6. rset' \in [Thread -> Seq(ReadElement)]
      <4>1. \/ rset' = rset
            \/ rset' = [rset EXCEPT ![t] = Append(@,
                  [key |-> OpKey(t), tid |-> ZeroTid, val |-> NoTxn, failed |-> TRUE])]
        BY <2>7 DEF readWait
      <4>2. rset \in [Thread -> Seq(ReadElement)]
        BY DEF Types
      <4> QED
        BY <3>5, <4>1, <4>2, AppendType
    <3> QED
      BY <2>7, <3>1, <3>3, <3>4, <3>6 DEF readWait, Types
  <2>8. CASE readCopy(t)
    <3>1. pc' \in [Thread -> Label]
      BY <2>0, <2>8, GotoType DEF readCopy
    <3>2. Operating(t) /\ OpKey(t) \in Key
      BY <2>0, <2>8, OpType DEF readCopy, Operating
    <3>3. buf' \in [Thread -> Version]
      BY <2>8, <3>2 DEF readCopy, Types
    <3> QED
      BY <2>8, <3>1, <3>3 DEF readCopy, Types
  <2>9. CASE readCheck(t)
    <3>1. Operating(t) /\ OpKey(t) \in Key /\ Written(t) \in SUBSET Key
      BY <2>0, <2>9, OpType DEF readCheck, Operating
    <3>2. /\ pc' \in [Thread -> Label] /\ pos' \in [Thread -> Nat \ {0}]
          /\ todo' \in [Thread -> SUBSET Key]
      <4>1. Advance(t, Written(t)) \/ (Goto(t, "wait") /\ UNCHANGED << pos, todo >>)
        BY <2>9 DEF readCheck
      <4>2. CASE Advance(t, Written(t))
        BY <2>0, <3>1, <4>2, AdvanceType
      <4>3. CASE Goto(t, "wait") /\ UNCHANGED << pos, todo >>
        <5>1. pc' \in [Thread -> Label]
          BY <2>0, <4>3, GotoType
        <5> QED
          BY <4>3, <5>1 DEF Types
      <4> QED
        BY <4>1, <4>2, <4>3
    <3> DEFINE e == [key |-> OpKey(t), tid |-> expected[t], val |-> buf[t], failed |-> FALSE]
    <3>3. e \in ReadElement
      <4>1. expected[t] \in Tid /\ buf[t] \in Version
        BY DEF Types
      <4> QED
        BY <3>1, <4>1, ReadElementType
    <3>4. rset' \in [Thread -> Seq(ReadElement)]
      <4>1. rset' = rset \/ rset' = [rset EXCEPT ![t] = Append(@, e)]
        BY <2>9 DEF readCheck
      <4>2. rset \in [Thread -> Seq(ReadElement)]
        BY DEF Types
      <4> HIDE DEF e
      <4>3. [rset EXCEPT ![t] = Append(@, e)] \in [Thread -> Seq(ReadElement)]
        BY <3>3, AppendType
      <4> QED
        BY <4>1, <4>2, <4>3
    <3>5. wset' \in [Thread -> SUBSET Key] /\ expected' \in [Thread -> Tid]
      <4>1. tidword[OpKey(t)] \in Tid
        BY <3>1 DEF Types
      <4> QED
        BY <2>9, <3>1, <4>1 DEF readCheck, Types
    <3> QED
      BY <2>9, <3>2, <3>4, <3>5 DEF readCheck, Types
  <2>10. CASE lockHeld(t)
    <3>1. /\ pc' \in [Thread -> Label] /\ pos' \in [Thread -> Nat \ {0}]
          /\ todo' \in [Thread -> SUBSET Key]
          /\ wset' \in [Thread -> SUBSET Key] /\ maxset' \in [Thread -> Tid]
      BY <2>0, <2>10, ReturnType DEF lockHeld
    <3> QED
      BY <2>10, <3>1 DEF lockHeld, Types
  <2>11. CASE lockRestore(t)
    <3>1. PICK e : /\ e = EntryOf(CLL[t], First(KeysOf(Violations(t))))
                   /\ e.key = First(KeysOf(Violations(t)))
                   /\ rwlock' = [rwlock EXCEPT ![e.key] = Unlock(e.mode, @)]
                   /\ CLL' = [CLL EXCEPT ![t] = @ \ {e}]
      <4>1. Violations(t) \subseteq CLL[t] /\ Violations(t) # {}
        BY <2>11 DEF lockRestore, Violations
      <4>2. EntryOf(CLL[t], First(KeysOf(Violations(t)))).key = First(KeysOf(Violations(t)))
        BY <4>1, ReleasedEntry
      <4> QED
        BY <2>11, <4>2 DEF lockRestore
    <3>2. CLL' \in [Thread -> SUBSET Entry]
      BY <3>1 DEF Types
    <3>3. rwlock' \in [Key -> Int]
      BY <3>1, LockTyped DEF Types
    <3> QED
      BY <2>11, <3>2, <3>3 DEF lockRestore, Types
  <2>12. CASE lockTake(t)
    <3>1. /\ pc' \in [Thread -> Label] /\ pos' \in [Thread -> Nat \ {0}]
          /\ todo' \in [Thread -> SUBSET Key]
          /\ wset' \in [Thread -> SUBSET Key] /\ maxset' \in [Thread -> Tid]
      BY <2>0, <2>12, ReturnType DEF lockTake
    <3>2. CLL' \in [Thread -> SUBSET Entry]
      BY <2>12 DEF lockTake, Types
    <3>3. rwlock' \in [Key -> Int]
      BY <2>12, LockTyped DEF lockTake, Types
    <3> QED
      BY <2>12, <3>1, <3>2, <3>3 DEF lockTake, Types
  <2>13. CASE commitLock(t)
    <3>1. pc' \in [Thread -> Label]
      BY <2>0, <2>13, GotoType DEF commitLock
    <3>2. First(todo[t]) \in Key
      BY <2>13, FirstIs DEF commitLock, Types
    <3>3. [key |-> First(todo[t]), mode |-> TRUE] \in Entry
      BY <3>2, EntryType
    <3>4. want' \in [Thread -> Entry]
      BY <2>13, <3>3 DEF commitLock, Types
    <3> QED
      BY <2>13, <3>1, <3>4 DEF commitLock, Types
  <2>14. CASE loadEpoch(t)
    <3>1. pc' \in [Thread -> Label]
      BY <2>0, <2>14, GotoType DEF loadEpoch
    <3> QED
      BY <2>14, <3>1 DEF loadEpoch, Types
  <2>15. CASE storeEpoch(t)
    <3>1. pc' \in [Thread -> Label]
      BY <2>0, <2>15, GotoType DEF storeEpoch
    <3>2. ThLocalEpoch' \in [Thread -> Nat]
      BY <2>15 DEF storeEpoch, Types
    <3> QED
      BY <2>15, <3>1, <3>2 DEF storeEpoch, Types
  <2>16. CASE validateTid(t)
    <3>1. pc' \in [Thread -> Label] /\ rset' \in [Thread -> Seq(ReadElement)]
      <4>1. \/ Fail(t)
            \/ Goto(t, "owner") /\ UNCHANGED rset
        BY <2>16 DEF validateTid
      <4>2. pos[t] \in DOMAIN rset[t]
        BY <2>16 DEF validateTid
      <4>3. rset \in [Thread -> Seq(ReadElement)]
        BY DEF Types
      <4>4. pc' \in [Thread -> Label]
        BY <2>0, <4>1, GotoType DEF Fail
      <4>5. [rset EXCEPT ![t][pos[t]].failed = TRUE] \in [Thread -> Seq(ReadElement)]
        BY <4>2, FailType
      <4> QED
        BY <4>1, <4>3, <4>4, <4>5 DEF Fail
    <3> QED
      BY <2>16, <3>1 DEF validateTid, Types
  <2>17. CASE validateOwner(t)
    <3>0. pos[t] \in DOMAIN rset[t]
      BY <2>0, <2>17 DEF validateOwner, Placed
    <3>1. pc' \in [Thread -> Label] /\ rset' \in [Thread -> Seq(ReadElement)]
      <4>1. \/ Fail(t)
            \/ Goto(t, "validate") /\ UNCHANGED rset
        BY <2>17 DEF validateOwner
      <4>3. rset \in [Thread -> Seq(ReadElement)]
        BY DEF Types
      <4>4. pc' \in [Thread -> Label]
        BY <2>0, <4>1, GotoType DEF Fail
      <4>5. [rset EXCEPT ![t][pos[t]].failed = TRUE] \in [Thread -> Seq(ReadElement)]
        BY <3>0, FailType
      <4> QED
        BY <4>1, <4>3, <4>4, <4>5 DEF Fail
    <3>2. pos' \in [Thread -> Nat \ {0}] /\ maxset' \in [Thread -> Tid]
      <4>1. MaxTid(maxset[t], tidword[rset[t][pos[t]].key]) \in Tid
        BY <3>0, AtReadElement, MaxTidType DEF Types
      <4>2. \/ UNCHANGED << pos, maxset >>
            \/ /\ maxset' = [maxset EXCEPT ![t] = MaxTid(maxset[t], tidword[rset[t][pos[t]].key])]
               /\ pos' = [pos EXCEPT ![t] = pos[t] + 1]
        BY <2>17 DEF validateOwner
      <4>3. maxset \in [Thread -> Tid] /\ pos \in [Thread -> Nat \ {0}]
        BY DEF Types
      <4> QED
        BY <4>1, <4>2, <4>3
    <3> QED
      BY <2>17, <3>1, <3>2 DEF validateOwner, Types
  <2>18. CASE chooseTid(t)
    <3>1. pc' \in [Thread -> Label]
      BY <2>0, <2>18, GotoType DEF chooseTid
    <3>2. mrctid' \in [Thread -> Tid]
      BY <2>18, CommitTidType DEF chooseTid, Types
    <3>3. todo' \in [Thread -> SUBSET Key]
      BY <2>18 DEF chooseTid, Types
    <3>4. committed' \subseteq Commitment
      <4> DEFINE R == {[key |-> rset[t][i].key, ver |-> rset[t][i].val,
                        locked |-> rset[t][i].key \in KeysOf(CLL[t])] : i \in DOMAIN rset[t]}
      <4>1. committed' = committed \cup {[id |-> TxnId(t), reads |-> R]}
        BY <2>18 DEF chooseTid
      <4>2. R \subseteq CommittedRead
        <5>1. \A i \in DOMAIN rset[t] : rset[t][i].key \in Key /\ rset[t][i].val \in Version
          BY AtReadElement
        <5>2. \A k \in Key, v \in Version, b \in BOOLEAN :
                  [key |-> k, ver |-> v, locked |-> b] \in CommittedRead
          BY DEF CommittedRead
        <5>3. \A i \in DOMAIN rset[t] : (rset[t][i].key \in KeysOf(CLL[t])) \in BOOLEAN
          OBVIOUS
        <5> QED
          BY <5>1, <5>2, <5>3
      <4> HIDE DEF R
      <4>3. [id |-> TxnId(t), reads |-> R] \in Commitment
        BY <4>2, TxnIdType DEF Commitment
      <4> QED
        BY <4>1, <4>3 DEF Types
    <3> QED
      BY <2>18, <3>1, <3>2, <3>3, <3>4 DEF chooseTid, Types
  <2>19. CASE storeValue(t)
    <3>1. pc' \in [Thread -> Label]
      BY <2>0, <2>19, GotoType DEF storeValue
    <3>2. TxnId(t) \in Version
      BY TxnIdType DEF Version
    <3>3. val' \in [Key -> Version]
      BY <2>19, <3>2 DEF storeValue, Types
    <3> QED
      BY <2>19, <3>1, <3>3 DEF storeValue, Types
  <2>20. CASE storeTid(t)
    <3>0. First(todo[t]) \in Key
      BY <2>0, <2>20, FirstIs DEF storeTid, Placed, Types
    <3>1. pc' \in [Thread -> Label]
      BY <2>0, <2>20, GotoType DEF storeTid
    <3>2. tidword' \in [Key -> Tid]
      BY <2>20 DEF storeTid, Types
    <3>3. order' \in [Key -> Seq(Txn)]
      <4>1. order \in [Key -> Seq(Txn)] /\ TxnId(t) \in Txn
        BY TxnIdType DEF Types
      <4>2. Append(order[First(todo[t])], TxnId(t)) \in Seq(Txn)
        BY <3>0, <4>1
      <4> QED
        BY <2>20, <4>1, <4>2 DEF storeTid
    <3>4. todo' \in [Thread -> SUBSET Key]
      BY <2>20 DEF storeTid, Types
    <3> QED
      BY <2>20, <3>1, <3>2, <3>3, <3>4 DEF storeTid, Types
  <2>21. CASE unlockCLL(t)
    <3>1. PICK e : /\ rwlock' = [rwlock EXCEPT ![e.key] = Unlock(e.mode, @)]
                   /\ CLL' = [CLL EXCEPT ![t] = @ \ {e}]
      BY <2>21 DEF unlockCLL
    <3>2. CLL' \in [Thread -> SUBSET Entry]
      BY <3>1 DEF Types
    <3>3. rwlock' \in [Key -> Int]
      BY <3>1, LockTyped DEF Types
    <3> QED
      BY <2>21, <3>2, <3>3 DEF unlockCLL, Types
  <2>22. CASE committedTxn(t)
    <3>1. pc' \in [Thread -> Label]
      BY <2>0, <2>22, GotoType DEF committedTxn
    <3>2. rset' \in [Thread -> Seq(ReadElement)]
      BY <2>22 DEF committedTxn, Types
    <3>3. /\ wset' \in [Thread -> SUBSET Key] /\ RLL' \in [Thread -> SUBSET Entry]
          /\ n' \in [Thread -> Nat]
      BY <2>22 DEF committedTxn, Types
    <3> QED
      BY <2>22, <3>1, <3>2, <3>3 DEF committedTxn, Types
  <2>23. CASE abort(t)
    <3>1. pc' \in [Thread -> Label]
      BY <2>0, <2>23, GotoType DEF abort
    <3>2. rset' \in [Thread -> Seq(ReadElement)]
      BY <2>23 DEF abort, Types
    <3>3. wset' \in [Thread -> SUBSET Key] /\ todo' \in [Thread -> SUBSET Key]
      BY <2>23 DEF abort, Types
    <3>4. EpotempAry' \in [{Page[k] : k \in Key} -> Temperature]
      <4>1. FailedKey(t) \in Key
        <5>1. \E i \in DOMAIN rset[t] : rset[t][i].failed
          BY <2>0, <2>23 DEF abort, Placed
        <5> QED
          BY <5>1, AtReadElement DEF FailedKey
      <4>2. EpotempAry[Page[FailedKey(t)]] \in Temperature
        BY <4>1 DEF Types
      <4>3. PICK b \in Heated(EpotempAry[Page[FailedKey(t)]]) :
                EpotempAry' = [EpotempAry EXCEPT ![Page[FailedKey(t)]] = b]
        BY <2>23 DEF abort
      <4>4. b \in Temperature
        BY <4>2, <4>3, HeatedType DEF Types
      <4> QED
        BY <4>3, <4>4 DEF Types
    <3>5. RLL' \in [Thread -> SUBSET Entry]
      <4>1. PICK W, K : /\ W \subseteq wset[t] /\ K \subseteq {rset[t][i].key : i \in DOMAIN rset[t]}
                        /\ RLL' = [RLL EXCEPT ![t] = {[key |-> k, mode |-> TRUE] : k \in W}
                                                \cup {[key |-> k, mode |-> FALSE] : k \in K}]
        BY <2>23 DEF abort
      <4>2. W \subseteq Key /\ K \subseteq Key
        <5>1. wset[t] \subseteq Key
          BY DEF Types
        <5>2. \A i \in DOMAIN rset[t] : rset[t][i].key \in Key
          BY AtReadElement
        <5> QED
          BY <4>1, <5>1, <5>2
      <4>3. {[key |-> k, mode |-> TRUE] : k \in W} \cup {[key |-> k, mode |-> FALSE] : k \in K}
               \in SUBSET Entry
        BY <4>2, EntryType
      <4>4. RLL \in [Thread -> SUBSET Entry]
        BY DEF Types
      <4> QED
        BY <4>1, <4>3, <4>4
    <3> QED
      BY <2>23, <3>1, <3>2, <3>3, <3>4, <3>5 DEF abort, Types
  <2> QED
    BY <1>5, <2>1, <2>2, <2>3, <2>4, <2>5, <2>6, <2>7, <2>8, <2>9, <2>10, <2>11, <2>12,
       <2>13, <2>14, <2>15, <2>16, <2>17, <2>18, <2>19, <2>20, <2>21, <2>22, <2>23 DEF worker
<1> QED
  BY <1>1, <1>2, <1>3, <1>4, <1>5 DEF Next

-----------------------------------------------------------------------------
(* Where workers are, and the locks they have *)

\* The read set with an entry more, and with an entry that failed.
LEMMA AppendedReads ==
    ASSUME Types, NEW t \in Thread, NEW e \in ReadElement, rset'[t] = Append(rset[t], e)
    PROVE  /\ ReadKeys(t)' = ReadKeys(t) \cup {e.key}
           /\ \A i \in DOMAIN rset'[t] :
                 (i \in DOMAIN rset[t] /\ rset'[t][i] = rset[t][i]) \/ rset'[t][i] = e
           /\ \A i \in DOMAIN rset[t] : i \in DOMAIN rset'[t] /\ rset'[t][i] = rset[t][i]
           /\ \E i \in DOMAIN rset'[t] : rset'[t][i] = e
<1>1. rset[t] \in Seq(ReadElement)
  BY DEF Types
<1>2. /\ \A i \in DOMAIN rset'[t] :
            (i \in DOMAIN rset[t] /\ rset'[t][i] = rset[t][i]) \/ rset'[t][i] = e
      /\ \A i \in DOMAIN rset[t] : i \in DOMAIN rset'[t] /\ rset'[t][i] = rset[t][i]
      /\ \E i \in DOMAIN rset'[t] : rset'[t][i] = e
  <2> HIDE DEF Types
  <2> DEFINE s == rset[t]
             r == rset'[t]
  <2>1. s \in Seq(ReadElement) /\ r = Append(s, e)
    BY <1>1
  <2> HIDE DEF s, r
  <2>2. /\ Len(s) \in Nat /\ DOMAIN s = 1 .. Len(s) /\ DOMAIN r = 1 .. Len(s) + 1
        /\ r[Len(s) + 1] = e /\ \A i \in 1 .. Len(s) : r[i] = s[i]
    BY <2>1
  <2>3. /\ \A i \in DOMAIN r : (i \in DOMAIN s /\ r[i] = s[i]) \/ r[i] = e
        /\ \A i \in DOMAIN s : i \in DOMAIN r /\ r[i] = s[i]
        /\ \E i \in DOMAIN r : r[i] = e
    BY <2>2
  <2> QED
    BY <2>3 DEF s, r
<1> QED
  BY <1>2 DEF ReadKeys

LEMMA FailedReads ==
    ASSUME Types, NEW t \in Thread, pos[t] \in DOMAIN rset[t], Fail(t)
    PROVE  /\ ReadKeys(t)' = ReadKeys(t) /\ DOMAIN rset'[t] = DOMAIN rset[t]
           /\ \A i \in DOMAIN rset[t] : rset'[t][i].failed \/ rset'[t][i] = rset[t][i]
           /\ rset'[t][pos[t]].failed
           /\ \A i \in DOMAIN rset[t] : rset'[t][i].key = rset[t][i].key
           /\ \A u \in Thread \ {t} : rset'[u] = rset[u]
           /\ pc'[t] = "abort"
<1>1. /\ rset'[t] = [rset[t] EXCEPT ![pos[t]] = [rset[t][pos[t]] EXCEPT !.failed = TRUE]]
      /\ \A u \in Thread \ {t} : rset'[u] = rset[u]
  <2>1. rset' = [rset EXCEPT ![t][pos[t]].failed = TRUE]
    BY DEF Fail
  <2>2. rset \in [Thread -> Seq(ReadElement)]
    BY DEF Types
  <2> QED
    BY <2>1, <2>2
<1>2. /\ [rset[t][pos[t]] EXCEPT !.failed = TRUE].failed = TRUE
      /\ [rset[t][pos[t]] EXCEPT !.failed = TRUE].key = rset[t][pos[t]].key
  <2>1. rset[t][pos[t]] \in ReadElement
    BY AtReadElement
  <2> QED
    BY <2>1 DEF ReadElement
<1>3. /\ DOMAIN rset'[t] = DOMAIN rset[t]
      /\ \A i \in DOMAIN rset[t] : i # pos[t] => rset'[t][i] = rset[t][i]
      /\ rset'[t][pos[t]] = [rset[t][pos[t]] EXCEPT !.failed = TRUE]
  BY <1>1
<1>4. /\ \A i \in DOMAIN rset[t] : rset'[t][i].failed \/ rset'[t][i] = rset[t][i]
      /\ rset'[t][pos[t]].failed
      /\ \A i \in DOMAIN rset[t] : rset'[t][i].key = rset[t][i].key
  BY <1>2, <1>3
<1>5. ReadKeys(t)' = ReadKeys(t)
  BY <1>3, <1>4 DEF ReadKeys
<1>6. pc'[t] = "abort"
  <2>1. pc \in [Thread -> Label]
    BY DEF Types
  <2> QED
    BY <2>1 DEF Fail, Goto
<1> QED
  BY <1>1, <1>3, <1>4, <1>5, <1>6

\* What holds of a worker holds after the steps of others.
LEMMA OtherMatches ==
    ASSUME NEW u \in Thread, Matches(u), UNCHANGED Private(u)
    PROVE  Matches(u)'
<1>0. Placed(u) /\ Known(u) /\ WriteLocks(u)
  BY DEF Matches
<1>1. OpKey(u)' = OpKey(u) /\ ReadKeys(u)' = ReadKeys(u)
  BY DEF Private, OpKey, ReadKeys
<1>2. /\ Operating(u)' <=> Operating(u)
      /\ Copying(u)' <=> Copying(u)
      /\ Committing(u)' <=> Committing(u)
      /\ Writing(u)' <=> Writing(u)
  BY DEF Private, Operating, Copying, Committing, Writing
<1>3. Placed(u)'
  BY <1>0, <1>1, <1>2 DEF Private, Placed
<1>4. Known(u)'
  BY <1>0, <1>1, <1>2 DEF Private, Known
<1>5. WriteLocks(u)'
  <2>1. todo'[u] = todo[u] /\ wset'[u] = wset[u] /\ CLL'[u] = CLL[u]
    BY DEF Private
  <2>2. \A k \in Key : /\ Past(u, k)' <=> Past(u, k)
                       /\ Pending(u, k)' <=> Pending(u, k)
                       /\ Mine(u, k)' <=> Mine(u, k)
    BY <1>2, <2>1 DEF Past, Pending, Mine
  <2> QED
    BY <1>0, <2>1, <2>2 DEF WriteLocks
<1> QED
  BY <1>3, <1>4, <1>5 DEF Matches

\* A worker that has done an operation, and had no other lock than it needs.
LEMMA DoneMatches ==
    ASSUME Types', NEW t \in Thread, 0 < Len(pro'[t]),
           \/ pc'[t] = "exec" /\ pos'[t] \in DOMAIN pro'[t] /\ todo'[t] = {}
           \/ pc'[t] = "commit" /\ todo'[t] = wset'[t],
           \A i \in DOMAIN rset'[t] : ~rset'[t][i].failed,
           \A e, f \in CLL'[t] : e.key = f.key => e = f,
           \A e \in CLL'[t] : e.key \in wset'[t] \cup ReadKeys(t)'
    PROVE  Matches(t)'
<1>1. Placed(t)'
  BY DEF Placed, Operating
<1>2. Known(t)'
  BY DEF Known, Copying
<1>3. WriteLocks(t)'
  BY DEF WriteLocks, Past, Pending, Committing, Writing
<1> QED
  BY <1>1, <1>2, <1>3 DEF Matches

\* Returning from lock() with the lock in the list.
LEMMA ReturnMatches ==
    ASSUME Types, Types', NEW t \in Thread, Matches(t), pc[t] = "lock", Return(t),
           UNCHANGED << pro[t], rset[t], want[t], locking[t] >>,
           \A e, f \in CLL'[t] : e.key = f.key => e = f,
           \A e \in CLL'[t] : e \in CLL[t] \/ e = want[t],
           \A e \in CLL[t] : e \in CLL'[t],
           \E e \in CLL'[t] : e.key = want[t].key /\ (want[t].mode => e.mode)
    PROVE  Matches(t)'
<1>0. /\ Placed(t) /\ Known(t) /\ WriteLocks(t)
      /\ CLL[t] \subseteq Entry /\ CLL'[t] \subseteq Entry
  BY DEF Matches, Types
<1>1. \A i \in DOMAIN rset'[t] : ~rset'[t][i].failed
  BY <1>0 DEF Placed
<1>2. ReadKeys(t)' = ReadKeys(t)
  BY DEF ReadKeys
<1>3. \A e \in CLL[t] : e.key \in wset[t] \cup ReadKeys(t)
  BY <1>0 DEF Known, Copying
<1>4. CASE todo[t] # {}
  <2> DEFINE k == want[t].key
  <2>1. want[t] = [key |-> First(todo[t]), mode |-> TRUE] /\ todo[t] \subseteq wset[t]
    BY <1>0, <1>4 DEF Placed
  <2>2. k \in todo[t] /\ k \in Key /\ \A j \in todo[t] : k <= j
    <3>1. todo[t] \in SUBSET Key /\ k = First(todo[t])
      BY <2>1 DEF Types
    <3> QED
      BY <1>4, <3>1, FirstIs
  <2>3. todo'[t] = todo[t] \ {k} /\ pc'[t] = "commit" /\ wset'[t] = wset[t]
    <3>1. todo \in [Thread -> SUBSET Key] /\ pc \in [Thread -> Label]
      BY DEF Types
    <3> QED
      BY <1>4, <3>1 DEF Return, Goto
  <2>4. Placed(t)'
    BY <1>0, <1>1, <2>1, <2>3 DEF Placed, Operating
  <2>5. Known(t)'
    <3>1. \A e \in CLL'[t] : e.key \in wset'[t] \cup ReadKeys(t)'
      BY <1>2, <1>3, <2>1, <2>2, <2>3
    <3> QED
      BY <2>3, <3>1 DEF Known, Copying
  <2>6. [key |-> k, mode |-> TRUE] \in CLL'[t]
    <3>1. PICK e \in CLL'[t] : e.key = k /\ e.mode
      BY <2>1
    <3>2. e = [key |-> k, mode |-> TRUE]
      BY <1>0, <3>1 DEF Entry
    <3> QED
      BY <3>1, <3>2
  <2>7. ASSUME NEW j \in Key, j \in wset'[t] \ todo'[t]
        PROVE  [key |-> j, mode |-> TRUE] \in CLL'[t] /\ \A i \in todo'[t] : j < i
    <3>1. CASE j = k
      <4>1. \A i \in todo'[t] : i \in Nat /\ i # k /\ k <= i
        BY <1>0, <2>2, <2>3, MOCCAssumption DEF Types
      <4>2. k \in Nat
        BY <2>2, MOCCAssumption
      <4> QED
        BY <2>6, <3>1, <4>1, <4>2
    <3>2. CASE j # k
      <4>1. Past(t, j)
        BY <1>4, <2>3, <2>7, <3>2 DEF Past, Committing
      <4>2. Mine(t, j) /\ \A i \in todo[t] : j < i
        BY <1>0, <4>1 DEF WriteLocks
      <4> QED
        BY <2>3, <4>2 DEF Mine
    <3> QED
      BY <3>1, <3>2
  <2>8. WriteLocks(t)'
    <3>1. \A j \in Key : Past(t, j)' => j \in wset'[t] \ todo'[t]
      BY DEF Past
    <3>2. \A j \in Key : ~Pending(t, j)'
      BY <2>3 DEF Pending, Writing
    <3>3. \A j \in Key : Mine(t, j)' <=> [key |-> j, mode |-> TRUE] \in CLL'[t]
      BY DEF Mine
    <3> QED
      BY <2>7, <3>1, <3>2, <3>3 DEF WriteLocks
  <2> QED
    BY <2>4, <2>5, <2>8 DEF Matches
<1>5. CASE todo[t] = {}
  <2>1. Operating(t) /\ locking[t] /\ want[t].key = OpKey(t)
    BY <1>0, <1>5 DEF Operating, Placed
  <2>2. Written(t) \in SUBSET Key /\ wset[t] \subseteq Written(t)
    BY <1>0, <2>1, OpType
  <2>3. CASE Op(t) = "WRITE"
    <3>1. wset' = [wset EXCEPT ![t] = Written(t)] /\ Advance(t, Written(t))
      BY <1>5, <2>3 DEF Return
    <3>2. wset'[t] = Written(t) /\ Written(t) = wset[t] \cup {OpKey(t)}
      <4>1. wset \in [Thread -> SUBSET Key]
        BY DEF Types
      <4> QED
        BY <2>3, <3>1, <4>1 DEF Written
    <3>3. \/ pc'[t] = "exec" /\ pos'[t] \in DOMAIN pro'[t] /\ todo'[t] = {}
          \/ pc'[t] = "commit" /\ todo'[t] = wset'[t]
      BY <1>0, <1>5, <2>1, <2>2, <3>1, <3>2, AdvanceType
    <3>4. \A e \in CLL'[t] : e.key \in wset'[t] \cup ReadKeys(t)'
      BY <1>2, <1>3, <2>1, <3>2
    <3> QED
      BY <1>0, <1>1, <3>3, <3>4, DoneMatches DEF Placed
  <2>4. CASE Op(t) # "WRITE"
    <3>1. Goto(t, "tid") /\ UNCHANGED << wset, pos, todo >>
      BY <1>5, <2>4 DEF Return
    <3>2. pc'[t] = "tid" /\ todo'[t] = {} /\ wset'[t] = wset[t] /\ pos'[t] = pos[t]
      BY <1>5, <3>1 DEF Types, Goto
    <3>3. OpKey(t)' = OpKey(t)
      BY <3>2 DEF OpKey
    <3>4. Placed(t)'
      BY <1>0, <1>1, <2>1, <3>2 DEF Placed, Operating
    <3>5. Known(t)'
      <4>1. \A e \in CLL'[t] : e.key \in wset'[t] \cup ReadKeys(t)' \/ e.key = OpKey(t)'
        BY <1>2, <1>3, <2>1, <3>2, <3>3
      <4> QED
        BY <2>1, <3>2, <4>1 DEF Known, Copying
    <3>6. WriteLocks(t)'
      BY <3>2 DEF WriteLocks, Past, Pending, Committing, Writing
    <3> QED
      BY <3>4, <3>5, <3>6 DEF Matches
  <2> QED
    BY <2>3, <2>4
<1> QED
  BY <1>4, <1>5

\* The locks for writing that a worker needs, and has, when its list is as before.
LEMMA WriteLocksKept ==
    ASSUME NEW t \in Thread, WriteLocks(t), CLL'[t] = CLL[t],
           \A k \in Key : Past(t, k)' => Past(t, k) /\ todo'[t] = todo[t],
           \A k \in Key : Pending(t, k)' => Past(t, k) \/ Pending(t, k)
    PROVE  WriteLocks(t)'
<1> SUFFICES ASSUME NEW k \in Key
             PROVE  /\ Past(t, k)' => Mine(t, k)' /\ \A j \in todo'[t] : k < j
                    /\ Pending(t, k)' => Mine(t, k)'
  BY DEF WriteLocks
<1>1. Mine(t, k)' <=> Mine(t, k)
  BY DEF Mine
<1>2. /\ Past(t, k) => Mine(t, k) /\ \A j \in todo[t] : k < j
      /\ Pending(t, k) => Mine(t, k)
  BY DEF WriteLocks
<1> QED
  BY <1>1, <1>2

\* A worker after its own step.
LEMMA OwnMatches ==
    ASSUME Types, Types', NEW t \in Thread, Matches(t), worker(t)
    PROVE  Matches(t)'
<1>0. Placed(t) /\ Known(t) /\ WriteLocks(t)
  BY DEF Matches
<1>t. /\ pc \in [Thread -> Label] /\ pro \in [Thread -> Seq(Operation)]
      /\ pos \in [Thread -> Nat \ {0}] /\ rset \in [Thread -> Seq(ReadElement)]
      /\ wset \in [Thread -> SUBSET Key] /\ CLL \in [Thread -> SUBSET Entry]
      /\ want \in [Thread -> Entry] /\ locking \in [Thread -> BOOLEAN]
      /\ todo \in [Thread -> SUBSET Key]
  BY DEF Types
<1> USE DEF control, records, epochs, sets, lists, reading, tids, history
<1>1. CASE NextProcedure(t)
  <2>1. /\ pc[t] = "idle" /\ pc'[t] \in {"done", "retry"}
        /\ UNCHANGED << rset[t], wset[t], CLL[t], todo[t] >>
        /\ pc'[t] = "retry" => 0 < Len(pro'[t])
    <3>1. pc[t] = "idle" /\ UNCHANGED << rset[t], wset[t], CLL[t], todo[t] >>
      BY <1>1 DEF NextProcedure
    <3>2. \/ Goto(t, "done")
          \/ Goto(t, "retry") /\ \E p \in Procedure : pro' = [pro EXCEPT ![t] = p]
      BY <1>1 DEF NextProcedure
    <3> QED
      BY <1>t, <3>1, <3>2, MOCCAssumption DEF Goto
  <2>2. rset[t] = << >> /\ wset[t] = {} /\ CLL[t] = {} /\ todo[t] = {}
    BY <1>0, <2>1 DEF Placed
  <2>3. Placed(t)'
    BY <2>1, <2>2 DEF Placed, Operating
  <2>4. Known(t)'
    BY <2>1, <2>2 DEF Known, Copying
  <2>5. WriteLocks(t)'
    BY <2>1, <2>2 DEF WriteLocks, Past, Pending, Committing, Writing
  <2> QED
    BY <2>3, <2>4, <2>5 DEF Matches
<1>2. CASE begin(t)
  <2>1. /\ pc[t] = "retry" /\ (pc'[t] = "done" \/ (pc'[t] = "exec" /\ pos'[t] = 1))
        /\ UNCHANGED << rset[t], wset[t], CLL[t], todo[t], pro[t] >>
    BY <1>2, <1>t DEF begin, Goto
  <2>2. /\ rset[t] = << >> /\ wset[t] = {} /\ CLL[t] = {} /\ todo[t] = {}
        /\ pro[t] \in Seq(Operation) /\ 0 < Len(pro[t])
    BY <1>0, <1>t, <2>1 DEF Placed
  <2>3. Placed(t)'
    BY <2>1, <2>2 DEF Placed, Operating
  <2>4. Known(t)'
    BY <2>1, <2>2 DEF Known, Copying
  <2>5. WriteLocks(t)'
    <3>1. \A k \in Key : Past(t, k)' => Past(t, k) /\ todo'[t] = todo[t]
      BY <2>1, <2>2 DEF Past, Committing
    <3>2. \A k \in Key : Pending(t, k)' => Past(t, k) \/ Pending(t, k)
      BY <2>1, <2>2 DEF Past, Pending, Writing, Committing
    <3> QED
      BY <1>0, <2>1, <2>2, <3>1, <3>2, WriteLocksKept
  <2> QED
    BY <2>3, <2>4, <2>5 DEF Matches
<1>3. CASE operateLocally(t)
  <2>1. /\ pc[t] = "exec" /\ Operating(t) /\ Advance(t, Written(t))
        /\ wset' = [wset EXCEPT ![t] = Written(t)]
        /\ UNCHANGED << rset[t], CLL[t], pro[t] >>
    BY <1>3 DEF operateLocally, Operating
  <2>2. Written(t) \in SUBSET Key /\ wset[t] \subseteq Written(t) /\ todo[t] = {}
    BY <1>0, <2>1, OpType DEF Placed
  <2>3. wset'[t] = Written(t) /\ ReadKeys(t)' = ReadKeys(t)
    BY <1>t, <2>1 DEF ReadKeys
  <2>4. \/ pc'[t] = "exec" /\ pos'[t] \in DOMAIN pro'[t] /\ todo'[t] = {}
        \/ pc'[t] = "commit" /\ todo'[t] = wset'[t]
    BY <1>0, <2>1, <2>2, <2>3, AdvanceType
  <2>5. \A i \in DOMAIN rset'[t] : ~rset'[t][i].failed
    BY <1>0, <2>1 DEF Placed
  <2>6. /\ \A e, f \in CLL'[t] : e.key = f.key => e = f
        /\ \A e \in CLL'[t] : e.key \in wset'[t] \cup ReadKeys(t)'
    BY <1>0, <2>1, <2>2, <2>3 DEF Known, Copying
  <2> QED
    BY <1>0, <2>1, <2>4, <2>5, <2>6, DoneMatches DEF Placed
<1>4. CASE operateLocking(t)
  <2>1. /\ pc[t] = "exec" /\ pc'[t] = "lock" /\ locking'[t] /\ want'[t].key = OpKey(t)
        /\ UNCHANGED << rset[t], wset[t], CLL[t], todo[t], pro[t], pos[t] >>
    BY <1>4, <1>t DEF operateLocking, Goto
  <2>2. /\ todo[t] = {} /\ OpKey(t)' = OpKey(t) /\ ReadKeys(t)' = ReadKeys(t)
        /\ Operating(t)
    BY <1>0, <2>1 DEF Placed, OpKey, ReadKeys, Operating
  <2>3. Placed(t)'
    BY <1>0, <2>1, <2>2 DEF Placed, Operating
  <2>4. Known(t)'
    BY <1>0, <2>1, <2>2 DEF Known, Copying
  <2>5. WriteLocks(t)'
    <3>1. \A k \in Key : Past(t, k)' => Past(t, k) /\ todo'[t] = todo[t]
      BY <2>1, <2>2 DEF Past, Committing
    <3>2. \A k \in Key : Pending(t, k)' => Past(t, k) \/ Pending(t, k)
      BY <2>1, <2>2 DEF Past, Pending, Writing, Committing
    <3> QED
      BY <1>0, <2>1, <2>2, <3>1, <3>2, WriteLocksKept
  <2> QED
    BY <2>3, <2>4, <2>5 DEF Matches
<1>5. CASE operateOptimistically(t)
  <2>1. /\ pc[t] = "exec" /\ pc'[t] = "tid" /\ ~locking'[t]
        /\ UNCHANGED << rset[t], wset[t], CLL[t], todo[t], pro[t], pos[t], want[t] >>
    BY <1>5, <1>t DEF operateOptimistically, Goto
  <2>2. /\ todo[t] = {} /\ OpKey(t)' = OpKey(t) /\ ReadKeys(t)' = ReadKeys(t)
        /\ Operating(t) /\ OpKey(t) \notin wset[t] \cup ReadKeys(t)
    <3>1. ~searchWriteSet(t, OpKey(t)) /\ ~searchReadSet(t, OpKey(t))
      BY <1>5 DEF operateOptimistically
    <3> QED
      BY <1>0, <2>1, <3>1 DEF Placed, OpKey, ReadKeys, Operating, searchWriteSet, searchReadSet
  <2>3. Placed(t)'
    BY <1>0, <2>1, <2>2 DEF Placed, Operating
  <2>4. Known(t)'
    BY <1>0, <2>1, <2>2 DEF Known, Copying
  <2>5. WriteLocks(t)'
    <3>1. \A k \in Key : Past(t, k)' => Past(t, k) /\ todo'[t] = todo[t]
      BY <2>1, <2>2 DEF Past, Committing
    <3>2. \A k \in Key : Pending(t, k)' => Past(t, k) \/ Pending(t, k)
      BY <2>1, <2>2 DEF Past, Pending, Writing, Committing
    <3> QED
      BY <1>0, <2>1, <2>2, <3>1, <3>2, WriteLocksKept
  <2> QED
    BY <2>3, <2>4, <2>5 DEF Matches
<1>6. CASE readTid(t)
  <2>1. /\ pc[t] = "tid" /\ pc'[t] = IF locking[t] THEN "copy" ELSE "wait"
        /\ UNCHANGED << rset[t], wset[t], CLL[t], todo[t], pro[t], pos[t], want[t], locking[t] >>
    BY <1>6, <1>t DEF readTid, Goto
  <2>2. /\ todo[t] = {} /\ OpKey(t)' = OpKey(t) /\ ReadKeys(t)' = ReadKeys(t)
        /\ Operating(t)
    BY <1>0, <2>1 DEF Placed, OpKey, ReadKeys, Operating
  <2>3. Placed(t)'
    BY <1>0, <2>1, <2>2 DEF Placed, Operating
  <2>4. Known(t)'
    BY <1>0, <2>1, <2>2 DEF Known, Copying
  <2>5. WriteLocks(t)'
    <3>1. \A k \in Key : Past(t, k)' => Past(t, k) /\ todo'[t] = todo[t]
      BY <2>1, <2>2 DEF Past, Committing
    <3>2. \A k \in Key : Pending(t, k)' => Past(t, k) \/ Pending(t, k)
      BY <2>1, <2>2 DEF Past, Pending, Writing, Committing
    <3> QED
      BY <1>0, <2>1, <2>2, <3>1, <3>2, WriteLocksKept
  <2> QED
    BY <2>3, <2>4, <2>5 DEF Matches
<1>7. CASE readWait(t)
  <2>1. /\ pc[t] = "wait" /\ ~locking[t] /\ Operating(t) /\ todo[t] = {}
        /\ UNCHANGED << CLL[t], todo[t], pro[t], pos[t], want[t], locking[t] >>
    BY <1>0, <1>7 DEF readWait, Placed, Operating
  <2>2. OpKey(t)' = OpKey(t)
    BY <2>1 DEF OpKey
  <2> DEFINE e == [key |-> OpKey(t), tid |-> ZeroTid, val |-> NoTxn, failed |-> TRUE]
  <2>3. CASE UNCHANGED sets
    <3>1. /\ pc'[t] \in {"wait", "copy"}
          /\ UNCHANGED << rset[t], wset[t] >>
      <4>1. pc[t] = "wait" /\ (Goto(t, "copy") \/ Goto(t, "abort") \/ UNCHANGED pc)
        BY <1>7 DEF readWait
      <4>2. ~Goto(t, "abort")
        <5>1. rset'[t] = rset[t] /\ Append(rset[t], e) # rset[t]
          BY <1>t, <2>3
        <5>2. Goto(t, "abort") => rset' = [rset EXCEPT ![t] = Append(@, e)]
          BY <1>7, <1>t DEF readWait, Goto
        <5> QED
          BY <1>t, <5>1, <5>2
      <4> QED
        BY <1>t, <2>3, <4>1, <4>2 DEF Goto
    <3>2. ReadKeys(t)' = ReadKeys(t)
      BY <3>1 DEF ReadKeys
    <3>3. Placed(t)'
      BY <1>0, <2>1, <2>2, <3>1, <3>2 DEF Placed, Operating
    <3>4. Known(t)'
      BY <1>0, <2>1, <2>2, <3>1, <3>2 DEF Known, Copying
    <3>5. WriteLocks(t)'
      <4>1. \A k \in Key : Past(t, k)' => Past(t, k) /\ todo'[t] = todo[t]
        BY <2>1, <2>2, <3>1 DEF Past, Committing
      <4>2. \A k \in Key : Pending(t, k)' => Past(t, k) \/ Pending(t, k)
        BY <2>1, <2>2, <3>1 DEF Past, Pending, Writing, Committing
      <4> QED
        BY <1>0, <2>1, <2>2, <3>1, <4>1, <4>2, WriteLocksKept
    <3> QED
      BY <3>3, <3>4, <3>5 DEF Matches
  <2>4. CASE /\ rset' = [rset EXCEPT ![t] = Append(@, e)]
             /\ wset' = [wset EXCEPT ![t] = Written(t)]
             /\ Goto(t, "abort")
    <3>1. pc'[t] = "abort" /\ wset'[t] = Written(t) /\ rset'[t] = Append(rset[t], e)
      BY <1>t, <2>4 DEF Goto
    <3>2. e \in ReadElement /\ e.failed /\ OpKey(t) \in Key /\ wset[t] \subseteq Written(t)
      <4>1. OpKey(t) \in Key /\ wset[t] \subseteq Written(t)
        BY <1>0, <2>1, OpType
      <4> QED
        BY <4>1, ZeroTidType, ReadElementType DEF Version
    <3> HIDE DEF e
    <3>3. /\ ReadKeys(t)' = ReadKeys(t) \cup {e.key}
          /\ \E i \in DOMAIN rset'[t] : rset'[t][i].failed
      BY <3>1, <3>2, AppendedReads
    <3>4. Placed(t)'
      BY <1>0, <2>1, <3>1, <3>3 DEF Placed, Operating
    <3>5. Known(t)'
      BY <1>0, <2>1, <3>1, <3>2, <3>3 DEF Known, Copying
    <3>6. WriteLocks(t)'
      BY <3>1, <2>1 DEF WriteLocks, Past, Pending, Committing, Writing
    <3> QED
      BY <3>4, <3>5, <3>6 DEF Matches
  <2> QED
    BY <1>7, <2>3, <2>4 DEF readWait
<1>8. CASE readCopy(t)
  <2>1. /\ pc[t] = "copy" /\ pc'[t] = "check"
        /\ UNCHANGED << rset[t], wset[t], CLL[t], todo[t], pro[t], pos[t], want[t], locking[t] >>
    BY <1>8, <1>t DEF readCopy, Goto
  <2>2. /\ todo[t] = {} /\ OpKey(t)' = OpKey(t) /\ ReadKeys(t)' = ReadKeys(t)
        /\ Operating(t)
    BY <1>0, <2>1 DEF Placed, OpKey, ReadKeys, Operating
  <2>3. Placed(t)'
    BY <1>0, <2>1, <2>2 DEF Placed, Operating
  <2>4. Known(t)'
    BY <1>0, <2>1, <2>2 DEF Known, Copying
  <2>5. WriteLocks(t)'
    <3>1. \A k \in Key : Past(t, k)' => Past(t, k) /\ todo'[t] = todo[t]
      BY <2>1, <2>2 DEF Past, Committing
    <3>2. \A k \in Key : Pending(t, k)' => Past(t, k) \/ Pending(t, k)
      BY <2>1, <2>2 DEF Past, Pending, Writing, Committing
    <3> QED
      BY <1>0, <2>1, <2>2, <3>1, <3>2, WriteLocksKept
  <2> QED
    BY <2>3, <2>4, <2>5 DEF Matches
<1>9. CASE readCheck(t)
  <2>1. /\ pc[t] = "check" /\ Operating(t) /\ todo[t] = {}
        /\ UNCHANGED << CLL[t], pro[t], want[t], locking[t] >>
    BY <1>0, <1>9 DEF readCheck, Placed, Operating
  <2> DEFINE e == [key |-> OpKey(t), tid |-> expected[t], val |-> buf[t], failed |-> FALSE]
  <2>2. CASE /\ rset' = [rset EXCEPT ![t] = Append(@, e)]
             /\ wset' = [wset EXCEPT ![t] = Written(t)]
             /\ Advance(t, Written(t))
    <3>1. wset'[t] = Written(t) /\ rset'[t] = Append(rset[t], e)
      BY <1>t, <2>2
    <3>2. /\ e \in ReadElement /\ ~e.failed /\ e.key = OpKey(t) /\ OpKey(t) \in Key
          /\ wset[t] \subseteq Written(t) /\ Written(t) \in SUBSET Key
      <4>1. OpKey(t) \in Key /\ wset[t] \subseteq Written(t) /\ Written(t) \in SUBSET Key
        BY <1>0, <2>1, OpType
      <4>2. expected[t] \in Tid /\ buf[t] \in Version
        BY DEF Types
      <4> QED
        BY <4>1, <4>2, ReadElementType
    <3>3. \/ pc'[t] = "exec" /\ pos'[t] \in DOMAIN pro'[t] /\ todo'[t] = {}
          \/ pc'[t] = "commit" /\ todo'[t] = wset'[t]
      BY <1>0, <2>1, <2>2, <3>1, <3>2, AdvanceType
    <3> HIDE DEF e
    <3>4. /\ ReadKeys(t)' = ReadKeys(t) \cup {e.key}
          /\ \A i \in DOMAIN rset'[t] :
                (i \in DOMAIN rset[t] /\ rset'[t][i] = rset[t][i]) \/ rset'[t][i] = e
      BY <3>1, <3>2, AppendedReads
    <3>5. \A i \in DOMAIN rset'[t] : ~rset'[t][i].failed
      BY <1>0, <2>1, <3>2, <3>4 DEF Placed
    <3>6. /\ \A x, f \in CLL'[t] : x.key = f.key => x = f
          /\ \A x \in CLL'[t] : x.key \in wset'[t] \cup ReadKeys(t)'
      BY <1>0, <2>1, <3>1, <3>2, <3>4 DEF Known
    <3> QED
      BY <1>0, <2>1, <3>3, <3>5, <3>6, DoneMatches DEF Placed
  <2>3. CASE ~locking[t] /\ Goto(t, "wait") /\ UNCHANGED << sets, pos, todo >>
    <3>1. pc'[t] = "wait" /\ UNCHANGED << rset[t], wset[t], pos[t], todo[t] >>
      BY <1>t, <2>3 DEF Goto
    <3>2. OpKey(t)' = OpKey(t) /\ ReadKeys(t)' = ReadKeys(t)
      BY <2>1, <3>1 DEF OpKey, ReadKeys
    <3>3. Placed(t)'
      BY <1>0, <2>1, <2>3, <3>1, <3>2 DEF Placed, Operating
    <3>4. Known(t)'
      BY <1>0, <2>1, <2>3, <3>1, <3>2 DEF Known, Copying
    <3>5. WriteLocks(t)'
      BY <2>1, <3>1 DEF WriteLocks, Past, Pending, Committing, Writing
    <3> QED
      BY <3>3, <3>4, <3>5 DEF Matches
  <2> QED
    BY <1>9, <2>2, <2>3 DEF readCheck
<1>10. CASE lockHeld(t)
  <2>1. /\ pc[t] = "lock" /\ Return(t) /\ Covered(t)
        /\ UNCHANGED << pro[t], rset[t], want[t], locking[t], CLL[t] >>
    BY <1>10 DEF lockHeld
  <2>2. \A e, f \in CLL[t] : e.key = f.key => e = f
    BY <1>0 DEF Known
  <2> QED
    BY <2>1, <2>2, ReturnMatches DEF Covered
<1>11. CASE lockRestore(t)
  <2>1. /\ pc[t] = "lock" /\ Violations(t) # {} /\ Violations(t) \subseteq CLL[t]
        /\ UNCHANGED << pc[t], rset[t], wset[t], todo[t], pro[t], pos[t], want[t], locking[t] >>
    BY <1>11 DEF lockRestore, Violations
  <2>2. PICK e \in CLL[t] : CLL' = [CLL EXCEPT ![t] = @ \ {e}] /\ e.key >= want[t].key
    <3>1. PICK x : /\ x = EntryOf(CLL[t], First(KeysOf(Violations(t))))
                   /\ CLL' = [CLL EXCEPT ![t] = @ \ {x}]
      BY <1>11 DEF lockRestore
    <3>2. x \in CLL[t] /\ x.key \in KeysOf(Violations(t))
      BY <2>1, <3>1, ReleasedEntry
    <3>3. x.key >= want[t].key
      BY <3>2 DEF KeysOf, Violations
    <3> QED
      BY <3>1, <3>2, <3>3
  <2>3. /\ OpKey(t)' = OpKey(t) /\ ReadKeys(t)' = ReadKeys(t)
        /\ CLL'[t] \subseteq CLL[t] /\ \A x \in CLL[t] : x = e \/ x \in CLL'[t]
    BY <1>t, <2>1, <2>2 DEF OpKey, ReadKeys
  <2>4. Placed(t)'
    BY <1>0, <2>1, <2>3 DEF Placed, Operating
  <2>5. Known(t)'
    BY <1>0, <2>1, <2>3 DEF Known, Copying
  <2>6. ASSUME NEW k \in Key, Past(t, k)'
        PROVE  Mine(t, k)' /\ \A j \in todo'[t] : k < j
    <3>1. Past(t, k) /\ todo[t] # {}
      BY <2>1, <2>6 DEF Past, Committing
    <3>2. Mine(t, k) /\ \A j \in todo[t] : k < j
      BY <1>0, <3>1 DEF WriteLocks
    <3>3. want[t].key = First(todo[t]) /\ First(todo[t]) \in todo[t] /\ First(todo[t]) \in Key
      <4>1. todo[t] \in SUBSET Key /\ want[t] = [key |-> First(todo[t]), mode |-> TRUE]
        BY <1>0, <1>t, <2>1, <3>1 DEF Placed
      <4> QED
        BY <3>1, <4>1, FirstIs
    <3>4. k < want[t].key /\ k \in Nat /\ want[t].key \in Nat
      BY <3>2, <3>3, MOCCAssumption
    <3>5. e # [key |-> k, mode |-> TRUE]
      BY <2>2, <3>4
    <3> QED
      BY <2>1, <2>3, <3>2, <3>5 DEF Mine
  <2>7. WriteLocks(t)'
    <3>1. \A k \in Key : ~Pending(t, k)'
      BY <2>1 DEF Pending, Writing
    <3> QED
      BY <2>6, <3>1 DEF WriteLocks
  <2> QED
    BY <2>4, <2>5, <2>7 DEF Matches
<1>12. CASE lockTake(t)
  <2>1. /\ pc[t] = "lock" /\ Return(t) /\ Violations(t) = {}
        /\ UNCHANGED << pro[t], rset[t], want[t], locking[t] >>
        /\ CLL' = [CLL EXCEPT ![t] = @ \cup {want[t]}]
    BY <1>12 DEF lockTake
  <2>2. CLL'[t] = CLL[t] \cup {want[t]} /\ want[t] \in Entry
    BY <1>t, <2>1
  <2>3. \A e \in CLL[t] : e.key # want[t].key
    <3>1. \A e \in Entry : e.key \in Nat
      BY MOCCAssumption DEF Entry
    <3>2. CLL[t] \subseteq Entry /\ want[t] \in Entry
      BY <1>t
    <3> QED
      BY <2>1, <3>1, <3>2 DEF Violations
  <2>4. \A e, f \in CLL'[t] : e.key = f.key => e = f
    BY <1>0, <2>2, <2>3 DEF Known
  <2>5. /\ \A e \in CLL'[t] : e \in CLL[t] \/ e = want[t]
        /\ \A e \in CLL[t] : e \in CLL'[t]
        /\ \E e \in CLL'[t] : e.key = want[t].key /\ (want[t].mode => e.mode)
    BY <2>2
  <2> QED
    BY <2>1, <2>4, <2>5, ReturnMatches
<1>13. CASE commitLock(t)
  <2>1. /\ pc[t] = "commit" /\ pc'[t] = "lock" /\ todo[t] # {}
        /\ want'[t] = [key |-> First(todo[t]), mode |-> TRUE]
        /\ UNCHANGED << rset[t], wset[t], CLL[t], todo[t], pro[t], pos[t], locking[t] >>
    BY <1>13, <1>t DEF commitLock, Goto
  <2>2. ReadKeys(t)' = ReadKeys(t)
    BY <2>1 DEF ReadKeys
  <2>3. Placed(t)'
    BY <1>0, <2>1, <2>2 DEF Placed, Operating
  <2>4. Known(t)'
    BY <1>0, <2>1, <2>2 DEF Known, Copying
  <2>5. WriteLocks(t)'
    <3>1. \A k \in Key : Past(t, k)' => Past(t, k) /\ todo'[t] = todo[t]
      BY <2>1, <2>2 DEF Past, Committing
    <3>2. \A k \in Key : Pending(t, k)' => Past(t, k) \/ Pending(t, k)
      BY <2>1, <2>2 DEF Past, Pending, Writing, Committing
    <3> QED
      BY <1>0, <2>1, <2>2, <3>1, <3>2, WriteLocksKept
  <2> QED
    BY <2>3, <2>4, <2>5 DEF Matches
<1>14. CASE loadEpoch(t)
  <2>1. /\ pc[t] = "commit" /\ pc'[t] = "epoch"
        /\ UNCHANGED << rset[t], wset[t], CLL[t], todo[t], pro[t], pos[t], want[t], locking[t] >>
    BY <1>14, <1>t DEF loadEpoch, Goto
  <2>2. ReadKeys(t)' = ReadKeys(t) /\ todo[t] = {}
    BY <1>0, <1>14, <2>1 DEF ReadKeys, loadEpoch, Placed
  <2>3. Placed(t)'
    BY <1>0, <2>1, <2>2 DEF Placed, Operating
  <2>4. Known(t)'
    BY <1>0, <2>1, <2>2 DEF Known, Copying
  <2>5. WriteLocks(t)'
    <3>1. \A k \in Key : Past(t, k)' => Past(t, k) /\ todo'[t] = todo[t]
      BY <2>1, <2>2 DEF Past, Committing
    <3>2. \A k \in Key : Pending(t, k)' => Past(t, k) \/ Pending(t, k)
      BY <2>1, <2>2 DEF Past, Pending, Writing, Committing
    <3> QED
      BY <1>0, <2>1, <2>2, <3>1, <3>2, WriteLocksKept
  <2> QED
    BY <2>3, <2>4, <2>5 DEF Matches
<1>15. CASE storeEpoch(t)
  <2>1. /\ pc[t] = "epoch" /\ pc'[t] = "validate"
        /\ UNCHANGED << rset[t], wset[t], CLL[t], todo[t], pro[t], pos[t], want[t], locking[t] >>
    BY <1>15, <1>t DEF storeEpoch, Goto
  <2>2. ReadKeys(t)' = ReadKeys(t) /\ todo[t] = {}
    BY <1>0, <1>15, <2>1 DEF ReadKeys, storeEpoch, Placed
  <2>3. Placed(t)'
    BY <1>0, <2>1, <2>2 DEF Placed, Operating
  <2>4. Known(t)'
    BY <1>0, <2>1, <2>2 DEF Known, Copying
  <2>5. WriteLocks(t)'
    <3>1. \A k \in Key : Past(t, k)' => Past(t, k) /\ todo'[t] = todo[t]
      BY <2>1, <2>2 DEF Past, Committing
    <3>2. \A k \in Key : Pending(t, k)' => Past(t, k) \/ Pending(t, k)
      BY <2>1, <2>2 DEF Past, Pending, Writing, Committing
    <3> QED
      BY <1>0, <2>1, <2>2, <3>1, <3>2, WriteLocksKept
  <2> QED
    BY <2>3, <2>4, <2>5 DEF Matches
<1>16. CASE validateTid(t)
  <2>1. /\ pc[t] = "validate" /\ pos[t] \in DOMAIN rset[t] /\ todo[t] = {}
        /\ UNCHANGED << wset[t], CLL[t], todo[t], pro[t], pos[t], want[t], locking[t] >>
    BY <1>0, <1>16 DEF validateTid, Placed
  <2>3. CASE Fail(t) /\ UNCHANGED << pos, maxset >>
    <3>1. /\ pc'[t] = "abort" /\ ReadKeys(t)' = ReadKeys(t)
          /\ \E i \in DOMAIN rset'[t] : rset'[t][i].failed
      BY <2>1, <2>3, FailedReads
    <3>2. Placed(t)'
      BY <1>0, <2>1, <3>1 DEF Placed, Operating
    <3>3. Known(t)'
      BY <1>0, <2>1, <3>1 DEF Known, Copying
    <3>4. WriteLocks(t)'
      BY <2>1, <3>1 DEF WriteLocks, Past, Pending, Committing, Writing
    <3> QED
      BY <3>2, <3>3, <3>4 DEF Matches
  <2>4. CASE Goto(t, "owner") /\ UNCHANGED rset
    <3>1. pc'[t] = "owner" /\ rset'[t] = rset[t] /\ ReadKeys(t)' = ReadKeys(t)
      BY <1>t, <2>4 DEF Goto, ReadKeys
    <3>2. Placed(t)'
      BY <1>0, <2>1, <3>1 DEF Placed, Operating
    <3>3. Known(t)'
      BY <1>0, <2>1, <3>1 DEF Known, Copying
    <3>4. WriteLocks(t)'
      <4>1. \A k \in Key : Past(t, k)' => Past(t, k) /\ todo'[t] = todo[t]
        BY <2>1, <3>1 DEF Past, Committing
      <4>2. \A k \in Key : Pending(t, k)' => Past(t, k) \/ Pending(t, k)
        BY <2>1, <3>1 DEF Past, Pending, Writing, Committing
      <4> QED
        BY <1>0, <2>1, <3>1, <4>1, <4>2, WriteLocksKept
    <3> QED
      BY <3>2, <3>3, <3>4 DEF Matches
  <2> QED
    BY <1>16, <2>3, <2>4 DEF validateTid
<1>17. CASE validateOwner(t)
  <2>1. /\ pc[t] = "owner" /\ pos[t] \in DOMAIN rset[t] /\ todo[t] = {}
        /\ UNCHANGED << wset[t], CLL[t], todo[t], pro[t], want[t], locking[t] >>
    BY <1>0, <1>17 DEF validateOwner, Placed
  <2>3. CASE Fail(t) /\ UNCHANGED << pos, maxset >>
    <3>1. /\ pc'[t] = "abort" /\ ReadKeys(t)' = ReadKeys(t)
          /\ \E i \in DOMAIN rset'[t] : rset'[t][i].failed
      BY <2>1, <2>3, FailedReads
    <3>2. Placed(t)'
      BY <1>0, <2>1, <3>1 DEF Placed, Operating
    <3>3. Known(t)'
      BY <1>0, <2>1, <3>1 DEF Known, Copying
    <3>4. WriteLocks(t)'
      BY <2>1, <3>1 DEF WriteLocks, Past, Pending, Committing, Writing
    <3> QED
      BY <3>2, <3>3, <3>4 DEF Matches
  <2>4. CASE Goto(t, "validate") /\ UNCHANGED rset
    <3>1. pc'[t] = "validate" /\ rset'[t] = rset[t] /\ ReadKeys(t)' = ReadKeys(t)
      BY <1>t, <2>4 DEF Goto, ReadKeys
    <3>2. Placed(t)'
      BY <1>0, <2>1, <3>1 DEF Placed, Operating
    <3>3. Known(t)'
      BY <1>0, <2>1, <3>1 DEF Known, Copying
    <3>4. WriteLocks(t)'
      <4>1. \A k \in Key : Past(t, k)' => Past(t, k) /\ todo'[t] = todo[t]
        BY <2>1, <3>1 DEF Past, Committing
      <4>2. \A k \in Key : Pending(t, k)' => Past(t, k) \/ Pending(t, k)
        BY <2>1, <3>1 DEF Past, Pending, Writing, Committing
      <4> QED
        BY <1>0, <2>1, <3>1, <4>1, <4>2, WriteLocksKept
    <3> QED
      BY <3>2, <3>3, <3>4 DEF Matches
  <2> QED
    BY <1>17, <2>3, <2>4 DEF validateOwner
<1>18. CASE chooseTid(t)
  <2>1. /\ pc[t] = "validate" /\ pc'[t] = "write" /\ todo'[t] = wset[t]
        /\ UNCHANGED << rset[t], wset[t], CLL[t], pro[t], pos[t], want[t], locking[t] >>
    BY <1>18, <1>t DEF chooseTid, Goto
  <2>2. ReadKeys(t)' = ReadKeys(t) /\ todo[t] = {}
    BY <1>0, <2>1 DEF ReadKeys, Placed
  <2>3. Placed(t)'
    BY <1>0, <2>1, <2>2 DEF Placed, Operating
  <2>4. Known(t)'
    BY <1>0, <2>1, <2>2 DEF Known, Copying
  <2>5. WriteLocks(t)'
    <3>1. \A k \in Key : Past(t, k)' => Past(t, k) /\ todo'[t] = todo[t]
      BY <2>1, <2>2 DEF Past, Committing
    <3>2. \A k \in Key : Pending(t, k)' => Past(t, k) \/ Pending(t, k)
      BY <2>1, <2>2 DEF Past, Pending, Writing, Committing
    <3> QED
      BY <1>0, <2>1, <2>2, <3>1, <3>2, WriteLocksKept
  <2> QED
    BY <2>3, <2>4, <2>5 DEF Matches
<1>19. CASE storeValue(t)
  <2>1. /\ pc[t] = "write" /\ pc'[t] = "publish" /\ todo[t] # {}
        /\ UNCHANGED << rset[t], wset[t], CLL[t], todo[t], pro[t], pos[t], want[t], locking[t] >>
    BY <1>19, <1>t DEF storeValue, Goto
  <2>2. ReadKeys(t)' = ReadKeys(t)
    BY <2>1 DEF ReadKeys
  <2>3. Placed(t)'
    BY <1>0, <2>1, <2>2 DEF Placed, Operating
  <2>4. Known(t)'
    BY <1>0, <2>1, <2>2 DEF Known, Copying
  <2>5. WriteLocks(t)'
    <3>1. \A k \in Key : Past(t, k)' => Past(t, k) /\ todo'[t] = todo[t]
      BY <2>1, <2>2 DEF Past, Committing
    <3>2. \A k \in Key : Pending(t, k)' => Past(t, k) \/ Pending(t, k)
      BY <2>1, <2>2 DEF Past, Pending, Writing, Committing
    <3> QED
      BY <1>0, <2>1, <2>2, <3>1, <3>2, WriteLocksKept
  <2> QED
    BY <2>3, <2>4, <2>5 DEF Matches
<1>20. CASE storeTid(t)
  <2>1. /\ pc[t] = "publish" /\ pc'[t] = "write" /\ todo'[t] \subseteq todo[t]
        /\ UNCHANGED << rset[t], wset[t], CLL[t], pro[t], pos[t], want[t], locking[t] >>
    BY <1>20, <1>t DEF storeTid, Goto
  <2>2. ReadKeys(t)' = ReadKeys(t)
    BY <2>1 DEF ReadKeys
  <2>3. Placed(t)'
    BY <1>0, <2>1, <2>2 DEF Placed, Operating
  <2>4. Known(t)'
    BY <1>0, <2>1, <2>2 DEF Known, Copying
  <2>5. WriteLocks(t)'
    <3>1. \A k \in Key : Past(t, k)' => Past(t, k) /\ todo'[t] = todo[t]
      BY <2>1, <2>2 DEF Past, Committing
    <3>2. \A k \in Key : Pending(t, k)' => Past(t, k) \/ Pending(t, k)
      BY <2>1, <2>2 DEF Past, Pending, Writing, Committing
    <3> QED
      BY <1>0, <2>1, <2>2, <3>1, <3>2, WriteLocksKept
  <2> QED
    BY <2>3, <2>4, <2>5 DEF Matches
<1>21. CASE unlockCLL(t)
  <2>1. /\ pc[t] \in {"write", "abort"} /\ todo[t] = {}
        /\ UNCHANGED << pc[t], rset[t], wset[t], todo[t], pro[t], pos[t], want[t], locking[t] >>
    BY <1>0, <1>21 DEF unlockCLL, Placed
  <2>2. CLL'[t] \subseteq CLL[t] /\ ReadKeys(t)' = ReadKeys(t)
    BY <1>21, <1>t, <2>1 DEF unlockCLL, ReadKeys
  <2>3. Placed(t)'
    BY <1>0, <2>1, <2>2 DEF Placed, Operating
  <2>4. Known(t)'
    BY <1>0, <2>1, <2>2 DEF Known, Copying
  <2>5. WriteLocks(t)'
    <3>1. \A k \in Key : ~Past(t, k)' /\ ~Pending(t, k)'
      BY <2>1 DEF Past, Pending, Committing
    <3> QED
      BY <3>1 DEF WriteLocks
  <2> QED
    BY <2>3, <2>4, <2>5 DEF Matches
<1>22. CASE committedTxn(t)
  <2>1. /\ pc[t] = "write" /\ pc'[t] = "idle" /\ todo[t] = {} /\ CLL[t] = {}
        /\ rset'[t] = << >> /\ wset'[t] = {}
        /\ UNCHANGED << CLL[t], todo[t], pro[t], pos[t], want[t], locking[t] >>
    BY <1>22, <1>t DEF committedTxn, Goto
  <2>2. Len(pro[t]) \in Nat
    BY <1>t
  <2>3. Placed(t)'
    BY <1>0, <2>1, <2>2 DEF Placed, Operating
  <2>4. Known(t)'
    BY <1>0, <2>1, <2>2 DEF Known, Copying
  <2>5. WriteLocks(t)'
    <3>1. \A k \in Key : Past(t, k)' => Past(t, k) /\ todo'[t] = todo[t]
      BY <2>1, <2>2 DEF Past, Committing
    <3>2. \A k \in Key : Pending(t, k)' => Past(t, k) \/ Pending(t, k)
      BY <2>1, <2>2 DEF Past, Pending, Writing, Committing
    <3> QED
      BY <1>0, <2>1, <2>2, <3>1, <3>2, WriteLocksKept
  <2> QED
    BY <2>3, <2>4, <2>5 DEF Matches
<1>23. CASE abort(t)
  <2>1. /\ pc[t] = "abort" /\ pc'[t] = "retry" /\ CLL[t] = {} /\ todo'[t] = {}
        /\ rset'[t] = << >> /\ wset'[t] = {}
        /\ UNCHANGED << CLL[t], pro[t], pos[t], want[t], locking[t] >>
    BY <1>23, <1>t DEF abort, Goto
  <2>2. Len(pro[t]) \in Nat
    BY <1>t
  <2>3. Placed(t)'
    BY <1>0, <2>1, <2>2 DEF Placed, Operating
  <2>4. Known(t)'
    BY <1>0, <2>1, <2>2 DEF Known, Copying
  <2>5. WriteLocks(t)'
    <3>1. \A k \in Key : Past(t, k)' => Past(t, k) /\ todo'[t] = todo[t]
      BY <2>1, <2>2 DEF Past, Committing
    <3>2. \A k \in Key : Pending(t, k)' => Past(t, k) \/ Pending(t, k)
      BY <2>1, <2>2 DEF Past, Pending, Writing, Committing
    <3> QED
      BY <1>0, <2>1, <2>2, <3>1, <3>2, WriteLocksKept
  <2> QED
    BY <2>3, <2>4, <2>5 DEF Matches
<1> QED
  BY <1>1, <1>2, <1>3, <1>4, <1>5, <1>6, <1>7, <1>8, <1>9, <1>10, <1>11, <1>12, <1>13,
     <1>14, <1>15, <1>16, <1>17, <1>18, <1>19, <1>20, <1>21, <1>22, <1>23 DEF worker

-----------------------------------------------------------------------------
(* The counters of the locks *)

LEMMA HeldTypes ==
    ASSUME Types
    PROVE  LockTypes(Thread, Key, rwlock, Held(FALSE), Held(TRUE))
BY MOCCAssumption DEF Types, LockTypes, Held

LEMMA TakeAgrees ==
    ASSUME Types, Counted, NEW t \in Thread, NEW e \in Entry,
           \A x \in CLL[t] : x.key # e.key,
           CanLock(e.mode, rwlock[e.key]),
           rwlock' = [rwlock EXCEPT ![e.key] = Lock(e.mode, @)],
           CLL' = [CLL EXCEPT ![t] = @ \cup {e}]
    PROVE  Counted'
<1> DEFINE k == e.key
<1>1. k \in Key /\ e.mode \in BOOLEAN /\ e = [key |-> k, mode |-> e.mode]
  BY DEF Entry
<1>2. \A m \in BOOLEAN : [key |-> k, mode |-> m] \notin CLL[t]
  <2>1. \A m : [key |-> k, mode |-> m].key = k
    OBVIOUS
  <2> QED
    BY <2>1
<1>3. LockTypes(Thread, Key, rwlock, Held(FALSE), Held(TRUE))
  BY HeldTypes
<1>4. CLL \in [Thread -> SUBSET Entry]
  BY DEF Types
<1>5. \A j \in Key, m \in BOOLEAN, u \in Thread :
          [key |-> j, mode |-> m] \in CLL'[u] <=>
              [key |-> j, mode |-> m] \in CLL[u] \/ (u = t /\ j = k /\ m = e.mode)
  <2>1. \A j \in Key, m \in BOOLEAN : [key |-> j, mode |-> m] = e <=> j = k /\ m = e.mode
    BY <1>1
  <2> QED
    BY <1>4, <2>1
<1>6. CASE e.mode = FALSE
  <2>1. Held(FALSE)' = [Held(FALSE) EXCEPT ![t] = @ \cup {k}]
    BY <1>1, <1>5, <1>6 DEF Held
  <2>2. Held(TRUE)' = Held(TRUE)
    BY <1>1, <1>5, <1>6 DEF Held
  <2>3. k \notin Held(FALSE)[t] /\ CanReadLock(rwlock[k])
        /\ rwlock' = [rwlock EXCEPT ![k] = ReadLock(@)]
    BY <1>2, <1>6 DEF Held, CanLock, Lock
  <2>4. LocksAgree(Thread, Key, rwlock, Held(FALSE), Held(TRUE))
    BY DEF Counted
  <2>5. LocksAgree(Thread, Key, [rwlock EXCEPT ![k] = ReadLock(@)],
                   [Held(FALSE) EXCEPT ![t] = @ \cup {k}], Held(TRUE))
    <3> HIDE DEF k
    <3> QED
      BY <1>1, <1>3, <2>3, <2>4, ReadLockAgrees
  <2> QED
    BY <2>1, <2>2, <2>3, <2>5 DEF Counted
<1>7. CASE e.mode = TRUE
  <2>1. Held(TRUE)' = [Held(TRUE) EXCEPT ![t] = @ \cup {k}]
    BY <1>1, <1>5, <1>7 DEF Held
  <2>2. Held(FALSE)' = Held(FALSE)
    BY <1>1, <1>5, <1>7 DEF Held
  <2>3. /\ CanWriteLock(rwlock[k])
        /\ rwlock' = [rwlock EXCEPT ![k] = WriteLock(@)]
    BY <1>7 DEF CanLock, Lock
  <2>4. LocksAgree(Thread, Key, rwlock, Held(FALSE), Held(TRUE))
    BY DEF Counted
  <2>5. LocksAgree(Thread, Key, [rwlock EXCEPT ![k] = WriteLock(@)],
                   Held(FALSE), [Held(TRUE) EXCEPT ![t] = @ \cup {k}])
    <3> HIDE DEF k
    <3> QED
      BY <1>1, <1>3, <2>3, <2>4, WriteLockAgrees
  <2> QED
    BY <2>1, <2>2, <2>3, <2>5 DEF Counted
<1> QED
  BY <1>1, <1>6, <1>7

LEMMA ReleaseAgrees ==
    ASSUME Types, Counted, NEW t \in Thread, NEW e \in CLL[t],
           rwlock' = [rwlock EXCEPT ![e.key] = Unlock(e.mode, @)],
           CLL' = [CLL EXCEPT ![t] = @ \ {e}]
    PROVE  Counted'
<1> DEFINE k == e.key
<1>0. CLL \in [Thread -> SUBSET Entry] /\ e \in Entry
  BY DEF Types
<1>1. k \in Key /\ e.mode \in BOOLEAN /\ e = [key |-> k, mode |-> e.mode]
  BY <1>0 DEF Entry
<1>3. LockTypes(Thread, Key, rwlock, Held(FALSE), Held(TRUE))
  BY HeldTypes
<1>5. \A j \in Key, m \in BOOLEAN, u \in Thread :
          [key |-> j, mode |-> m] \in CLL'[u] <=>
              [key |-> j, mode |-> m] \in CLL[u] /\ ~(u = t /\ j = k /\ m = e.mode)
  <2>1. \A j \in Key, m \in BOOLEAN : [key |-> j, mode |-> m] = e <=> j = k /\ m = e.mode
    BY <1>1
  <2> QED
    BY <1>0, <2>1
<1>6. CASE e.mode = FALSE
  <2>1. Held(FALSE)' = [Held(FALSE) EXCEPT ![t] = @ \ {k}]
    BY <1>1, <1>5, <1>6 DEF Held
  <2>2. Held(TRUE)' = Held(TRUE)
    BY <1>1, <1>5, <1>6 DEF Held
  <2>3. k \in Held(FALSE)[t] /\ rwlock' = [rwlock EXCEPT ![k] = ReadUnlock(@)]
    BY <1>1, <1>6 DEF Held, Unlock
  <2>4. LocksAgree(Thread, Key, rwlock, Held(FALSE), Held(TRUE))
    BY DEF Counted
  <2>5. LocksAgree(Thread, Key, [rwlock EXCEPT ![k] = ReadUnlock(@)],
                   [Held(FALSE) EXCEPT ![t] = @ \ {k}], Held(TRUE))
    <3> HIDE DEF k
    <3> QED
      BY <1>1, <1>3, <2>3, <2>4, ReadUnlockAgrees
  <2> QED
    BY <2>1, <2>2, <2>3, <2>5 DEF Counted
<1>7. CASE e.mode = TRUE
  <2>1. Held(TRUE)' = [Held(TRUE) EXCEPT ![t] = @ \ {k}]
    BY <1>1, <1>5, <1>7 DEF Held
  <2>2. Held(FALSE)' = Held(FALSE)
    BY <1>1, <1>5, <1>7 DEF Held
  <2>3. k \in Held(TRUE)[t] /\ rwlock' = [rwlock EXCEPT ![k] = WriteUnlock(@)]
    BY <1>1, <1>7 DEF Held, Unlock
  <2>4. LocksAgree(Thread, Key, rwlock, Held(FALSE), Held(TRUE))
    BY DEF Counted
  <2>5. LocksAgree(Thread, Key, [rwlock EXCEPT ![k] = WriteUnlock(@)],
                   Held(FALSE), [Held(TRUE) EXCEPT ![t] = @ \ {k}])
    <3> HIDE DEF k
    <3> QED
      BY <1>1, <1>3, <2>3, <2>4, WriteUnlockAgrees
  <2> QED
    BY <2>1, <2>2, <2>3, <2>5 DEF Counted
<1> QED
  BY <1>1, <1>6, <1>7

\* The lock list of a worker, and the counters, change in one of three ways.
LEMMA LocksChange ==
    ASSUME Types, NEW t \in Thread, worker(t)
    PROVE  \/ UNCHANGED << rwlock, CLL >>
           \/ /\ pc[t] = "lock" /\ ~Covered(t) /\ Violations(t) = {}
              /\ CanLock(want[t].mode, rwlock[want[t].key])
              /\ rwlock' = [rwlock EXCEPT ![want[t].key] = Lock(want[t].mode, @)]
              /\ CLL' = [CLL EXCEPT ![t] = @ \cup {want[t]}]
           \/ /\ pc[t] = "lock" \/ (pc[t] \in {"write", "abort"} /\ (pc[t] = "write" => todo[t] = {}))
              /\ pc' = pc
              /\ \E e \in CLL[t] :
                    /\ rwlock' = [rwlock EXCEPT ![e.key] = Unlock(e.mode, @)]
                    /\ CLL' = [CLL EXCEPT ![t] = @ \ {e}]
<1> USE DEF records, lists
<1>1. CASE lockTake(t)
  BY <1>1 DEF lockTake
<1>2. CASE lockRestore(t)
  <2>1. Violations(t) \subseteq CLL[t] /\ Violations(t) # {}
    BY <1>2 DEF lockRestore, Violations
  <2>2. EntryOf(CLL[t], First(KeysOf(Violations(t)))) \in CLL[t]
        /\ EntryOf(CLL[t], First(KeysOf(Violations(t)))).key = First(KeysOf(Violations(t)))
    BY <2>1, ReleasedEntry
  <2> QED
    BY <1>2, <2>2 DEF lockRestore
<1>3. CASE unlockCLL(t)
  <2>1. CLL[t] \subseteq CLL[t] /\ CLL[t] # {}
    BY <1>3 DEF unlockCLL
  <2>2. EntryOf(CLL[t], First(KeysOf(CLL[t]))) \in CLL[t]
    BY <2>1, ReleasedEntry
  <2> QED
    BY <1>3, <2>2 DEF unlockCLL
<1>4. CASE ~lockTake(t) /\ ~lockRestore(t) /\ ~unlockCLL(t)
  BY <1>4 DEF worker, NextProcedure, begin, operateLocally, operateLocking,
     operateOptimistically, readTid, readWait, readCopy, readCheck, lockHeld, commitLock,
     loadEpoch, storeEpoch, validateTid, validateOwner, chooseTid, storeValue, storeTid,
     committedTxn, abort
<1> QED
  BY <1>1, <1>2, <1>3, <1>4

LEMMA CountedStep ==
    ASSUME Types, Counted, [Next]_vars
    PROVE  Counted'
<1>1. CASE UNCHANGED << rwlock, CLL >>
  <2>1. Held(FALSE)' = Held(FALSE) /\ Held(TRUE)' = Held(TRUE)
    BY <1>1 DEF Held
  <2> QED
    BY <1>1, <2>1 DEF Counted
<1>2. ASSUME NEW t \in Thread, worker(t)
      PROVE  Counted'
  <2>1. want[t] \in Entry /\ CLL[t] \subseteq Entry
    BY DEF Types
  <2>2. Violations(t) = {} => \A x \in CLL[t] : x.key # want[t].key
    <3>1. \A x \in Entry : x.key \in Nat
      BY MOCCAssumption DEF Entry
    <3> QED
      BY <2>1, <3>1 DEF Violations
  <2> QED
    BY <1>1, <1>2, <2>1, <2>2, LocksChange, TakeAgrees, ReleaseAgrees
<1>3. CASE Quit \/ leaderWork \/ Joined \/ UNCHANGED vars
  BY <1>1, <1>3, NoWorker DEF records
<1> QED
  BY <1>2, <1>3 DEF Next

\* What the agreement says of the entries: a writer is alone.
LEMMA WriterExcludes ==
    ASSUME Types, Counted, NEW t \in Thread, NEW k \in Key, Mine(t, k), NEW u \in Thread, u # t
    PROVE  k \notin KeysOf(CLL[u])
<1>1. k \in Held(TRUE)[t]
  BY DEF Held, Mine
<1>2. k \notin Held(FALSE)[u] /\ k \notin Held(TRUE)[u]
  <2>1. LockTypes(Thread, Key, rwlock, Held(FALSE), Held(TRUE))
    BY HeldTypes
  <2>2. LocksAgree(Thread, Key, rwlock, Held(FALSE), Held(TRUE))
    BY DEF Counted
  <2>3. ASSUME NEW rl, NEW wl, LockTypes(Thread, Key, rwlock, rl, wl),
               LocksAgree(Thread, Key, rwlock, rl, wl), k \in wl[t]
        PROVE  k \notin rl[u] /\ k \notin wl[u]
    BY <2>3, WriterAlone
  <2> QED
    BY <1>1, <2>1, <2>2, <2>3
<1>3. [key |-> k, mode |-> TRUE] \notin CLL[u] /\ [key |-> k, mode |-> FALSE] \notin CLL[u]
  BY <1>2 DEF Held
<1>4. \A e \in Entry : e.key = k => e = [key |-> k, mode |-> TRUE] \/ e = [key |-> k, mode |-> FALSE]
  BY DEF Entry
<1>5. CLL[u] \subseteq Entry
  BY DEF Types
<1> QED
  BY <1>3, <1>4, <1>5 DEF KeysOf

-----------------------------------------------------------------------------
(* The base of the induction *)

LEMMA BaseInit == Init => Base
<1> SUFFICES ASSUME Init PROVE Base
  OBVIOUS
<1>1. Types
  BY TypesInit
<1>2. WorkersMatch
  <2> SUFFICES ASSUME NEW t \in Thread PROVE Matches(t)
    BY DEF WorkersMatch
  <2>1. /\ pc[t] = "idle" /\ rset[t] = << >> /\ wset[t] = {} /\ CLL[t] = {} /\ todo[t] = {}
    BY DEF Init
  <2>2. Placed(t)
    BY <2>1 DEF Placed, Operating
  <2>3. Known(t)
    BY <2>1 DEF Known, Copying
  <2>4. WriteLocks(t)
    BY <2>1 DEF WriteLocks, Past, Pending, Committing, Writing
  <2> QED
    BY <2>2, <2>3, <2>4 DEF Matches
<1>3. Counted
  <2>1. \A k \in Key : rwlock[k] = Free
    BY DEF Init
  <2>2. \A t \in Thread : Held(FALSE)[t] = {} /\ Held(TRUE)[t] = {}
    BY DEF Init, Held
  <2> QED
    BY <2>1, <2>2, FreeAgrees DEF Counted
<1> QED
  BY <1>1, <1>2, <1>3 DEF Base

LEMMA BaseStep ==
    ASSUME Base, [Next]_vars
    PROVE  Base'
<1>1. Types /\ Counted /\ \A t \in Thread : Matches(t) /\ Placed(t)
  BY DEF Base, WorkersMatch, Matches
<1>2. Types'
  BY <1>1, TypesStep
<1>3. Counted'
  BY <1>1, CountedStep
<1>4. ASSUME NEW u \in Thread
      PROVE  Matches(u)'
  <2>1. ASSUME NEW t \in Thread, worker(t)
        PROVE  Matches(u)'
    <3>1. CASE u = t
      BY <1>1, <1>2, <2>1, <3>1, OwnMatches
    <3>2. CASE u # t
      BY <1>1, <2>1, <3>2, OthersUnchanged, OtherMatches
    <3> QED
      BY <3>1, <3>2
  <2>2. CASE Quit \/ leaderWork \/ Joined \/ UNCHANGED vars
    <3>1. UNCHANGED Private(u)
      BY <2>2, NoWorker DEF Private, reading, tids
    <3> QED
      BY <1>1, <3>1, OtherMatches
  <2> QED
    BY <2>1, <2>2 DEF Next
<1> QED
  BY <1>2, <1>3, <1>4 DEF Base, WorkersMatch

LEMMA BaseInvariant == Spec => []Base
BY BaseInit, BaseStep, PTL DEF Spec

\* Type correctness: the values each variable takes.
THEOREM TypeCorrect == Spec => []Types
<1>1. Base => Types
  BY DEF Base
<1> QED
  BY <1>1, BaseInvariant, PTL

\* Mutual exclusion: the counter of a record's lock says what the lists of locks
\* of the workers say, whatever they take, drop and take again: one writer, or
\* as many readers as are counted.
THEOREM LocksAreCounted == Spec => []Counted
<1>1. Base => Counted
  BY DEF Base
<1> QED
  BY <1>1, BaseInvariant, PTL

-----------------------------------------------------------------------------
(* Waiting *)

\* The record at whose lock a worker waits, or may.
Wanted(t) == IF pc[t] = "lock" THEN want[t].key ELSE OpKey(t)

LEMMA WantedIsKey ==
    ASSUME Types, NEW t \in Thread, Placed(t), pc[t] \in {"lock", "wait"}
    PROVE  Wanted(t) \in Key
<1>1. CASE pc[t] = "lock"
  BY <1>1 DEF Wanted, Types, Entry
<1>2. CASE pc[t] = "wait"
  BY <1>2, OpType DEF Wanted, Operating
<1> QED
  BY <1>1, <1>2

\* Who waits holds locks on earlier records only.
LEMMA WaitsAbove ==
    ASSUME Types, NEW t \in Thread, Matches(t), NEW u, WaitsFor(t, u), NEW e \in CLL[t]
    PROVE  e.key < Wanted(t)
<1>0. Placed(t) /\ Known(t) /\ CLL[t] \subseteq Entry
  BY DEF Matches, Types
<1>1. e.key \in Nat
  BY <1>0, MOCCAssumption DEF Entry
<1>2. CASE pc[t] = "lock" /\ Violations(t) = {}
  <2>1. ~(e.key >= want[t].key) /\ Wanted(t) = want[t].key
    BY <1>2 DEF Violations, Wanted
  <2>2. want[t].key \in Nat
    BY <1>0, <1>2, WantedIsKey, MOCCAssumption DEF Wanted
  <2> QED
    BY <1>1, <2>1, <2>2
<1>3. CASE pc[t] = "wait" /\ BehindOf(t, OpKey(t)) = {FALSE}
  <2>1. Wanted(t) = OpKey(t) /\ OpKey(t) \in Nat
    BY <1>0, <1>3, WantedIsKey, MOCCAssumption DEF Wanted
  <2>2. ~(OpKey(t) < e.key)
    <3>1. BehindOf(t, OpKey(t)) = {\E f \in CLL[t] : OpKey(t) < f.key}
      BY DEF BehindOf
    <3> QED
      BY <1>3, <3>1
  <2>3. e.key # OpKey(t)
    <3>1. ~locking[t]
      BY <1>0, <1>3 DEF Placed
    <3> QED
      BY <1>0, <1>3, <3>1 DEF Known, Copying
  <2> QED
    BY <1>1, <2>1, <2>2, <2>3
<1> QED
  BY <1>2, <1>3 DEF WaitsFor

\* Along a chain of workers the records they wait for rise.
LEMMA WaitingRises ==
    ASSUME Types, WorkersMatch, NEW t \in Thread, NEW u \in Thread, NEW v,
           WaitsFor(t, u), WaitsFor(u, v)
    PROVE  Wanted(t) < Wanted(u)
<1>1. PICK e \in CLL[u] : e.key = Wanted(t)
  <2>1. CASE pc[t] = "lock"
    BY <2>1 DEF WaitsFor, Wanted
  <2>2. CASE pc[t] = "wait"
    <3>1. [key |-> OpKey(t), mode |-> TRUE] \in CLL[u] /\ Wanted(t) = OpKey(t)
      BY <2>2 DEF WaitsFor, Wanted
    <3> QED
      BY <3>1
  <2> QED
    BY <2>1, <2>2 DEF WaitsFor
<1>2. e.key < Wanted(u)
  BY WaitsAbove DEF WorkersMatch
<1> QED
  BY <1>1, <1>2

\* Freedom from deadlock: in any set of workers one waits for none of them.  A
\* worker releases what it holds of this record and later ones before it waits
\* in lock(), and gives up instead of waiting for an earlier record in read(),
\* so who waits for the latest record of all waits for no one who waits.
THEOREM NoWorkersWaitInCircles == Spec => []NoWaitingInCircles
<1>1. ASSUME Base
      PROVE  NoWaitingInCircles
  <2> SUFFICES ASSUME NEW S \in SUBSET Thread, S # {},
                      \A t \in S : \E u \in S : WaitsFor(t, u)
               PROVE  FALSE
    BY DEF NoWaitingInCircles
  <2>1. Types /\ WorkersMatch /\ \A t \in Thread : Placed(t)
    BY <1>1 DEF Base, WorkersMatch, Matches
  <2> DEFINE f == [t \in S |-> Wanted(t)]
  <2>2. f \in [S -> Nat]
    <3>1. \A t \in S : pc[t] \in {"lock", "wait"}
      BY DEF WaitsFor
    <3> QED
      BY <2>1, <3>1, WantedIsKey, MOCCAssumption
  <2>3. IsFiniteSet(S)
    BY MOCCAssumption, FS_Subset
  <2>4. PICK t \in S : \A u \in S : f[u] <= f[t]
    <3> HIDE DEF f
    <3> QED
      BY <2>2, <2>3, HasHeaviest
  <2>5. PICK u \in S : WaitsFor(t, u)
    OBVIOUS
  <2>6. PICK v \in S : WaitsFor(u, v)
    OBVIOUS
  <2>7. Wanted(t) < Wanted(u)
    BY <2>1, <2>5, <2>6, WaitingRises
  <2>8. Wanted(u) <= Wanted(t) /\ Wanted(u) \in Nat /\ Wanted(t) \in Nat
    BY <2>2, <2>4
  <2> QED
    BY <2>7, <2>8
<1> QED
  BY <1>1, BaseInvariant, PTL

-----------------------------------------------------------------------------
(* TIDs *)

\* Tidword::obj_: TIDs are linearly ordered.
LEMMA TidsOrdered ==
    ASSUME NEW a \in Tid, NEW b \in Tid
    PROVE  /\ TidLess(a, b) \/ a = b \/ TidLess(b, a)
           /\ ~(TidLess(a, b) /\ TidLess(b, a))
           /\ ~TidLess(a, a)
<1>1. a.epoch \in Nat /\ a.tid \in Int /\ b.epoch \in Nat /\ b.tid \in Int
  BY MOCCAssumption DEF Tid
<1>2. a.epoch = b.epoch /\ a.tid = b.tid => a = b
  BY DEF Tid
<1> QED
  BY <1>1, <1>2 DEF TidLess

LEMMA AtMostLess ==
    ASSUME NEW a \in Tid, NEW b \in Tid, NEW c \in Tid
    PROVE  /\ AtMost(a, b) /\ TidLess(b, c) => TidLess(a, c)
           /\ TidLess(a, b) /\ AtMost(b, c) => TidLess(a, c)
           /\ AtMost(a, b) /\ AtMost(b, c) => AtMost(a, c)
<1>1. /\ a.epoch \in Nat /\ b.epoch \in Nat /\ c.epoch \in Nat
      /\ a.tid \in Int /\ b.tid \in Int /\ c.tid \in Int
  BY MOCCAssumption DEF Tid
<1> QED
  BY <1>1 DEF AtMost, TidLess

LEMMA MaxTidAbove ==
    ASSUME NEW a \in Tid, NEW b \in Tid
    PROVE  AtMost(a, MaxTid(a, b)) /\ AtMost(b, MaxTid(a, b))
BY TidsOrdered DEF MaxTid, AtMost

LEMMA IncTidAbove ==
    ASSUME NEW a \in Tid, a.tid + 1 < TidSpan
    PROVE  TidLess(a, IncTid(a))
<1>1. (a.tid + 1) % TidSpan = a.tid + 1
  BY MOCCAssumption DEF Tid
<1>2. IncTid(a).tid = a.tid + 1 /\ IncTid(a).epoch = a.epoch /\ a.tid \in Int
  BY <1>1, MOCCAssumption DEF IncTid, Tid
<1> QED
  BY <1>2 DEF TidLess

\* (a) of writePhase: the commit TID is above all that the transaction has met.
LEMMA CommitTidAbove ==
    ASSUME Types, TidsFit, NEW t \in Thread
    PROVE  TidLess(maxset[t], commitTid(t)) /\ commitTid(t) \in Tid
<1> DEFINE a == IncTid(maxset[t])
           b == IncTid(mrctid[t])
           c == [epoch |-> ThLocalEpoch[t], tid |-> 0]
<1>1. maxset[t] \in Tid /\ mrctid[t] \in Tid
  BY DEF Types
<1>2. a \in Tid /\ b \in Tid
  BY <1>1, IncTidType
<1>3. c \in Tid
  <2>1. ThLocalEpoch[t] \in Nat /\ 0 \in 0 .. TidSpan - 1
    BY MOCCAssumption DEF Types
  <2> QED
    BY <2>1 DEF Tid
<1>4. TidLess(maxset[t], a)
  BY <1>1, IncTidAbove DEF TidsFit
<1> HIDE DEF a, b, c
<1>5. MaxTid(a, b) \in Tid /\ MaxTid(MaxTid(a, b), c) \in Tid
  BY <1>2, <1>3, MaxTidType
<1>6. AtMost(a, MaxTid(a, b))
  BY <1>2, MaxTidAbove
<1>7. AtMost(MaxTid(a, b), MaxTid(MaxTid(a, b), c))
  BY <1>3, <1>5, MaxTidAbove
<1>8. TidLess(maxset[t], MaxTid(MaxTid(a, b), c))
  BY <1>1, <1>2, <1>4, <1>5, <1>6, <1>7, AtMostLess
<1> QED
  BY <1>8, CommitTidType DEF commitTid, a, b, c

-----------------------------------------------------------------------------
(* The two steps that write records *)

\* A worker has the locks on the records it is past and on those it has yet to
\* store, so no other has a lock on them.
LEMMA HasLocked ==
    ASSUME Base, NEW t \in Thread, NEW k \in Key, Past(t, k) \/ Pending(t, k)
    PROVE  Mine(t, k) /\ \A u \in Thread : u # t =>
               k \notin KeysOf(CLL[u]) /\ ~Past(u, k) /\ ~Pending(u, k)
<1>1. /\ Types /\ Counted
      /\ \A u \in Thread : Past(u, k) \/ Pending(u, k) => Mine(u, k)
  BY DEF Base, WorkersMatch, Matches, WriteLocks
<1>2. \A u \in Thread : Mine(u, k) => k \in KeysOf(CLL[u])
  <2> SUFFICES ASSUME NEW u \in Thread, Mine(u, k) PROVE k \in KeysOf(CLL[u])
    OBVIOUS
  <2>1. [key |-> k, mode |-> TRUE].key = k
    OBVIOUS
  <2> QED
    BY <2>1 DEF Mine, KeysOf
<1>3. \A u \in Thread : u # t => k \notin KeysOf(CLL[u])
  BY <1>1, WriterExcludes
<1> QED
  BY <1>1, <1>2, <1>3

LEMMA PublishingIsPending ==
    ASSUME Base, NEW t \in Thread, NEW k, Publishing(t, k)
    PROVE  k \in Key /\ Pending(t, k)
<1>1. Placed(t) /\ todo[t] \in SUBSET Key
  BY DEF Base, WorkersMatch, Matches, Types
<1>2. todo[t] # {} /\ First(todo[t]) \in todo[t]
  BY <1>1, FirstIs DEF Placed, Publishing
<1> QED
  BY <1>1, <1>2 DEF Publishing, Pending, Writing

LEMMA StoresValue ==
    ASSUME Base, NEW t \in Thread, storeValue(t)
    PROVE  \E k \in Key :
              /\ pc[t] = "write" /\ pc'[t] = "publish"
              /\ Pending(t, k) /\ k = First(todo[t]) /\ todo'[t] = todo[t]
              /\ val' = [val EXCEPT ![k] = TxnId(t)]
              /\ UNCHANGED << tidword, order, n >>
<1>1. /\ pc[t] = "write" /\ todo[t] # {} /\ todo' = todo
      /\ val' = [val EXCEPT ![First(todo[t])] = TxnId(t)] /\ Goto(t, "publish")
      /\ UNCHANGED << tidword, order, n >>
  BY DEF storeValue, history, control
<1>2. Types
  BY DEF Base
<1>3. First(todo[t]) \in todo[t] /\ First(todo[t]) \in Key /\ pc'[t] = "publish"
  <2>1. todo[t] \in SUBSET Key /\ pc \in [Thread -> Label]
    BY <1>2 DEF Types
  <2> QED
    BY <1>1, <2>1, FirstIs DEF Goto
<1> QED
  BY <1>1, <1>3 DEF Pending, Writing

LEMMA StoresTid ==
    ASSUME Base, NEW t \in Thread, storeTid(t)
    PROVE  \E k \in Key :
              /\ pc[t] = "publish" /\ pc'[t] = "write"
              /\ Pending(t, k) /\ k = First(todo[t]) /\ todo'[t] = todo[t] \ {k}
              /\ tidword' = [tidword EXCEPT ![k] = mrctid[t]]
              /\ order' = [order EXCEPT ![k] = Append(@, TxnId(t))]
              /\ UNCHANGED << val, n >>
<1>1. /\ pc[t] = "publish" /\ todo' = [todo EXCEPT ![t] = @ \ {First(todo[t])}]
      /\ tidword' = [tidword EXCEPT ![First(todo[t])] = mrctid[t]]
      /\ order' = [order EXCEPT ![First(todo[t])] = Append(@, TxnId(t))]
      /\ UNCHANGED << val, n >> /\ Goto(t, "write")
  BY DEF storeTid, control
<1>2. Types /\ Placed(t)
  BY DEF Base, WorkersMatch, Matches
<1>3. /\ First(todo[t]) \in todo[t] /\ First(todo[t]) \in Key /\ pc'[t] = "write"
      /\ todo'[t] = todo[t] \ {First(todo[t])}
  <2>1. todo[t] \in SUBSET Key /\ todo \in [Thread -> SUBSET Key] /\ pc \in [Thread -> Label]
    BY <1>2 DEF Types
  <2>2. todo[t] # {}
    BY <1>1, <1>2 DEF Placed
  <2> QED
    BY <1>1, <2>1, <2>2, FirstIs DEF Goto
<1> QED
  BY <1>1, <1>3 DEF Pending, Writing

LEMMA StoresNothing ==
    ASSUME Base, NEW t \in Thread, worker(t), ~storeValue(t), ~storeTid(t)
    PROVE  UNCHANGED << tidword, val, order >> /\ pc[t] # "publish" /\ pc'[t] # "publish"
<1>0. Types /\ Placed(t) /\ pc \in [Thread -> Label]
  BY DEF Base, WorkersMatch, Matches, Types
<1> USE DEF control, records, epochs, sets, lists, reading, tids, history
<1>1. CASE operateLocally(t) \/ readCheck(t)
  <2>1. Operating(t) /\ Written(t) \in SUBSET Key
    BY <1>0, <1>1, OpType DEF operateLocally, readCheck, Operating
  <2>2. Advance(t, Written(t)) \/ Goto(t, "wait")
    BY <1>1 DEF operateLocally, readCheck
  <2>3. pc'[t] # "publish"
    BY <1>0, <2>1, <2>2, AdvanceType DEF Goto
  <2> QED
    BY <1>1, <2>3 DEF operateLocally, readCheck
<1>2. CASE lockHeld(t) \/ lockTake(t)
  <2>1. Return(t) /\ pc[t] = "lock"
    BY <1>2 DEF lockHeld, lockTake
  <2>2. Goto(t, "commit") \/ Goto(t, "tid") \/ (Operating(t) /\ Advance(t, Written(t)))
    BY <2>1 DEF Return, Operating
  <2>3. Operating(t) => Written(t) \in SUBSET Key
    BY <1>0, OpType
  <2>4. pc'[t] # "publish"
    BY <1>0, <2>2, <2>3, AdvanceType DEF Goto
  <2> QED
    BY <1>2, <2>1, <2>4 DEF lockHeld, lockTake
<1>3. CASE NextProcedure(t) \/ begin(t) \/ operateLocking(t) \/ operateOptimistically(t)
  BY <1>0, <1>3 DEF NextProcedure, begin, operateLocking, operateOptimistically, Goto
<1>4. CASE readTid(t) \/ readWait(t) \/ readCopy(t)
  BY <1>0, <1>4 DEF readTid, readWait, readCopy, Goto
<1>5. CASE lockRestore(t) \/ unlockCLL(t) \/ commitLock(t) \/ loadEpoch(t) \/ storeEpoch(t)
  BY <1>0, <1>5 DEF lockRestore, unlockCLL, commitLock, loadEpoch, storeEpoch, Goto
<1>6. CASE validateTid(t) \/ validateOwner(t) \/ chooseTid(t) \/ committedTxn(t) \/ abort(t)
  BY <1>0, <1>6 DEF validateTid, validateOwner, chooseTid, committedTxn, abort, Fail, Goto
<1> QED
  BY <1>1, <1>2, <1>3, <1>4, <1>5, <1>6 DEF worker

-----------------------------------------------------------------------------
(* Records as the others see them *)

\* TID words only rise, and those of the records on which u has a lock stay.
WordsRise(u) ==
    \A k \in Key : \/ tidword'[k] = tidword[k]
                   \/ TidLess(tidword[k], tidword'[k]) /\ k \notin KeysOf(CLL[u])

\* Values whose TID words stay do so too, unless one is being stored.
ValuesStay ==
    \A k \in Key : Steady(k)' /\ tidword'[k] = tidword[k] => Steady(k) /\ val'[k] = val[k]

LEMMA WordsRiseStep ==
    ASSUME Base, ValuesMatch, NEW t \in Thread, worker(t)
    PROVE  /\ \A k \in Key : \/ tidword'[k] = tidword[k]
                             \/ TidLess(tidword[k], tidword'[k]) /\ Publishing(t, k)
           /\ \A u \in Thread \ {t} : WordsRise(u)
<1>0. tidword \in [Key -> Tid]
  BY DEF Base, Types
<1>1. ASSUME NEW k \in Key, tidword'[k] # tidword[k]
      PROVE  TidLess(tidword[k], tidword'[k]) /\ Publishing(t, k)
  <2>1. storeTid(t)
    BY <1>1, StoresValue, StoresNothing
  <2>2. PICK j \in Key :
              /\ pc[t] = "publish" /\ Pending(t, j) /\ j = First(todo[t])
              /\ tidword' = [tidword EXCEPT ![j] = mrctid[t]]
    BY <2>1, StoresTid
  <2>3. j = k /\ tidword'[k] = mrctid[t]
    BY <1>0, <1>1, <2>2
  <2>4. TidLess(tidword[k], mrctid[t])
    BY <2>2, <2>3 DEF ValuesMatch, Rising
  <2> QED
    BY <2>2, <2>3, <2>4 DEF Publishing
<1>2. ASSUME NEW u \in Thread \ {t}
      PROVE  WordsRise(u)
  <2>1. \A k \in Key : Publishing(t, k) => k \notin KeysOf(CLL[u])
    BY PublishingIsPending, HasLocked
  <2> QED
    BY <1>1, <2>1 DEF WordsRise
<1> QED
  BY <1>1, <1>2

LEMMA ValuesStayStep ==
    ASSUME Base, ValuesMatch, NEW t \in Thread, worker(t)
    PROVE  ValuesStay
<1> SUFFICES ASSUME NEW k \in Key, Steady(k)', tidword'[k] = tidword[k]
             PROVE  Steady(k) /\ val'[k] = val[k]
  BY DEF ValuesStay
<1>0. /\ Types /\ Placed(t) /\ val \in [Key -> Version]
      /\ tidword \in [Key -> Tid] /\ mrctid[t] \in Tid
  BY DEF Base, WorkersMatch, Matches, Types
<1>1. \A u \in Thread \ {t} : ~Publishing(u, k)
  <2> SUFFICES ASSUME NEW u \in Thread, u # t PROVE ~Publishing(u, k)
    OBVIOUS
  <2>1. UNCHANGED Private(u)
    BY <1>0, OthersUnchanged
  <2>2. ~Publishing(u, k)'
    BY DEF Steady
  <2> QED
    BY <2>1, <2>2 DEF Private, Publishing
<1>2. ~Publishing(t, k)'
  BY DEF Steady
<1>3. CASE storeValue(t)
  <2>1. PICK j \in Key :
              /\ pc[t] = "write" /\ pc'[t] = "publish"
              /\ j = First(todo[t]) /\ todo'[t] = todo[t]
              /\ val' = [val EXCEPT ![j] = TxnId(t)]
    BY <1>3, StoresValue
  <2>2. j # k
    BY <1>2, <2>1 DEF Publishing
  <2> QED
    BY <1>0, <1>1, <2>1, <2>2 DEF Steady, Publishing
<1>4. CASE storeTid(t)
  <2>1. PICK j \in Key :
              /\ pc[t] = "publish" /\ Pending(t, j) /\ j = First(todo[t])
              /\ tidword' = [tidword EXCEPT ![j] = mrctid[t]]
              /\ UNCHANGED val
    BY <1>4, StoresTid
  <2>2. TidLess(tidword[j], mrctid[t])
    BY <2>1 DEF ValuesMatch, Rising
  <2>3. j # k
    BY <1>0, <2>1, <2>2, TidsOrdered
  <2> QED
    BY <1>1, <2>1, <2>3 DEF Steady, Publishing
<1>5. CASE ~storeValue(t) /\ ~storeTid(t)
  <2>1. UNCHANGED val /\ pc[t] # "publish"
    BY <1>5, StoresNothing
  <2> QED
    BY <1>1, <2>1 DEF Steady, Publishing
<1> QED
  BY <1>3, <1>4, <1>5

\* A copy that was good stays good.
LEMMA CopiedStays ==
    ASSUME tidword \in [Key -> Tid], tidword' \in [Key -> Tid], ValuesStay,
           NEW k \in Key, NEW a \in Tid, NEW v,
           tidword'[k] = tidword[k] \/ TidLess(tidword[k], tidword'[k]),
           AtMost(a, tidword[k]), Copied(k, a, v)
    PROVE  Copied(k, a, v)' /\ AtMost(a, tidword'[k])
<1>1. AtMost(a, tidword'[k]) /\ (a = tidword'[k] => tidword'[k] = tidword[k])
  BY AtMostLess, TidsOrdered DEF AtMost
<1>2. ASSUME a = tidword'[k], Steady(k)'
      PROVE  v = val'[k]
  <2>1. a = tidword[k] /\ Steady(k) /\ val'[k] = val[k]
    BY <1>1, <1>2 DEF ValuesStay
  <2> QED
    BY <2>1 DEF Copied
<1> QED
  BY <1>1, <1>2 DEF Copied

\* What a worker has read and verified stands after the steps of others.
LEMMA OthersValues ==
    ASSUME Base, Base', NEW u \in Thread, UNCHANGED Private(u), WordsRise(u), ValuesStay,
           Rising(u), Copies(u), Verified(u)
    PROVE  Rising(u)' /\ Copies(u)' /\ Verified(u)'
<1>0. /\ Types /\ Placed(u) /\ tidword \in [Key -> Tid] /\ tidword' \in [Key -> Tid]
      /\ expected[u] \in Tid
  BY DEF Base, WorkersMatch, Matches, Types
<1>1. /\ pc'[u] = pc[u] /\ pro'[u] = pro[u] /\ pos'[u] = pos[u] /\ rset'[u] = rset[u]
      /\ wset'[u] = wset[u] /\ CLL'[u] = CLL[u] /\ expected'[u] = expected[u]
      /\ buf'[u] = buf[u] /\ todo'[u] = todo[u] /\ maxset'[u] = maxset[u]
      /\ mrctid'[u] = mrctid[u]
  BY DEF Private
<1>2. OpKey(u)' = OpKey(u)
  BY <1>1 DEF OpKey
<1>3. \A k \in Key : tidword'[k] = tidword[k] \/ TidLess(tidword[k], tidword'[k])
  BY DEF WordsRise
<1>4. pc[u] \in {"wait", "copy", "check"} => OpKey(u) \in Key
  BY <1>0, OpType DEF Operating
<1>5. ASSUME NEW i \in DOMAIN rset[u], ~rset[u][i].failed
      PROVE  /\ AtMost(rset[u][i].tid, tidword'[rset[u][i].key])
             /\ Copied(rset[u][i].key, rset[u][i].tid, rset[u][i].val)'
  <2> DEFINE e == rset[u][i]
  <2>1. /\ e.key \in Key /\ e.tid \in Tid
        /\ AtMost(e.tid, tidword[e.key]) /\ Copied(e.key, e.tid, e.val)
    BY <1>0, <1>5, AtReadElement DEF Rising, Copies
  <2>2. PICK k, a, v : k = e.key /\ a = e.tid /\ v = e.val
    OBVIOUS
  <2>3. Copied(k, a, v)' /\ AtMost(a, tidword'[k])
    BY <1>0, <1>3, <2>1, <2>2, CopiedStays
  <2>4. k = rset'[u][i].key /\ a = rset'[u][i].tid /\ v = rset'[u][i].val
    BY <1>1, <2>2
  <2> QED
    BY <2>2, <2>3, <2>4 DEF Copied
<1>6. Copies(u)'
  <2>1. ASSUME pc[u] = "check"
        PROVE  Copied(OpKey(u), expected[u], buf[u])'
    <3>1. /\ OpKey(u) \in Key /\ AtMost(expected[u], tidword[OpKey(u)])
          /\ Copied(OpKey(u), expected[u], buf[u])
      BY <1>4, <2>1 DEF Rising, Copies
    <3>2. PICK k, a, v : k = OpKey(u) /\ a = expected[u] /\ v = buf[u]
      OBVIOUS
    <3>3. Copied(k, a, v)'
      BY <1>0, <1>3, <3>1, <3>2, CopiedStays
    <3>4. k = OpKey(u)' /\ a = expected'[u] /\ v = buf'[u]
      BY <1>1, <1>2, <3>2
    <3> QED
      BY <3>3, <3>4 DEF Copied
  <2>2. ASSUME NEW i \in DOMAIN rset'[u], ~rset'[u][i].failed
        PROVE  Copied(rset[u][i].key, rset[u][i].tid, rset[u][i].val)'
    BY <1>1, <1>5, <2>2
  <2> QED
    BY <1>1, <2>1, <2>2 DEF Copies
<1>7. Rising(u)'
  <2>1. pc[u] \in {"wait", "copy", "check"} => AtMost(expected[u], tidword'[OpKey(u)])
    <3>1. ASSUME pc[u] \in {"wait", "copy", "check"}
          PROVE  AtMost(expected[u], tidword'[OpKey(u)])
      <4>1. /\ OpKey(u) \in Key /\ AtMost(expected[u], tidword[OpKey(u)])
            /\ tidword[OpKey(u)] \in Tid /\ tidword'[OpKey(u)] \in Tid
        BY <1>0, <1>4, <3>1 DEF Rising
      <4> QED
        BY <1>0, <1>3, <4>1, AtMostLess DEF AtMost
    <3> QED
      BY <3>1
  <2>2. ASSUME NEW k \in Key
        PROVE  /\ Past(u, k)' => AtMost(tidword'[k], maxset'[u])
               /\ Pending(u, k)' => TidLess(tidword'[k], mrctid'[u])
    <3>1. /\ Past(u, k)' <=> Past(u, k)
          /\ Pending(u, k)' <=> Pending(u, k)
      BY <1>1 DEF Past, Pending, Committing, Writing
    <3>2. Past(u, k) \/ Pending(u, k) => tidword'[k] = tidword[k]
      <4>1. Past(u, k) \/ Pending(u, k) => Mine(u, k)
        BY HasLocked
      <4>2. Mine(u, k) => k \in KeysOf(CLL[u])
        <5>1. [key |-> k, mode |-> TRUE].key = k
          OBVIOUS
        <5> QED
          BY <5>1 DEF Mine, KeysOf
      <4> QED
        BY <4>1, <4>2 DEF WordsRise
    <3>3. /\ Past(u, k) => AtMost(tidword[k], maxset[u])
          /\ Pending(u, k) => TidLess(tidword[k], mrctid[u])
      BY DEF Rising
    <3> QED
      BY <1>1, <3>1, <3>2, <3>3
  <2> QED
    BY <1>1, <1>2, <1>5, <2>1, <2>2 DEF Rising
<1>8. Verified(u)'
  <2>1. Committing(u)' <=> Committing(u)
    BY <1>1 DEF Committing
  <2>2. \A i \in DOMAIN rset[u] : rset[u][i].key \in KeysOf(CLL[u])
            => tidword'[rset[u][i].key] = tidword[rset[u][i].key]
    BY <1>0, AtReadElement DEF WordsRise
  <2> QED
    BY <1>1, <2>1, <2>2 DEF Verified
<1> QED
  BY <1>6, <1>7, <1>8

-----------------------------------------------------------------------------
(* What a worker reads *)

\* An entry of a read set whose copy is good.
GoodEntry(e) == e.failed \/ (AtMost(e.tid, tidword[e.key]) /\ Copied(e.key, e.tid, e.val))

LEMMA GoodStays ==
    ASSUME tidword \in [Key -> Tid], tidword' \in [Key -> Tid], ValuesStay,
           \A k \in Key : tidword'[k] = tidword[k] \/ TidLess(tidword[k], tidword'[k]),
           NEW e \in ReadElement, GoodEntry(e)
    PROVE  GoodEntry(e)'
<1>1. e.key \in Key /\ e.tid \in Tid
  BY DEF ReadElement
<1>2. CASE e.failed
  BY <1>2 DEF GoodEntry
<1>3. CASE ~e.failed
  <2>1. PICK k, a, v : k = e.key /\ a = e.tid /\ v = e.val
    OBVIOUS
  <2>2. AtMost(a, tidword[k]) /\ Copied(k, a, v)
    BY <1>3, <2>1 DEF GoodEntry
  <2>3. Copied(k, a, v)' /\ AtMost(a, tidword'[k])
    BY <1>1, <2>1, <2>2, CopiedStays
  <2> QED
    BY <2>1, <2>3 DEF GoodEntry
<1> QED
  BY <1>2, <1>3

\* How the read set of a worker changes ...
LEMMA ReadSetChange ==
    ASSUME Base, NEW t \in Thread, worker(t)
    PROVE  \A i \in DOMAIN rset'[t] :
              \/ rset'[t][i].failed
              \/ i \in DOMAIN rset[t] /\ rset'[t][i] = rset[t][i]
              \/ /\ pc[t] = "check" /\ OpKey(t) \in Key
                 /\ rset'[t][i] = [key |-> OpKey(t), tid |-> expected[t], val |-> buf[t],
                                   failed |-> FALSE]
<1>0. /\ Types /\ Placed(t) /\ rset \in [Thread -> Seq(ReadElement)]
      /\ expected[t] \in Tid /\ buf[t] \in Version
  BY DEF Base, WorkersMatch, Matches, Types
<1> USE DEF control, records, epochs, sets, lists, reading, tids, history
<1>1. CASE readWait(t)
  <2> DEFINE e == [key |-> OpKey(t), tid |-> ZeroTid, val |-> NoTxn, failed |-> TRUE]
  <2>1. OpKey(t) \in Key
    BY <1>0, <1>1, OpType DEF readWait, Operating
  <2>2. e \in ReadElement /\ e.failed
    BY <2>1, ZeroTidType, ReadElementType DEF Version
  <2>3. rset' = rset \/ rset' = [rset EXCEPT ![t] = Append(@, e)]
    BY <1>1 DEF readWait
  <2> HIDE DEF e
  <2>4. CASE rset' = [rset EXCEPT ![t] = Append(@, e)]
    <3>1. rset'[t] = Append(rset[t], e)
      BY <1>0, <2>4
    <3> QED
      BY <1>0, <2>2, <3>1, AppendedReads
  <2> QED
    BY <2>3, <2>4
<1>2. CASE readCheck(t)
  <2> DEFINE e == [key |-> OpKey(t), tid |-> expected[t], val |-> buf[t], failed |-> FALSE]
  <2>1. OpKey(t) \in Key /\ pc[t] = "check"
    BY <1>0, <1>2, OpType DEF readCheck, Operating
  <2>2. e \in ReadElement
    BY <1>0, <2>1, ReadElementType
  <2>3. rset' = rset \/ rset' = [rset EXCEPT ![t] = Append(@, e)]
    BY <1>2 DEF readCheck
  <2>4. CASE rset' = [rset EXCEPT ![t] = Append(@, e)]
    <3> HIDE DEF e
    <3>1. rset'[t] = Append(rset[t], e)
      BY <1>0, <2>4
    <3>2. \A i \in DOMAIN rset'[t] :
              (i \in DOMAIN rset[t] /\ rset'[t][i] = rset[t][i]) \/ rset'[t][i] = e
      BY <1>0, <2>2, <3>1, AppendedReads
    <3> QED
      BY <2>1, <3>2 DEF e
  <2> QED
    BY <2>3, <2>4
<1>3. CASE validateTid(t) \/ validateOwner(t)
  <2>1. pos[t] \in DOMAIN rset[t]
    BY <1>0, <1>3 DEF validateTid, validateOwner, Placed
  <2>2. Fail(t) \/ rset' = rset
    BY <1>3 DEF validateTid, validateOwner
  <2> QED
    BY <1>0, <2>1, <2>2, FailedReads
<1>4. CASE committedTxn(t) \/ abort(t)
  <2>1. rset'[t] = << >>
    BY <1>0, <1>4 DEF committedTxn, abort
  <2> QED
    BY <2>1
<1>5. CASE rset' = rset
  BY <1>5
<1>6. CASE lockHeld(t) \/ lockTake(t) \/ chooseTid(t) \/ storeValue(t) \/ storeTid(t)
  BY <1>5, <1>6 DEF lockHeld, lockTake, chooseTid, storeValue, storeTid
<1>7. CASE NextProcedure(t) \/ begin(t) \/ operateLocally(t) \/ operateLocking(t)
           \/ operateOptimistically(t) \/ readTid(t) \/ readCopy(t)
  BY <1>5, <1>7 DEF NextProcedure, begin, operateLocally, operateLocking,
     operateOptimistically, readTid, readCopy
<1>8. CASE lockRestore(t) \/ commitLock(t) \/ loadEpoch(t) \/ storeEpoch(t) \/ unlockCLL(t)
  BY <1>5, <1>8 DEF lockRestore, commitLock, loadEpoch, storeEpoch, unlockCLL
<1> QED
  BY <1>1, <1>2, <1>3, <1>4, <1>6, <1>7, <1>8 DEF worker

\* ... and the copy it is making.
LEMMA CopyChange ==
    ASSUME Base, NEW t \in Thread, worker(t), pc'[t] \in {"wait", "copy", "check"}
    PROVE  /\ UNCHANGED << tidword, val >> /\ OpKey(t)' = OpKey(t) /\ OpKey(t) \in Key
           /\ \/ expected'[t] = tidword[OpKey(t)] /\ pc'[t] # "check"
              \/ expected'[t] = expected[t] /\ pc[t] = "wait" /\ pc'[t] # "check"
              \/ expected'[t] = expected[t] /\ pc[t] = "copy" /\ buf'[t] = val[OpKey(t)]
<1>0. /\ Types /\ Placed(t) /\ pc \in [Thread -> Label]
      /\ expected \in [Thread -> Tid] /\ buf \in [Thread -> Version]
  BY DEF Base, WorkersMatch, Matches, Types
<1> USE DEF control, records, epochs, sets, lists, reading, tids, history
<1>1. CASE readTid(t)
  <2>1. OpKey(t) \in Key
    BY <1>0, <1>1, OpType DEF readTid, Operating
  <2>2. OpKey(t)' = OpKey(t) /\ pc'[t] # "check"
    BY <1>0, <1>1 DEF readTid, OpKey, Goto
  <2> QED
    BY <1>0, <1>1, <2>1, <2>2 DEF readTid
<1>2. CASE readWait(t)
  <2>1. OpKey(t) \in Key
    BY <1>0, <1>2, OpType DEF readWait, Operating
  <2>2. OpKey(t)' = OpKey(t) /\ pc'[t] # "check" /\ pc[t] = "wait"
    BY <1>0, <1>2 DEF readWait, OpKey, Goto
  <2>3. expected' = expected \/ expected' = [expected EXCEPT ![t] = tidword[OpKey(t)]]
    BY <1>2 DEF readWait
  <2>4. expected'[t] = expected[t] \/ expected'[t] = tidword[OpKey(t)]
    BY <1>0, <2>3
  <2> QED
    BY <1>2, <2>1, <2>2, <2>4 DEF readWait
<1>3. CASE readCopy(t)
  <2>1. OpKey(t) \in Key
    BY <1>0, <1>3, OpType DEF readCopy, Operating
  <2>2. OpKey(t)' = OpKey(t) /\ pc[t] = "copy"
    BY <1>3 DEF readCopy, OpKey
  <2> QED
    BY <1>0, <1>3, <2>1, <2>2 DEF readCopy
<1>4. CASE readCheck(t)
  <2>1. Operating(t) /\ OpKey(t) \in Key /\ Written(t) \in SUBSET Key
    BY <1>0, <1>4, OpType DEF readCheck, Operating
  <2>2. ~Advance(t, Written(t))
    BY <1>0, <2>1, AdvanceType
  <2>3. /\ expected' = [expected EXCEPT ![t] = tidword[OpKey(t)]]
        /\ Goto(t, "wait") /\ UNCHANGED << sets, pos, todo >>
    BY <1>4, <2>2 DEF readCheck
  <2>4. OpKey(t)' = OpKey(t) /\ pc'[t] # "check"
    BY <1>0, <1>4, <2>3 DEF readCheck, OpKey, Goto
  <2> QED
    BY <1>0, <1>4, <2>1, <2>3, <2>4 DEF readCheck
<1>5. CASE operateLocally(t)
  <2>1. Operating(t) /\ Written(t) \in SUBSET Key /\ Advance(t, Written(t))
    BY <1>0, <1>5, OpType DEF operateLocally, Operating
  <2> QED
    BY <1>0, <2>1, AdvanceType
<1>6. CASE lockHeld(t) \/ lockTake(t)
  <2>1. Return(t) /\ pc[t] = "lock"
    BY <1>6 DEF lockHeld, lockTake
  <2>2. Goto(t, "commit") \/ Goto(t, "tid") \/ (Operating(t) /\ Advance(t, Written(t)))
    BY <2>1 DEF Return, Operating
  <2>3. Operating(t) => Written(t) \in SUBSET Key
    BY <1>0, OpType
  <2> QED
    BY <1>0, <2>2, <2>3, AdvanceType DEF Goto
<1>7. CASE NextProcedure(t) \/ begin(t) \/ operateLocking(t) \/ operateOptimistically(t)
  BY <1>0, <1>7 DEF NextProcedure, begin, operateLocking, operateOptimistically, Goto
<1>8. CASE lockRestore(t) \/ unlockCLL(t) \/ commitLock(t) \/ loadEpoch(t) \/ storeEpoch(t)
  BY <1>0, <1>8 DEF lockRestore, unlockCLL, commitLock, loadEpoch, storeEpoch, Goto
<1>9. CASE validateTid(t) \/ validateOwner(t) \/ chooseTid(t) \/ committedTxn(t) \/ abort(t)
           \/ storeValue(t) \/ storeTid(t)
  BY <1>0, <1>9 DEF validateTid, validateOwner, chooseTid, committedTxn, abort, storeValue,
     storeTid, Fail, Goto
<1> QED
  BY <1>1, <1>2, <1>3, <1>4, <1>5, <1>6, <1>7, <1>8, <1>9 DEF worker

LEMMA OwnReads ==
    ASSUME Base, Base', ValuesMatch, NEW t \in Thread, worker(t), ValuesStay
    PROVE  /\ Copies(t)'
           /\ pc'[t] \in {"wait", "copy", "check"} => AtMost(expected'[t], tidword'[OpKey(t)'])
           /\ \A i \in DOMAIN rset'[t] :
                 rset'[t][i].failed \/ AtMost(rset'[t][i].tid, tidword'[rset'[t][i].key])
<1>0. /\ Types /\ Placed(t) /\ Rising(t) /\ Copies(t)
      /\ tidword \in [Key -> Tid] /\ tidword' \in [Key -> Tid]
      /\ expected[t] \in Tid /\ buf[t] \in Version
  BY DEF Base, WorkersMatch, Matches, Types, ValuesMatch
<1>1. \A k \in Key : tidword'[k] = tidword[k] \/ TidLess(tidword[k], tidword'[k])
  BY WordsRiseStep
<1>2. \A i \in DOMAIN rset[t] : rset[t][i] \in ReadElement /\ GoodEntry(rset[t][i])
  BY <1>0, AtReadElement DEF Rising, Copies, GoodEntry
<1>3. ASSUME pc[t] = "check", OpKey(t) \in Key
      PROVE  LET e == [key |-> OpKey(t), tid |-> expected[t], val |-> buf[t], failed |-> FALSE]
             IN e \in ReadElement /\ GoodEntry(e)
  BY <1>0, <1>3, ReadElementType DEF Rising, Copies, GoodEntry
<1>4. ASSUME NEW i \in DOMAIN rset'[t], ~rset'[t][i].failed
      PROVE  /\ AtMost(rset'[t][i].tid, tidword'[rset'[t][i].key])
             /\ Copied(rset[t][i].key, rset[t][i].tid, rset[t][i].val)'
  <2>1. PICK e : e = rset'[t][i]
    OBVIOUS
  <2>2. e \in ReadElement /\ GoodEntry(e) /\ ~e.failed
    <3>1. \/ i \in DOMAIN rset[t] /\ rset'[t][i] = rset[t][i]
          \/ /\ pc[t] = "check" /\ OpKey(t) \in Key
             /\ rset'[t][i] = [key |-> OpKey(t), tid |-> expected[t], val |-> buf[t],
                               failed |-> FALSE]
      BY <1>4, ReadSetChange
    <3> QED
      BY <1>2, <1>3, <1>4, <2>1, <3>1
  <2>3. GoodEntry(e)'
    BY <1>0, <1>1, <2>2, GoodStays
  <2>4. AtMost(e.tid, tidword'[e.key]) /\ Copied(e.key, e.tid, e.val)'
    BY <2>2, <2>3 DEF GoodEntry
  <2> QED
    BY <2>1, <2>4 DEF Copied
<1>5. ASSUME pc'[t] \in {"wait", "copy", "check"}
      PROVE  /\ AtMost(expected'[t], tidword'[OpKey(t)'])
             /\ pc'[t] = "check" => Copied(OpKey(t), expected[t], buf[t])'
  <2>1. /\ UNCHANGED << tidword, val >> /\ OpKey(t)' = OpKey(t) /\ OpKey(t) \in Key
        /\ \/ expected'[t] = tidword[OpKey(t)] /\ pc'[t] # "check"
           \/ expected'[t] = expected[t] /\ pc[t] = "wait" /\ pc'[t] # "check"
           \/ expected'[t] = expected[t] /\ pc[t] = "copy" /\ buf'[t] = val[OpKey(t)]
    BY <1>5, CopyChange
  <2>2. AtMost(expected'[t], tidword'[OpKey(t)'])
    BY <1>0, <2>1 DEF Rising, AtMost
  <2>3. pc'[t] = "check" => Copied(OpKey(t), expected[t], buf[t])'
    BY <2>1 DEF Copied
  <2> QED
    BY <2>2, <2>3
<1>6. Copies(t)'
  BY <1>4, <1>5 DEF Copies
<1> QED
  BY <1>4, <1>5, <1>6

-----------------------------------------------------------------------------
(* What a worker has met *)

\* The TIDs of the records a worker writes, and the entries it has verified.
TidsGood(t) ==
    /\ \A k \in Key : /\ Past(t, k) => AtMost(tidword[k], maxset[t])
                      /\ Pending(t, k) => TidLess(tidword[k], mrctid[t])
    /\ Verified(t)

LEMMA GoodElsewhere ==
    ASSUME NEW t \in Thread, ~Committing(t)', ~Writing(t)'
    PROVE  TidsGood(t)'
<1>1. pc'[t] \notin {"validate", "owner"}
  BY DEF Committing
<1> QED
  BY <1>1 DEF TidsGood, Past, Pending, Verified

LEMMA GoodOnCommit ==
    ASSUME NEW t \in Thread, pc'[t] = "commit", todo'[t] = wset'[t], pos'[t] = 1
    PROVE  TidsGood(t)'
BY DEF TidsGood, Past, Pending, Verified, Writing

\* On the way through commit() that is so while nothing is locked or verified.
LEMMA GoodInCommit ==
    ASSUME NEW t \in Thread, TidsGood(t), Committing(t), Committing(t)',
           UNCHANGED << tidword, wset[t], pos[t], todo[t], maxset[t] >>,
           pc[t] \notin {"validate", "owner"}, pc'[t] \notin {"validate", "owner"}
    PROVE  TidsGood(t)'
<1>1. ~Writing(t)'
  BY DEF Committing, Writing
<1>2. \A k \in Key : Past(t, k)' => Past(t, k)
  BY DEF Past
<1> QED
  BY <1>1, <1>2 DEF TidsGood, Pending, Verified

LEMMA GoodAfterReturn ==
    ASSUME Base, NEW t \in Thread, TidsGood(t), pc[t] = "lock", Return(t), UNCHANGED tidword
    PROVE  TidsGood(t)'
<1>0. /\ Types /\ Placed(t)
      /\ pc \in [Thread -> Label] /\ pos \in [Thread -> Nat \ {0}]
      /\ todo \in [Thread -> SUBSET Key] /\ wset \in [Thread -> SUBSET Key]
      /\ maxset \in [Thread -> Tid] /\ tidword \in [Key -> Tid]
  BY DEF Base, WorkersMatch, Matches, Types
<1>1. CASE todo[t] # {}
  <2> DEFINE k == want[t].key
  <2>1. k \in Key
    BY <1>0 DEF Types, Entry
  <2>2. /\ todo' = [todo EXCEPT ![t] = @ \ {k}]
        /\ maxset' = [maxset EXCEPT ![t] = MaxTid(@, tidword[k])]
        /\ pc' = [pc EXCEPT ![t] = "commit"] /\ pos' = pos /\ wset' = wset
    BY <1>1 DEF Return, Goto
  <2>3. /\ todo'[t] = todo[t] \ {k} /\ maxset'[t] = MaxTid(maxset[t], tidword[k])
        /\ pc'[t] = "commit" /\ pos'[t] = pos[t] /\ wset'[t] = wset[t]
    BY <1>0, <2>2
  <2>4. AtMost(maxset[t], maxset'[t]) /\ AtMost(tidword[k], maxset'[t]) /\ maxset'[t] \in Tid
    BY <1>0, <2>1, <2>3, MaxTidAbove, MaxTidType
  <2>5. ASSUME NEW j \in Key, Past(t, j)'
        PROVE  AtMost(tidword[j], maxset'[t])
    <3>1. j = k \/ Past(t, j)
      BY <1>1, <2>3, <2>5 DEF Past, Committing
    <3>2. Past(t, j) => AtMost(tidword[j], maxset[t])
      BY DEF TidsGood
    <3>3. tidword[j] \in Tid /\ maxset[t] \in Tid
      BY <1>0
    <3> QED
      BY <2>4, <3>1, <3>2, <3>3, AtMostLess
  <2>6. pos[t] = 1
    BY <1>1 DEF TidsGood, Verified, Committing
  <2> QED
    BY <2>3, <2>5, <2>6 DEF TidsGood, Verified, Pending, Writing
<1>2. CASE todo[t] = {}
  <2>1. Operating(t)
    BY <1>2 DEF Operating
  <2>2. CASE Op(t) = "WRITE"
    <3>1. wset' = [wset EXCEPT ![t] = Written(t)] /\ Advance(t, Written(t))
      BY <1>2, <2>2 DEF Return
    <3>2. wset'[t] = Written(t) /\ Written(t) \in SUBSET Key
      BY <1>0, <2>1, <3>1, OpType
    <3>3. \/ pc'[t] = "exec"
          \/ pc'[t] = "commit" /\ todo'[t] = wset'[t] /\ pos'[t] = 1
      BY <1>0, <2>1, <3>1, <3>2, AdvanceType
    <3>4. pc'[t] = "exec" => ~Committing(t)' /\ ~Writing(t)'
      BY DEF Committing, Writing
    <3> QED
      BY <3>3, <3>4, GoodElsewhere, GoodOnCommit
  <2>3. CASE Op(t) # "WRITE"
    <3>1. pc'[t] = "tid"
      BY <1>0, <1>2, <2>3 DEF Return, Goto
    <3> QED
      BY <3>1, GoodElsewhere DEF Committing, Writing
  <2> QED
    BY <2>2, <2>3
<1> QED
  BY <1>1, <1>2

LEMMA OwnTids ==
    ASSUME Base, Base', TidsFit, NEW t \in Thread, TidsGood(t), worker(t)
    PROVE  TidsGood(t)'
<1>0. /\ Types /\ Placed(t)
      /\ pc \in [Thread -> Label] /\ pos \in [Thread -> Nat \ {0}]
      /\ rset \in [Thread -> Seq(ReadElement)] /\ wset \in [Thread -> SUBSET Key]
      /\ todo \in [Thread -> SUBSET Key] /\ maxset \in [Thread -> Tid]
      /\ mrctid \in [Thread -> Tid] /\ tidword \in [Key -> Tid]
      /\ CLL \in [Thread -> SUBSET Entry]
  BY DEF Base, WorkersMatch, Matches, Types
<1> USE DEF control, records, epochs, sets, lists, reading, tids, history
<1>1. CASE pc'[t] \in {"idle", "done", "retry", "exec", "tid", "wait", "copy", "check", "abort"}
  BY <1>1, GoodElsewhere DEF Committing, Writing
<1>2. CASE NextProcedure(t) \/ begin(t) \/ operateOptimistically(t) \/ readTid(t)
           \/ readWait(t) \/ readCopy(t) \/ committedTxn(t) \/ abort(t)
  <2>1. pc'[t] \in {"idle", "done", "retry", "exec", "tid", "wait", "copy", "check", "abort"}
    BY <1>0, <1>2 DEF NextProcedure, begin, operateOptimistically, readTid, readWait,
       readCopy, committedTxn, abort, Goto
  <2> QED
    BY <1>1, <2>1
<1>3. CASE operateLocally(t) \/ readCheck(t)
  <2>1. Operating(t) /\ Written(t) \in SUBSET Key
    BY <1>0, <1>3, OpType DEF operateLocally, readCheck, Operating
  <2>2. \/ Goto(t, "wait")
        \/ Advance(t, Written(t)) /\ wset' = [wset EXCEPT ![t] = Written(t)]
    BY <1>3 DEF operateLocally, readCheck
  <2>3. \/ pc'[t] \in {"wait", "exec"}
        \/ pc'[t] = "commit" /\ todo'[t] = wset'[t] /\ pos'[t] = 1
    BY <1>0, <2>1, <2>2, AdvanceType DEF Goto
  <2> QED
    BY <1>1, <2>3, GoodOnCommit
<1>4. CASE operateLocking(t)
  <2>1. pc'[t] = "lock" /\ todo'[t] = {}
    BY <1>0, <1>4 DEF operateLocking, Goto, Placed
  <2> QED
    BY <2>1, GoodElsewhere DEF Committing, Writing
<1>5. CASE lockHeld(t) \/ lockTake(t)
  BY <1>5, GoodAfterReturn DEF lockHeld, lockTake
<1>6. CASE lockRestore(t)
  <2>1. pc'[t] = pc[t] /\ pc[t] = "lock"
        /\ UNCHANGED << tidword, wset[t], pos[t], todo[t], maxset[t] >>
    BY <1>6 DEF lockRestore
  <2> QED
    BY <2>1, GoodElsewhere, GoodInCommit DEF Committing, Writing
<1>7. CASE commitLock(t) \/ loadEpoch(t)
  <2>1. /\ pc[t] = "commit" /\ (pc'[t] = "epoch" \/ (pc'[t] = "lock" /\ todo[t] # {}))
        /\ UNCHANGED << tidword, wset[t], pos[t], todo[t], maxset[t] >>
    BY <1>0, <1>7 DEF commitLock, loadEpoch, Goto
  <2> QED
    BY <2>1, GoodInCommit DEF Committing
<1>8. CASE storeEpoch(t) \/ validateTid(t) \/ validateOwner(t)
  <2>1. /\ pc[t] \in {"epoch", "validate", "owner"} /\ Committing(t)
        /\ UNCHANGED << tidword, CLL, wset[t], todo[t] >>
    BY <1>8 DEF storeEpoch, validateTid, validateOwner, Committing
  <2>2. CASE pc'[t] \in {"validate", "owner"}
    <3>1. \A k \in Key : Past(t, k)' => Past(t, k)
      BY <2>1 DEF Past
    <3>2. AtMost(maxset[t], maxset'[t]) /\ maxset'[t] \in Tid
      <4>1. CASE validateOwner(t)
        <5>1. pos[t] \in DOMAIN rset[t]
          BY <1>0, <4>1 DEF validateOwner, Placed
        <5>2. PICK k : k = rset[t][pos[t]].key /\ k \in Key
          BY <1>0, <5>1, AtReadElement
        <5>3. maxset' = maxset \/ maxset' = [maxset EXCEPT ![t] = MaxTid(@, tidword[k])]
          BY <4>1, <5>2 DEF validateOwner
        <5>4. maxset'[t] = maxset[t] \/ maxset'[t] = MaxTid(maxset[t], tidword[k])
          BY <1>0, <5>3
        <5>5. maxset[t] \in Tid /\ tidword[k] \in Tid
          BY <1>0, <5>2
        <5> QED
          BY <5>4, <5>5, MaxTidAbove, MaxTidType DEF AtMost
      <4>2. CASE storeEpoch(t) \/ validateTid(t)
        BY <1>0, <4>2 DEF storeEpoch, validateTid, AtMost
      <4> QED
        BY <1>8, <4>1, <4>2
    <3>3. ASSUME NEW k \in Key, Past(t, k)'
          PROVE  AtMost(tidword[k], maxset'[t])
      <4>1. AtMost(tidword[k], maxset[t])
        BY <3>1, <3>3 DEF TidsGood
      <4>2. tidword[k] \in Tid /\ maxset[t] \in Tid
        BY <1>0
      <4> QED
        BY <3>2, <4>1, <4>2, AtMostLess
    <3>4. Verified(t)'
      <4>1. CASE storeEpoch(t)
        <5>1. pc[t] = "epoch" /\ pc'[t] = "validate" /\ pos'[t] = pos[t] /\ rset' = rset
          BY <1>0, <4>1 DEF storeEpoch, Goto
        <5>2. pos[t] = 1
          BY <5>1 DEF TidsGood, Verified, Committing
        <5>3. \A i \in DOMAIN rset[t] : ~(i < 1)
          BY <1>0, AtReadElement
        <5> QED
          BY <5>1, <5>2, <5>3 DEF Verified
      <4>2. CASE validateTid(t)
        <5>1. /\ pc[t] = "validate" /\ pc'[t] = "owner" /\ pos'[t] = pos[t] /\ rset' = rset
              /\ tidword[rset[t][pos[t]].key] = rset[t][pos[t]].tid
          BY <1>0, <2>2, <4>2 DEF validateTid, Goto, Fail
        <5> QED
          BY <2>1, <5>1 DEF TidsGood, Verified
      <4>3. CASE validateOwner(t)
        <5>1. /\ pc[t] = "owner" /\ pc'[t] = "validate" /\ pos'[t] = pos[t] + 1 /\ rset' = rset
          BY <1>0, <2>2, <4>3 DEF validateOwner, Goto, Fail
        <5>2. \A i \in DOMAIN rset[t] : i < pos[t] + 1 => i < pos[t] \/ i = pos[t]
          <6>1. pos[t] \in Nat /\ \A i \in DOMAIN rset[t] : i \in Nat
            BY <1>0, AtReadElement
          <6> QED
            BY <6>1
        <5> QED
          BY <2>1, <5>1, <5>2 DEF TidsGood, Verified
      <4> QED
        BY <1>8, <4>1, <4>2, <4>3
    <3> QED
      BY <2>1, <2>2, <3>3, <3>4 DEF TidsGood, Pending, Writing
  <2>3. CASE pc'[t] = "abort"
    BY <1>1, <2>3
  <2>4. pc'[t] \in {"validate", "owner", "abort"}
    BY <1>0, <1>8 DEF storeEpoch, validateTid, validateOwner, Fail, Goto
  <2> QED
    BY <2>2, <2>3, <2>4
<1>9. CASE chooseTid(t)
  <2>1. /\ pc[t] = "validate" /\ pc'[t] = "write" /\ todo'[t] = wset[t] /\ wset' = wset
        /\ mrctid'[t] = commitTid(t) /\ UNCHANGED tidword
    BY <1>0, <1>9 DEF chooseTid, Goto
  <2>2. todo[t] = {}
    BY <1>0, <2>1 DEF Placed
  <2>3. ASSUME NEW k \in Key, Pending(t, k)'
        PROVE  TidLess(tidword[k], mrctid'[t])
    <3>1. Past(t, k)
      BY <2>1, <2>2, <2>3 DEF Past, Pending, Committing
    <3>2. AtMost(tidword[k], maxset[t])
      BY <3>1 DEF TidsGood
    <3>3. TidLess(maxset[t], commitTid(t)) /\ commitTid(t) \in Tid
      BY <1>0, CommitTidAbove
    <3>4. tidword[k] \in Tid /\ maxset[t] \in Tid
      BY <1>0
    <3> QED
      BY <2>1, <3>2, <3>3, <3>4, AtMostLess
  <2> QED
    BY <2>1, <2>3 DEF TidsGood, Past, Committing, Verified
<1>10. CASE storeValue(t) \/ storeTid(t) \/ unlockCLL(t)
  <2>1. /\ pc[t] \in {"write", "publish", "abort"} /\ pc'[t] \in {"write", "publish", "abort"}
        /\ todo'[t] \subseteq todo[t] /\ mrctid' = mrctid
        /\ \A k \in Key : Pending(t, k)' => Pending(t, k) /\ tidword'[k] = tidword[k]
    <3>1. CASE storeValue(t)
      BY <1>0, <3>1 DEF storeValue, Goto, Pending, Writing
    <3>2. CASE storeTid(t)
      <4>1. PICK k \in Key :
              /\ pc[t] = "publish" /\ pc'[t] = "write"
              /\ todo'[t] = todo[t] \ {k}
              /\ tidword' = [tidword EXCEPT ![k] = mrctid[t]]
        BY <3>2, StoresTid
      <4> QED
        BY <1>0, <3>2, <4>1 DEF storeTid, Pending, Writing
    <3>3. CASE unlockCLL(t)
      BY <1>0, <3>3 DEF unlockCLL, Pending, Writing
    <3> QED
      BY <1>10, <3>1, <3>2, <3>3
  <2>2. ~Committing(t)'
    BY <2>1 DEF Committing
  <2>3. \A k \in Key : Pending(t, k)' => TidLess(tidword'[k], mrctid'[t])
    BY <2>1 DEF TidsGood
  <2>4. pc'[t] \notin {"validate", "owner"}
    BY <2>1
  <2> QED
    BY <2>2, <2>3, <2>4 DEF TidsGood, Past, Verified
<1> QED
  BY <1>2, <1>3, <1>4, <1>5, <1>6, <1>7, <1>8, <1>9, <1>10 DEF worker

-----------------------------------------------------------------------------
(* The values of the records *)

LEMMA NewestAppended ==
    ASSUME NEW s \in Seq(Txn), NEW v \in Txn
    PROVE  Append(s, v) # << >> /\ Append(s, v)[Len(Append(s, v))] = v
OBVIOUS

LEMMA StoredStep ==
    ASSUME Base, Base', ValuesMatch, NEW t \in Thread, worker(t), NEW k \in Key
    PROVE  Stored(k)'
<1>0. /\ Types /\ Placed(t) /\ Stored(k) /\ ValuesStay
      /\ val \in [Key -> Version] /\ order \in [Key -> Seq(Txn)] /\ TxnId(t) \in Txn
      /\ tidword \in [Key -> Tid] /\ pc \in [Thread -> Label]
  BY ValuesStayStep, TxnIdType DEF Base, WorkersMatch, Matches, Types, ValuesMatch
<1>1. ASSUME NEW u \in Thread \ {t}
      PROVE  (Publishing(u, k)' <=> Publishing(u, k)) /\ TxnId(u)' = TxnId(u)
  <2>1. UNCHANGED Private(u)
    BY <1>0, <1>1, OthersUnchanged
  <2> QED
    BY <2>1 DEF Private, Publishing, TxnId
<1>2. CASE storeValue(t)
  <2>1. PICK j \in Key :
              /\ pc[t] = "write" /\ pc'[t] = "publish"
              /\ Pending(t, j) /\ j = First(todo[t]) /\ todo'[t] = todo[t]
              /\ val' = [val EXCEPT ![j] = TxnId(t)]
              /\ UNCHANGED << tidword, order, n >>
    BY <1>2, StoresValue
  <2>2. CASE j = k
    <3>1. Publishing(t, k)' /\ val'[k] = TxnId(t) /\ TxnId(t)' = TxnId(t)
      BY <1>0, <2>1, <2>2 DEF Publishing, TxnId
    <3>2. \A u \in Thread \ {t} : ~Publishing(u, k)
      BY <2>1, <2>2, HasLocked, PublishingIsPending
    <3> QED
      BY <1>1, <3>1, <3>2 DEF Stored, Steady
  <2>3. CASE j # k
    <3>1. val'[k] = val[k] /\ Newest(k)' = Newest(k) /\ ~Publishing(t, k)'
      BY <1>0, <2>1, <2>3 DEF Newest, Publishing
    <3>2. Steady(k)' => Steady(k)
      BY <1>0, <2>1 DEF ValuesStay
    <3> QED
      BY <1>0, <1>1, <3>1, <3>2 DEF Stored
  <2> QED
    BY <2>2, <2>3
<1>3. CASE storeTid(t)
  <2>1. PICK j \in Key :
              /\ pc[t] = "publish" /\ pc'[t] = "write"
              /\ Pending(t, j) /\ j = First(todo[t])
              /\ tidword' = [tidword EXCEPT ![j] = mrctid[t]]
              /\ order' = [order EXCEPT ![j] = Append(@, TxnId(t))]
              /\ UNCHANGED << val, n >>
    BY <1>3, StoresTid
  <2>2. CASE j = k
    <3>1. val[k] = TxnId(t)
      BY <1>0, <2>1, <2>2 DEF Stored, Publishing
    <3>2. order'[k] = Append(order[k], TxnId(t)) /\ order[k] \in Seq(Txn)
      BY <1>0, <2>1, <2>2
    <3>3. Newest(k)' = TxnId(t)
      BY <1>0, <3>2, NewestAppended DEF Newest
    <3>4. \A u \in Thread \ {t} : ~Publishing(u, k)
      BY <2>1, <2>2, HasLocked, PublishingIsPending
    <3> QED
      BY <1>1, <2>1, <3>1, <3>3, <3>4 DEF Stored, Publishing
  <2>3. CASE j # k
    <3>1. val'[k] = val[k] /\ Newest(k)' = Newest(k) /\ ~Publishing(t, k)'
      BY <1>0, <2>1, <2>3 DEF Newest, Publishing
    <3>2. Steady(k)' => Steady(k)
      BY <1>0, <2>1, <2>3 DEF ValuesStay
    <3> QED
      BY <1>0, <1>1, <3>1, <3>2 DEF Stored
  <2> QED
    BY <2>2, <2>3
<1>4. CASE ~storeValue(t) /\ ~storeTid(t)
  <2>1. UNCHANGED << tidword, val, order >> /\ pc'[t] # "publish"
    BY <1>4, StoresNothing
  <2>2. Steady(k)' => Steady(k)
    BY <1>0, <2>1 DEF ValuesStay
  <2>3. Newest(k)' = Newest(k) /\ ~Publishing(t, k)'
    BY <2>1 DEF Newest, Publishing
  <2> QED
    BY <1>0, <1>1, <2>1, <2>2, <2>3 DEF Stored
<1> QED
  BY <1>2, <1>3, <1>4

LEMMA ValuesStep ==
    ASSUME Base, Base', TidsFit, ValuesMatch, [Next]_vars
    PROVE  ValuesMatch'
<1>0. Types /\ \A u \in Thread : Placed(u) /\ Rising(u) /\ Copies(u) /\ Verified(u)
  BY DEF Base, WorkersMatch, Matches, ValuesMatch
<1>1. ASSUME NEW t \in Thread, worker(t)
      PROVE  ValuesMatch'
  <2>1. ValuesStay /\ \A u \in Thread \ {t} : WordsRise(u) /\ UNCHANGED Private(u)
    BY <1>0, <1>1, ValuesStayStep, WordsRiseStep, OthersUnchanged
  <2>2. \A u \in Thread \ {t} : Rising(u)' /\ Copies(u)' /\ Verified(u)'
    BY <1>0, <2>1, OthersValues
  <2>3. TidsGood(t)
    BY <1>0 DEF TidsGood, Rising
  <2>4. TidsGood(t)'
    BY <1>1, <2>3, OwnTids
  <2>5. /\ Copies(t)'
        /\ pc'[t] \in {"wait", "copy", "check"} => AtMost(expected'[t], tidword'[OpKey(t)'])
        /\ \A i \in DOMAIN rset'[t] :
              rset'[t][i].failed \/ AtMost(rset'[t][i].tid, tidword'[rset'[t][i].key])
    BY <1>1, <2>1, OwnReads
  <2>6. Rising(t)' /\ Verified(t)'
    BY <2>4, <2>5 DEF TidsGood, Rising
  <2>7. \A k \in Key : Stored(k)'
    BY <1>1, StoredStep
  <2> QED
    BY <2>2, <2>5, <2>6, <2>7 DEF ValuesMatch
<1>2. CASE Quit \/ leaderWork \/ Joined \/ UNCHANGED vars
  <2>1. /\ UNCHANGED << tidword, val, order, pc, todo, n >>
        /\ \A u \in Thread : UNCHANGED Private(u)
    BY <1>2, NoWorker DEF Private, records, reading, tids, history
  <2>2. \A k, u : (Publishing(u, k)' <=> Publishing(u, k)) /\ TxnId(u)' = TxnId(u)
    BY <2>1 DEF Publishing, TxnId
  <2>3. ValuesStay /\ \A u \in Thread : WordsRise(u)
    BY <2>1, <2>2 DEF ValuesStay, WordsRise, Steady
  <2>4. \A u \in Thread : Rising(u)' /\ Copies(u)' /\ Verified(u)'
    BY <1>0, <2>1, <2>3, OthersValues
  <2>5. ASSUME NEW k \in Key
        PROVE  Stored(k)'
    <3>1. Stored(k) /\ Newest(k)' = Newest(k)
      BY <2>1 DEF ValuesMatch, Newest
    <3> QED
      BY <2>1, <2>2, <3>1 DEF Stored, Steady
  <2> QED
    BY <2>4, <2>5 DEF ValuesMatch
<1> QED
  BY <1>1, <1>2 DEF Next

LEMMA ValuesInit == Init => ValuesMatch
<1> SUFFICES ASSUME Init PROVE ValuesMatch
  OBVIOUS
<1>1. ASSUME NEW t \in Thread
      PROVE  Rising(t) /\ Copies(t) /\ Verified(t)
  <2>1. pc[t] = "idle" /\ rset[t] = << >>
    BY DEF Init
  <2> QED
    BY <2>1 DEF Rising, Copies, Verified, Past, Pending, Committing, Writing
<1>2. ASSUME NEW k \in Key
      PROVE  Stored(k)
  <2>1. val[k] = NoTxn /\ order[k] = << >> /\ \A t \in Thread : pc[t] = "idle"
    BY DEF Init
  <2> QED
    BY <2>1 DEF Stored, Newest, Steady, Publishing
<1> QED
  BY <1>1, <1>2 DEF ValuesMatch

-----------------------------------------------------------------------------
(* The transactions that have committed *)

\* Transactions are counted at the end of their write phases, ...
LEMMA WritingChange ==
    ASSUME Base, NEW t \in Thread, worker(t)
    PROVE  /\ n'[t] \in Nat /\ n[t] <= n'[t]
           /\ Writing(t) => \/ Writing(t)' /\ n'[t] = n[t]
                            \/ todo[t] = {} /\ n'[t] = n[t] + 1
           /\ \A u \in Thread \ {t} : n'[u] = n[u] /\ (Writing(u)' <=> Writing(u))
<1>0. /\ Types /\ Placed(t) /\ n \in [Thread -> Nat] /\ pc \in [Thread -> Label]
  BY DEF Base, WorkersMatch, Matches, Types
<1> USE DEF control
<1>1. \A u \in Thread \ {t} : n'[u] = n[u] /\ (Writing(u)' <=> Writing(u))
  <2> SUFFICES ASSUME NEW u \in Thread, u # t
               PROVE  n'[u] = n[u] /\ (Writing(u)' <=> Writing(u))
    OBVIOUS
  <2>1. UNCHANGED Private(u)
    BY <1>0, OthersUnchanged
  <2> QED
    BY <2>1 DEF Private, Writing
<1>2. CASE committedTxn(t)
  <2>1. n' = [n EXCEPT ![t] = @ + 1] /\ todo[t] = {}
    BY <1>2 DEF committedTxn
  <2> QED
    BY <1>0, <1>1, <2>1
<1>3. CASE storeValue(t) \/ storeTid(t) \/ unlockCLL(t)
  <2>1. n' = n /\ (Writing(t) => Writing(t)')
    BY <1>0, <1>3 DEF storeValue, storeTid, unlockCLL, Goto, Writing
  <2> QED
    BY <1>0, <1>1, <2>1
<1>4. CASE n' = n /\ ~Writing(t)
  BY <1>0, <1>1, <1>4
<1>5. CASE NextProcedure(t) \/ begin(t) \/ operateLocally(t) \/ operateLocking(t)
           \/ operateOptimistically(t) \/ readTid(t) \/ readWait(t) \/ readCopy(t)
           \/ readCheck(t)
  <2>1. n' = n /\ ~Writing(t)
    BY <1>5 DEF NextProcedure, begin, operateLocally, operateLocking, operateOptimistically,
       readTid, readWait, readCopy, readCheck, Writing
  <2> QED
    BY <1>4, <2>1
<1>6. CASE lockHeld(t) \/ lockTake(t) \/ lockRestore(t) \/ commitLock(t) \/ loadEpoch(t)
           \/ storeEpoch(t) \/ validateTid(t) \/ validateOwner(t) \/ chooseTid(t) \/ abort(t)
  <2>1. n' = n /\ ~Writing(t)
    BY <1>6 DEF lockHeld, lockTake, lockRestore, commitLock, loadEpoch, storeEpoch,
       validateTid, validateOwner, chooseTid, abort, Writing
  <2> QED
    BY <1>4, <2>1
<1> QED
  BY <1>2, <1>3, <1>5, <1>6 DEF worker

\* ... which chooseTid begins.
LEMMA PendingChange ==
    ASSUME Base, NEW t \in Thread, worker(t), NEW k \in Key
    PROVE  /\ Pending(t, k)' => Pending(t, k) \/ (chooseTid(t) /\ k \in wset[t])
           /\ Pending(t, k) => Pending(t, k)' \/ (storeTid(t) /\ k = First(todo[t]))
           /\ Pending(t, k) => n'[t] = n[t]
           /\ \A u \in Thread \ {t} : (Pending(u, k)' <=> Pending(u, k)) /\ n'[u] = n[u]
<1>0. /\ Types /\ Placed(t) /\ todo \in [Thread -> SUBSET Key] /\ pc \in [Thread -> Label]
  BY DEF Base, WorkersMatch, Matches, Types
<1>1. \A u \in Thread \ {t} : (Pending(u, k)' <=> Pending(u, k)) /\ n'[u] = n[u]
  <2> SUFFICES ASSUME NEW u \in Thread, u # t
               PROVE  (Pending(u, k)' <=> Pending(u, k)) /\ n'[u] = n[u]
    OBVIOUS
  <2>1. UNCHANGED Private(u)
    BY <1>0, OthersUnchanged
  <2> QED
    BY <2>1 DEF Private, Pending, Writing
<1>2. Pending(t, k) => n'[t] = n[t]
  BY WritingChange DEF Pending
<1>3. CASE storeValue(t)
  <2>1. /\ pc[t] = "write" /\ pc'[t] = "publish" /\ todo'[t] = todo[t]
    BY <1>3, StoresValue
  <2> QED
    BY <1>1, <1>2, <2>1 DEF Pending, Writing
<1>4. CASE storeTid(t)
  <2>1. /\ pc[t] = "publish" /\ pc'[t] = "write" /\ todo'[t] = todo[t] \ {First(todo[t])}
    BY <1>4, StoresTid
  <2> QED
    BY <1>1, <1>2, <1>4, <2>1 DEF Pending, Writing
<1>5. CASE chooseTid(t)
  <2>1. /\ pc[t] = "validate" /\ todo'[t] = wset[t]
    BY <1>0, <1>5 DEF chooseTid
  <2> QED
    BY <1>1, <1>5, <2>1 DEF Pending, Writing
<1>6. CASE committedTxn(t) \/ unlockCLL(t) \/ abort(t)
  <2>1. ~Pending(t, k) /\ ~Pending(t, k)'
    BY <1>0, <1>6 DEF committedTxn, unlockCLL, abort, Goto, Pending, Writing
  <2> QED
    BY <1>1, <2>1
<1>7. CASE ~Writing(t) /\ ~Writing(t)'
  BY <1>1, <1>7 DEF Pending
<1>8. CASE operateLocally(t) \/ readCheck(t)
  <2>1. Operating(t) /\ Written(t) \in SUBSET Key
    BY <1>0, <1>8, OpType DEF operateLocally, readCheck, Operating
  <2>2. Advance(t, Written(t)) \/ Goto(t, "wait")
    BY <1>8 DEF operateLocally, readCheck
  <2>3. ~Writing(t)' /\ ~Writing(t)
    BY <1>0, <1>8, <2>1, <2>2, AdvanceType DEF Goto, Writing, operateLocally, readCheck
  <2> QED
    BY <1>7, <2>3
<1>9. CASE lockHeld(t) \/ lockTake(t)
  <2>1. Return(t) /\ pc[t] = "lock"
    BY <1>9 DEF lockHeld, lockTake
  <2>2. Goto(t, "commit") \/ Goto(t, "tid") \/ (Operating(t) /\ Advance(t, Written(t)))
    BY <2>1 DEF Return, Operating
  <2>3. Operating(t) => Written(t) \in SUBSET Key
    BY <1>0, OpType
  <2>4. ~Writing(t)' /\ ~Writing(t)
    BY <1>0, <2>1, <2>2, <2>3, AdvanceType DEF Goto, Writing
  <2> QED
    BY <1>7, <2>4
<1>10. CASE NextProcedure(t) \/ begin(t) \/ operateLocking(t) \/ operateOptimistically(t)
            \/ readTid(t) \/ readWait(t) \/ readCopy(t)
  <2>1. ~Writing(t)' /\ ~Writing(t)
    BY <1>0, <1>10 DEF NextProcedure, begin, operateLocking, operateOptimistically, readTid,
       readWait, readCopy, Goto, Writing
  <2> QED
    BY <1>7, <2>1
<1>11. CASE lockRestore(t) \/ commitLock(t) \/ loadEpoch(t) \/ storeEpoch(t) \/ validateTid(t)
            \/ validateOwner(t)
  <2>1. ~Writing(t)' /\ ~Writing(t)
    BY <1>0, <1>11 DEF lockRestore, commitLock, loadEpoch, storeEpoch, validateTid,
       validateOwner, Fail, Goto, Writing
  <2> QED
    BY <1>7, <2>1
<1> QED
  BY <1>3, <1>4, <1>5, <1>6, <1>8, <1>9, <1>10, <1>11 DEF worker

\* Transactions that count go on to do so, and one that has not chosen its TID
\* does not.
LEMMA CountsStays ==
    ASSUME Base, NEW t \in Thread, worker(t), NEW v \in Txn, Counts(v)
    PROVE  Counts(v)'
<1>1. v[1] \in Thread /\ v[2] \in Nat /\ n \in [Thread -> Nat]
  BY DEF Txn, Base, Types
<1>2. CASE v[1] # t
  <2>1. n'[v[1]] = n[v[1]] /\ (Writing(v[1])' <=> Writing(v[1]))
    BY <1>1, <1>2, WritingChange
  <2> QED
    BY <2>1 DEF Counts, TxnId
<1>3. CASE v[1] = t
  <2>1. CASE v[2] <= n[t]
    <3>1. n'[t] \in Nat /\ n[t] <= n'[t] /\ n[t] \in Nat
      BY <1>1, WritingChange
    <3> QED
      BY <1>1, <1>3, <2>1, <3>1 DEF Counts
  <2>2. CASE v = TxnId(t) /\ Writing(t)
    <3>1. v[2] = n[t] + 1
      BY <2>2 DEF TxnId
    <3>2. CASE Writing(t)' /\ n'[t] = n[t]
      BY <1>3, <2>2, <3>2 DEF Counts, TxnId
    <3>3. CASE n'[t] = n[t] + 1
      BY <1>1, <1>3, <3>1, <3>3 DEF Counts
    <3> QED
      BY <2>2, <3>2, <3>3, WritingChange
  <2> QED
    BY <1>3, <2>1, <2>2 DEF Counts
<1> QED
  BY <1>2, <1>3

LEMMA NotYetCounted ==
    ASSUME Types, NEW t \in Thread, ~Writing(t)
    PROVE  ~Counts(TxnId(t))
BY TxnIdType DEF Types, Counts

\* A transaction that has yet to store a record is none of its writers.
LEMMA PendingIsFresh ==
    ASSUME Base, Identified, NEW t \in Thread, NEW k \in Key,
           Pending(t, k) \/ ~Writing(t), NEW i \in DOMAIN order[k]
    PROVE  order[k][i] # TxnId(t)
<1> SUFFICES ASSUME order[k][i] = TxnId(t) PROVE FALSE
  OBVIOUS
<1>1. Types
  BY DEF Base
<1>2. TxnId(t)[1] = t /\ TxnId(t)[2] = n[t] + 1 /\ n[t] \in Nat
  BY <1>1, TxnIdType DEF Types
<1>3. TxnId(t)[2] <= n[t] \/ (Counts(TxnId(t)) /\ ~Pending(t, k))
  BY <1>2 DEF Identified
<1> QED
  BY <1>1, <1>2, <1>3, NotYetCounted

\* What a transaction has read under a lock, when it has verified all it read,
\* is the newest.
LEMMA LockedReadIsNewest ==
    ASSUME Base, ValuesMatch, NEW t \in Thread, pc[t] = "validate", pos[t] \notin DOMAIN rset[t],
           NEW i \in DOMAIN rset[t], rset[t][i].key \in KeysOf(CLL[t])
    PROVE  rset[t][i].val = Newest(rset[t][i].key)
<1>0. /\ Types /\ Placed(t) /\ Verified(t) /\ Copies(t) /\ rset[t] \in Seq(ReadElement)
      /\ pos[t] \in Nat \ {0}
  BY DEF Base, WorkersMatch, Matches, ValuesMatch, Types
<1> DEFINE k == rset[t][i].key
<1>1. k \in Key /\ ~rset[t][i].failed
  BY <1>0, AtReadElement DEF Placed
<1>2. i < pos[t]
  BY <1>0
<1>3. rset[t][i].tid = tidword[k]
  BY <1>0, <1>2 DEF Verified
<1>4. Steady(k)
  <2> SUFFICES ASSUME NEW u \in Thread, Publishing(u, k) PROVE FALSE
    BY DEF Steady
  <2>1. u # t
    BY DEF Publishing
  <2> QED
    BY <2>1, PublishingIsPending, HasLocked
<1>5. rset[t][i].val = val[k]
  BY <1>0, <1>1, <1>3, <1>4 DEF Copies, Copied
<1> QED
  BY <1>1, <1>4, <1>5 DEF ValuesMatch, Stored

LEMMA NewestIs ==
    ASSUME Types, NEW k \in Key
    PROVE  \/ Newest(k) = NoTxn /\ order[k] = << >>
           \/ /\ Len(order[k]) \in DOMAIN order[k] /\ Newest(k) = order[k][Len(order[k])]
              /\ Installed(k, Newest(k)) /\ Newest(k) \in Txn
<1>1. order[k] \in Seq(Txn)
  BY DEF Types
<1>2. CASE order[k] = << >>
  BY <1>2 DEF Newest
<1>3. CASE order[k] # << >>
  <2>1. Len(order[k]) \in DOMAIN order[k] /\ order[k][Len(order[k])] \in Txn
    BY <1>1, <1>3
  <2> QED
    BY <1>3, <2>1 DEF Newest, Installed
<1> QED
  BY <1>2, <1>3

\* The entry of the history a transaction makes when it chooses its TID.
NewCommit(t) ==
    [id |-> TxnId(t),
     reads |-> {[key |-> rset[t][i].key, ver |-> rset[t][i].val,
                 locked |-> rset[t][i].key \in KeysOf(CLL[t])] : i \in DOMAIN rset[t]}]

LEMMA CommittedChange ==
    ASSUME NEW t \in Thread, worker(t)
    PROVE  \/ committed' = committed /\ ~chooseTid(t)
           \/ /\ chooseTid(t) /\ pc[t] = "validate" /\ pos[t] \notin DOMAIN rset[t]
              /\ committed' = committed \cup {NewCommit(t)} /\ UNCHANGED << order, n >>
<1> USE DEF history
<1>1. CASE chooseTid(t)
  BY <1>1 DEF chooseTid, NewCommit, control
<1>2. CASE storeTid(t) \/ storeValue(t) \/ unlockCLL(t) \/ committedTxn(t) \/ abort(t)
  <2>1. committed' = committed /\ pc[t] # "validate"
    BY <1>2 DEF storeTid, storeValue, unlockCLL, committedTxn, abort
  <2> QED
    BY <2>1 DEF chooseTid
<1>3. CASE validateTid(t) \/ validateOwner(t)
  <2>1. committed' = committed /\ (pc[t] = "owner" \/ pos[t] \in DOMAIN rset[t])
    BY <1>3 DEF validateTid, validateOwner
  <2> QED
    BY <2>1 DEF chooseTid
<1>4. CASE NextProcedure(t) \/ begin(t) \/ operateLocally(t) \/ operateLocking(t)
           \/ operateOptimistically(t) \/ readTid(t) \/ readWait(t) \/ readCopy(t)
           \/ readCheck(t)
  <2>1. committed' = committed /\ pc[t] # "validate"
    BY <1>4 DEF NextProcedure, begin, operateLocally, operateLocking, operateOptimistically,
       readTid, readWait, readCopy, readCheck
  <2> QED
    BY <2>1 DEF chooseTid
<1>5. CASE lockHeld(t) \/ lockTake(t) \/ lockRestore(t) \/ commitLock(t) \/ loadEpoch(t)
           \/ storeEpoch(t)
  <2>1. committed' = committed /\ pc[t] # "validate"
    BY <1>5 DEF lockHeld, lockTake, lockRestore, commitLock, loadEpoch, storeEpoch
  <2> QED
    BY <2>1 DEF chooseTid
<1> QED
  BY <1>1, <1>2, <1>3, <1>4, <1>5 DEF worker

\* The writers of a record stay, and storeTid adds one.
LEMMA OrderChange ==
    ASSUME Base, NEW t \in Thread, worker(t), NEW k \in Key
    PROVE  \/ order'[k] = order[k] /\ ~(storeTid(t) /\ k = First(todo[t]))
           \/ /\ storeTid(t) /\ k = First(todo[t])
              /\ order'[k] = Append(order[k], TxnId(t))
              /\ Pending(t, k) /\ ~Pending(t, k)' /\ n'[t] = n[t]
<1>1. order \in [Key -> Seq(Txn)]
  BY DEF Base, Types
<1>2. CASE storeTid(t)
  <2>1. PICK j \in Key :
              /\ Pending(t, j) /\ j = First(todo[t]) /\ todo'[t] = todo[t] \ {j}
              /\ order' = [order EXCEPT ![j] = Append(@, TxnId(t))]
              /\ UNCHANGED << val, n >>
    BY <1>2, StoresTid
  <2> QED
    BY <1>1, <1>2, <2>1 DEF Pending
<1>3. CASE ~storeTid(t)
  <2>1. order' = order
    BY <1>3, StoresValue, StoresNothing
  <2> QED
    BY <1>3, <2>1
<1> QED
  BY <1>2, <1>3

LEMMA InstalledStays ==
    ASSUME Base, NEW t \in Thread, worker(t), NEW k \in Key, NEW v, Installed(k, v)
    PROVE  Installed(k, v)'
<1>1. order[k] \in Seq(Txn) /\ TxnId(t) \in Txn
  BY TxnIdType DEF Base, Types
<1>2. PICK i \in DOMAIN order[k] : order[k][i] = v
  BY DEF Installed
<1>3. CASE order'[k] = order[k]
  BY <1>2, <1>3 DEF Installed
<1>4. CASE order'[k] = Append(order[k], TxnId(t))
  <2>1. i \in DOMAIN order'[k] /\ order'[k][i] = v
    <3> DEFINE s == order[k]
               r == order'[k]
    <3>1. s \in Seq(Txn) /\ r = Append(s, TxnId(t)) /\ i \in DOMAIN s /\ s[i] = v
      BY <1>1, <1>2, <1>4
    <3> HIDE DEF s, r
    <3>2. i \in DOMAIN r /\ r[i] = v
      BY <1>1, <3>1
    <3> QED
      BY <3>2 DEF s, r
  <2> QED
    BY <2>1 DEF Installed
<1> QED
  BY <1>3, <1>4, OrderChange

\* A writer of a record has counted, or is in its write phase and past the record.
WriterOf(k, v) == v[2] <= n[v[1]] \/ (Counts(v) /\ ~Pending(v[1], k))

LEMMA WriterStays ==
    ASSUME Base, NEW t \in Thread, worker(t), NEW k \in Key, NEW v \in Txn, WriterOf(k, v)
    PROVE  WriterOf(k, v)'
<1>1. Counts(v)' /\ v[1] \in Thread /\ v[2] \in Nat /\ n \in [Thread -> Nat]
  BY CountsStays DEF WriterOf, Counts, Txn, Base, Types
<1>2. CASE v[2] <= n[v[1]]
  <2>1. n'[v[1]] \in Nat /\ n[v[1]] <= n'[v[1]] /\ n[v[1]] \in Nat
    BY <1>1, WritingChange
  <2> QED
    BY <1>1, <1>2, <2>1 DEF WriterOf
<1>3. CASE ~(v[2] <= n[v[1]])
  <2>1. Writing(v[1]) /\ ~Pending(v[1], k)
    BY <1>3 DEF WriterOf, Counts
  <2>2. ~Pending(v[1], k)'
    <3>1. v[1] = t => ~chooseTid(t)
      BY <2>1 DEF chooseTid, Writing
    <3> QED
      BY <1>1, <2>1, <3>1, PendingChange
  <2> QED
    BY <1>1, <2>2 DEF WriterOf
<1> QED
  BY <1>2, <1>3

LEMMA WritersStep ==
    ASSUME Base, Identified, NEW t \in Thread, worker(t), NEW k \in Key
    PROVE  /\ \A i \in DOMAIN order'[k] : \E v \in Txn : v = order'[k][i] /\ WriterOf(k, v)'
           /\ \A i, j \in DOMAIN order'[k] : order'[k][i] = order'[k][j] => i = j
<1>0. /\ Types /\ order[k] \in Seq(Txn) /\ TxnId(t) \in Txn /\ TxnId(t)[1] = t
  BY TxnIdType DEF Base, Types
<1>1. /\ \A i \in DOMAIN order[k] : order[k][i] \in Txn /\ WriterOf(k, order[k][i])
      /\ \A i, j \in DOMAIN order[k] : order[k][i] = order[k][j] => i = j
  BY <1>0 DEF Identified, WriterOf
<1>2. \A v \in Txn : WriterOf(k, v) => WriterOf(k, v)'
  BY WriterStays
<1>3. CASE order'[k] = order[k]
  BY <1>1, <1>2, <1>3
<1>4. CASE /\ order'[k] = Append(order[k], TxnId(t))
           /\ Pending(t, k) /\ ~Pending(t, k)' /\ n'[t] = n[t]
  <2>1. \A i \in DOMAIN order[k] : order[k][i] # TxnId(t)
    BY <1>4, PendingIsFresh
  <2>2. PICK v \in Txn : v = TxnId(t)
    BY <1>0
  <2>3. WriterOf(k, v)'
    <3>1. Counts(v)
      BY <1>0, <1>4, <2>2 DEF Counts, Pending
    <3>2. Counts(v)'
      BY <3>1, CountsStays
    <3>3. v[1] = t
      BY <1>0, <2>2
    <3> QED
      BY <1>4, <3>2, <3>3 DEF WriterOf
  <2> DEFINE s == order[k]
             r == order'[k]
  <2>4. s \in Seq(Txn) /\ r = Append(s, v)
    BY <1>0, <1>4, <2>2
  <2>5. /\ DOMAIN s = 1 .. Len(s) /\ DOMAIN r = 1 .. Len(s) + 1 /\ Len(s) \in Nat
        /\ r[Len(s) + 1] = v /\ \A i \in 1 .. Len(s) : r[i] = s[i] /\ s[i] \in Txn
    <3> HIDE DEF s, r
    <3> QED
      BY <2>4
  <2>6. \A i \in DOMAIN r : i \in DOMAIN s \/ i = Len(s) + 1
    <3> HIDE DEF s, r
    <3> QED
      BY <2>5
  <2>7. \A i, j \in DOMAIN r : r[i] = r[j] => i = j
    <3>1. \A i, j \in DOMAIN s : s[i] = s[j] => i = j
      BY <1>1
    <3>2. \A i \in DOMAIN s : s[i] # v
      BY <2>1, <2>2
    <3> HIDE DEF s, r
    <3> QED
      BY <2>5, <2>6, <3>1, <3>2
  <2>8. ASSUME NEW i \in DOMAIN r
        PROVE  \E w \in Txn : w = r[i] /\ WriterOf(k, w)'
    <3>1. CASE i \in DOMAIN s
      <4>1. r[i] = s[i] /\ s[i] \in Txn
        <5> HIDE DEF s, r
        <5> QED
          BY <2>5, <3>1
      <4>2. WriterOf(k, s[i])
        BY <1>1, <3>1
      <4>3. PICK w \in Txn : w = s[i]
        BY <4>1
      <4>4. WriterOf(k, w)'
        BY <1>2, <4>2, <4>3
      <4> QED
        BY <4>1, <4>3, <4>4
    <3>2. CASE i = Len(s) + 1
      <4>1. v = r[i]
        <5> HIDE DEF s, r
        <5> QED
          BY <2>5, <3>2
      <4> QED
        BY <2>3, <4>1
    <3> QED
      BY <2>6, <3>1, <3>2
  <2> QED
    BY <2>7, <2>8
<1> QED
  BY <1>3, <1>4, OrderChange

LEMMA NewCommitIdentified ==
    ASSUME Base, ValuesMatch, NEW t \in Thread, worker(t), chooseTid(t),
           pc[t] = "validate", pos[t] \notin DOMAIN rset[t]
    PROVE  /\ NewCommit(t).id = TxnId(t) /\ NewCommit(t) \in Commitment
           /\ \A r \in NewCommit(t).reads :
                 /\ r.key \in Key
                 /\ r.locked => /\ r.ver = Newest(r.key) /\ r.key \in KeysOf(CLL[t])
                                /\ r.ver = NoTxn \/ Installed(r.key, r.ver)
<1>0. Types /\ TxnId(t) \in Txn
  BY TxnIdType DEF Base
<1> DEFINE R(i) == [key |-> rset[t][i].key, ver |-> rset[t][i].val,
                    locked |-> rset[t][i].key \in KeysOf(CLL[t])]
<1>1. NewCommit(t) = [id |-> TxnId(t), reads |-> {R(i) : i \in DOMAIN rset[t]}]
  BY DEF NewCommit
<1>2. ASSUME NEW i \in DOMAIN rset[t]
      PROVE  /\ R(i) \in CommittedRead
             /\ R(i).locked => /\ R(i).ver = Newest(R(i).key) /\ R(i).key \in KeysOf(CLL[t])
                               /\ R(i).ver = NoTxn \/ Installed(R(i).key, R(i).ver)
  <2>1. rset[t][i].key \in Key /\ rset[t][i].val \in Version
    BY <1>0, AtReadElement
  <2>2. (rset[t][i].key \in KeysOf(CLL[t])) \in BOOLEAN
    OBVIOUS
  <2>3. R(i) \in CommittedRead
    BY <2>1, <2>2 DEF CommittedRead
  <2>4. /\ R(i).key = rset[t][i].key /\ R(i).ver = rset[t][i].val
        /\ R(i).locked = (rset[t][i].key \in KeysOf(CLL[t]))
    OBVIOUS
  <2>5. rset[t][i].key \in KeysOf(CLL[t]) =>
            /\ rset[t][i].val = Newest(rset[t][i].key)
            /\ rset[t][i].val = NoTxn \/ Installed(rset[t][i].key, rset[t][i].val)
    BY <1>0, <2>1, LockedReadIsNewest, NewestIs
  <2> QED
    BY <2>3, <2>4, <2>5
<1>3. \A r \in {R(i) : i \in DOMAIN rset[t]} : r \in CommittedRead /\ r.key \in Key
  BY <1>2 DEF CommittedRead
<1>4. NewCommit(t) \in Commitment
  <2>1. {R(i) : i \in DOMAIN rset[t]} \in SUBSET CommittedRead
    BY <1>3
  <2> HIDE DEF R
  <2> QED
    BY <1>0, <1>1, <2>1 DEF Commitment
<1>5. NewCommit(t).id = TxnId(t) /\ NewCommit(t).reads = {R(i) : i \in DOMAIN rset[t]}
  BY <1>1
<1> QED
  BY <1>2, <1>3, <1>4, <1>5

LEMMA IdentifiedStep ==
    ASSUME Base, Base', ValuesMatch, Identified, [Next]_vars
    PROVE  Identified'
<1>0. Types /\ committed \subseteq Commitment
  BY DEF Base, Types
<1>1. ASSUME NEW t \in Thread, worker(t)
      PROVE  Identified'
  <2>1. ASSUME NEW a \in committed
        PROVE  /\ Counts(a.id)'
               /\ \A r \in a.reads : r.locked => r.ver = NoTxn \/ Installed(r.key, r.ver)'
    <3>1. a.id \in Txn /\ \A r \in a.reads : r.key \in Key
      BY <1>0, <2>1 DEF Commitment, CommittedRead
    <3>2. /\ Counts(a.id)
          /\ \A r \in a.reads : r.locked => r.ver = NoTxn \/ Installed(r.key, r.ver)
      BY <2>1 DEF Identified
    <3> QED
      BY <1>1, <3>1, <3>2, CountsStays, InstalledStays
  <2>2. ASSUME chooseTid(t), pc[t] = "validate", pos[t] \notin DOMAIN rset[t],
               UNCHANGED << order, n >>, NEW a, a = NewCommit(t)
        PROVE  /\ Counts(a.id)'
               /\ \A r \in a.reads : r.locked => r.ver = NoTxn \/ Installed(r.key, r.ver)'
    <3>1. /\ a.id = TxnId(t)
          /\ \A r \in a.reads :
                /\ r.key \in Key
                /\ r.locked => r.ver = NoTxn \/ Installed(r.key, r.ver)
      BY <1>1, <2>2, NewCommitIdentified
    <3>2. TxnId(t)' = TxnId(t) /\ TxnId(t)[1] = t
      BY <2>2 DEF TxnId
    <3>3. Writing(t)'
      <4>1. pc \in [Thread -> Label]
        BY <1>0 DEF Types
      <4> QED
        BY <2>2, <4>1 DEF chooseTid, Goto, Writing
    <3>4. Counts(a.id)'
      BY <3>1, <3>2, <3>3 DEF Counts
    <3> QED
      BY <1>1, <3>1, <3>4, InstalledStays
  <2>3. \A a \in committed' :
            /\ Counts(a.id)'
            /\ \A r \in a.reads : r.locked => r.ver = NoTxn \/ Installed(r.key, r.ver)'
    BY <1>1, <2>1, <2>2, CommittedChange
  <2>4. ASSUME NEW k \in Key
        PROVE  /\ \A i \in DOMAIN order'[k] :
                     \E v \in Txn : v = order'[k][i] /\ WriterOf(k, v)'
               /\ \A i, j \in DOMAIN order'[k] : order'[k][i] = order'[k][j] => i = j
    BY <1>1, WritersStep
  <2>5. ASSUME NEW k \in Key, NEW i \in DOMAIN order'[k]
        PROVE  (LET v == order[k][i] IN v[2] <= n[v[1]] \/ (Counts(v) /\ ~Pending(v[1], k)))'
    <3>1. PICK v \in Txn : v = order'[k][i] /\ WriterOf(k, v)'
      BY <2>4
    <3> QED
      BY <3>1 DEF WriterOf, Counts, Pending, TxnId, Writing
  <2> QED
    BY <2>3, <2>4, <2>5 DEF Identified
<1>2. CASE Quit \/ leaderWork \/ Joined \/ UNCHANGED vars
  <2>1. UNCHANGED << committed, order, pc, todo, n >>
    BY <1>2, NoWorker DEF history
  <2> QED
    BY <2>1 DEF Identified, Counts, Pending, Installed, TxnId, Writing
<1> QED
  BY <1>1, <1>2 DEF Next

LEMMA IdentifiedInit == Init => Identified
<1> SUFFICES ASSUME Init PROVE Identified
  OBVIOUS
<1>1. committed = {} /\ \A k \in Key : order[k] = << >>
  BY DEF Init
<1> QED
  BY <1>1 DEF Identified

-----------------------------------------------------------------------------
(* The serial order *)

\* The writers of a record once the write phases begun are over.
LEMMA DecidedIs ==
    ASSUME Base, NEW k \in Key
    PROVE  /\ DOMAIN Decided = Key
           /\ \A t \in Thread : Pending(t, k) => Decided[k] = Append(order[k], TxnId(t))
           /\ (\A t \in Thread : ~Pending(t, k)) => Decided[k] = order[k]
<1>1. DOMAIN Decided = Key
  BY DEF Decided
<1>2. ASSUME NEW t \in Thread, Pending(t, k)
      PROVE  Decided[k] = Append(order[k], TxnId(t))
  <2>1. \A u \in Thread : Pending(u, k) => u = t
    BY <1>2, HasLocked
  <2>2. (CHOOSE u \in Thread : Pending(u, k)) = t
    BY <1>2, <2>1
  <2> QED
    BY <1>2, <2>2 DEF Decided
<1>3. ASSUME \A t \in Thread : ~Pending(t, k)
      PROVE  Decided[k] = order[k]
  BY <1>3 DEF Decided
<1> QED
  BY <1>1, <1>2, <1>3

\* It changes only when a transaction chooses its TID, for the records it writes.
LEMMA DecidedChange ==
    ASSUME Base, Base', NEW t \in Thread, worker(t), NEW k \in Key
    PROVE  \/ Decided'[k] = Decided[k] /\ ~(chooseTid(t) /\ k \in wset[t])
           \/ /\ chooseTid(t) /\ k \in wset[t]
              /\ Decided[k] = order[k] /\ Decided'[k] = Append(order[k], TxnId(t))
<1>0. /\ Types /\ Placed(t) /\ pc \in [Thread -> Label] /\ todo \in [Thread -> SUBSET Key]
  BY DEF Base, WorkersMatch, Matches, Types
<1>p. ASSUME NEW u \in Thread, Pending(u, k)'
      PROVE  Past(u, k) \/ Pending(u, k)
  <2>1. pc[t] = "validate" => todo[t] = {}
    BY <1>0 DEF Placed
  <2>2. chooseTid(t) => pc[t] = "validate"
    BY DEF chooseTid
  <2>3. Pending(u, k) \/ (u = t /\ chooseTid(t) /\ k \in wset[t])
    BY <1>p, PendingChange
  <2> QED
    BY <2>1, <2>2, <2>3 DEF Past, Committing
<1>1. /\ \A u \in Thread : Pending(u, k)' => Decided'[k] = Append(order'[k], TxnId(u)')
      /\ (\A u \in Thread : ~Pending(u, k)') => Decided'[k] = order'[k]
  <2>1. ASSUME NEW u \in Thread, Pending(u, k)'
        PROVE  Decided'[k] = Append(order'[k], TxnId(u)')
    <3>1. \A v \in Thread : Pending(v, k)' => v = u
      BY <1>p, <2>1, HasLocked
    <3>2. (CHOOSE v \in Thread : Pending(v, k)') = u
      BY <2>1, <3>1
    <3>3. Decided'[k] = Append(order'[k], TxnId(CHOOSE v \in Thread : Pending(v, k))')
      BY <2>1 DEF Decided
    <3> QED
      BY <3>2, <3>3 DEF TxnId
  <2>2. ASSUME \A u \in Thread : ~Pending(u, k)'
        PROVE  Decided'[k] = order'[k]
    BY <2>2 DEF Decided
  <2> QED
    BY <2>1, <2>2
<1>2. CASE chooseTid(t) /\ k \in wset[t]
  <2>1. /\ pc[t] = "validate" /\ pc'[t] = "write" /\ todo'[t] = wset[t]
        /\ UNCHANGED << order, n >>
    BY <1>0, <1>2 DEF chooseTid, Goto, control
  <2>2. Past(t, k)
    BY <1>0, <1>2, <2>1 DEF Past, Committing, Placed
  <2>3. \A u \in Thread : ~Pending(u, k)
    BY <2>1, <2>2, HasLocked DEF Pending, Writing
  <2>4. Pending(t, k)' /\ TxnId(t)' = TxnId(t)
    BY <1>2, <2>1 DEF Pending, Writing, TxnId
  <2> QED
    BY <1>1, <1>2, <2>1, <2>3, <2>4, DecidedIs
<1>3. CASE storeTid(t) /\ k = First(todo[t])
  <2>1. /\ order'[k] = Append(order[k], TxnId(t)) /\ Pending(t, k) /\ ~Pending(t, k)'
    BY <1>3, OrderChange
  <2>2. \A u \in Thread : ~Pending(u, k)'
    BY <2>1, HasLocked, PendingChange
  <2>3. ~chooseTid(t)
    BY <1>3 DEF storeTid, chooseTid
  <2> QED
    BY <1>1, <2>1, <2>2, <2>3, DecidedIs
<1>4. CASE ~(chooseTid(t) /\ k \in wset[t]) /\ ~(storeTid(t) /\ k = First(todo[t]))
  <2>1. order'[k] = order[k]
    BY <1>4, OrderChange
  <2>2. \A u \in Thread : /\ Pending(u, k)' <=> Pending(u, k)
                          /\ Pending(u, k) => TxnId(u)' = TxnId(u)
    BY <1>4, PendingChange DEF TxnId
  <2>3. CASE \E u \in Thread : Pending(u, k)
    BY <1>1, <1>4, <2>1, <2>2, <2>3, DecidedIs
  <2>4. CASE \A u \in Thread : ~Pending(u, k)
    BY <1>1, <1>4, <2>1, <2>2, <2>4, DecidedIs
  <2> QED
    BY <2>3, <2>4
<1> QED
  BY <1>2, <1>3, <1>4

LEMMA LockedReadsIs ==
    ASSUME NEW c \in Commitment
    PROVE  LockedReads(c).id = c.id /\ LockedReads(c).reads = {r \in c.reads : r.locked}
BY DEF LockedReads, Commitment

LEMMA LockedCommitIs ==
    ASSUME Types, Identified, NEW a \in LockedCommits
    PROVE  /\ a.id \in Txn /\ Counts(a.id)
           /\ \A r \in a.reads : r.key \in Key /\ (r.ver = NoTxn \/ Installed(r.key, r.ver))
<1>1. PICK c \in committed : a = LockedReads(c)
  BY DEF LockedCommits
<1>2. c \in Commitment
  BY DEF Types
<1>3. a.id = c.id /\ a.reads = {r \in c.reads : r.locked}
  BY <1>1, <1>2, LockedReadsIs
<1>4. c.id \in Txn /\ \A r \in c.reads : r.key \in Key
  BY <1>2 DEF Commitment, CommittedRead
<1> QED
  BY <1>3, <1>4 DEF Identified

\* The places of the writers there are do not depend on what is pending.
LEMMA PlaceDecided ==
    ASSUME Base, Identified, NEW k \in Key
    PROVE  \A w : /\ Place(order[k], w) \in Nat /\ Place(order[k], w) <= Len(order[k])
                  /\ \/ Place(Decided[k], w) = Place(order[k], w)
                     \/ \E t \in Thread : Pending(t, k) /\ w = TxnId(t)
<1>0. /\ order[k] \in Seq(Txn) /\ \A t \in Thread : TxnId(t) \in Txn
      /\ \A i, j \in DOMAIN order[k] : order[k][i] = order[k][j] => i = j
  BY TxnIdType DEF Base, Types, Identified
<1>1. CASE \E t \in Thread : Pending(t, k)
  <2>1. PICK t \in Thread : Pending(t, k)
    BY <1>1
  <2>2. Decided[k] = Append(order[k], TxnId(t))
    BY <2>1, DecidedIs
  <2>3. \A i \in DOMAIN order[k] : order[k][i] # TxnId(t)
    BY <2>1, PendingIsFresh
  <2> QED
    BY <1>0, <2>1, <2>2, <2>3, PlaceAppended
<1>2. CASE \A t \in Thread : ~Pending(t, k)
  <2>1. Decided[k] = order[k]
    BY <1>2, DecidedIs
  <2>2. ASSUME NEW w
        PROVE  Place(order[k], w) \in Nat /\ Place(order[k], w) <= Len(order[k])
    <3>1. /\ Place(order[k], w) \in Nat
          /\ Place(order[k], w) > 0 => Place(order[k], w) \in DOMAIN order[k]
      BY <1>0, PlaceFound
    <3> QED
      BY <1>0, <3>1
  <2> QED
    BY <2>1, <2>2
<1> QED
  BY <1>1, <1>2

\* Who chooses its TID comes after all that committed before: it overwrites what
\* it writes, and what it has read, and keeps locked, is the newest.
LEMMA ChoosesLast ==
    ASSUME Base, Base', ValuesMatch, Identified, Serial, NEW t \in Thread, worker(t),
           chooseTid(t), pc[t] = "validate", pos[t] \notin DOMAIN rset[t],
           committed' = committed \cup {NewCommit(t)}, UNCHANGED << order, n >>
    PROVE  Serial'
<1> DEFINE v == TxnId(t)
           c == LockedReads(NewCommit(t))
<1>0. /\ Types /\ v \in Txn /\ v # NoTxn /\ order \in [Key -> Seq(Txn)] /\ ~Writing(t)
  BY TxnIdType DEF Base, Types, Writing
<1>1. LockedCommits' = LockedCommits \cup {c}
  BY DEF LockedCommits
<1>2. /\ c.id = v
      /\ \A r \in c.reads : r.key \in Key /\ r.key \in KeysOf(CLL[t]) /\ r.ver = Newest(r.key)
  BY NewCommitIdentified, LockedReadsIs
<1>3. \A k \in Key : \A i \in DOMAIN order[k] : order[k][i] # v
  BY <1>0, PendingIsFresh
<1>4. \A a \in LockedCommits :
          /\ a.id \in Txn /\ a.id # v
          /\ \A r \in a.reads : r.key \in Key /\ r.ver # v
  BY <1>0, <1>3, LockedCommitIs, NotYetCounted DEF Installed
\* The new writer follows the others, which keep their places.
<1>5. ASSUME NEW k \in Key
      PROVE  /\ \A w : w # v => Place(Decided'[k], w) = Place(Decided[k], w)
             /\ \A w : ~(0 < Place(Decided'[k], v) /\ Place(Decided'[k], v) < Place(Decided'[k], w))
  <2>0. /\ order[k] \in Seq(Txn)
        /\ \A i, j \in DOMAIN order[k] : order[k][i] = order[k][j] => i = j
    BY <1>0 DEF Identified
  <2>1. CASE Decided[k] = order[k] /\ Decided'[k] = Append(order[k], v)
    <3>1. /\ Place(Append(order[k], v), v) = Len(order[k]) + 1
          /\ \A w : /\ Place(order[k], w) \in Nat /\ Place(order[k], w) <= Len(order[k])
                    /\ w # v => Place(Append(order[k], v), w) = Place(order[k], w)
      <4> HIDE DEF v
      <4> QED
        BY <1>0, <1>3, <2>0, PlaceAppended
    <3>2. \A w : ~(Len(order[k]) + 1 < Place(Decided'[k], w))
      <4> SUFFICES ASSUME NEW w PROVE ~(Len(order[k]) + 1 < Place(Decided'[k], w))
        OBVIOUS
      <4>1. CASE w = v
        BY <2>0, <2>1, <3>1, <4>1
      <4>2. CASE w # v
        BY <2>0, <2>1, <3>1, <4>2
      <4> QED
        BY <4>1, <4>2
    <3> QED
      BY <2>1, <3>1, <3>2
  <2>2. CASE Decided'[k] = Decided[k]
    <3>1. Place(Decided[k], v) = 0
      <4>1. \A u \in Thread : Pending(u, k) => v # TxnId(u)
        BY <1>0 DEF TxnId, Pending
      <4>2. Place(Decided[k], v) = Place(order[k], v)
        BY <4>1, PlaceDecided
      <4>3. /\ Place(order[k], v) \in Nat
            /\ Place(order[k], v) > 0 =>
                  Place(order[k], v) \in DOMAIN order[k] /\ order[k][Place(order[k], v)] = v
        BY <2>0, PlaceFound
      <4> QED
        BY <1>3, <4>2, <4>3
    <3> QED
      BY <2>2, <3>1
  <2> QED
    BY <2>1, <2>2, DecidedChange
\* What it has read has no later writer.
<1>6. ASSUME NEW r \in c.reads, NEW w, w # v
      PROVE  ~(Place(Decided'[r.key], r.ver) < Place(Decided'[r.key], w))
  <2> DEFINE k == r.key
  <2>1. k \in Key /\ k \in KeysOf(CLL[t]) /\ r.ver = Newest(k)
    BY <1>2
  <2>2. Decided[k] = order[k]
    <3>1. \A u \in Thread : ~Pending(u, k)
      BY <1>0, <2>1, HasLocked DEF Pending
    <3> QED
      BY <2>1, <3>1, DecidedIs
  <2>3. /\ order[k] \in Seq(Txn)
        /\ \A i, j \in DOMAIN order[k] : order[k][i] = order[k][j] => i = j
    BY <1>0, <2>1 DEF Identified
  <2>4. r.ver # v /\ Place(order[k], r.ver) = Len(order[k])
    <3>1. CASE Newest(k) = NoTxn /\ order[k] = << >>
      <4>1. Place(order[k], r.ver) = 0
        BY <3>1 DEF Place
      <4> QED
        BY <1>0, <2>1, <3>1, <4>1
    <3>2. CASE /\ Len(order[k]) \in DOMAIN order[k] /\ Newest(k) = order[k][Len(order[k])]
      <4>1. Place(order[k], order[k][Len(order[k])]) = Len(order[k])
        BY <2>3, <3>2, PlaceIs
      <4> QED
        BY <1>3, <2>1, <3>2, <4>1
    <3> QED
      BY <1>0, <2>1, <3>1, <3>2, NewestIs
  <2>5. Place(order[k], w) <= Len(order[k]) /\ Place(order[k], w) \in Nat
    BY <2>1, PlaceDecided
  <2>6. Place(Decided'[k], w) = Place(order[k], w) /\ Place(Decided'[k], r.ver) = Len(order[k])
    BY <1>5, <1>6, <2>1, <2>2, <2>4
  <2>7. Len(order[k]) \in Nat
    BY <2>3
  <2> QED
    BY <2>5, <2>6, <2>7
<1>7. DOMAIN Decided = Key /\ DOMAIN Decided' = Key
  BY DEF Decided
<1> HIDE DEF v, c
<1>8. ASSUME NEW a \in LockedCommits, NEW b \in LockedCommits, MustPrecede(Decided', a, b)
      PROVE  MustPrecede(Decided, a, b)
  BY <1>4, <1>5, <1>7, <1>8 DEF MustPrecede, Overwrites, AntiDepends
<1>9. ASSUME NEW a \in LockedCommits
      PROVE  ~MustPrecede(Decided', c, a)
  <2>1. a.id # v /\ \A r \in a.reads : r.ver # v
    BY <1>4
  <2>2. ~ReadsFrom(c, a)
    BY <1>2, <2>1 DEF ReadsFrom
  <2>3. ~Overwrites(Decided', c, a)
    <3>1. \A k \in Key : ~(Place(Decided'[k], v) > 0 /\ Place(Decided'[k], v) < Place(Decided'[k], a.id))
      BY <1>5
    <3> QED
      BY <1>2, <1>7, <3>1 DEF Overwrites
  <2>4. ~AntiDepends(Decided', c, a)
    BY <1>6, <2>1 DEF AntiDepends
  <2> QED
    BY <2>2, <2>3, <2>4 DEF MustPrecede
<1>10. Serializable(LockedCommits \cup {c}, Decided')
  BY <1>8, <1>9, LastSerializable DEF Serial
<1> QED
  BY <1>1, <1>10 DEF Serial

LEMMA SerialStep ==
    ASSUME Base, Base', ValuesMatch, Identified, Serial, [Next]_vars
    PROVE  Serial'
<1>1. ASSUME committed' = committed, Decided' = Decided
      PROVE  Serial'
  <2>1. LockedCommits' = LockedCommits
    BY <1>1 DEF LockedCommits
  <2> QED
    BY <1>1, <2>1 DEF Serial
<1>2. ASSUME NEW t \in Thread, worker(t)
      PROVE  Serial'
  <2>1. CASE ~chooseTid(t)
    <3>1. committed' = committed
      BY <1>2, <2>1, CommittedChange
    <3>2. \A k \in Key : Decided'[k] = Decided[k]
      BY <1>2, <2>1, DecidedChange
    <3>3. Decided' = Decided
      BY <3>2 DEF Decided
    <3> QED
      BY <1>1, <3>1, <3>3
  <2>2. CASE chooseTid(t)
    BY <1>2, <2>2, CommittedChange, ChoosesLast
  <2> QED
    BY <2>1, <2>2
<1>3. CASE Quit \/ leaderWork \/ Joined \/ UNCHANGED vars
  <2>1. UNCHANGED << committed, order, pc, todo, n >>
    BY <1>3, NoWorker DEF history
  <2>2. Decided' = Decided
    BY <2>1 DEF Decided, Pending, Writing, TxnId
  <2> QED
    BY <1>1, <2>1, <2>2
<1> QED
  BY <1>2, <1>3 DEF Next

LEMMA SerialInit == Init => Serial
<1> SUFFICES ASSUME Init PROVE Serial
  OBVIOUS
<1>1. LockedCommits = {}
  BY DEF Init, LockedCommits
<1> QED
  BY <1>1 DEF Serial, Serializable

LEMMA SerialInvariant == Spec /\ []TidsFit => []SerialInd
<1>1. Init => SerialInd
  BY ValuesInit, IdentifiedInit, SerialInit DEF SerialInd
<1>2. ASSUME Base, Base', TidsFit, SerialInd, [Next]_vars
      PROVE  SerialInd'
  BY <1>2, ValuesStep, IdentifiedStep, SerialStep DEF SerialInd
<1> QED
  BY <1>1, <1>2, BaseInvariant, PTL DEF Spec

\* The reads of record locks and the writes are serializable: the equivalent
\* order is the one in which transactions choose their TIDs, although the locks
\* were taken in the middle of an attempt, dropped for the canonical order and
\* taken again.  TIDs must not wrap: a record whose word comes back to what it was
\* would pass the verification.
THEOREM LockedReadsAreSerializable == Spec /\ []TidsFit => []LockedReadsSerializable
<1>1. ASSUME Base, SerialInd
      PROVE  LockedReadsSerializable
  <2>0. Types /\ Identified /\ Serial /\ order \in [Key -> Seq(Txn)]
    BY <1>1 DEF Base, SerialInd, Types
  <2>1. LockedCommits = {[c EXCEPT !.reads = {r \in @ : r.locked}] : c \in committed}
    BY DEF LockedCommits, LockedReads
  <2>2. DOMAIN Decided = Key /\ DOMAIN order = Key
    BY <2>0 DEF Decided
  \* What has a place already has it for good, and the loaded version has none.
  <2>3. ASSUME NEW k \in Key, NEW w, w = NoTxn \/ Place(order[k], w) > 0
        PROVE  Place(Decided[k], w) = Place(order[k], w)
    <3> SUFFICES ASSUME NEW t \in Thread, Pending(t, k), w = TxnId(t)
                 PROVE  FALSE
      BY <1>1, <2>0, PlaceDecided
    <3>1. w # NoTxn /\ \A i \in DOMAIN order[k] : order[k][i] # w
      BY <1>1, <2>0, TxnIdType, PendingIsFresh
    <3> QED
      BY <2>0, <2>3, <3>1, PlaceFound
  <2>4. ASSUME NEW k \in Key, NEW x, NEW y, Place(order[k], x) < Place(order[k], y),
               x = NoTxn \/ Place(order[k], x) > 0
        PROVE  Place(Decided[k], x) < Place(Decided[k], y)
    <3>1. Place(order[k], x) \in Nat /\ Place(order[k], y) \in Nat
      BY <1>1, <2>0, PlaceDecided
    <3>2. Place(order[k], y) > 0
      BY <2>4, <3>1
    <3> QED
      BY <2>3, <2>4, <3>2
  <2>5. \A a \in LockedCommits : \A r \in a.reads :
            r.key \in Key /\ (r.ver = NoTxn \/ Place(order[r.key], r.ver) > 0)
    <3> SUFFICES ASSUME NEW a \in LockedCommits, NEW r \in a.reads
                 PROVE  r.key \in Key /\ (r.ver = NoTxn \/ Place(order[r.key], r.ver) > 0)
      OBVIOUS
    <3>1. r.key \in Key /\ (r.ver = NoTxn \/ Installed(r.key, r.ver))
      BY <2>0, LockedCommitIs
    <3> QED
      BY <2>0, <3>1, PlaceFound DEF Installed
  <2>6. ASSUME NEW a \in LockedCommits, NEW b \in LockedCommits, MustPrecede(order, a, b)
        PROVE  MustPrecede(Decided, a, b)
    <3>1. CASE ReadsFrom(a, b)
      BY <2>6, <3>1 DEF MustPrecede
    <3>2. CASE Overwrites(order, a, b)
      <4>1. PICK k \in Key : Place(order[k], a.id) > 0
                             /\ Place(order[k], a.id) < Place(order[k], b.id)
        BY <2>2, <3>2 DEF Overwrites
      <4>2. Place(Decided[k], a.id) > 0 /\ Place(Decided[k], a.id) < Place(Decided[k], b.id)
        BY <2>3, <2>4, <4>1
      <4> QED
        BY <2>2, <2>6, <4>2 DEF MustPrecede, Overwrites
    <3>3. CASE AntiDepends(order, a, b)
      <4>1. PICK r \in a.reads : Place(order[r.key], r.ver) < Place(order[r.key], b.id)
        BY <3>3 DEF AntiDepends
      <4>2. Place(Decided[r.key], r.ver) < Place(Decided[r.key], b.id)
        BY <2>4, <2>5, <4>1
      <4> QED
        BY <2>6, <4>2 DEF MustPrecede, AntiDepends
    <3> QED
      BY <2>6, <3>1, <3>2, <3>3 DEF MustPrecede
  <2>7. Serializable(LockedCommits, order)
    BY <2>0, <2>6, StaysSerializable DEF Serial
  <2> QED
    BY <2>1, <2>7 DEF LockedReadsSerializable
<1> QED
  BY <1>1, BaseInvariant, SerialInvariant, PTL
=============================================================================
