----------------------------- MODULE SiloProofs -----------------------------
(***************************************************************************)
(* Theorems about Silo for every set of workers, keys, procedures and      *)
(* value words, every width of the tid field and every locking policy: its *)
(* locks, its epochs, its log, and, as long as no commit TID wraps, that   *)
(* it is serializable and that TIDs and epochs agree with the serial order.*)
(*                                                                         *)
(* The serial order is that of the moments at which transactions load the  *)
(* global epoch, with their write sets locked and nothing validated yet.   *)
(* No variable records it: the inductive invariant says that there is a    *)
(* ranking of the transactions that agrees with all that was read and      *)
(* installed, and each transaction that loads the epoch is ranked last.    *)
(***************************************************************************)
EXTENDS Silo, CommonProofs, TLAPS

\* The arithmetic of commit TIDs stays within the width of the tid field,
\* because the increment of the bit field wraps.
LEMMA IncTidType ==
    ASSUME NEW a \in Tid
    PROVE  IncTid(a) \in Tid
<1>1. (a.tid + 1) % TidSpan \in 0 .. TidSpan - 1
  BY SiloAssumption DEF Tid
<1> QED
  BY <1>1 DEF IncTid, Tid

LEMMA MaxTidType ==
    ASSUME NEW a \in Tid, NEW b \in Tid
    PROVE  MaxTid(a, b) \in Tid
BY DEF MaxTid

LEMMA TidOfType ==
    ASSUME Types, NEW k \in Key
    PROVE  TidOf(tidword[k]) \in Tid
BY DEF Types, TidOf, Tid

LEMMA CommitTidType ==
    ASSUME Types, NEW t \in Thread
    PROVE  commitTid(t) \in Tid
<1>1. [epoch |-> ThLocalEpoch[t], tid |-> 0] \in Tid
  BY SiloAssumption DEF Types, Tid
<1>2. IncTid(maxset[t]) \in Tid /\ IncTid(mrctid[t]) \in Tid
  BY IncTidType DEF Types
<1> QED
  BY <1>1, <1>2, MaxTidType DEF commitTid

LEMMA TxnIdType ==
    ASSUME Types, NEW t \in Thread
    PROVE  TxnId(t) \in Txn
BY DEF Types, TxnId, Txn

LEMMA OpKeyType ==
    ASSUME TypeOK, NEW t \in Thread, pc[t] \in {"exec", "copy"}
    PROVE  /\ OpKey(t) \in Key
           /\ pos[t] \in 1 .. Len(pro[t])
           /\ pro[t] \in Seq(Operation)
<1>1. pro[t] \in Seq(Operation) /\ pos[t] \in 1 .. Len(pro[t])
  BY DEF TypeOK, Types, Running
<1>2. pro[t][pos[t]] \in Operation
  BY <1>1
<1> QED
  BY <1>1, <1>2 DEF OpKey, Operation

\* Moving to the next operation keeps the program counters well formed.
LEMMA AdvanceType ==
    ASSUME TypeOK, NEW t \in Thread, pc[t] \in {"exec", "copy"}, Advance(t),
           UNCHANGED pro
    PROVE  pc' \in [Thread -> Label] /\ pos' \in [Thread -> Nat] /\ Running'
<1>1. pos[t] \in 1 .. Len(pro[t]) /\ pro[t] \in Seq(Operation) /\ Len(pro[t]) \in Nat
  BY OpKeyType
<1>2. pc \in [Thread -> Label] /\ pos \in [Thread -> Nat]
  BY DEF TypeOK, Types
<1>3. CASE pos[t] < Len(pro[t])
  BY <1>1, <1>2, <1>3 DEF Advance, Goto, TypeOK, Running, Label
<1>4. CASE ~(pos[t] < Len(pro[t]))
  BY <1>1, <1>2, <1>4 DEF Advance, Goto, TypeOK, Running, Label
<1> QED
  BY <1>3, <1>4

\* A worker that leaves for another label without moving in its procedure
\* keeps every index in bounds, if there is a procedure where one is needed.
LEMMA RunningStep ==
    ASSUME Types, Running, NEW t \in Thread, NEW l \in Label,
           pc' = [pc EXCEPT ![t] = l],
           \A u \in Thread \ {t} : pos'[u] = pos[u] /\ pro'[u] = pro[u],
           l \notin {"idle", "done"} => 0 < Len(pro'[t]),
           l \in {"exec", "copy"} => pos'[t] \in 1 .. Len(pro'[t])
    PROVE  Running'
BY DEF Types, Running

\* Type correctness: every step keeps every variable in its type.
THEOREM TypeCorrect == Spec => []TypeOK
<1>1. Init => TypeOK
  <2> SUFFICES ASSUME Init PROVE TypeOK
    OBVIOUS
  <2>1. 0 \in 0 .. TidSpan - 1
    BY SiloAssumption
  <2>2. Types
    <3>1. ZeroTid \in Tid /\ NoTxn \in Txn /\ "idle" \in Label
      BY <2>1 DEF ZeroTid, Tid, Txn, Label
    <3>2. tidword \in [Key -> [epoch : Nat, tid : 0 .. TidSpan - 1, lock : BOOLEAN]]
      BY <2>1 DEF Init
    <3>3. /\ pro \in [Thread -> Seq(Operation)]
          /\ rset \in [Thread -> Seq(ReadElement)]
          /\ order \in [Key -> Seq(Txn)]
      BY DEF Init
    <3>4. /\ val \in [Key -> [Word -> Txn]]
          /\ buf \in [Thread -> [Word -> Txn]]
      BY <3>1 DEF Init
    <3>5. /\ maxset \in [Thread -> Tid] /\ mrctid \in [Thread -> Tid]
          /\ expected \in [Thread -> Tid]
          /\ pc \in [Thread -> Label]
      BY <3>1 DEF Init
    <3> QED
      BY <3>2, <3>3, <3>4, <3>5 DEF Init, Types
  <2>3. Running
    BY DEF Init, Running
  <2> QED
    BY <2>2, <2>3 DEF TypeOK
<1>2. TypeOK /\ [Next]_vars => TypeOK'
  <2> SUFFICES ASSUME TypeOK, [Next]_vars
               PROVE  TypeOK'
    OBVIOUS
  <2> USE DEF control, epochs, copying, logs, history, txnsets, Goto
  <2>1. CASE Quit
    <3>8. Types'
      BY <2>1, SiloAssumption DEF Quit, TypeOK, Types, Label
    <3>9. Running'
      BY <2>1, SiloAssumption DEF Quit, TypeOK, Types, Running, Label
    <3> QED
      BY <3>8, <3>9 DEF TypeOK
  <2>2. ASSUME NEW t \in Thread, NextProcedure(t)
        PROVE  TypeOK'
    <3>8. Types'
      BY <2>2, SiloAssumption DEF NextProcedure, TypeOK, Types, Label
    <3>9. Running'
      BY <2>2, SiloAssumption DEF NextProcedure, TypeOK, Types, Running, Label
    <3> QED
      BY <3>8, <3>9 DEF TypeOK
  <2>3. CASE leaderWork
    <3>1. GlobalEpoch' \in Nat /\ pc' \in [Thread -> Label]
      BY <2>3, SiloAssumption DEF leaderWork, TypeOK, Types, Label
    <3>8. Types'
      BY <2>3, <3>1, SiloAssumption DEF leaderWork, TypeOK, Types, Label
    <3>9. Running'
      BY <2>3, SiloAssumption DEF leaderWork, TypeOK, Types, Running, Label
    <3> QED
      BY <3>8, <3>9 DEF TypeOK
  <2>4. ASSUME NEW t \in Thread, begin(t)
        PROVE  TypeOK'
    <3>1. ZeroTid \in Tid
      BY SiloAssumption DEF ZeroTid, Tid
    <3>2. /\ pc' \in [Thread -> Label] /\ pos' \in [Thread -> Nat]
          /\ maxset' \in [Thread -> Tid]
      <4>1. CASE quit
        BY <2>4, <4>1 DEF begin, TypeOK, Types, Label
      <4>2. CASE ~quit
        <5>1. /\ pc' = [pc EXCEPT ![t] = "exec"]
              /\ pos' = [pos EXCEPT ![t] = 1]
              /\ maxset' = [maxset EXCEPT ![t] = ZeroTid]
          BY <2>4, <4>2 DEF begin
        <5> QED
          BY <3>1, <5>1 DEF TypeOK, Types, Label
      <4> QED
        BY <4>1, <4>2
    <3>8. Types'
      BY <2>4, <3>2, SiloAssumption DEF begin, TypeOK, Types, Label
    <3>9. Running'
      <4>1. UNCHANGED pro /\ pc[t] \in {"begin", "retry"}
        BY <2>4 DEF begin
      <4>2. 0 < Len(pro[t]) /\ Len(pro[t]) \in Nat
        <5>1. pro[t] \in Seq(Operation)
          BY DEF TypeOK, Types
        <5>2. 0 < Len(pro[t])
          BY <4>1 DEF TypeOK, Running
        <5> QED
          BY <5>1, <5>2
      <4>3. CASE quit
        <5>1. pc' = [pc EXCEPT ![t] = "done"] /\ UNCHANGED pos
          BY <2>4, <4>3 DEF begin
        <5> QED
          BY <4>1, <5>1, RunningStep DEF TypeOK, Label
      <4>4. CASE ~quit
        <5>1. /\ pc' = [pc EXCEPT ![t] = "exec"]
              /\ pos' = [pos EXCEPT ![t] = 1]
          BY <2>4, <4>4 DEF begin
        <5>2. pos'[t] = 1 /\ \A u \in Thread \ {t} : pos'[u] = pos[u]
          BY <5>1 DEF TypeOK, Types
        <5>3. pos'[t] \in 1 .. Len(pro'[t]) /\ 0 < Len(pro'[t])
          BY <4>1, <4>2, <5>2
        <5>4. "exec" \in Label /\ \A u \in Thread \ {t} : pro'[u] = pro[u]
          BY <4>1 DEF Label
        <5> QED
          BY <5>1, <5>2, <5>3, <5>4, RunningStep DEF TypeOK
      <4> QED
        BY <4>3, <4>4
    <3> QED
      BY <3>8, <3>9 DEF TypeOK
  <2>5. ASSUME NEW t \in Thread, write(t)
        PROVE  TypeOK'
    <3>1. pc' \in [Thread -> Label] /\ pos' \in [Thread -> Nat] /\ Running'
      BY <2>5, AdvanceType DEF write, Executes
    <3>2. OpKey(t) \in Key
      BY <2>5, OpKeyType DEF write, Executes
    <3>8. Types'
      BY <2>5, <3>1, <3>2, SiloAssumption DEF write, TypeOK, Types, Label
    <3>9. Running'
      BY <2>5, <3>1, SiloAssumption DEF write, TypeOK, Types, Running, Label
    <3> QED
      BY <3>8, <3>9 DEF TypeOK
  <2>6. ASSUME NEW t \in Thread, readLocal(t)
        PROVE  TypeOK'
    <3>1. pc' \in [Thread -> Label] /\ pos' \in [Thread -> Nat] /\ Running'
      BY <2>6, AdvanceType DEF readLocal, Executes
    <3>8. Types'
      BY <2>6, <3>1, SiloAssumption DEF readLocal, TypeOK, Types, Label
    <3>9. Running'
      BY <2>6, <3>1, SiloAssumption DEF readLocal, TypeOK, Types, Running, Label
    <3> QED
      BY <3>8, <3>9 DEF TypeOK
  <2>7. ASSUME NEW t \in Thread, readTid(t)
        PROVE  TypeOK'
    <3>1. OpKey(t) \in Key /\ TidOf(tidword[OpKey(t)]) \in Tid
      BY <2>7, OpKeyType, TidOfType DEF readTid, Executes, TypeOK
    <3>2. pc[t] = "exec"
      BY <2>7 DEF readTid, Executes
    <3>8. Types'
      BY <2>7, <3>1, SiloAssumption DEF readTid, TypeOK, Types, Label
    <3>9. Running'
      BY <2>7, <3>2, SiloAssumption DEF readTid, TypeOK, Types, Running, Label
    <3> QED
      BY <3>8, <3>9 DEF TypeOK
  <2>8. ASSUME NEW t \in Thread, readCopy(t)
        PROVE  TypeOK'
    <3>1. OpKey(t) \in Key
      BY <2>8, OpKeyType DEF readCopy
    <3>2. PICK w \in todo[t] :
            /\ buf' = [buf EXCEPT ![t][w] = val[OpKey(t)][w]]
            /\ todo' = [todo EXCEPT ![t] = @ \ {w}]
      BY <2>8 DEF readCopy
    <3>3. w \in Word /\ val[OpKey(t)][w] \in Txn
      BY <3>1, <3>2 DEF TypeOK, Types
    <3>4. buf' \in [Thread -> [Word -> Txn]] /\ todo' \in [Thread -> SUBSET Word]
      BY <3>2, <3>3 DEF TypeOK, Types
    <3>8. Types'
      BY <2>8, <3>4, SiloAssumption DEF readCopy, TypeOK, Types, Label
    <3>9. Running'
      BY <2>8, SiloAssumption DEF readCopy, TypeOK, Types, Running, Label
    <3> QED
      BY <3>8, <3>9 DEF TypeOK
  <2>9. ASSUME NEW t \in Thread, readCheck(t)
        PROVE  TypeOK'
    <3>1. /\ OpKey(t) \in Key
          /\ TidOf(tidword[OpKey(t)]) \in Tid
          /\ pc[t] = "copy"
          /\ UNCHANGED pro
      BY <2>9, OpKeyType, TidOfType DEF readCheck, TypeOK
    <3>2. CASE ~tidword[OpKey(t)].lock /\ TidOf(tidword[OpKey(t)]) = expected[t]
      <4>1. [key |-> OpKey(t), tid |-> expected[t], val |-> buf[t]] \in ReadElement
        BY <3>1 DEF TypeOK, Types, ReadElement
      <4>2. Append(rset[t], [key |-> OpKey(t), tid |-> expected[t], val |-> buf[t]])
               \in Seq(ReadElement)
        BY <4>1 DEF TypeOK, Types
      <4>3. rset' \in [Thread -> Seq(ReadElement)]
        BY <2>9, <3>2, <4>2, ZenonT(30) DEF readCheck, TypeOK, Types
      <4>4. Advance(t)
        BY <2>9, <3>2 DEF readCheck
      <4>5. pc' \in [Thread -> Label] /\ pos' \in [Thread -> Nat] /\ Running'
        BY <3>1, <4>4, AdvanceType
      <4>6. Types'
        BY <2>9, <3>2, <4>3, <4>5 DEF readCheck, TypeOK, Types
      <4> QED
        BY <4>5, <4>6 DEF TypeOK
    <3>3. CASE ~(~tidword[OpKey(t)].lock /\ TidOf(tidword[OpKey(t)]) = expected[t])
      <4>0. /\ pc' \in [Thread -> Label] /\ expected' \in [Thread -> Tid]
            /\ todo' \in [Thread -> SUBSET Word]
            /\ UNCHANGED << pos, rset >>
        <5>1. /\ expected' = [expected EXCEPT ![t] = TidOf(tidword[OpKey(t)])]
              /\ pc' = [pc EXCEPT ![t] = "exec"] \/ UNCHANGED pc
              /\ todo' = [todo EXCEPT ![t] = Word] \/ UNCHANGED todo
              /\ UNCHANGED << pos, rset >>
          BY <2>9, <3>3 DEF readCheck
        <5>2. expected' \in [Thread -> Tid]
          BY <3>1, <5>1 DEF TypeOK, Types
        <5>3. pc' \in [Thread -> Label]
          BY <5>1 DEF TypeOK, Types, Label
        <5>4. todo' \in [Thread -> SUBSET Word]
          BY <5>1 DEF TypeOK, Types
        <5> QED
          BY <5>1, <5>2, <5>3, <5>4
      <4>1. Types'
        BY <2>9, <4>0 DEF readCheck, TypeOK, Types
      <4>2. Running'
        BY <2>9, <3>1, <3>3 DEF readCheck, TypeOK, Types, Running
      <4> QED
        BY <4>1, <4>2 DEF TypeOK
    <3> QED
      BY <3>2, <3>3
  <2>10. ASSUME NEW t \in Thread, lockRecord(t)
        PROVE  TypeOK'
    <3>1. PICK k \in wset[t] \ held[t] :
            /\ tidword' = [tidword EXCEPT ![k].lock = TRUE]
            /\ held' = [held EXCEPT ![t] = @ \cup {k}]
            /\ maxset' = [maxset EXCEPT ![t] = MaxTid(@, TidOf(tidword[k]))]
      BY <2>10 DEF lockRecord
    <3>2. k \in Key /\ MaxTid(maxset[t], TidOf(tidword[k])) \in Tid
      BY <3>1, TidOfType, MaxTidType DEF TypeOK, Types
    <3>3. /\ maxset' \in [Thread -> Tid]
          /\ held' \in [Thread -> SUBSET Key]
          /\ tidword' \in [Key -> [epoch : Nat, tid : 0 .. TidSpan - 1, lock : BOOLEAN]]
      BY <3>1, <3>2, ZenonT(30) DEF TypeOK, Types
    <3>8. Types'
      BY <2>10, <3>3, SiloAssumption DEF lockRecord, TypeOK, Types, Label
    <3>9. Running'
      BY <2>10, SiloAssumption DEF lockRecord, TypeOK, Types, Running, Label
    <3> QED
      BY <3>8, <3>9 DEF TypeOK
  <2>11. ASSUME NEW t \in Thread, lockFailed(t)
        PROVE  TypeOK'
    <3>8. Types'
      BY <2>11, SiloAssumption DEF lockFailed, TypeOK, Types, Label
    <3>9. Running'
      BY <2>11, SiloAssumption DEF lockFailed, TypeOK, Types, Running, Label
    <3> QED
      BY <3>8, <3>9 DEF TypeOK
  <2>12. ASSUME NEW t \in Thread, loadEpoch(t)
        PROVE  TypeOK'
    <3>8. Types'
      BY <2>12, SiloAssumption DEF loadEpoch, TypeOK, Types, Label
    <3>9. Running'
      BY <2>12, SiloAssumption DEF loadEpoch, TypeOK, Types, Running, Label
    <3> QED
      BY <3>8, <3>9 DEF TypeOK
  <2>13. ASSUME NEW t \in Thread, storeEpoch(t)
        PROVE  TypeOK'
    <3>8. Types'
      BY <2>13, SiloAssumption DEF storeEpoch, TypeOK, Types, Label
    <3>9. Running'
      BY <2>13, SiloAssumption DEF storeEpoch, TypeOK, Types, Running, Label
    <3> QED
      BY <3>8, <3>9 DEF TypeOK
  <2>14. ASSUME NEW t \in Thread, validateRead(t)
        PROVE  TypeOK'
    <3>1. rset[t][pos[t]] \in ReadElement
      BY <2>14 DEF validateRead, TypeOK, Types
    <3>2. /\ rset[t][pos[t]].key \in Key
          /\ MaxTid(maxset[t], TidOf(tidword[rset[t][pos[t]].key])) \in Tid
      BY <3>1, TidOfType, MaxTidType DEF ReadElement, TypeOK, Types
    <3>3. DOMAIN rset[t] \subseteq Nat
      BY DEF TypeOK, Types
    <3>4. UNCHANGED pro /\ (\/ Goto(t, "unlock") /\ UNCHANGED << pos, maxset >>
                            \/ /\ UNCHANGED pc
                               /\ pos' = [pos EXCEPT ![t] = @ + 1]
                               /\ maxset' = [maxset EXCEPT ![t] =
                                      MaxTid(@, TidOf(tidword[rset[t][pos[t]].key]))])
          /\ pc[t] = "validate"
      BY <2>14 DEF validateRead
    <3>5. /\ pc' \in [Thread -> Label] /\ pos' \in [Thread -> Nat]
          /\ maxset' \in [Thread -> Tid]
      <4>1. CASE Goto(t, "unlock") /\ UNCHANGED << pos, maxset >>
        BY <4>1 DEF TypeOK, Types, Label
      <4>2. CASE ~(Goto(t, "unlock") /\ UNCHANGED << pos, maxset >>)
        <5>1. /\ UNCHANGED pc
              /\ pos' = [pos EXCEPT ![t] = @ + 1]
              /\ maxset' = [maxset EXCEPT ![t] =
                     MaxTid(@, TidOf(tidword[rset[t][pos[t]].key]))]
          BY <3>4, <4>2
        <5>2. maxset' \in [Thread -> Tid]
          BY <3>2, <5>1 DEF TypeOK, Types
        <5>3. pos' \in [Thread -> Nat] /\ pc' \in [Thread -> Label]
          BY <5>1 DEF TypeOK, Types
        <5> QED
          BY <5>2, <5>3
      <4> QED
        BY <4>1, <4>2
    <3>8. Types'
      BY <2>14, <3>5, SiloAssumption DEF validateRead, TypeOK, Types, Label
    <3>9. Running'
      BY <2>14, <3>4, SiloAssumption, ZenonT(30) DEF validateRead, TypeOK, Types, Running, Label
    <3> QED
      BY <3>8, <3>9 DEF TypeOK
  <2>15. ASSUME NEW t \in Thread, unlockRecord(t)
        PROVE  TypeOK'
    <3>1. PICK k \in held[t] :
            /\ tidword' = [tidword EXCEPT ![k].lock = FALSE]
            /\ held' = [held EXCEPT ![t] = @ \ {k}]
      BY <2>15 DEF unlockRecord
    <3>2. /\ held' \in [Thread -> SUBSET Key]
          /\ tidword' \in [Key -> [epoch : Nat, tid : 0 .. TidSpan - 1, lock : BOOLEAN]]
      BY <3>1, ZenonT(30) DEF TypeOK, Types
    <3>8. Types'
      BY <2>15, <3>2, SiloAssumption DEF unlockRecord, TypeOK, Types, Label
    <3>9. Running'
      BY <2>15, SiloAssumption DEF unlockRecord, TypeOK, Types, Running, Label
    <3> QED
      BY <3>8, <3>9 DEF TypeOK
  <2>16. ASSUME NEW t \in Thread, relock(t)
        PROVE  TypeOK'
    <3>8. Types'
      BY <2>16, SiloAssumption DEF relock, TypeOK, Types, Label
    <3>9. Running'
      BY <2>16, SiloAssumption DEF relock, TypeOK, Types, Running, Label
    <3> QED
      BY <3>8, <3>9 DEF TypeOK
  <2>17. ASSUME NEW t \in Thread, abort(t)
        PROVE  TypeOK'
    <3>1. rset' \in [Thread -> Seq(ReadElement)] /\ wset' \in [Thread -> SUBSET Key]
      BY <2>17 DEF abort, TypeOK, Types
    <3>8. Types'
      BY <2>17, <3>1, SiloAssumption DEF abort, TypeOK, Types, Label
    <3>9. Running'
      BY <2>17, SiloAssumption DEF abort, TypeOK, Types, Running, Label
    <3> QED
      BY <3>8, <3>9 DEF TypeOK
  <2>18. ASSUME NEW t \in Thread, commit(t)
        PROVE  TypeOK'
    <3>1. commitTid(t) \in Tid /\ TxnId(t) \in Txn
      BY CommitTidType, TxnIdType DEF TypeOK
    <3>2. \A i \in DOMAIN rset[t] : rset[t][i] \in ReadElement
      BY DEF TypeOK, Types
    <3>3. ReadVersions(t) \in SUBSET [key : Key, ver : Txn]
      BY <3>2 DEF ReadVersions, ReadElement
    <3>4. logset' \in [Thread -> SUBSET LogRecord] /\ logfile' \in [Thread -> SUBSET LogRecord]
      <4>1. {[id |-> TxnId(t), tid |-> commitTid(t), key |-> k] : k \in wset[t]}
               \subseteq LogRecord
        BY <3>1 DEF LogRecord, TypeOK, Types
      <4>2. CASE ~WAL
        BY <2>18, <4>2 DEF commit, TypeOK, Types
      <4>3. CASE WAL
        <5> DEFINE new == {[id |-> TxnId(t), tid |-> commitTid(t), key |-> k] : k \in wset[t]}
        <5>1. \/ /\ logfile' = [logfile EXCEPT ![t] = @ \cup (logset[t] \cup new)]
                 /\ logset' = [logset EXCEPT ![t] = {}]
              \/ /\ logset' = [logset EXCEPT ![t] = logset[t] \cup new]
                 /\ UNCHANGED logfile
          BY <2>18, <4>3 DEF commit, wal
        <5>2. new \subseteq LogRecord
          BY <4>1
        <5> HIDE DEF new
        <5> QED
          <6>1. /\ logset[t] \subseteq LogRecord /\ logfile[t] \subseteq LogRecord
                /\ logset \in [Thread -> SUBSET LogRecord]
                /\ logfile \in [Thread -> SUBSET LogRecord]
            BY DEF TypeOK, Types
          <6>2. logset[t] \cup new \in SUBSET LogRecord
            BY <5>2, <6>1
          <6>3. logfile[t] \cup (logset[t] \cup new) \in SUBSET LogRecord
            BY <6>1, <6>2
          <6> QED
            BY <5>1, <6>1, <6>2, <6>3
      <4> QED
        BY <4>2, <4>3
    <3>5. committed' \subseteq [id : Txn, tid : Tid, reads : SUBSET [key : Key, ver : Txn]]
      BY <2>18, <3>1, <3>3 DEF commit, TypeOK, Types
    <3>6. /\ mrctid' \in [Thread -> Tid] /\ todo' \in [Thread -> SUBSET Word]
          /\ pc' \in [Thread -> Label]
      BY <2>18, <3>1 DEF commit, TypeOK, Types, Label
    <3>8. Types'
      BY <2>18, <3>4, <3>5, <3>6, SiloAssumption DEF commit, TypeOK, Types, Label
    <3>9. Running'
      BY <2>18, SiloAssumption DEF commit, TypeOK, Types, Running, Label
    <3> QED
      BY <3>8, <3>9 DEF TypeOK
  <2>19. ASSUME NEW t \in Thread, installWord(t)
        PROVE  TypeOK'
    <3>1. PICK k \in held[t], w \in todo[t] :
            /\ val' = [val EXCEPT ![k][w] = TxnId(t)]
            /\ todo' = [todo EXCEPT ![t] = @ \ {w}]
      BY <2>19 DEF installWord
    <3>2. val' \in [Key -> [Word -> Txn]] /\ todo' \in [Thread -> SUBSET Word]
      BY <3>1, TxnIdType DEF TypeOK, Types
    <3>8. Types'
      BY <2>19, <3>2, SiloAssumption DEF installWord, TypeOK, Types, Label
    <3>9. Running'
      BY <2>19, SiloAssumption DEF installWord, TypeOK, Types, Running, Label
    <3> QED
      BY <3>8, <3>9 DEF TypeOK
  <2>20. ASSUME NEW t \in Thread, installTid(t)
        PROVE  TypeOK'
    <3>1. PICK k \in held[t] :
            /\ tidword' = [tidword EXCEPT ![k] = [epoch |-> mrctid[t].epoch,
                                                  tid |-> mrctid[t].tid,
                                                  lock |-> FALSE]]
            /\ held' = [held EXCEPT ![t] = @ \ {k}]
            /\ order' = [order EXCEPT ![k] = Append(@, TxnId(t))]
      BY <2>20 DEF installTid
    <3>2. k \in Key /\ mrctid[t] \in Tid /\ Append(order[k], TxnId(t)) \in Seq(Txn)
      BY <3>1, TxnIdType DEF TypeOK, Types
    <3>3. /\ held' \in [Thread -> SUBSET Key]
          /\ order' \in [Key -> Seq(Txn)]
          /\ tidword' \in [Key -> [epoch : Nat, tid : 0 .. TidSpan - 1, lock : BOOLEAN]]
      BY <3>1, <3>2 DEF TypeOK, Types, Tid
    <3>8. Types'
      BY <2>20, <3>3, SiloAssumption DEF installTid, TypeOK, Types, Label
    <3>9. Running'
      BY <2>20, SiloAssumption DEF installTid, TypeOK, Types, Running, Label
    <3> QED
      BY <3>8, <3>9 DEF TypeOK
  <2>21. ASSUME NEW t \in Thread, finish(t)
        PROVE  TypeOK'
    <3>1. /\ rset' \in [Thread -> Seq(ReadElement)]
          /\ wset' \in [Thread -> SUBSET Key]
          /\ n' \in [Thread -> Nat]
      BY <2>21 DEF finish, TypeOK, Types
    <3>8. Types'
      BY <2>21, <3>1, SiloAssumption DEF finish, TypeOK, Types, Label
    <3>9. Running'
      BY <2>21, SiloAssumption DEF finish, TypeOK, Types, Running, Label
    <3> QED
      BY <3>8, <3>9 DEF TypeOK
  <2>22. CASE UNCHANGED vars
    BY <2>22 DEF vars, TypeOK, Types, Running
  <2> QED
    BY <2>1, <2>2, <2>3, <2>4, <2>5, <2>6, <2>7, <2>8, <2>9, <2>10, <2>11, <2>12, <2>13, <2>14, <2>15, <2>16, <2>17, <2>18, <2>19, <2>20, <2>21, <2>22 DEF Next, worker, Joined
<1> QED
  BY <1>1, <1>2, PTL DEF Spec

-----------------------------------------------------------------------------
\* Locks: a record is locked exactly while one worker holds it, and no path
\* out of locking, validation or installation leaks a lock.
THEOREM LocksAreOwned == Spec => []LockOwnership
<1>1. Init => LockOwnership
  BY DEF Init, LockOwnership
<1>2. TypeOK /\ LockOwnership /\ [Next]_vars => LockOwnership'
  <2> SUFFICES ASSUME TypeOK, LockOwnership, [Next]_vars
               PROVE  LockOwnership'
    OBVIOUS
  <2> USE DEF control, epochs, copying, logs, history, txnsets, Goto
  <2>1. /\ pc \in [Thread -> Label]
        /\ held \in [Thread -> SUBSET Key]
        /\ wset \in [Thread -> SUBSET Key]
        /\ tidword \in [Key -> [epoch : Nat, tid : 0 .. TidSpan - 1, lock : BOOLEAN]]
    BY DEF TypeOK, Types
  \* Steps that neither lock, unlock nor shrink a write set.
  <2>2. ASSUME UNCHANGED << held, tidword >>,
               \A t \in Thread : wset[t] \subseteq wset'[t],
               \A t \in Thread : pc'[t] \in {"idle", "retry", "begin", "exec", "copy", "done"}
                  => pc[t] \in {"idle", "retry", "begin", "exec", "copy", "done"}
        PROVE  LockOwnership'
    BY <2>2 DEF LockOwnership
  <2>3. CASE Quit
    BY <2>2, <2>3 DEF Quit
  <2>4. CASE leaderWork
    BY <2>1, <2>2, <2>4 DEF leaderWork
  <2>5. ASSUME NEW t \in Thread,
               \/ NextProcedure(t) \/ begin(t) \/ readTid(t) \/ readCopy(t)
               \/ lockFailed(t) \/ loadEpoch(t) \/ storeEpoch(t)
               \/ validateRead(t) \/ relock(t) \/ commit(t) \/ installWord(t)
        PROVE  LockOwnership'
    <3>1. UNCHANGED << held, tidword, wset >>
      BY <2>5 DEF NextProcedure, begin, readTid, readCopy, lockFailed, loadEpoch,
           storeEpoch, validateRead, relock, commit, installWord
    <3>2. CASE NextProcedure(t)
      BY <2>1, <2>2, <3>1, <3>2 DEF NextProcedure, Label
    <3>3. CASE begin(t)
      BY <2>1, <2>2, <3>1, <3>3 DEF begin, Label
    <3>4. CASE readTid(t)
      BY <2>1, <2>2, <3>1, <3>4 DEF readTid, Executes, Label
    <3>5. CASE readCopy(t)
      BY <2>1, <2>2, <3>1, <3>5 DEF readCopy, Label
    <3>6. CASE lockFailed(t)
      BY <2>1, <2>2, <3>1, <3>6, SiloAssumption DEF lockFailed, Label
    <3>7. CASE loadEpoch(t)
      BY <2>1, <2>2, <3>1, <3>7 DEF loadEpoch, Label
    <3>8. CASE storeEpoch(t)
      BY <2>1, <2>2, <3>1, <3>8 DEF storeEpoch, Label
    <3>9. CASE validateRead(t)
      BY <2>1, <2>2, <3>1, <3>9 DEF validateRead, Label
    <3>10. CASE relock(t)
      BY <2>1, <2>2, <3>1, <3>10 DEF relock, Label
    <3>11. CASE commit(t)
      BY <2>1, <2>2, <3>1, <3>11 DEF commit, Label
    <3>12. CASE installWord(t)
      BY <2>1, <2>2, <3>1, <3>12 DEF installWord, Label
    <3> QED
      BY <2>5, <3>2, <3>3, <3>4, <3>5, <3>6, <3>7, <3>8, <3>9, <3>10, <3>11, <3>12
  <2>6. ASSUME NEW t \in Thread, write(t) \/ readLocal(t) \/ readCheck(t)
        PROVE  LockOwnership'
    BY <2>1, <2>2, <2>6 DEF write, readLocal, readCheck, Executes, Advance
  <2>7. ASSUME NEW t \in Thread, lockRecord(t)
        PROVE  LockOwnership'
    <3>1. PICK k \in wset[t] \ held[t] :
            /\ ~tidword[k].lock
            /\ tidword' = [tidword EXCEPT ![k].lock = TRUE]
            /\ held' = [held EXCEPT ![t] = @ \cup {k}]
      BY <2>7 DEF lockRecord
    <3>2. UNCHANGED << pc, wset >> /\ pc[t] = "lock"
      BY <2>7 DEF lockRecord
    <3>3. \A u \in Thread : k \notin held[u]
      BY <2>1, <3>1 DEF LockOwnership
    <3> QED
      BY <2>1, <3>1, <3>2, <3>3 DEF LockOwnership
  <2>8. ASSUME NEW t \in Thread, NEW k \in held[t],
               held' = [held EXCEPT ![t] = @ \ {k}],
               \A j \in Key \ {k} : tidword'[j] = tidword[j],
               ~tidword'[k].lock,
               UNCHANGED << pc, wset >>
        PROVE  LockOwnership'
    BY <2>1, <2>8 DEF LockOwnership
  <2>9. ASSUME NEW t \in Thread, unlockRecord(t)
        PROVE  LockOwnership'
    BY <2>1, <2>8, <2>9 DEF unlockRecord
  <2>10. ASSUME NEW t \in Thread, installTid(t)
         PROVE  LockOwnership'
    <3>1. PICK k \in held[t] :
            /\ held' = [held EXCEPT ![t] = @ \ {k}]
            /\ tidword' = [tidword EXCEPT ![k] = [epoch |-> mrctid[t].epoch,
                                                  tid |-> mrctid[t].tid,
                                                  lock |-> FALSE]]
      BY <2>10 DEF installTid
    <3>2. k \in Key /\ UNCHANGED << pc, wset >>
      BY <2>1, <2>10 DEF installTid
    <3>3. ~tidword'[k].lock /\ \A j \in Key \ {k} : tidword'[j] = tidword[j]
      BY <2>1, <3>1, <3>2
    <3> QED
      BY <2>8, <3>1, <3>2, <3>3
  <2>11. ASSUME NEW t \in Thread, abort(t) \/ finish(t)
         PROVE  LockOwnership'
    <3>1. held[t] = {} /\ UNCHANGED << held, tidword >>
      BY <2>11 DEF abort, finish
    <3>2. \A u \in Thread : u # t => pc'[u] = pc[u] /\ wset'[u] = wset[u]
      BY <2>1, <2>11 DEF abort, finish
    <3> QED
      BY <2>1, <3>1, <3>2 DEF LockOwnership
  <2>12. CASE UNCHANGED vars
    BY <2>2, <2>12 DEF vars
  <2> QED
    BY <2>3, <2>4, <2>5, <2>6, <2>7, <2>9, <2>10, <2>11, <2>12 DEF Next, worker, Joined
<1> QED
  BY <1>1, <1>2, TypeCorrect, PTL DEF Spec

-----------------------------------------------------------------------------
(* Epochs *)

\* Every TID that the next commit TID of t is computed from is of epoch e or
\* of an earlier one.
TidsWithin(t, e) ==
    /\ maxset[t].epoch <= e
    /\ mrctid[t].epoch <= e
    /\ \A i \in DOMAIN rset[t] : rset[t][i].tid.epoch <= e

\* EpochWindow is not inductive: that the epoch of a commit TID is the one its
\* worker published needs every TID the worker has seen to be of that epoch or
\* earlier, which is so because GlobalEpoch bounds every TID in the table at the
\* moment it is loaded, with the whole write set locked.
EpochInd ==
    /\ EpochWindow
    /\ \A k \in Key : tidword[k].epoch <= GlobalEpoch
    /\ \A t \in Thread : expected[t].epoch <= GlobalEpoch
    /\ \A t \in Thread : TidsWithin(t, GlobalEpoch)
    /\ \A t \in Thread : pc[t] = "epoch" => /\ ThLocalEpoch[t] <= epoch[t]
                                            /\ epoch[t] <= GlobalEpoch
                                            /\ TidsWithin(t, epoch[t])
    /\ \A t \in Thread : pc[t] = "validate" => TidsWithin(t, ThLocalEpoch[t])

\* A step of one worker t that leaves the epochs alone, sees no TID beyond the
\* global epoch and does not enter validation or the write phase.
LEMMA EpochQuiet ==
    ASSUME EpochInd, NEW t \in Thread,
           UNCHANGED << GlobalEpoch, ThLocalEpoch, epoch, mrctid >>,
           \A k \in Key : tidword'[k].epoch <= GlobalEpoch,
           \A u \in Thread \ {t} : /\ pc'[u] = pc[u]
                                   /\ expected'[u] = expected[u]
                                   /\ maxset'[u] = maxset[u]
                                   /\ rset'[u] = rset[u],
           expected'[t].epoch <= GlobalEpoch,
           maxset'[t].epoch <= GlobalEpoch,
           \A i \in DOMAIN rset'[t] : rset'[t][i].tid.epoch <= GlobalEpoch,
           pc'[t] \notin {"epoch", "validate"},
           pc'[t] = "install" => pc[t] = "install"
    PROVE  EpochInd'
<1>1. EpochWindow'
  BY DEF EpochInd, EpochWindow
<1>2. \A u \in Thread : TidsWithin(u, GlobalEpoch)'
  BY DEF EpochInd, TidsWithin
<1>3. ASSUME NEW u \in Thread, u # t
      PROVE  /\ pc'[u] = "epoch" => /\ ThLocalEpoch'[u] <= epoch'[u]
                                    /\ epoch'[u] <= GlobalEpoch'
                                    /\ TidsWithin(u, epoch[u])'
             /\ pc'[u] = "validate" => TidsWithin(u, ThLocalEpoch[u])'
  BY <1>3 DEF EpochInd, TidsWithin
<1>4. \A u \in Thread : expected'[u].epoch <= GlobalEpoch'
  BY DEF EpochInd
<1> QED
  BY <1>1, <1>2, <1>3, <1>4 DEF EpochInd

LEMMA MaxTidEpoch ==
    ASSUME NEW a \in Tid, NEW b \in Tid
    PROVE  /\ MaxTid(a, b).epoch = IF a.epoch < b.epoch THEN b.epoch ELSE a.epoch
           /\ IncTid(a).epoch = a.epoch
BY DEF MaxTid, TidLess, IncTid, Tid

\* (C) of writePhase: once its TIDs are within the published epoch, the commit
\* TID is in that epoch.
LEMMA CommitTidEpoch ==
    ASSUME Types, NEW t \in Thread, TidsWithin(t, ThLocalEpoch[t])
    PROVE  commitTid(t).epoch = ThLocalEpoch[t]
<1> DEFINE a == IncTid(maxset[t])
           b == IncTid(mrctid[t])
           c == [epoch |-> ThLocalEpoch[t], tid |-> 0]
<1>1. a \in Tid /\ b \in Tid /\ c \in Tid
  <2>1. a \in Tid /\ b \in Tid
    BY IncTidType DEF Types
  <2>2. c \in Tid
    BY SiloAssumption DEF Types, Tid
  <2> QED
    BY <2>1, <2>2
<1>2. a.epoch = maxset[t].epoch /\ b.epoch = mrctid[t].epoch
  BY MaxTidEpoch DEF Types
<1>3. maxset[t].epoch <= ThLocalEpoch[t] /\ mrctid[t].epoch <= ThLocalEpoch[t]
  BY DEF TidsWithin
<1>4. a.epoch \in Nat /\ b.epoch \in Nat /\ c.epoch \in Nat /\ c.epoch = ThLocalEpoch[t]
  BY <1>1 DEF Tid
<1>5. MaxTid(a, b) \in Tid /\ MaxTid(a, b).epoch <= ThLocalEpoch[t]
  <2>1. MaxTid(a, b).epoch = IF a.epoch < b.epoch THEN b.epoch ELSE a.epoch
    BY <1>1, MaxTidEpoch
  <2> HIDE DEF a, b, c
  <2> QED
    BY <1>1, <1>2, <1>3, <2>1, MaxTidType
<1>6. MaxTid(MaxTid(a, b), c).epoch = ThLocalEpoch[t]
  <2> DEFINE m == MaxTid(a, b)
  <2>1. m \in Tid /\ m.epoch \in Nat /\ m.epoch <= ThLocalEpoch[t]
    BY <1>5 DEF Tid
  <2> HIDE DEF m
  <2>2. MaxTid(m, c).epoch = IF m.epoch < c.epoch THEN c.epoch ELSE m.epoch
    BY <1>1, <2>1, MaxTidEpoch
  <2>3. MaxTid(m, c).epoch = ThLocalEpoch[t]
    <3> HIDE DEF c
    <3> QED
      BY <1>4, <2>1, <2>2
  <2> QED
    BY <2>3 DEF m
<1> QED
  BY <1>6 DEF commitTid

LEMMA EpochInduction == Spec => []EpochInd
<1>1. Init => EpochInd
  BY DEF Init, EpochInd, EpochWindow, TidsWithin, ZeroTid
<1>2. TypeOK /\ TypeOK' /\ EpochInd /\ [Next]_vars => EpochInd'
  <2> SUFFICES ASSUME TypeOK, TypeOK', EpochInd, [Next]_vars
               PROVE  EpochInd'
    OBVIOUS
  <2> USE DEF control, epochs, copying, logs, history, txnsets, Goto
  <2>1. /\ pc \in [Thread -> Label]
        /\ GlobalEpoch \in Nat
        /\ ThLocalEpoch \in [Thread -> Nat]
        /\ epoch \in [Thread -> Nat]
        /\ tidword \in [Key -> [epoch : Nat, tid : 0 .. TidSpan - 1, lock : BOOLEAN]]
        /\ expected \in [Thread -> Tid]
        /\ maxset \in [Thread -> Tid]
        /\ mrctid \in [Thread -> Tid]
        /\ rset \in [Thread -> Seq(ReadElement)]
    BY DEF TypeOK, Types
  <2>2. /\ \A k \in Key : tidword[k].epoch <= GlobalEpoch
        /\ \A t \in Thread : /\ expected[t].epoch <= GlobalEpoch
                             /\ maxset[t].epoch <= GlobalEpoch
                             /\ mrctid[t].epoch <= GlobalEpoch
                             /\ \A i \in DOMAIN rset[t] :
                                   rset[t][i].tid.epoch <= GlobalEpoch
    BY DEF EpochInd, TidsWithin
  <2>3. ASSUME NEW t \in Thread, write(t) \/ readLocal(t) \/ NextProcedure(t)
        PROVE  EpochInd'
    <3>1. UNCHANGED << GlobalEpoch, ThLocalEpoch, epoch, mrctid, tidword,
                       expected, maxset, rset >>
      BY <2>3 DEF write, readLocal, NextProcedure
    <3>2. PICK l \in {"exec", "lock", "done", "retry"} : pc' = [pc EXCEPT ![t] = l]
      BY <2>3 DEF write, readLocal, NextProcedure, Advance
    <3>3. pc'[t] = l /\ \A u \in Thread \ {t} : pc'[u] = pc[u]
      BY <2>1, <3>2
    <3> QED
      BY <2>2, <3>1, <3>3, EpochQuiet
  <2>4. ASSUME NEW t \in Thread, begin(t)
        PROVE  EpochInd'
    <3>1. UNCHANGED << GlobalEpoch, ThLocalEpoch, epoch, mrctid, tidword,
                       expected, rset >>
      BY <2>4 DEF begin
    <3>2. PICK l \in {"exec", "done"} : pc' = [pc EXCEPT ![t] = l]
      BY <2>4 DEF begin
    <3>3. pc'[t] = l /\ \A u \in Thread \ {t} : pc'[u] = pc[u]
      BY <2>1, <3>2
    <3>4. maxset' = maxset \/ maxset' = [maxset EXCEPT ![t] = ZeroTid]
      BY <2>4 DEF begin
    <3>5. /\ maxset'[t].epoch <= GlobalEpoch
          /\ \A u \in Thread \ {t} : maxset'[u] = maxset[u]
      BY <2>1, <2>2, <3>4 DEF ZeroTid
    <3> QED
      BY <2>2, <3>1, <3>3, <3>5, EpochQuiet
  <2>5. ASSUME NEW t \in Thread, readTid(t)
        PROVE  EpochInd'
    <3>1. /\ UNCHANGED << GlobalEpoch, ThLocalEpoch, epoch, mrctid, tidword,
                          maxset, rset >>
          /\ expected' = [expected EXCEPT ![t] = TidOf(tidword[OpKey(t)])]
          /\ pc' = [pc EXCEPT ![t] = "copy"]
      BY <2>5 DEF readTid
    <3>2. OpKey(t) \in Key
      BY <2>5, OpKeyType DEF readTid, Executes
    <3>3. /\ expected'[t].epoch <= GlobalEpoch
          /\ \A u \in Thread \ {t} : expected'[u] = expected[u]
      BY <2>1, <2>2, <3>1, <3>2 DEF TidOf
    <3> QED
      BY <2>1, <2>2, <3>1, <3>3, EpochQuiet
  <2>6. ASSUME NEW t \in Thread, readCopy(t)
        PROVE  EpochInd'
    BY <2>1, <2>2, <2>6, EpochQuiet DEF readCopy
  <2>7. ASSUME NEW t \in Thread, lockFailed(t)
        PROVE  EpochInd'
    BY <2>1, <2>2, <2>7, EpochQuiet, SiloAssumption DEF lockFailed
  <2>8. ASSUME NEW t \in Thread, unlockRecord(t)
        PROVE  EpochInd'
    BY <2>1, <2>2, <2>8, EpochQuiet, ZenonT(30) DEF unlockRecord
  <2>9. ASSUME NEW t \in Thread, relock(t)
        PROVE  EpochInd'
    BY <2>1, <2>2, <2>9, EpochQuiet DEF relock
  <2>10. ASSUME NEW t \in Thread, abort(t)
        PROVE  EpochInd'
    BY <2>1, <2>2, <2>10, EpochQuiet DEF abort
  <2>11. ASSUME NEW t \in Thread, installWord(t)
        PROVE  EpochInd'
    BY <2>1, <2>2, <2>11, EpochQuiet DEF installWord
  <2>12. ASSUME NEW t \in Thread, finish(t)
        PROVE  EpochInd'
    BY <2>1, <2>2, <2>12, EpochQuiet DEF finish
  <2>13. ASSUME NEW t \in Thread, readCheck(t)
         PROVE  EpochInd'
    <3> DEFINE entry == [key |-> OpKey(t), tid |-> expected[t], val |-> buf[t]]
    <3>1. OpKey(t) \in Key
      BY <2>13, OpKeyType DEF readCheck
    <3>2. UNCHANGED << GlobalEpoch, ThLocalEpoch, epoch, mrctid, tidword, maxset >>
      BY <2>13 DEF readCheck
    <3>3. /\ \A u \in Thread \ {t} : pc'[u] = pc[u]
          /\ pc'[t] \notin {"epoch", "validate", "install"}
      BY <2>1, <2>13 DEF readCheck, Advance
    <3>4. CASE rset' = [rset EXCEPT ![t] = Append(@, entry)] /\ UNCHANGED expected
      <4>1. entry.tid = expected[t] /\ rset'[t] = Append(rset[t], entry)
        BY <2>1, <3>4
      <4>2. \A i \in DOMAIN rset'[t] :
               rset'[t][i] = entry \/ (i \in DOMAIN rset[t] /\ rset'[t][i] = rset[t][i])
        <5> HIDE DEF entry
        <5> rset[t] \in Seq(ReadElement)
          BY <2>1
        <5> QED
          BY <4>1
      <4>3. \A i \in DOMAIN rset'[t] : rset'[t][i].tid.epoch <= GlobalEpoch
        <5> HIDE DEF entry
        <5> QED
          BY <2>2, <4>1, <4>2
      <4> HIDE DEF entry
      <4>4. \A u \in Thread \ {t} : rset'[u] = rset[u]
        BY <2>1, <3>4
      <4> QED
        BY <2>2, <3>2, <3>3, <3>4, <4>3, <4>4, EpochQuiet
    <3>5. CASE /\ expected' = [expected EXCEPT ![t] = TidOf(tidword[OpKey(t)])]
               /\ UNCHANGED rset
      <4>1. /\ expected'[t].epoch <= GlobalEpoch
            /\ \A u \in Thread \ {t} : expected'[u] = expected[u]
        BY <2>1, <2>2, <3>1, <3>5 DEF TidOf
      <4> QED
        BY <2>2, <3>2, <3>3, <3>5, <4>1, EpochQuiet
    <3> QED
      BY <2>13, <3>4, <3>5 DEF readCheck
  <2>14. ASSUME NEW t \in Thread, lockRecord(t)
         PROVE  EpochInd'
    <3>1. PICK k \in Key :
            /\ tidword' = [tidword EXCEPT ![k].lock = TRUE]
            /\ maxset' = [maxset EXCEPT ![t] = MaxTid(@, TidOf(tidword[k]))]
      BY <2>14 DEF lockRecord, TypeOK, Types
    <3>2. \A j \in Key : tidword'[j].epoch <= GlobalEpoch
      BY <2>1, <2>2, <3>1
    <3>3. /\ maxset'[t].epoch <= GlobalEpoch
          /\ \A u \in Thread \ {t} : maxset'[u] = maxset[u]
      BY <2>1, <2>2, <3>1 DEF MaxTid, TidOf
    <3> QED
      BY <2>1, <2>2, <2>14, <3>2, <3>3, EpochQuiet, ZenonT(30) DEF lockRecord
  <2>15. ASSUME NEW t \in Thread, installTid(t)
         PROVE  EpochInd'
    <3>1. PICK k \in Key :
            tidword' = [tidword EXCEPT ![k] = [epoch |-> mrctid[t].epoch,
                                               tid |-> mrctid[t].tid,
                                               lock |-> FALSE]]
      BY <2>15 DEF installTid, TypeOK, Types
    <3>2. \A j \in Key : tidword'[j].epoch <= GlobalEpoch
      BY <2>1, <2>2, <3>1
    <3> QED
      BY <2>1, <2>2, <2>15, <3>2, EpochQuiet DEF installTid
  \* The leader moves on only once every other worker is in the current epoch.
  <2>16. CASE leaderWork
    <3>1. CASE UNCHANGED GlobalEpoch
      BY <2>1, <2>2, <2>16, <3>1, EpochQuiet, SiloAssumption DEF leaderWork
    <3>2. CASE chkEpochLoaded /\ GlobalEpoch' = GlobalEpoch + 1
      <4>1. /\ UNCHANGED << ThLocalEpoch, epoch, mrctid, maxset, rset, expected, tidword >>
            /\ pc' = [pc EXCEPT ![Leader] = "begin"]
        BY <2>16 DEF leaderWork
      <4>2. EpochWindow'
        BY <2>1, <3>2, <4>1 DEF chkEpochLoaded, EpochInd, EpochWindow
      <4>3. \A t \in Thread : TidsWithin(t, GlobalEpoch)'
        <5>1. ASSUME NEW a \in Tid, a.epoch <= GlobalEpoch
              PROVE  a.epoch <= GlobalEpoch'
          BY <2>1, <3>2, <5>1 DEF Tid
        <5>2. \A t \in Thread : \A i \in DOMAIN rset[t] : rset[t][i].tid \in Tid
          <6>1. ASSUME NEW t \in Thread, NEW i \in DOMAIN rset[t]
                PROVE  rset[t][i] \in ReadElement
            BY <2>1
          <6> QED
            BY <6>1 DEF ReadElement
        <5>3. \A t \in Thread : /\ maxset[t].epoch <= GlobalEpoch'
                               /\ mrctid[t].epoch <= GlobalEpoch'
          BY <2>1, <2>2, <5>1
        <5>4. \A t \in Thread : \A i \in DOMAIN rset[t] :
                 rset[t][i].tid.epoch <= GlobalEpoch'
          BY <2>2, <5>1, <5>2
        <5> QED
          BY <4>1, <5>3, <5>4 DEF TidsWithin
      <4>4. /\ \A k \in Key : tidword'[k].epoch <= GlobalEpoch'
            /\ \A t \in Thread : expected'[t].epoch <= GlobalEpoch'
        BY <2>1, <2>2, <3>2, <4>1 DEF Tid
      <4>5. \A t \in Thread :
              /\ pc'[t] = "epoch" => /\ ThLocalEpoch'[t] <= epoch'[t]
                                     /\ epoch'[t] <= GlobalEpoch'
                                     /\ TidsWithin(t, epoch[t])'
              /\ pc'[t] = "validate" => TidsWithin(t, ThLocalEpoch[t])'
        BY <2>1, <3>2, <4>1 DEF EpochInd, TidsWithin
      <4> QED
        BY <4>2, <4>3, <4>4, <4>5 DEF EpochInd
    <3> QED
      BY <2>16, <3>1, <3>2 DEF leaderWork
  \* Every TID in sight is within the epoch being loaded.
  <2>17. ASSUME NEW t \in Thread, loadEpoch(t)
         PROVE  EpochInd'
    <3>1. /\ UNCHANGED << GlobalEpoch, ThLocalEpoch, mrctid, maxset, rset, expected, tidword >>
          /\ epoch' = [epoch EXCEPT ![t] = GlobalEpoch]
          /\ pc' = [pc EXCEPT ![t] = "epoch"]
      BY <2>17 DEF loadEpoch
    <3>2. EpochWindow'
      BY <2>1, <3>1 DEF EpochInd, EpochWindow
    <3>3. \A u \in Thread : TidsWithin(u, GlobalEpoch)'
      BY <3>1 DEF EpochInd, TidsWithin
    <3>4. \A u \in Thread :
            /\ pc'[u] = "epoch" => /\ ThLocalEpoch'[u] <= epoch'[u]
                                   /\ epoch'[u] <= GlobalEpoch'
                                   /\ TidsWithin(u, epoch[u])'
            /\ pc'[u] = "validate" => TidsWithin(u, ThLocalEpoch[u])'
      BY <2>1, <3>1 DEF EpochInd, EpochWindow, TidsWithin
    <3> QED
      BY <3>1, <3>2, <3>3, <3>4 DEF EpochInd
  <2>18. ASSUME NEW t \in Thread, storeEpoch(t)
         PROVE  EpochInd'
    <3>1. /\ UNCHANGED << GlobalEpoch, epoch, mrctid, maxset, rset, expected, tidword >>
          /\ ThLocalEpoch' = [ThLocalEpoch EXCEPT ![t] = epoch[t]]
          /\ pc' = [pc EXCEPT ![t] = "validate"]
          /\ pc[t] = "epoch"
      BY <2>18 DEF storeEpoch
    <3>2. /\ ThLocalEpoch[t] <= epoch[t]
          /\ epoch[t] <= GlobalEpoch
          /\ TidsWithin(t, epoch[t])
      BY <3>1 DEF EpochInd
    <3>3. EpochWindow'
      BY <2>1, <3>1, <3>2 DEF EpochInd, EpochWindow
    <3>4. \A u \in Thread : TidsWithin(u, GlobalEpoch)'
      BY <3>1 DEF EpochInd, TidsWithin
    <3>5. \A u \in Thread :
            /\ pc'[u] = "epoch" => /\ ThLocalEpoch'[u] <= epoch'[u]
                                   /\ epoch'[u] <= GlobalEpoch'
                                   /\ TidsWithin(u, epoch[u])'
            /\ pc'[u] = "validate" => TidsWithin(u, ThLocalEpoch[u])'
      BY <2>1, <3>1, <3>2 DEF EpochInd, TidsWithin
    <3> QED
      BY <3>1, <3>3, <3>4, <3>5 DEF EpochInd
  \* A validated TID is one of the read set's, so within the published epoch.
  <2>19. ASSUME NEW t \in Thread, validateRead(t)
         PROVE  EpochInd'
    <3>1. UNCHANGED << GlobalEpoch, ThLocalEpoch, epoch, mrctid, rset, expected, tidword >>
      BY <2>19 DEF validateRead
    <3>2. CASE Goto(t, "unlock") /\ UNCHANGED maxset
      BY <2>1, <2>2, <3>1, <3>2, EpochQuiet
    <3>3. CASE /\ TidOf(tidword[rset[t][pos[t]].key]) = rset[t][pos[t]].tid
               /\ maxset' = [maxset EXCEPT ![t] =
                               MaxTid(@, TidOf(tidword[rset[t][pos[t]].key]))]
               /\ UNCHANGED pc
      <4>1. pc[t] = "validate" /\ TidsWithin(t, ThLocalEpoch[t])
        BY <2>19 DEF validateRead, EpochInd
      <4>2. rset[t][pos[t]].tid.epoch <= ThLocalEpoch[t]
        BY <2>19, <4>1 DEF validateRead, TidsWithin
      <4>3. /\ maxset'[t].epoch <= ThLocalEpoch[t]
            /\ \A u \in Thread \ {t} : maxset'[u] = maxset[u]
        BY <2>1, <3>3, <4>1, <4>2 DEF MaxTid, TidsWithin
      <4>4. ThLocalEpoch[t] <= GlobalEpoch
        BY DEF EpochInd, EpochWindow
      <4>5. maxset'[t].epoch \in Nat
        BY DEF TypeOK, Types, Tid
      <4>6. maxset'[t].epoch <= GlobalEpoch
        BY <2>1, <4>3, <4>4, <4>5
      <4>7. EpochWindow'
        BY <3>1, <3>3 DEF EpochInd, EpochWindow
      <4>8. \A u \in Thread : TidsWithin(u, GlobalEpoch)'
        BY <3>1, <4>3, <4>6 DEF EpochInd, TidsWithin
      <4>9. \A u \in Thread :
              /\ pc'[u] = "epoch" => /\ ThLocalEpoch'[u] <= epoch'[u]
                                     /\ epoch'[u] <= GlobalEpoch'
                                     /\ TidsWithin(u, epoch[u])'
              /\ pc'[u] = "validate" => TidsWithin(u, ThLocalEpoch[u])'
        BY <3>1, <3>3, <4>1, <4>3 DEF EpochInd, TidsWithin
      <4> QED
        BY <3>1, <4>7, <4>8, <4>9 DEF EpochInd
    <3> QED
      BY <2>19, <3>2, <3>3 DEF validateRead
  <2>20. ASSUME NEW t \in Thread, commit(t)
         PROVE  EpochInd'
    <3>1. /\ UNCHANGED << GlobalEpoch, ThLocalEpoch, epoch, maxset, rset, expected, tidword >>
          /\ mrctid' = [mrctid EXCEPT ![t] = commitTid(t)]
          /\ pc' = [pc EXCEPT ![t] = "install"]
          /\ pc[t] = "validate"
      BY <2>20 DEF commit
    <3>2. commitTid(t).epoch = ThLocalEpoch[t]
      BY <3>1, CommitTidEpoch DEF EpochInd, TypeOK
    <3>3. mrctid'[t].epoch = ThLocalEpoch[t] /\ \A u \in Thread \ {t} : mrctid'[u] = mrctid[u]
      BY <2>1, <3>1, <3>2
    <3>4. EpochWindow'
      BY <2>1, <3>1, <3>3 DEF EpochInd, EpochWindow
    <3>5. \A u \in Thread : TidsWithin(u, GlobalEpoch)'
      BY <3>1, <3>3 DEF EpochInd, EpochWindow, TidsWithin
    <3>6. \A u \in Thread :
            /\ pc'[u] = "epoch" => /\ ThLocalEpoch'[u] <= epoch'[u]
                                   /\ epoch'[u] <= GlobalEpoch'
                                   /\ TidsWithin(u, epoch[u])'
            /\ pc'[u] = "validate" => TidsWithin(u, ThLocalEpoch[u])'
      BY <2>1, <3>1, <3>3 DEF EpochInd, TidsWithin
    <3> QED
      BY <3>1, <3>4, <3>5, <3>6 DEF EpochInd
  <2>21. CASE Quit
    BY <2>21 DEF Quit, EpochInd, EpochWindow, TidsWithin
  <2>22. CASE UNCHANGED vars
    BY <2>22 DEF vars, EpochInd, EpochWindow, TidsWithin
  <2> QED
    BY <2>3, <2>4, <2>5, <2>6, <2>7, <2>8, <2>9, <2>10, <2>11, <2>12, <2>13,
       <2>14, <2>15, <2>16, <2>17, <2>18, <2>19, <2>20, <2>21, <2>22
    DEF Next, worker, Joined
<1> QED
  BY <1>1, <1>2, TypeCorrect, PTL DEF Spec

\* At most two epochs are live, and a commit TID is in the epoch its worker
\* published.
THEOREM EpochsAdvanceTogether == Spec => []EpochWindow
<1>1. EpochInd => EpochWindow
  BY DEF EpochInd
<1> QED
  BY <1>1, EpochInduction, PTL

-----------------------------------------------------------------------------
(* The serial order *)

\* No increment of a TID that a commit may do leaves the 29 bits of the field.
TidsFit ==
    \A t \in Thread : pc[t] = "validate" =>
        maxset[t].tid + 1 < TidSpan /\ mrctid[t].tid + 1 < TidSpan

TidLeq(a, b) == a = b \/ TidLess(a, b)

\* The TID of the loaded database.
FirstTid == [epoch |-> 1, tid |-> 0]

\* The version of k at place p of its order, 0 being the loaded one, and its TID.
VersionAt(k, p) == IF p = 0 THEN NoTxn ELSE order[k][p]
HasTid(k, p, x) ==
    IF p = 0 THEN x = FirstTid
             ELSE \E c \in committed : c.id = order[k][p] /\ c.tid = x

\* A worker has taken its place in the serial order, and not left it.
Placed(t) == pc[t] \in {"epoch", "validate", "install"}

\* A record is being overwritten.
Installing(k) == \E t \in Thread : k \in held[t] /\ pc[t] = "install"

\* Who has committed, under which number, and that only they install.
Identified ==
    /\ \A c, d \in committed : c.id = d.id => c = d
    /\ \A c \in committed :
          /\ c.id \in Thread \X (Nat \ {0})
          /\ \/ c.id[2] <= n[c.id[1]]
             \/ c.id = TxnId(c.id[1]) /\ pc[c.id[1]] = "install"
    /\ \A t \in Thread : pc[t] = "install" =>
          \E c \in committed : c.id = TxnId(t) /\ c.tid = mrctid[t]
    /\ \A k \in Key : \A i \in DOMAIN order[k] : \E c \in committed : c.id = order[k][i]
    /\ \A t \in Thread : pc[t] \in {"epoch", "validate"} => held[t] = wset[t]

\* Validation starts at the first entry of the read set.
Positioned ==
    \A t \in Thread : /\ pos[t] # 0
                      /\ pc[t] \in {"lock", "relock", "epoch"} => pos[t] = 1

\* A record has the TID of its last version, and every version a larger TID than
\* those before it, because who holds a record knows of a TID at least as large.
TidsRise ==
    /\ \A k \in Key : HasTid(k, Len(order[k]), TidOf(tidword[k]))
    /\ \A k \in Key : \A j \in DOMAIN order[k] : \A d \in committed :
          d.id = order[k][j] =>
             /\ TidLess(FirstTid, d.tid)
             /\ \A i \in DOMAIN order[k] : \A c \in committed :
                   c.id = order[k][i] /\ i < j => TidLess(c.tid, d.tid)
    /\ \A t \in Thread : \A k \in held[t] :
          IF pc[t] = "install" THEN TidLess(TidOf(tidword[k]), mrctid[t])
                               ELSE TidLeq(TidOf(tidword[k]), maxset[t])
    /\ \A k \in Key : TidLeq(FirstTid, TidOf(tidword[k]))

\* A worker's commit TIDs rise, up to its mrctid_.
WorkerTidsRise ==
    \A c \in committed :
        /\ TidLeq(c.tid, mrctid[c.id[1]])
        /\ \A d \in committed :
              c.id[1] = d.id[1] /\ c.id[2] < d.id[2] => TidLess(c.tid, d.tid)

\* The words of a record are of its last version, but while it is overwritten.
WordsHold ==
    /\ \A k \in Key : ~Installing(k) =>
          \A w \in Word : val[k][w] = VersionAt(k, Len(order[k]))
    /\ \A t \in Thread : pc[t] = "install" =>
          \A k \in held[t] : IsFirst(k, held[t]) =>
             \A w \in Word \ todo[t] : val[k][w] = TxnId(t)

\* While a TID word is what it was when a copy began, what has been copied is
\* what is there, but while the record is overwritten.
CopiesHold ==
    \A t \in Thread : pc[t] = "copy" =>
        /\ TidLeq(expected[t], TidOf(tidword[OpKey(t)]))
        /\ TidOf(tidword[OpKey(t)]) = expected[t] /\ ~Installing(OpKey(t)) =>
              \A w \in Word \ todo[t] : buf[t][w] = val[OpKey(t)][w]

\* What is placed, and in which epoch: the committed transactions and those that
\* validate.
Entry(i, e) == [id |-> i, epoch |-> e]
Places ==
    {Entry(c.id, c.tid.epoch) : c \in committed}
    \cup {Entry(TxnId(t), epoch[t]) : t \in {u \in Thread : pc[u] = "epoch"}}
    \cup {Entry(TxnId(t), ThLocalEpoch[t]) : t \in {u \in Thread : pc[u] = "validate"}}

\* Every version of k after place p is that of i itself or of one ranked after i,
\* and so will be the next.
Unspoilt(r, i, k, p) ==
    /\ \A q \in DOMAIN order[k] : p < q => order[k][q] = i \/ r[i] < r[order[k][q]]
    /\ \A u \in Thread : Placed(u) /\ k \in held[u] => TxnId(u) = i \/ r[i] < r[TxnId(u)]

\* The version at place p of k is the loaded one, or of one ranked before i.
Follows(r, i, k, p) == p > 0 => r[order[k][p]] < r[i]

\* An entry of a read set is of a version of the record, which the worker's place
\* follows; no later version is ranked before the worker once it is validated.
EntryHolds(r, t, i) ==
    LET e == rset[t][i] IN
    \E p \in 0 .. Len(order[e.key]) :
        /\ HasTid(e.key, p, e.tid)
        /\ \A w \in Word : e.val[w] = VersionAt(e.key, p)
        /\ Placed(t) => Follows(r, TxnId(t), e.key, p)
        /\ pc[t] = "install" \/ (pc[t] = "validate" /\ i < pos[t])
              => Unspoilt(r, TxnId(t), e.key, p)

ReadHolds(r, c, e) ==
    \E p \in 0 .. Len(order[e.key]) :
        /\ e.ver = VersionAt(e.key, p)
        /\ Follows(r, c.id, e.key, p)
        /\ Unspoilt(r, c.id, e.key, p)

\* The ranking r, all below now, agrees with epochs, versions and reads.
Ranked(r, now) ==
    /\ \A x \in Places : r[x.id] < now /\ x.epoch <= GlobalEpoch
    /\ \A x, y \in Places : r[x.id] < r[y.id] => x.epoch <= y.epoch
    /\ \A k \in Key : \A i, j \in DOMAIN order[k] :
          i < j => r[order[k][i]] < r[order[k][j]]
    /\ \A t \in Thread : Placed(t) =>
          \A k \in held[t] : \A i \in DOMAIN order[k] : r[order[k][i]] < r[TxnId(t)]
    /\ \A t \in Thread : \A i \in DOMAIN rset[t] : EntryHolds(r, t, i)
    /\ \A c \in committed : \A e \in c.reads : ReadHolds(r, c, e)

-----------------------------------------------------------------------------
(* TIDs *)

\* Tidword::obj_: TIDs are linearly ordered.
LEMMA TidsOrdered ==
    ASSUME NEW a \in Tid, NEW b \in Tid
    PROVE  /\ TidLess(a, b) \/ a = b \/ TidLess(b, a)
           /\ ~(TidLess(a, b) /\ TidLess(b, a))
           /\ ~TidLess(a, a)
<1>1. a.epoch \in Nat /\ a.tid \in Int /\ b.epoch \in Nat /\ b.tid \in Int
  BY SiloAssumption DEF Tid
<1>2. a.epoch = b.epoch /\ a.tid = b.tid => a = b
  BY DEF Tid
<1> QED
  BY <1>1, <1>2 DEF TidLess

LEMMA TidLeqLess ==
    ASSUME NEW a \in Tid, NEW b \in Tid, NEW c \in Tid
    PROVE  /\ TidLeq(a, b) /\ TidLess(b, c) => TidLess(a, c)
           /\ TidLess(a, b) /\ TidLeq(b, c) => TidLess(a, c)
           /\ TidLeq(a, b) /\ TidLeq(b, c) => TidLeq(a, c)
<1>1. /\ a.epoch \in Nat /\ b.epoch \in Nat /\ c.epoch \in Nat
      /\ a.tid \in Int /\ b.tid \in Int /\ c.tid \in Int
  BY SiloAssumption DEF Tid
<1> QED
  BY <1>1 DEF TidLeq, TidLess

LEMMA MaxTidAbove ==
    ASSUME NEW a \in Tid, NEW b \in Tid
    PROVE  TidLeq(a, MaxTid(a, b)) /\ TidLeq(b, MaxTid(a, b))
BY TidsOrdered DEF MaxTid, TidLeq

LEMMA IncTidAbove ==
    ASSUME NEW a \in Tid, a.tid + 1 < TidSpan
    PROVE  TidLess(a, IncTid(a))
<1>1. (a.tid + 1) % TidSpan = a.tid + 1
  BY SiloAssumption DEF Tid
<1>2. IncTid(a).tid = a.tid + 1 /\ IncTid(a).epoch = a.epoch /\ a.tid \in Int
  BY <1>1, SiloAssumption DEF IncTid, Tid
<1> QED
  BY <1>2 DEF TidLess

\* (a) and (b) of writePhase: the commit TID is above all that the transaction
\* has met and all that its worker chose before.
LEMMA CommitTidAbove ==
    ASSUME Types, TidsFit, NEW t \in Thread, pc[t] = "validate"
    PROVE  TidLess(maxset[t], commitTid(t)) /\ TidLess(mrctid[t], commitTid(t))
<1> DEFINE a == IncTid(maxset[t])
           b == IncTid(mrctid[t])
           c == [epoch |-> ThLocalEpoch[t], tid |-> 0]
<1>1. maxset[t] \in Tid /\ mrctid[t] \in Tid
  BY DEF Types
<1>2. a \in Tid /\ b \in Tid
  BY <1>1, IncTidType
<1>3. c \in Tid
  BY SiloAssumption DEF Types, Tid
<1>4. TidLess(maxset[t], a) /\ TidLess(mrctid[t], b)
  BY <1>1, IncTidAbove DEF TidsFit
<1> HIDE DEF a, b, c
<1>5. MaxTid(a, b) \in Tid /\ MaxTid(MaxTid(a, b), c) \in Tid
  BY <1>2, <1>3, MaxTidType
<1>6. TidLeq(a, MaxTid(a, b)) /\ TidLeq(b, MaxTid(a, b))
  BY <1>2, MaxTidAbove
<1>7. TidLeq(MaxTid(a, b), MaxTid(MaxTid(a, b), c))
  BY <1>3, <1>5, MaxTidAbove
<1>8. TidLess(maxset[t], MaxTid(MaxTid(a, b), c)) /\ TidLess(mrctid[t], MaxTid(MaxTid(a, b), c))
  BY <1>1, <1>2, <1>4, <1>5, <1>6, <1>7, TidLeqLess
<1> QED
  BY <1>8 DEF commitTid, a, b, c

-----------------------------------------------------------------------------
(* What a step leaves alone *)

\* A worker changes nothing of another worker's.
LEMMA OthersStay ==
    ASSUME Types, NEW t \in Thread, worker(t), NEW u \in Thread, u # t
    PROVE  /\ pc'[u] = pc[u] /\ pro'[u] = pro[u] /\ pos'[u] = pos[u]
           /\ rset'[u] = rset[u] /\ wset'[u] = wset[u] /\ held'[u] = held[u]
           /\ expected'[u] = expected[u] /\ todo'[u] = todo[u] /\ buf'[u] = buf[u]
           /\ maxset'[u] = maxset[u] /\ mrctid'[u] = mrctid[u] /\ n'[u] = n[u]
           /\ epoch'[u] = epoch[u] /\ ThLocalEpoch'[u] = ThLocalEpoch[u]
           /\ logset'[u] = logset[u] /\ logfile'[u] = logfile[u]
<1> USE DEF control, epochs, copying, logs, history, txnsets, Goto, Advance, Types
<1>1. CASE NextProcedure(t) \/ (t = Leader /\ leaderWork) \/ begin(t)
  BY <1>1 DEF NextProcedure, leaderWork, begin
<1>2. CASE write(t) \/ readLocal(t) \/ readTid(t) \/ readCopy(t)
  BY <1>2 DEF write, readLocal, readTid, readCopy
<1>3. CASE readCheck(t)
  BY <1>3 DEF readCheck
<1>4. CASE lockRecord(t) \/ lockFailed(t) \/ loadEpoch(t) \/ storeEpoch(t)
  BY <1>4 DEF lockRecord, lockFailed, loadEpoch, storeEpoch
<1>5. CASE validateRead(t)
  BY <1>5 DEF validateRead
<1>6. CASE unlockRecord(t) \/ relock(t) \/ abort(t)
  BY <1>6 DEF unlockRecord, relock, abort
<1>7. CASE commit(t)
  BY <1>7 DEF commit, wal
<1>8. CASE installWord(t) \/ installTid(t) \/ finish(t)
  BY <1>8 DEF installWord, installTid, finish
<1> QED
  BY <1>1, <1>2, <1>3, <1>4, <1>5, <1>6, <1>7, <1>8 DEF worker

\* The histories only grow: a transaction by a commit, a version by installTid.
LEMMA HistoryGrows ==
    ASSUME Types, NEW t \in Thread, worker(t)
    PROVE  /\ \/ UNCHANGED committed
              \/ /\ commit(t)
                 /\ committed' = committed \cup
                        {[id |-> TxnId(t), reads |-> ReadVersions(t), tid |-> commitTid(t)]}
           /\ \/ UNCHANGED order
              \/ /\ installTid(t)
                 /\ \E k \in held[t] : /\ IsFirst(k, held[t])
                                       /\ order' = [order EXCEPT ![k] = Append(@, TxnId(t))]
<1> USE DEF control, epochs, copying, logs, history, txnsets
<1>1. CASE commit(t)
  <2>1. UNCHANGED order /\ committed' = committed \cup
            {[id |-> TxnId(t), reads |-> ReadVersions(t), tid |-> commitTid(t)]}
    BY <1>1 DEF commit
  <2> QED
    BY <1>1, <2>1
<1>2. CASE installTid(t)
  <2>1. UNCHANGED committed /\ \E k \in held[t] :
            IsFirst(k, held[t]) /\ order' = [order EXCEPT ![k] = Append(@, TxnId(t))]
    BY <1>2 DEF installTid
  <2> QED
    BY <1>2, <2>1
<1>3. ASSUME UNCHANGED << committed, order >>
      PROVE  UNCHANGED committed /\ UNCHANGED order
  BY <1>3
<1>4. CASE NextProcedure(t) \/ (t = Leader /\ leaderWork) \/ begin(t)
  BY <1>4, <1>3 DEF NextProcedure, leaderWork, begin
<1>5. CASE write(t) \/ readLocal(t) \/ readTid(t) \/ readCopy(t) \/ readCheck(t)
  BY <1>5, <1>3 DEF write, readLocal, readTid, readCopy, readCheck
<1>6. CASE lockRecord(t) \/ lockFailed(t) \/ loadEpoch(t) \/ storeEpoch(t)
  BY <1>6, <1>3 DEF lockRecord, lockFailed, loadEpoch, storeEpoch
<1>7. CASE validateRead(t) \/ unlockRecord(t) \/ relock(t) \/ abort(t)
  BY <1>7, <1>3 DEF validateRead, unlockRecord, relock, abort
<1>8. CASE installWord(t) \/ finish(t)
  BY <1>8, <1>3 DEF installWord, finish
<1> QED
  BY <1>1, <1>2, <1>4, <1>5, <1>6, <1>7, <1>8 DEF worker

\* The versions there are keep their places and their TIDs.
LEMMA VersionsKept ==
    ASSUME Types, NEW t \in Thread, worker(t), NEW k \in Key
    PROVE  /\ order[k] \in Seq(Txn) /\ Len(order[k]) \in Nat
           /\ Len(order[k]) <= Len(order'[k])
           /\ \A i \in DOMAIN order[k] : i \in DOMAIN order'[k] /\ order'[k][i] = order[k][i]
           /\ \A p \in 0 .. Len(order[k]) :
                 /\ p \in 0 .. Len(order'[k])
                 /\ VersionAt(k, p)' = VersionAt(k, p)
                 /\ \A x \in Tid : HasTid(k, p, x) => HasTid(k, p, x)'
<1>1. order[k] \in Seq(Txn) /\ Len(order[k]) \in Nat /\ DOMAIN order[k] = 1 .. Len(order[k])
  BY DEF Types
<1>2. order'[k] = order[k] \/ order'[k] = Append(order[k], TxnId(t))
  <2>1. order \in [Key -> Seq(Txn)]
    BY DEF Types
  <2>2. \/ UNCHANGED order
        \/ \E j \in held[t] : order' = [order EXCEPT ![j] = Append(@, TxnId(t))]
    BY HistoryGrows
  <2> QED
    BY <2>1, <2>2
<1>3. /\ Len(order'[k]) \in Nat /\ Len(order[k]) <= Len(order'[k])
      /\ DOMAIN order'[k] = 1 .. Len(order'[k])
      /\ \A i \in DOMAIN order[k] : order'[k][i] = order[k][i]
  <2>1. TxnId(t) \in Txn
    BY TxnIdType
  <2> HIDE DEF TxnId
  <2> QED
    BY <1>1, <1>2, <2>1
<1>4. committed \subseteq committed'
  BY HistoryGrows
<1>5. ASSUME NEW p \in 0 .. Len(order[k])
      PROVE  /\ p \in 0 .. Len(order'[k])
             /\ VersionAt(k, p)' = VersionAt(k, p)
             /\ \A x \in Tid : HasTid(k, p, x) => HasTid(k, p, x)'
  <2>1. p = 0 \/ p \in DOMAIN order[k]
    BY <1>1
  <2>2. VersionAt(k, p)' = VersionAt(k, p)
    BY <1>3, <2>1 DEF VersionAt
  <2>3. \A x \in Tid : HasTid(k, p, x) => HasTid(k, p, x)'
    BY <1>3, <1>4, <2>1 DEF HasTid
  <2>4. p \in 0 .. Len(order'[k])
    BY <1>1, <1>3
  <2> QED
    BY <2>2, <2>3, <2>4
<1> QED
  BY <1>1, <1>3, <1>5

-----------------------------------------------------------------------------
(* Who has committed *)

\* The transaction that a worker runs has not committed before it installs.
LEMMA FreshTxn ==
    ASSUME Types, Identified, NEW t \in Thread, pc[t] # "install"
    PROVE  \A c \in committed : c.id # TxnId(t)
<1> SUFFICES ASSUME NEW c \in committed, c.id = TxnId(t) PROVE FALSE
  OBVIOUS
<1>1. n[t] \in Nat
  BY DEF Types
<1>2. c.id[1] = t /\ c.id[2] = n[t] + 1
  BY DEF TxnId
<1>3. c.id[2] <= n[t]
  BY <1>2 DEF Identified
<1> QED
  BY <1>1, <1>2, <1>3

LEMMA TxnIdsDiffer ==
    ASSUME NEW t \in Thread, NEW u \in Thread, t # u
    PROVE  TxnId(t) # TxnId(u)
BY DEF TxnId

\* A step that neither commits nor ends a write phase.
LEMMA IdentifiedQuiet ==
    ASSUME Types, Identified, NEW t \in Thread, worker(t),
           UNCHANGED << committed, order, n, mrctid >>,
           pc'[t] = "install" <=> pc[t] = "install",
           pc'[t] \in {"epoch", "validate"} => held'[t] = wset'[t]
    PROVE  Identified'
<1>1. \A u \in Thread : u # t => pc'[u] = pc[u] /\ held'[u] = held[u] /\ wset'[u] = wset[u]
  BY OthersStay
<1>2. \A u \in Thread : pc'[u] = "install" <=> pc[u] = "install"
  BY <1>1
<1>3. \A u \in Thread : TxnId(u)' = TxnId(u)
  BY DEF TxnId
<1>4. \A u \in Thread : pc'[u] \in {"epoch", "validate"} => held'[u] = wset'[u]
  BY <1>1 DEF Identified
<1>5. /\ \A c, d \in committed' : c.id = d.id => c = d
      /\ \A k \in Key : \A i \in DOMAIN order'[k] : \E c \in committed' : c.id = order'[k][i]
  BY DEF Identified
<1>6. \A c \in committed' :
          /\ c.id \in Thread \X (Nat \ {0})
          /\ \/ c.id[2] <= n'[c.id[1]]
             \/ c.id = TxnId(c.id[1])' /\ pc'[c.id[1]] = "install"
  <2> SUFFICES ASSUME NEW c \in committed
               PROVE  /\ c.id \in Thread \X (Nat \ {0})
                      /\ \/ c.id[2] <= n[c.id[1]]
                         \/ c.id = TxnId(c.id[1])' /\ pc'[c.id[1]] = "install"
    OBVIOUS
  <2>1. c.id \in Thread \X (Nat \ {0}) /\ c.id[1] \in Thread
    BY DEF Identified
  <2> DEFINE u == c.id[1]
  <2>2. TxnId(c.id[1])' = TxnId(c.id[1])
    BY DEF TxnId
  <2>3. pc[u] = "install" => pc'[u] = "install"
    BY <1>2, <2>1
  <2> QED
    BY <2>1, <2>2, <2>3 DEF Identified
<1>7. \A u \in Thread : pc'[u] = "install" =>
          \E c \in committed' : c.id = TxnId(u)' /\ c.tid = mrctid'[u]
  BY <1>2, <1>3 DEF Identified
<1> QED
  BY <1>4, <1>5, <1>6, <1>7 DEF Identified

\* Only commit enters the write phase, and only finish leaves it.
LEMMA QuietStep ==
    ASSUME TypeOK, NEW t \in Thread, worker(t), ~commit(t), ~installTid(t), ~finish(t)
    PROVE  /\ UNCHANGED << committed, order, n, mrctid >>
           /\ pc'[t] = "install" <=> pc[t] = "install"
           /\ Identified /\ pc'[t] \in {"epoch", "validate"} => held'[t] = wset'[t]
<1> USE DEF control, epochs, copying, logs, history, txnsets, Goto
<1>0. pc \in [Thread -> Label] /\ held \in [Thread -> SUBSET Key] /\ wset \in [Thread -> SUBSET Key]
  BY DEF TypeOK, Types
<1>1. CASE NextProcedure(t) \/ (t = Leader /\ leaderWork) \/ begin(t)
  BY <1>0, <1>1 DEF NextProcedure, leaderWork, begin
<1>2. CASE write(t) \/ readLocal(t)
  <2>1. pc[t] = "exec" /\ Advance(t) /\ UNCHANGED << committed, order, n, mrctid >>
    BY <1>2 DEF write, readLocal, Executes
  <2> QED
    BY <1>0, <2>1 DEF Advance
<1>3. CASE readTid(t) \/ readCopy(t)
  BY <1>0, <1>3 DEF readTid, readCopy, Executes
<1>4. CASE readCheck(t)
  BY <1>0, <1>4 DEF readCheck, Advance
<1>5. CASE lockRecord(t) \/ lockFailed(t)
  BY <1>0, <1>5, SiloAssumption DEF lockRecord, lockFailed
<1>6. CASE loadEpoch(t) \/ storeEpoch(t)
  <2>1. UNCHANGED << held, wset, committed, order, n, mrctid >>
    BY <1>6 DEF loadEpoch, storeEpoch
  <2>2. CASE loadEpoch(t)
    BY <1>0, <2>1, <2>2 DEF loadEpoch
  <2>3. CASE storeEpoch(t)
    BY <1>0, <2>1, <2>3 DEF storeEpoch, Identified
  <2> QED
    BY <1>6, <2>2, <2>3
<1>7. CASE validateRead(t)
  <2>1. /\ UNCHANGED << held, wset, committed, order, n, mrctid >>
        /\ pc[t] = "validate"
        /\ UNCHANGED pc \/ pc' = [pc EXCEPT ![t] = "unlock"]
    BY <1>7 DEF validateRead
  <2> QED
    BY <1>0, <2>1 DEF Identified
<1>8. CASE unlockRecord(t) \/ relock(t) \/ abort(t)
  BY <1>0, <1>8 DEF unlockRecord, relock, abort
<1>9. CASE installWord(t)
  BY <1>9 DEF installWord
<1> QED
  BY <1>1, <1>2, <1>3, <1>4, <1>5, <1>6, <1>7, <1>8, <1>9 DEF worker

LEMMA IdentifiedStep ==
    ASSUME TypeOK, Identified, [Next]_vars
    PROVE  Identified'
<1> USE DEF control, epochs, copying, logs, history, txnsets, Goto
<1>1. CASE Quit \/ Joined \/ UNCHANGED vars
  <2>1. UNCHANGED << committed, order, n, mrctid, pc, held, wset >>
    BY <1>1 DEF Quit, Joined, vars
  <2> QED
    BY <2>1 DEF Identified, TxnId
<1>2. ASSUME NEW t \in Thread, worker(t), ~commit(t), ~installTid(t), ~finish(t)
      PROVE  Identified'
  BY <1>2, QuietStep, IdentifiedQuiet DEF TypeOK
<1>3. ASSUME NEW t \in Thread, commit(t)
      PROVE  Identified'
  <2> DEFINE new == [id |-> TxnId(t), reads |-> ReadVersions(t), tid |-> commitTid(t)]
  <2>1. /\ pc[t] = "validate" /\ pc' = [pc EXCEPT ![t] = "install"]
        /\ committed' = committed \cup {new}
        /\ mrctid' = [mrctid EXCEPT ![t] = commitTid(t)]
        /\ UNCHANGED << order, n, held, wset >>
    BY <1>3 DEF commit
  <2>2. pc \in [Thread -> Label] /\ mrctid \in [Thread -> Tid] /\ n[t] \in Nat
    BY DEF TypeOK, Types
  <2>3. new.id = TxnId(t) /\ new.tid = commitTid(t)
    OBVIOUS
  <2>4. \A c \in committed : c.id # new.id
    BY <2>1, FreshTxn DEF TypeOK
  <2>5. new.id \in Thread \X (Nat \ {0}) /\ new.id[1] = t
    BY <2>2 DEF TxnId
  <2> HIDE DEF new
  <2>6. \A u \in Thread : TxnId(u)' = TxnId(u)
    BY <2>1 DEF TxnId
  <2>7. \A c, d \in committed' : c.id = d.id => c = d
    BY <2>1, <2>4 DEF Identified
  <2>8. \A c \in committed' :
          /\ c.id \in Thread \X (Nat \ {0})
          /\ \/ c.id[2] <= n'[c.id[1]]
             \/ c.id = TxnId(c.id[1])' /\ pc'[c.id[1]] = "install"
    <3>1. ASSUME NEW c \in committed
          PROVE  /\ c.id \in Thread \X (Nat \ {0})
                 /\ \/ c.id[2] <= n[c.id[1]]
                    \/ c.id = TxnId(c.id[1])' /\ pc'[c.id[1]] = "install"
      <4>1. c.id[1] \in Thread
        BY DEF Identified
      <4>2. TxnId(c.id[1])' = TxnId(c.id[1])
        BY <2>1 DEF TxnId
      <4>3. pc[c.id[1]] = "install" => pc'[c.id[1]] = "install"
        BY <2>1, <2>2, <4>1
      <4> QED
        BY <4>2, <4>3 DEF Identified
    <3>2. ASSUME NEW c \in committed', c = new
          PROVE  /\ c.id \in Thread \X (Nat \ {0})
                 /\ c.id = TxnId(c.id[1])' /\ pc'[c.id[1]] = "install"
      <4>1. c.id = TxnId(t) /\ c.id[1] = t /\ c.id \in Thread \X (Nat \ {0})
        BY <2>3, <2>5, <3>2
      <4>2. TxnId(c.id[1])' = TxnId(t)
        BY <2>1, <4>1 DEF TxnId
      <4>3. pc'[c.id[1]] = "install"
        BY <2>1, <2>2, <4>1
      <4> QED
        BY <4>1, <4>2, <4>3
    <3>3. ASSUME NEW c \in committed'
          PROVE  c \in committed \/ c = new
      BY <2>1, <3>3
    <3> QED
      BY <2>1, <3>1, <3>2, <3>3
  <2>9. \A u \in Thread : pc'[u] = "install" =>
            \E c \in committed' : c.id = TxnId(u)' /\ c.tid = mrctid'[u]
    <3>1. ASSUME NEW u \in Thread, u # t, pc'[u] = "install"
          PROVE  \E c \in committed' : c.id = TxnId(u) /\ c.tid = mrctid'[u]
      <4>1. pc[u] = "install" /\ mrctid'[u] = mrctid[u]
        BY <2>1, <2>2, <3>1
      <4> QED
        BY <2>1, <4>1 DEF Identified
    <3>2. mrctid'[t] = commitTid(t)
      BY <2>1, <2>2
    <3> QED
      BY <2>1, <2>3, <2>6, <3>1, <3>2
  <2>10. \A k \in Key : \A i \in DOMAIN order'[k] : \E c \in committed' : c.id = order'[k][i]
    BY <2>1 DEF Identified
  <2>11. \A u \in Thread : pc'[u] \in {"epoch", "validate"} => held'[u] = wset'[u]
    BY <2>1, <2>2 DEF Identified
  <2> QED
    BY <2>7, <2>8, <2>9, <2>10, <2>11 DEF Identified
<1>4. ASSUME NEW t \in Thread, installTid(t)
      PROVE  Identified'
  <2>1. /\ pc[t] = "install"
        /\ UNCHANGED << pc, committed, mrctid, n, wset >>
    BY <1>4 DEF installTid
  <2>2. PICK k \in held[t] : order' = [order EXCEPT ![k] = Append(@, TxnId(t))]
    BY <1>4 DEF installTid
  <2>3. \A u \in Thread : u # t => held'[u] = held[u]
    BY <1>4, OthersStay DEF worker, TypeOK
  <2>4. \A u \in Thread : TxnId(u)' = TxnId(u)
    BY <2>1 DEF TxnId
  <2>5. \A j \in Key : \A i \in DOMAIN order'[j] : \E c \in committed' : c.id = order'[j][i]
    <3>1. PICK c \in committed : c.id = TxnId(t)
      BY <2>1 DEF Identified
    <3>2. order \in [Key -> Seq(Txn)]
      BY DEF TypeOK, Types
    <3>3. TxnId(t) \in Txn
      BY TxnIdType DEF TypeOK
    <3>4. ASSUME NEW j \in Key, NEW i \in DOMAIN order'[j]
          PROVE  order'[j][i] = TxnId(t) \/ (i \in DOMAIN order[j] /\ order'[j][i] = order[j][i])
      <4>1. order'[j] = order[j] \/ order'[j] = Append(order[j], TxnId(t))
        BY <2>2, <3>2
      <4>2. order[j] \in Seq(Txn)
        BY <3>2
      <4> HIDE DEF TxnId
      <4> QED
        BY <3>3, <3>4, <4>1, <4>2
    <3> QED
      BY <2>1, <3>1, <3>4 DEF Identified
  <2>6. \A u \in Thread : pc'[u] \in {"epoch", "validate"} => held'[u] = wset'[u]
    BY <2>1, <2>3 DEF Identified
  <2>7. \A c \in committed' :
          /\ c.id \in Thread \X (Nat \ {0})
          /\ \/ c.id[2] <= n'[c.id[1]]
             \/ c.id = TxnId(c.id[1])' /\ pc'[c.id[1]] = "install"
    BY <2>1 DEF Identified, TxnId
  <2> QED
    BY <2>1, <2>4, <2>5, <2>6, <2>7 DEF Identified
<1>5. ASSUME NEW t \in Thread, finish(t)
      PROVE  Identified'
  <2>1. /\ pc[t] = "install" /\ pc' = [pc EXCEPT ![t] = "idle"]
        /\ n' = [n EXCEPT ![t] = @ + 1]
        /\ UNCHANGED << committed, order, mrctid, held >>
    BY <1>5 DEF finish
  <2>2. pc \in [Thread -> Label] /\ n \in [Thread -> Nat]
    BY DEF TypeOK, Types
  <2>3. \A u \in Thread : u # t => TxnId(u)' = TxnId(u) /\ pc'[u] = pc[u] /\ wset'[u] = wset[u]
    <3>1. worker(t)
      BY <1>5 DEF worker
    <3>2. \A u \in Thread : u # t => wset'[u] = wset[u]
      BY <3>1, OthersStay DEF TypeOK
    <3> QED
      BY <2>1, <2>2, <3>2 DEF TxnId
  <2>4. ASSUME NEW c \in committed'
        PROVE  /\ c.id \in Thread \X (Nat \ {0})
               /\ \/ c.id[2] <= n'[c.id[1]]
                  \/ c.id = TxnId(c.id[1])' /\ pc'[c.id[1]] = "install"
    <3>1. /\ c.id \in Thread \X (Nat \ {0})
          /\ \/ c.id[2] <= n[c.id[1]]
             \/ c.id = TxnId(c.id[1]) /\ pc[c.id[1]] = "install"
      BY <2>1 DEF Identified
    <3>2. CASE c.id[1] = t
      <4>1. n'[t] = n[t] + 1 /\ n[t] \in Nat
        BY <2>1, <2>2
      <4>2. c.id[2] \in Nat
        BY <3>1
      <4>3. c.id[2] <= n[t] + 1
        <5>1. TxnId(t)[2] = n[t] + 1
          BY DEF TxnId
        <5> QED
          BY <3>1, <3>2, <4>1, <4>2, <5>1
      <4> QED
        BY <3>1, <3>2, <4>1, <4>3
    <3>3. CASE c.id[1] # t
      <4>1. /\ c.id[1] \in Thread
            /\ n'[c.id[1]] = n[c.id[1]] /\ pc'[c.id[1]] = pc[c.id[1]]
        BY <2>1, <2>2, <3>1, <3>3
      <4>2. TxnId(c.id[1])' = TxnId(c.id[1])
        BY <4>1 DEF TxnId
      <4> QED
        BY <3>1, <4>1, <4>2
    <3> QED
      BY <3>2, <3>3
  <2>5. pc'[t] = "idle"
    BY <2>1, <2>2
  <2>6. \A u \in Thread : pc'[u] = "install" =>
            \E c \in committed' : c.id = TxnId(u)' /\ c.tid = mrctid'[u]
    BY <2>1, <2>3, <2>5 DEF Identified
  <2>7. \A u \in Thread : pc'[u] \in {"epoch", "validate"} => held'[u] = wset'[u]
    BY <2>1, <2>3, <2>5 DEF Identified
  <2>8. /\ \A c, d \in committed' : c.id = d.id => c = d
        /\ \A k \in Key : \A i \in DOMAIN order'[k] : \E c \in committed' : c.id = order'[k][i]
    BY <2>1 DEF Identified
  <2> QED
    BY <2>4, <2>6, <2>7, <2>8 DEF Identified
<1> QED
  BY <1>1, <1>2, <1>3, <1>4, <1>5 DEF Next

-----------------------------------------------------------------------------
(* The TIDs of the versions *)

LEMMA CommittedTids ==
    ASSUME Types
    PROVE  /\ \A c \in committed : c.tid \in Tid
           /\ \A k \in Key : TidOf(tidword[k]) \in Tid
           /\ \A t \in Thread : maxset[t] \in Tid /\ mrctid[t] \in Tid
           /\ FirstTid \in Tid
<1>1. \A c \in committed : c.tid \in Tid
  BY DEF Types
<1>2. \A t \in Thread : maxset[t] \in Tid /\ mrctid[t] \in Tid
  BY DEF Types
<1>3. FirstTid \in Tid
  BY SiloAssumption DEF FirstTid, Tid
<1> QED
  BY <1>1, <1>2, <1>3, TidOfType

\* No version has a larger TID than the record, and only the last has as large a one.
LEMMA CurrentVersion ==
    ASSUME Types, Identified, TidsRise, NEW k \in Key
    PROVE  /\ \A i \in DOMAIN order[k] : \A c \in committed :
                 c.id = order[k][i] => TidLeq(c.tid, TidOf(tidword[k]))
           /\ \A p \in 0 .. Len(order[k]) :
                 HasTid(k, p, TidOf(tidword[k])) => p = Len(order[k])
<1> DEFINE last == Len(order[k])
           x == TidOf(tidword[k])
<1>1. order[k] \in Seq(Txn) /\ last \in Nat /\ DOMAIN order[k] = 1 .. last
  BY DEF Types
<1>2. HasTid(k, last, x) /\ TidLeq(FirstTid, x)
  BY DEF TidsRise
<1>3. x \in Tid /\ \A c \in committed : c.tid \in Tid
  BY CommittedTids
<1>4. ASSUME NEW i \in DOMAIN order[k], NEW c \in committed, c.id = order[k][i]
      PROVE  TidLeq(c.tid, x) /\ (i # last => TidLess(c.tid, x))
  <2>1. i \in 1 .. last /\ last # 0 /\ last \in DOMAIN order[k]
    BY <1>1, <1>4
  <2>2. PICK d \in committed : d.id = order[k][last] /\ d.tid = x
    BY <1>2, <2>1 DEF HasTid
  <2>3. CASE i = last
    <3>1. c = d
      BY <1>4, <2>2, <2>3 DEF Identified
    <3> QED
      BY <2>2, <2>3, <3>1 DEF TidLeq
  <2>4. CASE i # last
    <3>1. i < last
      BY <1>1, <2>1, <2>4
    <3>2. TidLess(c.tid, d.tid)
      BY <1>4, <2>1, <2>2, <3>1 DEF TidsRise
    <3> QED
      BY <2>2, <3>2 DEF TidLeq
  <2> QED
    BY <2>3, <2>4
<1>5. ASSUME NEW p \in 0 .. last, HasTid(k, p, x), p # last
      PROVE  FALSE
  <2>1. last \in DOMAIN order[k] /\ last # 0 /\ p < last
    BY <1>1, <1>5
  <2>2. PICK d \in committed : d.id = order[k][last] /\ d.tid = x
    BY <1>2, <2>1 DEF HasTid
  <2>3. CASE p = 0
    <3>1. x = FirstTid
      BY <1>5, <2>3 DEF HasTid
    <3>2. TidLess(FirstTid, d.tid)
      BY <2>1, <2>2 DEF TidsRise
    <3> QED
      BY <1>3, <2>2, <3>1, <3>2, TidsOrdered
  <2>4. CASE p # 0
    <3>1. p \in DOMAIN order[k]
      BY <1>1, <2>4
    <3>2. PICK c \in committed : c.id = order[k][p] /\ c.tid = x
      BY <1>5, <2>4 DEF HasTid
    <3>3. TidLess(c.tid, x)
      BY <1>4, <1>5, <3>1, <3>2
    <3> QED
      BY <1>3, <3>2, <3>3, TidsOrdered
  <2> QED
    BY <2>3, <2>4
<1> QED
  BY <1>4, <1>5

\* Only installTid changes the TID of a record.
LEMMA TidsStay ==
    ASSUME TypeOK, NEW t \in Thread, worker(t), ~installTid(t)
    PROVE  \A k \in Key : TidOf(tidword[k])' = TidOf(tidword[k])
<1> USE DEF control, epochs, copying, logs, history, txnsets
<1>0. tidword \in [Key -> [epoch : Nat, tid : 0 .. TidSpan - 1, lock : BOOLEAN]]
  BY DEF TypeOK, Types
<1>1. CASE lockRecord(t) \/ unlockRecord(t)
  <2>1. \E k \in Key, b \in BOOLEAN : tidword' = [tidword EXCEPT ![k].lock = b]
    BY <1>1 DEF lockRecord, unlockRecord, TypeOK, Types
  <2> QED
    BY <1>0, <2>1 DEF TidOf
<1>2. ASSUME UNCHANGED tidword
      PROVE  \A k \in Key : TidOf(tidword[k])' = TidOf(tidword[k])
  BY <1>2 DEF TidOf
<1>3. CASE NextProcedure(t) \/ (t = Leader /\ leaderWork) \/ begin(t)
  BY <1>2, <1>3 DEF NextProcedure, leaderWork, begin
<1>4. CASE write(t) \/ readLocal(t) \/ readTid(t) \/ readCopy(t) \/ readCheck(t)
  BY <1>2, <1>4 DEF write, readLocal, readTid, readCopy, readCheck
<1>5. CASE lockFailed(t) \/ loadEpoch(t) \/ storeEpoch(t) \/ validateRead(t)
  BY <1>2, <1>5 DEF lockFailed, loadEpoch, storeEpoch, validateRead
<1>6. CASE relock(t) \/ abort(t) \/ commit(t) \/ installWord(t) \/ finish(t)
  BY <1>2, <1>6 DEF relock, abort, commit, installWord, finish
<1> QED
  BY <1>1, <1>3, <1>4, <1>5, <1>6 DEF worker

\* A step that installs no TID, if the worker still knows of the TIDs it holds.
LEMMA TidsRiseQuiet ==
    ASSUME TypeOK, Identified, TidsRise, NEW t \in Thread, worker(t), ~installTid(t),
           \A k \in held'[t] : IF pc'[t] = "install"
                               THEN TidLess(TidOf(tidword[k]), mrctid'[t])
                               ELSE TidLeq(TidOf(tidword[k]), maxset'[t]),
           held'[t] \subseteq Key
    PROVE  TidsRise'
<1>1. UNCHANGED order
  BY HistoryGrows DEF TypeOK
<1>2. \A k \in Key : TidOf(tidword[k])' = TidOf(tidword[k])
  BY TidsStay
<1>3. ASSUME NEW k \in Key
      PROVE  HasTid(k, Len(order[k]), TidOf(tidword[k]))'
  <2>1. committed \subseteq committed'
    BY HistoryGrows DEF TypeOK
  <2>2. HasTid(k, Len(order[k]), TidOf(tidword[k]))
    BY DEF TidsRise
  <2>3. TidOf(tidword[k])' = TidOf(tidword[k])
    BY <1>2
  <2> QED
    BY <1>1, <2>1, <2>2, <2>3 DEF HasTid
<1>4. ASSUME NEW k \in Key, NEW j \in DOMAIN order'[k], NEW d \in committed', d.id = order'[k][j]
      PROVE  d \in committed /\ j \in DOMAIN order[k] /\ d.id = order[k][j]
  <2>1. PICK c \in committed : c.id = order[k][j]
    BY <1>1, <1>4 DEF Identified
  <2>2. \/ UNCHANGED committed
        \/ /\ pc[t] # "install"
           /\ committed' = committed \cup
                {[id |-> TxnId(t), reads |-> ReadVersions(t), tid |-> commitTid(t)]}
    BY HistoryGrows DEF TypeOK, commit
  <2>3. pc[t] # "install" => c.id # TxnId(t)
    BY FreshTxn DEF TypeOK
  <2> QED
    BY <1>1, <1>4, <2>1, <2>2, <2>3
<1>5. ASSUME NEW k \in Key, NEW j \in DOMAIN order'[k], NEW d \in committed', d.id = order'[k][j]
      PROVE  /\ TidLess(FirstTid, d.tid)
             /\ \A i \in DOMAIN order'[k] : \A c \in committed' :
                   c.id = order'[k][i] /\ i < j => TidLess(c.tid, d.tid)
  <2>1. d \in committed /\ j \in DOMAIN order[k] /\ d.id = order[k][j]
    BY <1>4, <1>5
  <2> QED
    BY <1>4, <2>1 DEF TidsRise
<1>6. ASSUME NEW u \in Thread, NEW k \in held'[u]
      PROVE  IF pc'[u] = "install" THEN TidLess(TidOf(tidword[k])', mrctid'[u])
                                   ELSE TidLeq(TidOf(tidword[k])', maxset'[u])
  <2>1. CASE u = t
    BY <1>2, <1>6, <2>1
  <2>2. CASE u # t
    <3>1. /\ pc'[u] = pc[u] /\ held'[u] = held[u]
          /\ mrctid'[u] = mrctid[u] /\ maxset'[u] = maxset[u]
      BY <2>2, OthersStay DEF TypeOK
    <3>2. k \in Key /\ k \in held[u]
      BY <1>6, <3>1 DEF TypeOK, Types
    <3>3. TidOf(tidword[k])' = TidOf(tidword[k])
      BY <1>2, <3>2
    <3>4. IF pc[u] = "install" THEN TidLess(TidOf(tidword[k]), mrctid[u])
                               ELSE TidLeq(TidOf(tidword[k]), maxset[u])
      BY <3>2 DEF TidsRise
    <3> QED
      BY <3>1, <3>3, <3>4
  <2> QED
    BY <2>1, <2>2
<1>7. \A k \in Key : TidLeq(FirstTid, TidOf(tidword[k])')
  BY <1>2 DEF TidsRise
<1>8. FirstTid' = FirstTid
  BY DEF FirstTid
<1> QED
  BY <1>3, <1>5, <1>6, <1>7, <1>8 DEF TidsRise, TidLess, TidLeq

\* What a worker holds has the TID it met, or a smaller one.
LEMMA HoldersKnow ==
    ASSUME TypeOK, TypeOK', LockOwnership, TidsFit, TidsRise, NEW t \in Thread, worker(t),
           ~installTid(t), NEW k \in held'[t]
    PROVE  IF pc'[t] = "install" THEN TidLess(TidOf(tidword[k]), mrctid'[t])
                                 ELSE TidLeq(TidOf(tidword[k]), maxset'[t])
<1> USE DEF control, epochs, copying, logs, history, txnsets, Goto
<1>0. /\ pc \in [Thread -> Label]
      /\ held \in [Thread -> SUBSET Key]
      /\ maxset \in [Thread -> Tid] /\ mrctid \in [Thread -> Tid]
  BY DEF TypeOK, Types
<1>1. \A j \in Key : TidOf(tidword[j]) \in Tid
  BY CommittedTids DEF TypeOK
<1>2. k \in Key
  BY DEF TypeOK, Types
<1>3. k \in held[t] => IF pc[t] = "install" THEN TidLess(TidOf(tidword[k]), mrctid[t])
                                            ELSE TidLeq(TidOf(tidword[k]), maxset[t])
  BY DEF TidsRise
<1>4. pc[t] \in {"idle", "retry", "begin", "exec", "copy", "done"} => k \notin held[t]
  BY DEF LockOwnership
<1>5. CASE NextProcedure(t) \/ begin(t) \/ (t = Leader /\ leaderWork)
  <2>1. UNCHANGED held /\ pc[t] \in {"idle", "retry", "begin"}
    BY <1>5 DEF NextProcedure, begin, leaderWork
  <2> QED
    BY <1>4, <2>1
<1>6. CASE write(t) \/ readLocal(t) \/ readTid(t) \/ readCopy(t) \/ readCheck(t)
  <2>1. UNCHANGED held /\ pc[t] \in {"exec", "copy"}
    BY <1>6 DEF write, readLocal, readTid, readCopy, readCheck, Executes
  <2> QED
    BY <1>4, <2>1
<1>7. CASE lockRecord(t)
  <2>1. PICK j \in Key :
            /\ held' = [held EXCEPT ![t] = @ \cup {j}]
            /\ maxset' = [maxset EXCEPT ![t] = MaxTid(@, TidOf(tidword[j]))]
    BY <1>7 DEF lockRecord, TypeOK, Types
  <2>2. pc[t] = "lock" /\ pc'[t] = "lock"
    BY <1>7 DEF lockRecord
  <2>3. /\ TidLeq(maxset[t], maxset'[t]) /\ TidLeq(TidOf(tidword[j]), maxset'[t])
        /\ maxset'[t] \in Tid
    BY <1>0, <1>1, <2>1, MaxTidAbove, MaxTidType
  <2>4. CASE k \in held[t]
    BY <1>0, <1>1, <1>2, <1>3, <2>2, <2>3, <2>4, TidLeqLess
  <2>5. CASE k = j
    BY <2>2, <2>3, <2>5
  <2> QED
    BY <1>0, <2>1, <2>4, <2>5
<1>8. CASE lockFailed(t) \/ loadEpoch(t) \/ storeEpoch(t) \/ relock(t) \/ installWord(t)
  <2>1. /\ UNCHANGED << held, maxset, mrctid >>
        /\ pc'[t] = "install" <=> pc[t] = "install"
    BY <1>0, <1>8, SiloAssumption DEF lockFailed, loadEpoch, storeEpoch, relock, installWord
  <2> QED
    BY <1>3, <2>1
<1>9. CASE validateRead(t)
  <2>1. /\ pc[t] = "validate" /\ pc'[t] # "install" /\ UNCHANGED held
        /\ \/ UNCHANGED maxset
           \/ /\ pos[t] \in DOMAIN rset[t]
              /\ maxset' = [maxset EXCEPT ![t] = MaxTid(@, TidOf(tidword[rset[t][pos[t]].key]))]
    BY <1>0, <1>9 DEF validateRead
  <2>2. pos[t] \in DOMAIN rset[t] => rset[t][pos[t]].key \in Key
    <3>1. rset[t] \in Seq(ReadElement)
      BY DEF TypeOK, Types
    <3>2. pos[t] \in DOMAIN rset[t] => rset[t][pos[t]] \in ReadElement
      BY <3>1
    <3> QED
      BY <3>2 DEF ReadElement
  <2>3. TidLeq(maxset[t], maxset'[t]) /\ maxset'[t] \in Tid
    <3>1. CASE UNCHANGED maxset
      BY <1>0, <3>1 DEF TidLeq
    <3>2. ASSUME NEW j \in Key, maxset' = [maxset EXCEPT ![t] = MaxTid(@, TidOf(tidword[j]))]
          PROVE  TidLeq(maxset[t], maxset'[t]) /\ maxset'[t] \in Tid
      BY <1>0, <1>1, <3>2, MaxTidAbove, MaxTidType
    <3> QED
      BY <2>1, <2>2, <3>1, <3>2
  <2> QED
    BY <1>0, <1>1, <1>2, <1>3, <2>1, <2>3, TidLeqLess
<1>10. CASE unlockRecord(t)
  <2>1. /\ UNCHANGED << pc, maxset >> /\ pc[t] # "install"
        /\ \E j \in held[t] : held' = [held EXCEPT ![t] = @ \ {j}]
    BY <1>10 DEF unlockRecord
  <2> QED
    BY <1>0, <1>3, <2>1
<1>11. CASE abort(t) \/ finish(t)
  <2>1. held'[t] = {}
    BY <1>11 DEF abort, finish
  <2> QED
    BY <2>1
<1>12. CASE commit(t)
  <2>1. /\ pc[t] = "validate" /\ pc'[t] = "install" /\ UNCHANGED held
        /\ mrctid'[t] = commitTid(t)
    BY <1>0, <1>12 DEF commit
  <2>2. TidLess(maxset[t], commitTid(t)) /\ commitTid(t) \in Tid
    BY <2>1, CommitTidAbove, CommitTidType DEF TypeOK
  <2>3. TidLeq(TidOf(tidword[k]), maxset[t])
    BY <1>3, <2>1
  <2> QED
    BY <1>0, <1>1, <1>2, <2>1, <2>2, <2>3, TidLeqLess
<1> QED
  BY <1>5, <1>6, <1>7, <1>8, <1>9, <1>10, <1>11, <1>12 DEF worker

\* installTid gives the record a TID above that of its last version.
LEMMA TidsRiseInstall ==
    ASSUME TypeOK, LockOwnership, Identified, TidsRise, NEW t \in Thread, installTid(t)
    PROVE  TidsRise'
<1>1. PICK k \in held[t] :
        /\ IsFirst(k, held[t])
        /\ tidword' = [tidword EXCEPT ![k] = [epoch |-> mrctid[t].epoch,
                                              tid |-> mrctid[t].tid,
                                              lock |-> FALSE]]
        /\ held' = [held EXCEPT ![t] = @ \ {k}]
        /\ order' = [order EXCEPT ![k] = Append(@, TxnId(t))]
  BY DEF installTid
<1>2. pc[t] = "install" /\ UNCHANGED << pc, committed, mrctid, maxset >>
  BY DEF installTid, txnsets
<1>3. /\ tidword \in [Key -> [epoch : Nat, tid : 0 .. TidSpan - 1, lock : BOOLEAN]]
      /\ order \in [Key -> Seq(Txn)] /\ held \in [Thread -> SUBSET Key]
      /\ k \in Key /\ mrctid[t] \in Tid
  BY DEF TypeOK, Types
<1>4. /\ \A j \in Key : TidOf(tidword[j]) \in Tid
      /\ \A c \in committed : c.tid \in Tid
      /\ FirstTid \in Tid
  BY CommittedTids DEF TypeOK
<1>5. PICK new \in committed : new.id = TxnId(t) /\ new.tid = mrctid[t]
  BY <1>2 DEF Identified
<1>6. TidLess(TidOf(tidword[k]), mrctid[t])
  BY <1>2 DEF TidsRise
<1>7. \A j \in Key : TidOf(tidword'[j]) = IF j = k THEN mrctid[t] ELSE TidOf(tidword[j])
  BY <1>3, <1>1 DEF TidOf, Tid
<1>8. /\ Len(order[k]) \in Nat /\ Len(order'[k]) = Len(order[k]) + 1
      /\ order'[k][Len(order[k]) + 1] = new.id
      /\ DOMAIN order[k] = 1 .. Len(order[k])
      /\ DOMAIN order'[k] = 1 .. Len(order[k]) + 1
      /\ \A i \in DOMAIN order[k] : order'[k][i] = order[k][i]
  <2>1. order'[k] = Append(order[k], new.id) /\ order[k] \in Seq(Txn)
    BY <1>1, <1>3, <1>5
  <2>2. new.id \in Txn
    BY <1>5, TxnIdType DEF TypeOK
  <2> QED
    BY <2>1, <2>2
<1>9. \A j \in Key : j # k => order'[j] = order[j]
  BY <1>1, <1>3
<1>10. ASSUME NEW j \in Key
       PROVE  HasTid(j, Len(order[j]), TidOf(tidword[j]))'
  <2>1. CASE j = k
    BY <1>2, <1>5, <1>7, <1>8, <2>1 DEF HasTid
  <2>2. CASE j # k
    <3>1. HasTid(j, Len(order[j]), TidOf(tidword[j]))
      BY DEF TidsRise
    <3> QED
      BY <1>2, <1>7, <1>9, <2>2, <3>1 DEF HasTid
  <2> QED
    BY <2>1, <2>2
<1>11. TidLess(FirstTid, mrctid[t])
  <2>1. TidLeq(FirstTid, TidOf(tidword[k]))
    BY <1>3 DEF TidsRise
  <2> QED
    BY <1>3, <1>4, <1>6, <2>1, TidLeqLess
<1>12. ASSUME NEW i \in DOMAIN order[k], NEW c \in committed, c.id = order[k][i]
       PROVE  TidLess(c.tid, mrctid[t])
  <2>1. TidLeq(c.tid, TidOf(tidword[k]))
    BY <1>3, <1>12, CurrentVersion DEF TypeOK
  <2> QED
    BY <1>3, <1>4, <1>6, <1>12, <2>1, TidLeqLess
<1>13. ASSUME NEW j \in Key, NEW q \in DOMAIN order'[j], NEW d \in committed, d.id = order'[j][q]
       PROVE  /\ TidLess(FirstTid, d.tid)
              /\ \A i \in DOMAIN order'[j] : \A c \in committed :
                    c.id = order'[j][i] /\ i < q => TidLess(c.tid, d.tid)
  <2>1. CASE j # k
    BY <1>9, <1>13, <2>1 DEF TidsRise
  <2>2. CASE j = k /\ q = Len(order[k]) + 1
    <3>1. d = new
      BY <1>5, <1>8, <1>13, <2>2 DEF Identified
    <3>2. ASSUME NEW i \in DOMAIN order'[j], NEW c \in committed, c.id = order'[j][i], i < q
          PROVE  TidLess(c.tid, d.tid)
      <4>1. i \in DOMAIN order[k] /\ c.id = order[k][i]
        BY <1>8, <2>2, <3>2
      <4> QED
        BY <1>5, <1>12, <3>1, <4>1
    <3> QED
      BY <1>5, <1>11, <3>1, <3>2
  <2>3. CASE j = k /\ q # Len(order[k]) + 1
    <3>1. q \in DOMAIN order[k] /\ d.id = order[k][q]
      BY <1>8, <1>13, <2>3
    <3>2. ASSUME NEW i \in DOMAIN order'[j], i < q
          PROVE  i \in DOMAIN order[k] /\ order'[j][i] = order[k][i]
      BY <1>8, <2>3, <3>1, <3>2
    <3> QED
      BY <2>3, <3>1, <3>2 DEF TidsRise
  <2> QED
    BY <2>1, <2>2, <2>3
<1>14. ASSUME NEW u \in Thread, NEW j \in held'[u]
       PROVE  IF pc'[u] = "install" THEN TidLess(TidOf(tidword[j])', mrctid'[u])
                                    ELSE TidLeq(TidOf(tidword[j])', maxset'[u])
  <2>1. j \in held[u] /\ j # k /\ j \in Key
    <3>1. u # t => k \notin held[u]
      BY DEF LockOwnership
    <3> QED
      BY <1>1, <1>3, <1>14, <3>1
  <2>2. TidOf(tidword[j])' = TidOf(tidword[j])
    BY <1>7, <2>1 DEF TidOf
  <2> QED
    BY <1>2, <2>1, <2>2 DEF TidsRise
<1>15. ASSUME NEW j \in Key
       PROVE  TidLeq(FirstTid, TidOf(tidword'[j]))
  <2>1. CASE j = k
    BY <1>7, <1>11, <2>1 DEF TidLeq
  <2>2. CASE j # k
    BY <1>7, <2>2 DEF TidsRise
  <2> QED
    BY <2>1, <2>2
<1>16. FirstTid' = FirstTid
  BY DEF FirstTid
<1> QED
  BY <1>2, <1>10, <1>13, <1>14, <1>15, <1>16 DEF TidsRise, TidLess, TidLeq, TidOf

LEMMA TidsRiseStep ==
    ASSUME TypeOK, TypeOK', LockOwnership, Identified, TidsFit, TidsRise, [Next]_vars
    PROVE  TidsRise'
<1>1. CASE Quit \/ Joined \/ UNCHANGED vars
  <2>1. UNCHANGED << committed, order, mrctid, maxset, pc, held, tidword >>
    BY <1>1 DEF Quit, Joined, vars, txnsets, history
  <2> QED
    BY <2>1 DEF TidsRise, TidOf, HasTid
<1>2. ASSUME NEW t \in Thread, worker(t)
      PROVE  TidsRise'
  <2>1. CASE installTid(t)
    BY <2>1, TidsRiseInstall
  <2>2. CASE ~installTid(t)
    <3>1. held'[t] \subseteq Key
      BY DEF TypeOK, Types
    <3> QED
      BY <1>2, <2>2, <3>1, HoldersKnow, TidsRiseQuiet
  <2> QED
    BY <2>1, <2>2
<1> QED
  BY <1>1, <1>2 DEF Next

\* (b) of writePhase: a worker's commit TIDs rise.
LEMMA WorkerTidsRiseStep ==
    ASSUME TypeOK, Identified, TidsFit, WorkerTidsRise, [Next]_vars
    PROVE  WorkerTidsRise'
<1>1. ASSUME UNCHANGED << committed, mrctid >>
      PROVE  WorkerTidsRise'
  BY <1>1 DEF WorkerTidsRise, TidLeq, TidLess
<1>2. CASE Quit \/ Joined \/ UNCHANGED vars
  BY <1>1, <1>2 DEF Quit, Joined, vars, txnsets, history
<1>3. ASSUME NEW t \in Thread, worker(t), ~commit(t)
      PROVE  WorkerTidsRise'
  <2>1. UNCHANGED << committed, mrctid >>
    <3>1. CASE installTid(t) \/ finish(t)
      BY <3>1 DEF installTid, finish, txnsets, history
    <3>2. CASE ~installTid(t) /\ ~finish(t)
      BY <1>3, <3>2, QuietStep
    <3> QED
      BY <3>1, <3>2
  <2> QED
    BY <1>1, <2>1
<1>4. ASSUME NEW t \in Thread, commit(t)
      PROVE  WorkerTidsRise'
  <2> DEFINE new == [id |-> TxnId(t), reads |-> ReadVersions(t), tid |-> commitTid(t)]
  <2>1. /\ pc[t] = "validate" /\ committed' = committed \cup {new}
        /\ mrctid' = [mrctid EXCEPT ![t] = commitTid(t)]
    BY <1>4 DEF commit
  <2>2. mrctid \in [Thread -> Tid] /\ n[t] \in Nat /\ \A c \in committed : c.tid \in Tid
    BY CommittedTids DEF TypeOK, Types
  <2>3. new.id[1] = t /\ new.id[2] = n[t] + 1 /\ new.tid = commitTid(t)
    BY DEF TxnId
  <2>4. TidLess(mrctid[t], commitTid(t)) /\ commitTid(t) \in Tid
    BY <2>1, CommitTidAbove, CommitTidType DEF TypeOK
  <2>5. \A c \in committed : c.id[1] \in Thread /\ c.id[2] \in Nat /\ c # new
    <3>1. \A c \in committed : c.id # new.id
      BY <2>1, FreshTxn DEF TypeOK
    <3> HIDE DEF new
    <3> QED
      BY <3>1 DEF Identified
  <2>6. \A c \in committed : c.id[1] = t => TidLess(c.tid, new.tid) /\ c.id[2] <= n[t]
    <3>1. ASSUME NEW c \in committed, c.id[1] = t
          PROVE  TidLess(c.tid, commitTid(t))
      BY <2>2, <2>4, <3>1, TidLeqLess DEF WorkerTidsRise
    <3>2. ASSUME NEW c \in committed, c.id[1] = t
          PROVE  c.id[2] <= n[t]
      BY <2>1, <3>2 DEF Identified
    <3> QED
      BY <2>3, <3>1, <3>2
  <2> HIDE DEF new
  <2>7. ASSUME NEW c \in committed'
        PROVE  TidLeq(c.tid, mrctid'[c.id[1]])
    <3>1. CASE c = new
      BY <2>1, <2>2, <2>3, <3>1 DEF TidLeq
    <3>2. CASE c # new /\ c.id[1] = t
      <4>1. c \in committed
        BY <2>1, <2>7, <3>2
      <4> QED
        BY <2>1, <2>2, <2>3, <2>6, <3>2, <4>1 DEF TidLeq
    <3>3. CASE c # new /\ c.id[1] # t
      <4>1. c \in committed
        BY <2>1, <2>7, <3>3
      <4>2. mrctid'[c.id[1]] = mrctid[c.id[1]]
        BY <2>1, <2>2, <2>5, <3>3, <4>1
      <4> QED
        BY <4>1, <4>2 DEF WorkerTidsRise
    <3> QED
      BY <3>1, <3>2, <3>3
  <2>8. ASSUME NEW c \in committed', NEW d \in committed', c.id[1] = d.id[1], c.id[2] < d.id[2]
        PROVE  TidLess(c.tid, d.tid)
    <3>1. CASE c \in committed /\ d \in committed
      BY <2>8, <3>1 DEF WorkerTidsRise
    <3>2. CASE c \in committed /\ d = new
      BY <2>3, <2>6, <2>8, <3>2
    <3>3. CASE c = new
      <4>1. d \in committed => d.id[2] <= n[t] /\ d.id[2] \in Nat
        BY <2>3, <2>5, <2>6, <2>8, <3>3
      <4> QED
        BY <2>1, <2>2, <2>3, <2>8, <3>3, <4>1
    <3> QED
      BY <2>1, <3>1, <3>2, <3>3
  <2> QED
    BY <2>7, <2>8 DEF WorkerTidsRise, TidLess, TidLeq
<1> QED
  BY <1>2, <1>3, <1>4 DEF Next, worker

-----------------------------------------------------------------------------
(* Values *)

\* Only installTid ends the overwriting of a record.
LEMMA InstallingStays ==
    ASSUME TypeOK, NEW t \in Thread, worker(t), ~installTid(t), NEW k \in Key, Installing(k)
    PROVE  Installing(k)'
<1>1. PICK u \in Thread : k \in held[u] /\ pc[u] = "install"
  BY DEF Installing
<1>2. CASE u # t
  BY <1>1, <1>2, OthersStay DEF Installing, TypeOK
<1>3. CASE u = t
  <2>1. CASE finish(t)
    BY <1>1, <1>3, <2>1 DEF finish
  <2>2. CASE commit(t)
    BY <1>1, <1>3, <2>2 DEF commit
  <2>3. CASE ~finish(t) /\ ~commit(t)
    <3>1. pc'[t] = "install"
      BY <1>1, <1>3, <2>3, QuietStep
    <3>2. installWord(t)
      BY <1>1, <1>3, <2>3
      DEF worker, NextProcedure, leaderWork, begin, write, readLocal, readTid, readCopy, readCheck,
          Executes, lockRecord, lockFailed, loadEpoch, storeEpoch, validateRead, unlockRecord,
          relock, abort
    <3>3. held' = held
      BY <3>2 DEF installWord
    <3> QED
      BY <1>1, <1>3, <3>1, <3>3 DEF Installing
  <2> QED
    BY <2>1, <2>2, <2>3
<1> QED
  BY <1>2, <1>3

\* A value changes only while its record is overwritten.
LEMMA ValuesStay ==
    ASSUME TypeOK, NEW t \in Thread, worker(t), NEW k \in Key, ~Installing(k)'
    PROVE  val'[k] = val[k]
<1> USE DEF control, epochs, copying, logs, history, txnsets
<1>1. CASE installWord(t)
  <2>1. PICK j \in held[t], w \in todo[t] : val' = [val EXCEPT ![j][w] = TxnId(t)]
    BY <1>1 DEF installWord
  <2>2. k \notin held[t]
    BY <1>1 DEF installWord, Installing
  <2>3. val \in [Key -> [Word -> Txn]]
    BY DEF TypeOK, Types
  <2> QED
    BY <2>1, <2>2, <2>3
<1>3. CASE NextProcedure(t) \/ (t = Leader /\ leaderWork) \/ begin(t)
  BY <1>3 DEF NextProcedure, leaderWork, begin
<1>4. CASE write(t) \/ readLocal(t) \/ readTid(t) \/ readCopy(t) \/ readCheck(t)
  BY <1>4 DEF write, readLocal, readTid, readCopy, readCheck
<1>5. CASE lockRecord(t) \/ lockFailed(t) \/ loadEpoch(t) \/ storeEpoch(t) \/ validateRead(t)
  BY <1>5 DEF lockRecord, lockFailed, loadEpoch, storeEpoch, validateRead
<1>6. CASE unlockRecord(t) \/ relock(t) \/ abort(t) \/ commit(t) \/ installTid(t) \/ finish(t)
  BY <1>6 DEF unlockRecord, relock, abort, commit, installTid, finish
<1> QED
  BY <1>1, <1>3, <1>4, <1>5, <1>6 DEF worker

\* installTid leaves the other records as they are.
LEMMA InstallOne ==
    ASSUME TypeOK, LockOwnership, NEW t \in Thread, installTid(t)
    PROVE  \E k \in held[t] :
              /\ k \in Key /\ IsFirst(k, held[t]) /\ pc[t] = "install" /\ todo[t] = {}
              /\ held' = [held EXCEPT ![t] = @ \ {k}]
              /\ order' = [order EXCEPT ![k] = Append(@, TxnId(t))]
              /\ TidOf(tidword[k])' = mrctid[t]
              /\ ~Installing(k)'
              /\ \A j \in Key \ {k} : /\ order'[j] = order[j]
                                      /\ TidOf(tidword[j])' = TidOf(tidword[j])
                                      /\ Installing(j)' <=> Installing(j)
              /\ UNCHANGED << val, pc, committed, mrctid, n, rset, wset, GlobalEpoch >>
<1>1. PICK k \in held[t] :
        /\ IsFirst(k, held[t])
        /\ tidword' = [tidword EXCEPT ![k] = [epoch |-> mrctid[t].epoch,
                                              tid |-> mrctid[t].tid,
                                              lock |-> FALSE]]
        /\ held' = [held EXCEPT ![t] = @ \ {k}]
        /\ order' = [order EXCEPT ![k] = Append(@, TxnId(t))]
  BY DEF installTid
<1>2. /\ pc[t] = "install" /\ todo[t] = {}
      /\ UNCHANGED << val, pc, committed, mrctid, n, rset, wset, GlobalEpoch >>
  BY DEF installTid, control, txnsets
<1>3. /\ tidword \in [Key -> [epoch : Nat, tid : 0 .. TidSpan - 1, lock : BOOLEAN]]
      /\ order \in [Key -> Seq(Txn)] /\ held \in [Thread -> SUBSET Key]
      /\ k \in Key /\ mrctid[t] \in Tid
  BY DEF TypeOK, Types
<1>4. TidOf(tidword[k])' = mrctid[t]
  <2>1. tidword'[k].epoch = mrctid[t].epoch /\ tidword'[k].tid = mrctid[t].tid
    BY <1>1, <1>3
  <2> QED
    BY <1>3, <2>1 DEF TidOf, Tid
<1>5. ASSUME NEW j \in Key \ {k}
      PROVE  /\ order'[j] = order[j]
             /\ TidOf(tidword[j])' = TidOf(tidword[j])
             /\ Installing(j)' <=> Installing(j)
  <2>1. order'[j] = order[j] /\ tidword'[j] = tidword[j]
    BY <1>1, <1>3
  <2>2. \A u \in Thread : j \in held'[u] <=> j \in held[u]
    BY <1>1, <1>3
  <2> QED
    BY <1>2, <2>1, <2>2 DEF TidOf, Installing
<1>6. ~Installing(k)'
  <2>1. \A u \in Thread : u # t => k \notin held[u]
    BY DEF LockOwnership
  <2>2. \A u \in Thread : k \notin held'[u]
    BY <1>1, <1>3, <2>1
  <2> QED
    BY <2>2 DEF Installing
<1> QED
  BY <1>1, <1>2, <1>3, <1>4, <1>5, <1>6

LEMMA WordsHoldStep ==
    ASSUME TypeOK, LockOwnership, WordsHold, [Next]_vars
    PROVE  WordsHold'
<1>1. CASE Quit \/ Joined \/ UNCHANGED vars
  <2>1. UNCHANGED << order, pc, held, val, todo, n >>
    BY <1>1 DEF Quit, Joined, vars, copying, history
  <2> QED
    BY <2>1 DEF WordsHold, Installing, VersionAt, TxnId
<1>2. ASSUME NEW t \in Thread, worker(t)
      PROVE  WordsHold'
  <2> USE <1>2
  <2>1. ASSUME NEW k \in Key, ~Installing(k)', NEW w \in Word
        PROVE  val'[k][w] = VersionAt(k, Len(order[k]))'
    <3>1. val'[k] = val[k]
      BY <2>1, ValuesStay
    <3>2. CASE ~installTid(t)
      <4>1. UNCHANGED order
        BY <3>2, HistoryGrows DEF TypeOK
      <4>2. ~Installing(k)
        BY <2>1, <3>2, InstallingStays
      <4>3. val[k][w] = VersionAt(k, Len(order[k]))
        BY <4>2 DEF WordsHold
      <4> QED
        BY <3>1, <4>1, <4>3 DEF VersionAt
    <3>3. CASE installTid(t)
      <4>1. PICK j \in held[t] :
              /\ j \in Key /\ IsFirst(j, held[t]) /\ pc[t] = "install" /\ todo[t] = {}
              /\ order' = [order EXCEPT ![j] = Append(@, TxnId(t))]
              /\ \A i \in Key \ {j} : order'[i] = order[i] /\ (Installing(i)' <=> Installing(i))
        BY <3>3, InstallOne
      <4>2. CASE k # j
        <5>1. ~Installing(k) /\ order'[k] = order[k]
          BY <2>1, <4>1, <4>2
        <5>2. val[k][w] = VersionAt(k, Len(order[k]))
          BY <5>1 DEF WordsHold
        <5> QED
          BY <3>1, <5>1, <5>2 DEF VersionAt
      <4>3. CASE k = j
        <5>1. val[k][w] = TxnId(t)
          BY <4>1, <4>3 DEF WordsHold
        <5>2. order'[k] = Append(order[k], TxnId(t)) /\ order[k] \in Seq(Txn)
          BY <4>1, <4>3 DEF TypeOK, Types
        <5>3. TxnId(t) \in Txn
          BY TxnIdType DEF TypeOK
        <5>4. Len(order'[k]) # 0 /\ order'[k][Len(order'[k])] = TxnId(t)
          <6> HIDE DEF TxnId
          <6> QED
            BY <5>2, <5>3
        <5> QED
          BY <3>1, <5>1, <5>4 DEF VersionAt
      <4> QED
        BY <4>2, <4>3
    <3> QED
      BY <3>2, <3>3
  <2>2. ASSUME NEW u \in Thread, pc'[u] = "install", NEW k \in held'[u], IsFirst(k, held'[u]),
               NEW w \in Word \ todo'[u]
        PROVE  val'[k][w] = TxnId(u)'
    <3>1. CASE u # t
      <4>1. /\ pc[u] = "install" /\ held'[u] = held[u] /\ todo'[u] = todo[u] /\ n'[u] = n[u]
        BY <2>2, <3>1, OthersStay DEF TypeOK
      <4>2. val[k][w] = TxnId(u) /\ k \in Key
        BY <2>2, <4>1 DEF WordsHold, TypeOK, Types
      <4>3. val'[k] = val[k]
        <5>1. k \notin held[t]
          BY <2>2, <3>1, <4>1 DEF LockOwnership
        <5>2. CASE installWord(t)
          <6>1. PICK j \in held[t], x \in todo[t] : val' = [val EXCEPT ![j][x] = TxnId(t)]
            BY <5>2 DEF installWord
          <6>2. val \in [Key -> [Word -> Txn]]
            BY DEF TypeOK, Types
          <6> QED
            BY <4>2, <5>1, <6>1, <6>2
        <5>3. CASE ~installWord(t)
          BY <5>3
          DEF worker, NextProcedure, leaderWork, begin, write, readLocal, readTid, readCopy,
              readCheck, lockRecord, lockFailed, loadEpoch, storeEpoch, validateRead,
              unlockRecord, relock, abort, commit, installTid, finish
        <5> QED
          BY <5>2, <5>3
      <4> QED
        BY <4>1, <4>2, <4>3 DEF TxnId
    <3>2. CASE u = t
      <4>1. CASE commit(t)
        <5>1. todo'[t] = Word
          BY <4>1 DEF commit, TypeOK, Types
        <5> QED
          BY <2>2, <3>2, <5>1
      <4>2. CASE installTid(t)
        <5>1. todo'[t] = Word
          BY <4>2 DEF installTid, TypeOK, Types
        <5> QED
          BY <2>2, <3>2, <5>1
      <4>3. CASE finish(t)
        <5>1. pc'[t] = "idle"
          BY <4>3 DEF finish, Goto, TypeOK, Types
        <5> QED
          BY <2>2, <3>2, <5>1
      <4>4. CASE ~commit(t) /\ ~installTid(t) /\ ~finish(t)
        <5>1. pc[t] = "install"
          BY <2>2, <3>2, <4>4, QuietStep
        <5>2. installWord(t)
          BY <5>1, <4>4
          DEF worker, NextProcedure, leaderWork, begin, write, readLocal, readTid, readCopy, readCheck,
              Executes, lockRecord, lockFailed, loadEpoch, storeEpoch, validateRead, unlockRecord,
              relock, abort
        <5>3. PICK j \in held[t], x \in todo[t] :
                /\ IsFirst(j, held[t])
                /\ val' = [val EXCEPT ![j][x] = TxnId(t)]
                /\ todo' = [todo EXCEPT ![t] = @ \ {x}]
          BY <5>2 DEF installWord
        <5>4. UNCHANGED << held, n >>
          BY <5>2 DEF installWord, control
        <5>5. /\ val \in [Key -> [Word -> Txn]] /\ held[t] \subseteq Key
              /\ todo \in [Thread -> SUBSET Word]
          BY DEF TypeOK, Types
        <5>6. k = j
          <6>1. k \in held[t] /\ j \in held[t] /\ IsFirst(k, held[t])
            BY <2>2, <3>2, <5>4
          <6>2. k <= j /\ j <= k /\ k \in Nat /\ j \in Nat
            BY <5>3, <5>5, <6>1, SiloAssumption DEF IsFirst
          <6> QED
            BY <6>2
        <5>7. CASE w = x
          BY <3>2, <5>3, <5>4, <5>5, <5>6, <5>7 DEF TxnId
        <5>8. CASE w # x
          <6>1. w \in Word \ todo[t]
            BY <2>2, <3>2, <5>3, <5>5, <5>8
          <6>2. val[k][w] = TxnId(t)
            BY <5>1, <5>3, <5>6, <6>1 DEF WordsHold
          <6>3. val'[k][w] = val[k][w]
            BY <5>3, <5>5, <5>6, <5>8, <6>1
          <6> QED
            BY <3>2, <5>4, <6>2, <6>3 DEF TxnId
        <5> QED
          BY <5>7, <5>8
      <4> QED
        BY <4>1, <4>2, <4>3, <4>4
    <3> QED
      BY <3>1, <3>2
  <2> QED
    BY <2>1, <2>2 DEF WordsHold, IsFirst
<1> QED
  BY <1>1, <1>2 DEF Next

\* A copy is undone by an installTid, because it raises the TID of the record.
LEMMA CopiesHoldStep ==
    ASSUME TypeOK, TypeOK', LockOwnership, Identified, TidsRise, CopiesHold, [Next]_vars
    PROVE  CopiesHold'
<1>1. CASE Quit \/ Joined \/ UNCHANGED vars
  <2>1. UNCHANGED << pc, held, val, todo, expected, buf, tidword, pro, pos >>
    BY <1>1 DEF Quit, Joined, vars, copying
  <2> QED
    BY <2>1 DEF CopiesHold, Installing, OpKey, TidOf
<1>2. ASSUME NEW u \in Thread, worker(u), NEW t \in Thread, t # u, pc'[t] = "copy"
      PROVE  /\ TidLeq(expected'[t], TidOf(tidword[OpKey(t)])')
             /\ TidOf(tidword[OpKey(t)])' = expected'[t] /\ ~Installing(OpKey(t))' =>
                   \A w \in Word \ todo'[t] : buf'[t][w] = val'[OpKey(t)'][w]
  <2>1. /\ pc[t] = "copy" /\ expected'[t] = expected[t] /\ todo'[t] = todo[t] /\ buf'[t] = buf[t]
        /\ pro'[t] = pro[t] /\ pos'[t] = pos[t]
    BY <1>2, OthersStay DEF TypeOK
  <2>2. PICK k \in Key : k = OpKey(t) /\ k = OpKey(t)'
    <3>1. OpKey(t) \in Key
      BY <2>1, OpKeyType
    <3> QED
      BY <2>1, <3>1 DEF OpKey
  <2>3. /\ TidLeq(expected[t], TidOf(tidword[k]))
        /\ TidOf(tidword[k]) = expected[t] /\ ~Installing(k) =>
              \A w \in Word \ todo[t] : buf[t][w] = val[k][w]
    BY <2>1, <2>2 DEF CopiesHold
  <2>4. TidOf(tidword[OpKey(t)])' = TidOf(tidword[k])' /\ (Installing(OpKey(t))' <=> Installing(k)')
    BY <2>2
  <2>5. CASE ~installTid(u)
    <3>1. TidOf(tidword[k])' = TidOf(tidword[k])
      BY <1>2, <2>5, TidsStay
    <3>2. ~Installing(k)' => ~Installing(k) /\ val'[k] = val[k]
      BY <1>2, <2>5, InstallingStays, ValuesStay
    <3> QED
      BY <2>1, <2>2, <2>3, <2>4, <3>1, <3>2
  <2>6. CASE installTid(u)
    <3>1. PICK j \in held[u] :
            /\ j \in Key /\ pc[u] = "install"
            /\ TidOf(tidword[j])' = mrctid[u]
            /\ \A i \in Key \ {j} : TidOf(tidword[i])' = TidOf(tidword[i]) /\ (Installing(i)' <=> Installing(i))
            /\ UNCHANGED val
      BY <2>6, InstallOne
    <3>2. CASE j # k
      <4>1. TidOf(tidword[k])' = TidOf(tidword[k]) /\ (Installing(k)' <=> Installing(k))
        BY <3>1, <3>2
      <4> QED
        BY <2>1, <2>2, <2>3, <2>4, <3>1, <4>1
    <3>3. CASE j = k
      <4>1. TidLess(TidOf(tidword[k]), mrctid[u])
        BY <3>1, <3>3 DEF TidsRise
      <4>2. expected[t] \in Tid /\ TidOf(tidword[k]) \in Tid /\ mrctid[u] \in Tid
        BY CommittedTids DEF TypeOK, Types
      <4>3. TidLess(expected[t], mrctid[u]) /\ expected[t] # mrctid[u]
        BY <2>3, <4>1, <4>2, TidLeqLess, TidsOrdered
      <4>4. TidOf(tidword[k])' = mrctid[u]
        BY <3>1, <3>3
      <4> QED
        BY <2>1, <2>4, <4>3, <4>4 DEF TidLeq
    <3> QED
      BY <3>2, <3>3
  <2> QED
    BY <2>5, <2>6
<1>3. ASSUME NEW t \in Thread, worker(t), pc'[t] = "copy"
      PROVE  /\ TidLeq(expected'[t], TidOf(tidword[OpKey(t)])')
             /\ TidOf(tidword[OpKey(t)])' = expected'[t] /\ ~Installing(OpKey(t))' =>
                   \A w \in Word \ todo'[t] : buf'[t][w] = val'[OpKey(t)'][w]
  <2> USE DEF control, epochs, copying, logs, history, txnsets, Goto
  <2>0. /\ pc \in [Thread -> Label] /\ expected \in [Thread -> Tid]
        /\ todo \in [Thread -> SUBSET Word] /\ buf \in [Thread -> [Word -> Txn]]
    BY DEF TypeOK, Types
  <2>1. readTid(t) \/ readCopy(t) \/ readCheck(t)
    <3>1. CASE NextProcedure(t) \/ begin(t) \/ (t = Leader /\ leaderWork)
      BY <1>3, <2>0, <3>1 DEF NextProcedure, begin, leaderWork
    <3>2. CASE write(t) \/ readLocal(t)
      <4>1. Advance(t)
        BY <3>2 DEF write, readLocal
      <4> QED
        BY <1>3, <2>0, <4>1 DEF Advance
    <3>3. CASE lockRecord(t) \/ lockFailed(t) \/ loadEpoch(t) \/ storeEpoch(t)
      BY <1>3, <2>0, <3>3, SiloAssumption DEF lockRecord, lockFailed, loadEpoch, storeEpoch
    <3>4. CASE validateRead(t) \/ unlockRecord(t) \/ relock(t) \/ abort(t)
      BY <1>3, <2>0, <3>4 DEF validateRead, unlockRecord, relock, abort
    <3>5. CASE commit(t) \/ installWord(t) \/ installTid(t) \/ finish(t)
      BY <1>3, <2>0, <3>5 DEF commit, installWord, installTid, finish
    <3> QED
      BY <1>3, <3>1, <3>2, <3>3, <3>4, <3>5 DEF worker
  <2>2. pc[t] \in {"exec", "copy"} /\ UNCHANGED << val, tidword, pro >>
    BY <2>1 DEF readTid, readCopy, readCheck, Executes
  <2>3. OpKey(t) \in Key
    BY <2>2, OpKeyType
  <2>4. CASE readTid(t)
    <3>1. /\ UNCHANGED pos
          /\ expected' = [expected EXCEPT ![t] = TidOf(tidword[OpKey(t)])]
          /\ todo' = [todo EXCEPT ![t] = Word]
      BY <2>4 DEF readTid
    <3>2. OpKey(t)' = OpKey(t)
      BY <2>2, <3>1 DEF OpKey
    <3>3. expected'[t] = TidOf(tidword[OpKey(t)])' /\ todo'[t] = Word
      BY <2>0, <2>2, <3>1, <3>2 DEF TidOf
    <3> QED
      BY <3>3 DEF TidLeq
  <2>5. CASE readCopy(t)
    <3>1. PICK w \in todo[t] :
            /\ buf' = [buf EXCEPT ![t][w] = val[OpKey(t)][w]]
            /\ todo' = [todo EXCEPT ![t] = @ \ {w}]
      BY <2>5 DEF readCopy
    <3>2. UNCHANGED << pos, expected, pc, held >> /\ pc[t] = "copy"
      BY <2>5 DEF readCopy
    <3>3. PICK k \in Key : k = OpKey(t) /\ k = OpKey(t)'
      BY <2>2, <2>3, <3>2 DEF OpKey
    <3>4. /\ TidLeq(expected[t], TidOf(tidword[k]))
          /\ TidOf(tidword[k]) = expected[t] /\ ~Installing(k) =>
                \A x \in Word \ todo[t] : buf[t][x] = val[k][x]
      BY <3>2, <3>3 DEF CopiesHold
    <3>5. TidOf(tidword[k])' = TidOf(tidword[k]) /\ (Installing(k)' <=> Installing(k))
      BY <2>2, <3>2 DEF TidOf, Installing
    <3>6. \A x \in Word \ todo'[t] : buf'[t][x] = val[k][x] \/ (x \in Word \ todo[t] /\ buf'[t][x] = buf[t][x])
      BY <2>0, <3>1, <3>3
    <3> QED
      BY <2>2, <3>2, <3>3, <3>4, <3>5, <3>6
  <2>6. CASE readCheck(t)
    <3>1. UNCHANGED pos /\ expected' = [expected EXCEPT ![t] = TidOf(tidword[OpKey(t)])]
          /\ todo' = [todo EXCEPT ![t] = Word]
      BY <1>3, <2>0, <2>6 DEF readCheck, Advance
    <3>2. OpKey(t)' = OpKey(t)
      BY <2>2, <3>1 DEF OpKey
    <3>3. expected'[t] = TidOf(tidword[OpKey(t)])' /\ todo'[t] = Word
      BY <2>0, <2>2, <3>1, <3>2 DEF TidOf
    <3> QED
      BY <3>3 DEF TidLeq
  <2> QED
    BY <2>1, <2>4, <2>5, <2>6
<1>4. ASSUME NEW u \in Thread, worker(u)
      PROVE  CopiesHold'
  BY <1>2, <1>3, <1>4 DEF CopiesHold, TidLeq, TidLess
<1> QED
  BY <1>1, <1>4 DEF Next

-----------------------------------------------------------------------------
(* Places in the serial order *)

LEMMA PositionedStep ==
    ASSUME TypeOK, Positioned, [Next]_vars
    PROVE  Positioned'
<1> USE DEF control, epochs, copying, logs, history, txnsets, Goto
<1>0. pc \in [Thread -> Label] /\ pos \in [Thread -> Nat]
  BY DEF TypeOK, Types
<1>1. CASE Quit \/ Joined \/ UNCHANGED vars
  BY <1>1 DEF Quit, Joined, vars, Positioned
<1>2. ASSUME NEW t \in Thread, worker(t), pos'[t] # 0,
             pc'[t] \in {"lock", "relock", "epoch"} => pos'[t] = 1
      PROVE  Positioned'
  <2>1. \A u \in Thread : u # t => pc'[u] = pc[u] /\ pos'[u] = pos[u]
    BY <1>2, OthersStay DEF TypeOK
  <2> QED
    BY <1>2, <2>1 DEF Positioned
<1>3. ASSUME NEW t \in Thread, worker(t)
      PROVE  /\ pos'[t] # 0
             /\ pc'[t] \in {"lock", "relock", "epoch"} => pos'[t] = 1
  <2>1. pos[t] # 0 /\ (pc[t] \in {"lock", "relock", "epoch"} => pos[t] = 1)
    BY DEF Positioned
  <2>2. CASE NextProcedure(t) \/ (t = Leader /\ leaderWork)
    BY <1>0, <2>1, <2>2 DEF NextProcedure, leaderWork
  <2>3. CASE begin(t)
    BY <1>0, <2>1, <2>3 DEF begin
  <2>4. ASSUME Advance(t)
        PROVE  /\ pos'[t] # 0
               /\ pc'[t] \in {"lock", "relock", "epoch"} => pos'[t] = 1
    BY <1>0, <2>1, <2>4 DEF Advance
  <2>5. CASE write(t) \/ readLocal(t)
    BY <2>4, <2>5 DEF write, readLocal
  <2>6. CASE readTid(t) \/ readCopy(t)
    BY <1>0, <2>1, <2>6 DEF readTid, readCopy
  <2>7. CASE readCheck(t)
    <3>1. CASE UNCHANGED pos
      <4>1. pc[t] = "copy"
        BY <2>7 DEF readCheck
      <4>2. pc'[t] \in {"exec", "copy"} \/ Advance(t)
        BY <1>0, <2>7, <4>1 DEF readCheck
      <4> QED
        BY <2>1, <2>4, <3>1, <4>2
    <3>2. CASE Advance(t)
      BY <2>4, <3>2
    <3> QED
      BY <2>7, <3>1, <3>2 DEF readCheck
  <2>8. CASE lockRecord(t) \/ lockFailed(t) \/ loadEpoch(t) \/ storeEpoch(t)
    BY <1>0, <2>1, <2>8, SiloAssumption DEF lockRecord, lockFailed, loadEpoch, storeEpoch
  <2>9. CASE validateRead(t)
    BY <1>0, <2>1, <2>9 DEF validateRead
  <2>10. CASE unlockRecord(t) \/ relock(t) \/ abort(t)
    BY <1>0, <2>1, <2>10 DEF unlockRecord, relock, abort
  <2>11. CASE commit(t) \/ installWord(t) \/ installTid(t) \/ finish(t)
    BY <1>0, <2>1, <2>11 DEF commit, installWord, installTid, finish
  <2> QED
    BY <1>3, <2>2, <2>3, <2>5, <2>6, <2>7, <2>8, <2>9, <2>10, <2>11 DEF worker
<1> QED
  BY <1>1, <1>2, <1>3 DEF Next

\* A worker is placed by loadEpoch only, and stays placed by these steps.
LEMMA PlacedSteps ==
    ASSUME TypeOK, NEW t \in Thread, worker(t), ~loadEpoch(t), Placed(t)'
    PROVE  storeEpoch(t) \/ validateRead(t) \/ commit(t) \/ installWord(t) \/ installTid(t)
<1> USE DEF control, epochs, copying, logs, history, txnsets, Goto
<1>0. pc \in [Thread -> Label]
  BY DEF TypeOK, Types
<1>1. CASE NextProcedure(t) \/ begin(t) \/ (t = Leader /\ leaderWork)
  BY <1>0, <1>1 DEF NextProcedure, begin, leaderWork, Placed
<1>2. CASE write(t) \/ readLocal(t)
  <2>1. Advance(t)
    BY <1>2 DEF write, readLocal
  <2> QED
    BY <1>0, <2>1 DEF Advance, Placed
<1>3. CASE readTid(t) \/ readCopy(t)
  BY <1>0, <1>3 DEF readTid, readCopy, Placed
<1>4. CASE readCheck(t)
  BY <1>0, <1>4 DEF readCheck, Advance, Placed
<1>5. CASE lockRecord(t) \/ lockFailed(t)
  BY <1>0, <1>5, SiloAssumption DEF lockRecord, lockFailed, Placed
<1>6. CASE unlockRecord(t) \/ relock(t) \/ abort(t) \/ finish(t)
  BY <1>0, <1>6 DEF unlockRecord, relock, abort, finish, Placed
<1> QED
  BY <1>1, <1>2, <1>3, <1>4, <1>5, <1>6 DEF worker

\* A placed worker keeps its name and what it wrote and read; it
\* validates its entries one by one and installs once it has validated them all.
LEMMA PlacedStays ==
    ASSUME TypeOK, Positioned, NEW t \in Thread, worker(t), ~loadEpoch(t), Placed(t)'
    PROVE  /\ Placed(t) /\ TxnId(t)' = TxnId(t)
           /\ held'[t] \subseteq held[t] /\ UNCHANGED rset
           /\ \A i \in DOMAIN rset[t] :
                 pc'[t] = "install" \/ (pc'[t] = "validate" /\ i < pos'[t]) =>
                    \/ pc[t] = "install"
                    \/ pc[t] = "validate" /\ i < pos[t]
                    \/ validateRead(t) /\ i = pos[t] /\ pc'[t] = "validate"
<1> USE DEF control, epochs, copying, logs, history, txnsets, Goto
<1>0. /\ pc \in [Thread -> Label] /\ pos \in [Thread -> Nat] /\ n \in [Thread -> Nat]
      /\ held \in [Thread -> SUBSET Key]
      /\ rset[t] \in Seq(ReadElement)
  BY DEF TypeOK, Types
<1>1. storeEpoch(t) \/ validateRead(t) \/ commit(t) \/ installWord(t) \/ installTid(t)
  BY PlacedSteps
<1>2. Placed(t) /\ UNCHANGED << n, rset >>
  BY <1>1 DEF storeEpoch, validateRead, commit, installWord, installTid, Placed
<1>3. held'[t] \subseteq held[t]
  <2>1. UNCHANGED held \/ \E k \in held[t] : held' = [held EXCEPT ![t] = @ \ {k}]
    BY <1>1 DEF storeEpoch, validateRead, commit, installWord, installTid
  <2> QED
    BY <1>0, <2>1
<1>4. ASSUME NEW i \in DOMAIN rset[t],
             pc'[t] = "install" \/ (pc'[t] = "validate" /\ i < pos'[t])
      PROVE  \/ pc[t] = "install"
             \/ pc[t] = "validate" /\ i < pos[t]
             \/ validateRead(t) /\ i = pos[t] /\ pc'[t] = "validate"
  <2>1. i \in Nat \ {0} /\ i \in 1 .. Len(rset[t]) /\ DOMAIN rset[t] = 1 .. Len(rset[t]) /\ Len(rset[t]) \in Nat
    BY <1>0, <1>4
  <2>2. CASE storeEpoch(t)
    <3>1. pc[t] = "epoch" /\ pc'[t] = "validate" /\ pos'[t] = pos[t]
      BY <1>0, <2>2 DEF storeEpoch
    <3> QED
      BY <1>4, <2>1, <3>1 DEF Positioned
  <2>3. CASE validateRead(t)
    <3>1. pc[t] = "validate" /\ pc'[t] \in {"validate", "unlock"}
      BY <1>0, <2>3 DEF validateRead
    <3>2. pos'[t] = pos[t] \/ pos'[t] = pos[t] + 1
      BY <1>0, <2>3 DEF validateRead
    <3> QED
      BY <1>0, <1>4, <2>1, <2>3, <3>1, <3>2
  <2>4. CASE commit(t)
    <3>1. pc[t] = "validate" /\ pos[t] \notin DOMAIN rset[t]
      BY <2>4 DEF commit
    <3> QED
      BY <1>0, <2>1, <3>1 DEF Positioned
  <2>5. CASE installWord(t) \/ installTid(t)
    BY <2>5 DEF installWord, installTid
  <2> QED
    BY <1>1, <2>2, <2>3, <2>4, <2>5
<1> QED
  BY <1>2, <1>3, <1>4 DEF TxnId

\* No other step places a transaction, in an epoch or in another one.
LEMMA PlacesStay ==
    ASSUME TypeOK, EpochInd, NEW t \in Thread, worker(t), ~loadEpoch(t)
    PROVE  Places' \subseteq Places
<1> USE DEF control, epochs, copying, logs, history, txnsets, Goto
<1>1. pc \in [Thread -> Label] /\ ThLocalEpoch \in [Thread -> Nat] /\ n \in [Thread -> Nat]
  BY DEF TypeOK, Types
<1>2. ASSUME NEW c \in committed'
      PROVE  Entry(c.id, c.tid.epoch) \in Places
  <2>1. CASE c \in committed
    BY <2>1 DEF Places
  <2>2. CASE c \notin committed
    <3>1. commit(t) /\ c.id = TxnId(t) /\ c.tid = commitTid(t)
      BY <1>2, <2>2, HistoryGrows DEF TypeOK
    <3>2. pc[t] = "validate"
      BY <3>1 DEF commit
    <3>3. commitTid(t).epoch = ThLocalEpoch[t]
      BY <3>2, CommitTidEpoch DEF EpochInd, TypeOK
    <3>4. Entry(TxnId(t), ThLocalEpoch[t]) \in Places
      BY <3>2 DEF Places
    <3> QED
      BY <3>1, <3>3, <3>4
  <2> QED
    BY <2>1, <2>2
<1>3. ASSUME NEW u \in Thread, u # t
      PROVE  pc'[u] = pc[u] /\ epoch'[u] = epoch[u] /\ ThLocalEpoch'[u] = ThLocalEpoch[u]
             /\ TxnId(u)' = TxnId(u)
  BY <1>3, OthersStay DEF TypeOK, TxnId
<1>4. pc'[t] # "epoch"
  <2> SUFFICES ASSUME pc'[t] = "epoch" PROVE FALSE
    OBVIOUS
  <2>1. Placed(t)'
    BY DEF Placed
  <2>2. storeEpoch(t) \/ validateRead(t) \/ commit(t) \/ installWord(t) \/ installTid(t)
    BY <2>1, PlacedSteps
  <2> QED
    BY <1>1, <2>2 DEF storeEpoch, validateRead, commit, installWord, installTid
<1>5. pc'[t] = "validate" =>
         /\ TxnId(t)' = TxnId(t)
         /\ \/ pc[t] = "epoch" /\ ThLocalEpoch'[t] = epoch[t]
            \/ pc[t] = "validate" /\ ThLocalEpoch'[t] = ThLocalEpoch[t]
  <2> SUFFICES ASSUME pc'[t] = "validate"
               PROVE  /\ TxnId(t)' = TxnId(t)
                      /\ \/ pc[t] = "epoch" /\ ThLocalEpoch'[t] = epoch[t]
                         \/ pc[t] = "validate" /\ ThLocalEpoch'[t] = ThLocalEpoch[t]
    OBVIOUS
  <2>1. Placed(t)'
    BY DEF Placed
  <2>2. storeEpoch(t) \/ validateRead(t)
    <3>1. storeEpoch(t) \/ validateRead(t) \/ commit(t) \/ installWord(t) \/ installTid(t)
      BY <2>1, PlacedSteps
    <3> QED
      BY <1>1, <3>1 DEF commit, installWord, installTid
  <2>3. UNCHANGED n
    BY <2>2 DEF storeEpoch, validateRead
  <2>4. CASE storeEpoch(t)
    BY <1>1, <2>3, <2>4 DEF storeEpoch, TxnId
  <2>5. CASE validateRead(t)
    BY <1>1, <2>3, <2>5 DEF validateRead, TxnId
  <2> QED
    BY <2>2, <2>4, <2>5
<1>6. ASSUME NEW u \in Thread, pc'[u] = "epoch"
      PROVE  Entry(TxnId(u)', epoch'[u]) \in Places
  <2>1. u # t /\ pc[u] = "epoch"
    BY <1>3, <1>4, <1>6
  <2> QED
    BY <1>3, <2>1 DEF Places
<1>7. ASSUME NEW u \in Thread, pc'[u] = "validate"
      PROVE  Entry(TxnId(u)', ThLocalEpoch'[u]) \in Places
  <2>1. CASE u # t
    BY <1>3, <1>7, <2>1 DEF Places
  <2>2. CASE u = t
    BY <1>5, <1>7, <2>2 DEF Places
  <2> QED
    BY <2>1, <2>2
<1> QED
  BY <1>2, <1>6, <1>7 DEF Places, Entry

\* Every version is the loaded one or of a committed transaction, whose place is known.
LEMMA RankedBelow ==
    ASSUME TypeOK, Identified, NEW r \in [Txn -> Nat], NEW now \in Nat, Ranked(r, now)
    PROVE  /\ \A c \in committed : c.id \in Txn /\ r[c.id] < now
           /\ \A k \in Key : \A i \in DOMAIN order[k] : order[k][i] \in Txn /\ r[order[k][i]] < now
           /\ \A u \in Thread : TxnId(u) \in Txn /\ (Placed(u) => r[TxnId(u)] < now)
<1>1. ASSUME NEW c \in committed
      PROVE  c.id \in Txn /\ r[c.id] < now
  <2>1. Entry(c.id, c.tid.epoch) \in Places
    BY DEF Places
  <2>2. Entry(c.id, c.tid.epoch).id = c.id
    BY DEF Entry
  <2> QED
    BY <2>1, <2>2 DEF Ranked, TypeOK, Types
<1>2. \A k \in Key : \A i \in DOMAIN order[k] : order[k][i] \in Txn /\ r[order[k][i]] < now
  BY <1>1 DEF Identified
<1>3. ASSUME NEW u \in Thread, Placed(u)
      PROVE  r[TxnId(u)] < now
  <2>1. CASE pc[u] = "install"
    BY <1>1, <2>1 DEF Identified
  <2>2. CASE pc[u] = "epoch"
    <3>1. Entry(TxnId(u), epoch[u]) \in Places
      BY <2>2 DEF Places
    <3> QED
      BY <3>1 DEF Ranked, Entry
  <2>3. CASE pc[u] = "validate"
    <3>1. Entry(TxnId(u), ThLocalEpoch[u]) \in Places
      BY <2>3 DEF Places
    <3> QED
      BY <3>1 DEF Ranked, Entry
  <2> QED
    BY <1>3, <2>1, <2>2, <2>3 DEF Placed
<1>4. \A u \in Thread : TxnId(u) \in Txn
  BY TxnIdType DEF TypeOK
<1> QED
  BY <1>1, <1>2, <1>3, <1>4

-----------------------------------------------------------------------------
(* The ranking *)

LEMMA AllPlacedStay ==
    ASSUME TypeOK, Positioned, NEW t \in Thread, worker(t), ~loadEpoch(t),
           NEW u \in Thread, Placed(u)'
    PROVE  Placed(u) /\ TxnId(u)' = TxnId(u) /\ held'[u] \subseteq held[u]
<1>1. CASE u = t
  BY <1>1, PlacedStays
<1>2. CASE u # t
  <2>1. pc'[u] = pc[u] /\ held'[u] = held[u] /\ n'[u] = n[u]
    BY <1>2, OthersStay DEF TypeOK
  <2> QED
    BY <2>1 DEF Placed, TxnId
<1> QED
  BY <1>1, <1>2

\* What comes after a version is installed by a worker that holds its record.
LEMMA UnspoiltStays ==
    ASSUME TypeOK, LockOwnership, Positioned, NEW t \in Thread, worker(t), ~loadEpoch(t),
           NEW r, NEW i, NEW k \in Key, NEW p, Unspoilt(r, i, k, p)
    PROVE  Unspoilt(r, i, k, p)'
<1>1. ASSUME NEW q \in DOMAIN order'[k], p < q
      PROVE  order'[k][q] = i \/ r[i] < r[order'[k][q]]
  <2>1. CASE q \in DOMAIN order[k] /\ order'[k][q] = order[k][q]
    BY <1>1, <2>1 DEF Unspoilt
  <2>2. CASE ~(q \in DOMAIN order[k] /\ order'[k][q] = order[k][q])
    <3>1. installTid(t)
      <4>1. ~UNCHANGED order
        BY <1>1, <2>2
      <4> QED
        BY <4>1, HistoryGrows DEF TypeOK
    <3>2. PICK j \in held[t] :
            /\ j \in Key /\ pc[t] = "install"
            /\ order' = [order EXCEPT ![j] = Append(@, TxnId(t))]
            /\ \A l \in Key \ {j} : order'[l] = order[l]
      BY <3>1, InstallOne
    <3>3. j = k
      BY <1>1, <2>2, <3>2
    <3>4. order'[k][q] = TxnId(t)
      <4>1. order'[k] = Append(order[k], TxnId(t)) /\ order[k] \in Seq(Txn)
        BY <3>2, <3>3 DEF TypeOK, Types
      <4>2. TxnId(t) \in Txn
        BY TxnIdType DEF TypeOK
      <4> HIDE DEF TxnId
      <4> QED
        BY <1>1, <2>2, <4>1, <4>2
    <3>5. Placed(t) /\ k \in held[t]
      BY <3>2, <3>3 DEF Placed
    <3> QED
      BY <3>4, <3>5 DEF Unspoilt
  <2> QED
    BY <2>1, <2>2
<1>2. ASSUME NEW u \in Thread, Placed(u)', k \in held'[u]
      PROVE  TxnId(u)' = i \/ r[i] < r[TxnId(u)']
  <2>1. Placed(u) /\ TxnId(u)' = TxnId(u) /\ k \in held[u]
    BY <1>2, AllPlacedStay
  <2> QED
    BY <2>1 DEF Unspoilt
<1> QED
  BY <1>1, <1>2 DEF Unspoilt

LEMMA OrderRanked ==
    ASSUME TypeOK, LockOwnership, Positioned, NEW t \in Thread, worker(t), ~loadEpoch(t),
           NEW r, NEW now, Ranked(r, now)
    PROVE  /\ \A k \in Key : \A i, j \in DOMAIN order'[k] :
                 i < j => r[order'[k][i]] < r[order'[k][j]]
           /\ \A u \in Thread : Placed(u)' =>
                 \A k \in held'[u] : \A i \in DOMAIN order'[k] : r[order'[k][i]] < r[TxnId(u)']
<1>0. /\ \A k \in Key : \A i, j \in DOMAIN order[k] :
            i < j => r[order[k][i]] < r[order[k][j]]
      /\ \A u \in Thread : Placed(u) =>
            \A k \in held[u] : \A i \in DOMAIN order[k] : r[order[k][i]] < r[TxnId(u)]
  BY DEF Ranked
<1>1. ASSUME NEW u \in Thread, Placed(u)', NEW k \in held'[u], NEW i \in DOMAIN order[k]
      PROVE  r[order[k][i]] < r[TxnId(u)']
  <2>1. Placed(u) /\ TxnId(u)' = TxnId(u) /\ k \in held[u]
    BY <1>1, AllPlacedStay
  <2> QED
    BY <1>0, <1>1, <2>1
<1>2. CASE UNCHANGED order
  BY <1>0, <1>1, <1>2
<1>3. CASE installTid(t)
  <2>1. PICK k \in held[t] :
          /\ k \in Key /\ pc[t] = "install"
          /\ held' = [held EXCEPT ![t] = @ \ {k}]
          /\ order' = [order EXCEPT ![k] = Append(@, TxnId(t))]
          /\ \A j \in Key \ {k} : order'[j] = order[j]
    BY <1>3, InstallOne
  <2>2. order'[k] = Append(order[k], TxnId(t)) /\ order[k] \in Seq(Txn) /\ TxnId(t) \in Txn
    BY <2>1, TxnIdType DEF TypeOK, Types
  <2>3. /\ Len(order[k]) \in Nat
        /\ DOMAIN order'[k] = 1 .. Len(order[k]) + 1 /\ DOMAIN order[k] = 1 .. Len(order[k])
        /\ order'[k][Len(order[k]) + 1] = TxnId(t)
        /\ \A i \in DOMAIN order[k] : order'[k][i] = order[k][i]
    <3> HIDE DEF TxnId
    <3> QED
      BY <2>2
  <2>4. \A i \in DOMAIN order[k] : r[order[k][i]] < r[TxnId(t)]
    BY <1>0, <2>1 DEF Placed
  <2>5. \A i, j \in DOMAIN order'[k] : i < j => r[order'[k][i]] < r[order'[k][j]]
    <3>1. ASSUME NEW i \in DOMAIN order'[k], NEW j \in DOMAIN order'[k], i < j
          PROVE  r[order'[k][i]] < r[order'[k][j]]
      <4>1. i \in DOMAIN order[k]
        BY <2>3, <3>1
      <4>2. CASE j \in DOMAIN order[k]
        BY <1>0, <2>1, <2>3, <3>1, <4>1, <4>2
      <4>3. CASE j = Len(order[k]) + 1
        BY <2>3, <2>4, <4>1, <4>3
      <4> QED
        BY <2>3, <3>1, <4>2, <4>3
    <3> QED
      BY <3>1
  <2>6. \A u \in Thread : k \notin held'[u]
    <3>1. \A u \in Thread : u # t => k \notin held[u]
      BY <2>1 DEF LockOwnership
    <3>2. held \in [Thread -> SUBSET Key]
      BY DEF TypeOK, Types
    <3> QED
      BY <2>1, <3>1, <3>2
  <2>7. ASSUME NEW u \in Thread, Placed(u)', NEW j \in held'[u], NEW i \in DOMAIN order'[j]
        PROVE  r[order'[j][i]] < r[TxnId(u)']
    <3>1. j \in Key /\ j # k
      <4>1. j \in held[u]
        BY <2>7, AllPlacedStay
      <4> QED
        BY <2>6, <2>7, <4>1 DEF TypeOK, Types
    <3>2. order'[j] = order[j]
      BY <2>1, <3>1
    <3> QED
      BY <1>1, <2>7, <3>2
  <2>8. \A j \in Key \ {k} : order'[j] = order[j]
    BY <2>1
  <2> QED
    BY <1>0, <2>5, <2>7, <2>8
<1> QED
  BY <1>2, <1>3, HistoryGrows DEF TypeOK

LEMMA EntryType ==
    ASSUME TypeOK, NEW t \in Thread, NEW i \in DOMAIN rset[t]
    PROVE  rset[t][i].key \in Key /\ rset[t][i].tid \in Tid
<1>1. rset[t] \in Seq(ReadElement)
  BY DEF TypeOK, Types
<1>2. rset[t][i] \in ReadElement
  BY <1>1
<1> QED
  BY <1>2 DEF ReadElement

\* An entry that passes validation is of the last version of its record, and no
\* other worker that has taken its place holds the record.
LEMMA ValidatedIsCurrent ==
    ASSUME TypeOK, LockOwnership, Identified, TidsRise, NEW t \in Thread, validateRead(t),
           pc'[t] = "validate", NEW r, NEW k \in Key, k = rset[t][pos[t]].key,
           NEW p \in 0 .. Len(order[k]), HasTid(k, p, rset[t][pos[t]].tid)
    PROVE  Unspoilt(r, TxnId(t), k, p)
<1>1. pc[t] = "validate" /\ pos[t] \in DOMAIN rset[t] /\ pc \in [Thread -> Label]
  BY DEF validateRead, TypeOK, Types
<1>2. /\ TidOf(tidword[k]) = rset[t][pos[t]].tid
      /\ ~(tidword[k].lock /\ ~searchWriteSet(t, k))
  <2>1. SUFFICES ASSUME ~(/\ TidOf(tidword[k]) = rset[t][pos[t]].tid
                          /\ ~(tidword[k].lock /\ ~searchWriteSet(t, k)))
                 PROVE  FALSE
    OBVIOUS
  <2>2. Goto(t, "unlock")
    BY <2>1 DEF validateRead
  <2> QED
    BY <1>1, <2>2 DEF Goto
<1>3. p = Len(order[k])
  BY <1>2, CurrentVersion DEF TypeOK
<1>4. order[k] \in Seq(Txn)
  BY DEF TypeOK, Types
<1>5. \A q \in DOMAIN order[k] : ~(p < q)
  BY <1>3, <1>4
<1>6. ASSUME NEW u \in Thread, k \in held[u]
      PROVE  u = t
  <2>1. tidword[k].lock
    BY <1>6 DEF LockOwnership
  <2>2. k \in held[t]
    BY <1>1, <1>2, <2>1 DEF searchWriteSet, Identified
  <2> QED
    BY <1>6, <2>2 DEF LockOwnership
<1> QED
  BY <1>5, <1>6 DEF Unspoilt

\* An entry that is kept still holds.
LEMMA EntryStays ==
    ASSUME TypeOK, LockOwnership, Identified, TidsRise, Positioned,
           NEW u \in Thread, worker(u), ~loadEpoch(u), NEW t \in Thread, NEW r,
           NEW i \in DOMAIN rset[t], rset'[t][i] = rset[t][i], EntryHolds(r, t, i)
    PROVE  EntryHolds(r, t, i)'
<1> DEFINE e == rset[t][i]
           k == e.key
<1>1. k \in Key /\ e.tid \in Tid /\ order[k] \in Seq(Txn)
  BY EntryType DEF TypeOK, Types
<1>2. PICK p \in 0 .. Len(order[k]) :
        /\ HasTid(k, p, e.tid)
        /\ \A w \in Word : e.val[w] = VersionAt(k, p)
        /\ Placed(t) => Follows(r, TxnId(t), k, p)
        /\ pc[t] = "install" \/ (pc[t] = "validate" /\ i < pos[t]) => Unspoilt(r, TxnId(t), k, p)
  BY DEF EntryHolds
<1>3. PICK j : j = k
  OBVIOUS
<1>4. PICK x : x = e.tid
  OBVIOUS
<1>5. e' = e
  OBVIOUS
<1> HIDE DEF e
<1>6. /\ p \in 0 .. Len(order'[j]) /\ VersionAt(j, p)' = VersionAt(j, p)
      /\ HasTid(j, p, x)'
      /\ p > 0 => p \in DOMAIN order[j] /\ order'[j][p] = order[j][p]
  <2>1. j \in Key /\ x \in Tid /\ p \in 0 .. Len(order[j]) /\ HasTid(j, p, x)
    BY <1>1, <1>2, <1>3, <1>4
  <2>2. p > 0 => p \in DOMAIN order[j]
    BY <1>1, <1>3, <2>1
  <2> QED
    BY <2>1, <2>2, VersionsKept DEF TypeOK
<1>7. Placed(t)' => Placed(t) /\ TxnId(t)' = TxnId(t)
  BY AllPlacedStay
<1>8. ASSUME NEW y, y = TxnId(t)', Placed(t)'
      PROVE  Follows(r, y, j, p)'
  <2>1. y = TxnId(t) /\ Follows(r, y, j, p)
    BY <1>2, <1>3, <1>7, <1>8
  <2> QED
    BY <1>6, <2>1 DEF Follows
<1>9. ASSUME NEW y, y = TxnId(t)', pc'[t] = "install" \/ (pc'[t] = "validate" /\ i < pos'[t])
      PROVE  Unspoilt(r, y, j, p)'
  <2>1. Placed(t)' /\ y = TxnId(t)
    BY <1>7, <1>9 DEF Placed
  <2>2. Unspoilt(r, y, j, p)
    <3>1. CASE u # t
      <4>1. pc'[t] = pc[t] /\ pos'[t] = pos[t]
        BY <3>1, OthersStay DEF TypeOK
      <4> QED
        BY <1>2, <1>3, <1>9, <2>1, <4>1
    <3>2. CASE u = t
      <4>1. \/ pc[t] = "install" \/ (pc[t] = "validate" /\ i < pos[t])
            \/ validateRead(t) /\ i = pos[t] /\ pc'[t] = "validate"
        BY <1>9, <2>1, <3>2, PlacedStays
      <4>2. CASE pc[t] = "install" \/ (pc[t] = "validate" /\ i < pos[t])
        BY <1>2, <1>3, <2>1, <4>2
      <4>3. CASE validateRead(t) /\ i = pos[t] /\ pc'[t] = "validate"
        <5>1. j \in Key /\ j = rset[t][pos[t]].key /\ HasTid(j, p, rset[t][pos[t]].tid)
          BY <1>1, <1>2, <1>3, <4>3 DEF e
        <5>2. p \in 0 .. Len(order[j])
          BY <1>2, <1>3
        <5> QED
          BY <2>1, <4>3, <5>1, <5>2, ValidatedIsCurrent
      <4> QED
        BY <4>1, <4>2, <4>3
    <3> QED
      BY <3>1, <3>2
  <2>3. j \in Key
    BY <1>1, <1>3
  <2> QED
    BY <2>2, <2>3, UnspoiltStays
<1>10. \A w \in Word : e.val[w] = VersionAt(j, p)'
  BY <1>2, <1>3, <1>6
<1>11. rset'[t][i] = e /\ e.key = j /\ e.tid = x
  BY <1>3, <1>4, <1>5 DEF e
<1> QED
  BY <1>6, <1>8, <1>9, <1>10, <1>11 DEF EntryHolds

\* read: what has been copied under an unchanged TID is the last version.
LEMMA EntryRead ==
    ASSUME TypeOK, TypeOK', LockOwnership, TidsRise, WordsHold, CopiesHold,
           NEW t \in Thread, readCheck(t), rset'[t] # rset[t], NEW r
    PROVE  /\ \A i \in DOMAIN rset'[t] : i = Len(rset[t]) + 1
                                         \/ (i \in DOMAIN rset[t] /\ rset'[t][i] = rset[t][i])
           /\ \A i \in DOMAIN rset'[t] : i = Len(rset[t]) + 1 => EntryHolds(r, t, i)'
<1> DEFINE e == [key |-> OpKey(t), tid |-> expected[t], val |-> buf[t]]
<1>1. /\ pc[t] = "copy" /\ todo[t] = {}
      /\ ~tidword[OpKey(t)].lock /\ TidOf(tidword[OpKey(t)]) = expected[t]
      /\ rset' = [rset EXCEPT ![t] = Append(@, e)] /\ Advance(t)
  BY DEF readCheck
<1>2. PICK k \in Key : k = OpKey(t)
  BY <1>1, OpKeyType
<1>3. /\ rset \in [Thread -> Seq(ReadElement)] /\ pc \in [Thread -> Label]
      /\ buf[t] \in [Word -> Txn] /\ expected[t] \in Tid
  BY DEF TypeOK, Types
<1>4. e \in ReadElement
  BY <1>2, <1>3 DEF ReadElement
<1>5. /\ \A i \in DOMAIN rset'[t] : i = Len(rset[t]) + 1
                                    \/ (i \in DOMAIN rset[t] /\ rset'[t][i] = rset[t][i])
      /\ rset'[t][Len(rset[t]) + 1] = e
  <2>1. rset'[t] = Append(rset[t], e) /\ rset[t] \in Seq(ReadElement)
    BY <1>1, <1>3
  <2> HIDE DEF e
  <2> QED
    BY <1>4, <2>1
<1>6. ~Placed(t)' /\ pc'[t] # "install" /\ pc'[t] # "validate"
  BY <1>1, <1>3 DEF Advance, Goto, Placed
<1>7. UNCHANGED << order, committed >>
  BY DEF readCheck, history
<1>8. ~Installing(k)
  <2>1. \A u \in Thread : k \notin held[u]
    BY <1>1, <1>2 DEF LockOwnership
  <2> QED
    BY <2>1 DEF Installing
<1>9. \A w \in Word : buf[t][w] = VersionAt(k, Len(order[k]))
  <2>1. \A w \in Word : buf[t][w] = val[k][w]
    BY <1>1, <1>2, <1>8 DEF CopiesHold
  <2> QED
    BY <1>8, <2>1 DEF WordsHold
<1>10. HasTid(k, Len(order[k]), expected[t])
  BY <1>1, <1>2 DEF TidsRise
<1>11. Len(order[k]) \in Nat
  BY DEF TypeOK, Types
<1>12. PICK p \in 0 .. Len(order[k]) : p = Len(order[k])
  BY <1>11
<1>13. PICK x : x = expected[t]
  OBVIOUS
<1>14. HasTid(k, p, x)' /\ (\A w \in Word : buf[t][w] = VersionAt(k, p)')
  BY <1>7, <1>9, <1>10, <1>12, <1>13 DEF HasTid, VersionAt
<1>15. e.key = k /\ e.tid = x /\ e.val = buf[t]
  BY <1>2, <1>13
<1> HIDE DEF e
<1>16. ASSUME NEW i \in DOMAIN rset'[t], i = Len(rset[t]) + 1
       PROVE  EntryHolds(r, t, i)'
  <2>1. rset'[t][i].key = k /\ rset'[t][i].tid = x /\ rset'[t][i].val = buf[t]
    BY <1>5, <1>15, <1>16
  <2>2. p \in 0 .. Len(order'[k])
    BY <1>7
  <2> QED
    BY <1>6, <1>14, <2>1, <2>2 DEF EntryHolds
<1> QED
  BY <1>5, <1>16

LEMMA EntriesRanked ==
    ASSUME TypeOK, TypeOK', LockOwnership, Identified, TidsRise, WordsHold, CopiesHold, Positioned,
           NEW u \in Thread, worker(u), ~loadEpoch(u), NEW r, NEW now, Ranked(r, now)
    PROVE  \A t \in Thread : \A i \in DOMAIN rset'[t] : EntryHolds(r, t, i)'
<1>1. ASSUME NEW t \in Thread, NEW i \in DOMAIN rset[t], rset'[t][i] = rset[t][i]
      PROVE  EntryHolds(r, t, i)'
  <2>1. EntryHolds(r, t, i)
    BY DEF Ranked
  <2> QED
    BY <1>1, <2>1, EntryStays
<1>2. ASSUME NEW t \in Thread, rset'[t] = rset[t] \/ rset'[t] = << >>, NEW i \in DOMAIN rset'[t]
      PROVE  EntryHolds(r, t, i)'
  BY <1>1, <1>2
<1>3. ASSUME NEW i \in DOMAIN rset'[u]
      PROVE  EntryHolds(r, u, i)'
  <2> USE DEF control, epochs, copying, logs, history, txnsets
  <2>0. rset \in [Thread -> Seq(ReadElement)]
    BY DEF TypeOK, Types
  <2>1. CASE readCheck(u)
    <3>1. CASE rset'[u] = rset[u]
      BY <1>2, <1>3, <3>1
    <3>2. CASE rset'[u] # rset[u]
      BY <1>1, <1>3, <2>1, <3>2, EntryRead
    <3> QED
      BY <3>1, <3>2
  <2>2. CASE abort(u) \/ finish(u)
    <3>1. rset'[u] = << >>
      BY <2>0, <2>2 DEF abort, finish
    <3> QED
      BY <1>2, <1>3, <3>1
  <2>3. ASSUME UNCHANGED rset
        PROVE  EntryHolds(r, u, i)'
    BY <1>2, <1>3, <2>3
  <2>4. CASE NextProcedure(u) \/ (u = Leader /\ leaderWork) \/ begin(u)
    <3>1. UNCHANGED rset
      BY <2>4 DEF NextProcedure, leaderWork, begin
    <3> QED
      BY <2>3, <3>1
  <2>5. CASE write(u) \/ readLocal(u) \/ readTid(u) \/ readCopy(u)
    <3>1. UNCHANGED rset
      BY <2>5 DEF write, readLocal, readTid, readCopy
    <3> QED
      BY <2>3, <3>1
  <2>6. CASE lockRecord(u) \/ lockFailed(u) \/ storeEpoch(u) \/ validateRead(u)
    <3>1. UNCHANGED rset
      BY <2>6 DEF lockRecord, lockFailed, storeEpoch, validateRead
    <3> QED
      BY <2>3, <3>1
  <2>7. CASE unlockRecord(u) \/ relock(u) \/ commit(u) \/ installWord(u) \/ installTid(u)
    <3>1. UNCHANGED rset
      BY <2>7 DEF unlockRecord, relock, commit, installWord, installTid
    <3> QED
      BY <2>3, <3>1
  <2> QED
    BY <2>1, <2>2, <2>4, <2>5, <2>6, <2>7 DEF worker
<1>4. ASSUME NEW t \in Thread, t # u, NEW i \in DOMAIN rset'[t]
      PROVE  EntryHolds(r, t, i)'
  <2>1. rset'[t] = rset[t]
    BY <1>4, OthersStay DEF TypeOK
  <2> QED
    BY <1>2, <1>4, <2>1
<1> QED
  BY <1>3, <1>4

\* What a transaction read when it commits is what its read set says, validated.
LEMMA ReadsRanked ==
    ASSUME TypeOK, LockOwnership, Identified, Positioned,
           NEW u \in Thread, worker(u), ~loadEpoch(u), NEW r, NEW now, Ranked(r, now)
    PROVE  \A c \in committed' : \A e \in c.reads : ReadHolds(r, c, e)'
<1>1. ASSUME NEW c, NEW e, e.key \in Key, ReadHolds(r, c, e)
      PROVE  ReadHolds(r, c, e)'
  <2>1. PICK k \in Key : k = e.key
    BY <1>1
  <2>2. PICK p \in 0 .. Len(order[k]) :
            /\ e.ver = VersionAt(k, p)
            /\ Follows(r, c.id, k, p)
            /\ Unspoilt(r, c.id, k, p)
    BY <1>1, <2>1 DEF ReadHolds
  <2>3. Unspoilt(r, c.id, k, p)'
    BY <2>2, UnspoiltStays
  <2>4. p \in 0 .. Len(order'[k]) /\ VersionAt(k, p)' = VersionAt(k, p)
    BY VersionsKept DEF TypeOK
  <2>5. Follows(r, c.id, k, p)'
    <3>1. p > 0 => p \in DOMAIN order[k]
      BY DEF TypeOK, Types
    <3>2. p > 0 => order'[k][p] = order[k][p]
      BY <3>1, VersionsKept DEF TypeOK
    <3> QED
      BY <2>2, <3>2 DEF Follows
  <2> QED
    BY <2>1, <2>2, <2>3, <2>4, <2>5 DEF ReadHolds
<1>2. ASSUME NEW c \in committed, NEW e \in c.reads
      PROVE  e.key \in Key /\ ReadHolds(r, c, e)
  BY DEF Ranked, TypeOK, Types
<1>3. ASSUME NEW c \in committed', c \notin committed, NEW e \in c.reads
      PROVE  e.key \in Key /\ ReadHolds(r, c, e)
  <2>1. commit(u) /\ c = [id |-> TxnId(u), reads |-> ReadVersions(u), tid |-> commitTid(u)]
    BY <1>3, HistoryGrows DEF TypeOK
  <2>2. c.id = TxnId(u) /\ e \in ReadVersions(u)
    BY <1>3, <2>1
  <2>3. PICK i \in DOMAIN rset[u], w \in Word :
            e = [key |-> rset[u][i].key, ver |-> rset[u][i].val[w]]
    BY <2>2 DEF ReadVersions
  <2>4. PICK k \in Key : k = rset[u][i].key
    BY EntryType
  <2>5. pc[u] = "validate" /\ i < pos[u]
    <3>1. rset[u] \in Seq(ReadElement) /\ pos[u] \in Nat
      BY DEF TypeOK, Types
    <3>2. pc[u] = "validate" /\ pos[u] \notin DOMAIN rset[u] /\ pos[u] # 0
      BY <2>1 DEF commit, Positioned
    <3> QED
      BY <3>1, <3>2
  <2>6. EntryHolds(r, u, i)
    BY DEF Ranked
  <2>7. PICK p \in 0 .. Len(order[k]) :
            /\ rset[u][i].val[w] = VersionAt(k, p)
            /\ Follows(r, TxnId(u), k, p)
            /\ Unspoilt(r, TxnId(u), k, p)
    BY <2>4, <2>5, <2>6 DEF EntryHolds, Placed
  <2>8. e.key = k /\ e.ver = rset[u][i].val[w]
    BY <2>3, <2>4
  <2> QED
    BY <2>2, <2>7, <2>8 DEF ReadHolds
<1> QED
  BY <1>1, <1>2, <1>3

LEMMA EpochMonotone ==
    ASSUME Types, NEW t \in Thread, worker(t)
    PROVE  GlobalEpoch <= GlobalEpoch'
<1> USE DEF control, epochs, copying, logs, history, txnsets
<1>0. GlobalEpoch \in Nat
  BY DEF Types
<1>1. CASE t = Leader /\ leaderWork
  BY <1>0, <1>1 DEF leaderWork
<1>2. ASSUME UNCHANGED GlobalEpoch
      PROVE  GlobalEpoch <= GlobalEpoch'
  BY <1>0, <1>2
<1>3. CASE NextProcedure(t) \/ begin(t) \/ write(t) \/ readLocal(t) \/ readTid(t)
  BY <1>2, <1>3 DEF NextProcedure, begin, write, readLocal, readTid
<1>4. CASE readCopy(t) \/ readCheck(t) \/ lockRecord(t) \/ lockFailed(t) \/ loadEpoch(t)
  BY <1>2, <1>4 DEF readCopy, readCheck, lockRecord, lockFailed, loadEpoch
<1>5. CASE storeEpoch(t) \/ validateRead(t) \/ unlockRecord(t) \/ relock(t) \/ abort(t)
  BY <1>2, <1>5 DEF storeEpoch, validateRead, unlockRecord, relock, abort
<1>6. CASE commit(t) \/ installWord(t) \/ installTid(t) \/ finish(t)
  BY <1>2, <1>6 DEF commit, installWord, installTid, finish
<1> QED
  BY <1>1, <1>3, <1>4, <1>5, <1>6 DEF worker

LEMMA PlacesType ==
    ASSUME TypeOK
    PROVE  \A x \in Places : x.id \in Txn /\ x.epoch \in Nat
<1>1. \A c \in committed : c.id \in Txn /\ c.tid.epoch \in Nat
  BY DEF TypeOK, Types, Tid
<1>2. \A t \in Thread : TxnId(t) \in Txn /\ epoch[t] \in Nat /\ ThLocalEpoch[t] \in Nat
  BY TxnIdType DEF TypeOK, Types
<1> QED
  BY <1>1, <1>2 DEF Places, Entry

\* The places stay, but a worker that loads the epoch takes the last one.
LEMMA RankedStays ==
    ASSUME TypeOK, TypeOK', LockOwnership, EpochInd, Identified, TidsRise, WordsHold, CopiesHold,
           Positioned, NEW u \in Thread, worker(u), ~loadEpoch(u),
           NEW r \in [Txn -> Nat], NEW now \in Nat, Ranked(r, now)
    PROVE  Ranked(r, now)'
<1>1. Places' \subseteq Places
  BY PlacesStay
<1>2. GlobalEpoch <= GlobalEpoch'
  BY EpochMonotone DEF TypeOK
<1>3. \A x \in Places : r[x.id] < now /\ x.epoch <= GlobalEpoch /\ x.epoch \in Nat
  BY PlacesType DEF Ranked
<1>4. \A x \in Places' : r[x.id] < now /\ x.epoch <= GlobalEpoch'
  <2>1. GlobalEpoch \in Nat /\ GlobalEpoch' \in Nat
    BY DEF TypeOK, Types
  <2> QED
    BY <1>1, <1>2, <1>3, <2>1
<1>5. \A x, y \in Places' : r[x.id] < r[y.id] => x.epoch <= y.epoch
  BY <1>1 DEF Ranked
<1>6. /\ \A k \in Key : \A i, j \in DOMAIN order'[k] :
            i < j => r[order'[k][i]] < r[order'[k][j]]
      /\ \A v \in Thread : Placed(v)' =>
            \A k \in held'[v] : \A i \in DOMAIN order'[k] : r[order'[k][i]] < r[TxnId(v)']
  BY OrderRanked
<1>7. \A t \in Thread : \A i \in DOMAIN rset'[t] : EntryHolds(r, t, i)'
  BY EntriesRanked
<1>8. \A c \in committed' : \A e \in c.reads : ReadHolds(r, c, e)'
  BY ReadsRanked
<1> QED
  BY <1>4, <1>5, <1>6, <1>7, <1>8 DEF Ranked

\* A worker that loads the epoch had no place before, and its name is new.
LEMMA LoadEpochFresh ==
    ASSUME TypeOK, Identified, NEW t \in Thread, loadEpoch(t)
    PROVE  /\ UNCHANGED << order, committed, tidword, val, held, rset, n, GlobalEpoch, ThLocalEpoch >>
           /\ pc[t] = "lock" /\ pc'[t] = "epoch" /\ epoch'[t] = GlobalEpoch
           /\ \A u \in Thread : u # t => pc'[u] = pc[u] /\ pos'[u] = pos[u] /\ epoch'[u] = epoch[u]
           /\ \A x \in Places : x.id # TxnId(t)
           /\ \A c \in committed : c.id # TxnId(t)
           /\ \A k \in Key : \A i \in DOMAIN order[k] : order[k][i] # TxnId(t)
           /\ Places' \subseteq Places \cup {Entry(TxnId(t), GlobalEpoch)}
<1> USE DEF control, epochs, copying, logs, history, txnsets, Goto
<1>1. /\ UNCHANGED << order, committed, tidword, val, held, rset, n, GlobalEpoch, ThLocalEpoch, pos >>
      /\ pc[t] = "lock" /\ pc'[t] = "epoch" /\ epoch'[t] = GlobalEpoch
      /\ \A u \in Thread : u # t => pc'[u] = pc[u] /\ epoch'[u] = epoch[u]
  BY DEF loadEpoch, TypeOK, Types
<1>2. \A c \in committed : c.id # TxnId(t)
  BY <1>1, FreshTxn DEF TypeOK
<1>3. \A k \in Key : \A i \in DOMAIN order[k] : order[k][i] # TxnId(t)
  BY <1>2 DEF Identified
<1>4. \A x \in Places : x.id # TxnId(t)
  <2>1. \A u \in Thread : pc[u] \in {"epoch", "validate"} => TxnId(u) # TxnId(t)
    BY <1>1, TxnIdsDiffer
  <2> QED
    BY <1>2, <2>1 DEF Places, Entry
<1>5. Places' \subseteq Places \cup {Entry(TxnId(t), GlobalEpoch)}
  <2>1. \A u \in Thread : TxnId(u)' = TxnId(u)
    BY <1>1 DEF TxnId
  <2>2. ASSUME NEW u \in Thread, pc'[u] = "epoch"
        PROVE  Entry(TxnId(u)', epoch'[u]) \in Places \cup {Entry(TxnId(t), GlobalEpoch)}
    BY <1>1, <2>1, <2>2 DEF Places
  <2>3. ASSUME NEW u \in Thread, pc'[u] = "validate"
        PROVE  Entry(TxnId(u)', ThLocalEpoch'[u]) \in Places
    BY <1>1, <2>1, <2>3 DEF Places
  <2>4. \A c \in committed' : Entry(c.id, c.tid.epoch) \in Places
    BY <1>1 DEF Places
  <2> QED
    BY <2>2, <2>3, <2>4 DEF Places, Entry
<1> QED
  BY <1>1, <1>2, <1>3, <1>4, <1>5

\* Whoever takes the last place spoils nobody's reads.
LEMMA UnspoiltLoad ==
    ASSUME TypeOK, Identified, NEW t \in Thread, loadEpoch(t),
           NEW r \in [Txn -> Nat], NEW now \in Nat, Ranked(r, now), NEW q \in [Txn -> Nat],
           q[TxnId(t)] = now, \A x \in Txn : x # TxnId(t) => q[x] = r[x],
           NEW i \in Txn, i # TxnId(t), r[i] < now, NEW k \in Key, NEW p, Unspoilt(r, i, k, p)
    PROVE  Unspoilt(q, i, k, p)'
<1>1. q[i] = r[i]
  OBVIOUS
<1>2. \A j \in DOMAIN order'[k] : p < j => order'[k][j] = i \/ q[i] < q[order'[k][j]]
  <2>1. order' = order
    BY LoadEpochFresh
  <2>2. \A j \in DOMAIN order[k] : order[k][j] # TxnId(t) /\ order[k][j] \in Txn
    BY LoadEpochFresh, RankedBelow
  <2> QED
    BY <1>1, <2>1, <2>2 DEF Unspoilt
<1>3. ASSUME NEW u \in Thread, Placed(u)', k \in held'[u]
      PROVE  TxnId(u)' = i \/ q[i] < q[TxnId(u)']
  <2>1. TxnId(u)' = TxnId(u) /\ k \in held[u]
    BY <1>3, LoadEpochFresh DEF TxnId
  <2>2. CASE u = t
    BY <1>1, <2>1, <2>2
  <2>3. CASE u # t
    <3>1. Placed(u)
      BY <1>3, <2>3, LoadEpochFresh DEF Placed
    <3>2. q[TxnId(u)] = r[TxnId(u)]
      BY <2>3, TxnIdsDiffer, TxnIdType DEF TypeOK
    <3> QED
      BY <1>1, <2>1, <3>1, <3>2 DEF Unspoilt
  <2> QED
    BY <2>2, <2>3
<1> QED
  BY <1>2, <1>3 DEF Unspoilt

LEMMA RankedLoads ==
    ASSUME TypeOK, Identified, NEW t \in Thread, loadEpoch(t),
           NEW r \in [Txn -> Nat], NEW now \in Nat, Ranked(r, now)
    PROVE  \E q \in [Txn -> Nat], m \in Nat : Ranked(q, m)'
<1>1. PICK q \in [Txn -> Nat], m \in Nat :
        /\ q[TxnId(t)] = now /\ m = now + 1
        /\ \A x \in Txn : x # TxnId(t) => q[x] = r[x]
  <2>1. /\ [r EXCEPT ![TxnId(t)] = now] \in [Txn -> Nat] /\ now + 1 \in Nat
        /\ [r EXCEPT ![TxnId(t)] = now][TxnId(t)] = now
        /\ \A x \in Txn : x # TxnId(t) => [r EXCEPT ![TxnId(t)] = now][x] = r[x]
    BY TxnIdType DEF TypeOK
  <2> QED
    BY <2>1
<1>2. /\ \A x \in Places' : q[x.id] < m /\ x.epoch <= GlobalEpoch'
      /\ \A x, y \in Places' : q[x.id] < q[y.id] => x.epoch <= y.epoch
  <2> DEFINE z == Entry(TxnId(t), GlobalEpoch)
  <2>1. Places' \subseteq Places \cup {z} /\ GlobalEpoch' = GlobalEpoch /\ GlobalEpoch \in Nat
    BY LoadEpochFresh DEF TypeOK, Types
  <2>2. z.epoch = GlobalEpoch /\ z.id = TxnId(t)
    BY DEF Entry
  <2>3. \A x \in Places : x.id \in Txn /\ q[x.id] = r[x.id] /\ r[x.id] < now /\ x.epoch <= GlobalEpoch
    BY <1>1, LoadEpochFresh, PlacesType DEF Ranked
  <2>4. \A x, y \in Places : q[x.id] < q[y.id] => x.epoch <= y.epoch
    BY <2>3 DEF Ranked
  <2>5. \A x \in Places \cup {z} : q[x.id] < m /\ x.epoch <= GlobalEpoch
    BY <1>1, <2>1, <2>2, <2>3
  <2>6. ASSUME NEW x \in Places \cup {z}, NEW y \in Places \cup {z}, q[x.id] < q[y.id]
        PROVE  x.epoch <= y.epoch
    <3>1. CASE y = z
      BY <2>2, <2>5, <3>1
    <3>2. CASE x = z /\ y \in Places
      BY <1>1, <2>2, <2>3, <2>6, <3>2
    <3> QED
      BY <2>4, <2>6, <3>1, <3>2
  <2> HIDE DEF z
  <2> QED
    BY <2>1, <2>5, <2>6
<1>3. \A k \in Key : \A i \in DOMAIN order[k] :
         order[k][i] \in Txn /\ q[order[k][i]] = r[order[k][i]] /\ r[order[k][i]] < now
  BY <1>1, LoadEpochFresh, RankedBelow
<1>4. \A u \in Thread : TxnId(u)' = TxnId(u) /\ (u # t => TxnId(u) \in Txn /\ q[TxnId(u)] = r[TxnId(u)])
  <2>1. n' = n
    BY LoadEpochFresh
  <2> QED
    BY <1>1, <2>1, TxnIdsDiffer, TxnIdType DEF TxnId, TypeOK
<1>5. \A u \in Thread : u # t => /\ Placed(u)' = Placed(u)
                                 /\ Placed(u) => r[TxnId(u)] < now
  BY LoadEpochFresh, RankedBelow DEF Placed
<1>6. \A k \in Key : \A i, j \in DOMAIN order'[k] : i < j => q[order'[k][i]] < q[order'[k][j]]
  <2>1. order' = order
    BY LoadEpochFresh
  <2>2. \A k \in Key : \A i, j \in DOMAIN order[k] : i < j => r[order[k][i]] < r[order[k][j]]
    BY DEF Ranked
  <2> QED
    BY <1>3, <2>1, <2>2
<1>7. ASSUME NEW u \in Thread, Placed(u)', NEW k \in held'[u], NEW i \in DOMAIN order'[k]
      PROVE  q[order'[k][i]] < q[TxnId(u)']
  <2>1. order' = order /\ held' = held /\ k \in Key
    BY <1>7, LoadEpochFresh DEF TypeOK, Types
  <2>2. CASE u = t
    BY <1>1, <1>3, <1>4, <2>1, <2>2
  <2>3. CASE u # t
    <3>1. r[order[k][i]] < r[TxnId(u)]
      BY <1>5, <1>7, <2>1, <2>3 DEF Ranked
    <3> QED
      BY <1>3, <1>4, <2>1, <2>3, <3>1
  <2> QED
    BY <2>2, <2>3
<1>8. ASSUME NEW u \in Thread, NEW i \in DOMAIN rset'[u]
      PROVE  EntryHolds(q, u, i)'
  <2>1. UNCHANGED << rset, order, committed >>
    BY LoadEpochFresh
  <2>2. PICK k \in Key : k = rset[u][i].key
    BY <2>1, EntryType
  <2>3. EntryHolds(r, u, i)
    BY <2>1 DEF Ranked
  <2>4. PICK p \in 0 .. Len(order[k]) :
          /\ HasTid(k, p, rset[u][i].tid)
          /\ \A w \in Word : rset[u][i].val[w] = VersionAt(k, p)
          /\ Placed(u) => Follows(r, TxnId(u), k, p)
          /\ pc[u] = "install" \/ (pc[u] = "validate" /\ i < pos[u]) => Unspoilt(r, TxnId(u), k, p)
    BY <2>2, <2>3 DEF EntryHolds
  <2>5. p > 0 => p \in DOMAIN order[k]
    BY DEF TypeOK, Types
  <2>6. PICK x : x = rset[u][i].tid
    OBVIOUS
  <2>7. HasTid(k, p, x)' /\ VersionAt(k, p)' = VersionAt(k, p) /\ p \in 0 .. Len(order'[k])
    BY <2>1, <2>4, <2>6 DEF HasTid, VersionAt
  <2>8. ASSUME NEW y, y = TxnId(u)', Placed(u)'
        PROVE  Follows(q, y, k, p)'
    <3>1. y = TxnId(u)
      BY <1>4, <2>8
    <3>2. CASE u = t
      BY <1>1, <1>3, <2>1, <2>5, <3>1, <3>2 DEF Follows
    <3>3. CASE u # t
      BY <1>3, <1>4, <1>5, <2>1, <2>4, <2>5, <2>8, <3>1, <3>3 DEF Follows
    <3> QED
      BY <3>2, <3>3
  <2>9. ASSUME NEW y, y = TxnId(u)', pc'[u] = "install" \/ (pc'[u] = "validate" /\ i < pos'[u])
        PROVE  Unspoilt(q, y, k, p)'
    <3>1. u # t /\ pc'[u] = pc[u] /\ pos'[u] = pos[u]
      BY <2>9, LoadEpochFresh
    <3>2. y = TxnId(u) /\ y \in Txn /\ y # TxnId(t) /\ Unspoilt(r, y, k, p)
      BY <1>4, <2>4, <2>9, <3>1, TxnIdsDiffer
    <3>3. r[y] < now
      BY <1>5, <2>9, <3>1, <3>2 DEF Placed
    <3> QED
      BY <1>1, <3>2, <3>3, UnspoiltLoad
  <2>10. rset'[u][i].key = k /\ rset'[u][i].tid = x /\ rset'[u][i].val = rset[u][i].val
    BY <2>1, <2>2, <2>6
  <2> QED
    BY <2>4, <2>7, <2>8, <2>9, <2>10 DEF EntryHolds
<1>9. ASSUME NEW c \in committed', NEW e \in c.reads
      PROVE  ReadHolds(q, c, e)'
  <2>1. UNCHANGED << order, committed >>
    BY LoadEpochFresh
  <2>2. c.id \in Txn /\ c.id # TxnId(t) /\ r[c.id] < now /\ q[c.id] = r[c.id] /\ e.key \in Key
    <3>1. c.id # TxnId(t)
      BY <2>1, LoadEpochFresh
    <3>2. c.id \in Txn /\ r[c.id] < now
      BY <2>1, RankedBelow
    <3>3. e.key \in Key
      BY <1>9, <2>1 DEF TypeOK, Types
    <3> QED
      BY <1>1, <3>1, <3>2, <3>3
  <2>3. PICK k \in Key : k = e.key
    BY <2>2
  <2>4. PICK p \in 0 .. Len(order[k]) :
          /\ e.ver = VersionAt(k, p)
          /\ Follows(r, c.id, k, p)
          /\ Unspoilt(r, c.id, k, p)
    BY <1>9, <2>1, <2>3 DEF Ranked, ReadHolds
  <2>5. Unspoilt(q, c.id, k, p)'
    BY <1>1, <2>2, <2>4, UnspoiltLoad
  <2>6. Follows(q, c.id, k, p)'
    <3>1. p > 0 => p \in DOMAIN order[k]
      BY DEF TypeOK, Types
    <3> QED
      BY <1>3, <2>1, <2>2, <2>4, <3>1 DEF Follows
  <2>7. VersionAt(k, p)' = VersionAt(k, p) /\ p \in 0 .. Len(order'[k])
    BY <2>1 DEF VersionAt
  <2> QED
    BY <2>3, <2>4, <2>5, <2>6, <2>7 DEF ReadHolds
<1>10. Ranked(q, m)'
  BY <1>2, <1>6, <1>7, <1>8, <1>9 DEF Ranked
<1> QED
  BY <1>1, <1>10

-----------------------------------------------------------------------------
(* The induction *)

SerialInd ==
    /\ Identified /\ Positioned /\ TidsRise /\ WorkerTidsRise /\ WordsHold /\ CopiesHold
    /\ \E r \in [Txn -> Nat], now \in Nat : Ranked(r, now)

LEMMA SerialInit ==
    ASSUME Init
    PROVE  SerialInd
<1>1. Identified /\ Positioned /\ WorkerTidsRise /\ CopiesHold
  BY DEF Init, Identified, Positioned, WorkerTidsRise, CopiesHold
<1>2. TidsRise
  BY DEF Init, TidsRise, HasTid, TidLeq, TidOf, FirstTid
<1>3. WordsHold
  BY DEF Init, WordsHold, VersionAt
<1>4. Ranked([x \in Txn |-> 0], 0)
  BY DEF Init, Ranked, Places, Placed
<1>5. [x \in Txn |-> 0] \in [Txn -> Nat] /\ 0 \in Nat
  OBVIOUS
<1> QED
  BY <1>1, <1>2, <1>3, <1>4, <1>5 DEF SerialInd

LEMMA RankedQuiet ==
    ASSUME NEW r, NEW now, Ranked(r, now),
           UNCHANGED << GlobalEpoch, ThLocalEpoch, pc, pos, rset, held, epoch, n, committed, order >>
    PROVE  Ranked(r, now)'
<1>1. Places' = Places
  BY DEF Places, TxnId
<1>2. \A t \in Thread : TxnId(t)' = TxnId(t) /\ Placed(t)' = Placed(t)
  BY DEF TxnId, Placed
<1>3. ASSUME NEW i, NEW k, NEW p, Unspoilt(r, i, k, p)
      PROVE  Unspoilt(r, i, k, p)'
  BY <1>2, <1>3 DEF Unspoilt
<1>4. ASSUME NEW t \in Thread, NEW i \in DOMAIN rset'[t]
      PROVE  EntryHolds(r, t, i)'
  <2>1. EntryHolds(r, t, i)
    BY DEF Ranked
  <2> QED
    BY <2>1 DEF EntryHolds, HasTid, VersionAt, Follows, Unspoilt, TxnId, Placed
<1>5. ASSUME NEW c \in committed', NEW e \in c.reads
      PROVE  ReadHolds(r, c, e)'
  <2>1. ReadHolds(r, c, e)
    BY <1>5 DEF Ranked
  <2> QED
    BY <1>3, <2>1 DEF ReadHolds, VersionAt, Follows
<1> QED
  BY <1>1, <1>2, <1>4, <1>5 DEF Ranked

LEMMA RankedStep ==
    ASSUME TypeOK, TypeOK', LockOwnership, EpochInd, SerialInd, [Next]_vars
    PROVE  (\E r \in [Txn -> Nat], now \in Nat : Ranked(r, now))'
<1>1. PICK r \in [Txn -> Nat], now \in Nat : Ranked(r, now)
  BY DEF SerialInd
<1>2. CASE Quit \/ Joined \/ UNCHANGED vars
  <2>1. UNCHANGED << GlobalEpoch, ThLocalEpoch, pc, pos, rset, held, epoch, n, committed, order >>
    BY <1>2 DEF Quit, Joined, vars, history, txnsets
  <2> QED
    BY <1>1, <2>1, RankedQuiet
<1>3. ASSUME NEW t \in Thread, worker(t)
      PROVE  \E q \in [Txn -> Nat], m \in Nat : Ranked(q, m)'
  <2>1. CASE loadEpoch(t)
    BY <1>1, <2>1, RankedLoads DEF SerialInd
  <2>2. CASE ~loadEpoch(t)
    BY <1>1, <1>3, <2>2, RankedStays DEF SerialInd
  <2> QED
    BY <2>1, <2>2
<1> QED
  BY <1>2, <1>3 DEF Next

LEMMA SerialInduction == Spec /\ []TidsFit => []SerialInd
<1>1. Init => SerialInd
  BY SerialInit
<1>2. TypeOK /\ TypeOK' /\ LockOwnership /\ EpochInd /\ TidsFit /\ SerialInd /\ [Next]_vars => SerialInd'
  <2> SUFFICES ASSUME TypeOK, TypeOK', LockOwnership, EpochInd, TidsFit, SerialInd, [Next]_vars
               PROVE  SerialInd'
    OBVIOUS
  <2>1. Identified /\ Positioned /\ TidsRise /\ WorkerTidsRise /\ WordsHold /\ CopiesHold
    BY DEF SerialInd
  <2>2. Identified' /\ Positioned'
    BY <2>1, IdentifiedStep, PositionedStep
  <2>3. TidsRise' /\ WorkerTidsRise'
    BY <2>1, TidsRiseStep, WorkerTidsRiseStep
  <2>4. WordsHold' /\ CopiesHold'
    BY <2>1, WordsHoldStep, CopiesHoldStep
  <2>5. (\E r \in [Txn -> Nat], now \in Nat : Ranked(r, now))'
    BY RankedStep
  <2> QED
    BY <2>2, <2>3, <2>4, <2>5 DEF SerialInd
<1> QED
  BY <1>1, <1>2, TypeCorrect, LocksAreOwned, EpochInduction, PTL DEF Spec

-----------------------------------------------------------------------------
(* The theorems *)

\* A transaction that must come before another one is ranked before it.
LEMMA RankAgrees ==
    ASSUME TypeOK, Identified, NEW r \in [Txn -> Nat], NEW now \in Nat, Ranked(r, now),
           NEW a \in committed, NEW b \in committed, MustPrecede(order, a, b)
    PROVE  r[a.id] < r[b.id]
<1>1. /\ \A k \in Key : order[k] \in Seq(Txn)
      /\ DOMAIN order = Key
      /\ \A c \in committed : \A e \in c.reads : e.key \in Key
  BY DEF TypeOK, Types
<1>2. \A c \in committed : c.id # NoTxn
  BY NoTxnAssumption DEF Identified
<1>3. \A k \in Key : \A i \in DOMAIN order[k] : order[k][i] # NoTxn
  BY <1>2 DEF Identified
<1>4. ASSUME NEW k \in Key, NEW p \in 0 .. Len(order[k])
      PROVE  Place(order[k], VersionAt(k, p)) = p
  <2>1. order[k] \in Seq(Txn) /\ DOMAIN order[k] = 1 .. Len(order[k]) /\ Len(order[k]) \in Nat
    BY <1>1
  <2> DEFINE q == Place(order[k], VersionAt(k, p))
  <2>2. /\ q \in Nat /\ (q > 0 => q \in DOMAIN order[k] /\ order[k][q] = VersionAt(k, p))
        /\ \A i \in DOMAIN order[k] : order[k][i] = VersionAt(k, p) => q > 0
    BY <2>1, PlaceFound
  <2> HIDE DEF q
  <2>3. p = 0 => q = p
    BY <1>3, <2>2 DEF VersionAt
  <2>4. CASE p # 0
    <3>1. p \in DOMAIN order[k] /\ VersionAt(k, p) = order[k][p]
      BY <2>1, <2>4 DEF VersionAt
    <3>2. q \in DOMAIN order[k] /\ order[k][q] = order[k][p]
      BY <2>2, <3>1
    <3>3. ~(p < q) /\ ~(q < p)
      <4>1. p < q => r[order[k][p]] < r[order[k][q]]
        BY <3>1, <3>2 DEF Ranked
      <4>2. q < p => r[order[k][q]] < r[order[k][p]]
        BY <3>1, <3>2 DEF Ranked
      <4>3. r[order[k][p]] \in Nat
        BY <2>1, <3>1
      <4> QED
        BY <3>2, <4>1, <4>2, <4>3
    <3> QED
      BY <2>1, <3>1, <3>2, <3>3 DEF q
  <2> QED
    BY <2>3, <2>4 DEF q
<1>5. CASE ReadsFrom(a, b)
  <2>1. PICK e \in b.reads : e.ver = a.id
    BY <1>5 DEF ReadsFrom
  <2>2. PICK k \in Key : k = e.key
    BY <1>1
  <2>3. PICK p \in 0 .. Len(order[k]) : e.ver = VersionAt(k, p) /\ Follows(r, b.id, k, p)
    BY <2>2 DEF Ranked, ReadHolds
  <2>4. Len(order[k]) \in Nat
    BY <1>1
  <2>5. p > 0 /\ order[k][p] = a.id
    <3>1. a.id # NoTxn /\ a.id = VersionAt(k, p)
      BY <1>2, <2>1, <2>3
    <3>2. p # 0 => p > 0
      BY <2>4
    <3> QED
      BY <3>1, <3>2 DEF VersionAt
  <2> QED
    BY <2>3, <2>5 DEF Follows
<1>6. CASE Overwrites(order, a, b)
  <2>1. PICK k \in Key : /\ Place(order[k], a.id) > 0
                         /\ Place(order[k], a.id) < Place(order[k], b.id)
    BY <1>1, <1>6 DEF Overwrites
  <2>2. PICK i \in DOMAIN order[k], j \in DOMAIN order[k] :
            order[k][i] = a.id /\ order[k][j] = b.id /\ i < j
    <3>1. order[k] \in Seq(Txn)
      BY <1>1
    <3>2. Place(order[k], a.id) \in DOMAIN order[k] /\ order[k][Place(order[k], a.id)] = a.id
      BY <2>1, <3>1, PlaceFound
    <3>3. Place(order[k], b.id) \in DOMAIN order[k] /\ order[k][Place(order[k], b.id)] = b.id
      BY <2>1, <3>1, PlaceFound
    <3> QED
      BY <2>1, <3>2, <3>3
  <2> QED
    BY <2>2 DEF Ranked
<1>7. CASE AntiDepends(order, a, b)
  <2>1. PICK e \in a.reads : Place(order[e.key], e.ver) < Place(order[e.key], b.id)
    BY <1>7 DEF AntiDepends
  <2>2. PICK k \in Key : k = e.key
    BY <1>1
  <2>3. PICK p \in 0 .. Len(order[k]) : e.ver = VersionAt(k, p) /\ Unspoilt(r, a.id, k, p)
    BY <2>2 DEF Ranked, ReadHolds
  <2>4. PICK j \in DOMAIN order[k] : p < j /\ order[k][j] = b.id
    <3>1. order[k] \in Seq(Txn) /\ Len(order[k]) \in Nat
      BY <1>1
    <3>2. Place(order[k], e.ver) = p
      BY <1>4, <2>3
    <3>3. p < Place(order[k], b.id) /\ Place(order[k], b.id) \in Nat
      BY <2>1, <2>2, <3>1, <3>2, PlaceFound
    <3>4. Place(order[k], b.id) \in DOMAIN order[k] /\ order[k][Place(order[k], b.id)] = b.id
      BY <3>1, <3>3, PlaceFound
    <3> QED
      BY <3>3, <3>4
  <2> QED
    BY <2>3, <2>4 DEF Unspoilt, MustPrecede
<1> QED
  BY <1>5, <1>6, <1>7 DEF MustPrecede

\* read, validationPhase and writePhase: the committed transactions are
\* serializable, in the order in which they loaded the global epoch.
THEOREM SiloIsSerializable == Spec /\ []TidsFit => []SerializableCommits
<1>1. TypeOK /\ SerialInd => SerializableCommits
  <2> SUFFICES ASSUME TypeOK, SerialInd PROVE Serializable(committed, order)
    BY DEF SerializableCommits
  <2>1. PICK r \in [Txn -> Nat], now \in Nat : Ranked(r, now)
    BY DEF SerialInd
  <2>2. \A c \in committed : c.id \in Txn
    BY DEF TypeOK, Types
  <2> DEFINE f == [c \in committed |-> r[c.id]]
             g == [c \in committed |-> 0]
  <2>3. f \in [committed -> Nat] /\ g \in [committed -> Nat]
    BY <2>2
  <2>4. \A a, b \in committed : MustPrecede(order, a, b) => f[a] < f[b]
    BY <2>1, RankAgrees DEF SerialInd
  <2> HIDE DEF f, g
  <2> QED
    BY <2>3, <2>4, RankedSerializable
<1> QED
  BY <1>1, SerialInduction, TypeCorrect, PTL

\* The global epoch is loaded after locking and before validation, so no
\* transaction has to come before one of an earlier epoch.
THEOREM EpochsAgreeWithOrder == Spec /\ []TidsFit => []EpochOrder
<1>1. TypeOK /\ SerialInd => EpochOrder
  <2> SUFFICES ASSUME TypeOK, SerialInd, NEW a \in committed, NEW b \in committed,
                      MustPrecede(order, a, b)
               PROVE  a.tid.epoch <= b.tid.epoch
    BY DEF EpochOrder
  <2>1. PICK r \in [Txn -> Nat], now \in Nat : Ranked(r, now)
    BY DEF SerialInd
  <2>2. r[a.id] < r[b.id]
    BY <2>1, RankAgrees DEF SerialInd
  <2>3. Entry(a.id, a.tid.epoch) \in Places /\ Entry(b.id, b.tid.epoch) \in Places
    BY DEF Places
  <2> QED
    BY <2>1, <2>2, <2>3 DEF Ranked, Entry
<1> QED
  BY <1>1, SerialInduction, TypeCorrect, PTL

\* (a) and (b) of writePhase: TIDs rise along the versions of a record and along
\* the commits of a worker.
THEOREM TidsAgreeWithOrder == Spec /\ []TidsFit => []TidOrder
<1>1. TypeOK /\ SerialInd => TidOrder
  <2> SUFFICES ASSUME TypeOK, SerialInd, NEW a \in committed, NEW b \in committed,
                      \/ Overwrites(order, a, b)
                      \/ a.id[1] = b.id[1] /\ a.id[2] < b.id[2]
               PROVE  TidLess(a.tid, b.tid)
    BY DEF TidOrder
  <2>1. CASE Overwrites(order, a, b)
    <3>1. DOMAIN order = Key /\ \A k \in Key : order[k] \in Seq(Txn)
      BY DEF TypeOK, Types
    <3>2. PICK k \in Key : /\ Place(order[k], a.id) > 0
                           /\ Place(order[k], a.id) < Place(order[k], b.id)
      BY <2>1, <3>1 DEF Overwrites
    <3>3. /\ Place(order[k], a.id) \in DOMAIN order[k] /\ order[k][Place(order[k], a.id)] = a.id
          /\ Place(order[k], b.id) \in DOMAIN order[k] /\ order[k][Place(order[k], b.id)] = b.id
      BY <3>1, <3>2, PlaceFound
    <3> QED
      BY <3>2, <3>3 DEF SerialInd, TidsRise
  <2>2. CASE a.id[1] = b.id[1] /\ a.id[2] < b.id[2]
    BY <2>2 DEF SerialInd, WorkerTidsRise
  <2> QED
    BY <2>1, <2>2
<1> QED
  BY <1>1, SerialInduction, TypeCorrect, PTL

-----------------------------------------------------------------------------
(* The log *)

Logged(t) == logset[t] \cup logfile[t]

\* A worker's records are of its own transactions, up to the one it installs; no
\* transaction's are split; and what it installs has been logged.
LogInd ==
    /\ \A t \in Thread : \A s \in Logged(t) :
          /\ s.id[1] = t /\ s.id[2] \in Nat
          /\ s.id[2] <= n[t] \/ (pc[t] = "install" /\ s.id[2] = n[t] + 1)
    /\ \A t \in Thread : \A s \in logset[t] : \A f \in logfile[t] : s.id # f.id
    /\ WAL => \A t \in Thread : pc[t] = "install" =>
                 \A k \in held[t] : \E s \in Logged(t) : s.id = TxnId(t) /\ s.key = k
    /\ WAL => \A k \in Key : \A i \in DOMAIN order[k] :
                 \E t \in Thread : \E s \in Logged(t) : s.id = order[k][i] /\ s.key = k

\* A step that does not log, install or end a write phase.
LEMMA LogQuiet ==
    ASSUME Types, LogInd, NEW t \in Thread, worker(t), ~commit(t), ~installTid(t), ~finish(t),
           UNCHANGED << committed, order, n, mrctid >>, pc'[t] = "install" <=> pc[t] = "install"
    PROVE  LogInd'
<1> USE DEF control, epochs, copying, logs, history, txnsets
<1>1. UNCHANGED logs
  <2>1. CASE NextProcedure(t) \/ (t = Leader /\ leaderWork) \/ begin(t) \/ write(t)
    BY <2>1 DEF NextProcedure, leaderWork, begin, write
  <2>2. CASE readLocal(t) \/ readTid(t) \/ readCopy(t) \/ readCheck(t) \/ lockRecord(t)
    BY <2>2 DEF readLocal, readTid, readCopy, readCheck, lockRecord
  <2>3. CASE lockFailed(t) \/ loadEpoch(t) \/ storeEpoch(t) \/ validateRead(t)
    BY <2>3 DEF lockFailed, loadEpoch, storeEpoch, validateRead
  <2>4. CASE unlockRecord(t) \/ relock(t) \/ abort(t) \/ installWord(t)
    BY <2>4 DEF unlockRecord, relock, abort, installWord
  <2> QED
    BY <2>1, <2>2, <2>3, <2>4 DEF worker
<1>2. \A u \in Thread : /\ pc'[u] = "install" <=> pc[u] = "install"
                        /\ TxnId(u)' = TxnId(u) /\ Logged(u)' = Logged(u)
  BY <1>1, OthersStay DEF TxnId, Logged
<1>3. \A u \in Thread : pc'[u] = "install" => held'[u] \subseteq held[u]
  <2>1. ASSUME pc'[t] = "install"
        PROVE  UNCHANGED held
    <3>1. pc[t] = "install"
      BY <1>2, <2>1
    <3>2. CASE NextProcedure(t) \/ begin(t) \/ write(t) \/ readLocal(t) \/ readTid(t)
      BY <3>1, <3>2 DEF NextProcedure, begin, write, readLocal, readTid, Executes
    <3>3. CASE readCopy(t) \/ readCheck(t) \/ lockRecord(t) \/ lockFailed(t) \/ loadEpoch(t)
      BY <3>1, <3>3 DEF readCopy, readCheck, lockRecord, lockFailed, loadEpoch
    <3>4. CASE storeEpoch(t) \/ validateRead(t) \/ unlockRecord(t) \/ relock(t) \/ abort(t)
      BY <3>1, <3>4 DEF storeEpoch, validateRead, unlockRecord, relock, abort
    <3>5. CASE (t = Leader /\ leaderWork) \/ installWord(t)
      BY <3>5 DEF leaderWork, installWord
    <3> QED
      BY <3>2, <3>3, <3>4, <3>5 DEF worker
  <2>2. \A u \in Thread : u # t => held'[u] = held[u]
    BY OthersStay
  <2> QED
    BY <2>1, <2>2
<1>4. ASSUME WAL, NEW u \in Thread, pc'[u] = "install", NEW k \in held'[u]
      PROVE  \E s \in Logged(u)' : s.id = TxnId(u)' /\ s.key = k
  BY <1>2, <1>3, <1>4 DEF LogInd
<1>5. WAL => \A k \in Key : \A i \in DOMAIN order'[k] :
         \E u \in Thread : \E s \in Logged(u)' : s.id = order'[k][i] /\ s.key = k
  BY <1>2 DEF LogInd
<1>6. \A u \in Thread : \A s \in Logged(u)' :
         /\ s.id[1] = u /\ s.id[2] \in Nat
         /\ s.id[2] <= n'[u] \/ (pc'[u] = "install" /\ s.id[2] = n'[u] + 1)
  BY <1>2 DEF LogInd
<1>7. \A u \in Thread : \A s \in logset'[u] : \A f \in logfile'[u] : s.id # f.id
  BY <1>1 DEF LogInd
<1> QED
  BY <1>4, <1>5, <1>6, <1>7 DEF LogInd

\* wal: the records of a commit go where those already buffered go.
LEMMA LogCommit ==
    ASSUME Types, LockOwnership, LogInd, NEW t \in Thread, commit(t)
    PROVE  LogInd'
<1> USE DEF control, epochs, copying, logs, history, txnsets, Goto
<1>1. /\ pc[t] = "validate" /\ pc'[t] = "install" /\ \A u \in Thread : u # t => pc'[u] = pc[u]
      /\ UNCHANGED << n, held, order >>
      /\ IF WAL THEN wal(t, commitTid(t)) ELSE UNCHANGED logs
  BY DEF commit, Types
<1> DEFINE new == {[id |-> TxnId(t), tid |-> commitTid(t), key |-> k] : k \in wset[t]}
           full == logset[t] \cup new
<1>2. \A s \in new : s.id[1] = t /\ s.id[2] = n[t] + 1
  BY DEF TxnId
<1>3. \A u \in Thread : TxnId(u)' = TxnId(u) /\ (u # t => Logged(u)' = Logged(u))
  <2>1. \A u \in Thread : u # t => logset'[u] = logset[u] /\ logfile'[u] = logfile[u]
    BY <1>1 DEF wal, Types
  <2> QED
    BY <1>1, <2>1 DEF TxnId, Logged
<1>4. \/ WAL /\ logset'[t] = {} /\ logfile'[t] = logfile[t] \cup full
      \/ WAL /\ logset'[t] = full /\ logfile'[t] = logfile[t]
      \/ ~WAL /\ logset'[t] = logset[t] /\ logfile'[t] = logfile[t]
  BY <1>1 DEF wal, Types
<1>5. \A k \in wset[t] : \E s \in new : s.id = TxnId(t) /\ s.key = k
  <2>1. ASSUME NEW k \in wset[t]
        PROVE  \E s \in new : s.id = TxnId(t) /\ s.key = k
    <3>1. [id |-> TxnId(t), tid |-> commitTid(t), key |-> k] \in new
      OBVIOUS
    <3> QED
      BY <3>1
  <2> QED
    BY <2>1
<1> HIDE DEF new
<1>6. /\ Logged(t) \subseteq Logged(t)' /\ Logged(t)' \subseteq Logged(t) \cup new
      /\ WAL => new \subseteq Logged(t)'
  BY <1>4 DEF Logged
<1>7. n[t] \in Nat
  BY DEF Types
<1>8. ASSUME NEW u \in Thread, NEW s \in Logged(u)'
      PROVE  /\ s.id[1] = u /\ s.id[2] \in Nat
             /\ s.id[2] <= n'[u] \/ (pc'[u] = "install" /\ s.id[2] = n'[u] + 1)
  <2>1. CASE u # t
    BY <1>1, <1>3, <1>8, <2>1 DEF LogInd
  <2>2. CASE u = t /\ s \in new
    BY <1>1, <1>2, <1>7, <2>2
  <2>3. CASE u = t /\ s \in Logged(t)
    BY <1>1, <2>3 DEF LogInd
  <2> QED
    BY <1>6, <1>8, <2>1, <2>2, <2>3
<1>9. ASSUME NEW u \in Thread, NEW s \in logset'[u], NEW f \in logfile'[u]
      PROVE  s.id # f.id
  <2>1. CASE u # t
    <3>1. logset'[u] = logset[u] /\ logfile'[u] = logfile[u]
      BY <1>1, <2>1 DEF wal, Types
    <3> QED
      BY <1>9, <3>1 DEF LogInd
  <2>2. CASE u = t /\ s \in logset[t]
    <3>1. f \in logfile[t]
      BY <1>4, <1>9, <2>2
    <3> QED
      BY <2>2, <3>1 DEF LogInd
  <2>3. CASE u = t /\ s \in new
    <3>1. f \in logfile[t]
      BY <1>4, <1>9, <2>3
    <3>2. f.id[2] <= n[t]
      BY <1>1, <3>1 DEF LogInd, Logged
    <3> QED
      BY <1>2, <1>7, <2>3, <3>2
  <2> QED
    BY <1>4, <1>9, <2>1, <2>2, <2>3
<1>10. ASSUME WAL, NEW u \in Thread, pc'[u] = "install", NEW k \in held'[u]
       PROVE  \E s \in Logged(u)' : s.id = TxnId(u)' /\ s.key = k
  <2>1. CASE u # t
    BY <1>1, <1>3, <1>10, <2>1 DEF LogInd
  <2>2. CASE u = t
    <3>1. k \in wset[t]
      BY <1>1, <1>10, <2>2 DEF LockOwnership
    <3> QED
      BY <1>3, <1>5, <1>6, <1>10, <2>2, <3>1
  <2> QED
    BY <2>1, <2>2
<1>11. \A u \in Thread : Logged(u) \subseteq Logged(u)'
  BY <1>3, <1>6
<1>12. WAL => \A k \in Key : \A i \in DOMAIN order'[k] :
          \E u \in Thread : \E s \in Logged(u)' : s.id = order'[k][i] /\ s.key = k
  <2> HIDE DEF full
  <2> QED
    BY <1>1, <1>11 DEF LogInd
<1> QED
  BY <1>8, <1>9, <1>10, <1>12 DEF LogInd

LEMMA LogInstall ==
    ASSUME TypeOK, LockOwnership, LogInd, NEW t \in Thread, installTid(t)
    PROVE  LogInd'
<1> USE DEF control, epochs, logs, txnsets
<1>1. UNCHANGED << n, pc, logs >>
  BY DEF installTid
<1>2. PICK k \in held[t] :
        /\ k \in Key /\ pc[t] = "install"
        /\ held' = [held EXCEPT ![t] = @ \ {k}]
        /\ order' = [order EXCEPT ![k] = Append(@, TxnId(t))]
        /\ \A j \in Key \ {k} : order'[j] = order[j]
  BY InstallOne
<1>3. \A u \in Thread : TxnId(u)' = TxnId(u) /\ Logged(u)' = Logged(u) /\ held'[u] \subseteq held[u]
  BY <1>1, <1>2 DEF TxnId, Logged, TypeOK, Types
<1>4. /\ \A u \in Thread : \A s \in Logged(u)' :
            /\ s.id[1] = u /\ s.id[2] \in Nat
            /\ s.id[2] <= n'[u] \/ (pc'[u] = "install" /\ s.id[2] = n'[u] + 1)
      /\ \A u \in Thread : \A s \in logset'[u] : \A f \in logfile'[u] : s.id # f.id
  BY <1>1, <1>3 DEF LogInd
<1>5. WAL => \A u \in Thread : pc'[u] = "install" =>
         \A j \in held'[u] : \E s \in Logged(u)' : s.id = TxnId(u)' /\ s.key = j
  BY <1>1, <1>3 DEF LogInd
<1>6. ASSUME WAL, NEW j \in Key, NEW i \in DOMAIN order'[j]
      PROVE  \E u \in Thread : \E s \in Logged(u)' : s.id = order'[j][i] /\ s.key = j
  <2>1. CASE i \in DOMAIN order[j] /\ order'[j][i] = order[j][i]
    BY <1>3, <1>6, <2>1 DEF LogInd
  <2>2. CASE ~(i \in DOMAIN order[j] /\ order'[j][i] = order[j][i])
    <3>1. j = k
      BY <1>2, <2>2
    <3>2. order'[k] = Append(order[k], TxnId(t)) /\ order[k] \in Seq(Txn) /\ TxnId(t) \in Txn
      BY <1>2, TxnIdType DEF TypeOK, Types
    <3>3. order'[k][i] = TxnId(t)
      <4> HIDE DEF TxnId
      <4> QED
        BY <2>2, <3>1, <3>2
    <3>4. \E s \in Logged(t) : s.id = TxnId(t) /\ s.key = k
      BY <1>2, <1>6 DEF LogInd
    <3> QED
      BY <1>3, <3>1, <3>3, <3>4
  <2> QED
    BY <2>1, <2>2
<1> QED
  BY <1>4, <1>5, <1>6 DEF LogInd

LEMMA LogFinish ==
    ASSUME Types, LogInd, NEW t \in Thread, finish(t)
    PROVE  LogInd'
<1> USE DEF epochs, copying, logs, history, Goto
<1>1. /\ UNCHANGED << held, order, logset, logfile >>
      /\ pc'[t] = "idle" /\ n[t] \in Nat /\ n'[t] = n[t] + 1
      /\ \A u \in Thread : u # t => pc'[u] = pc[u] /\ n'[u] = n[u]
  BY DEF finish, Types
<1>2. \A u \in Thread : Logged(u)' = Logged(u) /\ (u # t => TxnId(u)' = TxnId(u))
  BY <1>1 DEF Logged, TxnId
<1>3. ASSUME NEW u \in Thread, NEW s \in Logged(u)'
      PROVE  /\ s.id[1] = u /\ s.id[2] \in Nat
             /\ s.id[2] <= n'[u] \/ (pc'[u] = "install" /\ s.id[2] = n'[u] + 1)
  <2>1. /\ s.id[1] = u /\ s.id[2] \in Nat
        /\ s.id[2] <= n[u] \/ (pc[u] = "install" /\ s.id[2] = n[u] + 1)
    BY <1>2, <1>3 DEF LogInd
  <2>3. CASE u # t
    BY <1>1, <2>1, <2>3
  <2>4. CASE u = t
    BY <1>1, <2>1, <2>4
  <2> QED
    BY <2>3, <2>4
<1>4. \A u \in Thread : \A s \in logset'[u] : \A f \in logfile'[u] : s.id # f.id
  BY <1>1 DEF LogInd
<1>5. WAL => \A u \in Thread : pc'[u] = "install" =>
         \A k \in held'[u] : \E s \in Logged(u)' : s.id = TxnId(u)' /\ s.key = k
  BY <1>1, <1>2 DEF LogInd
<1>6. WAL => \A k \in Key : \A i \in DOMAIN order'[k] :
         \E u \in Thread : \E s \in Logged(u)' : s.id = order'[k][i] /\ s.key = k
  BY <1>1, <1>2 DEF LogInd
<1> QED
  BY <1>3, <1>4, <1>5, <1>6 DEF LogInd

\* wal: under WAL a transaction's records reach the file together, and no version
\* is in the table that is in neither the buffer nor the file.
THEOREM LogIsWhole == Spec => []LogWhole
<1>1. Init => LogInd
  BY DEF Init, LogInd, Logged
<1>2. TypeOK /\ LockOwnership /\ LogInd /\ [Next]_vars => LogInd'
  <2> SUFFICES ASSUME TypeOK, LockOwnership, LogInd, [Next]_vars
               PROVE  LogInd'
    OBVIOUS
  <2>1. CASE Quit \/ Joined \/ UNCHANGED vars
    <3>1. UNCHANGED << n, pc, held, order, logset, logfile >>
      BY <2>1 DEF Quit, Joined, vars, logs, history
    <3>2. \A t \in Thread : Logged(t)' = Logged(t) /\ TxnId(t)' = TxnId(t)
      BY <3>1 DEF Logged, TxnId
    <3>3. /\ \A t \in Thread : \A s \in Logged(t)' :
                /\ s.id[1] = t /\ s.id[2] \in Nat
                /\ s.id[2] <= n'[t] \/ (pc'[t] = "install" /\ s.id[2] = n'[t] + 1)
          /\ \A t \in Thread : \A s \in logset'[t] : \A f \in logfile'[t] : s.id # f.id
      BY <3>1, <3>2 DEF LogInd
    <3>4. WAL => \A t \in Thread : pc'[t] = "install" =>
             \A k \in held'[t] : \E s \in Logged(t)' : s.id = TxnId(t)' /\ s.key = k
      BY <3>1, <3>2 DEF LogInd
    <3>5. WAL => \A k \in Key : \A i \in DOMAIN order'[k] :
             \E t \in Thread : \E s \in Logged(t)' : s.id = order'[k][i] /\ s.key = k
      BY <3>1, <3>2 DEF LogInd
    <3> QED
      BY <3>3, <3>4, <3>5 DEF LogInd
  <2>2. ASSUME NEW t \in Thread, worker(t)
        PROVE  LogInd'
    <3>1. CASE ~commit(t) /\ ~installTid(t) /\ ~finish(t)
      <4>1. /\ UNCHANGED << committed, order, n, mrctid >>
            /\ pc'[t] = "install" <=> pc[t] = "install"
        BY <2>2, <3>1, QuietStep
      <4> QED
        BY <2>2, <3>1, <4>1, LogQuiet DEF TypeOK
    <3> QED
      BY <3>1, LogCommit, LogInstall, LogFinish DEF TypeOK
  <2> QED
    BY <2>1, <2>2 DEF Next
<1>3. LogInd => LogWhole
  <2> SUFFICES ASSUME LogInd, WAL PROVE LogWhole
    BY DEF LogWhole
  <2>1. ASSUME NEW t \in Thread, NEW u \in Thread, NEW f \in logfile[u], NEW s \in logset[t]
        PROVE  f.id # s.id
    <3>1. s.id[1] = t /\ f.id[1] = u
      BY <2>1 DEF LogInd, Logged
    <3> QED
      BY <2>1, <3>1 DEF LogInd
  <2>2. \A k \in Key : \A i \in DOMAIN order[k] :
          \E t \in Thread : \E s \in Logged(t) : s.id = order[k][i] /\ s.key = k
    BY DEF LogInd
  <2> QED
    BY <2>1, <2>2 DEF LogWhole, Logged
<1> QED
  BY <1>1, <1>2, <1>3, TypeCorrect, LocksAreOwned, PTL DEF Spec
=============================================================================
