---------------------------- MODULE TicTocProofs ----------------------------
(***************************************************************************)
(* Theorems about TicToc for every set of workers, records and procedures, *)
(* every width of delta and every build: types, and, in the builds in      *)
(* which aborts take effect, who owns the locks.  In those of them without *)
(* TIMESTAMP_HISTORY: commit timestamps agree with every dependency, and   *)
(* the committed transactions are serializable.                            *)
(***************************************************************************)
EXTENDS TicToc, CommonProofs

\* The operation a worker reads for is a read, and the elements it is at exist; a
\* write set has one element for a key; only who locks or has locked holds locks.
IndexedAt(t) ==
    /\ pc[t] \notin {"next", "done"} => txn[t] < MaxTxn
    /\ pc[t] \in {"copy", "check"} => Executes(t, "READ")
    /\ pc[t] \in {"next", "retry", "run", "copy", "check", "abort", "preverify",
                  "prehistory", "done"} => held[t] = 0
    /\ held[t] <= Len(write_set[t])
    /\ pc[t] = "lock" => held[t] < idx[t]
    /\ pc[t] = "unlocking" => idx[t] <= held[t]
    /\ pc[t] \in {"history", "prehistory"} => idx[t] <= Len(read_set[t])
    /\ pc[t] = "publish" => idx[t] <= Len(write_set[t])
    /\ \A i, j \in DOMAIN write_set[t] :
          write_set[t][i].key = write_set[t][j].key => i = j

Indexed == \A t \in Thread : IndexedAt(t)

\* In the builds in which aborts take effect, who validates has locked its whole
\* write set, and a word is released as it was loaded.
LocksKnown ==
    AbortsTake => \A t \in Thread :
        /\ pc[t] \notin {"preverify", "prehistory"}
        /\ pc[t] \in {"unlock", "unlocking"} => status[t] = "aborted"
        /\ pc[t] = "lock" => idx[t] = held[t] + 1
        /\ pc[t] \in {"validate", "history", "install", "publish"} => held[t] = Len(write_set[t])
        /\ pc[t] = "unlocking" => v1[t] = tsw[write_set[t][idx[t]].key]

LocksInd == TypeOK /\ Indexed /\ LocksKnown /\ LocksOwned

\* The builds that TimestampOrder is about.
Plain == AbortsTake /\ ~timestamp_history

WriteKey(t) == write_set[t][idx[t]].key
Publishing(k) == \E t \in Thread : pc[t] = "publish" /\ WriteKey(t) = k
Validates(t) == pc[t] \in {"validate", "install", "publish"}

\* The version of k at place p of its order, 0 being the loaded one.
VersionAt(k, p) == IF p = 0 THEN None ELSE order[k][p]

Identified ==
    /\ \A c, d \in committed : c.id = d.id => c = d
    /\ \A c \in committed :
          \/ c.id[2] < txn[c.id[1]]
          \/ c.id = Id(c.id[1]) /\ pc[c.id[1]] \in {"install", "publish"}
    /\ \A t \in Thread : pc[t] \in {"install", "publish"} =>
          \E c \in committed : c.id = Id(t) /\ c.ts = commit_ts[t]
    /\ \A k \in Key : \A i \in DOMAIN order[k] : \E c \in committed : c.id = order[k][i]
    /\ \A k \in Key : val[k] = VersionAt(k, Len(order[k]))
    /\ \A t \in Thread : pc[t] \notin {"history"}

\* Timestamps rise from version to version, up to the word's write timestamp, but
\* for a version whose word has still to be stored; and a writer's commit timestamp
\* is beyond the validity of what it overwrites.
TimestampsRise ==
    /\ \A k \in Key : \A j \in DOMAIN order[k] : \A d \in committed : d.id = order[k][j] =>
          /\ \A i \in DOMAIN order[k] : \A c \in committed :
                c.id = order[k][i] /\ i < j => c.ts < d.ts
          /\ \/ d.ts <= tsw[k].wts
             \/ \E t \in Thread : pc[t] = "publish" /\ WriteKey(t) = k /\ d.id = Id(t)
    /\ \A t \in Thread : pc[t] \notin {"unlock", "unlocking"} =>
          \A k \in Locks(t) : rts(tsw[k]) < commit_ts[t]

\* What t copies of k under an unchanged word is what is there.
CopyHolds(t, k) ==
    /\ ~v1[t].lock
    /\ rts(v1[t]) <= rts(tsw[k])
    /\ /\ pc[t] = "check"
       /\ v1[t].wts = tsw[k].wts /\ v1[t].delta = tsw[k].delta
       /\ ~Publishing(k)
       => return_val[t] = val[k]

CopiesHold ==
    \A t \in Thread : pc[t] \in {"copy", "check"} => CopyHolds(t, OpKey(t))

\* The version of k at place p was written by ts at the latest.
WrittenBy(k, p, ts) == p > 0 => \A c \in committed : c.id = order[k][p] => c.ts <= ts

\* The versions after place p are later than ts, and so will be the next.
Outlasts(k, p, ts) ==
    /\ \A q \in DOMAIN order[k] : \A c \in committed : p < q /\ c.id = order[k][q] => ts < c.ts
    /\ ts <= rts(tsw[k])

\* So they are, or of transaction i itself, which is to commit at ts.
ValidFor(i, k, p, ts) ==
    /\ \A q \in DOMAIN order[k] : \A c \in committed :
          p < q /\ c.id = order[k][q] => c.id = i \/ ts < c.ts
    /\ \/ ts <= rts(tsw[k])
       \/ \E t \in Thread : Id(t) = i /\ Validates(t) /\ k \in Locks(t) /\ ts <= commit_ts[t]

\* Validation has passed element i of the read set.
Passed(t, i) == pc[t] \in {"install", "publish"} \/ (pc[t] = "validate" /\ i < idx[t])

\* Element e, at place i of the read set, was read of the version at some place p,
\* which no other had followed while its word said so, and once it has passed
\* validation none has, or will, up to the commit timestamp.
ElementHolds(t, i, e) ==
    /\ Validates(t) => e.tsw.wts <= commit_ts[t]
    /\ \E p \in 0 .. Len(order[e.key]) :
        /\ e.val = VersionAt(e.key, p)
        /\ WrittenBy(e.key, p, e.tsw.wts)
        /\ Outlasts(e.key, p, rts(e.tsw))
        /\ Passed(t, i) => ValidFor(Id(t), e.key, p, commit_ts[t])

\* So was what a committed transaction has read.
ReadHolds(c, e) ==
    \E p \in 0 .. Len(order[e.key]) :
        /\ e.ver = VersionAt(e.key, p)
        /\ WrittenBy(e.key, p, c.ts)
        /\ ValidFor(c.id, e.key, p, c.ts)

ReadsHold ==
    /\ \A t \in Thread : \A i \in DOMAIN read_set[t] : \A e \in ReadElement :
          e = read_set[t][i] => ElementHolds(t, i, e)
    /\ \A c \in committed : \A e \in c.reads : ReadHolds(c, e)

\* What a transaction reads had committed before it did, which orders those of one
\* timestamp.
Ranked ==
    \E g \in [Txn -> Nat], now \in Nat :
        \A a \in committed :
            /\ g[a.id] < now
            /\ \A b \in committed : a.id # b.id /\ ReadsFrom(a, b) => g[a.id] < g[b.id]

PlainInd ==
    /\ LocksInd
    /\ Plain => Identified /\ TimestampsRise /\ CopiesHold /\ ReadsHold /\ Ranked

-----------------------------------------------------------------------------
(* Types *)

LEMMA OpKeyType ==
    ASSUME TypeOK, NEW t \in Thread, pos[t] <= Len(pro_set[t])
    PROVE  OpKey(t) \in Key
<1>1. pro_set[t] \in Seq(Operation) /\ pos[t] \in 1 .. Len(pro_set[t])
  BY DEF TypeOK
<1>2. pro_set[t][pos[t]] \in Operation
  BY <1>1
<1> QED
  BY <1>2 DEF OpKey, Operation

LEMMA ReadElementType ==
    ASSUME TypeOK, NEW t \in Thread, NEW i \in DOMAIN read_set[t]
    PROVE  /\ read_set[t][i].key \in Key /\ read_set[t][i].tsw \in TsWord
           /\ read_set[t][i].val \in Version /\ i \in 1 .. Len(read_set[t])
<1>1. read_set[t] \in Seq(ReadElement)
  BY DEF TypeOK
<1>2. read_set[t][i] \in ReadElement /\ i \in 1 .. Len(read_set[t])
  BY <1>1
<1>3. \A e \in ReadElement : e.key \in Key /\ e.tsw \in TsWord /\ e.val \in Version
  BY DEF ReadElement
<1> QED
  BY <1>2, <1>3

LEMMA WriteElementType ==
    ASSUME TypeOK, NEW t \in Thread, NEW i \in 1 .. Len(write_set[t])
    PROVE  /\ i \in DOMAIN write_set[t] /\ write_set[t][i].key \in Key
           /\ write_set[t][i].tsw \in TsWord
<1>1. write_set[t] \in Seq(WriteElement)
  BY DEF TypeOK
<1>2. i \in DOMAIN write_set[t] /\ write_set[t][i] \in WriteElement
  BY <1>1
<1>3. \A e \in WriteElement : e.key \in Key /\ e.tsw \in TsWord
  BY DEF WriteElement
<1> QED
  BY <1>2, <1>3

LEMMA RtsType ==
    ASSUME NEW w \in TsWord
    PROVE  rts(w) \in Nat /\ w.wts \in Nat /\ w.wts <= rts(w) /\ w.lock \in BOOLEAN
<1>1. w.wts \in Nat /\ w.delta \in 0 .. DELTA_MAX /\ w.lock \in BOOLEAN
  BY DEF TsWord
<1> QED
  BY <1>1, TicTocAssumption DEF rts

\* An extension makes the version valid until ts, and no later than that.
LEMMA ExtendedWord ==
    ASSUME NEW w \in TsWord, NEW ts \in Nat, rts(w) < ts
    PROVE  /\ Extended(w, ts) \in TsWord /\ rts(Extended(w, ts)) = ts
           /\ w.wts <= Extended(w, ts).wts /\ Extended(w, ts).lock = w.lock
<1> DEFINE d == ts - w.wts
           low == d % (DELTA_MAX + 1)
<1>1. w.wts \in Nat /\ w.delta \in Nat /\ d \in Nat /\ DELTA_MAX \in Nat /\ w.wts + d = ts
  BY TicTocAssumption DEF TsWord, rts
<1>2. low \in 0 .. DELTA_MAX /\ low <= d
  <2> HIDE DEF d
  <2>1. d % (DELTA_MAX + 1) \in 0 .. DELTA_MAX
    BY <1>1
  <2>2. d < DELTA_MAX + 1 => d % (DELTA_MAX + 1) = d
    BY <1>1
  <2> QED
    BY <1>1, <2>1, <2>2
<1>3. Extended(w, ts) = [w EXCEPT !.wts = @ + (d - low), !.delta = low]
  BY DEF Extended
<1> HIDE DEF d, low
<1>4. w = [wts |-> w.wts, delta |-> w.delta, lock |-> w.lock] /\ w.lock \in BOOLEAN
  BY DEF TsWord
<1>5. Extended(w, ts) = [wts |-> w.wts + (d - low), delta |-> low, lock |-> w.lock]
  BY <1>3, <1>4
<1>6. w.wts + (d - low) \in Nat /\ w.wts + (d - low) + low = ts /\ w.wts <= w.wts + (d - low)
  BY <1>1, <1>2
<1> QED
  BY <1>2, <1>4, <1>5, <1>6 DEF TsWord, rts

\* The largest timestamp of a read set is there.
LEMMA LargestFound ==
    ASSUME TypeOK, NEW t \in Thread
    PROVE  LET T == {commit_ts[t]} \cup {read_set[t][i].tsw.wts : i \in DOMAIN read_set[t]} IN
           Max(T) \in Nat /\ \A x \in T : x <= Max(T)
<1> DEFINE T == {commit_ts[t]} \cup {read_set[t][i].tsw.wts : i \in DOMAIN read_set[t]}
           f == [i \in 1 .. Len(read_set[t]) |-> read_set[t][i].tsw.wts]
<1>1. read_set[t] \in Seq(ReadElement) /\ commit_ts[t] \in Nat
  BY DEF TypeOK
<1>2. DOMAIN read_set[t] = 1 .. Len(read_set[t]) /\ Len(read_set[t]) \in Nat
  BY <1>1
<1>3. \A i \in 1 .. Len(read_set[t]) : read_set[t][i].tsw.wts \in Nat
  BY <1>2, ReadElementType, RtsType
<1>4. f \in [1 .. Len(read_set[t]) -> Nat]
  BY <1>3
<1>5. T = {commit_ts[t]} \cup {f[i] : i \in 1 .. Len(read_set[t])}
  BY <1>2
<1>6. \E x \in T : \A y \in T : y <= x
  <2> HIDE DEF f, T
  <2> QED
    BY <1>1, <1>2, <1>4, <1>5, HasMaximum
<1>7. T \subseteq Nat
  BY <1>1, <1>2, <1>3
<1> HIDE DEF T
<1>8. \E x \in T : \A y \in T : x >= y
  BY <1>6, <1>7
<1>9. Max(T) \in T /\ \A y \in T : Max(T) >= y
  BY <1>8 DEF Max
<1>10. Max(T) \in Nat /\ \A x \in T : x <= Max(T)
  BY <1>7, <1>9
<1> QED
  BY <1>10 DEF T

LEMMA IdType ==
    ASSUME TypeOK, Indexed, NEW t \in Thread, pc[t] \notin {"next", "done"}
    PROVE  Id(t) \in Txn
<1>1. txn[t] \in 0 .. MaxTxn /\ txn[t] < MaxTxn /\ MaxTxn \in Nat
  BY TicTocAssumption DEF TypeOK, Indexed, IndexedAt
<1>2. txn[t] \in 0 .. MaxTxn - 1
  BY <1>1
<1> QED
  BY <1>2 DEF Id, Txn

\* Appending to a set keeps the sets' type.
LEMMA AppendType ==
    ASSUME NEW E, NEW f \in [Thread -> Seq(E)], NEW t \in Thread, NEW e \in E
    PROVE  [f EXCEPT ![t] = Append(@, e)] \in [Thread -> Seq(E)]
<1>1. Append(f[t], e) \in Seq(E)
  OBVIOUS
<1> QED
  BY <1>1

LEMMA GotoType ==
    ASSUME TypeOK, NEW t \in Thread, NEW label \in Label, UNCHANGED pc \/ Goto(t, label)
    PROVE  pc' \in [Thread -> Label]
BY DEF TypeOK, Goto

LEMMA IndexType ==
    ASSUME TypeOK, NEW t \in Thread, NEW i \in Nat \ {0},
           UNCHANGED idx \/ NextElement(t) \/ idx' = [idx EXCEPT ![t] = i]
    PROVE  idx' \in [Thread -> Nat \ {0}]
<1>1. idx \in [Thread -> Nat \ {0}] /\ idx[t] + 1 \in Nat \ {0}
  BY DEF TypeOK
<1> QED
  BY <1>1 DEF NextElement

LEMMA NextElementType ==
    ASSUME TypeOK, NEW t \in Thread, NextElement(t)
    PROVE  idx' \in [Thread -> Nat \ {0}]
<1>1. 1 \in Nat \ {0}
  OBVIOUS
<1> QED
  BY <1>1, IndexType

LEMMA TypesStep ==
    ASSUME TypeOK, Indexed, [Next]_vars
    PROVE  TypeOK'
<1> USE DEF control, build, records, sets, timestamps, copies, history
<1>1. CASE UNCHANGED vars \/ Joined \/ Quit
  BY <1>1 DEF Joined, Quit, vars, TypeOK
<1>2. ASSUME NEW t \in Thread, NextProcedure(t)
      PROVE  TypeOK'
  BY <1>2, TicTocAssumption DEF NextProcedure, TypeOK, Label, Goto
<1>3. ASSUME NEW t \in Thread, leave(t) \/ begin(t)
      PROVE  TypeOK'
  <2>1. pc' \in [Thread -> Label]
    BY <1>3, GotoType DEF leave, begin, Label
  <2>2. CASE leave(t)
    BY <2>1, <2>2 DEF leave, TypeOK
  <2>3. CASE begin(t)
    BY <2>1, <2>3 DEF begin, TypeOK
  <2> QED
    BY <1>3, <2>2, <2>3
<1>4. ASSUME NEW t \in Thread, readLocal(t)
      PROVE  TypeOK'
  BY <1>4 DEF readLocal, Advance, TypeOK
<1>5. ASSUME NEW t \in Thread, NEW word \in TsWord, Inspects(t, word),
             UNCHANGED << control, records, pro_set, pos, return_val, sets, timestamps,
                          idx, held, history >>
      PROVE  TypeOK'
  <2>1. pc' \in [Thread -> Label]
    BY <1>5, GotoType DEF Inspects, Label
  <2>2. status' \in [Thread -> {"inFlight", "aborted"}] /\ v1' \in [Thread -> TsWord]
    BY <1>5 DEF Inspects, TypeOK
  <2> QED
    BY <1>5, <2>1, <2>2 DEF TypeOK
<1>6. ASSUME NEW t \in Thread, readLoad(t) \/ readAgain(t)
      PROVE  TypeOK'
  <2>1. pos[t] <= Len(pro_set[t])
    BY <1>6 DEF readLoad, readAgain, Executes, Indexed, IndexedAt
  <2>2. tsw[OpKey(t)] \in TsWord
    BY <2>1, OpKeyType DEF TypeOK
  <2>3. CASE readLoad(t)
    BY <1>5, <2>2, <2>3 DEF readLoad
  <2>4. CASE readAgain(t)
    BY <1>5, <2>2, <2>4 DEF readAgain
  <2> QED
    BY <1>6, <2>3, <2>4
<1>7. ASSUME NEW t \in Thread, readCopy(t)
      PROVE  TypeOK'
  <2>1. OpKey(t) \in Key
    BY <1>7, OpKeyType DEF readCopy, Executes, Indexed, IndexedAt
  <2>2. val[OpKey(t)] \in Version
    BY <2>1 DEF TypeOK
  <2> QED
    BY <1>7, <2>2 DEF readCopy, Goto, TypeOK, Label
<1>8. ASSUME NEW t \in Thread, readDone(t)
      PROVE  TypeOK'
  <2>1. OpKey(t) \in Key
    BY <1>8, OpKeyType DEF readDone, Executes, Indexed, IndexedAt
  <2> DEFINE e == [key |-> OpKey(t), tsw |-> v1[t], val |-> return_val[t]]
  <2>2. e \in ReadElement /\ read_set \in [Thread -> Seq(ReadElement)]
    BY <2>1 DEF TypeOK, ReadElement
  <2>3. read_set' = [read_set EXCEPT ![t] = Append(@, e)]
    BY <1>8 DEF readDone
  <2>4. read_set' \in [Thread -> Seq(ReadElement)]
    <3> HIDE DEF e
    <3> QED
      BY <2>2, <2>3, AppendType
  <2>5. Larger(appro_commit_ts[t], v1[t].wts) \in Nat
    <3>1. v1[t] \in TsWord /\ appro_commit_ts[t] \in Nat
      BY DEF TypeOK
    <3> QED
      BY <3>1, RtsType DEF Larger
  <2>6. appro_commit_ts' \in [Thread -> Nat]
    <3>1. appro_commit_ts \in [Thread -> Nat]
      BY DEF TypeOK
    <3>2. appro_commit_ts' = [appro_commit_ts EXCEPT ![t] = Larger(@, v1[t].wts)]
      BY <1>8 DEF readDone
    <3> QED
      BY <2>5, <3>1, <3>2
  <2>7. pos' \in [Thread -> Nat \ {0}] /\ pc' \in [Thread -> Label]
    BY <1>8 DEF readDone, Advance, Goto, TypeOK, Label
  <2>8. UNCHANGED << control, records, pro_set, copies, write_set, commit_ts, idx,
                     held, status, history >>
    BY <1>8 DEF readDone
  <2> QED
    BY <2>4, <2>6, <2>7, <2>8 DEF TypeOK
<1>9. ASSUME NEW t \in Thread, write(t)
      PROVE  TypeOK'
  <2>1. OpKey(t) \in Key
    BY <1>9, OpKeyType DEF write, Executes
  <2> DEFINE e == [key |-> OpKey(t), tsw |-> tsw[OpKey(t)]]
  <2>2. /\ e \in WriteElement /\ write_set \in [Thread -> Seq(WriteElement)]
        /\ tsw[OpKey(t)] \in TsWord
    BY <2>1 DEF TypeOK, WriteElement
  <2>3. write_set' = write_set \/ write_set' = [write_set EXCEPT ![t] = Append(@, e)]
    BY <1>9 DEF write
  <2>4. write_set' \in [Thread -> Seq(WriteElement)]
    <3> HIDE DEF e
    <3>1. [write_set EXCEPT ![t] = Append(@, e)] \in [Thread -> Seq(WriteElement)]
      BY <2>2, AppendType
    <3> QED
      BY <2>2, <2>3, <3>1
  <2>5. Larger(appro_commit_ts[t], rts(tsw[OpKey(t)]) + 1) \in Nat
    <3>1. appro_commit_ts[t] \in Nat /\ rts(tsw[OpKey(t)]) \in Nat
      BY <2>2, RtsType DEF TypeOK
    <3> QED
      BY <3>1 DEF Larger
  <2>6. appro_commit_ts' \in [Thread -> Nat]
    BY <1>9, <2>5 DEF write, TypeOK
  <2>7. pos' \in [Thread -> Nat \ {0}]
    BY <1>9 DEF write, Advance, TypeOK
  <2>8. UNCHANGED << control, records, pc, pro_set, copies, read_set, commit_ts,
                     idx, held, status, history >>
    BY <1>9 DEF write
  <2> QED
    BY <2>4, <2>6, <2>7, <2>8 DEF TypeOK

<1>10. ASSUME NEW t \in Thread, validationPhase(t)
      PROVE  TypeOK'
  <2>1. write_set \in [Thread -> Seq(WriteElement)]
    BY DEF TypeOK
  <2>2. PICK sorted \in [DOMAIN write_set[t] -> ToSet(write_set[t])] :
            write_set' = [write_set EXCEPT ![t] = sorted]
    BY <1>10 DEF validationPhase
  <2>3. write_set' \in [Thread -> Seq(WriteElement)]
    <3>1. write_set[t] \in Seq(WriteElement) /\ DOMAIN write_set[t] = 1 .. Len(write_set[t])
      BY <2>1
    <3>2. ToSet(write_set[t]) \subseteq WriteElement
      BY <3>1 DEF ToSet
    <3>3. sorted \in [1 .. Len(write_set[t]) -> WriteElement]
      BY <3>1, <3>2
    <3>4. sorted \in Seq(WriteElement)
      BY <3>1, <3>3
    <3> QED
      BY <2>1, <2>2, <3>4
  <2>4. pc' \in [Thread -> Label]
    BY <1>10, GotoType DEF validationPhase, Label
  <2>5. idx' \in [Thread -> Nat \ {0}]
    <3>1. 1 \in Nat \ {0} /\ idx' = [idx EXCEPT ![t] = 1]
      BY <1>10 DEF validationPhase
    <3> QED
      BY <3>1, IndexType
  <2> QED
    BY <1>10, <2>3, <2>4, <2>5 DEF validationPhase, TypeOK
<1>11. ASSUME NEW t \in Thread, lockRecord(t)
      PROVE  TypeOK'
  <2> DEFINE k == write_set[t][idx[t]].key
  <2>1. k \in Key
    <3>1. idx[t] \in 1 .. Len(write_set[t])
      BY <1>11 DEF lockRecord, TypeOK
    <3> QED
      BY <3>1, WriteElementType
  <2>2. tsw[k] \in TsWord /\ [tsw[k] EXCEPT !.lock = TRUE] \in TsWord
    <3>1. \A w \in TsWord : [w EXCEPT !.lock = TRUE] \in TsWord
      BY DEF TsWord
    <3>2. tsw[k] \in TsWord
      <4> HIDE DEF k
      <4> QED
        BY <2>1 DEF TypeOK
    <3> QED
      BY <3>1, <3>2
  <2>3. afterRts(t, tsw[k]) \in Nat
    <3>1. commit_ts[t] \in Nat /\ rts(tsw[k]) \in Nat
      BY <2>2, RtsType DEF TypeOK
    <3> QED
      BY <3>1 DEF afterRts, Larger
  <2>4. tsw' = [tsw EXCEPT ![k] = [tsw[k] EXCEPT !.lock = TRUE]]
    BY <1>11 DEF lockRecord
  <2>5. tsw' \in [Key -> TsWord]
    <3> HIDE DEF k
    <3> QED
      BY <2>2, <2>4 DEF TypeOK
  <2>6. commit_ts' \in [Thread -> Nat]
    BY <1>11, <2>3 DEF lockRecord, TypeOK
  <2>7. idx' \in [Thread -> Nat \ {0}] /\ held' \in [Thread -> Nat]
    <3>1. idx' = [idx EXCEPT ![t] = @ + 1] /\ held' = [held EXCEPT ![t] = @ + 1]
      BY <1>11 DEF lockRecord
    <3>2. idx' \in [Thread -> Nat \ {0}]
      BY <3>1, NextElementType DEF NextElement
    <3>3. held' \in [Thread -> Nat]
      BY <3>1 DEF TypeOK
    <3> QED
      BY <3>2, <3>3
  <2>8. UNCHANGED << control, pre_wts, val, order, pc, pro_set, pos, copies, sets,
                     appro_commit_ts, status, history >>
    BY <1>11 DEF lockRecord
  <2> QED
    BY <2>5, <2>6, <2>7, <2>8 DEF TypeOK
<1>12. ASSUME NEW t \in Thread, lockBusy(t) \/ unlocked(t)
      PROVE  TypeOK'
  <2>1. pc' \in [Thread -> Label]
    BY <1>12, GotoType DEF lockBusy, unlocked, Label
  <2>2. idx' \in [Thread -> Nat \ {0}]
    BY <1>12, IndexType DEF lockBusy, unlocked
  <2>3. CASE lockBusy(t)
    BY <2>1, <2>2, <2>3 DEF lockBusy, TypeOK
  <2>4. CASE unlocked(t)
    BY <2>1, <2>2, <2>4 DEF unlocked, TypeOK
  <2> QED
    BY <1>12, <2>3, <2>4
<1>13. ASSUME NEW t \in Thread, locked(t)
      PROVE  TypeOK'
  <2>1. commit_ts' \in [Thread -> Nat]
    BY <1>13, LargestFound DEF locked, TypeOK
  <2>2. pc' \in [Thread -> Label]
    BY <1>13, GotoType DEF locked, Label
  <2>3. idx' \in [Thread -> Nat \ {0}]
    <3>1. 1 \in Nat \ {0} /\ idx' = [idx EXCEPT ![t] = 1]
      BY <1>13 DEF locked
    <3> QED
      BY <3>1, IndexType
  <2> QED
    BY <1>13, <2>1, <2>2, <2>3 DEF locked, TypeOK
<1>14. ASSUME NEW t \in Thread, unlockLoad(t)
      PROVE  TypeOK'
  <2>1. idx[t] \in 1 .. Len(write_set[t])
    BY <1>14 DEF unlockLoad, Released, Indexed, IndexedAt, TypeOK
  <2>2. tsw[write_set[t][idx[t]].key] \in TsWord
    BY <2>1, WriteElementType DEF TypeOK
  <2> QED
    BY <1>14, <2>2 DEF unlockLoad, Goto, TypeOK, Label
<1>15. ASSUME NEW t \in Thread, unlockStore(t)
      PROVE  TypeOK'
  <2>1. [v1[t] EXCEPT !.lock = FALSE] \in TsWord
    <3>1. v1[t] \in TsWord
      BY DEF TypeOK
    <3> QED
      BY <3>1 DEF TsWord
  <2>2. tsw' \in [Key -> TsWord]
    BY <1>15, <2>1 DEF unlockStore, TypeOK
  <2>3. pc' \in [Thread -> Label]
    BY <1>15, GotoType DEF unlockStore, Label
  <2>4. idx' \in [Thread -> Nat \ {0}]
    BY <1>15, NextElementType DEF unlockStore, NextElement
  <2> QED
    BY <1>15, <2>2, <2>3, <2>4 DEF unlockStore, TypeOK
<1>16. ASSUME NEW t \in Thread, pass(t) \/ relock(t) \/ abort(t)
      PROVE  TypeOK'
  <2>1. pc' \in [Thread -> Label]
    BY <1>16, GotoType DEF pass, relock, abort, Label
  <2>2. idx' \in [Thread -> Nat \ {0}]
    BY <1>16, IndexType DEF pass, relock, abort
  <2>3. CASE pass(t)
    BY <2>1, <2>2, <2>3 DEF pass, TypeOK
  <2>4. CASE relock(t)
    BY <2>1, <2>2, <2>4 DEF relock, TypeOK
  <2>5. CASE abort(t)
    <3>1. read_set' \in [Thread -> Seq(ReadElement)] /\ write_set' \in [Thread -> Seq(WriteElement)]
      BY <2>5 DEF abort, TypeOK
    <3> QED
      BY <2>1, <2>2, <2>5, <3>1 DEF abort, TypeOK
  <2> QED
    BY <1>16, <2>3, <2>4, <2>5
<1>17. ASSUME NEW t \in Thread, extend(t)
      PROVE  TypeOK'
  <2> DEFINE k == Element(t).key
  <2>1. k \in Key
    <3>1. idx[t] \in DOMAIN read_set[t]
      BY <1>17 DEF extend, Verifies, TypeOK
    <3> QED
      BY <3>1, ReadElementType DEF Element
  <2>2. tsw[k] \in TsWord /\ commit_ts[t] \in Nat /\ rts(tsw[k]) < commit_ts[t]
    BY <1>17, <2>1 DEF extend, Expires, Word, TypeOK
  <2>3. Extended(tsw[k], commit_ts[t]) \in TsWord
    BY <2>2, ExtendedWord
  <2>4. tsw' = [tsw EXCEPT ![k] = Extended(tsw[k], commit_ts[t])]
    BY <1>17 DEF extend
  <2>5. tsw' \in [Key -> TsWord]
    <3> HIDE DEF k
    <3> QED
      BY <2>3, <2>4 DEF TypeOK
  <2>6. idx' \in [Thread -> Nat \ {0}]
    BY <1>17, IndexType DEF extend
  <2> QED
    BY <1>17, <2>5, <2>6 DEF extend, TypeOK
<1>18. ASSUME NEW t \in Thread, Reject(t),
             UNCHANGED << control, records, pro_set, pos, copies, sets, timestamps, history >>
      PROVE  TypeOK'
  <2>1. Len(write_set[t]) \in Nat
    BY DEF TypeOK
  <2>2. pc' \in [Thread -> Label]
    BY <1>18, GotoType DEF Reject, Label
  <2>3. idx' \in [Thread -> Nat \ {0}]
    <3>1. Len(write_set[t]) + 1 \in Nat \ {0} /\ 1 \in Nat \ {0}
      BY <2>1
    <3>2. idx' = [idx EXCEPT ![t] = 1] \/ idx' = [idx EXCEPT ![t] = Len(write_set[t]) + 1]
      BY <1>18 DEF Reject
    <3> QED
      BY <3>1, <3>2, IndexType
  <2>4. held' \in [Thread -> Nat] /\ status' \in [Thread -> {"inFlight", "aborted"}]
    BY <1>18, <2>1 DEF Reject, TypeOK
  <2> QED
    BY <1>18, <2>2, <2>3, <2>4 DEF TypeOK
<1>19. ASSUME NEW t \in Thread, fail(t)
      PROVE  TypeOK'
  BY <1>18, <1>19 DEF fail
<1>20. ASSUME NEW t \in Thread, seeNewer(t)
      PROVE  TypeOK'
  <2>1. Word(t) \in TsWord
    <3>1. idx[t] \in DOMAIN read_set[t]
      BY <1>20 DEF seeNewer, Verifies, TypeOK
    <3>2. Element(t).key \in Key
      BY <3>1, ReadElementType DEF Element
    <3> QED
      BY <3>2 DEF Word, TypeOK
  <2>2. pc' \in [Thread -> Label]
    BY <1>20, GotoType DEF seeNewer, Label
  <2> QED
    BY <1>20, <2>1, <2>2 DEF seeNewer, TypeOK
<1>21. ASSUME NEW t \in Thread, seeHistory(t)
      PROVE  TypeOK'
  <2>1. CASE Reject(t)
    BY <1>18, <1>21, <2>1 DEF seeHistory
  <2>2. CASE ~Reject(t)
    <3>1. /\ NextElement(t) /\ UNCHANGED << status, held >>
          /\ Goto(t, IF pc[t] = "history" THEN "validate" ELSE "preverify")
      BY <1>21, <2>2 DEF seeHistory
    <3>2. pc' \in [Thread -> Label]
      BY <3>1, GotoType DEF Label
    <3>3. idx' \in [Thread -> Nat \ {0}]
      BY <3>1, IndexType
    <3> QED
      BY <1>21, <3>1, <3>2, <3>3 DEF seeHistory, TypeOK
  <2> QED
    BY <2>1, <2>2
<1>22. ASSUME NEW t \in Thread, commit(t)
      PROVE  TypeOK'
  <2> DEFINE R == {[key |-> r.key, ver |-> r.val] : r \in ToSet(read_set[t])}
             c == [id |-> Id(t), ts |-> commit_ts[t], reads |-> R]
  <2>1. R \subseteq [key : Key, ver : Version]
    <3>1. \A r \in ToSet(read_set[t]) : r.key \in Key /\ r.val \in Version
      BY ReadElementType DEF ToSet
    <3> QED
      BY <3>1
  <2>2. Id(t) \in Txn
    BY <1>22, IdType DEF commit
  <2>3. c \in Commitment
    <3> HIDE DEF R
    <3> QED
      BY <2>1, <2>2 DEF TypeOK, Commitment
  <2>4. committed' = committed \cup {c}
    BY <1>22 DEF commit
  <2>5. committed' \subseteq Commitment
    <3> HIDE DEF c
    <3> QED
      BY <2>3, <2>4 DEF TypeOK
  <2> QED
    <3>1. pc' \in [Thread -> Label] /\ idx' \in [Thread -> Nat \ {0}]
      <4>1. pc' \in [Thread -> Label]
        BY <1>22, GotoType DEF commit, Label
      <4>2. idx' \in [Thread -> Nat \ {0}]
        <5>1. idx' = [idx EXCEPT ![t] = 1] /\ 1 \in Nat \ {0}
          BY <1>22 DEF commit
        <5> QED
          BY <5>1, IndexType
      <4> QED
        BY <4>1, <4>2
    <3>2. UNCHANGED << control, records, pro_set, pos, copies, sets, timestamps, held,
                       status, txn >>
      BY <1>22 DEF commit
    <3> QED
      BY <2>5, <3>1, <3>2 DEF TypeOK
<1>23. ASSUME NEW t \in Thread, installValue(t)
      PROVE  TypeOK'
  <2> DEFINE w == write_set[t][idx[t]]
  <2>1. w.key \in Key /\ w.tsw \in TsWord
    <3>1. idx[t] \in 1 .. Len(write_set[t])
      BY <1>23 DEF installValue, TypeOK
    <3> QED
      BY <3>1, WriteElementType
  <2>2. Id(t) \in Txn
    BY <1>23, IdType DEF installValue
  <2>3. w.tsw.wts \in Nat
    BY <2>1 DEF TsWord
  <2>4. val' \in [Key -> Version]
    BY <1>23, <2>2 DEF installValue, Version, TypeOK
  <2>5. pre_wts' \in [Key -> Nat]
    BY <1>23, <2>3 DEF installValue, TypeOK
  <2>6. order' \in [Key -> Seq(Txn)]
    <3>1. Append(order[w.key], Id(t)) \in Seq(Txn)
      <4> HIDE DEF Id, Txn
      <4> QED
        BY <2>1, <2>2 DEF TypeOK
    <3>2. order' = [order EXCEPT ![w.key] = Append(order[w.key], Id(t))]
      BY <1>23, <2>1 DEF installValue, TypeOK
    <3> HIDE DEF w
    <3> QED
      BY <3>1, <3>2 DEF TypeOK
  <2> QED
    BY <1>23, <2>4, <2>5, <2>6 DEF installValue, Goto, TypeOK, Label
<1>24. ASSUME NEW t \in Thread, installWord(t)
      PROVE  TypeOK'
  <2>1. [wts |-> commit_ts[t], delta |-> 0, lock |-> FALSE] \in TsWord
    BY TicTocAssumption DEF TypeOK, TsWord
  <2>2. tsw' \in [Key -> TsWord]
    BY <1>24, <2>1 DEF installWord, TypeOK
  <2>3. pc' \in [Thread -> Label]
    BY <1>24, GotoType DEF installWord, Label
  <2>4. idx' \in [Thread -> Nat \ {0}]
    BY <1>24, NextElementType DEF installWord, NextElement
  <2> QED
    BY <1>24, <2>2, <2>3, <2>4 DEF installWord, TypeOK
<1>25. ASSUME NEW t \in Thread, finish(t)
      PROVE  TypeOK'
  <2>1. txn[t] + 1 \in 0 .. MaxTxn
    <3>1. txn[t] \in 0 .. MaxTxn /\ MaxTxn \in Nat
      BY TicTocAssumption DEF TypeOK
    <3>2. txn[t] < MaxTxn
      BY <1>25 DEF finish, Indexed, IndexedAt
    <3> QED
      BY <3>1, <3>2
  <2>2. pc' \in [Thread -> Label]
    BY <1>25, GotoType DEF finish, Label
  <2>3. read_set' \in [Thread -> Seq(ReadElement)] /\ write_set' \in [Thread -> Seq(WriteElement)]
    BY <1>25 DEF finish, TypeOK
  <2>4. txn' \in [Thread -> 0 .. MaxTxn] /\ held' \in [Thread -> Nat]
    BY <1>25, <2>1 DEF finish, TypeOK
  <2> QED
    BY <1>25, <2>2, <2>3, <2>4 DEF finish, TypeOK
<1> QED
  BY <1>1, <1>2, <1>3, <1>4, <1>6, <1>7, <1>8, <1>9, <1>10, <1>11, <1>12, <1>13, <1>14,
     <1>15, <1>16, <1>17, <1>19, <1>20, <1>21, <1>22, <1>23, <1>24, <1>25 DEF Next, worker

-----------------------------------------------------------------------------
(* What a step leaves alone *)

\* A worker changes nothing of another worker's.
LEMMA OthersStay ==
    ASSUME TypeOK, NEW t \in Thread, worker(t), NEW u \in Thread, u # t
    PROVE  /\ pc'[u] = pc[u] /\ pro_set'[u] = pro_set[u] /\ pos'[u] = pos[u]
           /\ v1'[u] = v1[u] /\ return_val'[u] = return_val[u]
           /\ read_set'[u] = read_set[u] /\ write_set'[u] = write_set[u]
           /\ commit_ts'[u] = commit_ts[u] /\ idx'[u] = idx[u] /\ held'[u] = held[u]
           /\ status'[u] = status[u] /\ txn'[u] = txn[u]
<1> USE DEF control, build, records, sets, timestamps, copies, history,
            Goto, Advance, NextElement
<1> DEFINE Status == {"inFlight", "aborted"}
           Count == 0 .. MaxTxn
           Index == Nat \ {0}
<1>0. /\ pc \in [Thread -> Label] /\ pro_set \in [Thread -> Seq(Operation)]
      /\ pos \in [Thread -> Index] /\ v1 \in [Thread -> TsWord]
      /\ return_val \in [Thread -> Version] /\ read_set \in [Thread -> Seq(ReadElement)]
      /\ write_set \in [Thread -> Seq(WriteElement)] /\ commit_ts \in [Thread -> Nat]
      /\ idx \in [Thread -> Index] /\ held \in [Thread -> Nat]
      /\ status \in [Thread -> Status] /\ txn \in [Thread -> Count]
  BY DEF TypeOK
<1> HIDE DEF Status, Count, Index
<1>1. CASE NextProcedure(t) \/ leave(t) \/ begin(t)
  BY <1>0, <1>1 DEF NextProcedure, leave, begin
<1>2. CASE readLocal(t) \/ readLoad(t) \/ readCopy(t)
  BY <1>0, <1>2 DEF readLocal, readLoad, readCopy, Inspects
<1>3. CASE readDone(t) \/ readAgain(t)
  BY <1>0, <1>3 DEF readDone, readAgain, Inspects
<1>4. CASE write(t)
  BY <1>0, <1>4 DEF write
<1>5. CASE validationPhase(t)
  BY <1>0, <1>5 DEF validationPhase
<1>6. CASE lockRecord(t) \/ lockBusy(t) \/ locked(t)
  BY <1>0, <1>6 DEF lockRecord, lockBusy, locked
<1>7. CASE unlockLoad(t) \/ unlockStore(t) \/ unlocked(t)
  BY <1>0, <1>7 DEF unlockLoad, unlockStore, unlocked
<1>8. CASE pass(t) \/ extend(t) \/ seeNewer(t) \/ relock(t)
  BY <1>0, <1>8 DEF pass, extend, seeNewer, relock
<1>9. CASE fail(t)
  BY <1>0, <1>9 DEF fail, Reject
<1>10. CASE seeHistory(t)
  BY <1>0, <1>10 DEF seeHistory, Reject
<1>11. CASE abort(t) \/ commit(t) \/ installValue(t) \/ installWord(t) \/ finish(t)
  BY <1>0, <1>11 DEF abort, commit, installValue, installWord, finish
<1> QED
  BY <1>1, <1>2, <1>3, <1>4, <1>5, <1>6, <1>7, <1>8, <1>9, <1>10, <1>11 DEF worker

-----------------------------------------------------------------------------
(* Where a worker is *)

LEMMA IndexedStep ==
    ASSUME TypeOK, Indexed, NEW t \in Thread, worker(t)
    PROVE  IndexedAt(t)'
<1> USE DEF control, build, records, sets, timestamps, copies, history, NextElement
<1>0. /\ IndexedAt(t)
      /\ pc \in [Thread -> Label] /\ pro_set \in [Thread -> Seq(Operation)]
      /\ pos \in [Thread -> Nat \ {0}]
      /\ held \in [Thread -> Nat] /\ idx \in [Thread -> Nat \ {0}] /\ txn \in [Thread -> 0 .. MaxTxn]
      /\ read_set \in [Thread -> Seq(ReadElement)]
      /\ write_set \in [Thread -> Seq(WriteElement)]
  BY DEF TypeOK, Indexed
<1>1. CASE NextProcedure(t) \/ leave(t) \/ begin(t)
  BY <1>0, <1>1 DEF NextProcedure, leave, begin, Goto, IndexedAt
<1>2. CASE readLocal(t)
  BY <1>0, <1>2 DEF readLocal, Advance, IndexedAt
<1>3. ASSUME Executes(t, "READ"), pc[t] \in {"run", "check"}, NEW word, Inspects(t, word),
             UNCHANGED << control, records, pro_set, pos, return_val, sets, timestamps,
                          idx, held, history >>
      PROVE  IndexedAt(t)'
  BY <1>0, <1>3 DEF Inspects, Executes, Goto, IndexedAt
<1>4. CASE readLoad(t) \/ readAgain(t)
  BY <1>0, <1>3, <1>4 DEF readLoad, readAgain, IndexedAt
<1>5. CASE readCopy(t)
  BY <1>0, <1>5 DEF readCopy, Executes, Goto, IndexedAt
<1>6. CASE readDone(t)
  BY <1>0, <1>6 DEF readDone, Advance, Goto, IndexedAt
<1>7. CASE write(t)
  <2> DEFINE e == [key |-> OpKey(t), tsw |-> tsw[OpKey(t)]]
  <2>1. /\ pc[t] = "run" /\ UNCHANGED << pc, held, idx, txn, read_set, pro_set >>
        /\ pos' = [pos EXCEPT ![t] = @ + 1]
    BY <1>7 DEF write, Advance
  <2>2. \/ write_set'[t] = write_set[t]
        \/ /\ write_set'[t] = Append(write_set[t], e)
           /\ ~ searchWriteSet(t, OpKey(t))
    BY <1>0, <1>7 DEF write
  <2>3. CASE write_set'[t] = write_set[t]
    BY <1>0, <2>1, <2>3 DEF IndexedAt
  <2>4. CASE write_set'[t] = Append(write_set[t], e) /\ ~ searchWriteSet(t, OpKey(t))
    <3>1. /\ Len(write_set'[t]) = Len(write_set[t]) + 1
          /\ DOMAIN write_set'[t] = 1 .. Len(write_set[t]) + 1
          /\ DOMAIN write_set[t] = 1 .. Len(write_set[t]) /\ Len(write_set[t]) \in Nat
          /\ \A i \in DOMAIN write_set[t] : write_set'[t][i] = write_set[t][i]
          /\ write_set'[t][Len(write_set[t]) + 1] = e
      <4> HIDE DEF e
      <4>1. write_set[t] \in Seq(WriteElement)
        BY <1>0
      <4> QED
        BY <2>4, <4>1
    <3>2. \A i \in DOMAIN write_set[t] : write_set[t][i].key # e.key
      BY <2>4 DEF searchWriteSet, InSet
    <3>3. \A i, j \in DOMAIN write_set'[t] :
              write_set'[t][i].key = write_set'[t][j].key => i = j
      <4> HIDE DEF e
      <4>1. \A i, j \in DOMAIN write_set[t] :
                write_set[t][i].key = write_set[t][j].key => i = j
        BY <1>0 DEF IndexedAt
      <4>2. \A i \in DOMAIN write_set'[t] :
                i \in DOMAIN write_set[t] \/ i = Len(write_set[t]) + 1
        BY <3>1
      <4> QED
        BY <3>1, <3>2, <4>1, <4>2
    <3>4. held[t] \in Nat /\ held[t] <= Len(write_set'[t])
      BY <1>0, <3>1 DEF IndexedAt
    <3> QED
      BY <1>0, <2>1, <3>3, <3>4 DEF IndexedAt
  <2> QED
    BY <2>2, <2>3, <2>4
<1>8. CASE validationPhase(t)
  <2>1. PICK sorted \in [DOMAIN write_set[t] -> ToSet(write_set[t])] :
            /\ Sorts(sorted, write_set[t])
            /\ write_set' = [write_set EXCEPT ![t] = sorted]
    BY <1>8 DEF validationPhase
  <2>2. DOMAIN write_set[t] = 1 .. Len(write_set[t]) /\ Len(write_set[t]) \in Nat
    BY <1>0
  <2>3. Len(sorted) = Len(write_set[t]) /\ DOMAIN sorted = 1 .. Len(write_set[t])
    BY <2>2
  <2>4. \A i \in DOMAIN sorted : sorted[i].key \in Int
    <3>1. ToSet(write_set[t]) \subseteq WriteElement
      BY <1>0, <2>2 DEF ToSet
    <3>2. \A e \in WriteElement : e.key \in Int
      BY TicTocAssumption DEF WriteElement
    <3> QED
      BY <3>1, <3>2
  <2>5. \A i, j \in DOMAIN sorted : sorted[i].key = sorted[j].key => i = j
    <3>1. \A i, j \in DOMAIN sorted : i \in Nat /\ j \in Nat
      BY <2>3
    <3>2. \A i, j \in DOMAIN sorted : i < j => sorted[i].key < sorted[j].key
      BY <2>1 DEF Sorts
    <3> QED
      BY <2>4, <3>1, <3>2
  <2>6. /\ pc'[t] = "lock" /\ pc[t] = "run" /\ idx'[t] = 1 /\ UNCHANGED << held, txn, read_set >>
        /\ write_set'[t] = sorted
    BY <1>0, <1>8, <2>1 DEF validationPhase, Goto
  <2> QED
    BY <1>0, <2>3, <2>5, <2>6 DEF IndexedAt
<1>9. CASE lockRecord(t)
  <2>1. /\ pc[t] = "lock" /\ idx[t] <= Len(write_set[t])
        /\ idx'[t] = idx[t] + 1 /\ held'[t] = held[t] + 1
        /\ UNCHANGED << pc, write_set, read_set, txn >>
    BY <1>0, <1>9 DEF lockRecord
  <2>2. idx[t] \in Nat /\ held[t] \in Nat /\ Len(write_set[t]) \in Nat
    BY <1>0
  <2> QED
    BY <1>0, <2>1, <2>2 DEF IndexedAt
<1>10. CASE lockBusy(t) \/ locked(t)
  BY <1>0, <1>10 DEF lockBusy, locked, Goto, IndexedAt
<1>11. CASE unlockLoad(t) \/ unlockStore(t) \/ unlocked(t)
  BY <1>0, <1>11 DEF unlockLoad, unlockStore, unlocked, Released, Goto, IndexedAt
<1>12. CASE pass(t) \/ extend(t)
  BY <1>0, <1>12 DEF pass, extend, Verifies, IndexedAt
<1>13. CASE seeNewer(t) \/ relock(t)
  BY <1>0, <1>13 DEF seeNewer, relock, Verifies, Goto, IndexedAt
<1>14. ASSUME pc[t] \in {"validate", "preverify", "history", "prehistory"}, Reject(t),
              UNCHANGED << sets, txn >>
       PROVE  IndexedAt(t)'
  <2>1. Len(write_set[t]) \in Nat
    BY <1>0
  <2> QED
    BY <1>0, <1>14, <2>1 DEF Reject, Goto, IndexedAt
<1>15. CASE fail(t)
  BY <1>14, <1>15 DEF fail, Verifies
<1>16. CASE seeHistory(t)
  <2>1. CASE Reject(t)
    BY <1>14, <1>16, <2>1 DEF seeHistory
  <2>2. CASE ~Reject(t)
    BY <1>0, <1>16, <2>2 DEF seeHistory, Goto, IndexedAt
  <2> QED
    BY <2>1, <2>2
<1>17. CASE abort(t) \/ commit(t) \/ finish(t)
  BY <1>0, <1>17 DEF abort, commit, finish, Goto, IndexedAt
<1>18. CASE installValue(t) \/ installWord(t)
  BY <1>0, <1>18 DEF installValue, installWord, Goto, IndexedAt
<1> QED
  BY <1>1, <1>2, <1>4, <1>5, <1>6, <1>7, <1>8, <1>9, <1>10, <1>11, <1>12, <1>13, <1>15,
     <1>16, <1>17, <1>18 DEF worker

LEMMA TypesInvariance == Spec => [](TypeOK /\ Indexed)
<1>1. Init => TypeOK /\ Indexed
  <2> SUFFICES ASSUME Init PROVE TypeOK /\ Indexed
    OBVIOUS
  <2>1. Unlocked \in TsWord
    BY TicTocAssumption DEF Unlocked, TsWord
  <2>2. locking \in Locking /\ timestamp_history \in BOOLEAN
    <3>1. PICK b \in Builds : locking = b.locking /\ timestamp_history = b.timestamp_history
      BY DEF Init
    <3>2. b \in [locking : Locking, timestamp_history : BOOLEAN]
      BY TicTocAssumption
    <3> QED
      BY <3>1, <3>2
  <2>3. "next" \in Label /\ None \in Version /\ 0 \in 0 .. MaxTxn
    <3>1. MaxTxn \in Nat
      BY TicTocAssumption
    <3> QED
      BY <3>1 DEF Label, Version
  <2>4. TypeOK
    <3>1. /\ << >> \in Seq(Operation) /\ << >> \in Seq(ReadElement)
          /\ << >> \in Seq(WriteElement) /\ << >> \in Seq(Txn)
      OBVIOUS
    <3>2. /\ tsw \in [Key -> TsWord] /\ pre_wts \in [Key -> Nat] /\ val \in [Key -> Version]
          /\ order \in [Key -> Seq(Txn)] /\ committed \subseteq Commitment
      BY <2>1, <2>3, <3>1 DEF Init
    <3>3. /\ pc \in [Thread -> Label] /\ pro_set \in [Thread -> Seq(Operation)]
          /\ v1 \in [Thread -> TsWord] /\ return_val \in [Thread -> Version]
          /\ read_set \in [Thread -> Seq(ReadElement)]
          /\ write_set \in [Thread -> Seq(WriteElement)]
      BY <2>1, <2>3, <3>1 DEF Init
    <3>4. /\ pos \in [Thread -> Nat \ {0}] /\ idx \in [Thread -> Nat \ {0}]
          /\ commit_ts \in [Thread -> Nat] /\ appro_commit_ts \in [Thread -> Nat]
          /\ held \in [Thread -> Nat] /\ txn \in [Thread -> 0 .. MaxTxn]
      BY <2>3 DEF Init
    <3>5. status \in [Thread -> {"inFlight", "aborted"}] /\ quit \in BOOLEAN
      BY DEF Init
    <3> QED
      BY <2>2, <3>2, <3>3, <3>4, <3>5 DEF TypeOK
  <2>5. Indexed
    BY DEF Init, Indexed, IndexedAt
  <2> QED
    BY <2>4, <2>5
<1>2. TypeOK /\ Indexed /\ [Next]_vars => (TypeOK /\ Indexed)'
  <2> SUFFICES ASSUME TypeOK, Indexed, [Next]_vars PROVE TypeOK' /\ Indexed'
    OBVIOUS
  <2>1. TypeOK'
    BY TypesStep
  <2>2. ASSUME UNCHANGED vars \/ Joined \/ Quit
        PROVE  Indexed'
    <3>1. UNCHANGED << pc, txn, pos, pro_set, held, idx, read_set, write_set >>
      BY <2>2 DEF vars, Joined, Quit, sets, history, copies, timestamps, records, build
    <3> SUFFICES ASSUME NEW u \in Thread PROVE IndexedAt(u)'
      BY DEF Indexed
    <3>2. IndexedAt(u)
      BY DEF Indexed
    <3>3. /\ pc'[u] = pc[u] /\ txn'[u] = txn[u] /\ pos'[u] = pos[u]
          /\ pro_set'[u] = pro_set[u] /\ held'[u] = held[u] /\ idx'[u] = idx[u]
          /\ read_set'[u] = read_set[u] /\ write_set'[u] = write_set[u]
      BY <3>1
    <3> QED
      BY <3>2, <3>3 DEF IndexedAt, Executes
  <2>3. ASSUME NEW t \in Thread, worker(t)
        PROVE  Indexed'
    <3> SUFFICES ASSUME NEW u \in Thread PROVE IndexedAt(u)'
      BY DEF Indexed
    <3>1. CASE u = t
      BY <2>3, <3>1, IndexedStep
    <3>2. CASE u # t
      BY <2>3, <3>2, OthersStay DEF Indexed, IndexedAt, Executes
    <3> QED
      BY <3>1, <3>2
  <2> QED
    BY <2>1, <2>2, <2>3 DEF Next
<1> QED
  BY <1>1, <1>2, PTL DEF Spec

\* The variables keep their types, whatever the procedures and the options are; in
\* particular a validity that is extended beyond its 15 bits stays within them.
THEOREM TypeCorrect == Spec => []TypeOK
BY TypesInvariance, PTL

-----------------------------------------------------------------------------
(* Locks *)

\* The records a worker has locked, by the elements of its write set.
LEMMA LockedKeys ==
    ASSUME TypeOK, Indexed, NEW t \in Thread
    PROVE  /\ First(t) \in Nat \ {0} /\ held[t] \in Nat /\ Len(write_set[t]) \in Nat
           /\ held[t] <= Len(write_set[t])
           /\ \A i \in First(t) .. held[t] : i \in 1 .. Len(write_set[t]) /\ write_set[t][i].key \in Key
           /\ Locks(t) \subseteq Key
<1>1. First(t) \in Nat \ {0} /\ held[t] \in Nat /\ Len(write_set[t]) \in Nat
  BY DEF TypeOK, First
<1>2. held[t] <= Len(write_set[t])
  BY DEF Indexed, IndexedAt
<1>3. \A i \in First(t) .. held[t] : i \in 1 .. Len(write_set[t])
  BY <1>1, <1>2
<1>4. \A i \in First(t) .. held[t] : write_set[t][i].key \in Key
  BY <1>3, WriteElementType
<1> QED
  BY <1>1, <1>2, <1>3, <1>4 DEF Locks

\* Whose held elements, and whose first one, stay, keeps its locks.
LEMMA SameLocks ==
    ASSUME NEW t \in Thread, write_set'[t] = write_set[t], held'[t] = held[t], First(t)' = First(t)
    PROVE  Locks(t)' = Locks(t)
BY DEF Locks

LEMMA NoLocks ==
    ASSUME NEW t \in Thread, First(t) \in Nat, held[t] \in Nat, held[t] < First(t)
    PROVE  Locks(t) = {}
BY DEF Locks

LEMMA OthersLocks ==
    ASSUME TypeOK, NEW t \in Thread, worker(t), NEW u \in Thread, u # t
    PROVE  Locks(u)' = Locks(u)
<1>1. /\ pc'[u] = pc[u] /\ write_set'[u] = write_set[u] /\ held'[u] = held[u]
      /\ idx'[u] = idx[u]
  BY OthersStay
<1> QED
  BY <1>1, SameLocks DEF First

\* lockRecord: a lock more.
LEMMA LockRecordLocks ==
    ASSUME LocksInd, AbortsTake, NEW t \in Thread, lockRecord(t)
    PROVE  /\ WriteKey(t) \in Key /\ ~ tsw[WriteKey(t)].lock
           /\ tsw' = [tsw EXCEPT ![WriteKey(t)] = [tsw[WriteKey(t)] EXCEPT !.lock = TRUE]]
           /\ Locks(t)' = Locks(t) \cup {WriteKey(t)}
<1> USE DEF LocksInd
<1>1. /\ pc[t] = "lock" /\ idx[t] <= Len(write_set[t]) /\ idx[t] = held[t] + 1
      /\ UNCHANGED << pc, write_set >> /\ held'[t] = held[t] + 1 /\ held[t] \in Nat
      /\ Len(write_set[t]) \in Nat
  BY DEF lockRecord, sets, LocksKnown, TypeOK
<1>2. idx[t] \in 1 .. Len(write_set[t])
  BY <1>1
<1>3. WriteKey(t) \in Key
  BY <1>2, WriteElementType DEF WriteKey
<1>4. First(t) = 1 /\ First(t)' = 1
  BY <1>1 DEF First
<1>5. 1 .. held'[t] = (1 .. held[t]) \cup {idx[t]}
  BY <1>1
<1>6. Locks(t)' = {write_set[t][i].key : i \in 1 .. held'[t]}
  BY <1>1, <1>4 DEF Locks
<1>7. Locks(t) = {write_set[t][i].key : i \in 1 .. held[t]}
  BY <1>4 DEF Locks
<1>8. Locks(t)' = Locks(t) \cup {WriteKey(t)}
  BY <1>5, <1>6, <1>7 DEF WriteKey
<1>9. ~ tsw[WriteKey(t)].lock /\ tsw' = [tsw EXCEPT ![WriteKey(t)].lock = TRUE]
  BY DEF lockRecord, WriteKey
<1> QED
  BY <1>3, <1>8, <1>9

\* unlockStore and installWord: a lock less.
LEMMA ReleaseLocks ==
    ASSUME LocksInd, AbortsTake, NEW t \in Thread, unlockStore(t) \/ installWord(t)
    PROVE  /\ WriteKey(t) \in Locks(t)
           /\ Locks(t)' = Locks(t) \ {WriteKey(t)}
           /\ \E w \in TsWord : ~ w.lock /\ tsw' = [tsw EXCEPT ![WriteKey(t)] = w]
<1> USE DEF LocksInd
<1>1. /\ pc[t] \in {"unlocking", "publish"} /\ pc'[t] \in {"unlock", "install"}
      /\ UNCHANGED << write_set, held >> /\ idx'[t] = idx[t] + 1
      /\ held[t] \in Nat /\ idx[t] \in Nat \ {0}
  BY DEF unlockStore, installWord, sets, Goto, TypeOK
<1>2. idx[t] <= held[t] /\ held[t] <= Len(write_set[t]) /\ Len(write_set[t]) \in Nat
  <2>1. pc[t] = "publish" => held[t] = Len(write_set[t])
    BY DEF LocksKnown
  <2>2. Len(write_set[t]) \in Nat
    BY DEF TypeOK
  <2> QED
    BY <1>1, <2>1, <2>2 DEF Indexed, IndexedAt
<1>3. First(t) = idx[t] /\ First(t)' = idx[t] + 1
  BY <1>1 DEF First
<1>4. idx[t] .. held[t] = ((idx[t] + 1) .. held[t]) \cup {idx[t]}
  BY <1>1, <1>2
<1>5. Locks(t) = {write_set[t][i].key : i \in idx[t] .. held[t]}
  BY <1>3 DEF Locks
<1>6. Locks(t)' = {write_set[t][i].key : i \in (idx[t] + 1) .. held[t]}
  BY <1>1, <1>3 DEF Locks
<1>7. \A i \in (idx[t] + 1) .. held[t] : write_set[t][i].key # WriteKey(t)
  <2> SUFFICES ASSUME NEW i \in (idx[t] + 1) .. held[t], write_set[t][i].key = WriteKey(t)
               PROVE  FALSE
    OBVIOUS
  <2>1. i \in DOMAIN write_set[t] /\ idx[t] \in DOMAIN write_set[t] /\ i # idx[t]
    <3>1. i \in 1 .. Len(write_set[t]) /\ idx[t] \in 1 .. Len(write_set[t]) /\ i # idx[t]
      BY <1>1, <1>2
    <3> QED
      BY <3>1, WriteElementType
  <2> QED
    BY <2>1 DEF WriteKey, Indexed, IndexedAt
<1>8. WriteKey(t) \in Locks(t) /\ Locks(t)' = Locks(t) \ {WriteKey(t)}
  BY <1>4, <1>5, <1>6, <1>7 DEF WriteKey
<1>9. \E w \in TsWord : ~ w.lock /\ tsw' = [tsw EXCEPT ![WriteKey(t)] = w]
  <2>1. CASE unlockStore(t)
    <3>1. \A w \in TsWord : [w EXCEPT !.lock = FALSE] \in TsWord /\ ~ [w EXCEPT !.lock = FALSE].lock
      BY DEF TsWord
    <3>2. v1[t] \in TsWord
      BY DEF TypeOK
    <3>3. tsw' = [tsw EXCEPT ![WriteKey(t)] = [v1[t] EXCEPT !.lock = FALSE]]
      BY <2>1 DEF unlockStore, WriteKey
    <3> QED
      BY <3>1, <3>2, <3>3
  <2>2. CASE installWord(t)
    <3> DEFINE w == [wts |-> commit_ts[t], delta |-> 0, lock |-> FALSE]
    <3>1. w \in TsWord /\ ~ w.lock
      BY TicTocAssumption DEF TypeOK, TsWord
    <3>2. tsw' = [tsw EXCEPT ![WriteKey(t)] = w]
      BY <2>2 DEF installWord, WriteKey
    <3> HIDE DEF w
    <3> QED
      BY <3>1, <3>2
  <2> QED
    BY <2>1, <2>2
<1> QED
  BY <1>8, <1>9

\* extend: of a record that nobody has locked.
LEMMA ExtendsUnlocked ==
    ASSUME TypeOK, NEW t \in Thread, extend(t)
    PROVE  LET k == Element(t).key IN
           /\ k \in Key /\ ~ tsw[k].lock /\ commit_ts[t] \in Nat
           /\ rts(tsw[k]) < commit_ts[t]
           /\ tsw' = [tsw EXCEPT ![k] = Extended(tsw[k], commit_ts[t])]
           /\ Extended(tsw[k], commit_ts[t]) \in TsWord
           /\ rts(Extended(tsw[k], commit_ts[t])) = commit_ts[t]
           /\ tsw[k].wts <= Extended(tsw[k], commit_ts[t]).wts
           /\ ~ Extended(tsw[k], commit_ts[t]).lock
<1> DEFINE k == Element(t).key
<1>1. /\ idx[t] \in 1 .. Len(read_set[t]) /\ pc[t] = "validate"
      /\ ~ tsw[k].lock /\ rts(tsw[k]) < commit_ts[t]
      /\ tsw' = [tsw EXCEPT ![k] = Extended(tsw[k], commit_ts[t])]
  BY DEF extend, Verifies, Expires, Fails, Word, TypeOK
<1>2. read_set[t] \in Seq(ReadElement) /\ commit_ts[t] \in Nat
  BY DEF TypeOK
<1>3. k \in Key
  BY <1>1, <1>2, ReadElementType DEF Element
<1>4. tsw[k] \in TsWord
  <2> HIDE DEF k
  <2> QED
    BY <1>3 DEF TypeOK
<1> HIDE DEF k
<1>5. /\ Extended(tsw[k], commit_ts[t]) \in TsWord
      /\ rts(Extended(tsw[k], commit_ts[t])) = commit_ts[t]
      /\ tsw[k].wts <= Extended(tsw[k], commit_ts[t]).wts
      /\ Extended(tsw[k], commit_ts[t]).lock = tsw[k].lock
  BY <1>1, <1>2, <1>4, ExtendedWord
<1>6. ~ Extended(tsw[k], commit_ts[t]).lock
  BY <1>1, <1>5
<1>7. /\ k \in Key /\ ~ tsw[k].lock /\ commit_ts[t] \in Nat
      /\ rts(tsw[k]) < commit_ts[t]
      /\ tsw' = [tsw EXCEPT ![k] = Extended(tsw[k], commit_ts[t])]
  BY <1>1, <1>2, <1>3
<1> QED
  BY <1>5, <1>6, <1>7 DEF k

\* Every other step leaves the locks as they are.
LEMMA QuietLocks ==
    ASSUME LocksInd, AbortsTake, NEW t \in Thread, worker(t),
           ~lockRecord(t), ~unlockStore(t), ~installWord(t)
    PROVE  /\ Locks(t)' = Locks(t)
           /\ \A k \in Key : tsw'[k].lock = tsw[k].lock
           /\ UNCHANGED tsw \/ extend(t)
<1> USE DEF control, build, records, sets, timestamps, copies, history, LocksInd
<1>0. /\ pc \in [Thread -> Label] /\ held \in [Thread -> Nat]
      /\ idx \in [Thread -> Nat \ {0}]
      /\ IndexedAt(t)
      /\ write_set \in [Thread -> Seq(WriteElement)] /\ Len(write_set[t]) \in Nat
      /\ pc[t] \notin {"preverify", "prehistory"}
      /\ pc[t] \in {"validate", "history", "install", "publish"} => held[t] = Len(write_set[t])
  BY DEF TypeOK, Indexed, LocksKnown
<1>1. ASSUME UNCHANGED << tsw >>, Locks(t)' = Locks(t)
      PROVE  /\ Locks(t)' = Locks(t)
             /\ \A k \in Key : tsw'[k].lock = tsw[k].lock
             /\ UNCHANGED tsw \/ extend(t)
  BY <1>1
<1>2. ASSUME held[t] = 0, held'[t] = 0, UNCHANGED tsw
      PROVE  Locks(t) = {} /\ Locks(t)' = {}
  <2>1. First(t) \in Nat \ {0} /\ First(t)' \in Nat \ {0}
    <3>1. TypeOK'
      BY TypesStep DEF Next
    <3> QED
      BY <3>1 DEF First, TypeOK
  <2> QED
    BY <1>2, <2>1 DEF Locks
<1>3. CASE NextProcedure(t) \/ leave(t) \/ begin(t) \/ abort(t)
  <2>1. held[t] = 0 /\ held'[t] = 0 /\ UNCHANGED tsw
    BY <1>0, <1>3 DEF NextProcedure, leave, begin, abort, IndexedAt
  <2> QED
    BY <1>1, <1>2, <2>1
<1>4. CASE readLocal(t) \/ readLoad(t) \/ readCopy(t) \/ readDone(t) \/ readAgain(t) \/ write(t)
            \/ validationPhase(t)
  <2>1. held[t] = 0 /\ held'[t] = 0 /\ UNCHANGED tsw
    <3>1. UNCHANGED << held, tsw >> /\ pc[t] \in {"run", "copy", "check"}
      BY <1>4 DEF readLocal, readLoad, readCopy, readDone, readAgain, write, validationPhase
    <3> QED
      BY <1>0, <3>1 DEF IndexedAt
  <2> QED
    BY <1>1, <1>2, <2>1
<1>5. CASE lockBusy(t) \/ locked(t) \/ unlockLoad(t) \/ seeNewer(t) \/ commit(t) \/ installValue(t)
  <2>1. /\ write_set'[t] = write_set[t] /\ held'[t] = held[t] /\ UNCHANGED tsw
        /\ First(t)' = First(t)
    BY <1>0, <1>5 DEF lockBusy, locked, unlockLoad, seeNewer, Verifies, commit, installValue,
                      Goto, First
  <2> QED
    BY <1>1, <2>1, SameLocks
<1>6. CASE unlocked(t) \/ finish(t)
  <2>1. UNCHANGED tsw /\ held[t] < idx[t] /\ First(t) = idx[t] /\ held'[t] = 0
    <3>1. CASE unlocked(t)
      BY <1>0, <3>1 DEF unlocked, Released, First
    <3>2. CASE finish(t)
      BY <1>0, <3>2 DEF finish, First
    <3> QED
      BY <1>6, <3>1, <3>2
  <2>2. First(t)' \in Nat \ {0}
    <3>1. TypeOK'
      BY TypesStep DEF Next
    <3> QED
      BY <3>1 DEF First, TypeOK
  <2>3. Locks(t) = {}
    BY <1>0, <2>1 DEF Locks
  <2>4. Locks(t)' = {}
    BY <2>1, <2>2 DEF Locks
  <2> QED
    BY <1>1, <2>1, <2>3, <2>4
<1>7. CASE pass(t)
  <2>1. /\ UNCHANGED << tsw, pc, write_set, held >> /\ pc[t] = "validate"
    BY <1>0, <1>7 DEF pass, Verifies
  <2>2. First(t)' = First(t)
    BY <2>1 DEF First
  <2> QED
    BY <1>1, <2>1, <2>2, SameLocks
<1>8. CASE extend(t)
  <2>1. /\ UNCHANGED << pc, write_set, held >> /\ pc[t] = "validate"
    BY <1>8 DEF extend, Verifies
  <2>2. First(t)' = First(t)
    BY <2>1 DEF First
  <2>3. Locks(t)' = Locks(t)
    BY <2>1, <2>2, SameLocks
  <2> DEFINE k == Element(t).key
             w == Extended(tsw[Element(t).key], commit_ts[t])
  <2>4. tsw' = [tsw EXCEPT ![k] = w] /\ ~ tsw[k].lock /\ ~ w.lock /\ k \in Key /\ w \in TsWord
    BY <1>8, ExtendsUnlocked
  <2>5. \A j \in Key : tsw'[j].lock = tsw[j].lock
    <3> SUFFICES ASSUME NEW j \in Key PROVE tsw'[j].lock = tsw[j].lock
      OBVIOUS
    <3>1. tsw \in [Key -> TsWord] /\ \A x \in TsWord : x.lock \in BOOLEAN
      BY DEF TypeOK, TsWord
    <3> HIDE DEF k, w
    <3>2. CASE j = k
      <4>1. tsw'[j] = w /\ tsw[j].lock \in BOOLEAN /\ w.lock \in BOOLEAN
        BY <2>4, <3>1, <3>2
      <4> QED
        BY <2>4, <3>2, <4>1
    <3>3. CASE j # k
      BY <2>4, <3>1, <3>3
    <3> QED
      BY <3>2, <3>3
  <2> QED
    BY <1>8, <2>3, <2>5
<1>9. ASSUME pc[t] \in {"validate", "history"}, Reject(t), UNCHANGED << tsw, write_set >>
      PROVE  /\ Locks(t)' = Locks(t)
             /\ \A k \in Key : tsw'[k].lock = tsw[k].lock
             /\ UNCHANGED tsw \/ extend(t)
  <2>1. /\ write_set'[t] = write_set[t] /\ held'[t] = held[t]
        /\ First(t)' = First(t)
    BY <1>0, <1>9 DEF Reject, Goto, First
  <2> QED
    BY <1>1, <1>9, <2>1, SameLocks
<1>10. CASE fail(t)
  BY <1>0, <1>9, <1>10 DEF fail, Verifies
<1>11. CASE seeHistory(t)
  <2>1. CASE Reject(t)
    BY <1>0, <1>9, <1>11, <2>1 DEF seeHistory
  <2>2. CASE ~Reject(t)
    <3>1. /\ write_set'[t] = write_set[t] /\ held'[t] = held[t] /\ UNCHANGED tsw
          /\ First(t)' = First(t)
      BY <1>0, <1>11, <2>2 DEF seeHistory, Goto, First
    <3> QED
      BY <1>1, <3>1, SameLocks
  <2> QED
    BY <2>1, <2>2
<1>12. CASE relock(t)
  BY <1>0, <1>12 DEF relock
<1> QED
  BY <1>3, <1>4, <1>5, <1>6, <1>7, <1>8, <1>10, <1>11, <1>12 DEF worker

\* The word of a record that another worker has locked stays.
LEMMA LockedWordStays ==
    ASSUME LocksInd, AbortsTake, NEW t \in Thread, worker(t), NEW u \in Thread, u # t,
           NEW k \in Locks(u)
    PROVE  tsw'[k] = tsw[k]
<1> USE DEF LocksInd
<1>1. k \in Key /\ tsw[k].lock /\ k \notin Locks(t) /\ tsw \in [Key -> TsWord]
  BY LockedKeys DEF LocksOwned, TypeOK
<1>2. CASE lockRecord(t)
  BY <1>1, <1>2, LockRecordLocks
<1>3. CASE unlockStore(t) \/ installWord(t)
  BY <1>1, <1>3, ReleaseLocks
<1>4. CASE extend(t)
  BY <1>1, <1>4, ExtendsUnlocked
<1>5. CASE UNCHANGED tsw
  BY <1>5
<1> QED
  BY <1>2, <1>3, <1>4, <1>5, QuietLocks

LEMMA LocksOwnedStep ==
    ASSUME LocksInd, AbortsTake, NEW t \in Thread, worker(t)
    PROVE  LocksOwned'
<1> USE DEF LocksInd
<1>0. /\ tsw \in [Key -> TsWord] /\ \A w \in TsWord : w.lock \in BOOLEAN
      /\ \A u \in Thread : Locks(u) \subseteq Key
      /\ \A k \in Key : tsw[k].lock <=> \E u \in Thread : k \in Locks(u)
      /\ \A v, u \in Thread : v # u => Locks(v) \cap Locks(u) = {}
  BY LockedKeys DEF TypeOK, TsWord, LocksOwned
<1>1. \A u \in Thread : u # t => Locks(u)' = Locks(u)
  BY OthersLocks
<1>2. ASSUME \A k \in Key : tsw'[k].lock <=> \E u \in Thread : k \in Locks(u)',
             \A u \in Thread : u # t => Locks(t)' \cap Locks(u)' = {}
      PROVE  LocksOwned'
  <2>1. \A v, u \in Thread : v # u => Locks(v)' \cap Locks(u)' = {}
    BY <1>0, <1>1, <1>2
  <2> QED
    BY <1>2, <2>1 DEF LocksOwned
<1>3. CASE ~lockRecord(t) /\ ~unlockStore(t) /\ ~installWord(t)
  <2>1. Locks(t)' = Locks(t) /\ \A k \in Key : tsw'[k].lock = tsw[k].lock
    BY <1>3, QuietLocks
  <2>2. \A u \in Thread : Locks(u)' = Locks(u)
    BY <1>1, <2>1
  <2>3. \A k \in Key : tsw'[k].lock <=> \E u \in Thread : k \in Locks(u)'
    BY <1>0, <2>1, <2>2
  <2> QED
    BY <1>0, <1>2, <2>2, <2>3
<1>4. CASE lockRecord(t)
  <2> DEFINE j == WriteKey(t)
             w == [tsw[j] EXCEPT !.lock = TRUE]
  <2>1. /\ j \in Key /\ ~ tsw[j].lock /\ tsw' = [tsw EXCEPT ![j] = w]
        /\ Locks(t)' = Locks(t) \cup {j}
    BY <1>4, LockRecordLocks
  <2>2. w.lock = TRUE
    <3>1. tsw[j] \in TsWord /\ \A x \in TsWord : [x EXCEPT !.lock = TRUE].lock = TRUE
      <4>1. \A x \in TsWord : [x EXCEPT !.lock = TRUE].lock = TRUE
        BY DEF TsWord
      <4> HIDE DEF j
      <4> QED
        BY <1>0, <2>1, <4>1
    <3> QED
      BY <3>1
  <2> HIDE DEF w
  <2>3. \A k \in Key : tsw'[k].lock <=> \E u \in Thread : k \in Locks(u)'
    <3> SUFFICES ASSUME NEW k \in Key PROVE tsw'[k].lock <=> \E u \in Thread : k \in Locks(u)'
      OBVIOUS
    <3>1. PICK q : q = j
      OBVIOUS
    <3>2. Locks(t)' = Locks(t) \cup {q} /\ tsw' = [tsw EXCEPT ![q] = w] /\ q \in Key
      BY <2>1, <3>1
    <3> HIDE DEF j
    <3>3. CASE k = q
      BY <1>0, <2>2, <3>2, <3>3
    <3>4. CASE k # q
      <4>1. tsw'[k] = tsw[k]
        BY <1>0, <3>2, <3>4
      <4>2. \A u \in Thread : k \in Locks(u)' <=> k \in Locks(u)
        BY <1>1, <3>2, <3>4
      <4> QED
        BY <1>0, <4>1, <4>2
    <3> QED
      BY <3>3, <3>4
  <2>4. \A u \in Thread : u # t => Locks(t)' \cap Locks(u)' = {}
    <3>1. \A u \in Thread : j \notin Locks(u)
      BY <1>0, <2>1
    <3> HIDE DEF j
    <3> QED
      BY <1>0, <1>1, <2>1, <3>1
  <2> QED
    BY <1>2, <2>3, <2>4
<1>5. CASE unlockStore(t) \/ installWord(t)
  <2>1. PICK q \in Locks(t), w \in TsWord :
            ~ w.lock /\ tsw' = [tsw EXCEPT ![q] = w] /\ Locks(t)' = Locks(t) \ {q}
    BY <1>5, ReleaseLocks
  <2>2. q \in Key /\ \A u \in Thread : u # t => q \notin Locks(u)
    BY <1>0
  <2>3. \A k \in Key : tsw'[k].lock <=> \E u \in Thread : k \in Locks(u)'
    <3> SUFFICES ASSUME NEW k \in Key PROVE tsw'[k].lock <=> \E u \in Thread : k \in Locks(u)'
      OBVIOUS
    <3>1. CASE k = q
      <4>1. tsw'[k] = w
        BY <1>0, <2>1, <2>2, <3>1
      <4>2. \A u \in Thread : k \notin Locks(u)'
        BY <1>1, <2>1, <2>2, <3>1
      <4> QED
        BY <1>0, <2>1, <4>1, <4>2
    <3>2. CASE k # q
      <4>1. tsw'[k] = tsw[k]
        BY <1>0, <2>1, <3>2
      <4>2. \A u \in Thread : k \in Locks(u)' <=> k \in Locks(u)
        BY <1>1, <2>1, <3>2
      <4> QED
        BY <1>0, <4>1, <4>2
    <3> QED
      BY <3>1, <3>2
  <2>4. \A u \in Thread : u # t => Locks(t)' \cap Locks(u)' = {}
    BY <1>0, <1>1, <2>1
  <2> QED
    BY <1>2, <2>3, <2>4
<1> QED
  BY <1>3, <1>4, <1>5

LEMMA LocksKnownStep ==
    ASSUME LocksInd, AbortsTake, NEW t \in Thread, worker(t)
    PROVE  LocksKnown'
<1> DEFINE Known(u) ==
        /\ pc[u] \notin {"preverify", "prehistory"}
        /\ pc[u] \in {"unlock", "unlocking"} => status[u] = "aborted"
        /\ pc[u] = "lock" => idx[u] = held[u] + 1
        /\ pc[u] \in {"validate", "history", "install", "publish"} => held[u] = Len(write_set[u])
        /\ pc[u] = "unlocking" => v1[u] = tsw[write_set[u][idx[u]].key]
<1>0. \A u \in Thread : Known(u)
  BY DEF LocksInd, LocksKnown
<1> SUFFICES ASSUME NEW u \in Thread PROVE Known(u)'
  BY DEF LocksKnown
<1>1. CASE u # t
  <2>1. /\ pc'[u] = pc[u] /\ status'[u] = status[u] /\ idx'[u] = idx[u] /\ held'[u] = held[u]
        /\ write_set'[u] = write_set[u] /\ v1'[u] = v1[u]
    BY <1>1, OthersStay DEF LocksInd
  <2>2. ASSUME pc[u] = "unlocking"
        PROVE  tsw'[write_set[u][idx[u]].key] = tsw[write_set[u][idx[u]].key]
    <3>1. idx[u] \in First(u) .. held[u]
      BY <2>2 DEF LocksInd, Indexed, IndexedAt, TypeOK, First
    <3>2. write_set[u][idx[u]].key \in Locks(u)
      BY <3>1 DEF Locks
    <3> QED
      BY <1>1, <3>2, LockedWordStays
  <2> QED
    BY <1>0, <2>1, <2>2
<1>2. CASE u = t
  <2> USE DEF control, build, records, sets, timestamps, copies, history
  <2> DEFINE Status == {"inFlight", "aborted"}
  <2>0. /\ pc \in [Thread -> Label] /\ held \in [Thread -> Nat]
        /\ idx \in [Thread -> Nat \ {0}] /\ status \in [Thread -> Status]
        /\ write_set \in [Thread -> Seq(WriteElement)] /\ Len(write_set[t]) \in Nat
        /\ v1 \in [Thread -> TsWord]
        /\ Known(t) /\ IndexedAt(t) /\ AbortsTake
    <3>1. /\ pc \in [Thread -> Label] /\ held \in [Thread -> Nat]
          /\ idx \in [Thread -> Nat \ {0}] /\ status \in [Thread -> Status]
          /\ write_set \in [Thread -> Seq(WriteElement)] /\ v1 \in [Thread -> TsWord]
      BY DEF LocksInd, TypeOK
    <3>2. Len(write_set[t]) \in Nat
      BY <3>1
    <3>3. Known(t) /\ IndexedAt(t)
      BY <1>0 DEF LocksInd, Indexed
    <3> HIDE DEF Known, Status
    <3> QED
      BY <3>1, <3>2, <3>3
  <2> HIDE DEF Status
  <2> SUFFICES Known(t)'
    BY <1>2
  <2>1. CASE NextProcedure(t) \/ leave(t) \/ begin(t) \/ abort(t) \/ commit(t) \/ finish(t)
    BY <2>0, <2>1 DEF NextProcedure, leave, begin, abort, commit, finish, Goto
  <2>2. CASE readLocal(t) \/ readCopy(t) \/ readDone(t)
    BY <2>0, <2>2 DEF readLocal, readCopy, readDone, Goto
  <2>3. CASE readLoad(t) \/ readAgain(t)
    BY <2>0, <2>3 DEF readLoad, readAgain, Inspects, Goto
  <2>4. CASE write(t)
    BY <2>0, <2>4 DEF write
  <2>5. CASE validationPhase(t)
    BY <2>0, <2>5 DEF validationPhase, Goto, IndexedAt
  <2>6. CASE lockRecord(t)
    <3>1. pc'[t] = "lock" /\ idx'[t] = idx[t] + 1 /\ held'[t] = held[t] + 1 /\ idx[t] = held[t] + 1
      BY <2>0, <2>6 DEF lockRecord
    <3> QED
      BY <2>0, <3>1
  <2>7. CASE lockBusy(t)
    <3>1. locking = "no_wait"
      <4>1. locking \in Locking /\ locking # "wait" /\ locking # "no_wait_of_tictoc"
        BY <2>0, <2>7 DEF lockBusy, AbortsTake, LocksInd, TypeOK
      <4> QED
        BY <4>1 DEF Locking
    <3>2. pc'[t] = "unlock" /\ status'[t] = "aborted"
      BY <2>0, <2>7, <3>1 DEF lockBusy, Goto
    <3> QED
      BY <3>2
  <2>8. CASE locked(t)
    BY <2>0, <2>8 DEF locked, Goto, IndexedAt
  <2>9. CASE unlockLoad(t) \/ unlockStore(t) \/ unlocked(t)
    BY <2>0, <2>9 DEF unlockLoad, unlockStore, unlocked, Goto
  <2>10. CASE pass(t) \/ extend(t) \/ seeNewer(t) \/ relock(t)
    BY <2>0, <2>10 DEF pass, extend, seeNewer, relock, Verifies, Goto
  <2>11. ASSUME pc[t] \in {"validate", "history"}, Reject(t)
         PROVE  Known(t)'
    <3>1. pc'[t] = "unlock" /\ status'[t] = "aborted"
      BY <2>0, <2>11 DEF Reject, Goto
    <3> QED
      BY <3>1
  <2>12. CASE fail(t)
    BY <2>0, <2>11, <2>12 DEF fail, Verifies
  <2>13. CASE seeHistory(t)
    <3>1. CASE Reject(t)
      BY <2>0, <2>11, <2>13, <3>1 DEF seeHistory
    <3>2. CASE ~Reject(t)
      BY <2>0, <2>13, <3>2 DEF seeHistory, Goto
    <3> QED
      BY <3>1, <3>2
  <2>14. CASE installValue(t) \/ installWord(t)
    BY <2>0, <2>14 DEF installValue, installWord, Goto
  <2> QED
    BY <2>1, <2>2, <2>3, <2>4, <2>5, <2>6, <2>7, <2>8, <2>9, <2>10, <2>12, <2>13, <2>14
       DEF worker
<1> QED
  BY <1>1, <1>2

\* No step changes the build.
LEMMA BuildStays ==
    ASSUME [Next]_vars
    PROVE  UNCHANGED build
<1> USE DEF control, build
<1>1. CASE UNCHANGED vars \/ Joined \/ Quit
  BY <1>1 DEF vars, Joined, Quit
<1>2. ASSUME NEW t \in Thread, worker(t)
      PROVE  UNCHANGED build
  <2>1. CASE NextProcedure(t) \/ leave(t) \/ begin(t) \/ readLocal(t) \/ readLoad(t) \/ readCopy(t)
               \/ readDone(t) \/ readAgain(t) \/ write(t)
    BY <2>1 DEF NextProcedure, leave, begin, readLocal, readLoad, readCopy, readDone, readAgain, write
  <2>2. CASE validationPhase(t) \/ lockRecord(t) \/ lockBusy(t) \/ locked(t) \/ unlockLoad(t)
               \/ unlockStore(t) \/ unlocked(t)
    BY <2>2 DEF validationPhase, lockRecord, lockBusy, locked, unlockLoad, unlockStore, unlocked
  <2>3. CASE pass(t) \/ extend(t) \/ fail(t) \/ seeNewer(t) \/ seeHistory(t) \/ relock(t)
    BY <2>3 DEF pass, extend, fail, seeNewer, seeHistory, relock
  <2>4. CASE abort(t) \/ commit(t) \/ installWord(t) \/ finish(t)
    BY <2>4 DEF abort, commit, installWord, finish
  <2>5. CASE installValue(t)
    BY <2>5 DEF installValue
  <2> QED
    BY <1>2, <2>1, <2>2, <2>3, <2>4, <2>5 DEF worker
<1> QED
  BY <1>1, <1>2 DEF Next

LEMMA LocksInvariance == Spec => []LocksInd
<1>1. Init => LocksKnown /\ LocksOwned
  <2> SUFFICES ASSUME Init PROVE LocksKnown /\ LocksOwned
    OBVIOUS
  <2>1. LocksKnown
    BY DEF Init, LocksKnown
  <2>2. \A t \in Thread : Locks(t) = {}
    BY DEF Init, Locks, First
  <2>3. \A k \in Key : ~ tsw[k].lock
    BY DEF Init, Unlocked
  <2> QED
    BY <2>1, <2>2, <2>3 DEF LocksOwned
<1>2. LocksInd /\ (TypeOK /\ Indexed)' /\ [Next]_vars => LocksInd'
  <2> SUFFICES ASSUME LocksInd, (TypeOK /\ Indexed)', [Next]_vars PROVE LocksInd'
    OBVIOUS
  <2>1. AbortsTake' = AbortsTake
    BY BuildStays DEF build, AbortsTake
  <2>2. CASE ~AbortsTake
    BY <2>1, <2>2 DEF LocksInd, LocksKnown, LocksOwned
  <2>3. CASE AbortsTake
    <3>1. CASE UNCHANGED vars \/ Joined \/ Quit
      <4>1. UNCHANGED << locking, tsw, pc, status, idx, held, write_set, v1 >>
        BY <3>1 DEF vars, Joined, Quit, sets, history, copies, timestamps, records, build
      <4>2. \A t \in Thread : Locks(t)' = Locks(t)
        BY <4>1 DEF Locks, First
      <4>3. LocksOwned'
        BY <4>1, <4>2 DEF LocksInd, LocksOwned, AbortsTake
      <4>4. LocksKnown'
        BY <4>1 DEF LocksInd, LocksKnown, AbortsTake
      <4> QED
        BY <4>3, <4>4 DEF LocksInd
    <3>2. ASSUME NEW t \in Thread, worker(t)
          PROVE  LocksInd'
      BY <2>3, <3>2, LocksOwnedStep, LocksKnownStep DEF LocksInd
    <3> QED
      BY <3>1, <3>2 DEF Next
  <2> QED
    BY <2>2, <2>3
<1> QED
  BY <1>1, <1>2, TypesInvariance, PTL DEF Spec, LocksInd

\* A record is locked exactly while one worker has locked it, through partial
\* locking, partial release and installation, in the builds in which aborts take
\* effect.
THEOREM LocksAreOwned == Spec => []LocksOwned
BY LocksInvariance, PTL DEF LocksInd

-----------------------------------------------------------------------------
(* The history *)

LEMMA IdsDiffer ==
    ASSUME NEW t \in Thread, NEW u \in Thread, t # u
    PROVE  Id(t) # Id(u)
BY DEF Id

\* A commit adds a transaction, installValue a version.
LEMMA HistoryGrows ==
    ASSUME TypeOK, NEW t \in Thread, worker(t)
    PROVE  /\ \/ UNCHANGED committed
              \/ /\ commit(t)
                 /\ committed' = committed \cup
                      {[id |-> Id(t), ts |-> commit_ts[t],
                        reads |-> {[key |-> r.key, ver |-> r.val] : r \in ToSet(read_set[t])}]}
           /\ UNCHANGED << order, val >> \/ installValue(t)
           /\ UNCHANGED txn \/ finish(t)
<1> USE DEF control, build, records, sets, timestamps, copies, history
<1>1. CASE NextProcedure(t) \/ leave(t) \/ begin(t) \/ readLocal(t) \/ readLoad(t) \/ readCopy(t)
  BY <1>1 DEF NextProcedure, leave, begin, readLocal, readLoad, readCopy
<1>2. CASE readDone(t) \/ readAgain(t) \/ write(t) \/ validationPhase(t)
  BY <1>2 DEF readDone, readAgain, write, validationPhase
<1>3. CASE lockRecord(t) \/ lockBusy(t) \/ locked(t) \/ unlockLoad(t) \/ unlockStore(t) \/ unlocked(t)
  BY <1>3 DEF lockRecord, lockBusy, locked, unlockLoad, unlockStore, unlocked
<1>4. CASE pass(t) \/ extend(t) \/ fail(t) \/ seeNewer(t) \/ seeHistory(t) \/ relock(t)
  BY <1>4 DEF pass, extend, fail, seeNewer, seeHistory, relock
<1>5. CASE abort(t) \/ installWord(t) \/ finish(t)
  BY <1>5 DEF abort, installWord, finish
<1>6. CASE commit(t)
  BY <1>6 DEF commit
<1>7. CASE installValue(t)
  BY <1>7 DEF installValue
<1> QED
  BY <1>1, <1>2, <1>3, <1>4, <1>5, <1>6, <1>7 DEF worker

\* The versions there are keep their places.
LEMMA VersionsKept ==
    ASSUME TypeOK, Indexed, NEW t \in Thread, worker(t), NEW k \in Key
    PROVE  /\ order[k] \in Seq(Txn) /\ Len(order[k]) \in Nat
           /\ DOMAIN order[k] = 1 .. Len(order[k])
           /\ \/ order'[k] = order[k] /\ val'[k] = val[k]
              \/ /\ installValue(t) /\ k = WriteKey(t)
                 /\ Len(order'[k]) = Len(order[k]) + 1
                 /\ DOMAIN order'[k] = 1 .. Len(order[k]) + 1
                 /\ order'[k][Len(order[k]) + 1] = Id(t)
                 /\ val'[k] = Id(t)
           /\ \A i \in DOMAIN order[k] : i \in DOMAIN order'[k] /\ order'[k][i] = order[k][i]
           /\ \A p \in 0 .. Len(order[k]) :
                 p \in 0 .. Len(order'[k]) /\ VersionAt(k, p)' = VersionAt(k, p)
<1>1. order[k] \in Seq(Txn) /\ order \in [Key -> Seq(Txn)] /\ val \in [Key -> Version]
  BY DEF TypeOK
<1>2. Len(order[k]) \in Nat /\ DOMAIN order[k] = 1 .. Len(order[k])
  BY <1>1
<1>3. CASE order'[k] = order[k] /\ val'[k] = val[k]
  BY <1>1, <1>2, <1>3 DEF VersionAt
<1>4. CASE ~(order'[k] = order[k] /\ val'[k] = val[k])
  <2>1. installValue(t)
    BY <1>4, HistoryGrows
  <2>2. PICK x : x = Id(t) /\ x \in Txn
    BY <2>1, IdType DEF installValue
  <2>3. /\ order' = [order EXCEPT ![WriteKey(t)] = Append(@, x)]
        /\ val' = [val EXCEPT ![WriteKey(t)] = x]
    BY <2>1, <2>2 DEF installValue, WriteKey
  <2>4. k = WriteKey(t)
    BY <1>1, <1>4, <2>3
  <2>5. order'[k] = Append(order[k], x) /\ val'[k] = x
    BY <1>1, <2>3, <2>4
  <2>6. /\ Len(order'[k]) = Len(order[k]) + 1
        /\ DOMAIN order'[k] = 1 .. Len(order[k]) + 1
        /\ order'[k][Len(order[k]) + 1] = x
        /\ \A i \in 1 .. Len(order[k]) : order'[k][i] = order[k][i]
    <3> HIDE DEF Txn
    <3> QED
      BY <1>1, <1>2, <2>2, <2>5
  <2>7. \A i \in DOMAIN order[k] : i \in DOMAIN order'[k] /\ order'[k][i] = order[k][i]
    BY <1>2, <2>6
  <2>8. \A p \in 0 .. Len(order[k]) :
            p \in 0 .. Len(order'[k]) /\ VersionAt(k, p)' = VersionAt(k, p)
    BY <1>2, <2>6 DEF VersionAt
  <2> QED
    BY <1>1, <1>2, <2>1, <2>2, <2>4, <2>5, <2>6, <2>7, <2>8
<1> QED
  BY <1>3, <1>4

\* The transaction that a worker runs has not committed before it installs.
LEMMA FreshTxn ==
    ASSUME TypeOK, Identified, NEW t \in Thread, pc[t] \notin {"install", "publish"}
    PROVE  \A c \in committed : c.id # Id(t)
<1> SUFFICES ASSUME NEW c \in committed, c.id = Id(t) PROVE FALSE
  OBVIOUS
<1>1. txn[t] \in Nat
  BY TicTocAssumption DEF TypeOK
<1>2. c.id[1] = t /\ c.id[2] = txn[t]
  BY DEF Id
<1>3. c.id[2] < txn[t]
  BY <1>2 DEF Identified
<1> QED
  BY <1>1, <1>2, <1>3

\* What the worker that writes back has committed.
LEMMA OwnCommit ==
    ASSUME Identified, NEW t \in Thread, pc[t] \in {"install", "publish"}, NEW c \in committed,
           c.id = Id(t)
    PROVE  c.ts = commit_ts[t]
BY DEF Identified

\* A record that is written back is locked by who writes.
LEMMA WriterLocks ==
    ASSUME LocksInd, AbortsTake, NEW t \in Thread,
           pc[t] = "publish" \/ (pc[t] = "install" /\ idx[t] <= Len(write_set[t]))
    PROVE  WriteKey(t) \in Locks(t) /\ WriteKey(t) \in Key /\ tsw[WriteKey(t)].lock
<1>1. /\ First(t) = idx[t] /\ held[t] = Len(write_set[t]) /\ idx[t] <= Len(write_set[t])
      /\ idx[t] \in Nat /\ held[t] \in Nat
  BY DEF First, LocksInd, LocksKnown, Indexed, IndexedAt, TypeOK
<1>2. idx[t] \in First(t) .. held[t]
  BY <1>1
<1>3. WriteKey(t) \in Locks(t)
  BY <1>2 DEF Locks, WriteKey
<1>4. WriteKey(t) \in Key
  BY <1>3, LockedKeys DEF LocksInd
<1> QED
  BY <1>3, <1>4 DEF LocksInd, LocksOwned

\* One worker at a time has a record locked.
LEMMA OneLocks ==
    ASSUME LocksInd, AbortsTake, NEW t \in Thread, NEW u \in Thread, NEW k \in Locks(t),
           k \in Locks(u)
    PROVE  t = u
BY DEF LocksInd, LocksOwned

\* The end of a version's validity only moves on, and unless it moves on the version
\* stays what it was.
LEMMA WordsRise ==
    ASSUME LocksInd, Plain, TimestampsRise, NEW t \in Thread, worker(t), NEW k \in Key
    PROVE  /\ tsw[k] \in TsWord /\ tsw'[k] \in TsWord
           /\ tsw[k].wts <= tsw'[k].wts
           /\ \/ rts(tsw[k]) < rts(tsw'[k])
              \/ /\ tsw'[k].wts = tsw[k].wts /\ tsw'[k].delta = tsw[k].delta
                 /\ rts(tsw'[k]) = rts(tsw[k])
                 /\ ~(installWord(t) /\ k = WriteKey(t))
           /\ installWord(t) /\ k = WriteKey(t) =>
                 tsw'[k].wts = commit_ts[t] /\ rts(tsw'[k]) = commit_ts[t]
<1>0. tsw \in [Key -> TsWord] /\ TypeOK /\ AbortsTake /\ tsw[k] \in TsWord /\ commit_ts[t] \in Nat
  BY DEF LocksInd, Plain, TypeOK
<1>1. tsw'[k] \in TsWord
  <2>1. TypeOK'
    BY TypesStep DEF LocksInd, Next
  <2> QED
    BY <2>1 DEF TypeOK
<1>2. ASSUME tsw'[k].wts = tsw[k].wts, tsw'[k].delta = tsw[k].delta
      PROVE  tsw[k].wts <= tsw'[k].wts /\ rts(tsw'[k]) = rts(tsw[k])
  BY <1>0, <1>2, RtsType DEF rts
<1>3. CASE installWord(t) /\ k = WriteKey(t)
  <2> DEFINE w == [wts |-> commit_ts[t], delta |-> 0, lock |-> FALSE]
  <2>1. tsw' = [tsw EXCEPT ![k] = w]
    BY <1>3 DEF installWord, WriteKey
  <2>2. tsw'[k] = w
    <3> HIDE DEF w
    <3> QED
      BY <1>0, <2>1
  <2>3. tsw'[k].wts = commit_ts[t] /\ rts(tsw'[k]) = commit_ts[t]
    BY <1>0, <2>2 DEF rts
  <2>4. k \in Locks(t)
    BY <1>0, <1>3, WriterLocks DEF installWord
  <2>5. rts(tsw[k]) < commit_ts[t]
    BY <1>3, <2>4 DEF TimestampsRise, installWord
  <2>6. tsw[k].wts <= rts(tsw[k]) /\ tsw[k].wts \in Nat /\ rts(tsw[k]) \in Nat
    BY <1>0, RtsType
  <2> QED
    BY <1>0, <1>1, <1>3, <2>3, <2>5, <2>6
<1>4. CASE ~(installWord(t) /\ k = WriteKey(t))
  <2>1. CASE tsw'[k].wts = tsw[k].wts /\ tsw'[k].delta = tsw[k].delta
    BY <1>0, <1>1, <1>2, <1>4, <2>1
  <2>2. CASE extend(t) /\ k = Element(t).key
    <3> DEFINE w == Extended(tsw[k], commit_ts[t])
    <3>1. /\ tsw' = [tsw EXCEPT ![k] = w] /\ rts(tsw[k]) < commit_ts[t] /\ rts(w) = commit_ts[t]
          /\ tsw[k].wts <= w.wts
      BY <1>0, <2>2, ExtendsUnlocked
    <3>2. tsw'[k] = w
      <4> HIDE DEF w
      <4> QED
        BY <1>0, <3>1
    <3> HIDE DEF w
    <3> QED
      BY <1>0, <1>1, <1>4, <3>1, <3>2
  <2>3. CASE lockRecord(t)
    <3>1. PICK j \in Key : tsw' = [tsw EXCEPT ![j] = [tsw[j] EXCEPT !.lock = TRUE]]
      BY <1>0, <2>3, LockRecordLocks
    <3>2. \A w \in TsWord : [w EXCEPT !.lock = TRUE].wts = w.wts /\ [w EXCEPT !.lock = TRUE].delta = w.delta
      BY DEF TsWord
    <3>3. tsw'[k].wts = tsw[k].wts /\ tsw'[k].delta = tsw[k].delta
      BY <1>0, <3>1, <3>2
    <3> QED
      BY <2>1, <3>3
  <2>4. CASE unlockStore(t)
    <3>1. tsw' = [tsw EXCEPT ![WriteKey(t)] = [tsw[WriteKey(t)] EXCEPT !.lock = FALSE]]
      <4>1. v1[t] = tsw[WriteKey(t)]
        BY <1>0, <2>4 DEF unlockStore, LocksInd, LocksKnown, WriteKey
      <4> QED
        BY <2>4, <4>1 DEF unlockStore, WriteKey
    <3>2. \A w \in TsWord : [w EXCEPT !.lock = FALSE].wts = w.wts /\ [w EXCEPT !.lock = FALSE].delta = w.delta
      BY DEF TsWord
    <3>3. tsw'[k].wts = tsw[k].wts /\ tsw'[k].delta = tsw[k].delta
      BY <1>0, <3>1, <3>2
    <3> QED
      BY <2>1, <3>3
  <2>5. CASE installWord(t) /\ k # WriteKey(t)
    <3>1. tsw'[k] = tsw[k]
      BY <1>0, <2>5 DEF installWord, WriteKey
    <3> QED
      BY <2>1, <3>1
  <2>6. CASE extend(t) /\ k # Element(t).key
    <3>1. tsw'[k] = tsw[k]
      BY <1>0, <2>6 DEF extend
    <3> QED
      BY <2>1, <3>1
  <2>7. CASE UNCHANGED tsw
    BY <2>1, <2>7
  <2> QED
    BY <1>0, <1>4, <2>2, <2>3, <2>4, <2>5, <2>6, <2>7, QuietLocks
<1> QED
  BY <1>3, <1>4

\* Only commit enters the write phase, and only finish leaves it; meanwhile the
\* commit timestamp stays.
LEMMA WritePhase ==
    ASSUME LocksInd, Plain, Identified, NEW t \in Thread, worker(t)
    PROVE  /\ pc'[t] # "history"
           /\ pc'[t] \in {"install", "publish"} =>
                  /\ commit_ts'[t] = commit_ts[t] /\ txn'[t] = txn[t]
                  /\ pc[t] \in {"install", "publish"} \/ commit(t)
           /\ pc[t] \in {"install", "publish"} =>
                  pc'[t] \in {"install", "publish"} \/ (finish(t) /\ txn'[t] = txn[t] + 1)
<1> USE DEF control, build, records, sets, timestamps, copies, history
<1>0. /\ pc \in [Thread -> Label] /\ commit_ts \in [Thread -> Nat] /\ txn \in [Thread -> 0 .. MaxTxn]
      /\ pc[t] \notin {"history", "prehistory"} /\ ~timestamp_history
  BY DEF LocksInd, TypeOK, LocksKnown, Plain, Identified
<1>1. CASE NextProcedure(t) \/ leave(t) \/ begin(t) \/ abort(t)
  BY <1>0, <1>1 DEF NextProcedure, leave, begin, abort, Goto
<1>2. CASE readLocal(t) \/ readCopy(t) \/ readDone(t)
  BY <1>0, <1>2 DEF readLocal, readCopy, readDone, Goto
<1>3. CASE readLoad(t) \/ readAgain(t)
  BY <1>0, <1>3 DEF readLoad, readAgain, Inspects, Goto
<1>4. CASE write(t) \/ validationPhase(t)
  BY <1>0, <1>4 DEF write, validationPhase, Goto
<1>5. CASE lockRecord(t) \/ lockBusy(t) \/ locked(t)
  BY <1>0, <1>5 DEF lockRecord, lockBusy, locked, Goto
<1>6. CASE unlockLoad(t) \/ unlockStore(t) \/ unlocked(t)
  BY <1>0, <1>6 DEF unlockLoad, unlockStore, unlocked, Goto
<1>7. CASE pass(t) \/ extend(t) \/ seeNewer(t) \/ seeHistory(t) \/ relock(t)
  BY <1>0, <1>7 DEF pass, extend, seeNewer, seeHistory, relock, Verifies, Goto
<1>8. CASE fail(t)
  BY <1>0, <1>8 DEF fail, Reject, Verifies, Goto
<1>9. CASE commit(t) \/ installWord(t) \/ finish(t)
  BY <1>0, <1>9 DEF commit, installWord, finish, Goto
<1>10. CASE installValue(t)
  BY <1>0, <1>10 DEF installValue, Goto
<1> QED
  BY <1>1, <1>2, <1>3, <1>4, <1>5, <1>6, <1>7, <1>8, <1>9, <1>10 DEF worker

LEMMA IdentifiedStep ==
    ASSUME LocksInd, Plain, Identified, NEW t \in Thread, worker(t)
    PROVE  Identified'
<1>0. TypeOK /\ Indexed /\ AbortsTake /\ TypeOK' /\ txn \in [Thread -> 0 .. MaxTxn] /\ MaxTxn \in Nat
  BY TypesStep, TicTocAssumption DEF LocksInd, Plain, Next, TypeOK
<1>1. /\ \A u \in Thread : u # t => pc'[u] = pc[u] /\ txn'[u] = txn[u] /\ commit_ts'[u] = commit_ts[u]
      /\ UNCHANGED txn \/ (finish(t) /\ txn'[t] = txn[t] + 1)
      /\ \A u \in Thread : u # t => Id(u)' = Id(u)
  <2>1. \A u \in Thread : u # t => pc'[u] = pc[u] /\ txn'[u] = txn[u] /\ commit_ts'[u] = commit_ts[u]
    BY <1>0, OthersStay
  <2>2. UNCHANGED txn \/ (finish(t) /\ txn'[t] = txn[t] + 1)
    BY <1>0, HistoryGrows DEF finish
  <2> QED
    BY <2>1, <2>2 DEF Id
<1>2. committed \subseteq committed'
  BY <1>0, HistoryGrows
<1>3. CASE commit(t)
  <2>1. PICK d : /\ committed' = committed \cup {d} /\ d.id = Id(t) /\ d.ts = commit_ts[t]
    <3> DEFINE R == {[key |-> r.key, ver |-> r.val] : r \in ToSet(read_set[t])}
               c == [id |-> Id(t), ts |-> commit_ts[t], reads |-> R]
    <3>1. committed' = committed \cup {c}
      BY <1>3 DEF commit
    <3>2. c.id = Id(t) /\ c.ts = commit_ts[t]
      OBVIOUS
    <3> HIDE DEF c
    <3> QED
      BY <3>1, <3>2
  <2>2. /\ pc[t] = "validate" /\ pc'[t] = "install" /\ UNCHANGED << txn, commit_ts, order, val >>
    <3>1. pc \in [Thread -> Label]
      BY <1>0 DEF TypeOK
    <3> QED
      BY <1>3, <3>1 DEF commit, Goto, timestamps, records
  <2>3. \A c \in committed : c.id # d.id
    BY <1>0, <2>1, <2>2, FreshTxn
  <2>4. \A c, e \in committed' : c.id = e.id => c = e
    BY <2>1, <2>3 DEF Identified
  <2>5. \A u \in Thread : Id(u)' = Id(u)
    BY <2>2 DEF Id
  <2>6. \A c \in committed' :
            \/ c.id[2] < txn'[c.id[1]]
            \/ c.id = Id(c.id[1])' /\ pc'[c.id[1]] \in {"install", "publish"}
    <3> SUFFICES ASSUME NEW c \in committed'
                 PROVE  \/ c.id[2] < txn'[c.id[1]]
                        \/ c.id = Id(c.id[1])' /\ pc'[c.id[1]] \in {"install", "publish"}
      OBVIOUS
    <3> DEFINE u == c.id[1]
    <3>0. u \in Thread /\ Id(u)' = Id(u)
      <4>1. c.id \in Txn
        BY <1>0 DEF TypeOK, Commitment
      <4>2. u \in Thread
        BY <4>1 DEF Txn
      <4> QED
        BY <2>5, <4>2
    <3>1. CASE c \in committed
      <4>1. c.id[2] < txn[u] \/ (c.id = Id(u) /\ pc[u] \in {"install", "publish"})
        BY <3>1 DEF Identified
      <4>2. pc[u] \in {"install", "publish"} => pc'[u] = pc[u]
        BY <1>1, <2>2, <3>0
      <4>3. Id(c.id[1])' = Id(c.id[1])
        BY <2>2 DEF Id
      <4> QED
        BY <2>2, <4>1, <4>2, <4>3
    <3>2. CASE c = d
      <4>1. u = t
        BY <2>1, <3>2 DEF Id
      <4>3. Id(c.id[1])' = Id(c.id[1])
        BY <2>2 DEF Id
      <4> QED
        BY <2>1, <2>2, <3>2, <4>1, <4>3
    <3> QED
      BY <2>1, <3>1, <3>2
  <2>7. \A u \in Thread : pc'[u] \in {"install", "publish"} =>
            \E c \in committed' : c.id = Id(u)' /\ c.ts = commit_ts'[u]
    <3> SUFFICES ASSUME NEW u \in Thread, pc'[u] \in {"install", "publish"}
                 PROVE  \E c \in committed' : c.id = Id(u)' /\ c.ts = commit_ts'[u]
      OBVIOUS
    <3>1. CASE u = t
      BY <2>1, <2>2, <2>5, <3>1
    <3>2. CASE u # t
      BY <1>1, <1>2, <2>2, <2>5, <3>2 DEF Identified
    <3> QED
      BY <3>1, <3>2
  <2>8. \A k \in Key : \A i \in DOMAIN order'[k] : \E c \in committed' : c.id = order'[k][i]
    BY <1>2, <2>2 DEF Identified
  <2>9. \A k \in Key : val'[k] = VersionAt(k, Len(order[k]))'
    BY <2>2 DEF Identified, VersionAt
  <2>10. \A u \in Thread : pc'[u] \notin {"history"}
    BY <1>1, WritePhase DEF Identified
  <2> QED
    BY <2>4, <2>6, <2>7, <2>8, <2>9, <2>10 DEF Identified
<1>4. CASE ~commit(t)
  <2>1. UNCHANGED committed
    BY <1>0, <1>4, HistoryGrows
  <2>2. \A c, e \in committed' : c.id = e.id => c = e
    BY <2>1 DEF Identified
  <2>3. \A c \in committed' :
            \/ c.id[2] < txn'[c.id[1]]
            \/ c.id = Id(c.id[1])' /\ pc'[c.id[1]] \in {"install", "publish"}
    <3> SUFFICES ASSUME NEW c \in committed
                 PROVE  \/ c.id[2] < txn'[c.id[1]]
                        \/ c.id = Id(c.id[1])' /\ pc'[c.id[1]] \in {"install", "publish"}
      BY <2>1
    <3>0. PICK u \in Thread : u = c.id[1] /\ c.id[2] \in Nat
      <4>1. c.id \in Txn
        BY <1>0 DEF TypeOK, Commitment
      <4> QED
        BY <1>0, <4>1 DEF Txn
    <3>1. c.id[2] < txn[u] \/ (c.id = Id(u) /\ pc[u] \in {"install", "publish"})
      BY <3>0 DEF Identified
    <3>2. txn[u] \in Nat /\ txn[u] <= txn'[u]
      BY <1>0, <1>1
    <3>3. CASE c.id[2] < txn[u]
      <4>1. txn'[u] \in Nat
        BY <1>0, <1>1, <3>2
      <4> QED
        BY <3>0, <3>2, <3>3, <4>1
    <3>4. CASE c.id = Id(u) /\ pc[u] \in {"install", "publish"}
      <4>1. CASE pc'[u] \in {"install", "publish"} /\ UNCHANGED txn
        <5>1. Id(u)' = Id(u)
          BY <4>1 DEF Id
        <5>2. Id(c.id[1])' = << c.id[1], txn'[c.id[1]] >> /\ Id(u)' = << u, txn'[u] >>
          BY DEF Id
        <5> QED
          BY <3>0, <3>4, <4>1, <5>1, <5>2
      <4>2. CASE ~(pc'[u] \in {"install", "publish"} /\ UNCHANGED txn)
        <5>1. CASE u = t
          <6>1. finish(t) /\ txn'[t] = txn[t] + 1
            BY <1>1, <3>4, <4>2, <5>1, WritePhase
          <6>2. c.id[2] = txn[t]
            BY <3>4, <5>1 DEF Id
          <6> QED
            BY <3>0, <3>2, <5>1, <6>1, <6>2
        <5>2. CASE u # t
          <6>1. Id(u)' = Id(u) /\ pc'[u] = pc[u]
            BY <1>1, <5>2
          <6>2. Id(c.id[1])' = << c.id[1], txn'[c.id[1]] >> /\ Id(u)' = << u, txn'[u] >>
            BY DEF Id
          <6> QED
            BY <3>0, <3>4, <6>1, <6>2
        <5> QED
          BY <5>1, <5>2
      <4> QED
        BY <4>1, <4>2
    <3> QED
      BY <3>1, <3>3, <3>4
  <2>4. \A u \in Thread : pc'[u] \in {"install", "publish"} =>
            \E c \in committed' : c.id = Id(u)' /\ c.ts = commit_ts'[u]
    <3> SUFFICES ASSUME NEW u \in Thread, pc'[u] \in {"install", "publish"}
                 PROVE  \E c \in committed' : c.id = Id(u)' /\ c.ts = commit_ts'[u]
      OBVIOUS
    <3>1. pc[u] \in {"install", "publish"} /\ commit_ts'[u] = commit_ts[u] /\ txn'[u] = txn[u]
      BY <1>1, <1>4, WritePhase
    <3>2. Id(u)' = Id(u)
      BY <3>1 DEF Id
    <3> QED
      BY <2>1, <3>1, <3>2 DEF Identified
  <2>5. \A k \in Key : \A i \in DOMAIN order'[k] : \E c \in committed' : c.id = order'[k][i]
    <3> SUFFICES ASSUME NEW k \in Key, NEW i \in DOMAIN order'[k]
                 PROVE  \E c \in committed : c.id = order'[k][i]
      BY <2>1
    <3>1. CASE order'[k] = order[k]
      BY <3>1 DEF Identified
    <3>2. CASE order'[k] # order[k]
      <4>1. /\ installValue(t) /\ order'[k][Len(order[k]) + 1] = Id(t)
            /\ i \in 1 .. Len(order[k]) + 1
            /\ DOMAIN order[k] = 1 .. Len(order[k]) /\ Len(order[k]) \in Nat
            /\ \A j \in DOMAIN order[k] : order'[k][j] = order[k][j]
        BY <1>0, <3>2, VersionsKept
      <4>2. i \in DOMAIN order[k] \/ i = Len(order[k]) + 1
        BY <4>1
      <4>3. \E c \in committed : c.id = Id(t)
        BY <4>1 DEF installValue, Identified
      <4> QED
        BY <4>1, <4>2, <4>3 DEF Identified
    <3> QED
      BY <3>1, <3>2
  <2>6. \A k \in Key : val'[k] = VersionAt(k, Len(order[k]))'
    <3> SUFFICES ASSUME NEW k \in Key PROVE val'[k] = VersionAt(k, Len(order[k]))'
      OBVIOUS
    <3>1. CASE order'[k] = order[k] /\ val'[k] = val[k]
      BY <3>1 DEF Identified, VersionAt
    <3>2. CASE ~(order'[k] = order[k] /\ val'[k] = val[k])
      <4>1. /\ order'[k][Len(order[k]) + 1] = Id(t) /\ val'[k] = Id(t)
            /\ Len(order'[k]) = Len(order[k]) + 1 /\ Len(order[k]) \in Nat
        BY <1>0, <3>2, VersionsKept
      <4> QED
        BY <4>1 DEF VersionAt
    <3> QED
      BY <3>1, <3>2
  <2>7. \A u \in Thread : pc'[u] \notin {"history"}
    BY <1>1, WritePhase DEF Identified
  <2> QED
    BY <2>2, <2>3, <2>4, <2>5, <2>6, <2>7 DEF Identified
<1> QED
  BY <1>3, <1>4

-----------------------------------------------------------------------------
(* Timestamps rise *)

\* A step of the plain builds, with what is known before it.
PlainStep(t) == LocksInd /\ Plain /\ Identified /\ TimestampsRise /\ worker(t)

\* Whose versions there are committed before this step.
LEMMA OldCommits ==
    ASSUME LocksInd, Plain, Identified, NEW t \in Thread, worker(t), NEW k \in Key,
           NEW i \in DOMAIN order[k], NEW d \in committed', d.id = order[k][i]
    PROVE  d \in committed
<1> SUFFICES ASSUME d \notin committed PROVE FALSE
  OBVIOUS
<1>1. commit(t) /\ d.id = Id(t)
  <2> DEFINE R == {[key |-> r.key, ver |-> r.val] : r \in ToSet(read_set[t])}
             c == [id |-> Id(t), ts |-> commit_ts[t], reads |-> R]
  <2>1. UNCHANGED committed \/ (commit(t) /\ committed' = committed \cup {c})
    BY HistoryGrows DEF LocksInd
  <2>2. c.id = Id(t)
    OBVIOUS
  <2> HIDE DEF c
  <2> QED
    BY <2>1, <2>2
<1>2. pc[t] = "validate"
  BY <1>1 DEF commit
<1>3. PICK c \in committed : c.id = order[k][i]
  BY DEF Identified
<1> QED
  BY <1>1, <1>2, <1>3, FreshTxn DEF LocksInd

\* While a worker has locked something, its commit timestamp does not fall, and it
\* releases or goes on releasing.
LEMMA TimestampStays ==
    ASSUME LocksInd, Plain, NEW t \in Thread, worker(t), ~lockRecord(t), Locks(t) # {}
    PROVE  /\ commit_ts[t] <= commit_ts'[t]
           /\ pc[t] \in {"unlock", "unlocking"} => pc'[t] \in {"unlock", "unlocking"}
<1> USE DEF control, build, records, sets, timestamps, copies, history
<1>0. /\ pc \in [Thread -> Label] /\ commit_ts \in [Thread -> Nat] /\ commit_ts[t] \in Nat
      /\ held[t] \in Nat /\ ~(held[t] < First(t))
  BY LockedKeys, NoLocks DEF LocksInd, TypeOK
<1>1. CASE NextProcedure(t) \/ leave(t) \/ readLocal(t) \/ readCopy(t)
  BY <1>0, <1>1 DEF NextProcedure, leave, readLocal, readCopy, Goto
<1>2. CASE begin(t)
  BY <1>0, <1>2 DEF begin, LocksInd, Indexed, IndexedAt, First
<1>3. CASE readLoad(t) \/ readAgain(t)
  BY <1>0, <1>3 DEF readLoad, readAgain, Inspects, Goto
<1>4. CASE readDone(t) \/ write(t) \/ validationPhase(t)
  BY <1>0, <1>4 DEF readDone, write, validationPhase, Goto
<1>5. CASE lockBusy(t) \/ unlockLoad(t) \/ unlockStore(t)
  BY <1>0, <1>5 DEF lockBusy, unlockLoad, unlockStore, Goto
<1>6. CASE unlocked(t)
  BY <1>0, <1>6 DEF unlocked, Released, First, LocksInd, TypeOK
<1>7. CASE locked(t)
  <2> DEFINE T == {commit_ts[t]} \cup {read_set[t][i].tsw.wts : i \in DOMAIN read_set[t]}
  <2>1. commit_ts[t] <= Max(T)
    BY LargestFound DEF LocksInd
  <2>2. commit_ts' = [commit_ts EXCEPT ![t] = Max(T)] /\ pc[t] = "lock"
    BY <1>7 DEF locked
  <2> HIDE DEF T
  <2> QED
    BY <1>0, <2>1, <2>2
<1>8. CASE pass(t) \/ extend(t) \/ seeNewer(t) \/ seeHistory(t) \/ relock(t)
  BY <1>0, <1>8 DEF pass, extend, seeNewer, seeHistory, relock, Verifies, Goto
<1>9. CASE fail(t)
  BY <1>0, <1>9 DEF fail, Verifies
<1>10. CASE abort(t) \/ commit(t) \/ installWord(t) \/ finish(t)
  BY <1>0, <1>10 DEF abort, commit, installWord, finish
<1>11. CASE installValue(t)
  BY <1>0, <1>11 DEF installValue
<1> QED
  BY <1>1, <1>2, <1>3, <1>4, <1>5, <1>6, <1>7, <1>8, <1>9, <1>10, <1>11 DEF worker

\* A commit timestamp is beyond the validity of what is to be overwritten.
LEMMA LocksAhead ==
    ASSUME NEW t \in Thread, PlainStep(t), NEW u \in Thread, pc'[u] \notin {"unlock", "unlocking"},
           NEW k \in Locks(u)'
    PROVE  rts(tsw'[k]) < commit_ts'[u]
<1> USE DEF PlainStep
<1>0. /\ TypeOK /\ AbortsTake /\ tsw \in [Key -> TsWord] /\ commit_ts[t] \in Nat
      /\ TypeOK' /\ commit_ts'[t] \in Nat /\ commit_ts \in [Thread -> Nat]
  <2>1. TypeOK /\ TypeOK' /\ AbortsTake
    BY TypesStep DEF LocksInd, Plain, Next
  <2>2. tsw \in [Key -> TsWord] /\ commit_ts \in [Thread -> Nat] /\ commit_ts' \in [Thread -> Nat]
    BY <2>1 DEF TypeOK
  <2> QED
    BY <2>1, <2>2
<1>1. CASE u # t
  <2>1. Locks(u)' = Locks(u) /\ pc'[u] = pc[u] /\ commit_ts'[u] = commit_ts[u]
    BY <1>0, <1>1, OthersLocks, OthersStay
  <2>2. tsw'[k] = tsw[k]
    BY <1>0, <1>1, <2>1, LockedWordStays
  <2> QED
    BY <2>1, <2>2 DEF TimestampsRise
<1>2. CASE u = t /\ lockRecord(t)
  <2>1. PICK j \in Key :
            /\ tsw' = [tsw EXCEPT ![j] = [tsw[j] EXCEPT !.lock = TRUE]]
            /\ Locks(t)' = Locks(t) \cup {j}
            /\ commit_ts'[t] = afterRts(t, tsw[j])
    <3>1. commit_ts'[t] = afterRts(t, tsw[WriteKey(t)])
      BY <1>0, <1>2 DEF lockRecord, WriteKey
    <3> QED
      BY <1>0, <1>2, <3>1, LockRecordLocks
  <2>2. rts(tsw[j]) \in Nat
    BY <1>0, RtsType
  <2>3. commit_ts[t] <= commit_ts'[t] /\ rts(tsw[j]) < commit_ts'[t]
    BY <1>0, <2>1, <2>2 DEF afterRts, Larger
  <2>4. CASE k = j
    <3>1. \A w \in TsWord : [w EXCEPT !.lock = TRUE].wts = w.wts /\ [w EXCEPT !.lock = TRUE].delta = w.delta
      BY DEF TsWord
    <3>2. tsw'[j].wts = tsw[j].wts /\ tsw'[j].delta = tsw[j].delta
      BY <1>0, <2>1, <3>1
    <3>3. rts(tsw'[j]) = rts(tsw[j])
      BY <3>2 DEF rts
    <3> QED
      BY <1>2, <2>3, <2>4, <3>3
  <2>5. CASE k # j
    <3>1. k \in Locks(t) /\ k \in Key
      BY <1>2, <2>1, <2>5, LockedKeys DEF LocksInd
    <3>2. tsw'[k] = tsw[k]
      BY <1>0, <2>1, <2>5, <3>1
    <3>3. rts(tsw[k]) < commit_ts[t]
      BY <1>2, <3>1 DEF TimestampsRise, lockRecord
    <3>4. rts(tsw[k]) \in Nat
      BY <1>0, <3>1, RtsType
    <3> QED
      BY <1>0, <1>2, <2>3, <3>2, <3>3, <3>4
  <2> QED
    BY <2>4, <2>5
<1>3. CASE u = t /\ ~lockRecord(t)
  <2>1. k \in Locks(t) /\ k \in Key /\ tsw'[k] = tsw[k]
    <3>1. CASE installWord(t) \/ unlockStore(t)
      <4>1. k \in Locks(t) /\ k # WriteKey(t)
        BY <1>0, <1>3, <3>1, ReleaseLocks
      <4>2. k \in Key
        BY <4>1, LockedKeys DEF LocksInd
      <4> QED
        BY <1>0, <3>1, <4>1, <4>2, ReleaseLocks
    <3>2. CASE ~installWord(t) /\ ~unlockStore(t)
      <4>1. k \in Locks(t) /\ (UNCHANGED tsw \/ extend(t))
        BY <1>0, <1>3, <3>2, QuietLocks
      <4>2. k \in Key /\ tsw[k].lock
        BY <1>0, <4>1, LockedKeys DEF LocksInd, LocksOwned
      <4> QED
        BY <1>0, <4>1, <4>2, ExtendsUnlocked
    <3> QED
      BY <3>1, <3>2
  <2>2. commit_ts[t] <= commit_ts'[t] /\ pc[t] \notin {"unlock", "unlocking"}
    BY <1>3, <2>1, TimestampStays
  <2>3. rts(tsw[k]) < commit_ts[t] /\ rts(tsw[k]) \in Nat
    BY <1>0, <2>1, <2>2, RtsType DEF TimestampsRise
  <2> QED
    BY <1>0, <1>3, <2>1, <2>2, <2>3
<1> QED
  BY <1>1, <1>2, <1>3

\* The versions of a record are as old as its word says, unless one is being
\* published, which is then later than the word.
LEMMA VersionsAged ==
    ASSUME LocksInd, Plain, Identified, TimestampsRise, NEW k \in Key, NEW i \in DOMAIN order[k],
           NEW c \in committed, c.id = order[k][i]
    PROVE  /\ c.ts \in Nat
           /\ \/ c.ts <= tsw[k].wts
              \/ \E u \in Thread : /\ pc[u] = "publish" /\ k = WriteKey(u) /\ c.id = Id(u)
                                   /\ k \in Locks(u) /\ c.ts = commit_ts[u]
                                   /\ rts(tsw[k]) < commit_ts[u]
<1>1. c.ts \in Nat
  BY DEF LocksInd, TypeOK, Commitment
<1>2. CASE c.ts <= tsw[k].wts
  BY <1>1, <1>2
<1>3. CASE ~(c.ts <= tsw[k].wts)
  <2>1. PICK u \in Thread : pc[u] = "publish" /\ k = WriteKey(u) /\ c.id = Id(u)
    BY <1>3 DEF TimestampsRise
  <2>2. k \in Locks(u)
    BY <2>1, WriterLocks DEF Plain
  <2>3. rts(tsw[k]) < commit_ts[u]
    BY <2>1, <2>2 DEF TimestampsRise
  <2>4. c.ts = commit_ts[u]
    BY <2>1, OwnCommit
  <2> QED
    BY <1>1, <2>1, <2>2, <2>3, <2>4
<1> QED
  BY <1>2, <1>3

\* installValue: the new version is later than every other.
LEMMA NewVersion ==
    ASSUME NEW t \in Thread, PlainStep(t), installValue(t), NEW d \in committed, d.id = Id(t)
    PROVE  /\ rts(tsw[WriteKey(t)]) < d.ts /\ d.ts = commit_ts[t] /\ WriteKey(t) \in Locks(t)
           /\ WriteKey(t) \in Key
           /\ \A i \in DOMAIN order[WriteKey(t)] : \A c \in committed :
                 c.id = order[WriteKey(t)][i] => c.ts < d.ts
<1> USE DEF PlainStep
<1>1. PICK k \in Locks(t) : k = WriteKey(t) /\ k \in Key
  BY WriterLocks DEF installValue, Plain
<1>2. d.ts = commit_ts[t] /\ d.ts \in Nat
  BY OwnCommit DEF installValue, LocksInd, TypeOK, Commitment
<1>3. rts(tsw[k]) < d.ts
  BY <1>1, <1>2 DEF TimestampsRise, installValue
<1>4. ASSUME NEW i \in DOMAIN order[k], NEW c \in committed, c.id = order[k][i]
      PROVE  c.ts < d.ts
  <2>1. tsw[k].wts <= rts(tsw[k]) /\ tsw[k].wts \in Nat /\ rts(tsw[k]) \in Nat
    BY <1>1, RtsType DEF LocksInd, TypeOK
  <2>2. CASE c.ts <= tsw[k].wts
    BY <1>1, <1>2, <1>3, <1>4, <2>1, <2>2, VersionsAged
  <2>3. CASE ~(c.ts <= tsw[k].wts)
    <3>1. PICK u \in Thread : pc[u] = "publish" /\ k \in Locks(u)
      BY <1>1, <1>4, <2>3, VersionsAged
    <3>2. u = t
      BY <1>1, <3>1, OneLocks DEF Plain
    <3> QED
      BY <3>1, <3>2 DEF installValue
  <2> QED
    BY <2>2, <2>3
<1> QED
  BY <1>1, <1>2, <1>3, <1>4

\* The steps from validation on.
LEMMA LateSteps ==
    ASSUME NEW t \in Thread, worker(t)
    PROVE  /\ pc[t] = "validate" => pass(t) \/ extend(t) \/ fail(t) \/ seeNewer(t) \/ commit(t)
           /\ pc[t] = "install" => installValue(t) \/ finish(t)
           /\ pc[t] = "publish" => installWord(t)
<1>1. pass(t) \/ extend(t) \/ fail(t) \/ seeNewer(t) => pc[t] \in {"validate", "preverify"}
  BY DEF extend, fail, pass, seeNewer, Verifies
<1>2. NextProcedure(t) \/ leave(t) \/ begin(t) \/ readLocal(t) \/ readLoad(t) \/ readCopy(t)
        \/ readDone(t) \/ readAgain(t) \/ write(t)
      => pc[t] \in {"next", "retry", "run", "copy", "check"}
  BY DEF NextProcedure, leave, begin, readLocal, readLoad, readCopy, readDone, readAgain, write
<1>3. validationPhase(t) \/ lockRecord(t) \/ lockBusy(t) \/ locked(t)
        \/ unlockLoad(t) \/ unlockStore(t) \/ unlocked(t)
      => pc[t] \in {"run", "lock", "unlock", "unlocking"}
  BY DEF validationPhase, lockRecord, lockBusy, locked, unlockLoad, unlockStore, unlocked
<1>4. /\ seeHistory(t) \/ relock(t) \/ abort(t)
           => pc[t] \in {"history", "prehistory", "preverify", "abort"}
      /\ commit(t) => pc[t] = "validate"
      /\ installValue(t) \/ finish(t) => pc[t] = "install"
      /\ installWord(t) => pc[t] = "publish"
  BY DEF seeHistory, relock, abort, commit, installValue, finish, installWord
<1> QED
  BY <1>1, <1>2, <1>3, <1>4 DEF worker

LEMMA TimestampsRiseStep ==
    ASSUME NEW t \in Thread, PlainStep(t)
    PROVE  TimestampsRise'
<1> USE DEF PlainStep
<1>0. TypeOK /\ Indexed /\ AbortsTake /\ TypeOK'
  BY TypesStep DEF LocksInd, Plain, Next
<1>1. \A u \in Thread : pc'[u] \notin {"unlock", "unlocking"} =>
          \A k \in Locks(u)' : rts(tsw'[k]) < commit_ts'[u]
  BY LocksAhead
<1>2. ASSUME NEW k \in Key, NEW j \in DOMAIN order'[k], NEW d \in committed', d.id = order'[k][j]
      PROVE  /\ \A i \in DOMAIN order'[k] : \A c \in committed' :
                   c.id = order'[k][i] /\ i < j => c.ts < d.ts
             /\ \/ d.ts <= tsw'[k].wts
                \/ \E u \in Thread : pc'[u] = "publish" /\ WriteKey(u)' = k /\ d.id = Id(u)'
  <2>1. \A i \in DOMAIN order[k] : order'[k][i] = order[k][i]
    BY <1>0, VersionsKept
  <2>2. CASE j \in DOMAIN order[k]
    <3>1. d \in committed /\ d.id = order[k][j]
      BY <1>2, <2>1, <2>2, OldCommits
    <3>2. ASSUME NEW i \in DOMAIN order'[k], NEW c \in committed', c.id = order'[k][i], i < j
          PROVE  c.ts < d.ts
      <4>1. i \in DOMAIN order[k]
        <5>1. /\ DOMAIN order[k] = 1 .. Len(order[k]) /\ Len(order[k]) \in Nat
              /\ i \in DOMAIN order[k] \/ i \in 1 .. Len(order[k]) + 1
          BY <1>0, VersionsKept
        <5> QED
          BY <2>2, <3>2, <5>1
      <4>2. c \in committed /\ c.id = order[k][i]
        BY <2>1, <3>2, <4>1, OldCommits
      <4> QED
        BY <2>2, <3>1, <3>2, <4>1, <4>2 DEF TimestampsRise
    <3>3. \/ d.ts <= tsw'[k].wts
          \/ \E u \in Thread : pc'[u] = "publish" /\ WriteKey(u)' = k /\ d.id = Id(u)'
      <4>1. /\ tsw[k].wts <= tsw'[k].wts /\ tsw[k].wts \in Nat /\ tsw'[k].wts \in Nat
            /\ tsw[k].wts <= rts(tsw[k]) /\ rts(tsw[k]) \in Nat
        BY WordsRise, RtsType
      <4>2. d.ts \in Nat
        BY <2>2, <3>1, VersionsAged
      <4>3. CASE d.ts <= tsw[k].wts
        BY <4>1, <4>2, <4>3
      <4>4. CASE ~(d.ts <= tsw[k].wts)
        <5>1. PICK u \in Thread : pc[u] = "publish" /\ k = WriteKey(u) /\ d.id = Id(u)
                                  /\ d.ts = commit_ts[u]
          BY <2>2, <3>1, <4>4, VersionsAged
        <5>2. CASE u = t
          <6>1. installWord(t)
            BY <5>1, <5>2, LateSteps
          <6>2. tsw'[k].wts = commit_ts[t]
            BY <5>1, <5>2, <6>1, WordsRise
          <6> QED
            BY <4>1, <4>2, <5>1, <5>2, <6>2
        <5>3. CASE u # t
          <6>1. /\ pc'[u] = pc[u] /\ write_set'[u] = write_set[u] /\ idx'[u] = idx[u]
                /\ txn'[u] = txn[u]
            BY <1>0, <5>3, OthersStay
          <6>2. WriteKey(u)' = WriteKey(u) /\ Id(u)' = Id(u)
            BY <6>1 DEF WriteKey, Id
          <6> QED
            BY <5>1, <6>1, <6>2
        <5> QED
          BY <5>2, <5>3
      <4> QED
        BY <4>3, <4>4
    <3> QED
      BY <3>2, <3>3
  <2>3. CASE j \notin DOMAIN order[k]
    <3>1. /\ installValue(t) /\ k = WriteKey(t) /\ order'[k][j] = Id(t) /\ j = Len(order[k]) + 1
          /\ DOMAIN order'[k] = 1 .. Len(order[k]) + 1
          /\ DOMAIN order[k] = 1 .. Len(order[k]) /\ Len(order[k]) \in Nat
      <4>1. order'[k] # order[k]
        BY <1>2, <2>3
      <4>2. /\ installValue(t) /\ k = WriteKey(t) /\ order'[k][Len(order[k]) + 1] = Id(t)
            /\ DOMAIN order'[k] = 1 .. Len(order[k]) + 1
            /\ DOMAIN order[k] = 1 .. Len(order[k]) /\ Len(order[k]) \in Nat
        BY <1>0, <4>1, VersionsKept
      <4>3. j = Len(order[k]) + 1
        BY <1>2, <2>3, <4>2
      <4> QED
        BY <4>2, <4>3
    <3>2. UNCHANGED committed
      <4>1. ~commit(t)
        BY <3>1 DEF installValue, commit
      <4> QED
        BY <1>0, <4>1, HistoryGrows
    <3>3. d \in committed /\ d.id = Id(t)
      BY <1>2, <3>1, <3>2
    <3>4. ASSUME NEW i \in DOMAIN order'[k], NEW c \in committed', c.id = order'[k][i], i < j
          PROVE  c.ts < d.ts
      <4>1. i \in DOMAIN order[k]
        BY <3>1, <3>4
      <4>2. c \in committed /\ c.id = order[k][i]
        BY <2>1, <3>2, <3>4, <4>1
      <4> QED
        BY <3>1, <3>3, <4>1, <4>2, NewVersion
    <3>5. pc'[t] = "publish" /\ WriteKey(t)' = k /\ d.id = Id(t)'
      <4>1. pc'[t] = "publish" /\ UNCHANGED << write_set, idx, txn >>
        <5>1. pc \in [Thread -> Label]
          BY <1>0 DEF TypeOK
        <5> QED
          BY <3>1, <5>1 DEF installValue, Goto, sets, history
      <4> QED
        BY <3>1, <3>3, <4>1 DEF WriteKey, Id
    <3> QED
      BY <3>4, <3>5
  <2> QED
    BY <2>2, <2>3
<1> QED
  BY <1>1, <1>2 DEF TimestampsRise

-----------------------------------------------------------------------------
(* Copies *)

\* A record ceases to be written back by its word being stored, and starts to be by
\* its value being replaced.
LEMMA PublishingStays ==
    ASSUME NEW t \in Thread, PlainStep(t), NEW k \in Key
    PROVE  /\ Publishing(k) /\ ~Publishing(k)' => installWord(t) /\ k = WriteKey(t)
           /\ installValue(t) /\ k = WriteKey(t) => Publishing(k)'
<1> USE DEF PlainStep
<1>0. TypeOK /\ pc \in [Thread -> Label]
  BY DEF LocksInd, TypeOK
<1>1. \A u \in Thread : u # t =>
          /\ pc'[u] = pc[u] /\ WriteKey(u)' = WriteKey(u)
  BY <1>0, OthersStay DEF WriteKey
<1>2. ASSUME Publishing(k), ~Publishing(k)'
      PROVE  installWord(t) /\ k = WriteKey(t)
  <2>1. PICK u \in Thread : pc[u] = "publish" /\ WriteKey(u) = k
    BY <1>2 DEF Publishing
  <2>2. u = t
    BY <1>1, <1>2, <2>1 DEF Publishing
  <2>3. installWord(t)
    BY <2>1, <2>2, LateSteps
  <2> QED
    BY <2>1, <2>2, <2>3
<1>3. ASSUME installValue(t), k = WriteKey(t)
      PROVE  Publishing(k)'
  <2>1. pc'[t] = "publish" /\ UNCHANGED << write_set, idx >>
    BY <1>0, <1>3 DEF installValue, Goto, sets
  <2>2. WriteKey(t)' = k
    BY <1>3, <2>1 DEF WriteKey
  <2> QED
    BY <2>1, <2>2 DEF Publishing
<1> QED
  BY <1>2, <1>3

LEMMA CopiesHoldStep ==
    ASSUME NEW t \in Thread, PlainStep(t), CopiesHold
    PROVE  CopiesHold'
<1> USE DEF PlainStep
<1>0. TypeOK /\ Indexed /\ TypeOK' /\ Indexed'
  <2>1. TypeOK /\ Indexed /\ TypeOK'
    BY TypesStep DEF LocksInd, Next
  <2>2. ASSUME NEW u \in Thread
        PROVE  IndexedAt(u)'
    <3>1. CASE u = t
      BY <2>1, <3>1, IndexedStep
    <3>2. CASE u # t
      BY <2>1, <3>2, OthersStay DEF Indexed, IndexedAt, Executes
    <3> QED
      BY <3>1, <3>2
  <2> QED
    BY <2>1, <2>2 DEF Indexed
<1> SUFFICES ASSUME NEW u \in Thread, pc'[u] \in {"copy", "check"}
             PROVE  \E k \in Key : k = OpKey(u)' /\ CopyHolds(u, k)'
  BY DEF CopiesHold, CopyHolds, Publishing
<1>1. ASSUME pc[u] \in {"copy", "check"}, v1'[u] = v1[u], NEW k \in Key, OpKey(u) = k, OpKey(u)' = k,
             pc'[u] = "check" => \/ return_val'[u] = val[k]
                                 \/ pc[u] = "check" /\ return_val'[u] = return_val[u]
      PROVE  CopyHolds(u, k)'
  <2>1. ~v1[u].lock /\ rts(v1[u]) <= rts(tsw[k])
    BY <1>1 DEF CopiesHold, CopyHolds
  <2>2. rts(v1[u]) \in Nat /\ rts(tsw[k]) \in Nat /\ rts(tsw'[k]) \in Nat /\ rts(tsw[k]) <= rts(tsw'[k])
    <3>1. v1[u] \in TsWord /\ tsw[k] \in TsWord /\ tsw'[k] \in TsWord
      BY <1>0, WordsRise DEF TypeOK
    <3>2. rts(tsw[k]) <= rts(tsw'[k])
      BY <3>1, RtsType, WordsRise
    <3> QED
      BY <3>1, <3>2, RtsType
  <2>3. ASSUME pc'[u] = "check", v1'[u].wts = tsw'[k].wts, v1'[u].delta = tsw'[k].delta, ~Publishing(k)'
        PROVE  return_val'[u] = val'[k]
    <3>1. rts(v1[u]) = rts(tsw'[k])
      BY <1>1, <2>3 DEF rts
    <3>2. ~(rts(tsw[k]) < rts(tsw'[k]))
      BY <2>1, <2>2, <3>1
    <3>3. /\ tsw'[k].wts = tsw[k].wts /\ tsw'[k].delta = tsw[k].delta
          /\ ~(installWord(t) /\ k = WriteKey(t))
      BY <3>2, WordsRise
    <3>4. ~Publishing(k) /\ ~(installValue(t) /\ k = WriteKey(t))
      BY <2>3, <3>3, PublishingStays
    <3>5. val'[k] = val[k]
      BY <1>0, <3>4, VersionsKept
    <3>6. pc[u] = "check" => return_val[u] = val[k]
      BY <1>1, <2>3, <3>3, <3>4 DEF CopiesHold, CopyHolds
    <3> QED
      BY <1>1, <2>3, <3>5, <3>6
  <2> QED
    BY <1>1, <2>1, <2>2, <2>3 DEF CopyHolds
<1>2. CASE u # t
  <2>1. /\ pc'[u] = pc[u] /\ v1'[u] = v1[u] /\ return_val'[u] = return_val[u]
        /\ pro_set'[u] = pro_set[u] /\ pos'[u] = pos[u]
    BY <1>0, <1>2, OthersStay
  <2>2. PICK k \in Key : OpKey(u) = k
    BY <1>0, <2>1, OpKeyType DEF Indexed, IndexedAt, Executes
  <2>3. OpKey(u)' = k
    BY <2>1, <2>2 DEF OpKey
  <2> QED
    BY <1>1, <2>1, <2>2, <2>3
<1>3. CASE u = t /\ readCopy(t)
  <2>1. pc[t] = "copy" /\ UNCHANGED << v1, pro_set, pos, val >> /\ return_val'[t] = val[OpKey(t)]
    BY <1>0, <1>3 DEF readCopy, TypeOK, records
  <2>2. PICK k \in Key : OpKey(t) = k
    BY <1>0, <2>1, OpKeyType DEF Indexed, IndexedAt, Executes
  <2>3. OpKey(t)' = k
    BY <2>1, <2>2 DEF OpKey
  <2> QED
    BY <1>1, <1>3, <2>1, <2>2, <2>3
<1>4. CASE u = t /\ (readLoad(t) \/ readAgain(t))
  <2>1. /\ UNCHANGED << pro_set, pos, tsw >> /\ Inspects(t, tsw[OpKey(t)])
    BY <1>4 DEF readLoad, readAgain, records
  <2>2. PICK k \in Key : OpKey(t)' = k /\ OpKey(t) = k
    <3>1. OpKey(t)' = OpKey(t)
      BY <2>1 DEF OpKey
    <3>2. Executes(t, "READ")
      BY <1>0, <1>4 DEF readLoad, readAgain, Indexed, IndexedAt
    <3>3. OpKey(t) \in Key
      BY <1>0, <3>2, OpKeyType DEF Executes
    <3> QED
      BY <3>1, <3>3
  <2>3. /\ ~tsw[k].lock /\ v1' = [v1 EXCEPT ![t] = tsw[k]] /\ pc' = [pc EXCEPT ![t] = "copy"]
    <3>1. pc \in [Thread -> Label]
      BY <1>0 DEF TypeOK
    <3> QED
      BY <1>4, <2>1, <2>2, <3>1 DEF Inspects, Goto
  <2>4. v1'[t] = tsw[k] /\ pc'[t] = "copy" /\ tsw'[k] = tsw[k]
    <3>1. pc \in [Thread -> Label] /\ v1 \in [Thread -> TsWord]
      BY <1>0 DEF TypeOK
    <3> QED
      BY <2>1, <2>3, <3>1
  <2>5. rts(tsw[k]) \in Nat
    BY <1>0, RtsType DEF TypeOK
  <2> QED
    BY <1>4, <2>2, <2>3, <2>4, <2>5 DEF CopyHolds
<1>5. CASE u = t /\ ~readCopy(t) /\ ~readLoad(t) /\ ~readAgain(t)
  <2> USE DEF control, build, records, sets, timestamps, copies, history
  <2>0. pc \in [Thread -> Label] /\ pc'[t] \in {"copy", "check"}
    BY <1>0, <1>5 DEF TypeOK
  <2>1. /\ ~NextProcedure(t) /\ ~leave(t) /\ ~begin(t) /\ ~readLocal(t) /\ ~readDone(t)
        /\ ~write(t) /\ ~validationPhase(t)
    BY <2>0 DEF NextProcedure, leave, begin, readLocal, readDone, write, validationPhase, Goto
  <2>2. /\ ~lockRecord(t) /\ ~lockBusy(t) /\ ~locked(t) /\ ~unlockLoad(t) /\ ~unlockStore(t)
        /\ ~unlocked(t)
    BY <2>0 DEF lockRecord, lockBusy, locked, unlockLoad, unlockStore, unlocked, Goto
  <2>3. /\ ~pass(t) /\ ~extend(t) /\ ~fail(t) /\ ~seeNewer(t) /\ ~seeHistory(t) /\ ~relock(t)
    BY <2>0 DEF pass, extend, fail, seeNewer, seeHistory, relock, Verifies, Reject, Goto
  <2>4. /\ ~abort(t) /\ ~commit(t) /\ ~installWord(t) /\ ~finish(t)
    BY <2>0 DEF abort, commit, installWord, finish, Goto
  <2>5. ~installValue(t)
    BY <2>0 DEF installValue, Goto
  <2> QED
    BY <1>5, <2>1, <2>2, <2>3, <2>4, <2>5 DEF worker
<1> QED
  BY <1>2, <1>3, <1>4, <1>5

-----------------------------------------------------------------------------
(* Reads *)

\* A version that a step adds is the last one, later than the word has said.
LEMMA AddedVersion ==
    ASSUME NEW t \in Thread, PlainStep(t), NEW k \in Key, NEW q \in DOMAIN order'[k],
           NEW c \in committed', c.id = order'[k][q]
    PROVE  \/ q \in DOMAIN order[k] /\ c \in committed /\ c.id = order[k][q]
           \/ /\ c \in committed /\ c.id = Id(t) /\ installValue(t) /\ k \in Locks(t)
              /\ rts(tsw[k]) < c.ts
<1> USE DEF PlainStep
<1>1. CASE q \in DOMAIN order[k]
  <2>1. order'[k][q] = order[k][q]
    BY <1>1, VersionsKept DEF LocksInd
  <2> QED
    BY <1>1, <2>1, OldCommits
<1>2. CASE q \notin DOMAIN order[k]
  <2>1. /\ installValue(t) /\ k = WriteKey(t) /\ order'[k][Len(order[k]) + 1] = Id(t)
        /\ DOMAIN order'[k] = 1 .. Len(order[k]) + 1
        /\ DOMAIN order[k] = 1 .. Len(order[k]) /\ Len(order[k]) \in Nat
    <3>1. order'[k] # order[k]
      BY <1>2
    <3> QED
      BY <3>1, VersionsKept DEF LocksInd
  <2>2. q = Len(order[k]) + 1
    BY <1>2, <2>1
  <2>3. UNCHANGED committed
    <3>1. ~commit(t)
      BY <2>1 DEF installValue, commit
    <3> QED
      BY <3>1, HistoryGrows DEF LocksInd
  <2>4. c \in committed /\ c.id = Id(t)
    BY <2>1, <2>2, <2>3
  <2> QED
    BY <2>1, <2>4, NewVersion
<1> QED
  BY <1>1, <1>2

LEMMA WrittenByStays ==
    ASSUME NEW t \in Thread, PlainStep(t), NEW k \in Key, NEW p \in 0 .. Len(order[k]), NEW ts,
           WrittenBy(k, p, ts)
    PROVE  WrittenBy(k, p, ts)'
<1> SUFFICES ASSUME p > 0, NEW c \in committed', c.id = order'[k][p] PROVE c.ts <= ts
  BY DEF WrittenBy
<1>1. p \in DOMAIN order[k] /\ order'[k][p] = order[k][p]
  <2>1. /\ DOMAIN order[k] = 1 .. Len(order[k]) /\ Len(order[k]) \in Nat
        /\ \A i \in DOMAIN order[k] : order'[k][i] = order[k][i]
    BY VersionsKept DEF PlainStep, LocksInd
  <2>2. p \in DOMAIN order[k]
    BY <2>1
  <2> QED
    BY <2>1, <2>2
<1>2. c \in committed
  BY <1>1, OldCommits DEF PlainStep
<1> QED
  BY <1>1, <1>2 DEF WrittenBy

LEMMA OutlastsStays ==
    ASSUME NEW t \in Thread, PlainStep(t), NEW k \in Key, NEW p \in 0 .. Len(order[k]),
           NEW ts \in Nat, Outlasts(k, p, ts)
    PROVE  Outlasts(k, p, ts)'
<1>1. /\ ts <= rts(tsw[k]) /\ rts(tsw[k]) <= rts(tsw'[k])
      /\ rts(tsw[k]) \in Nat /\ rts(tsw'[k]) \in Nat
  BY WordsRise, RtsType DEF Outlasts, PlainStep
<1>2. ASSUME NEW q \in DOMAIN order'[k], NEW c \in committed', p < q, c.id = order'[k][q]
      PROVE  ts < c.ts
  <2>1. CASE q \in DOMAIN order[k] /\ c \in committed /\ c.id = order[k][q]
    BY <1>2, <2>1 DEF Outlasts
  <2>2. CASE c \in committed /\ rts(tsw[k]) < c.ts
    <3>1. c.ts \in Nat
      BY <2>2 DEF PlainStep, LocksInd, TypeOK, Commitment
    <3> QED
      BY <1>1, <2>2, <3>1
  <2> QED
    BY <1>2, <2>1, <2>2, AddedVersion
<1> QED
  BY <1>1, <1>2 DEF Outlasts

\* A transaction of which some lock is held goes on validating, with its lock or
\* with the word stored, unless its validation fails.
LEMMA OwnLockStays ==
    ASSUME NEW t \in Thread, PlainStep(t), NEW u \in Thread, NEW k \in Key, NEW ts \in Nat,
           Validates(u), k \in Locks(u), ts <= commit_ts[u], ~(fail(t) /\ u = t)
    PROVE  \/ ts <= rts(tsw'[k])
           \/ Id(u)' = Id(u) /\ Validates(u)' /\ k \in Locks(u)' /\ ts <= commit_ts'[u]
<1> USE DEF PlainStep
<1>0. TypeOK /\ Indexed /\ AbortsTake
  BY DEF LocksInd, Plain
<1>1. CASE u # t
  <2>1. pc'[u] = pc[u] /\ txn'[u] = txn[u] /\ commit_ts'[u] = commit_ts[u]
    BY <1>0, <1>1, OthersStay
  <2>2. Locks(u)' = Locks(u)
    BY <1>0, <1>1, OthersLocks
  <2> QED
    BY <2>1, <2>2 DEF Id, Validates
<1>2. CASE u = t /\ installWord(t)
  <2>1. CASE k = WriteKey(t)
    BY <1>2, <2>1, WordsRise
  <2>2. CASE k # WriteKey(t)
    <3>1. k \in Locks(t)'
      BY <1>0, <1>2, <2>2, ReleaseLocks
    <3>2. UNCHANGED << txn, commit_ts >> /\ pc'[t] = "install"
      <4>1. pc \in [Thread -> Label]
        BY <1>0 DEF TypeOK
      <4> QED
        BY <1>2, <4>1 DEF installWord, Goto, timestamps, history
    <3> QED
      BY <1>2, <3>1, <3>2 DEF Id, Validates
  <2> QED
    BY <2>1, <2>2
<1>3. CASE u = t /\ ~installWord(t)
  <2>1. pc[t] \in {"validate", "install", "publish"} /\ pc \in [Thread -> Label]
    BY <1>0, <1>3 DEF Validates, TypeOK
  <2>2. ~lockRecord(t) /\ ~unlockStore(t)
    BY <2>1 DEF lockRecord, unlockStore
  <2>3. Locks(t)' = Locks(t)
    BY <1>0, <1>3, <2>2, QuietLocks
  <2>4. ~finish(t)
    <3>1. ASSUME finish(t)
          PROVE  FALSE
      <4>1. /\ First(t) = idx[t] /\ Len(write_set[t]) < idx[t] /\ held[t] <= Len(write_set[t])
            /\ idx[t] \in Nat /\ held[t] \in Nat /\ Len(write_set[t]) \in Nat
        BY <1>0, <3>1 DEF finish, First, TypeOK, Indexed, IndexedAt
      <4>2. Locks(t) = {}
        BY <4>1, NoLocks
      <4> QED
        BY <1>3, <4>2
    <3> QED
      BY <3>1
  <2>5. UNCHANGED << txn, commit_ts >> /\ pc'[t] \in {"validate", "install", "publish"}
    <3> USE DEF timestamps, history, control, build, records, sets, copies
    <3>1. CASE installValue(t)
      BY <2>1, <3>1 DEF installValue, Goto
    <3>2. CASE commit(t)
      BY <2>1, <3>2 DEF commit, Goto
    <3>3. CASE pass(t) \/ extend(t)
      BY <2>1, <3>3 DEF pass, extend
    <3>4. ~seeNewer(t)
      BY DEF seeNewer, Plain
    <3> QED
      BY <1>3, <2>1, <2>4, <3>1, <3>2, <3>3, <3>4, LateSteps
  <2> QED
    BY <1>3, <2>3, <2>5 DEF Id, Validates
<1> QED
  BY <1>1, <1>2, <1>3

\* A read stays valid, for a transaction that does not fail.
LEMMA ValidForStays ==
    ASSUME NEW t \in Thread, PlainStep(t), NEW k \in Key, NEW p \in 0 .. Len(order[k]),
           NEW ts \in Nat, NEW x, ValidFor(x, k, p, ts), ~(fail(t) /\ x = Id(t))
    PROVE  ValidFor(x, k, p, ts)'
<1> USE DEF PlainStep
<1>1. /\ rts(tsw[k]) <= rts(tsw'[k]) /\ rts(tsw[k]) \in Nat /\ rts(tsw'[k]) \in Nat
  BY WordsRise, RtsType
<1>2. ASSUME NEW q \in DOMAIN order'[k], NEW c \in committed', p < q, c.id = order'[k][q]
      PROVE  c.id = x \/ ts < c.ts
  <2>1. CASE q \in DOMAIN order[k] /\ c \in committed /\ c.id = order[k][q]
    BY <1>2, <2>1 DEF ValidFor
  <2>2. CASE c \in committed /\ c.id = Id(t) /\ k \in Locks(t) /\ rts(tsw[k]) < c.ts
    <3>1. c.ts \in Nat
      BY <2>2 DEF LocksInd, TypeOK, Commitment
    <3>2. CASE ts <= rts(tsw[k])
      BY <1>1, <2>2, <3>1, <3>2
    <3>3. CASE ~(ts <= rts(tsw[k]))
      <4>1. PICK u \in Thread : Id(u) = x /\ k \in Locks(u)
        BY <3>3 DEF ValidFor
      <4>2. u = t
        BY <2>2, <4>1, OneLocks DEF Plain
      <4> QED
        BY <2>2, <4>1, <4>2
    <3> QED
      BY <3>2, <3>3
  <2> QED
    BY <1>2, <2>1, <2>2, AddedVersion
<1>3. CASE ts <= rts(tsw[k])
  <2>1. ts <= rts(tsw'[k])
    BY <1>1, <1>3
  <2> QED
    BY <1>2, <2>1 DEF ValidFor
<1>4. CASE ~(ts <= rts(tsw[k]))
  <2>1. PICK u \in Thread : Id(u) = x /\ Validates(u) /\ k \in Locks(u) /\ ts <= commit_ts[u]
    BY <1>4 DEF ValidFor
  <2>2. \/ ts <= rts(tsw'[k])
        \/ Id(u)' = x /\ Validates(u)' /\ k \in Locks(u)' /\ ts <= commit_ts'[u]
    BY <2>1, OwnLockStays
  <2> QED
    BY <1>2, <2>2 DEF ValidFor
<1> QED
  BY <1>3, <1>4

LEMMA SameValid ==
    ASSUME NEW t \in Thread, PlainStep(t), NEW u \in Thread, NEW k \in Key,
           NEW p \in 0 .. Len(order[k]), ValidFor(Id(u), k, p, commit_ts[u]),
           Id(u)' = Id(u), commit_ts'[u] = commit_ts[u], ~(fail(t) /\ u = t)
    PROVE  ValidFor(Id(u), k, p, commit_ts[u])'
<1>1. PICK x \in {Id(u)}, ts \in Nat : x = Id(u) /\ ts = commit_ts[u]
  BY DEF PlainStep, LocksInd, TypeOK
<1>2. ~(fail(t) /\ x = Id(t))
  BY <1>1, IdsDiffer
<1>3. ValidFor(x, k, p, ts)
  BY <1>1
<1>4. ValidFor(x, k, p, ts)'
  BY <1>2, <1>3, ValidForStays
<1>5. x = Id(u)' /\ ts = commit_ts'[u]
  BY <1>1
<1> QED
  BY <1>4, <1>5 DEF ValidFor

\* An element holds as long as it is in the read set, if validation keeps what it
\* owes to it.
LEMMA ElementStays ==
    ASSUME NEW t \in Thread, PlainStep(t), NEW u \in Thread, NEW i, NEW e \in ReadElement,
           ElementHolds(u, i, e),
           Validates(u)' => e.tsw.wts <= commit_ts'[u],
           \A p \in 0 .. Len(order[e.key]) :
               /\ Passed(u, i)' /\ Outlasts(e.key, p, rts(e.tsw))
               /\ Passed(u, i) => ValidFor(Id(u), e.key, p, commit_ts[u])
               => ValidFor(Id(u), e.key, p, commit_ts[u])'
    PROVE  ElementHolds(u, i, e)'
<1>1. e.key \in Key /\ rts(e.tsw) \in Nat
  BY RtsType DEF ReadElement
<1>2. PICK p \in 0 .. Len(order[e.key]) :
        /\ e.val = VersionAt(e.key, p)
        /\ WrittenBy(e.key, p, e.tsw.wts)
        /\ Outlasts(e.key, p, rts(e.tsw))
        /\ Passed(u, i) => ValidFor(Id(u), e.key, p, commit_ts[u])
  BY DEF ElementHolds
<1>3. p \in 0 .. Len(order'[e.key]) /\ VersionAt(e.key, p)' = VersionAt(e.key, p)
  BY <1>1, VersionsKept DEF PlainStep, LocksInd
<1>4. WrittenBy(e.key, p, e.tsw.wts)'
  BY <1>1, <1>2, WrittenByStays
<1>5. Outlasts(e.key, p, rts(e.tsw))'
  BY <1>1, <1>2, OutlastsStays
<1>6. Passed(u, i)' => ValidFor(Id(u), e.key, p, commit_ts[u])'
  BY <1>2
<1> QED
  BY <1>2, <1>3, <1>4, <1>5, <1>6 DEF ElementHolds

\* An element that passes was not overwritten up to the commit timestamp.
LEMMA PassValid ==
    ASSUME NEW t \in Thread, PlainStep(t), pass(t), pc[t] = "validate", NEW e \in ReadElement,
           e = Element(t), NEW p \in 0 .. Len(order[e.key]), Outlasts(e.key, p, rts(e.tsw))
    PROVE  ValidFor(Id(t), e.key, p, commit_ts[t])
<1> USE DEF PlainStep
<1>0. PICK k \in Key : k = e.key
  BY DEF ReadElement
<1>1. PICK ts \in Nat : ts = commit_ts[t]
  BY DEF LocksInd, TypeOK
<1>2. /\ tsw[k] \in TsWord /\ e.tsw \in TsWord /\ Word(t) = tsw[k]
      /\ rts(tsw[k]) \in Nat /\ rts(e.tsw) \in Nat /\ e.tsw.wts \in Nat /\ e.tsw.wts <= rts(e.tsw)
  <2>1. tsw[k] \in TsWord /\ e.tsw \in TsWord /\ Word(t) = tsw[k]
    BY <1>0 DEF LocksInd, TypeOK, ReadElement, Word
  <2> QED
    BY <2>1, RtsType
<1>3. /\ \A q \in DOMAIN order[k] : \A c \in committed : p < q /\ c.id = order[k][q] => rts(e.tsw) < c.ts
      /\ rts(e.tsw) <= rts(tsw[k])
  BY <1>0 DEF Outlasts
<1>4. \A c \in committed : c.ts \in Nat
  BY DEF LocksInd, TypeOK, Commitment
<1>5. ASSUME searchWriteSet(t, k)
      PROVE  k \in Locks(t)
  <2>1. PICK j \in DOMAIN write_set[t] : write_set[t][j].key = k
    BY <1>5 DEF searchWriteSet, InSet
  <2>2. /\ First(t) = 1 /\ held[t] = Len(write_set[t])
        /\ DOMAIN write_set[t] = 1 .. Len(write_set[t])
    BY DEF LocksInd, LocksKnown, TypeOK, Plain, First
  <2> QED
    BY <2>1, <2>2 DEF Locks
<1>6. ts <= rts(e.tsw) \/ (tsw[k].wts = e.tsw.wts /\ (ts <= rts(tsw[k]) \/ searchWriteSet(t, k)))
  <2>1. ~Overwritten(t) /\ (~Expires(t) \/ searchWriteSet(t, k))
    BY <1>0 DEF pass, Verifies
  <2> QED
    BY <1>0, <1>1, <1>2, <2>1 DEF Overwritten, Expires, KnownValid
<1>7. CASE ts <= rts(e.tsw)
  BY <1>0, <1>1, <1>2, <1>3, <1>4, <1>7 DEF ValidFor
<1>8. CASE tsw[k].wts = e.tsw.wts /\ (ts <= rts(tsw[k]) \/ searchWriteSet(t, k))
  <2>1. ASSUME NEW q \in DOMAIN order[k], NEW c \in committed, p < q, c.id = order[k][q]
        PROVE  ts < c.ts
    <3>1. rts(e.tsw) < c.ts /\ c.ts \in Nat
      BY <1>3, <1>4, <2>1
    <3>2. ~(c.ts <= tsw[k].wts)
      BY <1>2, <1>8, <3>1
    <3>3. PICK u \in Thread : /\ pc[u] = "publish" /\ k \in Locks(u)
                              /\ c.ts = commit_ts[u] /\ rts(tsw[k]) < commit_ts[u]
      BY <2>1, <3>2, VersionsAged
    <3>4. CASE ts <= rts(tsw[k])
      BY <1>2, <3>1, <3>3, <3>4
    <3>5. CASE searchWriteSet(t, k)
      <4>1. u = t
        BY <1>5, <3>3, <3>5, OneLocks DEF Plain
      <4> QED
        BY <3>3, <4>1
    <3> QED
      BY <1>8, <3>4, <3>5
  <2>2. \/ ts <= rts(tsw[k])
        \/ Validates(t) /\ k \in Locks(t) /\ ts <= commit_ts[t]
    BY <1>1, <1>5, <1>8 DEF Validates
  <2> QED
    BY <1>0, <1>1, <2>1, <2>2 DEF ValidFor
<1> QED
  BY <1>6, <1>7, <1>8

\* So is one whose version is extended.
LEMMA ExtendValid ==
    ASSUME NEW t \in Thread, PlainStep(t), extend(t), NEW e \in ReadElement,
           e = Element(t), NEW p \in 0 .. Len(order[e.key]), Outlasts(e.key, p, rts(e.tsw))
    PROVE  ValidFor(Id(t), e.key, p, commit_ts[t])'
<1> USE DEF PlainStep
<1>0. PICK k \in Key : k = e.key
  BY DEF ReadElement
<1>1. PICK ts \in Nat : ts = commit_ts[t]
  BY DEF LocksInd, TypeOK
<1>2. /\ tsw[k] \in TsWord /\ e.tsw \in TsWord /\ Word(t) = tsw[k]
      /\ rts(tsw[k]) \in Nat /\ rts(e.tsw) \in Nat /\ e.tsw.wts \in Nat /\ e.tsw.wts <= rts(e.tsw)
  <2>1. tsw[k] \in TsWord /\ e.tsw \in TsWord /\ Word(t) = tsw[k]
    BY <1>0 DEF LocksInd, TypeOK, ReadElement, Word
  <2> QED
    BY <2>1, RtsType
<1>3. UNCHANGED << order, committed, txn, commit_ts >>
  BY DEF extend, history, timestamps
<1>4. tsw[k].wts = e.tsw.wts
  BY <1>0, <1>2 DEF extend, Expires
<1>5. ~tsw[k].lock /\ rts(tsw'[k]) = ts
  <2> DEFINE w == Extended(tsw[k], commit_ts[t])
  <2>1. ~tsw[k].lock /\ tsw' = [tsw EXCEPT ![k] = w] /\ rts(w) = ts
    BY <1>0, <1>1, ExtendsUnlocked DEF LocksInd
  <2>2. tsw'[k] = w
    <3> HIDE DEF w
    <3> QED
      BY <2>1 DEF LocksInd, TypeOK
  <2> QED
    BY <2>1, <2>2
<1>6. ASSUME NEW q \in DOMAIN order[k], NEW c \in committed, p < q, c.id = order[k][q]
      PROVE  FALSE
  <2>1. rts(e.tsw) < c.ts /\ c.ts \in Nat
    BY <1>0, <1>6 DEF Outlasts, LocksInd, TypeOK, Commitment
  <2>2. ~(c.ts <= tsw[k].wts)
    BY <1>2, <1>4, <2>1
  <2>3. PICK u \in Thread : k \in Locks(u)
    BY <1>6, <2>2, VersionsAged
  <2> QED
    BY <1>5, <2>3 DEF LocksInd, LocksOwned, Plain
<1>7. ts <= rts(tsw'[k])
  BY <1>5
<1>8. ts = commit_ts'[t]
  BY <1>1, <1>3
<1> QED
  BY <1>0, <1>3, <1>6, <1>7, <1>8 DEF ValidFor

\* Which steps change what a worker has read, or how far it is validated.
LEMMA ReadPhases ==
    ASSUME NEW t \in Thread, PlainStep(t)
    PROVE  /\ readDone(t) \/ read_set'[t] = << >> \/ read_set'[t] = read_set[t]
           /\ readDone(t) => ~Validates(t)'
           /\ Validates(t)' =>
                  /\ txn'[t] = txn[t] /\ ~fail(t)
                  /\ locked(t) \/ (Validates(t) /\ commit_ts'[t] = commit_ts[t])
           /\ \A i \in DOMAIN read_set[t] :
                  Passed(t, i)' =>
                      /\ commit_ts'[t] = commit_ts[t] /\ Validates(t)'
                      /\ \/ Passed(t, i)
                         \/ i = idx[t] /\ pc[t] = "validate" /\ (pass(t) \/ extend(t))
<1> USE DEF control, build, records, sets, timestamps, copies, history, PlainStep
<1>0. /\ pc \in [Thread -> Label] /\ idx \in [Thread -> Nat \ {0}]
      /\ read_set \in [Thread -> Seq(ReadElement)]
      /\ DOMAIN read_set[t] = 1 .. Len(read_set[t]) /\ Len(read_set[t]) \in Nat
      /\ \A i \in DOMAIN read_set[t] : i \in Nat /\ i > 0
      /\ pc[t] \notin {"history", "prehistory"} /\ ~timestamp_history
  BY DEF LocksInd, TypeOK, LocksKnown, Plain, Identified
<1> USE DEF Validates, Passed
<1>1. CASE NextProcedure(t) \/ leave(t) \/ begin(t) \/ readLocal(t) \/ readCopy(t)
  BY <1>0, <1>1 DEF NextProcedure, leave, begin, readLocal, readCopy, Goto
<1>2. CASE readLoad(t) \/ readAgain(t)
  BY <1>0, <1>2 DEF readLoad, readAgain, Inspects, Goto
<1>3. CASE readDone(t)
  BY <1>0, <1>3 DEF readDone, Goto
<1>4. CASE write(t) \/ validationPhase(t) \/ lockRecord(t) \/ lockBusy(t)
  BY <1>0, <1>4 DEF write, validationPhase, lockRecord, lockBusy, Goto
<1>5. CASE locked(t)
  <2>1. /\ pc'[t] = "validate" /\ idx'[t] = 1 /\ UNCHANGED << txn, read_set >> /\ pc[t] = "lock"
    BY <1>0, <1>5 DEF locked, Goto
  <2> QED
    BY <1>0, <1>5, <2>1 DEF fail, Verifies, readDone
<1>6. CASE unlockLoad(t) \/ unlockStore(t) \/ unlocked(t)
  BY <1>0, <1>6 DEF unlockLoad, unlockStore, unlocked, Goto
<1>7. CASE pass(t) \/ extend(t)
  <2>1. /\ UNCHANGED << pc, txn, read_set, commit_ts >> /\ idx'[t] = idx[t] + 1
        /\ pc[t] \in {"validate", "preverify"}
    BY <1>0, <1>7 DEF pass, extend, NextElement, Verifies
  <2>2. ~fail(t)
    BY <1>0, <2>1 DEF fail, Reject, Goto
  <2>3. \A i \in DOMAIN read_set[t] : i < idx[t] + 1 => i < idx[t] \/ i = idx[t]
    BY <1>0
  <2>4. ~readDone(t)
    BY <2>1 DEF readDone
  <2>5. idx'[t] = idx[t] + 1 /\ pc'[t] = pc[t] /\ UNCHANGED << txn, read_set, commit_ts >>
    BY <2>1
  <2> QED
    BY <1>7, <2>1, <2>2, <2>3, <2>4, <2>5
<1>8. CASE fail(t)
  BY <1>0, <1>8 DEF fail, Reject, Verifies, Goto
<1>9. CASE seeNewer(t) \/ seeHistory(t) \/ relock(t)
  BY <1>0, <1>9 DEF seeNewer, seeHistory, relock, Goto
<1>10. CASE abort(t) \/ finish(t)
  BY <1>0, <1>10 DEF abort, finish, Goto
<1>11. CASE commit(t)
  <2>1. /\ pc'[t] = "install" /\ pc[t] = "validate" /\ UNCHANGED << txn, read_set, commit_ts >>
        /\ Len(read_set[t]) < idx[t]
    BY <1>0, <1>11 DEF commit, Goto
  <2>2. \A i \in DOMAIN read_set[t] : i < idx[t]
    BY <1>0, <2>1
  <2>3. ~fail(t)
    BY <1>0, <2>1 DEF fail, Verifies
  <2> QED
    BY <2>1, <2>2, <2>3 DEF readDone
<1>12. CASE installWord(t) \/ installValue(t)
  <2>1. /\ pc'[t] \in {"install", "publish"} /\ pc[t] \in {"install", "publish"}
        /\ UNCHANGED << txn, read_set, commit_ts >>
    <3>1. CASE installWord(t)
      BY <1>0, <3>1 DEF installWord, Goto
    <3>2. CASE installValue(t)
      BY <1>0, <3>2 DEF installValue, Goto
    <3> QED
      BY <1>12, <3>1, <3>2
  <2> QED
    BY <2>1 DEF fail, Verifies, readDone
<1> QED
  BY <1>1, <1>2, <1>3, <1>4, <1>5, <1>6, <1>7, <1>8, <1>9, <1>10, <1>11, <1>12 DEF worker

\* What has just been read is the newest version.
LEMMA NewElement ==
    ASSUME NEW t \in Thread, PlainStep(t), CopiesHold, readDone(t), NEW i, NEW e \in ReadElement,
           e.key = OpKey(t), e.tsw = v1[t], e.val = return_val[t]
    PROVE  ElementHolds(t, i, e)'
<1> USE DEF PlainStep
<1>1. PICK k \in Key : k = e.key
  BY DEF ReadElement
<1>2. tsw[k] = e.tsw /\ ~tsw[k].lock /\ (~Publishing(k) => e.val = val[k])
  BY <1>1 DEF readDone, CopiesHold, CopyHolds
<1>3. \A u \in Thread : k \notin Locks(u)
  BY <1>2 DEF LocksInd, LocksOwned, Plain
<1>4. ~Publishing(k)
  <2>1. \A u \in Thread : pc[u] = "publish" => WriteKey(u) \in Locks(u)
    BY WriterLocks DEF Plain
  <2> QED
    BY <1>3, <2>1 DEF Publishing
<1>5. /\ UNCHANGED << order, committed, tsw >>
      /\ Len(order[k]) \in Nat /\ DOMAIN order[k] = 1 .. Len(order[k])
  BY DEF readDone, records, history, LocksInd, TypeOK
<1>6. PICK p \in 0 .. Len(order[k]) : p = Len(order[k])
  BY <1>5
<1>7. e.val = VersionAt(k, p)
  BY <1>2, <1>4, <1>6 DEF Identified
<1>8. e.val = VersionAt(e.key, p)' /\ p \in 0 .. Len(order'[e.key])
  BY <1>1, <1>5, <1>6, <1>7 DEF VersionAt
<1>9. WrittenBy(e.key, p, e.tsw.wts)'
  <2>1. ASSUME p > 0, NEW c \in committed, c.id = order[k][p]
        PROVE  c.ts <= e.tsw.wts
    <3>1. p \in DOMAIN order[k]
      BY <1>5, <1>6, <2>1
    <3> QED
      BY <1>2, <1>3, <2>1, <3>1, VersionsAged
  <2> QED
    BY <1>1, <1>5, <2>1 DEF WrittenBy
<1>10. Outlasts(e.key, p, rts(e.tsw))'
  <2>1. rts(e.tsw) <= rts(tsw'[e.key])
    BY <1>1, <1>2, <1>5, RtsType DEF ReadElement
  <2>2. \A q \in DOMAIN order'[e.key] : ~(p < q)
    BY <1>1, <1>5, <1>6
  <2> QED
    BY <2>1, <2>2 DEF Outlasts
<1>11. ~Validates(t)' /\ ~Passed(t, i)'
  BY ReadPhases DEF Validates, Passed
<1> QED
  BY <1>8, <1>9, <1>10, <1>11 DEF ElementHolds

LEMMA ElementsStep ==
    ASSUME NEW t \in Thread, PlainStep(t), CopiesHold, ReadsHold, NEW u \in Thread,
           NEW i \in DOMAIN read_set'[u], NEW e \in ReadElement, e = read_set'[u][i]
    PROVE  ElementHolds(u, i, e)'
<1> USE DEF PlainStep
<1>0. TypeOK /\ e.key \in Key
  BY DEF LocksInd, ReadElement
<1>1. CASE u # t /\ i \in DOMAIN read_set[u] /\ e = read_set[u][i]
  <2>1. ElementHolds(u, i, e)
    BY <1>1 DEF ReadsHold
  <2>2. /\ pc'[u] = pc[u] /\ txn'[u] = txn[u] /\ commit_ts'[u] = commit_ts[u]
        /\ idx'[u] = idx[u]
    BY <1>0, <1>1, OthersStay
  <2>3. /\ Id(u)' = Id(u) /\ (Validates(u)' <=> Validates(u)) /\ (Passed(u, i)' <=> Passed(u, i))
    BY <2>2 DEF Id, Validates, Passed
  <2>4. Validates(u)' => e.tsw.wts <= commit_ts'[u]
    BY <2>1, <2>2, <2>3 DEF ElementHolds
  <2>5. ASSUME NEW p \in 0 .. Len(order[e.key]), ValidFor(Id(u), e.key, p, commit_ts[u])
        PROVE  ValidFor(Id(u), e.key, p, commit_ts[u])'
    BY <1>0, <1>1, <2>2, <2>3, <2>5, SameValid
  <2> QED
    BY <2>1, <2>3, <2>4, <2>5, ElementStays
<1>2. CASE u = t /\ i \in DOMAIN read_set[t] /\ e = read_set[t][i]
  <2>1. ElementHolds(t, i, e)
    BY <1>2 DEF ReadsHold
  <2>2. Validates(t)' => e.tsw.wts <= commit_ts'[t]
    <3>1. CASE locked(t)
      <4> DEFINE T == {commit_ts[t]} \cup {read_set[t][j].tsw.wts : j \in DOMAIN read_set[t]}
      <4>1. e.tsw.wts <= Max(T)
        BY <1>0, <1>2, LargestFound
      <4>2. commit_ts' = [commit_ts EXCEPT ![t] = Max(T)] /\ commit_ts \in [Thread -> Nat]
        BY <1>0, <3>1 DEF locked, TypeOK
      <4> HIDE DEF T
      <4> QED
        BY <4>1, <4>2
    <3>2. CASE ~locked(t)
      BY <2>1, <3>2, ReadPhases DEF ElementHolds
    <3> QED
      BY <3>1, <3>2
  <2>3. ASSUME NEW p \in 0 .. Len(order[e.key]), Passed(t, i)', Outlasts(e.key, p, rts(e.tsw)),
               Passed(t, i) => ValidFor(Id(t), e.key, p, commit_ts[t])
        PROVE  ValidFor(Id(t), e.key, p, commit_ts[t])'
    <3>1. /\ commit_ts'[t] = commit_ts[t] /\ txn'[t] = txn[t] /\ ~fail(t)
          /\ \/ Passed(t, i)
             \/ i = idx[t] /\ pc[t] = "validate" /\ (pass(t) \/ extend(t))
      BY <1>2, <2>3, ReadPhases
    <3>2. Id(t)' = Id(t)
      BY <3>1 DEF Id
    <3>3. CASE Passed(t, i)
      BY <1>0, <2>3, <3>1, <3>2, <3>3, SameValid
    <3>4. CASE i = idx[t] /\ pc[t] = "validate" /\ pass(t)
      <4>1. ValidFor(Id(t), e.key, p, commit_ts[t])
        BY <1>2, <2>3, <3>4, PassValid DEF Element
      <4> QED
        BY <1>0, <3>1, <3>2, <4>1, SameValid
    <3>5. CASE i = idx[t] /\ extend(t)
      BY <1>2, <2>3, <3>5, ExtendValid DEF Element
    <3> QED
      BY <3>1, <3>3, <3>4, <3>5
  <2> QED
    BY <1>2, <2>1, <2>2, <2>3, ElementStays
<1>3. CASE ~(i \in DOMAIN read_set[u] /\ e = read_set[u][i])
  <2>1. u = t
    BY <1>0, <1>3, OthersStay
  <2>2. readDone(t)
    <3>1. read_set'[t] # << >>
      BY <2>1
    <3> QED
      BY <1>3, <2>1, <3>1, ReadPhases
  <2>3. PICK r \in ReadElement :
            /\ r.key = OpKey(t) /\ r.tsw = v1[t] /\ r.val = return_val[t]
            /\ read_set'[t] = Append(read_set[t], r)
    <3> DEFINE r == [key |-> OpKey(t), tsw |-> v1[t], val |-> return_val[t]]
    <3>1. OpKey(t) \in Key
      BY <2>2, OpKeyType DEF readDone, Executes, LocksInd, Indexed, IndexedAt
    <3>2. r \in ReadElement
      BY <1>0, <3>1 DEF TypeOK, ReadElement
    <3>3. read_set'[t] = Append(read_set[t], r)
      BY <1>0, <2>2 DEF readDone, TypeOK
    <3>4. r.key = OpKey(t) /\ r.tsw = v1[t] /\ r.val = return_val[t]
      OBVIOUS
    <3> HIDE DEF r
    <3> QED
      BY <3>2, <3>3, <3>4
  <2>4. e = r
    <3>1. read_set[t] \in Seq(ReadElement)
      BY <1>0 DEF TypeOK
    <3> HIDE DEF ReadElement
    <3> QED
      BY <1>3, <2>1, <2>3, <3>1
  <2> QED
    BY <2>1, <2>2, <2>3, <2>4, NewElement
<1> QED
  BY <1>1, <1>2, <1>3

LEMMA ReadsHoldStep ==
    ASSUME NEW t \in Thread, PlainStep(t), CopiesHold, ReadsHold
    PROVE  ReadsHold'
<1> USE DEF PlainStep
<1>0. TypeOK
  BY DEF LocksInd
<1>1. \A u \in Thread : \A i \in DOMAIN read_set'[u] : \A e \in ReadElement :
          e = read_set'[u][i] => ElementHolds(u, i, e)'
  BY ElementsStep
<1>2. ASSUME NEW c \in committed', NEW e \in c.reads
      PROVE  ReadHolds(c, e)'
  <2>1. CASE c \in committed
    <3>1. e.key \in Key /\ c.ts \in Nat
      <4>1. c \in Commitment
        BY <1>0, <2>1 DEF TypeOK
      <4>2. c.ts \in Nat /\ e \in [key : Key, ver : Version]
        BY <4>1 DEF Commitment
      <4> QED
        BY <4>2
    <3>2. PICK p \in 0 .. Len(order[e.key]) :
            /\ e.ver = VersionAt(e.key, p)
            /\ WrittenBy(e.key, p, c.ts)
            /\ ValidFor(c.id, e.key, p, c.ts)
      BY <2>1 DEF ReadsHold, ReadHolds
    <3>3. p \in 0 .. Len(order'[e.key]) /\ VersionAt(e.key, p)' = VersionAt(e.key, p)
      BY <3>1, VersionsKept DEF LocksInd
    <3>4. WrittenBy(e.key, p, c.ts)'
      BY <3>1, <3>2, WrittenByStays
    <3>5. ~(fail(t) /\ c.id = Id(t))
      <4>1. fail(t) => pc[t] \notin {"install", "publish"}
        BY DEF fail, Verifies
      <4> QED
        BY <1>0, <2>1, <4>1, FreshTxn
    <3>6. ValidFor(c.id, e.key, p, c.ts)'
      BY <3>1, <3>2, <3>5, ValidForStays
    <3> QED
      BY <3>2, <3>3, <3>4, <3>6 DEF ReadHolds
  <2>2. CASE c \notin committed
    <3>1. PICK r \in ReadElement, i \in DOMAIN read_set[t] :
            /\ c.id = Id(t) /\ c.ts = commit_ts[t] /\ r = read_set[t][i] /\ commit(t)
            /\ e.key = r.key /\ e.ver = r.val
      <4> DEFINE R == {[key |-> r.key, ver |-> r.val] : r \in ToSet(read_set[t])}
                 d == [id |-> Id(t), ts |-> commit_ts[t], reads |-> R]
      <4>1. commit(t) /\ c = d
        BY <1>0, <2>2, HistoryGrows
      <4>2. d.id = Id(t) /\ d.ts = commit_ts[t] /\ d.reads = R
        OBVIOUS
      <4> HIDE DEF d
      <4>3. PICK r \in ToSet(read_set[t]) : e = [key |-> r.key, ver |-> r.val]
        BY <4>1, <4>2
      <4>4. PICK i \in DOMAIN read_set[t] : r = read_set[t][i]
        BY DEF ToSet
      <4>5. r \in ReadElement
        <5>1. read_set[t] \in Seq(ReadElement)
          BY <1>0 DEF TypeOK
        <5> QED
          BY <4>4, <5>1
      <4>6. e.key = r.key /\ e.ver = r.val
        BY <4>3
      <4> QED
        BY <4>1, <4>2, <4>4, <4>5, <4>6
    <3>2. /\ Validates(t) /\ Passed(t, i) /\ r.key \in Key
      <4>1. Validates(t) /\ pc[t] = "validate" /\ Len(read_set[t]) < idx[t] /\ r.key \in Key
        BY <3>1 DEF commit, Validates, ReadElement
      <4>2. i < idx[t]
        <5>1. i \in 1 .. Len(read_set[t]) /\ idx[t] \in Nat
          BY <1>0, ReadElementType DEF TypeOK
        <5> QED
          BY <4>1, <5>1
      <4> QED
        BY <4>1, <4>2 DEF Passed
    <3>3. PICK p \in 0 .. Len(order[r.key]) :
            /\ r.tsw.wts <= commit_ts[t]
            /\ r.val = VersionAt(r.key, p)
            /\ WrittenBy(r.key, p, r.tsw.wts)
            /\ ValidFor(Id(t), r.key, p, commit_ts[t])
      BY <3>1, <3>2 DEF ReadsHold, ElementHolds
    <3>4. p \in 0 .. Len(order'[r.key]) /\ VersionAt(r.key, p)' = VersionAt(r.key, p)
      BY <3>2, VersionsKept DEF LocksInd
    <3>5. WrittenBy(r.key, p, c.ts)'
      <4>1. WrittenBy(r.key, p, r.tsw.wts)'
        BY <3>2, <3>3, WrittenByStays
      <4>2. r.tsw.wts \in Nat /\ c.ts \in Nat /\ r.tsw.wts <= c.ts
        BY <1>0, <3>1, <3>3, RtsType DEF TypeOK, ReadElement
      <4>3. \A d \in committed' : d.ts \in Nat
        <5>1. TypeOK'
          BY TypesStep DEF LocksInd, Next
        <5> QED
          BY <5>1 DEF TypeOK, Commitment
      <4> QED
        BY <4>1, <4>2, <4>3 DEF WrittenBy
    <3>6. ValidFor(c.id, r.key, p, c.ts)'
      <4>1. ValidFor(c.id, r.key, p, c.ts) /\ c.ts \in Nat
        <5>1. c.id = Id(t) /\ c.ts = commit_ts[t] /\ ValidFor(Id(t), r.key, p, commit_ts[t])
          BY <3>1, <3>3
        <5>2. commit_ts[t] \in Nat
          BY <1>0 DEF TypeOK
        <5>3. ValidFor(c.id, r.key, p, c.ts)
          BY <5>1 DEF ValidFor
        <5> QED
          BY <5>1, <5>2, <5>3
      <4>2. ~fail(t)
        <5>1. idx[t] \in Nat /\ Len(read_set[t]) \in Nat
          BY <1>0 DEF TypeOK
        <5> QED
          BY <3>1, <5>1 DEF commit, fail, Verifies
      <4> QED
        BY <3>2, <4>1, <4>2, ValidForStays
    <3>7. /\ e.ver = VersionAt(e.key, p)' /\ WrittenBy(e.key, p, c.ts)'
          /\ ValidFor(c.id, e.key, p, c.ts)' /\ p \in 0 .. Len(order'[e.key])
      BY <3>1, <3>3, <3>4, <3>5, <3>6
    <3> QED
      BY <3>7 DEF ReadHolds
  <2> QED
    BY <2>1, <2>2
<1> QED
  BY <1>1, <1>2 DEF ReadsHold

LEMMA RankedStep ==
    ASSUME NEW t \in Thread, PlainStep(t), ReadsHold, Ranked
    PROVE  Ranked'
<1> USE DEF PlainStep
<1>1. PICK g \in [Txn -> Nat], now \in Nat :
        \A a \in committed :
            /\ g[a.id] < now
            /\ \A b \in committed : a.id # b.id /\ ReadsFrom(a, b) => g[a.id] < g[b.id]
  BY DEF Ranked
<1>2. CASE UNCHANGED committed
  BY <1>1, <1>2 DEF Ranked
<1>3. CASE ~(UNCHANGED committed)
  <2>1. PICK d : committed' = committed \cup {d} /\ d.id = Id(t) /\ commit(t)
    <3> DEFINE R == {[key |-> r.key, ver |-> r.val] : r \in ToSet(read_set[t])}
               c == [id |-> Id(t), ts |-> commit_ts[t], reads |-> R]
    <3>1. commit(t) /\ committed' = committed \cup {c}
      BY <1>3, HistoryGrows DEF LocksInd
    <3>2. c.id = Id(t)
      OBVIOUS
    <3> HIDE DEF c
    <3> QED
      BY <3>1, <3>2
  <2>2. PICK x \in Txn : x = d.id
    BY <2>1, IdType DEF commit, LocksInd
  <2>3. \A c \in committed : c.id # x /\ c.id \in Txn
    <3>1. \A c \in committed : c.id # x
      BY <2>1, <2>2, FreshTxn DEF LocksInd, commit
    <3>2. \A c \in committed : c.id \in Txn
      BY DEF LocksInd, TypeOK, Commitment
    <3> QED
      BY <3>1, <3>2
  <2>4. \A b \in committed : ~ReadsFrom(d, b)
    <3> SUFFICES ASSUME NEW b \in committed, NEW r \in b.reads, r.ver = x PROVE FALSE
      BY <2>2 DEF ReadsFrom
    <3>1. r.key \in Key
      <4>1. b \in Commitment
        BY DEF LocksInd, TypeOK
      <4>2. r \in [key : Key, ver : Version]
        BY <4>1 DEF Commitment
      <4> QED
        BY <4>2
    <3>2. PICK p \in 0 .. Len(order[r.key]) : x = VersionAt(r.key, p)
      BY DEF ReadsHold, ReadHolds
    <3>3. DOMAIN order[r.key] = 1 .. Len(order[r.key]) /\ Len(order[r.key]) \in Nat
      BY <3>1 DEF LocksInd, TypeOK
    <3>4. p \in DOMAIN order[r.key] /\ x = order[r.key][p]
      BY <2>2, <3>2, <3>3, TicTocAssumption DEF VersionAt
    <3>5. PICK c \in committed : c.id = x
      BY <3>1, <3>4 DEF Identified
    <3> QED
      BY <2>3, <3>5
  <2> DEFINE h == [g EXCEPT ![x] = now]
  <2>5. h \in [Txn -> Nat] /\ h[x] = now /\ \A y \in Txn : y # x => h[y] = g[y]
    BY <2>2
  <2> HIDE DEF h
  <2>6. ASSUME NEW a \in committed'
        PROVE  /\ h[a.id] < now + 1
               /\ \A b \in committed' : a.id # b.id /\ ReadsFrom(a, b) => h[a.id] < h[b.id]
    <3>1. \A c \in committed : h[c.id] = g[c.id] /\ g[c.id] < now /\ g[c.id] \in Nat
      BY <1>1, <2>3, <2>5
    <3>2. h[d.id] = now
      BY <2>2, <2>5
    <3>3. CASE a = d
      BY <2>1, <2>4, <3>2, <3>3
    <3>4. CASE a \in committed
      <4>1. h[a.id] < now + 1
        BY <3>1, <3>4
      <4>2. ASSUME NEW b \in committed', a.id # b.id, ReadsFrom(a, b)
            PROVE  h[a.id] < h[b.id]
        <5>1. CASE b = d
          BY <3>1, <3>2, <3>4, <5>1
        <5>2. CASE b \in committed
          BY <1>1, <3>1, <3>4, <4>2, <5>2
        <5> QED
          BY <2>1, <5>1, <5>2
      <4> QED
        BY <4>1, <4>2
    <3> QED
      BY <2>1, <3>3, <3>4
  <2> QED
    BY <2>5, <2>6 DEF Ranked
<1> QED
  BY <1>2, <1>3

LEMMA PlainInit ==
    ASSUME Init
    PROVE  Identified /\ TimestampsRise /\ CopiesHold /\ ReadsHold /\ Ranked
<1> USE DEF Init
<1>1. Identified
  BY DEF Identified, VersionAt
<1>2. TimestampsRise
  <2>1. \A t \in Thread : Locks(t) = {}
    BY DEF Locks, First
  <2> QED
    BY <2>1 DEF TimestampsRise
<1>3. CopiesHold
  BY DEF CopiesHold
<1>4. ReadsHold
  BY DEF ReadsHold
<1>5. Ranked
  <2>1. [x \in Txn |-> 0] \in [Txn -> Nat] /\ 0 \in Nat
    OBVIOUS
  <2> QED
    BY <2>1 DEF Ranked
<1> QED
  BY <1>1, <1>2, <1>3, <1>4, <1>5

LEMMA PlainStutters ==
    ASSUME UNCHANGED vars \/ Joined \/ Quit,
           Identified /\ TimestampsRise /\ CopiesHold /\ ReadsHold /\ Ranked
    PROVE  (Identified /\ TimestampsRise /\ CopiesHold /\ ReadsHold /\ Ranked)'
<1>1. UNCHANGED << tsw, val, pc, pro_set, pos, v1, return_val, read_set, write_set, commit_ts, idx,
                   held, txn, committed, order >>
  BY DEF vars, Joined, Quit, sets, history, copies, timestamps, records, build
<1>2. \A t \in Thread : /\ Locks(t)' = Locks(t) /\ Id(t)' = Id(t) /\ WriteKey(t)' = WriteKey(t)
                        /\ (Validates(t)' <=> Validates(t)) /\ OpKey(t)' = OpKey(t)
  BY <1>1 DEF Locks, First, Id, WriteKey, Validates, OpKey
<1>3. Identified'
  BY <1>1 DEF Identified, VersionAt, Id
<1>4. TimestampsRise'
  BY <1>1, <1>2 DEF TimestampsRise
<1>5. CopiesHold'
  BY <1>1, <1>2 DEF CopiesHold, CopyHolds, Publishing
<1>6. ReadsHold'
  <2>1. \A k, p, ts : WrittenBy(k, p, ts)' <=> WrittenBy(k, p, ts)
    BY <1>1 DEF WrittenBy
  <2>2. \A i, k, p, ts : ValidFor(i, k, p, ts)' <=> ValidFor(i, k, p, ts)
    BY <1>1, <1>2 DEF ValidFor
  <2>3. ASSUME NEW c \in committed, NEW e \in c.reads
        PROVE  ReadHolds(c, e)'
    BY <1>1, <2>1, <2>2 DEF ReadsHold, ReadHolds, VersionAt
  <2>4. ASSUME NEW t \in Thread, NEW i \in DOMAIN read_set[t], NEW e \in ReadElement,
               e = read_set[t][i]
        PROVE  ElementHolds(t, i, e)'
    <3>1. ElementHolds(t, i, e)
      BY <2>4 DEF ReadsHold
    <3> QED
      BY <1>1, <1>2, <2>1, <3>1 DEF ElementHolds, VersionAt, Outlasts, Passed, ValidFor
  <2> QED
    BY <1>1, <2>3, <2>4 DEF ReadsHold
<1>7. Ranked'
  BY <1>1 DEF Ranked
<1> QED
  BY <1>3, <1>4, <1>5, <1>6, <1>7

LEMMA PlainInvariance == Spec => []PlainInd
<1>1. Init /\ LocksInd => PlainInd
  BY PlainInit DEF PlainInd
<1>2. PlainInd /\ LocksInd' /\ [Next]_vars => PlainInd'
  <2> SUFFICES ASSUME PlainInd, LocksInd', [Next]_vars PROVE PlainInd'
    OBVIOUS
  <2>1. Plain' = Plain
    BY BuildStays DEF build, Plain, AbortsTake
  <2>2. CASE ~Plain
    BY <2>1, <2>2 DEF PlainInd
  <2>3. CASE Plain
    <3>1. CASE UNCHANGED vars \/ Joined \/ Quit
      BY <2>3, <3>1, PlainStutters DEF PlainInd
    <3>2. ASSUME NEW t \in Thread, worker(t)
          PROVE  PlainInd'
      <4>1. PlainStep(t) /\ CopiesHold /\ ReadsHold /\ Ranked
        BY <2>3, <3>2 DEF PlainInd, PlainStep
      <4>2. Identified' /\ TimestampsRise'
        BY <4>1, IdentifiedStep, TimestampsRiseStep DEF PlainStep
      <4>3. CopiesHold' /\ ReadsHold' /\ Ranked'
        BY <4>1, CopiesHoldStep, ReadsHoldStep, RankedStep
      <4> QED
        BY <4>2, <4>3 DEF PlainInd
    <3> QED
      BY <3>1, <3>2 DEF Next
  <2> QED
    BY <2>2, <2>3
<1> QED
  BY <1>1, <1>2, LocksInvariance, PTL DEF Spec

-----------------------------------------------------------------------------
(* Dependencies *)

\* Committed transactions and what they read have types.
LEMMA CommittedType ==
    ASSUME TypeOK, NEW a \in committed
    PROVE  /\ a.id \in Txn /\ a.ts \in Nat
           /\ \A r \in a.reads : r.key \in Key
<1>1. a \in Commitment
  BY DEF TypeOK
<1>2. a.id \in Txn /\ a.ts \in Nat /\ a.reads \subseteq [key : Key, ver : Version]
  BY <1>1 DEF Commitment
<1> QED
  BY <1>2

\* A version has one place.
LEMMA OnePlace ==
    ASSUME TypeOK, Identified, TimestampsRise, NEW k \in Key, NEW p \in 0 .. Len(order[k])
    PROVE  Place(order[k], VersionAt(k, p)) = p
<1>1. order[k] \in Seq(Txn) /\ DOMAIN order[k] = 1 .. Len(order[k]) /\ Len(order[k]) \in Nat
  BY DEF TypeOK
<1>2. \A i \in DOMAIN order[k] : order[k][i] \in Txn
  BY <1>1
<1>3. CASE p = 0
  BY <1>2, <1>3, TicTocAssumption DEF Place, VersionAt
<1>4. CASE p # 0
  <2> DEFINE q == Place(order[k], order[k][p])
  <2>1. p \in DOMAIN order[k] /\ VersionAt(k, p) = order[k][p]
    BY <1>1, <1>4 DEF VersionAt
  <2>2. q \in DOMAIN order[k] /\ order[k][q] = order[k][p]
    BY <1>1, <2>1, PlaceFound
  <2> HIDE DEF q
  <2>3. PICK c \in committed : c.id = order[k][p]
    BY <2>1 DEF Identified
  <2>4. c.ts \in Nat
    BY CommittedType
  <2>5. ~(q < p) /\ ~(p < q)
    BY <2>1, <2>2, <2>3, <2>4 DEF TimestampsRise
  <2>6. q = p
    BY <1>1, <2>1, <2>2, <2>5
  <2> QED
    BY <2>1, <2>6 DEF q
<1> QED
  BY <1>3, <1>4

\* Commit timestamps agree with the three kinds of dependency.
LEMMA DependenciesOrdered ==
    ASSUME PlainInd, Plain, NEW a \in committed, NEW b \in committed, a.id # b.id
    PROVE  /\ ReadsFrom(a, b) => a.ts <= b.ts
           /\ Overwrites(order, a, b) => a.ts < b.ts
           /\ AntiDepends(order, a, b) => a.ts < b.ts
<1>0. /\ TypeOK /\ Identified /\ TimestampsRise /\ ReadsHold
      /\ \A k \in Key : order[k] \in Seq(Txn) /\ DOMAIN order[k] = 1 .. Len(order[k])
                        /\ Len(order[k]) \in Nat
      /\ DOMAIN order = Key
  BY DEF PlainInd, LocksInd, TypeOK
<1>1. ASSUME ReadsFrom(a, b)
      PROVE  a.ts <= b.ts
  <2>1. PICK r \in b.reads : r.ver = a.id
    BY <1>1 DEF ReadsFrom
  <2>2. r.key \in Key /\ a.id \in Txn
    BY <1>0, CommittedType
  <2>3. PICK p \in 0 .. Len(order[r.key]) : a.id = VersionAt(r.key, p) /\ WrittenBy(r.key, p, b.ts)
    BY <1>0, <2>1 DEF ReadsHold, ReadHolds
  <2>4. p > 0 /\ a.id = order[r.key][p]
    BY <1>0, <2>2, <2>3, TicTocAssumption DEF VersionAt
  <2> QED
    BY <2>3, <2>4 DEF WrittenBy
<1>2. ASSUME Overwrites(order, a, b)
      PROVE  a.ts < b.ts
  <2>1. PICK k \in Key : /\ Place(order[k], a.id) > 0
                         /\ Place(order[k], a.id) < Place(order[k], b.id)
    BY <1>0, <1>2 DEF Overwrites
  <2>2. Place(order[k], a.id) \in Nat /\ Place(order[k], b.id) \in Nat
    BY <1>0, PlaceFound
  <2>3. /\ Place(order[k], a.id) \in DOMAIN order[k] /\ order[k][Place(order[k], a.id)] = a.id
        /\ Place(order[k], b.id) \in DOMAIN order[k] /\ order[k][Place(order[k], b.id)] = b.id
    <3>1. Place(order[k], b.id) > 0
      BY <2>1, <2>2
    <3> QED
      BY <1>0, <2>1, <3>1, PlaceFound
  <2> QED
    BY <1>0, <2>1, <2>3 DEF TimestampsRise
<1>3. ASSUME AntiDepends(order, a, b)
      PROVE  a.ts < b.ts
  <2>1. PICK r \in a.reads : Place(order[r.key], r.ver) < Place(order[r.key], b.id)
    BY <1>3 DEF AntiDepends
  <2>2. PICK k \in Key : k = r.key
    BY <1>0, CommittedType
  <2>3. PICK p \in 0 .. Len(order[k]) : r.ver = VersionAt(k, p) /\ ValidFor(a.id, k, p, a.ts)
    BY <1>0, <2>2 DEF ReadsHold, ReadHolds
  <2>4. Place(order[k], r.ver) = p
    BY <1>0, <2>3, OnePlace
  <2>5. PICK q \in Nat : q = Place(order[k], b.id)
    BY <1>0, PlaceFound
  <2>6. p < q /\ q > 0
    BY <2>1, <2>2, <2>4, <2>5
  <2>7. q \in DOMAIN order[k] /\ order[k][q] = b.id
    BY <1>0, <2>5, <2>6, PlaceFound
  <2> QED
    BY <2>3, <2>6, <2>7 DEF ValidFor
<1> QED
  BY <1>1, <1>2, <1>3

LEMMA Ordered ==
    ASSUME PlainInd
    PROVE  TimestampOrder /\ SerializableWithoutHistory
<1>1. TimestampOrder
  BY DependenciesOrdered DEF TimestampOrder, Plain
<1>2. ASSUME Plain
      PROVE  Serializable(committed, order)
  <2>1. PICK g \in [Txn -> Nat] :
          \A a, b \in committed : a.id # b.id /\ ReadsFrom(a, b) => g[a.id] < g[b.id]
    BY <1>2 DEF PlainInd, Ranked
  <2> DEFINE f == [c \in committed |-> c.ts]
             h == [c \in committed |-> g[c.id]]
  <2>2. f \in [committed -> Nat] /\ h \in [committed -> Nat]
    BY CommittedType DEF PlainInd, LocksInd
  <2>3. ASSUME NEW a \in committed, NEW b \in committed, MustPrecede(order, a, b)
        PROVE  f[a] < f[b] \/ (f[a] = f[b] /\ h[a] < h[b])
    <3>1. f[a] = a.ts /\ f[b] = b.ts /\ h[a] = g[a.id] /\ h[b] = g[b.id]
      OBVIOUS
    <3>2. a.ts \in Nat /\ b.ts \in Nat
      BY CommittedType DEF PlainInd, LocksInd
    <3> HIDE DEF f, h
    <3>3. CASE ReadsFrom(a, b)
      <4>1. a.ts <= b.ts /\ g[a.id] < g[b.id]
        BY <1>2, <2>1, <2>3, <3>3, DependenciesOrdered DEF MustPrecede
      <4> QED
        BY <3>1, <3>2, <4>1
    <3>4. CASE ~ReadsFrom(a, b)
      <4>1. a.ts < b.ts
        BY <1>2, <2>3, <3>4, DependenciesOrdered DEF MustPrecede
      <4> QED
        BY <3>1, <4>1
    <3> QED
      BY <3>3, <3>4
  <2> HIDE DEF f, h
  <2> QED
    BY <2>2, <2>3, RankedSerializable
<1> QED
  BY <1>1, <1>2 DEF SerializableWithoutHistory, SerializableCommits, Plain

\* Commit timestamps agree with every dependency: a transaction is later than those
\* whose writes it overwrites and than those that read what it overwrites, and not
\* earlier than those whose writes it reads.
THEOREM TimestampsAgree == Spec => []TimestampOrder
BY PlainInvariance, Ordered, PTL

\* The committed transactions are serializable, in their timestamps' order, by the
\* locks, the computed commit timestamps and the validation of the reads.
THEOREM TicTocIsSerializable == Spec => []SerializableWithoutHistory
BY PlainInvariance, Ordered, PTL
=============================================================================
