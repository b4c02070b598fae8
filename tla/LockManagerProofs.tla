-------------------------- MODULE LockManagerProofs --------------------------
(***************************************************************************)
(* The programs that promise TxOrder, for every number of workers, records *)
(* and transactions: what transactions read and the order in which records *)
(* are written are decided by the numbers alone.                           *)
(*                                                                         *)
(* First the lock manager, as long as no wait list moves in memory under a *)
(* reader (~Racing), whose wait lists stay in order besides.  The          *)
(* argument: the giant lock makes registration follow the numbers, so a    *)
(* lock is taken at the head of a list only after every transaction before *)
(* it has passed that list; and a writer's lock keeps those behind it out. *)
(*                                                                         *)
(* Then Determinism, an instance D: what has a counterpart in the first    *)
(* part has its name with D_ before it.  A worker that has taken all its   *)
(* locks under the giant lock holds what it may access, so no later        *)
(* transaction that conflicts with it can have taken its own; a record     *)
(* that no running transaction may write therefore holds what the last     *)
(* transaction before tx_counter wrote.                                    *)
(*                                                                         *)
(* Last SS2PL, which has the same locks and numbers them not at all, as an *)
(* instance S, with S_ before its names: what is held is what the lists of *)
(* locks say, so what a transaction has read stays until it commits, and a *)
(* transaction that begins to commit executes at that moment in the serial *)
(* store.                                                                  *)
(***************************************************************************)
EXTENDS LockManager, TwoPhase, CommonProofs, SequenceTheorems, TLAPS

Version == TxId \cup {None}
Read == [key : Key, ver : Version]

Types ==
    /\ quit \in BOOLEAN
    /\ giant \in Thread \cup {None}
    /\ tx_counter \in Nat /\ FirstTx <= tx_counter
    /\ pre \in [TxId -> Seq(Task)]
    /\ wait_list \in [Key -> Seq(TxId)]
    /\ lock \in [Key -> Int]
    /\ value \in [Key -> Version]
    /\ pc \in [Thread -> {"idle", "regist", "wait", "exec", "unlock", "done"}]
    /\ tx_id \in [Thread -> Version]
    /\ pos \in [Thread -> Nat \ {0}]
    /\ future \in [Thread -> Seq(Task)]
    /\ cur \in [Thread -> Nat \ {0}]
    /\ dangling = [t \in Thread |-> FALSE]
    /\ rlocks \in [Thread -> SUBSET Key]
    /\ wlocks \in [Thread -> SUBSET Key]
    /\ reads \in [Thread -> SUBSET Read]
    /\ committed \subseteq [id : TxId, reads : SUBSET Read]
    /\ order \in [Key -> Seq(TxId)]

\* The counters of the locks and the lists of their holders agree.
Counted == LocksAgree(Thread, Key, lock, rlocks, wlocks)

\* The tasks of transaction i before task n access k, or write it.
Touches(i, n, k) == \E m \in DOMAIN pre[i] : m < n /\ pre[i][m].key = k
Writes(i, n, k) ==
    \E m \in DOMAIN pre[i] : m < n /\ pre[i][m].key = k /\ pre[i][m].op = "WRITE"

\* Transaction i writes k.
WritesTo(i, k) ==
    \E m \in DOMAIN pre[i] : pre[i][m].key = k /\ pre[i][m].op = "WRITE"

Busy(t) == pc[t] \in {"regist", "wait", "exec", "unlock"}

\* Who registers has the giant lock, for the transaction counted last.
WorkerMatches(t) ==
    /\ Busy(t) => tx_id[t] \in TxId /\ tx_id[t] < tx_counter
    /\ pc[t] = "regist" =>
          /\ giant = t /\ tx_counter = tx_id[t] + 1
          /\ rlocks[t] = {} /\ wlocks[t] = {}
    /\ pc[t] = "wait" => cur[t] \in DOMAIN future[t] /\ pos[t] = 1
    /\ pc[t] \notin {"regist", "wait"} => future[t] = << >>
    /\ ~Busy(t) => rlocks[t] = {} /\ wlocks[t] = {}
    /\ pc[t] \notin {"exec", "unlock"} => reads[t] = {}

\* No transaction is run by two workers.
Dispatched ==
    /\ \A t \in Thread : WorkerMatches(t)
    /\ \A t, u \in Thread : Busy(t) /\ Busy(u) /\ tx_id[t] = tx_id[u] => t = u

\* How far a worker has come in registering.
Reach(t) == IF pc[t] = "regist" THEN pos[t] ELSE Len(Tasks(t)) + 1

Has(t, k) == k \in rlocks[t] \cup wlocks[t]

\* A worker waits for, or has, the lock on each record its tasks access, and for
\* writing if one writes.
Covered(t, k) ==
    pc[t] \in {"regist", "wait", "exec"} =>
        /\ Touches(tx_id[t], Reach(t), k) <=> Pending(t, k) \/ Has(t, k)
        /\ Pending(t, k) => ~Has(t, k)
        /\ \A a \in DOMAIN future[t] : future[t][a].key = k =>
              (future[t][a].op = "WRITE" <=> Writes(tx_id[t], Reach(t), k))
        /\ Has(t, k) => (k \in wlocks[t] <=> Writes(tx_id[t], Reach(t), k))

OneEntry(t) ==
    \A a, b \in DOMAIN future[t] : future[t][a].key = future[t][b].key => a = b

LocksCover == \A t \in Thread : OneEntry(t) /\ \A k \in Key : Covered(t, k)

\* The entries of the wait lists are of transactions that have been counted.
Listed(k) == \A i \in DOMAIN wait_list[k] : wait_list[k][i] < tx_counter
ListsMatch == WaitListsInOrder /\ \A k \in Key : Listed(k)

Base == Types /\ Counted /\ Dispatched /\ LocksCover /\ ListsMatch

\* Transaction j is counted, and its worker is past the wait list of k.
Behind(t, j, k) == pc[t] \in {"regist", "wait"} /\ tx_id[t] = j /\ ~Has(t, k)
Passed(j, k) == j < tx_counter /\ \A t \in Thread : ~Behind(t, j, k)

\* While a worker has a lock on k, the writers before it are past the wait list,
\* and while it has or waits for one, those after it are not.
InTurn ==
    \A t \in Thread, k \in Key, j \in TxId : WritesTo(j, k) =>
        /\ Has(t, k) /\ j < tx_id[t] => Passed(j, k)
        /\ Has(t, k) \/ Pending(t, k) => ~(j > tx_id[t] /\ Passed(j, k))

\* The writers of k that are past the wait list.
PassedWriters(k) == {j \in TxId : WritesTo(j, k) /\ Passed(j, k)}

\* v is the last of S, or None if there is none.
Latest(S, v) ==
    /\ v = None \/ v \in S
    /\ \A j \in S : v # None /\ j <= v

MayWrite(t, k) == pc[t] \in {"wait", "exec"} /\ k \in wlocks[t]

\* What record k holds while t, who may write it, runs ...
WhileWritten(t, k) ==
    IF pc[t] = "exec" /\ Writes(tx_id[t], pos[t], k) THEN value[k] = tx_id[t]
    ELSE Latest(PassedWriters(k) \ {tx_id[t]}, value[k])

\* ... and at any other time.
HoldsAt(k) ==
    /\ \A t \in Thread : MayWrite(t, k) => WhileWritten(t, k)
    /\ (\A t \in Thread : ~MayWrite(t, k)) => Latest(PassedWriters(k), value[k])

Holding == \A k \in Key : HoldsAt(k)

\* Version v of k is in the database, or it is the loaded one.
Stored(k, v) == v = None \/ \E m \in DOMAIN order[k] : order[k][m] = v

\* r is what the transactions before i, and i itself, determine.
Decided(i, r) ==
    /\ r.ver = None \/ (r.ver \in TxId /\ r.ver <= i /\ WritesTo(r.ver, r.key))
    /\ \A j \in TxId : WritesTo(j, r.key) /\ j < i => r.ver # None /\ j <= r.ver

ReadsDecided ==
    /\ \A t \in Thread : \A r \in reads[t] : Decided(tx_id[t], r) /\ Stored(r.key, r.ver)
    /\ \A a \in committed : \A r \in a.reads : Decided(a.id, r) /\ Stored(r.key, r.ver)

\* The writers of a record are past its wait list, and in order.
OrderIncreasing ==
    \A k \in Key :
        /\ Stored(k, value[k])
        /\ \A i \in DOMAIN order[k] : WritesTo(order[k][i], k) /\ Passed(order[k][i], k)
        /\ \A i, j \in DOMAIN order[k] : i < j => order[k][i] < order[k][j]

Inv == Base /\ InTurn /\ Holding /\ ReadsDecided /\ OrderIncreasing

-----------------------------------------------------------------------------
(* Tasks *)

LEMMA TasksTyped ==
    ASSUME Types, NEW i \in TxId
    PROVE  /\ pre[i] \in Seq(Task) /\ Len(pre[i]) \in Nat
           /\ DOMAIN pre[i] = 1 .. Len(pre[i])
           /\ \A n \in 1 .. Len(pre[i]) :
                 /\ pre[i][n] \in Task
                 /\ pre[i][n].op \in {"READ", "WRITE"} /\ pre[i][n].key \in Key
<1>1. pre[i] \in Seq(Task)
  BY DEF Types
<1>2. Len(pre[i]) \in Nat /\ DOMAIN pre[i] = 1 .. Len(pre[i])
  BY <1>1
<1>3. \A n \in 1 .. Len(pre[i]) : pre[i][n] \in Task
  BY <1>1
<1> QED
  BY <1>1, <1>2, <1>3 DEF Task

\* The tasks before n + 1 are those before n, and n.
LEMMA TaskNext ==
    ASSUME Types, NEW i \in TxId, NEW n \in 1 .. Len(pre[i]), NEW k
    PROVE  /\ Touches(i, n + 1, k) <=> Touches(i, n, k) \/ pre[i][n].key = k
           /\ Writes(i, n + 1, k) <=>
                  Writes(i, n, k) \/ (pre[i][n].op = "WRITE" /\ pre[i][n].key = k)
<1>1. n \in Nat /\ DOMAIN pre[i] = 1 .. Len(pre[i]) /\ Len(pre[i]) \in Nat
  BY TasksTyped
<1>2. \A m \in DOMAIN pre[i] : m < n + 1 <=> m < n \/ m = n
  BY <1>1
<1>3. Touches(i, n + 1, k) <=> Touches(i, n, k) \/ pre[i][n].key = k
  BY <1>1, <1>2 DEF Touches
<1>4. Writes(i, n + 1, k) <=>
          Writes(i, n, k) \/ (pre[i][n].op = "WRITE" /\ pre[i][n].key = k)
  BY <1>1, <1>2 DEF Writes
<1> QED
  BY <1>3, <1>4

\* Before the first task there is none; past the last, all are.
LEMMA TaskEnds ==
    ASSUME Types, NEW i \in TxId, NEW k
    PROVE  /\ ~Touches(i, 1, k) /\ ~Writes(i, 1, k)
           /\ \A n \in Nat : Writes(i, n, k) => WritesTo(i, k) /\ Touches(i, n, k)
           /\ \A n \in Nat : n > Len(pre[i]) =>
                 /\ Touches(i, n, k) <=> Touches(i, Len(pre[i]) + 1, k)
                 /\ Writes(i, n, k) <=> WritesTo(i, k)
<1>1. DOMAIN pre[i] = 1 .. Len(pre[i]) /\ Len(pre[i]) \in Nat
  BY TasksTyped
<1>2. \A m \in DOMAIN pre[i] : m \in Nat /\ m >= 1 /\ m <= Len(pre[i])
  BY <1>1
<1>3. ~Touches(i, 1, k) /\ ~Writes(i, 1, k)
  BY <1>2 DEF Touches, Writes
<1>4. ASSUME NEW n \in Nat, n > Len(pre[i])
      PROVE  \A m \in DOMAIN pre[i] : m < n /\ m < Len(pre[i]) + 1
  BY <1>1, <1>2, <1>4
<1>5. ASSUME NEW n \in Nat, n > Len(pre[i])
      PROVE  /\ Touches(i, n, k) <=> Touches(i, Len(pre[i]) + 1, k)
             /\ Writes(i, n, k) <=> WritesTo(i, k)
  BY <1>4, <1>5 DEF Touches, Writes, WritesTo
<1>6. \A n \in Nat : Writes(i, n, k) => WritesTo(i, k) /\ Touches(i, n, k)
  BY DEF Writes, WritesTo, Touches
<1> QED
  BY <1>3, <1>5, <1>6

\* The task a worker registers or executes.
LEMMA TaskAt ==
    ASSUME Types, Dispatched, NEW t \in Thread, Busy(t), pos[t] <= Len(Tasks(t))
    PROVE  /\ tx_id[t] \in TxId /\ Tasks(t) = pre[tx_id[t]]
           /\ pos[t] \in 1 .. Len(pre[tx_id[t]])
           /\ Tasks(t)[pos[t]] \in Task
           /\ Tasks(t)[pos[t]].key \in Key
           /\ Tasks(t)[pos[t]].op \in {"READ", "WRITE"}
<1>1. tx_id[t] \in TxId /\ Tasks(t) = pre[tx_id[t]]
  BY DEF Dispatched, WorkerMatches, Tasks
<1>2. pos[t] \in 1 .. Len(Tasks(t))
  BY <1>1, TasksTyped DEF Types
<1> QED
  BY <1>1, <1>2, TasksTyped

\* dup_check tells whether, and how, the record has been accessed before.
LEMMA DupCheck ==
    ASSUME Types, Dispatched, NEW t \in Thread, Busy(t), pos[t] <= Len(Tasks(t)), NEW k
    PROVE  /\ dup_check(t, k) \in {"NONE", "READ", "WRITE"}
           /\ dup_check(t, k) = "NONE" <=> ~Touches(tx_id[t], pos[t], k)
           /\ dup_check(t, k) = "WRITE" => Writes(tx_id[t], pos[t], k)
<1> DEFINE i == tx_id[t]
           earlier == {m \in 1 .. pos[t] - 1 : Tasks(t)[m].key = k}
           first == CHOOSE m \in earlier : \A j \in earlier : m <= j
<1>1. i \in TxId /\ Tasks(t) = pre[i] /\ pos[t] \in 1 .. Len(pre[i])
  BY TaskAt
<1>2. DOMAIN pre[i] = 1 .. Len(pre[i]) /\ Len(pre[i]) \in Nat
  BY <1>1, TasksTyped
<1>3. \A m : m \in earlier <=> m \in DOMAIN pre[i] /\ m < pos[t] /\ pre[i][m].key = k
  BY <1>1, <1>2
<1>4. earlier = {} <=> ~Touches(i, pos[t], k)
  BY <1>3 DEF Touches
<1>5. CASE earlier = {}
  BY <1>4, <1>5 DEF dup_check
<1>6. CASE earlier # {}
  <2>1. earlier \subseteq Nat
    BY <1>1
  <2>2. first \in earlier
    <3> HIDE DEF earlier
    <3> QED
      BY <1>6, <2>1, HasMinimum
  <2>3. dup_check(t, k) = pre[i][first].op
    BY <1>1, <1>6 DEF dup_check
  <2> HIDE DEF first
  <2>4. first \in DOMAIN pre[i] /\ first < pos[t] /\ pre[i][first].key = k
    BY <1>3, <2>2
  <2>5. pre[i][first].op \in {"READ", "WRITE"}
    BY <1>1, <1>2, <2>4, TasksTyped
  <2>6. dup_check(t, k) = "WRITE" => Writes(i, pos[t], k)
    BY <2>3, <2>4 DEF Writes
  <2> QED
    BY <1>4, <1>6, <2>3, <2>5, <2>6
<1> QED
  BY <1>5, <1>6

\* Striking one element off a sequence.
LEMMA Strike ==
    ASSUME NEW S, NEW s \in Seq(S), NEW i \in 1 .. Len(s)
    PROVE  /\ RemoveAt(s, i) \in Seq(S)
           /\ Len(RemoveAt(s, i)) = Len(s) - 1
           /\ DOMAIN RemoveAt(s, i) = 1 .. Len(s) - 1
           /\ \A m \in 1 .. Len(s) - 1 :
                 RemoveAt(s, i)[m] = IF m < i THEN s[m] ELSE s[m + 1]
<1> DEFINE a == SubSeq(s, 1, i - 1)
           b == SubSeq(s, i + 1, Len(s))
<1>1. Len(s) \in Nat /\ i \in Nat /\ \A m \in 1 .. Len(s) : s[m] \in S
  OBVIOUS
<1>2. /\ a \in Seq(S) /\ Len(a) = i - 1
      /\ \A m \in 1 .. i - 1 : a[m] = s[m]
  <2>1. \A m \in 1 .. i - 1 : s[m] \in S
    BY <1>1
  <2> HIDE DEF a
  <2>2. /\ a \in Seq(S) /\ Len(a) = IF 1 <= i - 1 THEN i - 1 - 1 + 1 ELSE 0
        /\ \A m \in 1 .. i - 1 - 1 + 1 : a[m] = s[1 + m - 1]
    BY <1>1, <2>1, SubSeqProperties DEF a
  <2> QED
    BY <1>1, <2>2
<1>3. /\ b \in Seq(S) /\ Len(b) = Len(s) - i
      /\ \A m \in 1 .. Len(s) - i : b[m] = s[i + m]
  <2>1. \A m \in i + 1 .. Len(s) : s[m] \in S
    BY <1>1
  <2> HIDE DEF b
  <2>2. /\ b \in Seq(S) /\ Len(b) = IF i + 1 <= Len(s) THEN Len(s) - (i + 1) + 1 ELSE 0
        /\ \A m \in 1 .. Len(s) - (i + 1) + 1 : b[m] = s[i + 1 + m - 1]
    BY <1>1, <2>1, SubSeqProperties DEF b
  <2> QED
    BY <1>1, <2>2
<1>4. RemoveAt(s, i) = a \o b
  BY DEF RemoveAt
<1> HIDE DEF a, b
<1>5. /\ a \o b \in Seq(S) /\ Len(a \o b) = Len(s) - 1
      /\ \A m \in 1 .. Len(s) - 1 :
            (a \o b)[m] = IF m <= i - 1 THEN a[m] ELSE b[m - (i - 1)]
  BY <1>1, <1>2, <1>3, ConcatProperties
<1>6. ASSUME NEW m \in 1 .. Len(s) - 1
      PROVE  (a \o b)[m] = IF m < i THEN s[m] ELSE s[m + 1]
  <2>1. CASE m < i
    BY <1>1, <1>2, <1>5, <2>1
  <2>2. CASE ~(m < i)
    <3>1. m - (i - 1) \in 1 .. Len(s) - i /\ i + (m - (i - 1)) = m + 1 /\ ~(m <= i - 1)
      BY <1>1, <2>2
    <3> QED
      BY <1>3, <1>5, <2>2, <3>1
  <2> QED
    BY <2>1, <2>2
<1>7. DOMAIN (a \o b) = 1 .. Len(s) - 1
  BY <1>5, LenProperties
<1> QED
  BY <1>4, <1>5, <1>6, <1>7

\* The entry a waiting worker looks at.
LEMMA EntryAt ==
    ASSUME Types, Dispatched, NEW t \in Thread, pc[t] = "wait"
    PROVE  /\ cur[t] \in 1 .. Len(future[t]) /\ DOMAIN future[t] = 1 .. Len(future[t])
           /\ future[t] \in Seq(Task) /\ future[t][cur[t]] \in Task
           /\ future[t][cur[t]].key \in Key
           /\ future[t][cur[t]].op \in {"READ", "WRITE"}
           /\ Pending(t, future[t][cur[t]].key)
           /\ tx_id[t] \in TxId /\ tx_id[t] < tx_counter
<1>1. future[t] \in Seq(Task) /\ cur[t] \in DOMAIN future[t]
  BY DEF Types, Dispatched, WorkerMatches
<1>2. DOMAIN future[t] = 1 .. Len(future[t]) /\ future[t][cur[t]] \in Task
  BY <1>1
<1> QED
  BY <1>1, <1>2 DEF Task, Pending, Dispatched, WorkerMatches, Busy

\* A lock is taken by the worker whose number is at the head of the list.
LEMMA AtHead ==
    ASSUME Types, Dispatched, ListsMatch, NEW t \in Thread, grant(t)
    PROVE  LET k == future[t][cur[t]].key
           IN  /\ wait_list[k] \in Seq(TxId) /\ wait_list[k] # << >>
               /\ DOMAIN wait_list[k] = 1 .. Len(wait_list[k])
               /\ wait_list[k][1] = tx_id[t]
               /\ pc[t] = "wait" /\ k \in Key /\ tx_id[t] \in TxId
<1> DEFINE k == future[t][cur[t]].key
<1>1. k \in Key /\ Pending(t, k) /\ pc[t] = "wait" /\ tx_id[t] \in TxId
  BY EntryAt DEF grant
<1> HIDE DEF k
<1>2. wait_list[k] \in Seq(TxId) /\ DOMAIN wait_list[k] = 1 .. Len(wait_list[k])
  BY <1>1 DEF Types
<1>3. wait_list[k] # << >>
  <2>1. \E i \in DOMAIN wait_list[k] : wait_list[k][i] = tx_id[t]
    BY <1>1 DEF ListsMatch, WaitListsInOrder
  <2> QED
    BY <1>2, <2>1
<1>4. tx_id[t] \in Heads(t, k) /\ ~dangling[t]
  BY DEF grant, Types, k
<1>5. wait_list[k][1] = tx_id[t]
  BY <1>3, <1>4 DEF Heads
<1> QED
  BY <1>1, <1>2, <1>3, <1>5 DEF k

-----------------------------------------------------------------------------
(* Types *)

LEMMA InitInv == Init => Inv
<1> SUFFICES ASSUME Init
             PROVE  Inv
  OBVIOUS
<1> USE LockManagerAssumption
<1>1. Types
  <2>1. pre \in [TxId -> Seq(Task)]
    BY DEF Init
  <2>2. /\ lock \in [Key -> Int] /\ value \in [Key -> Version]
        /\ order \in [Key -> Seq(TxId)] /\ wait_list \in [Key -> Seq(TxId)]
        /\ committed = {}
    BY DEF Init, Version, Free
  <2>3. /\ pc \in [Thread -> {"idle", "regist", "wait", "exec", "unlock", "done"}]
        /\ tx_id \in [Thread -> Version] /\ pos \in [Thread -> Nat \ {0}]
        /\ future \in [Thread -> Seq(Task)] /\ cur \in [Thread -> Nat \ {0}]
        /\ dangling = [t \in Thread |-> FALSE]
    BY DEF Init, Version
  <2>4. /\ rlocks \in [Thread -> SUBSET Key] /\ wlocks \in [Thread -> SUBSET Key]
        /\ reads \in [Thread -> SUBSET Read]
    BY DEF Init
  <2>5. quit \in BOOLEAN /\ giant = None /\ tx_counter = FirstTx /\ FirstTx \in Nat
    BY DEF Init
  <2> QED
    BY <2>1, <2>2, <2>3, <2>4, <2>5 DEF Types
<1>2. Counted
  BY FreeAgrees DEF Init, Counted
<1>3. /\ \A t \in Thread : /\ pc[t] = "idle" /\ future[t] = << >> /\ reads[t] = {}
                           /\ rlocks[t] = {} /\ wlocks[t] = {}
      /\ \A k \in Key : wait_list[k] = << >> /\ order[k] = << >> /\ value[k] = None
      /\ committed = {} /\ tx_counter = FirstTx
  BY DEF Init
<1>4. Dispatched
  BY <1>3 DEF Dispatched, WorkerMatches, Busy
<1>5. LocksCover
  BY <1>3 DEF LocksCover, OneEntry, Covered
<1>6. ListsMatch
  BY <1>3 DEF ListsMatch, WaitListsInOrder, Pending, Listed
<1>7. InTurn
  BY <1>3 DEF InTurn, Has, Pending
<1>8. Holding
  <2>1. \A j \in TxId : \A k : ~Passed(j, k)
    BY <1>3 DEF Passed, TxId
  <2> QED
    BY <1>3, <2>1 DEF Holding, HoldsAt, MayWrite, Latest, PassedWriters
<1>9. ReadsDecided /\ OrderIncreasing
  BY <1>3 DEF ReadsDecided, OrderIncreasing, Stored
<1> QED
  BY <1>1, <1>2, <1>4, <1>5, <1>6, <1>7, <1>8, <1>9 DEF Inv, Base

\* Transactions are drawn before the run.
LEMMA PreKept ==
    ASSUME [Next]_vars
    PROVE  pre' = pre
<1>1. ASSUME NEW t \in Thread, worker(t)
      PROVE  pre' = pre
  BY <1>1 DEF worker, leave, acquireGiant, regist, releaseGiant, grant, pass, execute,
              commit, readUnlock, writeUnlock, finish, dispatch
<1>2. CASE Quit \/ Joined \/ UNCHANGED vars
  BY <1>2 DEF Quit, Joined, vars
<1> QED
  BY <1>1, <1>2 DEF Next

\* What regist does: an entry for a record not accessed before ...
Enters(t, task) ==
    /\ ~Touches(tx_id[t], pos[t], task.key)
    /\ wait_list' = [wait_list EXCEPT ![task.key] = Append(@, tx_id[t])]
    /\ future' = [future EXCEPT ![t] = Append(@, task)]

\* ... a write in place of the read of one accessed before ...
Upgrades(t, task) ==
    /\ Touches(tx_id[t], pos[t], task.key) /\ task.op = "WRITE"
    /\ wait_list' = wait_list
    /\ future' = [future EXCEPT ![t] =
           [i \in DOMAIN @ |-> IF @[i].key = task.key THEN task ELSE @[i]]]

\* ... or nothing.
Repeats(t, task) ==
    /\ Touches(tx_id[t], pos[t], task.key)
    /\ task.op = "WRITE" => Writes(tx_id[t], pos[t], task.key)
    /\ wait_list' = wait_list /\ future' = future

LEMMA RegistEffect ==
    ASSUME ~Racing, Types, Dispatched, NEW t \in Thread, regist(t)
    PROVE  LET task == Tasks(t)[pos[t]]
           IN /\ pc[t] = "regist" /\ pos[t] <= Len(Tasks(t))
              /\ Enters(t, task) \/ Upgrades(t, task) \/ Repeats(t, task)
              /\ dangling' = dangling
              /\ pos' = [pos EXCEPT ![t] = @ + 1]
              /\ UNCHANGED << dispatch, lock, records, pc, tx_id, cur, held, reads,
                              committed >>
<1> DEFINE task == Tasks(t)[pos[t]]
<1>1. pc[t] = "regist" /\ pos[t] <= Len(Tasks(t)) /\ Busy(t)
  BY DEF regist, Busy
<1>2. task.op \in {"READ", "WRITE"}
  BY <1>1, TaskAt
<1>3. /\ dup_check(t, task.key) \in {"NONE", "READ", "WRITE"}
      /\ dup_check(t, task.key) = "NONE" <=> ~Touches(tx_id[t], pos[t], task.key)
      /\ dup_check(t, task.key) = "WRITE" => Writes(tx_id[t], pos[t], task.key)
  BY <1>1, DupCheck
<1> HIDE DEF task
<1>4. CASE /\ dup_check(t, task.key) = "NONE" /\ wait_add(t, task.key)
           /\ future' = [future EXCEPT ![t] = Append(@, task)]
  <2>1. dangling' = dangling
    BY <1>4 DEF wait_add, Types
  <2> QED
    BY <1>1, <1>3, <1>4, <2>1 DEF Enters, wait_add, regist, task
<1>5. CASE /\ dup_check(t, task.key) = "READ" /\ task.op = "WRITE"
           /\ future' = [future EXCEPT ![t] =
                  [i \in DOMAIN @ |-> IF @[i].key = task.key THEN task ELSE @[i]]]
           /\ UNCHANGED << lists, dangling >>
  BY <1>1, <1>3, <1>5 DEF Upgrades, lists, regist, task
<1>6. CASE /\ dup_check(t, task.key) = "WRITE"
                 \/ (dup_check(t, task.key) = "READ" /\ task.op = "READ")
           /\ UNCHANGED << lists, dangling, future >>
  <2>1. task.op = "WRITE" => Writes(tx_id[t], pos[t], task.key)
    BY <1>3, <1>6
  <2>2. Touches(tx_id[t], pos[t], task.key)
    BY <1>3, <1>6
  <2> QED
    BY <1>1, <1>6, <2>1, <2>2 DEF Repeats, lists, regist, task
<1> QED
  BY <1>4, <1>5, <1>6 DEF regist, task

LEMMA GrantEffect ==
    ASSUME Types, Dispatched, ListsMatch, NEW t \in Thread, grant(t)
    PROVE  LET f == future[t][cur[t]]
               rest == RemoveAt(future[t], cur[t])
           IN /\ wait_list' \in [Key -> Seq(TxId)]
              /\ wait_list'[f.key] = Tail(wait_list[f.key])
              /\ \A k \in Key : k # f.key => wait_list'[k] = wait_list[k]
              /\ future' = [future EXCEPT ![t] = rest]
              /\ rest \in Seq(Task) /\ Len(rest) = Len(future[t]) - 1
              /\ cur' = [cur EXCEPT ![t] = IF @ > Len(rest) THEN 1 ELSE @]
              /\ pc' = [pc EXCEPT ![t] = IF rest = << >> THEN "exec" ELSE "wait"]
              /\ \/ /\ f.op = "READ" /\ CanReadLock(lock[f.key])
                    /\ lock' = [lock EXCEPT ![f.key] = ReadLock(@)]
                    /\ rlocks' = [rlocks EXCEPT ![t] = @ \cup {f.key}]
                    /\ wlocks' = wlocks
                 \/ /\ f.op = "WRITE" /\ CanWriteLock(lock[f.key])
                    /\ lock' = [lock EXCEPT ![f.key] = WriteLock(@)]
                    /\ wlocks' = [wlocks EXCEPT ![t] = @ \cup {f.key}]
                    /\ rlocks' = rlocks
              /\ dangling' = dangling
              /\ UNCHANGED << dispatch, records, tx_id, pos, reads, committed >>
<1> DEFINE f == future[t][cur[t]]
           rest == RemoveAt(future[t], cur[t])
<1>1. /\ f.key \in Key /\ pc[t] = "wait" /\ wait_list[f.key] # << >>
      /\ wait_list[f.key] \in Seq(TxId)
  BY AtHead
<1>2. future[t] \in Seq(Task) /\ cur[t] \in 1 .. Len(future[t])
  BY <1>1, EntryAt
<1>3. rest \in Seq(Task) /\ Len(rest) = Len(future[t]) - 1
  BY <1>2, Strike
<1> HIDE DEF f, rest
<1>4. Tail(wait_list[f.key]) \in Seq(TxId)
  BY <1>1
<1>5. wait_list' = [wait_list EXCEPT ![f.key] = Tail(@)]
  BY DEF grant, Dequeues, f
<1>6. wait_list' \in [Key -> Seq(TxId)]
  BY <1>1, <1>4, <1>5 DEF Types
<1>7. /\ wait_list'[f.key] = Tail(wait_list[f.key])
      /\ \A k \in Key : k # f.key => wait_list'[k] = wait_list[k]
  BY <1>1, <1>5 DEF Types
<1>8. /\ future' = [future EXCEPT ![t] = rest]
      /\ cur' = [cur EXCEPT ![t] = IF @ > Len(rest) THEN 1 ELSE @]
  BY DEF grant, Dequeues, rest
<1>9. pc' = [pc EXCEPT ![t] = IF rest = << >> THEN "exec" ELSE "wait"]
  <2>1. CASE rest = << >>
    BY <2>1 DEF grant, Dequeues, Goto, rest
  <2>2. CASE rest # << >>
    BY <1>1, <2>2 DEF grant, Dequeues, Types, rest
  <2> QED
    BY <2>1, <2>2
<1>10. \/ /\ f.op = "READ" /\ CanReadLock(lock[f.key])
          /\ lock' = [lock EXCEPT ![f.key] = ReadLock(@)]
          /\ rlocks' = [rlocks EXCEPT ![t] = @ \cup {f.key}]
          /\ wlocks' = wlocks
       \/ /\ f.op = "WRITE" /\ CanWriteLock(lock[f.key])
          /\ lock' = [lock EXCEPT ![f.key] = WriteLock(@)]
          /\ wlocks' = [wlocks EXCEPT ![t] = @ \cup {f.key}]
          /\ rlocks' = rlocks
  BY DEF grant, Locks, f
<1>11. /\ dangling' = dangling
       /\ UNCHANGED << dispatch, records, tx_id, pos, reads, committed >>
  BY DEF grant, Types
<1> QED
  BY <1>3, <1>6, <1>7, <1>8, <1>9, <1>10, <1>11 DEF f, rest

LEMMA RegistTypes ==
    ASSUME ~Racing, Types, Dispatched, NEW t \in Thread, regist(t)
    PROVE  wait_list' \in [Key -> Seq(TxId)] /\ future' \in [Thread -> Seq(Task)]
<1> DEFINE task == Tasks(t)[pos[t]]
<1>1. pc[t] = "regist" /\ pos[t] <= Len(Tasks(t)) /\ Busy(t)
  BY DEF regist, Busy
<1>2. task \in Task /\ task.key \in Key /\ tx_id[t] \in TxId
  BY <1>1, TaskAt
<1>3. Enters(t, task) \/ Upgrades(t, task) \/ Repeats(t, task)
  BY RegistEffect
<1> HIDE DEF task
<1>4. wait_list \in [Key -> Seq(TxId)] /\ future \in [Thread -> Seq(Task)]
  BY DEF Types
<1>5. CASE Enters(t, task)
  <2>1. Append(wait_list[task.key], tx_id[t]) \in Seq(TxId)
    BY <1>2, <1>4
  <2>2. Append(future[t], task) \in Seq(Task)
    BY <1>2, <1>4
  <2> QED
    BY <1>4, <1>5, <2>1, <2>2 DEF Enters
<1>6. CASE Upgrades(t, task)
  <2> DEFINE new == [i \in DOMAIN future[t] |->
                        IF future[t][i].key = task.key THEN task ELSE future[t][i]]
  <2>1. DOMAIN future[t] = 1 .. Len(future[t]) /\ Len(future[t]) \in Nat
    BY <1>4
  <2>2. new \in [1 .. Len(future[t]) -> Task]
    BY <1>2, <1>4, <2>1
  <2>3. new \in Seq(Task)
    BY <2>1, <2>2, SeqDef
  <2>4. future' = [future EXCEPT ![t] = new]
    BY <1>6 DEF Upgrades
  <2> HIDE DEF new
  <2> QED
    BY <1>4, <1>6, <2>3, <2>4 DEF Upgrades
<1>7. CASE Repeats(t, task)
  BY <1>4, <1>7 DEF Repeats
<1> QED
  BY <1>3, <1>5, <1>6, <1>7

LEMMA TypesStep ==
    ASSUME ~Racing, Types, Dispatched, ListsMatch, [Next]_vars
    PROVE  Types'
<1> USE DEF dispatch, lists, held, records, Goto
<1>1. CASE Quit
  BY <1>1 DEF Quit, Types
<1>2. CASE Joined \/ UNCHANGED vars
  BY <1>2 DEF Joined, vars, Types
<1>3. ASSUME NEW t \in Thread, worker(t)
      PROVE  Types'
  <2>1. CASE leave(t)
    BY <2>1 DEF leave, Types
  <2>2. CASE acquireGiant(t)
    <3>1. tx_counter < PRE_NUM => tx_counter \in Version
      BY LockManagerAssumption DEF Types, TxId, Version
    <3>2. tx_counter \in Nat /\ PRE_NUM \in Nat
      BY LockManagerAssumption DEF Types
    <3>3. /\ giant' \in Thread \cup {None}
          /\ tx_counter' \in Nat /\ FirstTx <= tx_counter'
      BY <2>2, <3>2, LockManagerAssumption DEF acquireGiant, Types
    <3>4. pc \in [Thread -> {"idle", "regist", "wait", "exec", "unlock", "done"}]
      BY DEF Types
    <3>5. pc' \in [Thread -> {"idle", "regist", "wait", "exec", "unlock", "done"}]
      BY <2>2, <3>4 DEF acquireGiant
    <3>6. tx_id \in [Thread -> Version] /\ pos \in [Thread -> Nat \ {0}]
      BY DEF Types
    <3>7. tx_id' \in [Thread -> Version] /\ pos' \in [Thread -> Nat \ {0}]
      BY <2>2, <3>1, <3>2, <3>6 DEF acquireGiant
    <3>8. UNCHANGED << quit, pre, lists, lock, records, future, cur, dangling,
                       held, reads, committed >>
      BY <2>2 DEF acquireGiant
    <3> QED
      BY <3>3, <3>5, <3>7, <3>8 DEF Types
  <2>3. CASE regist(t)
    <3>1. wait_list' \in [Key -> Seq(TxId)] /\ future' \in [Thread -> Seq(Task)]
      BY <2>3, RegistTypes
    <3>2. /\ pos' = [pos EXCEPT ![t] = @ + 1] /\ dangling' = dangling
          /\ UNCHANGED << dispatch, lock, records, pc, tx_id, cur, held, reads, committed >>
      BY <2>3, RegistEffect
    <3> QED
      BY <3>1, <3>2 DEF Types
  <2>4. CASE releaseGiant(t)
    BY <2>4 DEF releaseGiant, Types
  <2>5. CASE grant(t)
    <3> DEFINE f == future[t][cur[t]]
               rest == RemoveAt(future[t], cur[t])
    <3>1. f.key \in Key
      BY <2>5, AtHead
    <3>2. /\ wait_list' \in [Key -> Seq(TxId)]
          /\ future' = [future EXCEPT ![t] = rest] /\ rest \in Seq(Task)
          /\ cur' = [cur EXCEPT ![t] = IF @ > Len(rest) THEN 1 ELSE @]
          /\ pc' = [pc EXCEPT ![t] = IF rest = << >> THEN "exec" ELSE "wait"]
          /\ dangling' = dangling
          /\ UNCHANGED << dispatch, records, tx_id, pos, reads, committed >>
      BY <2>5, GrantEffect
    <3>3. /\ lock' = [lock EXCEPT ![f.key] = ReadLock(@)]
               \/ lock' = [lock EXCEPT ![f.key] = WriteLock(@)]
          /\ rlocks' = rlocks \/ rlocks' = [rlocks EXCEPT ![t] = @ \cup {f.key}]
          /\ wlocks' = wlocks \/ wlocks' = [wlocks EXCEPT ![t] = @ \cup {f.key}]
      BY <2>5, GrantEffect
    <3> HIDE DEF f, rest
    <3>4. lock' \in [Key -> Int]
      BY <3>1, <3>3 DEF ReadLock, WriteLock, WriteLocked, Types
    <3>5. rlocks' \in [Thread -> SUBSET Key] /\ wlocks' \in [Thread -> SUBSET Key]
      <4>1. rlocks \in [Thread -> SUBSET Key] /\ wlocks \in [Thread -> SUBSET Key]
        BY DEF Types
      <4>2. rlocks[t] \cup {f.key} \in SUBSET Key /\ wlocks[t] \cup {f.key} \in SUBSET Key
        BY <3>1, <4>1
      <4> QED
        BY ONLY <3>3, <4>1, <4>2
    <3>6. cur' \in [Thread -> Nat \ {0}]
      <4>1. cur \in [Thread -> Nat \ {0}]
        BY DEF Types
      <4> QED
        BY ONLY <3>2, <4>1
    <3>7. pc' \in [Thread -> {"idle", "regist", "wait", "exec", "unlock", "done"}]
      <4>1. pc \in [Thread -> {"idle", "regist", "wait", "exec", "unlock", "done"}]
        BY DEF Types
      <4> QED
        BY ONLY <3>2, <4>1
    <3>8. future' \in [Thread -> Seq(Task)]
      <4>1. future \in [Thread -> Seq(Task)]
        BY DEF Types
      <4> QED
        BY ONLY <3>2, <4>1
    <3> QED
      BY <3>2, <3>4, <3>5, <3>6, <3>7, <3>8 DEF Types
  <2>6. CASE pass(t)
    <3>1. Len(future[t]) \in Nat
      BY DEF Types
    <3>2. dangling' = [u \in Thread |-> FALSE]
      BY <2>6 DEF pass, Types
    <3>3. cur' \in [Thread -> Nat \ {0}]
      <4>1. cur \in [Thread -> Nat \ {0}]
        BY DEF Types
      <4>2. cur' = [cur EXCEPT ![t] = IF @ = Len(future[t]) THEN 1 ELSE @ + 1]
        BY <2>6 DEF pass
      <4> QED
        BY ONLY <4>1, <4>2
    <3>4. UNCHANGED << dispatch, lists, lock, records, pc, tx_id, pos, future, held,
                       reads, committed >>
      BY <2>6 DEF pass
    <3> QED
      BY <3>2, <3>3, <3>4 DEF Types
  <2>7. CASE execute(t)
    <3> DEFINE k == Tasks(t)[pos[t]].key
               r == [key |-> k, ver |-> value[k]]
    <3>1. k \in Key /\ tx_id[t] \in TxId
      BY <2>7, TaskAt DEF execute, Busy
    <3>2. r \in Read
      BY <3>1 DEF Read, Types
    <3>3. \/ reads' = [reads EXCEPT ![t] = @ \cup {r}] /\ UNCHANGED records
          \/ /\ reads' = reads /\ value' = [value EXCEPT ![k] = tx_id[t]]
             /\ order' = order \/ order' = [order EXCEPT ![k] = Append(@, tx_id[t])]
      BY <2>7 DEF execute
    <3> HIDE DEF r, k
    <3>4. reads \in [Thread -> SUBSET Read] /\ value \in [Key -> Version]
          /\ order \in [Key -> Seq(TxId)]
      BY DEF Types
    <3>5. reads' \in [Thread -> SUBSET Read]
      <4>1. reads[t] \cup {r} \in SUBSET Read
        BY <3>2, <3>4
      <4> QED
        BY ONLY <3>3, <3>4, <4>1
    <3>6. value' \in [Key -> Version] /\ order' \in [Key -> Seq(TxId)]
      <4>1. Append(order[k], tx_id[t]) \in Seq(TxId) /\ tx_id[t] \in Version
        BY <3>1, <3>4 DEF Version
      <4> QED
        BY <3>3, <3>4, <4>1
    <3>7. pos' \in [Thread -> Nat \ {0}]
      <4>1. pos \in [Thread -> Nat \ {0}]
        BY DEF Types
      <4>2. pos' = [pos EXCEPT ![t] = @ + 1]
        BY <2>7 DEF execute
      <4> QED
        BY ONLY <4>1, <4>2
    <3>8. UNCHANGED << dispatch, lists, lock, pc, tx_id, future, cur, dangling,
                       held, committed >>
      BY <2>7 DEF execute
    <3> QED
      BY <3>5, <3>6, <3>7, <3>8 DEF Types
  <2>8. CASE commit(t)
    <3>1. tx_id[t] \in TxId
      BY <2>8 DEF commit, Dispatched, WorkerMatches, Busy
    <3>2. [id |-> tx_id[t], reads |-> reads[t]] \in [id : TxId, reads : SUBSET Read]
      BY <3>1 DEF Types
    <3> QED
      BY <2>8, <3>2 DEF commit, Types
  <2>9. CASE readUnlock(t)
    BY <2>9 DEF readUnlock, ReadUnlock, Types
  <2>10. CASE writeUnlock(t)
    BY <2>10 DEF writeUnlock, WriteUnlock, Types
  <2>11. CASE finish(t)
    BY <2>11 DEF finish, Types, Version
  <2> QED
    BY <1>3, <2>1, <2>2, <2>3, <2>4, <2>5, <2>6, <2>7, <2>8, <2>9, <2>10, <2>11
       DEF worker
<1> QED
  BY <1>1, <1>2, <1>3 DEF Next

-----------------------------------------------------------------------------
(* Dispatch *)

\* A worker's step leaves the state of the others alone.
Kept(u) ==
    /\ pc'[u] = pc[u] /\ tx_id'[u] = tx_id[u] /\ pos'[u] = pos[u]
    /\ future'[u] = future[u] /\ cur'[u] = cur[u] /\ reads'[u] = reads[u]
    /\ rlocks'[u] = rlocks[u] /\ wlocks'[u] = wlocks[u]

LEMMA OthersKept ==
    ASSUME Types, NEW t \in Thread, worker(t), NEW u \in Thread, u # t
    PROVE  Kept(u)
<1> USE DEF dispatch, lists, held, records, Goto, Kept
<1>0. /\ pc \in [Thread -> {"idle", "regist", "wait", "exec", "unlock", "done"}]
      /\ tx_id \in [Thread -> Version] /\ pos \in [Thread -> Nat \ {0}]
      /\ future \in [Thread -> Seq(Task)] /\ cur \in [Thread -> Nat \ {0}]
      /\ rlocks \in [Thread -> SUBSET Key] /\ wlocks \in [Thread -> SUBSET Key]
      /\ reads \in [Thread -> SUBSET Read]
  BY DEF Types
<1>1. CASE leave(t)
  BY <1>0, <1>1 DEF leave
<1>2. CASE acquireGiant(t)
  BY <1>0, <1>2 DEF acquireGiant
<1>3. CASE regist(t)
  BY <1>0, <1>3 DEF regist
<1>4. CASE releaseGiant(t)
  BY <1>0, <1>4 DEF releaseGiant
<1>5. CASE grant(t)
  BY <1>0, <1>5 DEF grant, Dequeues, Locks
<1>6. CASE pass(t)
  BY <1>0, <1>6 DEF pass
<1>7. CASE execute(t)
  BY <1>0, <1>7 DEF execute
<1>8. CASE commit(t)
  BY <1>0, <1>8 DEF commit
<1>9. CASE readUnlock(t)
  BY <1>0, <1>9 DEF readUnlock
<1>10. CASE writeUnlock(t)
  BY <1>0, <1>10 DEF writeUnlock
<1>11. CASE finish(t)
  BY <1>0, <1>11 DEF finish
<1> QED
  BY <1>1, <1>2, <1>3, <1>4, <1>5, <1>6, <1>7, <1>8, <1>9, <1>10, <1>11 DEF worker

\* What a worker's steps do to the giant lock and the counter.
LEMMA GiantStep ==
    ASSUME Types, NEW t \in Thread, worker(t)
    PROVE  \/ giant' = giant /\ tx_counter' = tx_counter
           \/ acquireGiant(t) /\ giant = None /\ tx_counter' \in {tx_counter, tx_counter + 1}
           \/ releaseGiant(t) /\ tx_counter' = tx_counter
BY DEF worker, leave, acquireGiant, regist, releaseGiant, grant, pass, execute,
       commit, readUnlock, writeUnlock, finish, dispatch

\* Only acquireGiant gives a worker a transaction.
LEMMA OnlyAcquired ==
    ASSUME Types, NEW t \in Thread, worker(t), ~acquireGiant(t), Busy(t)'
    PROVE  Busy(t) /\ tx_id'[t] = tx_id[t]
<1> USE DEF dispatch, lists, held, records, Goto, Busy
<1>0. pc \in [Thread -> {"idle", "regist", "wait", "exec", "unlock", "done"}]
  BY DEF Types
<1>1. CASE leave(t) \/ finish(t)
  BY <1>0, <1>1 DEF leave, finish
<1>2. CASE regist(t) \/ releaseGiant(t) \/ grant(t) \/ pass(t)
  BY <1>0, <1>2 DEF regist, releaseGiant, grant, pass
<1>3. CASE execute(t) \/ commit(t) \/ readUnlock(t) \/ writeUnlock(t)
  BY <1>0, <1>3 DEF execute, commit, readUnlock, writeUnlock
<1> QED
  BY <1>1, <1>2, <1>3 DEF worker

LEMMA AcquireEffect ==
    ASSUME Types, Dispatched, NEW t \in Thread, acquireGiant(t)
    PROVE  /\ giant = None /\ giant' = t /\ pc[t] = "idle" /\ ~Busy(t)
           /\ \/ pc'[t] = "done" /\ tx_counter' = tx_counter
              \/ /\ pc'[t] = "regist" /\ tx_counter' = tx_counter + 1 /\ pos'[t] = 1
                 /\ tx_id'[t] = tx_counter /\ tx_counter \in TxId
           /\ UNCHANGED << quit, pre, lists, lock, records, future, cur, dangling,
                           held, reads, committed >>
<1>1. tx_counter < PRE_NUM => tx_counter \in TxId
  BY LockManagerAssumption DEF Types, TxId
<1>2. /\ pc \in [Thread -> {"idle", "regist", "wait", "exec", "unlock", "done"}]
      /\ tx_id \in [Thread -> Version] /\ pos \in [Thread -> Nat \ {0}]
      /\ tx_counter \in Nat /\ PRE_NUM \in Nat
  BY LockManagerAssumption DEF Types
<1> QED
  BY <1>1, <1>2 DEF acquireGiant, Goto, Busy

LEMMA WorkerMatchesOwn ==
    ASSUME ~Racing, Types, Dispatched, ListsMatch, NEW t \in Thread, worker(t)
    PROVE  WorkerMatches(t)'
<1> USE DEF dispatch, lists, held, records, Goto
<1>0. /\ pc \in [Thread -> {"idle", "regist", "wait", "exec", "unlock", "done"}]
      /\ tx_id \in [Thread -> Version] /\ pos \in [Thread -> Nat \ {0}]
      /\ future \in [Thread -> Seq(Task)] /\ cur \in [Thread -> Nat \ {0}]
      /\ rlocks \in [Thread -> SUBSET Key] /\ wlocks \in [Thread -> SUBSET Key]
      /\ reads \in [Thread -> SUBSET Read] /\ tx_counter \in Nat
  BY DEF Types
<1>m. WorkerMatches(t)
  BY DEF Dispatched
<1>1. CASE leave(t)
  BY <1>0, <1>1, <1>m DEF leave, WorkerMatches, Busy
<1>2. CASE acquireGiant(t)
  <2>1. /\ giant' = t /\ pc[t] = "idle"
        /\ \/ pc'[t] = "done"
           \/ /\ pc'[t] = "regist" /\ tx_counter' = tx_counter + 1
              /\ tx_id'[t] = tx_counter /\ tx_counter \in TxId
        /\ UNCHANGED << future, held, reads >>
    BY <1>2, AcquireEffect
  <2> QED
    BY <1>0, <1>m, <2>1 DEF WorkerMatches, Busy
<1>3. CASE regist(t)
  <2>1. pc[t] = "regist" /\ UNCHANGED << dispatch, pc, tx_id, held, reads >>
    BY <1>3, RegistEffect
  <2> QED
    BY <1>m, <2>1 DEF WorkerMatches, Busy
<1>4. CASE releaseGiant(t)
  <2>1. /\ pc[t] = "regist" /\ pos'[t] = 1 /\ cur'[t] = 1
        /\ pc'[t] = IF future[t] = << >> THEN "exec" ELSE "wait"
        /\ UNCHANGED << tx_counter, tx_id, future, held, reads >>
    BY <1>0, <1>4 DEF releaseGiant
  <2>2. future[t] # << >> => 1 \in DOMAIN future[t]
    BY <1>0
  <2> QED
    BY <1>m, <2>1, <2>2 DEF WorkerMatches, Busy
<1>5. CASE grant(t)
  <2> DEFINE rest == RemoveAt(future[t], cur[t])
  <2>1. /\ future' = [future EXCEPT ![t] = rest] /\ rest \in Seq(Task)
        /\ cur' = [cur EXCEPT ![t] = IF @ > Len(rest) THEN 1 ELSE @]
        /\ pc' = [pc EXCEPT ![t] = IF rest = << >> THEN "exec" ELSE "wait"]
        /\ UNCHANGED << dispatch, tx_id, pos, reads >>
    BY <1>5, GrantEffect
  <2> HIDE DEF rest
  <2>2. pc[t] = "wait"
    BY <1>5 DEF grant
  <2>3. /\ future'[t] = rest /\ cur'[t] = IF cur[t] > Len(rest) THEN 1 ELSE cur[t]
        /\ pc'[t] = IF rest = << >> THEN "exec" ELSE "wait"
    BY <1>0, <2>1
  <2>4. rest # << >> => cur'[t] \in DOMAIN rest
    BY <1>0, <2>1, <2>3
  <2> QED
    BY <1>m, <2>1, <2>2, <2>3, <2>4 DEF WorkerMatches, Busy
<1>6. CASE pass(t)
  <2>1. /\ pc[t] = "wait" /\ UNCHANGED << dispatch, pc, tx_id, pos, future, held, reads >>
        /\ cur'[t] = IF cur[t] = Len(future[t]) THEN 1 ELSE cur[t] + 1
    BY <1>0, <1>6 DEF pass
  <2>2. cur[t] \in 1 .. Len(future[t]) /\ DOMAIN future[t] = 1 .. Len(future[t])
    BY <2>1, EntryAt
  <2>3. cur'[t] \in DOMAIN future[t]
    BY <1>0, <2>1, <2>2
  <2> QED
    BY <1>m, <2>1, <2>3 DEF WorkerMatches, Busy
<1>7. CASE execute(t)
  BY <1>7, <1>m DEF execute, WorkerMatches, Busy
<1>8. CASE commit(t)
  BY <1>0, <1>8, <1>m DEF commit, WorkerMatches, Busy
<1>9. CASE readUnlock(t)
  BY <1>9, <1>m DEF readUnlock, WorkerMatches, Busy
<1>10. CASE writeUnlock(t)
  BY <1>10, <1>m DEF writeUnlock, WorkerMatches, Busy
<1>11. CASE finish(t)
  BY <1>0, <1>11, <1>m DEF finish, WorkerMatches, Busy
<1> QED
  BY <1>1, <1>2, <1>3, <1>4, <1>5, <1>6, <1>7, <1>8, <1>9, <1>10, <1>11 DEF worker

LEMMA DispatchedStep ==
    ASSUME ~Racing, Types, Dispatched, ListsMatch, [Next]_vars
    PROVE  Dispatched'
<1>1. CASE Quit
  BY <1>1 DEF Quit, held, Dispatched, WorkerMatches, Busy
<1>2. CASE Joined \/ UNCHANGED vars
  BY <1>2 DEF Joined, vars, Dispatched, WorkerMatches, Busy
<1>3. ASSUME NEW t \in Thread, worker(t)
      PROVE  Dispatched'
  <2>1. WorkerMatches(t)'
    BY <1>3, WorkerMatchesOwn
  <2>2. tx_counter \in Nat /\ \A u \in Thread : tx_id[u] \in TxId => tx_id[u] \in Nat
    BY LockManagerAssumption DEF Types, TxId
  <2>3. ASSUME NEW u \in Thread, u # t
        PROVE  WorkerMatches(u)' /\ (Busy(u)' <=> Busy(u)) /\ tx_id'[u] = tx_id[u]
    <3>1. Kept(u) /\ WorkerMatches(u)
      BY <1>3, <2>3, OthersKept DEF Dispatched
    <3>2. (Busy(u)' <=> Busy(u)) /\ tx_id'[u] = tx_id[u]
      BY <3>1 DEF Kept, Busy
    <3>3. tx_counter' \in {tx_counter, tx_counter + 1}
      BY <1>3, GiantStep
    <3>4. pc[u] = "regist" => giant' = giant /\ tx_counter' = tx_counter
      <4>1. pc[u] = "regist" => giant = u
        BY <3>1 DEF WorkerMatches
      <4>2. releaseGiant(t) => giant = t
        BY DEF Dispatched, WorkerMatches, releaseGiant
      <4> QED
        BY <1>3, <2>3, <4>1, <4>2, GiantStep, LockManagerAssumption
    <3> QED
      BY <2>2, <3>1, <3>2, <3>3, <3>4 DEF Kept, WorkerMatches, Busy
  <2>4. ASSUME NEW u \in Thread, u # t, Busy(t)', Busy(u)', tx_id'[t] = tx_id'[u]
        PROVE  FALSE
    <3>1. Busy(u) /\ tx_id'[u] = tx_id[u] /\ tx_id[u] < tx_counter /\ tx_id[u] \in Nat
      BY <2>2, <2>3, <2>4 DEF Dispatched, WorkerMatches
    <3>2. CASE acquireGiant(t)
      BY <2>2, <2>4, <3>1, <3>2, AcquireEffect DEF Busy
    <3>3. CASE ~acquireGiant(t)
      BY <1>3, <2>4, <3>1, <3>3, OnlyAcquired DEF Dispatched
    <3> QED
      BY <3>2, <3>3
  <2> QED
    BY <2>1, <2>3, <2>4 DEF Dispatched
<1> QED
  BY <1>1, <1>2, <1>3 DEF Next

-----------------------------------------------------------------------------
(* Locks *)

LEMMA CountersTyped ==
    ASSUME Types
    PROVE  LockTypes(Thread, Key, lock, rlocks, wlocks)
BY LockManagerAssumption DEF Types, LockTypes

\* Who writes a record is the only one to have it.
LEMMA WriterExcludes ==
    ASSUME Types, Counted, NEW t \in Thread, NEW u \in Thread, t # u,
           NEW k \in wlocks[t]
    PROVE  ~Has(u, k)
BY CountersTyped, WriterAlone DEF Has, Counted

\* The lock a worker has is not free, and a writer's lock not for reading.
LEMMA HeldNotFree ==
    ASSUME Types, Counted, NEW t \in Thread, NEW k, Has(t, k)
    PROVE  ~CanWriteLock(lock[k]) /\ (k \in wlocks[t] => ~CanReadLock(lock[k]))
<1>1. CASE k \in wlocks[t]
  BY <1>1, CountersTyped, WriterAlone
     DEF CanWriteLock, CanReadLock, WriteLocked, Free, Counted
<1>2. CASE k \in rlocks[t]
  <2>1. lock[k] \in Nat \ {0}
    BY <1>2, CountersTyped, ReaderCounted DEF Counted
  <2>2. k \notin wlocks[t]
    BY <1>2, CountersTyped, ReaderCounted DEF Counted
  <2> QED
    BY <2>1, <2>2 DEF CanWriteLock, Free
<1> QED
  BY <1>1, <1>2 DEF Has

\* The lock taken is on a record the worker does not have yet.
LEMMA NotYetHeld ==
    ASSUME Types, Dispatched, LocksCover, NEW t \in Thread, pc[t] = "wait"
    PROVE  ~Has(t, future[t][cur[t]].key)
BY EntryAt DEF LocksCover, Covered

LEMMA AgreeStep ==
    ASSUME Types, Dispatched, LocksCover, ListsMatch, Counted, [Next]_vars
    PROVE  Counted'
<1> USE DEF dispatch, held
<1>1. CASE UNCHANGED << lock, held >>
  BY <1>1 DEF Counted
<1>2. ASSUME NEW t \in Thread, NEW k \in Key, ~Has(t, k),
             CanReadLock(lock[k]), lock' = [lock EXCEPT ![k] = ReadLock(@)],
             rlocks' = [rlocks EXCEPT ![t] = @ \cup {k}], wlocks' = wlocks
      PROVE  Counted'
  <2>1. k \notin rlocks[t]
    BY <1>2 DEF Has
  <2> QED
    BY <1>2, <2>1, CountersTyped, ReadLockAgrees DEF Counted
<1>3. ASSUME NEW t \in Thread, NEW k \in Key, CanWriteLock(lock[k]),
             lock' = [lock EXCEPT ![k] = WriteLock(@)],
             wlocks' = [wlocks EXCEPT ![t] = @ \cup {k}], rlocks' = rlocks
      PROVE  Counted'
  BY <1>3, CountersTyped, WriteLockAgrees DEF Counted
<1>4. ASSUME NEW t \in Thread, NEW k \in rlocks[t],
             lock' = [lock EXCEPT ![k] = ReadUnlock(@)],
             rlocks' = [rlocks EXCEPT ![t] = @ \ {k}], UNCHANGED wlocks
      PROVE  Counted'
  BY <1>4, CountersTyped, ReadUnlockAgrees DEF Counted
<1>5. ASSUME NEW t \in Thread, NEW k \in wlocks[t],
             lock' = [lock EXCEPT ![k] = WriteUnlock(@)],
             wlocks' = [wlocks EXCEPT ![t] = @ \ {k}], UNCHANGED rlocks
      PROVE  Counted'
  BY <1>5, CountersTyped, WriteUnlockAgrees DEF Counted
<1>6. ASSUME NEW t \in Thread, worker(t)
      PROVE  Counted'
  <2>1. CASE grant(t)
    <3> DEFINE f == future[t][cur[t]]
    <3>1. f.key \in Key /\ ~Has(t, f.key)
      BY <2>1, AtHead, NotYetHeld
    <3>2. \/ /\ CanReadLock(lock[f.key])
             /\ lock' = [lock EXCEPT ![f.key] = ReadLock(@)]
             /\ rlocks' = [rlocks EXCEPT ![t] = @ \cup {f.key}] /\ wlocks' = wlocks
          \/ /\ CanWriteLock(lock[f.key])
             /\ lock' = [lock EXCEPT ![f.key] = WriteLock(@)]
             /\ wlocks' = [wlocks EXCEPT ![t] = @ \cup {f.key}] /\ rlocks' = rlocks
      BY <2>1, GrantEffect
    <3> HIDE DEF f
    <3> QED
      BY <1>2, <1>3, <3>1, <3>2
  <2>2. CASE readUnlock(t)
    BY <1>4, <2>2 DEF readUnlock
  <2>3. CASE writeUnlock(t)
    BY <1>5, <2>3 DEF writeUnlock
  <2>4. CASE leave(t) \/ acquireGiant(t) \/ regist(t) \/ releaseGiant(t) \/ pass(t)
             \/ execute(t) \/ commit(t) \/ finish(t)
    BY <1>1, <2>4 DEF leave, acquireGiant, regist, releaseGiant, pass, execute, commit,
                      finish
  <2> QED
    BY <1>6, <2>1, <2>2, <2>3, <2>4 DEF worker
<1>7. CASE Quit \/ Joined \/ UNCHANGED vars
  BY <1>1, <1>7 DEF Quit, Joined, vars
<1> QED
  BY <1>6, <1>7 DEF Next

-----------------------------------------------------------------------------
(* What a worker's locks and entries cover *)

\* Who is not touched is covered as before.
LEMMA CoveredFrame ==
    ASSUME NEW u \in Thread, pre' = pre,
           pc'[u] = pc[u], tx_id'[u] = tx_id[u], pos'[u] = pos[u] \/ pc[u] # "regist",
           future'[u] = future[u], rlocks'[u] = rlocks[u], wlocks'[u] = wlocks[u],
           OneEntry(u), \A k \in Key : Covered(u, k)
    PROVE  OneEntry(u)' /\ \A k \in Key : Covered(u, k)'
BY DEF OneEntry, Covered, Touches, Writes, Reach, Tasks, Pending, Has

\* What is struck off is one entry; the others stay.
LEMMA Struck ==
    ASSUME NEW s \in Seq(Task), NEW i \in 1 .. Len(s),
           \A a, b \in DOMAIN s : s[a].key = s[b].key => a = b
    PROVE  LET r == RemoveAt(s, i)
           IN /\ \A m \in DOMAIN r : \E n \in DOMAIN s : n # i /\ r[m] = s[n]
              /\ \A n \in DOMAIN s : n # i => \E m \in DOMAIN r : r[m] = s[n]
              /\ \A a, b \in DOMAIN r : r[a].key = r[b].key => a = b
              /\ \A m \in DOMAIN r : r[m].key # s[i].key
<1> DEFINE r == RemoveAt(s, i)
           from(m) == IF m < i THEN m ELSE m + 1
<1>1. Len(s) \in Nat /\ DOMAIN s = 1 .. Len(s) /\ i \in Nat
  OBVIOUS
<1>2. /\ DOMAIN r = 1 .. Len(s) - 1
      /\ \A m \in 1 .. Len(s) - 1 : r[m] = IF m < i THEN s[m] ELSE s[m + 1]
  BY Strike
<1> HIDE DEF r
<1>3. \A m \in DOMAIN r : from(m) \in DOMAIN s /\ from(m) # i /\ r[m] = s[from(m)]
  BY <1>1, <1>2
<1>4. ASSUME NEW n \in DOMAIN s, n # i
      PROVE  \E m \in DOMAIN r : r[m] = s[n]
  <2>1. CASE n < i
    BY <1>1, <1>2, <1>4, <2>1
  <2>2. CASE ~(n < i)
    <3>1. n - 1 \in DOMAIN r /\ ~(n - 1 < i) /\ n - 1 + 1 = n
      BY <1>1, <1>2, <1>4, <2>2
    <3> QED
      BY <1>2, <3>1
  <2> QED
    BY <2>1, <2>2
<1>5. \A a, b \in DOMAIN r : from(a) = from(b) => a = b
  BY <1>1, <1>2
<1> HIDE DEF from
<1>6. \A a, b \in DOMAIN r : r[a].key = r[b].key => a = b
  BY <1>3, <1>5
<1>7. \A m \in DOMAIN r : r[m].key # s[i].key
  BY <1>1, <1>3
<1> QED
  BY <1>3, <1>4, <1>6, <1>7 DEF r

\* A worker that registers holds nothing.
LEMMA Registering ==
    ASSUME ~Racing, Types, Dispatched, LocksCover, NEW t \in Thread, regist(t)
    PROVE  LET i == tx_id[t]
               n == pos[t]
               task == pre[i][n]
           IN /\ i \in TxId /\ n \in 1 .. Len(pre[i]) /\ task = Tasks(t)[pos[t]]
              /\ task \in Task /\ task.key \in Key /\ task.op \in {"READ", "WRITE"}
              /\ pc'[t] = "regist" /\ tx_id'[t] = i /\ pos'[t] = n + 1 /\ pre' = pre
              /\ rlocks'[t] = {} /\ wlocks'[t] = {} /\ tx_counter = i + 1
              /\ OneEntry(t)
              /\ \A k \in Key :
                    /\ Touches(i, n, k) <=> Pending(t, k)
                    /\ \A a \in DOMAIN future[t] : future[t][a].key = k =>
                          (future[t][a].op = "WRITE" <=> Writes(i, n, k))
                    /\ Touches(i, n + 1, k) <=> Touches(i, n, k) \/ task.key = k
                    /\ Writes(i, n + 1, k) <=>
                           Writes(i, n, k) \/ (task.op = "WRITE" /\ task.key = k)
                    /\ Writes(i, n, k) => Touches(i, n, k)
<1> DEFINE i == tx_id[t]
           n == pos[t]
<1>1. /\ pc[t] = "regist" /\ pos[t] <= Len(Tasks(t)) /\ Busy(t)
      /\ pos' = [pos EXCEPT ![t] = @ + 1]
      /\ UNCHANGED << dispatch, pc, tx_id, held >>
  BY RegistEffect DEF Busy
<1>2. /\ i \in TxId /\ Tasks(t) = pre[i] /\ n \in 1 .. Len(pre[i])
      /\ Tasks(t)[pos[t]] \in Task /\ Tasks(t)[pos[t]].key \in Key
      /\ Tasks(t)[pos[t]].op \in {"READ", "WRITE"}
  BY <1>1, TaskAt
<1>3. pos'[t] = n + 1
  BY <1>1 DEF Types
<1>4. rlocks[t] = {} /\ wlocks[t] = {} /\ tx_counter = i + 1
  BY <1>1 DEF Dispatched, WorkerMatches
<1>5. OneEntry(t) /\ \A k \in Key : Covered(t, k)
  BY DEF LocksCover
<1>6. ASSUME NEW k \in Key
      PROVE  /\ Touches(i, n, k) <=> Pending(t, k)
             /\ \A a \in DOMAIN future[t] : future[t][a].key = k =>
                   (future[t][a].op = "WRITE" <=> Writes(i, n, k))
  BY <1>1, <1>4, <1>5 DEF Covered, Reach, Has
<1>7. ASSUME NEW k \in Key
      PROVE  /\ Touches(i, n + 1, k) <=> Touches(i, n, k) \/ pre[i][n].key = k
             /\ Writes(i, n + 1, k) <=>
                    Writes(i, n, k) \/ (pre[i][n].op = "WRITE" /\ pre[i][n].key = k)
  BY <1>2, TaskNext
<1>8. ASSUME NEW k \in Key
      PROVE  Writes(i, n, k) => Touches(i, n, k)
  BY DEF Writes, Touches
<1> QED
  BY <1>1, <1>2, <1>3, <1>4, <1>5, <1>6, <1>7, <1>8 DEF dispatch, held

\* The entries after a step of regist, and what they stand for.
LEMMA RegistCovers ==
    ASSUME ~Racing, Types, Dispatched, LocksCover, NEW t \in Thread, regist(t)
    PROVE  OneEntry(t)' /\ \A k \in Key : Covered(t, k)'
<1> DEFINE i == tx_id[t]
           n == pos[t]
           task == pre[i][n]
           old == future[t]
           new == future'[t]
<1>1. /\ i \in TxId /\ task \in Task /\ task.key \in Key /\ task.op \in {"READ", "WRITE"}
      /\ pc'[t] = "regist" /\ tx_id'[t] = i /\ pos'[t] = n + 1 /\ pre' = pre
      /\ rlocks'[t] = {} /\ wlocks'[t] = {} /\ OneEntry(t)
  BY Registering
<1>2. \A k \in Key :
          /\ Touches(i, n, k) <=> Pending(t, k)
          /\ \A a \in DOMAIN old : old[a].key = k => (old[a].op = "WRITE" <=> Writes(i, n, k))
          /\ Touches(i, n + 1, k) <=> Touches(i, n, k) \/ task.key = k
          /\ Writes(i, n + 1, k) <=> Writes(i, n, k) \/ (task.op = "WRITE" /\ task.key = k)
          /\ Writes(i, n, k) => Touches(i, n, k)
  BY Registering
<1>3. Enters(t, task) \/ Upgrades(t, task) \/ Repeats(t, task)
  BY RegistEffect, Registering
<1>4. future \in [Thread -> Seq(Task)]
  BY DEF Types
<1>5. Len(old) \in Nat /\ DOMAIN old = 1 .. Len(old)
      /\ \A a \in DOMAIN old : old[a] \in Task /\ old[a].key \in Key
  <2>1. old \in Seq(Task)
    BY <1>4
  <2>2. Len(old) \in Nat /\ DOMAIN old = 1 .. Len(old) /\ \A a \in DOMAIN old : old[a] \in Task
    BY <2>1
  <2>3. \A x \in Task : x.key \in Key
    BY DEF Task
  <2> QED
    BY <2>2, <2>3
<1> HIDE DEF task
<1>6. ASSUME \A a, b \in DOMAIN new : new[a].key = new[b].key => a = b,
             \A k \in Key : (\E a \in DOMAIN new : new[a].key = k) <=> Touches(i, n + 1, k),
             \A a \in DOMAIN new :
                 new[a].key \in Key /\ (new[a].op = "WRITE" <=> Writes(i, n + 1, new[a].key))
      PROVE  OneEntry(t)' /\ \A k \in Key : Covered(t, k)'
  <2>1. OneEntry(t)'
    BY <1>6 DEF OneEntry
  <2>2. ASSUME NEW k \in Key
        PROVE  Covered(t, k)'
    <3>1. Pending(t, k)' <=> \E a \in DOMAIN new : new[a].key = k
      BY DEF Pending
    <3>2. ~Has(t, k)' /\ Reach(t)' = n + 1
      BY <1>1 DEF Has, Reach
    <3>3. /\ Touches(tx_id[t], Reach(t), k)' <=> Touches(i, n + 1, k)
          /\ Writes(tx_id[t], Reach(t), k)' <=> Writes(i, n + 1, k)
      BY <1>1, <3>2 DEF Touches, Writes
    <3> QED
      BY <1>6, <3>1, <3>2, <3>3 DEF Covered
  <2> QED
    BY <2>1, <2>2
<1>7. CASE Enters(t, task)
  <2>1. new = Append(old, task) /\ ~Touches(i, n, task.key)
    BY <1>4, <1>7 DEF Enters
  <2>2. /\ DOMAIN new = 1 .. Len(old) + 1
        /\ \A a \in 1 .. Len(old) : new[a] = old[a]
        /\ new[Len(old) + 1] = task
    BY <1>4, <1>1, <2>1
  <2>3. \A a \in DOMAIN old : old[a].key # task.key
    BY <1>1, <1>2, <2>1 DEF Pending
  <2>a. /\ \A a \in DOMAIN new : a \in DOMAIN old \/ a = Len(old) + 1
        /\ \A a \in DOMAIN old : a \in DOMAIN new /\ new[a] = old[a]
        /\ Len(old) + 1 \in DOMAIN new
    BY <1>5, <2>2
  <2>b. \A a, b \in DOMAIN old : old[a].key = old[b].key => a = b
    BY <1>1 DEF OneEntry
  <2> HIDE DEF old, new
  <2>4. \A a, b \in DOMAIN new : new[a].key = new[b].key => a = b
    BY ONLY <2>2, <2>3, <2>a, <2>b
  <2>5. ASSUME NEW k \in Key
        PROVE  (\E a \in DOMAIN new : new[a].key = k) <=> Touches(i, n + 1, k)
    <3>1. (\E a \in DOMAIN new : new[a].key = k)
             <=> (\E a \in DOMAIN old : old[a].key = k) \/ task.key = k
      BY ONLY <2>2, <2>a
    <3>2. Pending(t, k) <=> \E a \in DOMAIN old : old[a].key = k
      BY DEF Pending, old
    <3> QED
      BY <1>2, <3>1, <3>2
  <2>6. ASSUME NEW a \in DOMAIN new
        PROVE  new[a].key \in Key /\ (new[a].op = "WRITE" <=> Writes(i, n + 1, new[a].key))
    <3>1. CASE a = Len(old) + 1
      <4>1. ~Writes(i, n, task.key)
        BY <1>1, <1>2, <2>1
      <4> QED
        BY <1>1, <1>2, <2>2, <3>1, <4>1
    <3>2. CASE a \in DOMAIN old
      BY <1>2, <1>5, <2>2, <2>3, <3>2
    <3> QED
      BY <2>a, <2>6, <3>1, <3>2
  <2> QED
    BY <1>6, <2>4, <2>5, <2>6
<1>8. CASE Upgrades(t, task)
  <2>1. /\ new = [a \in DOMAIN old |-> IF old[a].key = task.key THEN task ELSE old[a]]
        /\ Touches(i, n, task.key) /\ task.op = "WRITE"
    BY <1>4, <1>8 DEF Upgrades
  <2>2. DOMAIN new = DOMAIN old /\ \A a \in DOMAIN old : new[a].key = old[a].key
    BY <2>1
  <2>3. \A a, b \in DOMAIN new : new[a].key = new[b].key => a = b
    BY <1>1, <2>2 DEF OneEntry
  <2>4. \A k \in Key : (\E a \in DOMAIN new : new[a].key = k) <=> Touches(i, n + 1, k)
    BY <1>2, <2>1, <2>2 DEF Pending
  <2>5. ASSUME NEW a \in DOMAIN new
        PROVE  new[a].key \in Key /\ (new[a].op = "WRITE" <=> Writes(i, n + 1, new[a].key))
    <3>1. old[a].key \in Key /\ new[a].key = old[a].key /\ a \in DOMAIN old
      BY <1>5, <2>2, <2>5
    <3>2. CASE old[a].key = task.key
      BY <1>2, <2>1, <3>1, <3>2
    <3>3. CASE old[a].key # task.key
      BY <1>2, <2>1, <3>1, <3>3
    <3> QED
      BY <3>2, <3>3
  <2> QED
    BY <1>6, <2>3, <2>4, <2>5
<1>9. CASE Repeats(t, task)
  <2>1. new = old /\ Touches(i, n, task.key) /\ (task.op = "WRITE" => Writes(i, n, task.key))
    BY <1>9 DEF Repeats
  <2>2. \A a, b \in DOMAIN new : new[a].key = new[b].key => a = b
    BY <1>1, <2>1 DEF OneEntry
  <2>3. \A k \in Key : (\E a \in DOMAIN new : new[a].key = k) <=> Touches(i, n + 1, k)
    BY <1>2, <2>1 DEF Pending
  <2>4. \A a \in DOMAIN new :
            new[a].key \in Key /\ (new[a].op = "WRITE" <=> Writes(i, n + 1, new[a].key))
    BY <1>2, <1>5, <2>1
  <2> QED
    BY <1>6, <2>2, <2>3, <2>4
<1> QED
  BY <1>3, <1>7, <1>8, <1>9

LEMMA ReleaseCovers ==
    ASSUME Types, Dispatched, LocksCover, NEW t \in Thread, releaseGiant(t)
    PROVE  OneEntry(t)' /\ \A k \in Key : Covered(t, k)'
<1> DEFINE i == tx_id[t]
<1>1. /\ pc[t] = "regist" /\ pos[t] > Len(Tasks(t)) /\ pc'[t] \in {"wait", "exec"}
      /\ tx_id' = tx_id /\ future' = future /\ rlocks' = rlocks /\ wlocks' = wlocks
      /\ pre' = pre
  BY DEF releaseGiant, Goto, held, Types
<1>2. i \in TxId /\ Tasks(t) = pre[i] /\ Tasks(t)' = pre[i] /\ pos[t] \in Nat
  BY <1>1 DEF Dispatched, WorkerMatches, Busy, Tasks, Types
<1>3. OneEntry(t)'
  BY <1>1 DEF LocksCover, OneEntry
<1>4. ASSUME NEW k \in Key
      PROVE  Covered(t, k)'
  <2>1. Len(pre[i]) \in Nat
    BY <1>2, TasksTyped
  <2>2. /\ Touches(i, pos[t], k) <=> Touches(i, Len(pre[i]) + 1, k)
        /\ Writes(i, pos[t], k) <=> Writes(i, Len(pre[i]) + 1, k)
    <3>1. /\ pos[t] \in Nat /\ pos[t] > Len(pre[i])
          /\ Len(pre[i]) + 1 \in Nat /\ Len(pre[i]) + 1 > Len(pre[i])
      BY <1>1, <1>2, <2>1
    <3>2. \A n \in Nat : n > Len(pre[i]) =>
              /\ Touches(i, n, k) <=> Touches(i, Len(pre[i]) + 1, k)
              /\ Writes(i, n, k) <=> WritesTo(i, k)
      BY <1>2, TaskEnds
    <3> QED
      BY <3>1, <3>2
  <2>3. Reach(t) = pos[t] /\ Reach(t)' = Len(pre[i]) + 1
    BY <1>1, <1>2 DEF Reach
  <2>4. /\ Touches(tx_id[t], Reach(t), k)' <=> Touches(i, Reach(t), k)
        /\ Writes(tx_id[t], Reach(t), k)' <=> Writes(i, Reach(t), k)
    BY <1>1, <2>2, <2>3 DEF Touches, Writes
  <2>5. (Pending(t, k)' <=> Pending(t, k)) /\ (Has(t, k)' <=> Has(t, k))
    BY <1>1 DEF Pending, Has
  <2>6. Covered(t, k)
    BY DEF LocksCover
  <2> QED
    BY <1>1, <2>4, <2>5, <2>6 DEF Covered
<1> QED
  BY <1>3, <1>4

\* Taking a lock strikes off the entry for it, and no other.
LEMMA GrantEntries ==
    ASSUME Types, Dispatched, ListsMatch, LocksCover, NEW t \in Thread, grant(t)
    PROVE  LET f == future[t][cur[t]]
           IN /\ f.key \in Key /\ Pending(t, f.key) /\ ~Has(t, f.key)
              /\ OneEntry(t)'
              /\ \A k \in Key : Pending(t, k)' <=> Pending(t, k) /\ k # f.key
              /\ \A m \in DOMAIN future'[t] : \E a \in DOMAIN future[t] :
                    future'[t][m] = future[t][a]
              /\ \A k : /\ k \in rlocks'[t] <=>
                               k \in rlocks[t] \/ (k = f.key /\ f.op = "READ")
                        /\ k \in wlocks'[t] <=>
                               k \in wlocks[t] \/ (k = f.key /\ f.op = "WRITE")
<1> DEFINE f == future[t][cur[t]]
           r == RemoveAt(future[t], cur[t])
<1>1. pc[t] = "wait" /\ f.key \in Key /\ ~Has(t, f.key)
  BY AtHead, NotYetHeld
<1>2. /\ Pending(t, f.key) /\ f.op \in {"READ", "WRITE"} /\ future[t] \in Seq(Task)
      /\ cur[t] \in 1 .. Len(future[t]) /\ DOMAIN future[t] = 1 .. Len(future[t])
  BY <1>1, EntryAt
<1>3. \A a, b \in DOMAIN future[t] : future[t][a].key = future[t][b].key => a = b
  BY DEF LocksCover, OneEntry
<1>4. future' = [future EXCEPT ![t] = r]
  BY GrantEffect
<1>5. \/ /\ f.op = "READ" /\ rlocks' = [rlocks EXCEPT ![t] = @ \cup {f.key}]
         /\ wlocks' = wlocks
      \/ /\ f.op = "WRITE" /\ wlocks' = [wlocks EXCEPT ![t] = @ \cup {f.key}]
         /\ rlocks' = rlocks
  BY GrantEffect
<1>6. /\ \A m \in DOMAIN r : \E a \in DOMAIN future[t] : a # cur[t] /\ r[m] = future[t][a]
      /\ \A a \in DOMAIN future[t] : a # cur[t] => \E m \in DOMAIN r : r[m] = future[t][a]
      /\ \A a, b \in DOMAIN r : r[a].key = r[b].key => a = b
      /\ \A m \in DOMAIN r : r[m].key # f.key
  BY <1>2, <1>3, Struck
<1>7. future'[t] = r
  BY <1>4 DEF Types
<1> HIDE DEF r
<1>8. OneEntry(t)'
  BY <1>6, <1>7 DEF OneEntry
<1>9. ASSUME NEW k \in Key
      PROVE  Pending(t, k)' <=> Pending(t, k) /\ k # f.key
  BY <1>6, <1>7 DEF Pending
<1>10. rlocks \in [Thread -> SUBSET Key] /\ wlocks \in [Thread -> SUBSET Key]
  BY DEF Types
<1> HIDE DEF f
<1>11. ASSUME NEW k
       PROVE  /\ k \in rlocks'[t] <=> k \in rlocks[t] \/ (k = f.key /\ f.op = "READ")
              /\ k \in wlocks'[t] <=> k \in wlocks[t] \/ (k = f.key /\ f.op = "WRITE")
  BY <1>5, <1>10
<1> QED
  BY <1>1, <1>2, <1>6, <1>7, <1>8, <1>9, <1>11 DEF f

LEMMA GrantCovers ==
    ASSUME Types, Dispatched, ListsMatch, LocksCover, NEW t \in Thread, grant(t)
    PROVE  OneEntry(t)' /\ \A k \in Key : Covered(t, k)'
<1> DEFINE f == future[t][cur[t]]
           i == tx_id[t]
<1>1. /\ f.key \in Key /\ Pending(t, f.key) /\ ~Has(t, f.key) /\ OneEntry(t)'
      /\ \A k \in Key : Pending(t, k)' <=> Pending(t, k) /\ k # f.key
      /\ \A m \in DOMAIN future'[t] : \E a \in DOMAIN future[t] :
            future'[t][m] = future[t][a]
      /\ \A k : /\ k \in rlocks'[t] <=> k \in rlocks[t] \/ (k = f.key /\ f.op = "READ")
                /\ k \in wlocks'[t] <=> k \in wlocks[t] \/ (k = f.key /\ f.op = "WRITE")
  BY GrantEntries
<1>2. pc[t] = "wait" /\ f.op \in {"READ", "WRITE"} /\ cur[t] \in DOMAIN future[t]
  BY EntryAt DEF grant
<1>3. pc'[t] \in {"wait", "exec"} /\ tx_id' = tx_id /\ pre' = pre
  <2>1. /\ pc' = [pc EXCEPT ![t] = IF RemoveAt(future[t], cur[t]) = << >>
                                   THEN "exec" ELSE "wait"]
        /\ UNCHANGED << dispatch, tx_id >>
    BY GrantEffect
  <2> QED
    BY <2>1 DEF Types, dispatch
<1>4. ASSUME NEW k \in Key
      PROVE  Covered(t, k)'
  <2>1. Reach(t)' = Reach(t)
    BY <1>2, <1>3 DEF Reach, Tasks
  <2>2. /\ Touches(tx_id[t], Reach(t), k)' <=> Touches(i, Reach(t), k)
        /\ Writes(tx_id[t], Reach(t), k)' <=> Writes(i, Reach(t), k)
    BY <1>3, <2>1 DEF Touches, Writes
  <2>3. Covered(t, k)
    BY DEF LocksCover
  <2>4. Has(t, k)' <=> Has(t, k) \/ k = f.key
    BY <1>1, <1>2 DEF Has
  <2>5. \A m \in DOMAIN future'[t] : future'[t][m].key = k =>
            (future'[t][m].op = "WRITE" <=> Writes(i, Reach(t), k))
    BY <1>1, <1>2, <2>3 DEF Covered
  <2>6. CASE k = f.key
    <3>1. k \in wlocks'[t] <=> Writes(i, Reach(t), k)
      BY <1>1, <1>2, <2>3, <2>6 DEF Covered, Has
    <3> QED
      BY <1>1, <1>2, <2>2, <2>3, <2>4, <2>5, <2>6, <3>1 DEF Covered
  <2>7. CASE k # f.key
    <3>1. (Pending(t, k)' <=> Pending(t, k)) /\ (Has(t, k)' <=> Has(t, k))
          /\ (k \in wlocks'[t] <=> k \in wlocks[t])
      BY <1>1, <2>4, <2>7
    <3> QED
      BY <1>2, <2>2, <2>3, <2>5, <3>1 DEF Covered
  <2> QED
    BY <2>6, <2>7
<1> QED
  BY <1>1, <1>4

LEMMA CoverStep ==
    ASSUME ~Racing, Types, Dispatched, ListsMatch, LocksCover, Dispatched', [Next]_vars
    PROVE  LocksCover'
<1>0. pre' = pre
  BY PreKept
<1>1. CASE Quit \/ Joined \/ UNCHANGED vars
  <2>1. UNCHANGED << pc, tx_id, pos, future, rlocks, wlocks >>
    BY <1>1 DEF Quit, Joined, vars, held
  <2> QED
    BY <1>0, <2>1, CoveredFrame DEF LocksCover
<1>2. ASSUME NEW t \in Thread, worker(t)
      PROVE  LocksCover'
  <2>1. ASSUME NEW u \in Thread, u # t
        PROVE  OneEntry(u)' /\ \A k \in Key : Covered(u, k)'
    <3>1. Kept(u)
      BY <1>2, <2>1, OthersKept
    <3> QED
      BY <1>0, <3>1, CoveredFrame DEF LocksCover, Kept
  <2>2. CASE regist(t)
    BY <2>1, <2>2, RegistCovers DEF LocksCover
  <2>3. CASE releaseGiant(t)
    BY <2>1, <2>3, ReleaseCovers DEF LocksCover
  <2>4. CASE grant(t)
    BY <2>1, <2>4, GrantCovers DEF LocksCover
  <2>5. CASE pass(t) \/ execute(t)
    <3>1. /\ UNCHANGED << pc, tx_id, future, rlocks, wlocks >> /\ pc[t] # "regist"
      BY <2>5 DEF pass, execute, held
    <3>2. OneEntry(t)' /\ \A k \in Key : Covered(t, k)'
      BY <1>0, <3>1, CoveredFrame DEF LocksCover
    <3> QED
      BY <2>1, <3>2 DEF LocksCover
  <2>6. CASE leave(t) \/ commit(t) \/ readUnlock(t) \/ writeUnlock(t) \/ finish(t)
    <3>1. pc'[t] \in {"done", "idle", "unlock"}
      <4>1. pc \in [Thread -> {"idle", "regist", "wait", "exec", "unlock", "done"}]
        BY DEF Types
      <4> QED
        BY <2>6, <4>1 DEF leave, commit, readUnlock, writeUnlock, finish, Goto
    <3>2. future'[t] = << >>
      BY <3>1 DEF Dispatched, WorkerMatches
    <3>3. OneEntry(t)' /\ \A k \in Key : Covered(t, k)'
      BY <3>1, <3>2 DEF OneEntry, Covered
    <3> QED
      BY <2>1, <3>3 DEF LocksCover
  <2>7. CASE acquireGiant(t)
    <3>1. /\ pc[t] = "idle" /\ UNCHANGED << future, held >>
          /\ \/ pc'[t] = "done"
             \/ pc'[t] = "regist" /\ pos'[t] = 1 /\ tx_id'[t] \in TxId
      BY <2>7, AcquireEffect
    <3>2. future'[t] = << >> /\ rlocks'[t] = {} /\ wlocks'[t] = {}
      BY <3>1 DEF Dispatched, WorkerMatches, Busy, held
    <3>3. OneEntry(t)'
      BY <3>2 DEF OneEntry
    <3>4. ASSUME NEW k \in Key, pc'[t] = "regist"
          PROVE  ~Touches(tx_id[t], Reach(t), k)' /\ ~Writes(tx_id[t], Reach(t), k)'
      <4>1. ~Touches(tx_id'[t], 1, k) /\ ~Writes(tx_id'[t], 1, k)
        BY <3>1, <3>4, TaskEnds
      <4>2. Reach(t)' = 1
        BY <3>1, <3>4 DEF Reach
      <4> QED
        BY <1>0, <4>1, <4>2 DEF Touches, Writes
    <3>5. \A k \in Key : Covered(t, k)'
      BY <3>1, <3>2, <3>4 DEF Covered, Pending, Has
    <3> QED
      BY <2>1, <3>3, <3>5 DEF LocksCover
  <2> QED
    BY <1>2, <2>2, <2>3, <2>4, <2>5, <2>6, <2>7 DEF worker
<1> QED
  BY <1>1, <1>2 DEF Next

-----------------------------------------------------------------------------
(* The wait lists *)

InList(k, i) == \E n \in DOMAIN wait_list[k] : wait_list[k][n] = i
Sorted(k) ==
    \A i, j \in DOMAIN wait_list[k] : i < j => wait_list[k][i] < wait_list[k][j]
Queued(u, k) == Pending(u, k) <=> pc[u] \in {"regist", "wait"} /\ InList(k, tx_id[u])

LEMMA ListsMatchBy ==
    ListsMatch <=>
        \A k \in Key : Sorted(k) /\ Listed(k) /\ \A u \in Thread : Queued(u, k)
BY DEF ListsMatch, WaitListsInOrder, Sorted, Queued, InList

\* A step that changes no list, and who registers or waits for what neither.
LEMMA ListsFrame ==
    ASSUME Types, ListsMatch, wait_list' = wait_list,
           tx_counter' \in {tx_counter, tx_counter + 1},
           \A u \in Thread, k \in Key : Queued(u, k) => Queued(u, k)'
    PROVE  ListsMatch'
<1>1. ASSUME NEW k \in Key
      PROVE  Sorted(k)' /\ Listed(k)' /\ \A u \in Thread : Queued(u, k)'
  <2>1. Sorted(k) /\ Listed(k) /\ \A u \in Thread : Queued(u, k)
    BY ListsMatchBy
  <2>2. \A i \in DOMAIN wait_list[k] : wait_list[k][i] \in Nat /\ tx_counter \in Nat
    BY LockManagerAssumption DEF Types, TxId
  <2>3. Listed(k)'
    BY <2>1, <2>2 DEF Listed
  <2> QED
    BY <2>1, <2>3 DEF Sorted
<1> QED
  BY <1>1 DEF ListsMatch, WaitListsInOrder, Sorted, Queued, InList

LEMMA ListTyped ==
    ASSUME Types, NEW k \in Key
    PROVE  /\ wait_list[k] \in Seq(TxId) /\ Len(wait_list[k]) \in Nat
           /\ DOMAIN wait_list[k] = 1 .. Len(wait_list[k])
           /\ \A i \in DOMAIN wait_list[k] :
                 wait_list[k][i] \in TxId /\ wait_list[k][i] \in Nat
           /\ tx_counter \in Nat
<1>1. wait_list[k] \in Seq(TxId) /\ tx_counter \in Nat
  BY DEF Types
<1>2. /\ Len(wait_list[k]) \in Nat /\ DOMAIN wait_list[k] = 1 .. Len(wait_list[k])
      /\ \A i \in DOMAIN wait_list[k] : wait_list[k][i] \in TxId
  BY <1>1
<1> QED
  BY <1>1, <1>2, LockManagerAssumption DEF TxId

\* An entry at the end is that of the transaction counted last.
LEMMA ListsEnters ==
    ASSUME ~Racing, Types, Dispatched, ListsMatch, LocksCover, NEW t \in Thread, regist(t),
           Enters(t, Tasks(t)[pos[t]])
    PROVE  ListsMatch'
<1> DEFINE i == tx_id[t]
           task == Tasks(t)[pos[t]]
           q == task.key
           old == wait_list[q]
<1>1. /\ i \in TxId /\ q \in Key /\ tx_counter = i + 1 /\ task \in Task
      /\ Touches(i, pos[t], q) <=> Pending(t, q)
  BY Registering
<1>2. pc[t] = "regist" /\ UNCHANGED << dispatch, pc, tx_id >>
  BY RegistEffect
<1>3. /\ wait_list' = [wait_list EXCEPT ![q] = Append(@, i)]
      /\ future' = [future EXCEPT ![t] = Append(@, task)]
      /\ ~Touches(i, pos[t], q)
  BY DEF Enters
<1> HIDE DEF task, q
<1>4. /\ wait_list'[q] = Append(old, i)
      /\ \A k \in Key : k # q => wait_list'[k] = wait_list[k]
  BY <1>1, <1>3 DEF Types
<1>5. /\ DOMAIN wait_list'[q] = 1 .. Len(old) + 1
      /\ \A n \in 1 .. Len(old) : wait_list'[q][n] = old[n]
      /\ wait_list'[q][Len(old) + 1] = i
  BY <1>1, <1>4, ListTyped
<1>6. /\ DOMAIN old = 1 .. Len(old) /\ Len(old) \in Nat
      /\ \A n \in DOMAIN old : old[n] \in Nat
  BY <1>1, ListTyped
<1>7. \A k \in Key : Sorted(k) /\ Listed(k) /\ \A u \in Thread : Queued(u, k)
  BY ListsMatchBy
<1>8. ~InList(q, i) /\ i \in Nat
  BY <1>1, <1>2, <1>3, <1>7, LockManagerAssumption DEF Queued, TxId
<1>9. \A n \in DOMAIN old : old[n] < i
  BY <1>1, <1>6, <1>7, <1>8 DEF Listed, InList
<1>10. \A n \in DOMAIN wait_list'[q] : n \in DOMAIN old \/ n = Len(old) + 1
  BY <1>5, <1>6
<1>11. \A k \in Key : k = q => Sorted(k)' /\ Listed(k)'
  <2>1. \A m, n \in DOMAIN wait_list'[q] : m < n => m \in DOMAIN old
    BY <1>5, <1>6
  <2>2. ASSUME NEW m \in DOMAIN wait_list'[q], NEW n \in DOMAIN wait_list'[q], m < n
        PROVE  wait_list'[q][m] < wait_list'[q][n]
    <3>1. m \in DOMAIN old
      BY <2>1, <2>2
    <3>2. CASE n \in DOMAIN old
      BY <1>1, <1>5, <1>6, <1>7, <2>2, <3>1, <3>2 DEF Sorted
    <3>3. CASE n = Len(old) + 1
      BY <1>5, <1>6, <1>9, <3>1, <3>3
    <3> QED
      BY <1>10, <3>2, <3>3
  <2>3. \A n \in DOMAIN wait_list'[q] : wait_list'[q][n] < tx_counter'
    <3>1. tx_counter' = i + 1
      BY <1>1, <1>2 DEF dispatch
    <3> QED
      BY <1>5, <1>6, <1>8, <1>9, <1>10, <3>1
  <2> QED
    BY <2>2, <2>3 DEF Sorted, Listed
<1>12. ASSUME NEW k \in Key
       PROVE  Sorted(k)' /\ Listed(k)'
  <2>1. CASE k = q
    BY <1>11, <2>1
  <2>2. CASE k # q
    BY <1>2, <1>4, <1>7, <2>2 DEF Sorted, Listed, dispatch
  <2> QED
    BY <2>1, <2>2
<1>13. ASSUME NEW k \in Key, NEW u \in Thread
       PROVE  Queued(u, k)'
  <2>1. ASSUME NEW j
        PROVE  InList(k, j)' <=> InList(k, j) \/ (k = q /\ j = i)
    <3>1. CASE k = q
      <4>1. /\ DOMAIN old \subseteq DOMAIN wait_list'[k]
            /\ Len(old) + 1 \in DOMAIN wait_list'[k]
            /\ \A n \in DOMAIN old : wait_list'[k][n] = old[n]
        BY <1>5, <1>6, <3>1
      <4>2. (\E n \in DOMAIN wait_list'[k] : wait_list'[k][n] = j)
               <=> (\E n \in DOMAIN old : old[n] = j) \/ j = i
        BY <1>5, <1>10, <3>1, <4>1
      <4> QED
        BY <3>1, <4>2 DEF InList
    <3>2. CASE k # q
      BY <1>4, <3>2 DEF InList
    <3> QED
      BY <3>1, <3>2
  <2>2. Queued(u, k) /\ pc' = pc /\ tx_id' = tx_id
    BY <1>2, <1>7
  <2>3. InList(k, tx_id[u])' <=> InList(k, tx_id[u]) \/ (k = q /\ tx_id[u] = i)
    <3>1. InList(k, tx_id[u])' <=> \E n \in DOMAIN wait_list'[k] : wait_list'[k][n] = tx_id[u]
      BY <2>2 DEF InList
    <3>2. InList(k, tx_id[u]) \/ (k = q /\ tx_id[u] = i)
             <=> \E n \in DOMAIN wait_list'[k] : wait_list'[k][n] = tx_id[u]
      BY <2>1 DEF InList
    <3> QED
      BY <3>1, <3>2
  <2>4. CASE u = t
    <3>1. future'[t] = Append(future[t], task) /\ future[t] \in Seq(Task)
      BY <1>3 DEF Types
    <3>2. Pending(t, k)' <=> Pending(t, k) \/ k = q
      <4>1. /\ DOMAIN future'[t] = 1 .. Len(future[t]) + 1
            /\ DOMAIN future[t] = 1 .. Len(future[t]) /\ Len(future[t]) \in Nat
            /\ \A n \in DOMAIN future[t] : future'[t][n] = future[t][n]
            /\ future'[t][Len(future[t]) + 1] = task
        BY <1>1, <3>1
      <4>2. \A n \in DOMAIN future'[t] : n \in DOMAIN future[t] \/ n = Len(future[t]) + 1
        BY <4>1
      <4>3. DOMAIN future[t] \subseteq DOMAIN future'[t]
            /\ Len(future[t]) + 1 \in DOMAIN future'[t]
        BY <4>1
      <4> QED
        BY <4>1, <4>2, <4>3 DEF Pending, q
    <3> QED
      BY <1>2, <2>2, <2>3, <2>4, <3>2 DEF Queued
  <2>5. CASE u # t
    <3>1. Pending(u, k)' <=> Pending(u, k)
      BY <1>3, <2>5 DEF Pending, Types
    <3>2. pc[u] \in {"regist", "wait"} => tx_id[u] # i
      BY <1>2, <2>5 DEF Dispatched, Busy
    <3> QED
      BY <2>2, <2>3, <3>1, <3>2 DEF Queued
  <2> QED
    BY <2>4, <2>5
<1> QED
  BY <1>12, <1>13 DEF ListsMatch, WaitListsInOrder, Sorted, Queued, InList

\* Only the head is struck off a list.
LEMMA ListsGrant ==
    ASSUME Types, Dispatched, ListsMatch, LocksCover, Dispatched', NEW t \in Thread, grant(t)
    PROVE  ListsMatch'
<1> DEFINE i == tx_id[t]
           q == future[t][cur[t]].key
           old == wait_list[q]
<1>1. /\ q \in Key /\ old \in Seq(TxId) /\ old # << >> /\ old[1] = i /\ i \in TxId
      /\ DOMAIN old = 1 .. Len(old) /\ pc[t] = "wait"
  BY AtHead
<1>2. /\ wait_list'[q] = Tail(old)
      /\ \A k \in Key : k # q => wait_list'[k] = wait_list[k]
      /\ UNCHANGED << dispatch, tx_id >>
      /\ pc' = [pc EXCEPT ![t] = IF RemoveAt(future[t], cur[t]) = << >>
                                 THEN "exec" ELSE "wait"]
  BY GrantEffect
<1>3. \A k \in Key : Pending(t, k)' <=> Pending(t, k) /\ k # q
  BY GrantEntries
<1>4. pc'[t] \in {"wait", "exec"} /\ \A u \in Thread : u # t => pc'[u] = pc[u]
  BY <1>2 DEF Types
<1> HIDE DEF q
<1>5. /\ DOMAIN wait_list'[q] = 1 .. Len(old) - 1 /\ Len(old) \in Nat \ {0}
      /\ \A n \in 1 .. Len(old) - 1 : wait_list'[q][n] = old[n + 1]
  BY <1>1, <1>2
<1>6. \A k \in Key : Sorted(k) /\ Listed(k) /\ \A u \in Thread : Queued(u, k)
  BY ListsMatchBy
<1>7. \A n \in DOMAIN old : old[n] \in Nat /\ (n # 1 => old[1] < old[n])
  <2>1. \A n \in DOMAIN old : n # 1 => 1 < n /\ 1 \in DOMAIN old
    BY <1>1
  <2> QED
    BY <1>1, <1>6, <2>1, ListTyped DEF Sorted
<1>8. \A n \in DOMAIN wait_list'[q] : n + 1 \in DOMAIN old /\ n + 1 # 1
  BY <1>1, <1>5
<1>9. ASSUME NEW k \in Key
      PROVE  Sorted(k)' /\ Listed(k)'
  <2>1. CASE k = q
    <3>1. ASSUME NEW m \in DOMAIN wait_list'[k], NEW n \in DOMAIN wait_list'[k], m < n
          PROVE  wait_list'[k][m] < wait_list'[k][n]
      <4>1. m + 1 \in DOMAIN old /\ n + 1 \in DOMAIN old /\ m + 1 < n + 1
        BY <1>1, <1>5, <2>1, <3>1
      <4> QED
        BY <1>5, <1>6, <2>1, <4>1 DEF Sorted
    <3>2. \A n \in DOMAIN wait_list'[k] : wait_list'[k][n] < tx_counter'
      BY <1>2, <1>5, <1>6, <1>8, <2>1 DEF Listed, dispatch
    <3> QED
      BY <3>1, <3>2 DEF Sorted, Listed
  <2>2. CASE k # q
    BY <1>2, <1>6, <2>2 DEF Sorted, Listed, dispatch
  <2> QED
    BY <2>1, <2>2
<1>10. ASSUME NEW k \in Key, NEW u \in Thread
       PROVE  Queued(u, k)'
  <2>1. ASSUME NEW j
        PROVE  InList(k, j)' <=> InList(k, j) /\ ~(k = q /\ j = i)
    <3>1. CASE k = q
      <4>1. ASSUME NEW n \in DOMAIN wait_list'[k]
            PROVE  n + 1 \in DOMAIN old /\ wait_list'[k][n] = old[n + 1] /\ old[n + 1] # i
        <5>1. /\ n + 1 \in DOMAIN old /\ n + 1 # 1 /\ 1 \in DOMAIN old
              /\ wait_list'[k][n] = old[n + 1]
          BY <1>1, <1>5, <1>8, <3>1, <4>1
        <5> QED
          BY <1>1, <1>7, <5>1
      <4>2. ASSUME NEW n \in DOMAIN old, old[n] # i
            PROVE  \E m \in DOMAIN wait_list'[k] : wait_list'[k][m] = old[n]
        <5>1. n - 1 \in DOMAIN wait_list'[k] /\ n - 1 + 1 = n
          BY <1>1, <1>5, <3>1, <4>2
        <5> QED
          BY <1>5, <3>1, <5>1
      <4> QED
        BY <3>1, <4>1, <4>2 DEF InList
    <3>2. CASE k # q
      BY <1>2, <3>2 DEF InList
    <3> QED
      BY <3>1, <3>2
  <2>2. Queued(u, k) /\ tx_id' = tx_id
    BY <1>2, <1>6
  <2>3. InList(k, tx_id[u])' <=> InList(k, tx_id[u]) /\ ~(k = q /\ tx_id[u] = i)
    <3>1. InList(k, tx_id[u])' <=> \E n \in DOMAIN wait_list'[k] : wait_list'[k][n] = tx_id[u]
      BY <2>2 DEF InList
    <3>2. InList(k, tx_id[u]) /\ ~(k = q /\ tx_id[u] = i)
             <=> \E n \in DOMAIN wait_list'[k] : wait_list'[k][n] = tx_id[u]
      BY <2>1 DEF InList
    <3> QED
      BY <3>1, <3>2
  <2>4. CASE u = t
    <3>1. CASE pc'[t] = "wait"
      BY <1>1, <1>3, <2>2, <2>3, <2>4, <3>1 DEF Queued
    <3>2. CASE pc'[t] = "exec"
      <4>1. future'[t] = << >>
        BY <3>2 DEF Dispatched, WorkerMatches
      <4> QED
        BY <2>4, <3>2, <4>1 DEF Queued, Pending
    <3> QED
      BY <1>4, <3>1, <3>2
  <2>5. CASE u # t
    <3>1. Pending(u, k)' <=> Pending(u, k)
      <4>1. future' = [future EXCEPT ![t] = RemoveAt(future[t], cur[t])]
        BY GrantEffect
      <4> QED
        BY <2>5, <4>1 DEF Pending, Types
    <3>2. pc[u] \in {"regist", "wait"} => tx_id[u] # i
      BY <1>1, <2>5 DEF Dispatched, Busy
    <3> QED
      BY <1>4, <2>2, <2>3, <2>5, <3>1, <3>2 DEF Queued
  <2> QED
    BY <2>4, <2>5
<1> QED
  BY <1>9, <1>10 DEF ListsMatch, WaitListsInOrder, Sorted, Queued, InList

LEMMA ListsStep ==
    ASSUME ~Racing, Types, Dispatched, ListsMatch, LocksCover, Dispatched', [Next]_vars
    PROVE  ListsMatch'
<1>1. CASE Quit \/ Joined \/ UNCHANGED vars
  <2>1. UNCHANGED << pc, tx_id, future, wait_list, tx_counter >>
    BY <1>1 DEF Quit, Joined, vars, lists
  <2> QED
    BY <2>1 DEF ListsMatch, WaitListsInOrder, Listed, Pending
<1>2. ASSUME NEW t \in Thread, worker(t)
      PROVE  ListsMatch'
  <2>1. ASSUME wait_list' = wait_list, \A k \in Key : Queued(t, k) => Queued(t, k)'
        PROVE  ListsMatch'
    <3>1. tx_counter' \in {tx_counter, tx_counter + 1}
      BY <1>2, GiantStep
    <3>2. ASSUME NEW u \in Thread, NEW k \in Key, Queued(u, k)
          PROVE  Queued(u, k)'
      <4>1. CASE u = t
        BY <2>1, <3>2, <4>1
      <4>2. CASE u # t
        <5>1. Kept(u)
          BY <1>2, <4>2, OthersKept
        <5> QED
          BY <2>1, <3>2, <5>1 DEF Kept, Queued, Pending, InList
      <4> QED
        BY <4>1, <4>2
    <3> QED
      BY <2>1, <3>1, <3>2, ListsFrame
  <2>2. CASE regist(t)
    <3> DEFINE task == Tasks(t)[pos[t]]
    <3>1. /\ Enters(t, task) \/ Upgrades(t, task) \/ Repeats(t, task)
          /\ UNCHANGED << pc, tx_id >>
      BY <2>2, RegistEffect
    <3>2. CASE Enters(t, task)
      BY <2>2, <3>2, ListsEnters
    <3> HIDE DEF task
    <3>3. CASE Upgrades(t, task)
      <4>1. /\ wait_list' = wait_list
            /\ future'[t] = [i \in DOMAIN future[t] |->
                   IF future[t][i].key = task.key THEN task ELSE future[t][i]]
        BY <3>3 DEF Upgrades, Types
      <4>2. /\ DOMAIN future'[t] = DOMAIN future[t]
            /\ \A n \in DOMAIN future[t] : future'[t][n].key = future[t][n].key
        BY <4>1
      <4>3. \A k \in Key : Pending(t, k)' <=> Pending(t, k)
        BY <4>2 DEF Pending
      <4> QED
        BY <2>1, <3>1, <4>1, <4>3 DEF Queued, InList
    <3>4. CASE Repeats(t, task)
      <4>1. wait_list' = wait_list /\ future' = future
        BY <3>4 DEF Repeats
      <4> QED
        BY <2>1, <3>1, <4>1 DEF Queued, InList, Pending
    <3> QED
      BY <3>1, <3>2, <3>3, <3>4
  <2>3. CASE grant(t)
    BY <2>3, ListsGrant
  <2>4. CASE acquireGiant(t)
    <3>1. /\ pc[t] = "idle" /\ UNCHANGED << lists, future >>
          /\ pc'[t] = "done" \/ (pc'[t] = "regist" /\ tx_id'[t] = tx_counter)
      BY <2>4, AcquireEffect
    <3>2. future'[t] = << >> /\ wait_list' = wait_list
      BY <3>1 DEF Dispatched, WorkerMatches, lists
    <3>3. ASSUME NEW k \in Key
          PROVE  Queued(t, k)'
      <4>1. \A n \in DOMAIN wait_list[k] : wait_list[k][n] # tx_counter
        BY ListTyped DEF ListsMatch, Listed
      <4> QED
        BY <3>1, <3>2, <4>1 DEF Queued, Pending, InList
    <3> QED
      BY <2>1, <3>2, <3>3
  <2>5. CASE releaseGiant(t)
    <3>1. /\ pc[t] = "regist" /\ pc'[t] = IF future[t] = << >> THEN "exec" ELSE "wait"
          /\ UNCHANGED << wait_list, tx_id, future >>
      BY <2>5 DEF releaseGiant, Goto, lists, Types
    <3>2. \A k \in Key : Queued(t, k) => Queued(t, k)'
      BY <3>1 DEF Queued, Pending, InList
    <3> QED
      BY <2>1, <3>1, <3>2
  <2>6. CASE pass(t)
    <3>1. UNCHANGED << pc, wait_list, tx_id, future >>
      BY <2>6 DEF pass, lists
    <3> QED
      BY <2>1, <3>1 DEF Queued, Pending, InList
  <2>7. CASE leave(t) \/ execute(t) \/ commit(t) \/ readUnlock(t) \/ writeUnlock(t)
             \/ finish(t)
    <3>1. pc'[t] \notin {"regist", "wait"} /\ wait_list' = wait_list
      <4>1. pc \in [Thread -> {"idle", "regist", "wait", "exec", "unlock", "done"}]
        BY DEF Types
      <4> QED
        BY <2>7, <4>1 DEF leave, execute, commit, readUnlock, writeUnlock, finish, Goto,
                          lists
    <3>2. future'[t] = << >>
      BY <3>1 DEF Dispatched, WorkerMatches
    <3> QED
      BY <2>1, <3>1, <3>2 DEF Queued, Pending
  <2> QED
    BY <1>2, <2>2, <2>3, <2>4, <2>5, <2>6, <2>7 DEF worker
<1> QED
  BY <1>1, <1>2 DEF Next

LEMMA BaseStep ==
    ASSUME ~Racing, Base, [Next]_vars
    PROVE  Base'
<1>1. Types'
  BY TypesStep DEF Base
<1>2. Dispatched'
  BY DispatchedStep DEF Base
<1>3. Counted'
  BY AgreeStep DEF Base
<1>4. LocksCover'
  BY <1>2, CoverStep DEF Base
<1>5. ListsMatch'
  BY <1>2, ListsStep DEF Base
<1> QED
  BY <1>1, <1>2, <1>3, <1>4, <1>5 DEF Base

-----------------------------------------------------------------------------
(* Passing a wait list *)

\* t takes the lock on k for writing.
Takes(t, k) ==
    grant(t) /\ future[t][cur[t]].key = k /\ future[t][cur[t]].op = "WRITE"

LEMMA Numbers ==
    ASSUME Types
    PROVE  tx_counter \in Nat /\ TxId \subseteq Nat
BY LockManagerAssumption DEF Types, TxId

\* What a transaction writes and has not locked, its worker waits for.
LEMMA WriterWaits ==
    ASSUME Base, NEW t \in Thread, NEW k \in Key, WritesTo(tx_id[t], k), ~Has(t, k),
           \/ pc[t] \in {"wait", "exec"}
           \/ pc[t] = "regist" /\ pos[t] > Len(Tasks(t))
    PROVE  /\ Pending(t, k)
           /\ \A a \in DOMAIN future[t] : future[t][a].key = k => future[t][a].op = "WRITE"
<1> DEFINE i == tx_id[t]
<1>1. i \in TxId /\ Tasks(t) = pre[i]
  BY DEF Base, Dispatched, WorkerMatches, Busy, Tasks
<1>2. Len(pre[i]) \in Nat /\ pos[t] \in Nat
  BY <1>1, TasksTyped DEF Base, Types
<1>3. Reach(t) \in Nat /\ Reach(t) > Len(pre[i])
  BY <1>1, <1>2 DEF Reach
<1>4. Writes(i, Reach(t), k) /\ Touches(i, Reach(t), k)
  BY <1>1, <1>3, TaskEnds DEF Base
<1>5. Covered(t, k)
  BY DEF Base, LocksCover
<1> QED
  BY <1>4, <1>5 DEF Covered

\* A worker leaves a record it writes behind only by taking the lock.
LEMMA WorkerBehind ==
    ASSUME ~Racing, Base, Base', NEW t \in Thread, worker(t), ~acquireGiant(t),
           NEW k \in Key, NEW j \in TxId, WritesTo(j, k)
    PROVE  Behind(t, j, k)' <=> Behind(t, j, k) /\ ~Takes(t, k)
<1>0. /\ pc \in [Thread -> {"idle", "regist", "wait", "exec", "unlock", "done"}]
      /\ Types /\ Dispatched /\ ListsMatch /\ LocksCover
  BY DEF Base, Types
<1>1. CASE regist(t) \/ pass(t)
  <2>1. UNCHANGED << pc, tx_id, rlocks, wlocks >> /\ ~Takes(t, k)
    <3>1. regist(t) => pc[t] = "regist"
      BY DEF regist
    <3>2. grant(t) => pc[t] = "wait" /\ future' # future
      <4>1. grant(t) => /\ future' = [future EXCEPT ![t] = RemoveAt(future[t], cur[t])]
                        /\ Len(RemoveAt(future[t], cur[t])) = Len(future[t]) - 1
        BY <1>0, GrantEffect
      <4>2. grant(t) => future'[t] # future[t]
        <5>1. future \in [Thread -> Seq(Task)] /\ Len(future[t]) \in Nat
          BY <1>0 DEF Types
        <5> QED
          BY <4>1, <5>1
      <4> QED
        BY <4>2 DEF grant
    <3>3. pass(t) => future' = future
      BY DEF pass
    <3> QED
      BY <1>1, <3>1, <3>2, <3>3 DEF regist, pass, Takes, held
  <2> QED
    BY <2>1 DEF Behind, Has
<1>2. CASE leave(t) \/ execute(t) \/ commit(t) \/ readUnlock(t) \/ writeUnlock(t)
           \/ finish(t)
  <2>1. pc[t] \notin {"regist", "wait"} /\ pc'[t] \notin {"regist", "wait"}
    BY <1>0, <1>2 DEF leave, execute, commit, readUnlock, writeUnlock, finish, Goto
  <2> QED
    BY <2>1 DEF Behind
<1>3. CASE releaseGiant(t)
  <2>1. /\ pc[t] = "regist" /\ pc'[t] = IF future[t] = << >> THEN "exec" ELSE "wait"
        /\ UNCHANGED << tx_id, rlocks, wlocks >> /\ pos[t] > Len(Tasks(t))
    BY <1>0, <1>3 DEF releaseGiant, Goto, held
  <2>2. ~Takes(t, k)
    BY <2>1 DEF Takes, grant
  <2>3. Has(t, k)' <=> Has(t, k)
    BY <2>1 DEF Has
  <2>4. Behind(t, j, k) => future[t] # << >>
    BY <2>1, WriterWaits DEF Behind, Pending
  <2> QED
    BY <2>1, <2>2, <2>3, <2>4 DEF Behind
<1>4. CASE grant(t)
  <2> DEFINE f == future[t][cur[t]]
  <2>1. /\ f.key \in Key /\ Pending(t, f.key) /\ ~Has(t, f.key)
        /\ \A q \in Key : Pending(t, q)' <=> Pending(t, q) /\ q # f.key
        /\ \A q : /\ q \in rlocks'[t] <=> q \in rlocks[t] \/ (q = f.key /\ f.op = "READ")
                  /\ q \in wlocks'[t] <=> q \in wlocks[t] \/ (q = f.key /\ f.op = "WRITE")
    BY <1>0, <1>4, GrantEntries
  <2>2. pc[t] = "wait" /\ f.op \in {"READ", "WRITE"} /\ cur[t] \in DOMAIN future[t]
    BY <1>0, <1>4, EntryAt DEF grant
  <2>3. tx_id' = tx_id
    BY <1>4 DEF grant
  <2>4. Has(t, k)' <=> Has(t, k) \/ k = f.key
    BY <2>1, <2>2 DEF Has
  <2>5. ASSUME Behind(t, j, k)
        PROVE  IF k = f.key THEN f.op = "WRITE" ELSE pc'[t] = "wait"
    <3>1. /\ Pending(t, k)
          /\ \A a \in DOMAIN future[t] : future[t][a].key = k => future[t][a].op = "WRITE"
      BY <2>2, <2>5, WriterWaits DEF Behind
    <3>2. CASE k = f.key
      BY <2>2, <3>1, <3>2
    <3>3. CASE k # f.key
      <4>1. Pending(t, k)'
        BY <2>1, <3>1, <3>3
      <4>2. pc'[t] \in {"regist", "wait"}
        BY <4>1 DEF Base, Dispatched, WorkerMatches, Pending
      <4>3. pc'[t] # "regist"
        BY <1>0, <1>4, <2>2 DEF grant, Dequeues, Goto
      <4> QED
        BY <3>3, <4>2, <4>3
    <3> QED
      BY <3>2, <3>3
  <2>6. Takes(t, k) <=> k = f.key /\ f.op = "WRITE"
    BY <1>4 DEF Takes
  <2> HIDE DEF f
  <2> QED
    BY <2>2, <2>3, <2>4, <2>5, <2>6 DEF Behind
<1> QED
  BY <1>1, <1>2, <1>3, <1>4 DEF worker

LEMMA PassedWorker ==
    ASSUME ~Racing, Base, Base', NEW t \in Thread, worker(t),
           NEW k \in Key, NEW j \in TxId, WritesTo(j, k)
    PROVE  Passed(j, k)' <=> Passed(j, k) \/ (Takes(t, k) /\ tx_id[t] = j)
<1>0. Types /\ Dispatched /\ tx_counter \in Nat /\ j \in Nat
  BY Numbers DEF Base
<1>1. ASSUME NEW u \in Thread, u # t
      PROVE  Behind(u, j, k)' <=> Behind(u, j, k)
  BY <1>0, <1>1, OthersKept DEF Kept, Behind, Has
<1>2. CASE acquireGiant(t)
  <2>1. /\ pc[t] = "idle" /\ UNCHANGED held
        /\ \/ pc'[t] = "done" /\ tx_counter' = tx_counter
           \/ /\ pc'[t] = "regist" /\ tx_counter' = tx_counter + 1
              /\ tx_id'[t] = tx_counter
    BY <1>0, <1>2, AcquireEffect
  <2>2. ~Takes(t, k) /\ ~Behind(t, j, k) /\ ~Has(t, k)'
    BY <1>0, <2>1 DEF Takes, grant, Behind, Has, Dispatched, WorkerMatches, Busy, held
  <2>3. Behind(t, j, k)' <=> pc'[t] = "regist" /\ j = tx_counter
    BY <2>1, <2>2 DEF Behind
  <2> QED
    BY <1>0, <1>1, <2>1, <2>2, <2>3 DEF Passed
<1>3. CASE ~acquireGiant(t)
  <2>1. tx_counter' = tx_counter
    BY <1>0, <1>3, GiantStep
  <2>2. Behind(t, j, k)' <=> Behind(t, j, k) /\ ~Takes(t, k)
    BY <1>3, WorkerBehind
  <2>3. Behind(t, j, k) => tx_id[t] = j
    BY DEF Behind
  <2>4. ASSUME Takes(t, k), tx_id[t] = j
        PROVE  j < tx_counter /\ \A u \in Thread : u # t => ~Behind(u, j, k)
    <3>1. pc[t] = "wait"
      BY <2>4 DEF Takes, grant
    <3> QED
      BY <1>0, <2>4, <3>1 DEF Dispatched, WorkerMatches, Busy, Behind
  <2> QED
    BY <1>1, <2>1, <2>2, <2>3, <2>4 DEF Passed
<1> QED
  BY <1>2, <1>3

-----------------------------------------------------------------------------
(* Taking turns *)

\* Who waits for a record at which a lock is taken is not before the taker.
LEMMA FirstInLine ==
    ASSUME Base, NEW t \in Thread, grant(t), NEW u \in Thread,
           NEW k \in Key, k = future[t][cur[t]].key, Pending(u, k)
    PROVE  ~(tx_id[u] < tx_id[t])
<1>1. wait_list[k][1] = tx_id[t] /\ wait_list[k] # << >>
  BY AtHead DEF Base
<1>2. Sorted(k) /\ Queued(u, k)
  BY ListsMatchBy DEF Base
<1>3. PICK n \in DOMAIN wait_list[k] : wait_list[k][n] = tx_id[u]
  BY <1>2 DEF Queued, InList
<1>4. /\ DOMAIN wait_list[k] = 1 .. Len(wait_list[k]) /\ Len(wait_list[k]) \in Nat
      /\ \A i \in DOMAIN wait_list[k] : wait_list[k][i] \in Nat
  BY ListTyped DEF Base
<1>5. 1 \in DOMAIN wait_list[k] /\ (n = 1 \/ 1 < n)
  BY <1>3, <1>4
<1>6. wait_list[k][1] \in Nat /\ wait_list[k][n] \in Nat
  BY <1>3, <1>4, <1>5
<1>7. n = 1 \/ wait_list[k][1] < wait_list[k][n]
  BY <1>2, <1>3, <1>5 DEF Sorted
<1> QED
  BY <1>1, <1>3, <1>6, <1>7

\* The locks and entries of a worker are those it had, but for one.
LEMMA ClaimsKept ==
    ASSUME ~Racing, Base, Base', NEW t \in Thread, worker(t), NEW u \in Thread,
           NEW k \in Key, Has(u, k)' \/ Pending(u, k)'
    PROVE  /\ tx_id'[u] = tx_id[u] /\ tx_id[u] \in TxId /\ tx_id[u] < tx_counter
           /\ Has(u, k) \/ Pending(u, k) \/ (u = t /\ regist(t))
           /\ Has(u, k)' /\ ~Has(u, k) => u = t /\ grant(t) /\ k = future[t][cur[t]].key
<1>0. /\ Types /\ Dispatched /\ ListsMatch /\ LocksCover /\ Dispatched'
      /\ rlocks \in [Thread -> SUBSET Key] /\ wlocks \in [Thread -> SUBSET Key]
  BY DEF Base, Types
<1>1. Busy(u)'
  BY <1>0 DEF Dispatched, WorkerMatches, Busy, Has, Pending
<1>2. CASE u # t
  <2>1. Kept(u)
    BY <1>0, <1>2, OthersKept
  <2>2. (Has(u, k)' <=> Has(u, k)) /\ (Pending(u, k)' <=> Pending(u, k)) /\ Busy(u)
    BY <1>1, <2>1 DEF Kept, Has, Pending, Busy
  <2> QED
    BY <1>0, <2>1, <2>2 DEF Kept, Dispatched, WorkerMatches
<1>3. CASE u = t
  <2>1. ~acquireGiant(t)
    <3>1. ASSUME acquireGiant(t)
          PROVE  FALSE
      <4>1. ~Busy(t) /\ pc[t] = "idle" /\ UNCHANGED << future, held >>
        BY <1>0, <3>1, AcquireEffect
      <4>2. rlocks[t] = {} /\ wlocks[t] = {} /\ future[t] = << >>
        BY <1>0, <4>1 DEF Dispatched, WorkerMatches
      <4> QED
        BY <1>3, <4>1, <4>2 DEF Has, Pending, held
    <3> QED
      BY <3>1
  <2>2. Busy(t) /\ tx_id'[t] = tx_id[t]
    BY <1>0, <1>1, <1>3, <2>1, OnlyAcquired
  <2>3. tx_id[t] \in TxId /\ tx_id[t] < tx_counter
    BY <1>0, <2>2 DEF Dispatched, WorkerMatches
  <2>4. CASE leave(t) \/ releaseGiant(t) \/ pass(t) \/ execute(t) \/ commit(t) \/ finish(t)
    <3>1. UNCHANGED << future, rlocks, wlocks >>
      BY <2>4 DEF leave, releaseGiant, pass, execute, commit, finish, held
    <3> QED
      BY <1>3, <2>2, <2>3, <3>1 DEF Has, Pending
  <2>5. CASE regist(t)
    <3>1. UNCHANGED << rlocks, wlocks >>
      BY <2>5 DEF regist, held
    <3> QED
      BY <1>3, <2>2, <2>3, <2>5, <3>1 DEF Has
  <2>6. CASE readUnlock(t) \/ writeUnlock(t)
    <3>1. future' = future /\ rlocks'[t] \subseteq rlocks[t] /\ wlocks'[t] \subseteq wlocks[t]
      BY <1>0, <2>6 DEF readUnlock, writeUnlock
    <3> QED
      BY <1>3, <2>2, <2>3, <3>1 DEF Has, Pending
  <2>7. CASE grant(t)
    <3> DEFINE f == future[t][cur[t]]
    <3>1. /\ Pending(t, f.key)
          /\ \A q \in Key : Pending(t, q)' <=> Pending(t, q) /\ q # f.key
          /\ \A q : /\ q \in rlocks'[t] <=> q \in rlocks[t] \/ (q = f.key /\ f.op = "READ")
                    /\ q \in wlocks'[t] <=> q \in wlocks[t] \/ (q = f.key /\ f.op = "WRITE")
      BY <1>0, <2>7, GrantEntries
    <3>2. Has(t, k)' => Has(t, k) \/ k = f.key
      BY <3>1 DEF Has
    <3> HIDE DEF f
    <3>3. Has(t, k) \/ Pending(t, k)
      BY <1>3, <3>1, <3>2
    <3> QED
      BY <1>3, <2>2, <2>3, <2>7, <3>2, <3>3 DEF f
  <2> QED
    BY <2>1, <2>4, <2>5, <2>6, <2>7 DEF worker
<1> QED
  BY <1>2, <1>3

\* To take the lock for writing, no one may have it.
LEMMA TakesAlone ==
    ASSUME Base, NEW t \in Thread, NEW k, Takes(t, k), NEW u \in Thread
    PROVE  ~Has(u, k)
<1>1. CanWriteLock(lock[k])
  BY DEF Takes, grant, Locks
<1> QED
  BY <1>1, HeldNotFree DEF Base

LEMMA WritesToKept ==
    ASSUME [Next]_vars
    PROVE  \A j, k : WritesTo(j, k)' <=> WritesTo(j, k)
BY PreKept DEF WritesTo

LEMMA InTurnStep ==
    ASSUME ~Racing, Base, Base', InTurn, [Next]_vars
    PROVE  InTurn'
<1>0. \A j, k : WritesTo(j, k)' <=> WritesTo(j, k)
  BY WritesToKept
<1>1. CASE Quit \/ Joined \/ UNCHANGED vars
  <2>1. UNCHANGED << pc, tx_id, future, rlocks, wlocks, tx_counter >>
    BY <1>1 DEF Quit, Joined, vars, held
  <2>2. \A j, k : Passed(j, k)' <=> Passed(j, k)
    BY <2>1 DEF Passed, Behind, Has
  <2> QED
    BY <1>0, <2>1, <2>2 DEF InTurn, Has, Pending
<1>2. ASSUME NEW t \in Thread, worker(t), NEW u \in Thread, NEW k \in Key, NEW j \in TxId,
             WritesTo(j, k), Has(u, k)' \/ Pending(u, k)'
      PROVE  /\ Has(u, k)' /\ j < tx_id'[u] => Passed(j, k)'
             /\ ~(j > tx_id'[u] /\ Passed(j, k)')
  <2>0. /\ tx_id'[u] = tx_id[u] /\ tx_id[u] \in TxId /\ tx_id[u] < tx_counter
        /\ Has(u, k) \/ Pending(u, k) \/ (u = t /\ regist(t))
        /\ Has(u, k)' /\ ~Has(u, k) => u = t /\ grant(t) /\ k = future[t][cur[t]].key
    BY <1>2, ClaimsKept
  <2>1. Passed(j, k)' <=> Passed(j, k) \/ (Takes(t, k) /\ tx_id[t] = j)
    BY <1>2, PassedWorker
  <2>2. /\ Types /\ Dispatched /\ tx_counter \in Nat /\ j \in Nat /\ tx_id[u] \in Nat
    BY <2>0, Numbers DEF Base
  <2>3. ASSUME Has(u, k)', j < tx_id[u]
        PROVE  Passed(j, k)
    <3>1. CASE Has(u, k)
      BY <1>2, <2>3, <3>1 DEF InTurn
    <3>2. CASE ~Has(u, k)
      <4>1. u = t /\ grant(t) /\ k = future[t][cur[t]].key
        BY <2>0, <2>3, <3>2
      <4>2. ASSUME NEW v \in Thread, Behind(v, j, k)
            PROVE  FALSE
        <5>1. pc[v] \in {"regist", "wait"} /\ tx_id[v] = j /\ ~Has(v, k)
          BY <4>2 DEF Behind
        <5>2. pc[v] = "wait"
          <6>1. pc[v] = "regist" => tx_counter = j + 1
            BY <2>2, <5>1 DEF Dispatched, WorkerMatches
          <6> QED
            BY <2>0, <2>2, <2>3, <5>1, <6>1
        <5>3. Pending(v, k)
          BY <1>2, <5>1, <5>2, WriterWaits
        <5> QED
          BY <2>3, <4>1, <5>1, <5>3, FirstInLine
      <4> QED
        BY <2>0, <2>2, <2>3, <4>2 DEF Passed
    <3> QED
      BY <3>1, <3>2
  <2>4. ASSUME j > tx_id[u], Passed(j, k)'
        PROVE  FALSE
    <3>1. CASE u = t /\ regist(t)
      <4>1. tx_counter = tx_id[t] + 1
        BY <2>2, <3>1 DEF Dispatched, WorkerMatches, regist
      <4>2. tx_counter' = tx_counter
        BY <3>1 DEF regist, dispatch
      <4>3. j < tx_counter'
        BY <2>4 DEF Passed
      <4> QED
        BY <2>2, <2>4, <3>1, <4>1, <4>2, <4>3
    <3>2. CASE (Has(u, k) \/ Pending(u, k)) /\ Passed(j, k)
      BY <1>2, <2>4, <3>2 DEF InTurn
    <3>3. CASE (Has(u, k) \/ Pending(u, k)) /\ Takes(t, k) /\ tx_id[t] = j
      <4>1. ~Has(u, k)
        BY <3>3, TakesAlone
      <4>2. grant(t) /\ k = future[t][cur[t]].key /\ Pending(u, k)
        BY <3>3, <4>1 DEF Takes
      <4> QED
        BY <2>2, <2>4, <3>3, <4>2, FirstInLine
    <3> QED
      BY <2>0, <2>1, <2>4, <3>1, <3>2, <3>3
  <2> QED
    BY <2>0, <2>1, <2>3, <2>4
<1>3. ASSUME NEW t \in Thread, worker(t)
      PROVE  InTurn'
  BY <1>0, <1>2, <1>3 DEF InTurn
<1> QED
  BY <1>1, <1>3 DEF Next

-----------------------------------------------------------------------------
(* The values of the records *)

LEMMA PassedWritersStep ==
    ASSUME ~Racing, Base, Base', NEW t \in Thread, worker(t), NEW k \in Key
    PROVE  IF Takes(t, k)
           THEN /\ PassedWriters(k)' = PassedWriters(k) \cup {tx_id[t]}
                /\ tx_id[t] \notin PassedWriters(k)
                /\ tx_id[t] \in TxId /\ WritesTo(tx_id[t], k)
           ELSE PassedWriters(k)' = PassedWriters(k)
<1>0. \A j, q : WritesTo(j, q)' <=> WritesTo(j, q)
  <2>1. [Next]_vars
    BY DEF Next
  <2> QED
    BY <2>1, WritesToKept
<1>1. \A j \in TxId : WritesTo(j, k) =>
          (Passed(j, k)' <=> Passed(j, k) \/ (Takes(t, k) /\ tx_id[t] = j))
  BY PassedWorker
<1>2. CASE ~Takes(t, k)
  BY <1>0, <1>1, <1>2 DEF PassedWriters
<1>3. CASE Takes(t, k)
  <2>1. Types /\ Dispatched /\ LocksCover
    BY DEF Base
  <2>2. /\ pc[t] = "wait" /\ future[t][cur[t]].key = k /\ future[t][cur[t]].op = "WRITE"
    BY <1>3 DEF Takes, grant
  <2>3. tx_id[t] \in TxId /\ cur[t] \in DOMAIN future[t] /\ ~Has(t, k)
    BY <2>1, <2>2, EntryAt, NotYetHeld
  <2>4. Writes(tx_id[t], Reach(t), k)
    BY <2>1, <2>2, <2>3 DEF LocksCover, Covered
  <2>5. WritesTo(tx_id[t], k)
    BY <2>4 DEF Writes, WritesTo
  <2>6. ~Passed(tx_id[t], k)
    BY <2>2, <2>3 DEF Passed, Behind
  <2> QED
    BY <1>0, <1>1, <1>3, <2>3, <2>5, <2>6 DEF PassedWriters
<1> QED
  BY <1>2, <1>3

\* A step that does not touch what k holds, or who may write it.
LEMMA HoldsAtSteady ==
    ASSUME ~Racing, Base, Base', NEW t \in Thread, worker(t), NEW k \in Key, HoldsAt(k),
           ~Takes(t, k), value'[k] = value[k], MayWrite(t, k)' <=> MayWrite(t, k),
           MayWrite(t, k) =>
               /\ tx_id'[t] = tx_id[t]
               /\ (pc[t] = "exec" /\ Writes(tx_id[t], pos[t], k))'
                     <=> pc[t] = "exec" /\ Writes(tx_id[t], pos[t], k)
    PROVE  HoldsAt(k)'
<1>1. PassedWriters(k)' = PassedWriters(k)
  BY PassedWritersStep
<1>2. pre' = pre
  <2>1. [Next]_vars
    BY DEF Next
  <2> QED
    BY <2>1, PreKept
<1>3. ASSUME NEW u \in Thread
      PROVE  /\ MayWrite(u, k)' <=> MayWrite(u, k)
             /\ MayWrite(u, k) => (WhileWritten(u, k)' <=> WhileWritten(u, k))
  <2>1. CASE u = t
    BY <1>1, <2>1 DEF WhileWritten
  <2>2. CASE u # t
    <3>1. Kept(u)
      BY <2>2, OthersKept DEF Base
    <3>2. Writes(tx_id[u], pos[u], k)' <=> Writes(tx_id[u], pos[u], k)
      BY <1>2, <3>1 DEF Kept, Writes
    <3> QED
      BY <1>1, <3>1, <3>2 DEF Kept, MayWrite, WhileWritten
  <2> QED
    BY <2>1, <2>2
<1> QED
  BY <1>1, <1>3 DEF HoldsAt

\* The lock is taken for writing: from now on the writer is not counted.
LEMMA HoldsAtTaken ==
    ASSUME ~Racing, Base, Base', NEW t \in Thread, worker(t), NEW k \in Key, HoldsAt(k),
           Takes(t, k)
    PROVE  HoldsAt(k)'
<1>1. /\ PassedWriters(k)' = PassedWriters(k) \cup {tx_id[t]}
      /\ tx_id[t] \notin PassedWriters(k) /\ tx_id[t] \in TxId
  BY PassedWritersStep
<1>2. \A u \in Thread : ~Has(u, k)
  BY TakesAlone
<1>3. Latest(PassedWriters(k), value[k])
  BY <1>2 DEF HoldsAt, MayWrite, Has
<1>4. grant(t) /\ pc[t] = "wait" /\ value' = value /\ tx_id' = tx_id /\ pos' = pos
      /\ pre' = pre
  BY DEF Takes, grant, records, dispatch
<1>5. MayWrite(t, k)'
  <2>1. k \in wlocks'[t]
    BY <1>4, GrantEntries DEF Takes, Base
  <2>2. pc'[t] \in {"wait", "exec"}
    BY <1>4 DEF grant, Dequeues, Goto, Base, Types
  <2> QED
    BY <2>1, <2>2 DEF MayWrite
<1>6. \A u \in Thread : u # t => ~MayWrite(u, k)'
  BY <1>2, OthersKept DEF Kept, MayWrite, Has, Base
<1>7. ~Writes(tx_id[t], pos[t], k)'
  <2>1. pos[t] = 1
    BY <1>4 DEF Base, Dispatched, WorkerMatches
  <2>2. ~Writes(tx_id[t], pos[t], k)
    BY <1>1, <2>1, TaskEnds DEF Base
  <2> QED
    BY <1>4, <2>2 DEF Writes
<1>8. (PassedWriters(k) \ {tx_id[t]})' = PassedWriters(k)
  BY <1>1, <1>4
<1>9. Latest(PassedWriters(k) \ {tx_id[t]}, value[k])'
  BY <1>3, <1>4, <1>8 DEF Latest
<1> QED
  BY <1>5, <1>6, <1>7, <1>9 DEF HoldsAt, WhileWritten

\* What a running worker accesses, it has locked.
LEMMA TaskLocked ==
    ASSUME Base, NEW t \in Thread, execute(t)
    PROVE  LET task == pre[tx_id[t]][pos[t]]
           IN /\ tx_id[t] \in TxId /\ pos[t] \in 1 .. Len(pre[tx_id[t]])
              /\ task = Tasks(t)[pos[t]] /\ task.key \in Key
              /\ task.op \in {"READ", "WRITE"} /\ Has(t, task.key)
              /\ task.key \in wlocks[t] <=> WritesTo(tx_id[t], task.key)
              /\ task.op = "WRITE" => task.key \in wlocks[t]
<1> DEFINE i == tx_id[t]
           n == pos[t]
           task == pre[i][n]
           k == task.key
<1>1. pc[t] = "exec" /\ pos[t] <= Len(Tasks(t)) /\ Busy(t)
  BY DEF execute, Busy
<1>2. /\ i \in TxId /\ Tasks(t) = pre[i] /\ n \in 1 .. Len(pre[i])
      /\ k \in Key /\ task.op \in {"READ", "WRITE"}
  BY <1>1, TaskAt DEF Base
<1>3. Len(pre[i]) \in Nat /\ DOMAIN pre[i] = 1 .. Len(pre[i])
  BY <1>2, TasksTyped DEF Base
<1>4. Reach(t) = Len(pre[i]) + 1
  BY <1>1, <1>2 DEF Reach
<1>5. Touches(i, Reach(t), k) /\ (task.op = "WRITE" => WritesTo(i, k))
  BY <1>2, <1>3, <1>4 DEF Touches, WritesTo
<1>6. Writes(i, Reach(t), k) <=> WritesTo(i, k)
  <2>1. Reach(t) \in Nat /\ Reach(t) > Len(pre[i])
    BY <1>3, <1>4
  <2> HIDE DEF k
  <2> QED
    BY <1>2, <2>1, TaskEnds DEF Base
<1>7. Covered(t, k) /\ ~Pending(t, k)
  <2>1. future[t] = << >>
    BY <1>1 DEF Base, Dispatched, WorkerMatches
  <2> QED
    BY <1>2, <2>1 DEF Base, LocksCover, Pending
<1>8. Has(t, k) /\ (k \in wlocks[t] <=> WritesTo(i, k))
  BY <1>1, <1>5, <1>6, <1>7 DEF Covered
<1> QED
  BY <1>2, <1>5, <1>8

\* Whoever has the lock on k, the writers past the list are those before it, and
\* perhaps itself.
LEMMA InTurnAt ==
    ASSUME Base, InTurn, NEW t \in Thread, NEW k \in Key, Has(t, k)
    PROVE  /\ tx_id[t] \in TxId /\ tx_id[t] \in Nat
           /\ \A j \in PassedWriters(k) : j \in Nat /\ j <= tx_id[t]
           /\ \A j \in TxId : WritesTo(j, k) /\ j < tx_id[t] => j \in PassedWriters(k)
<1>1. Busy(t)
  BY DEF Base, Dispatched, WorkerMatches, Has
<1>2. tx_id[t] \in TxId
  BY <1>1 DEF Base, Dispatched, WorkerMatches
<1>3. TxId \subseteq Nat
  BY Numbers DEF Base
<1>4. \A j \in PassedWriters(k) : j \in TxId /\ ~(j > tx_id[t])
  BY DEF InTurn, PassedWriters
<1>5. \A j \in TxId : WritesTo(j, k) /\ j < tx_id[t] => j \in PassedWriters(k)
  BY DEF InTurn, PassedWriters
<1>6. ASSUME NEW j \in PassedWriters(k)
      PROVE  j \in Nat /\ j <= tx_id[t]
  <2>1. j \in Nat /\ tx_id[t] \in Nat /\ ~(j > tx_id[t])
    BY <1>2, <1>3, <1>4
  <2> QED
    BY ONLY <2>1
<1> QED
  BY <1>2, <1>3, <1>5, <1>6

\* The record is written.
LEMMA HoldsAtWritten ==
    ASSUME ~Racing, Base, Base', NEW t \in Thread, execute(t),
           NEW k \in Key, k = Tasks(t)[pos[t]].key, Tasks(t)[pos[t]].op = "WRITE"
    PROVE  HoldsAt(k)'
<1> DEFINE i == tx_id[t]
           task == pre[i][pos[t]]
<1>1. /\ i \in TxId /\ pos[t] \in 1 .. Len(pre[i]) /\ task = Tasks(t)[pos[t]]
      /\ task.op = "WRITE" => task.key \in wlocks[t]
  BY TaskLocked
<1>2. k \in wlocks[t]
  BY <1>1
<1>3. value' = [value EXCEPT ![k] = i]
  BY DEF execute
<1>4. value'[k] = i
  BY <1>3 DEF Base, Types
<1>5. /\ pc' = pc /\ tx_id' = tx_id /\ rlocks' = rlocks /\ wlocks' = wlocks /\ pre' = pre
      /\ pos' = [pos EXCEPT ![t] = @ + 1] /\ pc[t] = "exec"
  BY DEF execute, held, dispatch
<1>6. pos'[t] = pos[t] + 1
  BY <1>5 DEF Base, Types
<1>7. Writes(i, pos[t] + 1, k)
  BY <1>1, TaskNext DEF Base
<1>8. Writes(tx_id[t], pos[t], k)'
  BY <1>5, <1>6, <1>7 DEF Writes
<1>9. MayWrite(t, k)' /\ WhileWritten(t, k)'
  BY <1>2, <1>4, <1>5, <1>8 DEF MayWrite, WhileWritten
<1>10. ASSUME NEW u \in Thread, u # t
       PROVE  ~MayWrite(u, k)'
  <2>1. ~Has(u, k)
    BY <1>2, <1>10, WriterExcludes DEF Base
  <2> QED
    BY <1>5, <2>1 DEF MayWrite, Has
<1> QED
  BY <1>9, <1>10 DEF HoldsAt

\* The writer commits: it is the last of those past the list.
LEMMA HoldsAtCommitted ==
    ASSUME ~Racing, Base, Base', InTurn, NEW t \in Thread, commit(t), worker(t),
           NEW k \in Key, HoldsAt(k), k \in wlocks[t]
    PROVE  HoldsAt(k)'
<1> DEFINE i == tx_id[t]
<1>1. /\ pc[t] = "exec" /\ pos[t] > Len(Tasks(t)) /\ value' = value
      /\ pc' = [pc EXCEPT ![t] = "unlock"] /\ wlocks' = wlocks
  BY DEF commit, Goto, records, held
<1>2. Has(t, k) /\ i \in TxId /\ i \in Nat
  BY InTurnAt DEF Has
<1>3. Tasks(t) = pre[i] /\ Len(pre[i]) \in Nat /\ pos[t] \in Nat /\ i < tx_counter
  BY <1>1, <1>2, TasksTyped DEF Tasks, Base, Types, Dispatched, WorkerMatches, Busy
<1>4. \A n \in Nat : n > Len(pre[i]) => (Writes(i, n, k) <=> WritesTo(i, k))
  BY <1>2, TaskEnds DEF Base
<1>5. WritesTo(i, k) /\ Writes(i, pos[t], k)
  <2>1. Covered(t, k) /\ Reach(t) = Len(pre[i]) + 1
    BY <1>1, <1>3 DEF Base, LocksCover, Reach
  <2>2. Writes(i, Len(pre[i]) + 1, k)
    BY <1>1, <1>2, <2>1 DEF Covered
  <2>3. Len(pre[i]) + 1 \in Nat /\ Len(pre[i]) + 1 > Len(pre[i])
        /\ pos[t] \in Nat /\ pos[t] > Len(pre[i])
    BY <1>1, <1>3
  <2> QED
    BY <1>4, <2>2, <2>3
<1>6. value[k] = i
  BY <1>1, <1>5 DEF HoldsAt, MayWrite, WhileWritten
<1>7. Passed(i, k)
  <2>1. \A u \in Thread : u # t => ~Behind(u, i, k)
    BY <1>1 DEF Behind, Base, Dispatched, Busy
  <2> QED
    BY <1>1, <1>3, <2>1 DEF Passed, Behind
<1>8. ~Takes(t, k)
  BY <1>1 DEF Takes, grant
<1>9. PassedWriters(k)' = PassedWriters(k) /\ i \in PassedWriters(k)
  BY <1>2, <1>5, <1>7, <1>8, PassedWritersStep DEF PassedWriters
<1>10. Latest(PassedWriters(k), value[k])
  <2>1. i # None
    BY <1>2, LockManagerAssumption
  <2> QED
    BY <1>2, <1>6, <1>9, <2>1, InTurnAt DEF Latest
<1>11. Latest(PassedWriters(k), value[k])'
  BY <1>1, <1>9, <1>10 DEF Latest
<1>12. ASSUME NEW u \in Thread
       PROVE  ~MayWrite(u, k)'
  <2>1. CASE u = t
    BY <1>1, <2>1 DEF MayWrite, Base, Types
  <2>2. CASE u # t
    BY <1>1, <2>2, WriterExcludes DEF MayWrite, Has, Base
  <2> QED
    BY <2>1, <2>2
<1> QED
  BY <1>11, <1>12 DEF HoldsAt

LEMMA HoldingStep ==
    ASSUME ~Racing, Base, Base', InTurn, Holding, [Next]_vars
    PROVE  Holding'
<1>0. pre' = pre
  BY PreKept
<1>1. CASE Quit \/ Joined \/ UNCHANGED vars
  <2>1. UNCHANGED << pc, tx_id, pos, rlocks, wlocks, tx_counter, value >>
    BY <1>1 DEF Quit, Joined, vars, held, records
  <2>2. \A k : PassedWriters(k)' = PassedWriters(k)
    BY <1>0, <2>1 DEF PassedWriters, WritesTo, Passed, Behind, Has
  <2> QED
    BY <1>0, <2>1, <2>2 DEF Holding, HoldsAt, MayWrite, WhileWritten, Writes, Latest
<1>2. ASSUME NEW t \in Thread, worker(t), NEW k \in Key
      PROVE  HoldsAt(k)'
  <2>0. /\ HoldsAt(k) /\ Types /\ Dispatched
        /\ pc \in [Thread -> {"idle", "regist", "wait", "exec", "unlock", "done"}]
    BY DEF Holding, Base, Types
  <2>1. CASE Takes(t, k)
    BY <1>2, <2>0, <2>1, HoldsAtTaken
  <2>2. CASE regist(t)
    <3>1. pc[t] = "regist" /\ pc' = pc /\ value' = value
      BY <2>2 DEF regist, records
    <3> QED
      BY <1>2, <2>0, <3>1, HoldsAtSteady DEF MayWrite, Takes, grant
  <2>3. CASE pass(t)
    <3>1. /\ UNCHANGED << pc, tx_id, pos, wlocks, value >> /\ pc[t] = "wait"
      BY <2>3 DEF pass, held, records
    <3>2. CASE ~Takes(t, k)
      BY <1>0, <1>2, <2>0, <3>1, <3>2, HoldsAtSteady DEF MayWrite, Writes
    <3> QED
      BY <2>1, <3>2
  <2>4. CASE leave(t) \/ acquireGiant(t) \/ readUnlock(t) \/ writeUnlock(t) \/ finish(t)
    <3>1. /\ value' = value /\ pc[t] \notin {"wait", "exec"} /\ pc'[t] \notin {"wait", "exec"}
      BY <2>0, <2>4 DEF leave, acquireGiant, readUnlock, writeUnlock, finish, Goto,
         records
    <3> QED
      BY <1>2, <2>0, <3>1, HoldsAtSteady DEF MayWrite, Takes, grant
  <2>5. CASE releaseGiant(t)
    <3>1. value' = value /\ pc[t] = "regist" /\ wlocks' = wlocks
      BY <2>5 DEF releaseGiant, records, held
    <3>2. wlocks[t] = {}
      BY <2>0, <3>1 DEF Dispatched, WorkerMatches
    <3> QED
      BY <1>2, <2>0, <3>1, <3>2, HoldsAtSteady DEF MayWrite, Takes, grant
  <2>6. CASE grant(t) /\ ~Takes(t, k)
    <3>1. /\ value' = value /\ pc[t] = "wait" /\ tx_id' = tx_id /\ pos' = pos
      BY <2>6 DEF grant, records
    <3>2. pc'[t] \in {"wait", "exec"}
      BY <2>0, <2>6, <3>1 DEF grant, Dequeues, Goto
    <3>3. k \in wlocks'[t] <=> k \in wlocks[t]
      BY <2>6, GrantEntries DEF Takes, Base
    <3>4. ~Writes(tx_id[t], pos[t], k)'
      <4>1. pos[t] = 1 /\ tx_id[t] \in TxId
        BY <2>0, <3>1 DEF Dispatched, WorkerMatches, Busy
      <4>2. ~Writes(tx_id[t], pos[t], k)
        BY <2>0, <4>1, TaskEnds
      <4> QED
        BY <1>0, <3>1, <4>2 DEF Writes
    <3> QED
      BY <1>2, <2>0, <2>6, <3>1, <3>2, <3>3, <3>4, HoldsAtSteady DEF MayWrite
  <2>7. CASE execute(t)
    <3> DEFINE task == pre[tx_id[t]][pos[t]]
    <3>1. /\ tx_id[t] \in TxId /\ pos[t] \in 1 .. Len(pre[tx_id[t]])
          /\ task = Tasks(t)[pos[t]] /\ task.key \in Key
      BY <2>7, TaskLocked
    <3>2. CASE task.op = "WRITE" /\ task.key = k
      BY <2>7, <3>1, <3>2, HoldsAtWritten
    <3>3. CASE ~(task.op = "WRITE" /\ task.key = k)
      <4>1. /\ UNCHANGED << pc, tx_id, wlocks >> /\ pc[t] = "exec"
            /\ pos' = [pos EXCEPT ![t] = @ + 1]
        BY <2>7 DEF execute, held
      <4>2. value'[k] = value[k]
        <5>1. value' = value
                 \/ (task.op = "WRITE" /\ value' = [value EXCEPT ![task.key] = tx_id[t]])
          BY <2>7, <3>1 DEF execute, records
        <5>2. value \in [Key -> Version]
          BY <2>0 DEF Types
        <5> QED
          BY <3>3, <5>1, <5>2
      <4>3. Writes(tx_id[t], pos[t] + 1, k) <=> Writes(tx_id[t], pos[t], k)
        BY <2>0, <3>1, <3>3, TaskNext
      <4>4. pos'[t] = pos[t] + 1
        BY <2>0, <4>1 DEF Types
      <4>5. Writes(tx_id[t], pos[t], k)' <=> Writes(tx_id[t], pos[t], k)
        BY <1>0, <4>1, <4>3, <4>4 DEF Writes
      <4>6. ~Takes(t, k)
        BY <4>1 DEF Takes, grant
      <4> QED
        BY <1>2, <2>0, <4>1, <4>2, <4>5, <4>6, HoldsAtSteady DEF MayWrite
    <3> QED
      BY <3>2, <3>3
  <2>8. CASE commit(t)
    <3>1. CASE k \in wlocks[t]
      BY <1>2, <2>0, <2>8, <3>1, HoldsAtCommitted
    <3>2. CASE k \notin wlocks[t]
      <4>1. value' = value /\ wlocks' = wlocks /\ pc[t] = "exec"
        BY <2>8 DEF commit, records, held
      <4> QED
        BY <1>2, <2>0, <3>2, <4>1, HoldsAtSteady DEF MayWrite, Takes, grant
    <3> QED
      BY <3>1, <3>2
  <2> QED
    BY <1>2, <2>1, <2>2, <2>3, <2>4, <2>5, <2>6, <2>7, <2>8 DEF worker
<1> QED
  BY <1>1, <1>2 DEF Next, Holding

-----------------------------------------------------------------------------
(* What is read, and the order of the writes *)

\* Storing a value appends the writer to the history, unless it is there.
LEMMA WriteEffect ==
    ASSUME Base, NEW t \in Thread, execute(t), Tasks(t)[pos[t]].op = "WRITE",
           NEW q \in Key, q = Tasks(t)[pos[t]].key
    PROVE  /\ value'[q] = tx_id[t] /\ tx_id[t] \in TxId /\ q \in wlocks[t]
           /\ \A k \in Key : k # q => order'[k] = order[k] /\ value'[k] = value[k]
           /\ \/ order'[q] = order[q] /\ Stored(q, tx_id[t])
              \/ /\ order'[q] = Append(order[q], tx_id[t])
                 /\ \A m \in DOMAIN order[q] : order[q][m] # tx_id[t]
<1> DEFINE i == tx_id[t]
<1>1. i \in TxId /\ q \in wlocks[t]
  BY TaskLocked
<1>2. /\ value' = [value EXCEPT ![q] = i]
      /\ order' = IF Place(order[q], i) = 0 THEN [order EXCEPT ![q] = Append(@, i)] ELSE order
  BY DEF execute
<1>3. value \in [Key -> Version] /\ order \in [Key -> Seq(TxId)]
  BY DEF Base, Types
<1>4. \A m \in DOMAIN order[q] : m # 0
  BY <1>3
<1>5. CASE \E m \in DOMAIN order[q] : order[q][m] = i
  <2>1. Place(order[q], i) \in DOMAIN order[q]
    BY <1>5 DEF Place
  <2>2. Place(order[q], i) # 0
    BY <1>4, <2>1
  <2> QED
    BY <1>1, <1>2, <1>3, <1>5, <2>2 DEF Stored
<1>6. CASE ~ \E m \in DOMAIN order[q] : order[q][m] = i
  <2>1. Place(order[q], i) = 0
    BY <1>6 DEF Place
  <2> QED
    BY <1>1, <1>2, <1>3, <1>6, <2>1
<1> QED
  BY <1>5, <1>6

\* The other steps store nothing.
LEMMA NothingStored ==
    ASSUME NEW t \in Thread, worker(t), ~(execute(t) /\ Tasks(t)[pos[t]].op = "WRITE")
    PROVE  value' = value /\ order' = order
BY DEF worker, leave, acquireGiant, regist, releaseGiant, grant, pass, execute,
       commit, readUnlock, writeUnlock, finish, records

\* What is stored stays.
LEMMA StoredKept ==
    ASSUME Base, [Next]_vars
    PROVE  \A k \in Key : \A v : Stored(k, v) => Stored(k, v)'
<1>1. CASE Quit \/ Joined \/ UNCHANGED vars
  BY <1>1 DEF Quit, Joined, vars, records, Stored
<1>2. ASSUME NEW t \in Thread, worker(t), NEW k \in Key, NEW v, Stored(k, v)
      PROVE  Stored(k, v)'
  <2>1. CASE ~(execute(t) /\ Tasks(t)[pos[t]].op = "WRITE")
    BY <1>2, <2>1, NothingStored DEF Stored
  <2>2. CASE execute(t) /\ Tasks(t)[pos[t]].op = "WRITE"
    <3> DEFINE q == Tasks(t)[pos[t]].key
    <3>1. q \in Key
      BY <2>2, TaskLocked
    <3>2. /\ \A j \in Key : j # q => order'[j] = order[j]
          /\ order'[q] = order[q] \/ order'[q] = Append(order[q], tx_id[t])
          /\ tx_id[t] \in TxId
      BY <2>2, <3>1, WriteEffect
    <3> HIDE DEF q
    <3>3. order'[k] = order[k] \/ order'[k] = Append(order[k], tx_id[t])
      BY <3>2
    <3>4. order[k] \in Seq(TxId)
      BY DEF Base, Types
    <3>5. \A m \in DOMAIN order[k] : m \in DOMAIN order'[k] /\ order'[k][m] = order[k][m]
      BY <3>2, <3>3, <3>4
    <3> QED
      BY <1>2, <3>5 DEF Stored
  <2> QED
    BY <2>1, <2>2
<1> QED
  BY <1>1, <1>2 DEF Next

LEMMA DecidedKept ==
    ASSUME [Next]_vars
    PROVE  \A i, r : Decided(i, r)' <=> Decided(i, r)
BY WritesToKept DEF Decided

\* A worker that has the lock finds what the transactions before it left.
LEMMA FindsDecided ==
    ASSUME Base, InTurn, Holding, NEW t \in Thread, execute(t),
           NEW k \in Key, k = Tasks(t)[pos[t]].key
    PROVE  Decided(tx_id[t], [key |-> k, ver |-> value[k]])
<1> DEFINE i == tx_id[t]
           r == [key |-> k, ver |-> value[k]]
<1>1. Has(t, k) /\ (k \in wlocks[t] <=> WritesTo(i, k)) /\ pc[t] = "exec"
  BY TaskLocked DEF execute
<1>2. /\ i \in TxId /\ i \in Nat
      /\ \A j \in PassedWriters(k) : j \in Nat /\ j <= i
      /\ \A j \in TxId : WritesTo(j, k) /\ j < i => j \in PassedWriters(k)
  BY <1>1, InTurnAt
<1>3. r.key = k /\ r.ver = value[k] /\ HoldsAt(k)
  BY DEF Holding
<1> HIDE DEF r
<1>4. TxId \subseteq Nat
  BY Numbers DEF Base
<1>5. CASE k \in wlocks[t] /\ Writes(i, pos[t], k)
  <2>1. value[k] = i
    BY <1>1, <1>3, <1>5 DEF HoldsAt, MayWrite, WhileWritten
  <2>2. i # None
    BY <1>2, LockManagerAssumption
  <2>3. \A j \in TxId : j < i => j <= i
    BY <1>2, <1>4
  <2> QED
    BY <1>1, <1>2, <1>3, <1>5, <2>1, <2>2, <2>3 DEF Decided
<1>6. ASSUME NEW S, Latest(S, value[k]), S \subseteq PassedWriters(k),
             PassedWriters(k) \subseteq S \cup {i}
      PROVE  Decided(i, r)
  <2>1. value[k] = None \/ (value[k] \in TxId /\ value[k] <= i /\ WritesTo(value[k], k))
    BY <1>2, <1>6 DEF Latest, PassedWriters
  <2>2. ASSUME NEW j \in TxId, WritesTo(j, k), j < i
        PROVE  value[k] # None /\ j <= value[k]
    <3>1. j \in PassedWriters(k) /\ j # i
      BY <1>2, <1>4, <2>2
    <3> QED
      BY <1>6, <3>1 DEF Latest
  <2> QED
    BY <1>3, <2>1, <2>2 DEF Decided
<1>7. CASE k \in wlocks[t] /\ ~Writes(i, pos[t], k)
  <2>1. Latest(PassedWriters(k) \ {i}, value[k])
    BY <1>1, <1>3, <1>7 DEF HoldsAt, MayWrite, WhileWritten
  <2> QED
    BY <1>6, <2>1 DEF r
<1>8. CASE k \notin wlocks[t]
  <2>1. ASSUME NEW u \in Thread
        PROVE  ~MayWrite(u, k)
    <3>1. CASE u = t
      BY <1>8, <3>1 DEF MayWrite
    <3>2. CASE u # t
      BY <1>1, <3>2, WriterExcludes DEF MayWrite, Base
    <3> QED
      BY <3>1, <3>2
  <2>2. Latest(PassedWriters(k), value[k])
    BY <1>3, <2>1 DEF HoldsAt
  <2> QED
    BY <1>6, <2>2 DEF r
<1> QED
  BY <1>5, <1>7, <1>8 DEF r

LEMMA ReadsDecidedStep ==
    ASSUME ~Racing, Base, Base', InTurn, Holding, ReadsDecided, OrderIncreasing, [Next]_vars
    PROVE  ReadsDecided'
<1>0. /\ Types /\ Dispatched /\ Dispatched' /\ reads \in [Thread -> SUBSET Read]
      /\ committed \subseteq [id : TxId, reads : SUBSET Read]
  BY DEF Base, Types
<1>1. \A k \in Key : \A v : Stored(k, v) => Stored(k, v)'
  BY StoredKept DEF Base
<1>2. \A i, r : Decided(i, r)' <=> Decided(i, r)
  BY DecidedKept
<1>3. \A r \in Read : r.key \in Key
  BY DEF Read
<1>4. ASSUME NEW i, NEW r \in Read, Decided(i, r), Stored(r.key, r.ver)
      PROVE  Decided(i, r)' /\ Stored(r.key, r.ver)'
  <2>1. Decided(i, r)'
    BY <1>2, <1>4
  <2> QED
    BY <1>1, <1>3, <1>4, <2>1
<1>5. ASSUME NEW a \in committed, NEW r \in a.reads
      PROVE  r \in Read /\ Decided(a.id, r)' /\ Stored(r.key, r.ver)'
  <2>1. r \in Read
    BY <1>0, <1>5
  <2>2. Decided(a.id, r) /\ Stored(r.key, r.ver)
    BY <1>5 DEF ReadsDecided
  <2> QED
    BY <1>4, <2>1, <2>2
<1>6. ASSUME NEW u \in Thread, NEW r \in reads[u]
      PROVE  /\ r \in Read /\ Decided(tx_id[u], r) /\ Stored(r.key, r.ver)
             /\ Stored(r.key, r.ver)'
  <2>1. r \in Read /\ Decided(tx_id[u], r) /\ Stored(r.key, r.ver)
    BY <1>0, <1>6 DEF ReadsDecided
  <2> QED
    BY <1>4, <2>1
<1>7. CASE Quit \/ Joined \/ UNCHANGED vars
  <2>1. UNCHANGED << reads, tx_id, committed >>
    BY <1>7 DEF Quit, Joined, vars
  <2>2. \A u \in Thread : \A r \in reads[u] : Decided(tx_id[u], r)'
    BY <1>2, <1>6, <2>1 DEF Decided
  <2> QED
    BY <1>5, <1>6, <2>1, <2>2 DEF ReadsDecided
<1>8. ASSUME NEW t \in Thread, worker(t)
      PROVE  ReadsDecided'
  <2>1. ASSUME NEW u \in Thread, NEW r \in reads'[u]
        PROVE  Decided(tx_id'[u], r) /\ Stored(r.key, r.ver)'
    <3>1. CASE u # t
      <4>1. reads'[u] = reads[u] /\ tx_id'[u] = tx_id[u]
        BY <1>0, <1>8, <3>1, OthersKept DEF Kept
      <4> QED
        BY <1>6, <2>1, <4>1
    <3>2. CASE u = t
      <4>1. tx_id'[t] = tx_id[t]
        <5>1. pc'[t] \in {"exec", "unlock"}
          BY <1>0, <2>1, <3>2 DEF Dispatched, WorkerMatches
        <5>2. ~acquireGiant(t)
          BY <1>0, <5>1, AcquireEffect
        <5> QED
          BY <1>0, <1>8, <5>1, <5>2, OnlyAcquired DEF Busy
      <4>2. CASE r \in reads[t]
        BY <1>6, <3>2, <4>1, <4>2
      <4>3. CASE r \notin reads[t]
        <5> DEFINE k == Tasks(t)[pos[t]].key
        <5>1. /\ execute(t) /\ Tasks(t)[pos[t]].op = "READ"
              /\ reads'[t] = reads[t] \cup {[key |-> k, ver |-> value[k]]}
          <6>1. ~finish(t)
            BY <1>0, <2>1, <3>2 DEF finish
          <6>2. reads' # reads
            BY <2>1, <3>2, <4>3
          <6>3. execute(t)
            BY <1>8, <6>1, <6>2 DEF worker, leave, acquireGiant, regist, releaseGiant,
               grant,
               pass, commit, readUnlock, writeUnlock
          <6> QED
            BY <1>0, <6>2, <6>3 DEF execute
        <5>2. r = [key |-> k, ver |-> value[k]] /\ r.key = k /\ r.ver = value[k]
          BY <2>1, <3>2, <4>3, <5>1
        <5>3. k \in Key
          BY <5>1, TaskLocked
        <5>4. Decided(tx_id[t], r)
          BY <5>1, <5>2, <5>3, FindsDecided
        <5>5. Stored(k, value[k])
          BY <5>3 DEF OrderIncreasing
        <5> HIDE DEF k
        <5>6. Stored(r.key, r.ver)
          BY <5>2, <5>5
        <5> QED
          BY <1>1, <3>2, <4>1, <5>2, <5>3, <5>4, <5>6
      <4> QED
        BY <4>2, <4>3
    <3> QED
      BY <3>1, <3>2
  <2>2. \A u \in Thread : \A r \in reads'[u] : Decided(tx_id[u], r)'
    BY <1>2, <2>1 DEF Decided
  <2>3. CASE commit(t)
    <3>1. committed' = committed \cup {[id |-> tx_id[t], reads |-> reads[t]]}
      BY <2>3 DEF commit
    <3>2. ASSUME NEW a \in committed', NEW r \in a.reads
          PROVE  Decided(a.id, r)' /\ Stored(r.key, r.ver)'
      <4>1. CASE a \in committed
        BY <1>5, <3>2, <4>1
      <4>2. CASE a = [id |-> tx_id[t], reads |-> reads[t]]
        <5>1. a.id = tx_id[t] /\ a.reads = reads[t]
          BY <4>2
        <5>2. Decided(a.id, r) /\ Stored(r.key, r.ver)'
          BY <1>6, <3>2, <5>1
        <5> QED
          BY <1>2, <5>2
      <4> QED
        BY <3>1, <3>2, <4>1, <4>2
    <3> QED
      BY <2>1, <2>2, <3>2 DEF ReadsDecided
  <2>4. CASE ~commit(t)
    <3>1. committed' = committed
      BY <1>8, <2>4 DEF worker, leave, acquireGiant, regist, releaseGiant, grant, pass,
         execute, readUnlock, writeUnlock, finish
    <3> QED
      BY <1>5, <2>1, <2>2, <3>1 DEF ReadsDecided
  <2> QED
    BY <2>3, <2>4
<1> QED
  BY <1>7, <1>8 DEF Next

LEMMA OrderStep ==
    ASSUME ~Racing, Base, Base', InTurn, OrderIncreasing, [Next]_vars
    PROVE  OrderIncreasing'
<1>0. /\ TxId \subseteq Nat /\ order \in [Key -> Seq(TxId)]
      /\ \A j, k : WritesTo(j, k)' <=> WritesTo(j, k)
  BY Numbers, WritesToKept DEF Base, Types
<1>1. \A k \in Key : \A v : Stored(k, v) => Stored(k, v)'
  BY StoredKept
<1>2. CASE Quit \/ Joined \/ UNCHANGED vars
  <2>1. UNCHANGED << pc, tx_id, rlocks, wlocks, tx_counter, value, order >>
    BY <1>2 DEF Quit, Joined, vars, held, records
  <2>2. pre' = pre
    BY PreKept
  <2>3. ASSUME NEW k \in Key, NEW m \in DOMAIN order[k]
        PROVE  /\ WritesTo(order[k][m], k)' <=> WritesTo(order[k][m], k)
               /\ Passed(order[k][m], k)' <=> Passed(order[k][m], k)
    BY <2>1, <2>2 DEF Passed, Behind, Has, WritesTo
  <2> QED
    BY <2>1, <2>3 DEF OrderIncreasing, Stored
<1>3. ASSUME NEW t \in Thread, worker(t), NEW k \in Key
      PROVE  /\ Stored(k, value[k])'
             /\ \A m \in DOMAIN order'[k] :
                   WritesTo(order'[k][m], k) /\ order'[k][m] \in PassedWriters(k)'
             /\ \A m, j \in DOMAIN order'[k] : m < j => order'[k][m] < order'[k][j]
  <2>1. PassedWriters(k) \subseteq PassedWriters(k)'
    BY <1>3, PassedWritersStep
  <2>2. /\ order[k] \in Seq(TxId) /\ Len(order[k]) \in Nat
        /\ DOMAIN order[k] = 1 .. Len(order[k])
        /\ \A m \in DOMAIN order[k] : order[k][m] \in TxId
    <3>1. order[k] \in Seq(TxId)
      BY <1>0
    <3> QED
      BY <3>1
  <2>3. \A m \in DOMAIN order[k] :
            WritesTo(order[k][m], k) /\ order[k][m] \in PassedWriters(k)
    BY <2>2 DEF OrderIncreasing, PassedWriters
  <2>4. /\ Stored(k, value[k])
        /\ \A m, j \in DOMAIN order[k] : m < j => order[k][m] < order[k][j]
    BY DEF OrderIncreasing
  <2>5. CASE order'[k] = order[k] /\ value'[k] = value[k]
    BY <2>1, <2>3, <2>4, <2>5 DEF Stored
  <2>6. ASSUME ~(order'[k] = order[k] /\ value'[k] = value[k])
        PROVE  execute(t) /\ Tasks(t)[pos[t]].op = "WRITE" /\ k = Tasks(t)[pos[t]].key
    <3>1. execute(t) /\ Tasks(t)[pos[t]].op = "WRITE"
      BY <1>3, <2>6, NothingStored
    <3>2. Tasks(t)[pos[t]].key \in Key
      BY <3>1, TaskLocked
    <3> QED
      BY <2>6, <3>1, <3>2, WriteEffect
  <2>7. CASE ~(order'[k] = order[k] /\ value'[k] = value[k])
    <3> DEFINE i == tx_id[t]
               n == Len(order[k])
    <3>1. execute(t) /\ Tasks(t)[pos[t]].op = "WRITE" /\ k = Tasks(t)[pos[t]].key
      BY <2>6, <2>7
    <3>2. /\ value'[k] = i /\ i \in TxId /\ k \in wlocks[t]
          /\ \/ order'[k] = order[k] /\ Stored(k, i)
             \/ /\ order'[k] = Append(order[k], i)
                /\ \A m \in DOMAIN order[k] : order[k][m] # i
      BY <3>1, WriteEffect
    <3>3. CASE order'[k] = order[k] /\ Stored(k, i)
      BY <2>1, <2>3, <2>4, <3>2, <3>3 DEF Stored
    <3>4. CASE /\ order'[k] = Append(order[k], i)
               /\ \A m \in DOMAIN order[k] : order[k][m] # i
      <4>1. /\ DOMAIN order'[k] = 1 .. n + 1 /\ order'[k][n + 1] = i
            /\ \A m \in 1 .. n : order'[k][m] = order[k][m]
        BY <2>2, <3>2, <3>4
      <4>2. Has(t, k) /\ WritesTo(i, k)
        BY <3>1, <3>2, TaskLocked DEF Has
      <4>3. \A m \in 1 .. n : order[k][m] < i
        <5> SUFFICES ASSUME NEW m \in 1 .. n
                     PROVE  order[k][m] < i
          OBVIOUS
        <5>1. order[k][m] \in PassedWriters(k) /\ order[k][m] # i
          BY <2>2, <2>3, <3>4
        <5>2. order[k][m] \in Nat /\ order[k][m] <= i /\ i \in Nat
          BY <4>2, <5>1, InTurnAt
        <5> QED
          BY ONLY <5>1, <5>2
      <4>4. i \in PassedWriters(k)'
        <5>1. pc[t] = "exec" /\ i < tx_counter
          BY <3>1 DEF execute, Base, Dispatched, WorkerMatches, Busy
        <5>2. \A u \in Thread : ~Behind(u, i, k)
          BY <5>1 DEF Behind, Base, Dispatched, Busy
        <5> QED
          BY <2>1, <3>2, <4>2, <5>1, <5>2 DEF PassedWriters, Passed
      <4>5. \A m \in 1 .. n + 1 : m \in 1 .. n \/ m = n + 1
        BY <2>2
      <4>6. \A m, j \in 1 .. n + 1 : m < j => m \in 1 .. n
        BY <2>2
      <4>7. Stored(k, value[k])'
        <5>1. n + 1 \in DOMAIN order'[k]
          BY <2>2, <4>1
        <5> QED
          BY <3>2, <4>1, <5>1 DEF Stored
      <4>8. \A m \in DOMAIN order'[k] :
                WritesTo(order'[k][m], k) /\ order'[k][m] \in PassedWriters(k)'
        BY <2>1, <2>2, <2>3, <4>1, <4>2, <4>4, <4>5
      <4>9. ASSUME NEW m \in 1 .. n + 1, NEW j \in 1 .. n + 1, m < j
            PROVE  order'[k][m] < order'[k][j]
        <5>1. m \in 1 .. n /\ (j \in 1 .. n \/ j = n + 1)
          BY <4>5, <4>6, <4>9
        <5> QED
          BY <2>2, <2>4, <4>1, <4>3, <4>9, <5>1
      <4> QED
        BY <4>1, <4>7, <4>8, <4>9
    <3> QED
      BY <3>2, <3>3, <3>4
  <2> QED
    BY <2>5, <2>7
<1>4. ASSUME NEW t \in Thread, worker(t)
      PROVE  OrderIncreasing'
  <2>1. \A k \in Key : \A j : j \in PassedWriters(k)' => Passed(j, k)'
    BY DEF PassedWriters
  <2>2. ASSUME NEW k \in Key, NEW m \in DOMAIN order'[k]
        PROVE  WritesTo(order[k][m], k)' /\ Passed(order[k][m], k)'
    <3>1. WritesTo(order'[k][m], k) /\ order'[k][m] \in PassedWriters(k)'
      BY <1>3, <1>4, <2>2
    <3> QED
      BY <1>0, <3>1 DEF PassedWriters, WritesTo
  <2> QED
    BY <1>3, <1>4, <2>2 DEF OrderIncreasing
<1> QED
  BY <1>2, <1>4 DEF Next

-----------------------------------------------------------------------------
(* The theorems *)

\* Every step keeps the invariant.
LEMMA Invariance ==
    ASSUME ~Racing
    PROVE  Spec => []Inv
<1>1. Inv /\ [Next]_vars => Inv'
  <2> SUFFICES ASSUME Inv, [Next]_vars
               PROVE  Inv'
    OBVIOUS
  <2>1. Base /\ InTurn /\ Holding /\ ReadsDecided /\ OrderIncreasing
    BY DEF Inv
  <2>2. Base'
    BY <2>1, BaseStep
  <2>3. InTurn'
    BY <2>1, <2>2, InTurnStep
  <2>4. Holding'
    BY <2>1, <2>2, HoldingStep
  <2>5. ReadsDecided'
    BY <2>1, <2>2, ReadsDecidedStep
  <2>6. OrderIncreasing'
    BY <2>1, <2>2, OrderStep
  <2> QED
    BY <2>2, <2>3, <2>4, <2>5, <2>6 DEF Inv
<1> QED
  BY InitInv, <1>1, PTL DEF Spec

LEMMA LastIs ==
    ASSUME NEW k, NEW i \in Int, NEW j \in TxId, j <= i, WritesTo(j, k),
           \A m \in TxId : WritesTo(m, k) /\ m <= i => m <= j,
           Types
    PROVE  LastWriter(k, i) = j
<1> DEFINE W == Writers(k, i)
<1>1. ASSUME NEW m \in TxId
      PROVE  WritesTo(m, k) <=>
                 \E n \in DOMAIN pre[m] : pre[m][n] = [op |-> "WRITE", key |-> k]
  <2>1. \A n \in DOMAIN pre[m] : pre[m][n] \in Task
    BY TasksTyped
  <2>2. \A x \in Task : x.key = k /\ x.op = "WRITE" <=> x = [op |-> "WRITE", key |-> k]
    BY DEF Task
  <2> QED
    BY <2>1, <2>2 DEF WritesTo
<1>2. \A m : m \in W <=> m \in TxId /\ m <= i /\ WritesTo(m, k)
  BY <1>1 DEF Writers
<1>3. j \in W /\ \A m \in W : m <= j
  BY <1>2
<1>4. W \subseteq Nat
  BY <1>2, Numbers
<1>5. \A x \in W : (\A m \in W : m <= x) => x = j
  BY <1>3, <1>4
<1>6. LastWriter(k, i) = CHOOSE x \in W : \A m \in W : m <= x
  BY <1>3 DEF LastWriter
<1> HIDE DEF W
<1>7. (CHOOSE x \in W : \A m \in W : m <= x) = j
  BY <1>3, <1>5
<1> QED
  BY <1>6, <1>7

\* What Decided says is the version that the order of the numbers gives.
LEMMA DecidedIsLast ==
    ASSUME Types, NEW i \in TxId, NEW r \in Read, Decided(i, r)
    PROVE  r.ver = LastWriter(r.key, i) \/ r.ver = LastWriter(r.key, i - 1)
<1>1. TxId \subseteq Nat /\ i \in Nat /\ i \in Int /\ i - 1 \in Int
  BY Numbers
<1>2. /\ r.ver = None \/ (r.ver \in TxId /\ r.ver <= i /\ WritesTo(r.ver, r.key))
      /\ \A j \in TxId : WritesTo(j, r.key) /\ j < i => r.ver # None /\ j <= r.ver
  BY DEF Decided
<1>3. CASE r.ver = None
  <2>1. \A j \in TxId : WritesTo(j, r.key) => ~(j < i)
    BY <1>2, <1>3
  <2>2. ASSUME NEW j \in Writers(r.key, i - 1)
        PROVE  FALSE
    <3>1. j \in TxId /\ j <= i - 1 /\ WritesTo(j, r.key)
      BY <2>2 DEF Writers, WritesTo
    <3>2. j \in Nat /\ j < i
      BY <1>1, <3>1
    <3> QED
      BY <2>1, <3>1, <3>2
  <2>3. Writers(r.key, i - 1) = {}
    BY <2>2
  <2> QED
    BY <1>3, <2>3 DEF LastWriter
<1>4. CASE r.ver # None /\ r.ver = i
  <2>1. \A m \in TxId : WritesTo(m, r.key) /\ m <= i => m <= r.ver
    BY <1>4
  <2> QED
    BY <1>1, <1>2, <1>4, <2>1, LastIs
<1>5. CASE r.ver # None /\ r.ver # i
  <2>1. r.ver \in TxId /\ r.ver <= i - 1
    <3>1. r.ver \in TxId /\ r.ver \in Nat /\ r.ver <= i /\ r.ver # i
      BY <1>1, <1>2, <1>5
    <3> QED
      BY <1>1, <3>1
  <2>2. \A m \in TxId : WritesTo(m, r.key) /\ m <= i - 1 => m <= r.ver
    BY <1>1, <1>2
  <2> QED
    BY <1>1, <1>2, <1>5, <2>1, <2>2, LastIs
<1> QED
  BY <1>3, <1>4, <1>5

\* The places of the versions of a record are in the order of their numbers.
LEMMA PlacesInOrder ==
    ASSUME Types, OrderIncreasing, NEW k \in Key, NEW v, NEW w,
           Place(order[k], v) < Place(order[k], w)
    PROVE  /\ \E m \in DOMAIN order[k] : order[k][m] = w
           /\ (\E m \in DOMAIN order[k] : order[k][m] = v) => v < w
<1> DEFINE s == order[k]
<1>1. s \in Seq(TxId) /\ DOMAIN s = 1 .. Len(s)
  BY DEF Types
<1>2. ASSUME NEW x, \E m \in DOMAIN s : s[m] = x
      PROVE  Place(s, x) \in DOMAIN s /\ s[Place(s, x)] = x
  BY <1>2 DEF Place
<1>3. ASSUME NEW x
      PROVE  (\E m \in DOMAIN s : s[m] = x) \/ Place(s, x) = 0
  BY DEF Place
<1>4. \A m \in DOMAIN s : m \in Nat /\ m # 0
  BY <1>1
<1>5. \E m \in DOMAIN s : s[m] = w
  <2>1. Place(s, v) \in Nat
    BY <1>2, <1>3, <1>4
  <2>2. Place(s, w) # 0
    BY <2>1
  <2> QED
    BY <1>3, <2>2
<1>6. ASSUME \E m \in DOMAIN s : s[m] = v
      PROVE  v < w
  <2>1. /\ Place(s, v) \in DOMAIN s /\ s[Place(s, v)] = v
        /\ Place(s, w) \in DOMAIN s /\ s[Place(s, w)] = w
    BY <1>2, <1>5, <1>6
  <2> QED
    BY <2>1 DEF OrderIncreasing
<1> QED
  BY <1>5, <1>6

\* What must come first has the smaller number.
LEMMA PrecedesInOrder ==
    ASSUME Inv, NEW a \in committed, NEW b \in committed, MustPrecede(order, a, b)
    PROVE  a.id < b.id
<1>1. /\ Types /\ OrderIncreasing /\ TxId \subseteq Nat
      /\ committed \subseteq [id : TxId, reads : SUBSET Read] /\ DOMAIN order = Key
  BY Numbers DEF Inv, Base, Types
<1>2. a.id \in TxId /\ b.id \in TxId /\ a.id \in Nat /\ b.id \in Nat /\ a.id # b.id
  BY <1>1 DEF MustPrecede
<1>3. CASE ReadsFrom(a, b)
  <2>1. PICK r \in b.reads : r.ver = a.id
    BY <1>3 DEF ReadsFrom
  <2>2. Decided(b.id, r)
    BY <2>1 DEF Inv, ReadsDecided
  <2>3. a.id # None
    BY <1>2, LockManagerAssumption
  <2>4. a.id <= b.id
    BY <2>1, <2>2, <2>3 DEF Decided
  <2> QED
    BY <1>2, <2>4
<1>4. CASE Overwrites(order, a, b)
  <2>1. PICK k \in Key : /\ Place(order[k], a.id) > 0
                         /\ Place(order[k], a.id) < Place(order[k], b.id)
    BY <1>1, <1>4 DEF Overwrites
  <2>2. \E m \in DOMAIN order[k] : order[k][m] = a.id
    BY <2>1 DEF Place
  <2> QED
    BY <1>1, <2>1, <2>2, PlacesInOrder
<1>5. CASE AntiDepends(order, a, b)
  <2>1. PICK r \in a.reads : Place(order[r.key], r.ver) < Place(order[r.key], b.id)
    BY <1>5 DEF AntiDepends
  <2>2. r \in Read /\ r.key \in Key
    BY <1>1, <2>1 DEF Read
  <2>3. Decided(a.id, r) /\ Stored(r.key, r.ver)
    BY <2>1 DEF Inv, ReadsDecided
  <2> DEFINE k == r.key
             v == r.ver
  <2>4. /\ \E m \in DOMAIN order[k] : order[k][m] = b.id
        /\ (\E m \in DOMAIN order[k] : order[k][m] = v) => v < b.id
    <3> HIDE DEF k, v
    <3>1. k \in Key /\ Place(order[k], v) < Place(order[k], b.id)
      BY <2>1, <2>2 DEF k, v
    <3> QED
      BY <1>1, <3>1, PlacesInOrder
  <2>5. WritesTo(b.id, k)
    BY <1>1, <2>2, <2>4 DEF OrderIncreasing
  <2>6. ASSUME b.id < a.id
        PROVE  FALSE
    <3>1. v # None /\ b.id <= v /\ v \in TxId
      BY <1>2, <2>3, <2>5, <2>6 DEF Decided
    <3>2. v < b.id
      BY <2>3, <2>4, <3>1 DEF Stored
    <3>3. v \in Nat
      BY <1>1, <3>1
    <3> QED
      BY <1>2, <3>1, <3>2, <3>3
  <2> QED
    BY <1>2, <2>6
<1> QED
  BY <1>3, <1>4, <1>5 DEF MustPrecede

\* While no wait list moves under its readers (lock-manager/ss2pl.cc,
\* lockmanager_regist and check_waitlist), a wait list holds exactly the
\* transactions still to lock the record, in the order of their numbers, and
\* they are served in that order.
THEOREM ServedInOrder ==
    ASSUME ~Racing
    PROVE  Spec => []WaitListsInOrder
<1>1. Inv => WaitListsInOrder
  BY DEF Inv, Base, ListsMatch
<1> QED
  BY Invariance, <1>1, PTL

\* Then the transactions (lock-manager/ss2pl.cc, worker) read and write as if
\* they were run one at a time in the order of their numbers, however many
\* workers run them.
THEOREM Determined ==
    ASSUME ~Racing
    PROVE  Spec => []SerialInTxOrder
<1>1. ASSUME Inv
      PROVE  SerialInTxOrder
  <2>1. ASSUME NEW a \in committed, NEW r \in a.reads
        PROVE  r.ver = LastWriter(r.key, a.id) \/ r.ver = LastWriter(r.key, a.id - 1)
    <3>1. Types /\ a.id \in TxId /\ r \in Read
      BY <1>1, <2>1 DEF Inv, Base, Types
    <3>2. Decided(a.id, r)
      BY <1>1, <2>1 DEF Inv, ReadsDecided
    <3> QED
      BY <3>1, <3>2, DecidedIsLast
  <2>2. \A k \in Key : \A m, n \in DOMAIN order[k] : m < n => order[k][m] < order[k][n]
    BY <1>1 DEF Inv, OrderIncreasing
  <2> QED
    BY <2>1, <2>2 DEF SerialInTxOrder
<1> QED
  BY Invariance, <1>1, PTL

\* "Own tx_id is at the head of the lock manager's wait_list_" wherever
\* check_waitlist takes a lock (lock-manager/ss2pl.cc): as long as no list moves
\* under a reader, nobody is granted a lock before its turn, though the head is
\* looked at before the list is locked.
THEOREM GrantsAreInTurn ==
    ASSUME ~Racing
    PROVE  Spec => GrantedAtHead
<1>1. ASSUME Inv, [Next]_vars
      PROVE  [\A t \in Thread :
                \A k \in (rlocks'[t] \cup wlocks'[t]) \ (rlocks[t] \cup wlocks[t]) :
                   wait_list[k][1] = tx_id[t]]_vars
  <2> SUFFICES ASSUME NEW t \in Thread,
                      NEW k \in (rlocks'[t] \cup wlocks'[t]) \ (rlocks[t] \cup wlocks[t])
               PROVE  wait_list[k][1] = tx_id[t]
    OBVIOUS
  <2>1. Types /\ Dispatched /\ LocksCover /\ ListsMatch
    BY <1>1 DEF Inv, Base
  <2>2. rlocks \in [Thread -> SUBSET Key] /\ wlocks \in [Thread -> SUBSET Key]
    BY <2>1 DEF Types
  <2>3. ASSUME NEW u \in Thread, worker(u)
        PROVE  wait_list[k][1] = tx_id[t]
    <3>1. CASE grant(u)
      <4> DEFINE f == future[u][cur[u]]
      <4>1. wait_list[f.key][1] = tx_id[u]
        BY <2>1, <3>1, AtHead
      <4>2. \/ rlocks' = [rlocks EXCEPT ![u] = @ \cup {f.key}] /\ wlocks' = wlocks
            \/ wlocks' = [wlocks EXCEPT ![u] = @ \cup {f.key}] /\ rlocks' = rlocks
        BY <2>1, <3>1, GrantEffect
      <4> HIDE DEF f
      <4>3. u = t /\ k = f.key
        BY <2>2, <4>2
      <4> QED
        BY <4>1, <4>3
    <3>2. CASE leave(u) \/ acquireGiant(u) \/ regist(u) \/ releaseGiant(u) \/ pass(u)
               \/ execute(u) \/ commit(u) \/ finish(u)
      <4>1. UNCHANGED << rlocks, wlocks >>
        BY <3>2 DEF leave, acquireGiant, regist, releaseGiant, pass, execute, commit,
                    finish, held
      <4> QED
        BY <4>1
    <3>3. CASE readUnlock(u) \/ writeUnlock(u)
      BY <2>2, <3>3 DEF readUnlock, writeUnlock
    <3> QED
      BY <2>3, <3>1, <3>2, <3>3 DEF worker
  <2>4. CASE Quit \/ Joined \/ UNCHANGED vars
    BY <2>4 DEF Quit, Joined, vars, held
  <2> QED
    BY <1>1, <2>3, <2>4 DEF Next
<1> QED
  BY Invariance, <1>1, PTL DEF Spec, GrantedAtHead

\* And then the committed transactions are serializable, whatever a transaction
\* that writes a record it also reads has read.
THEOREM LockingIsSerializable ==
    ASSUME ~Racing
    PROVE  Spec => []Serializable(committed, order)
<1>1. ASSUME Inv
      PROVE  Serializable(committed, order)
  <2> DEFINE f == [a \in committed |-> a.id]
             g == [a \in committed |-> 0]
  <2>1. \A a \in committed : a.id \in Nat
    BY <1>1, Numbers DEF Inv, Base, Types
  <2>2. f \in [committed -> Nat] /\ g \in [committed -> Nat]
    BY <2>1
  <2>3. ASSUME NEW a \in committed, NEW b \in committed, MustPrecede(order, a, b)
        PROVE  f[a] < f[b]
    BY <1>1, <2>3, PrecedesInOrder
  <2> HIDE DEF f, g
  <2> QED
    BY <2>2, <2>3, RankedSerializable
<1> QED
  BY Invariance, <1>1, PTL

-----------------------------------------------------------------------------
(* Determinism: the giant lock is held until a transaction has its locks *)

\* What Determinism declares and LockManager does not.
CONSTANT Variants
VARIABLES end_after_tx1, tx_pos

D == INSTANCE Determinism

\* The counters of the locks are the same in both.
LEMMA SameLocks ==
    /\ D!Free = Free /\ D!WriteLocked = WriteLocked
    /\ \A c : /\ D!CanReadLock(c) <=> CanReadLock(c)
              /\ D!CanWriteLock(c) <=> CanWriteLock(c)
              /\ D!CanUpgrade(c) <=> CanUpgrade(c)
              /\ D!ReadLock(c) = ReadLock(c) /\ D!ReadUnlock(c) = ReadUnlock(c)
              /\ D!WriteLock(c) = WriteLock(c) /\ D!WriteUnlock(c) = WriteUnlock(c)
              /\ D!Upgrade(c) = Upgrade(c)
BY DEF D!Free, Free, D!WriteLocked, WriteLocked, D!CanReadLock, CanReadLock,
   D!CanWriteLock, CanWriteLock, D!CanUpgrade, CanUpgrade, D!ReadLock, ReadLock,
   D!ReadUnlock, ReadUnlock, D!WriteLock, WriteLock, D!WriteUnlock, WriteUnlock,
   D!Upgrade, Upgrade

D_Version == D!TxId \cup {None}
D_Read == [key : Key, ver : D_Version]

D_Types ==
    /\ quit \in BOOLEAN
    /\ giant \in Thread \cup {None}
    /\ tx_counter \in Nat
    /\ FirstTx <= tx_counter
    /\ pre \in [D!TxId -> Seq(D!Task)]
    /\ lock \in [Key -> Int]
    /\ value \in [Key -> D_Version]
    /\ pc \in [Thread -> {"point", "retry", "lock", "abort", "exec", "unlock", "done"}]
    /\ tx_pos \in [Thread -> Nat]
    /\ pos \in [Thread -> Nat \ {0}]
    /\ rlocks \in [Thread -> SUBSET Key]
    /\ wlocks \in [Thread -> SUBSET Key]
    /\ reads \in [Thread -> SUBSET D_Read]
    /\ committed \subseteq [id : D!TxId, reads : SUBSET D_Read]
    /\ order \in [Key -> Seq(D!TxId)]

\* The counters of the locks and the lists of their holders agree.
D_Counted == LocksAgree(Thread, Key, lock, rlocks, wlocks)

\* A worker takes its locks under the giant lock, for the transaction counted next.
Locker(t) == pc[t] \in {"retry", "lock", "abort"}

\* A worker has its locks, and runs a transaction that has been counted.
Runner(t) == pc[t] \in {"exec", "unlock"}

D_Dispatched ==
    \A t \in Thread :
        /\ Locker(t) => giant = t /\ tx_pos[t] = tx_counter /\ tx_pos[t] \in D!TxId
        /\ Runner(t) => tx_pos[t] \in D!TxId /\ tx_pos[t] < tx_counter

\* The first n tasks of transaction i read or write k.
Reads(i, n, k) == \E m \in DOMAIN pre[i] : m < n /\ pre[i][m] = [op |-> "READ", key |-> k]
D_Writes(i, n, k) == \E m \in DOMAIN pre[i] : m < n /\ pre[i][m] = [op |-> "WRITE", key |-> k]

\* How many of its tasks a worker has locks for.
Locked(t) == IF pc[t] = "lock" THEN pos[t] ELSE Len(D!Tasks(t)) + 1

\* A worker holds locks for the tasks it has locked, and no write lock but those.
D_Covered(t, k) ==
    /\ pc[t] \in {"point", "retry", "done"} => k \notin rlocks[t] \cup wlocks[t]
    /\ pc[t] \in {"lock", "exec"} =>
          /\ Reads(tx_pos[t], Locked(t), k) => k \in rlocks[t] \cup wlocks[t]
          /\ D_Writes(tx_pos[t], Locked(t), k) <=> k \in wlocks[t]

D_LocksCover == \A t \in Thread, k \in Key : D_Covered(t, k)

\* Transaction i writes k.
D_WritesTo(i, k) == \E m \in DOMAIN pre[i] : pre[i][m] = [op |-> "WRITE", key |-> k]

\* While a transaction runs, none after it has come to write what it has locked.
NoneAfter ==
    \A t \in Thread : pc[t] = "exec" =>
        \A k \in rlocks[t] \cup wlocks[t], j \in D!TxId :
            tx_pos[t] < j /\ j < tx_counter => ~D_WritesTo(j, k)

\* What record k holds while t, who may write it, runs ...
D_WhileWritten(t, k) ==
    value[k] = IF D_Writes(tx_pos[t], pos[t], k) THEN tx_pos[t]
               ELSE D!LastWriter(k, tx_pos[t] - 1)

\* ... and at any other time.
OtherTimes(k) == value[k] = D!LastWriter(k, tx_counter - 1)

D_MayWrite(t, k) == pc[t] = "exec" /\ k \in wlocks[t]

D_Holding ==
    \A k \in Key :
        /\ \A t \in Thread : D_MayWrite(t, k) => D_WhileWritten(t, k)
        /\ (\A t \in Thread : ~D_MayWrite(t, k)) => OtherTimes(k)

\* What a read may have returned.
D_Decided(i, r) == r.ver = D!LastWriter(r.key, i) \/ r.ver = D!LastWriter(r.key, i - 1)

D_ReadsDecided ==
    /\ \A t \in Thread : \A r \in reads[t] : Runner(t) /\ D_Decided(tx_pos[t], r)
    /\ \A a \in committed : \A r \in a.reads : D_Decided(a.id, r)

\* The writers of a record are counted, write it, and are in order.
D_OrderIncreasing ==
    \A k \in Key :
        /\ \A i \in DOMAIN order[k] : order[k][i] < tx_counter /\ D_WritesTo(order[k][i], k)
        /\ \A i, j \in DOMAIN order[k] : i < j => order[k][i] < order[k][j]

D_Base == D_Types /\ D_Counted /\ D_Dispatched /\ D_LocksCover

D_Inv == D_Base /\ NoneAfter /\ D_Holding /\ D_ReadsDecided /\ D_OrderIncreasing

-----------------------------------------------------------------------------
(* Tasks, and the last writer of a record *)

\* A transaction is a sequence of reads and writes of records.
LEMMA D_TasksTyped ==
    ASSUME D_Types, NEW i \in D!TxId
    PROVE  /\ pre[i] \in Seq(D!Task) /\ Len(pre[i]) \in Nat
           /\ DOMAIN pre[i] = 1 .. Len(pre[i])
           /\ \A n \in 1 .. Len(pre[i]) :
                 /\ pre[i][n].op \in {"READ", "WRITE"} /\ pre[i][n].key \in Key
                 /\ pre[i][n] = [op |-> pre[i][n].op, key |-> pre[i][n].key]
<1>1. pre[i] \in Seq(D!Task)
  BY DEF D_Types
<1>2. Len(pre[i]) \in Nat /\ DOMAIN pre[i] = 1 .. Len(pre[i])
  BY <1>1
<1>3. \A n \in 1 .. Len(pre[i]) : pre[i][n] \in D!Task
  BY <1>1
<1> QED
  BY <1>1, <1>2, <1>3 DEF D!Task

\* The tasks before n + 1 are those before n, and n.
LEMMA D_TaskNext ==
    ASSUME D_Types, NEW i \in D!TxId, NEW n \in 1 .. Len(pre[i]), NEW k
    PROVE  /\ Reads(i, n + 1, k) <=>
                  Reads(i, n, k) \/ (pre[i][n].op = "READ" /\ pre[i][n].key = k)
           /\ D_Writes(i, n + 1, k) <=>
                  D_Writes(i, n, k) \/ (pre[i][n].op = "WRITE" /\ pre[i][n].key = k)
<1>1. n \in Nat /\ DOMAIN pre[i] = 1 .. Len(pre[i]) /\ Len(pre[i]) \in Nat
  BY D_TasksTyped
<1>2. \A m \in DOMAIN pre[i] : m < n + 1 <=> m < n \/ m = n
  BY <1>1
<1>3. /\ pre[i][n] = [op |-> "READ", key |-> k] <=>
             pre[i][n].op = "READ" /\ pre[i][n].key = k
      /\ pre[i][n] = [op |-> "WRITE", key |-> k] <=>
             pre[i][n].op = "WRITE" /\ pre[i][n].key = k
  <2>1. pre[i][n] = [op |-> pre[i][n].op, key |-> pre[i][n].key]
    BY D_TasksTyped
  <2> QED
    BY <2>1
<1>4. Reads(i, n + 1, k) <=>
          Reads(i, n, k) \/ (pre[i][n].op = "READ" /\ pre[i][n].key = k)
  BY <1>1, <1>2, <1>3 DEF Reads
<1>5. D_Writes(i, n + 1, k) <=>
          D_Writes(i, n, k) \/ (pre[i][n].op = "WRITE" /\ pre[i][n].key = k)
  BY <1>1, <1>2, <1>3 DEF D_Writes
<1> QED
  BY <1>4, <1>5

\* Before the first task there is none; past the last, all are.
LEMMA D_TaskEnds ==
    ASSUME D_Types, NEW i \in D!TxId, NEW k
    PROVE  /\ ~Reads(i, 1, k) /\ ~D_Writes(i, 1, k)
           /\ \A n \in Nat : n > Len(pre[i]) =>
                 /\ Reads(i, n, k) <=> Reads(i, Len(pre[i]) + 1, k)
                 /\ D_Writes(i, n, k) <=> D_WritesTo(i, k)
<1>1. DOMAIN pre[i] = 1 .. Len(pre[i]) /\ Len(pre[i]) \in Nat
  BY D_TasksTyped
<1>2. \A m \in DOMAIN pre[i] : m \in Nat /\ m >= 1 /\ m <= Len(pre[i])
  BY <1>1
<1>3. ~Reads(i, 1, k) /\ ~D_Writes(i, 1, k)
  BY <1>2 DEF Reads, D_Writes
<1>4. ASSUME NEW n \in Nat, n > Len(pre[i])
      PROVE  \A m \in DOMAIN pre[i] : m < n /\ m < Len(pre[i]) + 1
  BY <1>1, <1>2, <1>4
<1>5. ASSUME NEW n \in Nat, n > Len(pre[i])
      PROVE  /\ Reads(i, n, k) <=> Reads(i, Len(pre[i]) + 1, k)
             /\ D_Writes(i, n, k) <=> D_WritesTo(i, k)
  BY <1>4, <1>5 DEF Reads, D_Writes, D_WritesTo
<1> QED
  BY <1>3, <1>5

\* A transaction of the writers up to i that has none after it is the last.
LEMMA D_LastIs ==
    ASSUME NEW k, NEW i \in Nat, NEW j \in D!TxId, j <= i, D_WritesTo(j, k),
           \A m \in D!TxId : j < m /\ m <= i => ~D_WritesTo(m, k)
    PROVE  D!LastWriter(k, i) = j
<1> DEFINE W == D!Writers(k, i)
<1>1. W \subseteq D!TxId /\ D!TxId \subseteq Nat
  BY LockManagerAssumption DEF D!Writers, D!TxId
<1>2. j \in W
  BY DEF D!Writers, D_WritesTo
<1>3. \A m \in W : m <= j
  <2> SUFFICES ASSUME NEW m \in W, j < m
               PROVE  FALSE
    BY <1>1, <1>2
  <2>1. m \in D!TxId /\ m <= i /\ D_WritesTo(m, k)
    BY DEF D!Writers, D_WritesTo
  <2> QED
    BY <2>1
<1>4. \A x \in W : (\A m \in W : m <= x) => x = j
  BY <1>1, <1>2, <1>3
<1>5. D!LastWriter(k, i) = CHOOSE x \in W : \A m \in W : m <= x
  BY <1>2 DEF D!LastWriter
<1> HIDE DEF W
<1>6. (CHOOSE x \in W : \A m \in W : m <= x) = j
  BY <1>2, <1>3, <1>4
<1> QED
  BY <1>5, <1>6

\* The last writer is the same up to i and up to j when none is between.
LEMMA LastSame ==
    ASSUME NEW k, NEW i \in Int, NEW j \in Int, i <= j,
           \A m \in D!TxId : i < m /\ m <= j => ~D_WritesTo(m, k)
    PROVE  D!LastWriter(k, i) = D!LastWriter(k, j)
<1>1. \A m \in D!TxId : m \in Nat
  BY LockManagerAssumption DEF D!TxId
<1>2. D!Writers(k, i) = D!Writers(k, j)
  BY <1>1 DEF D!Writers, D_WritesTo
<1> QED
  BY <1>2 DEF D!LastWriter

\* Transactions do not change, so neither does what is said of them.
LEMMA Rigid ==
    ASSUME pre' = pre
    PROVE  /\ \A i, n, k : Reads(i, n, k)' <=> Reads(i, n, k)
           /\ \A i, n, k : D_Writes(i, n, k)' <=> D_Writes(i, n, k)
           /\ \A i, k : D_WritesTo(i, k)' <=> D_WritesTo(i, k)
           /\ \A i, k : D!LastWriter(k, i)' = D!LastWriter(k, i)
<1>1. \A i, k : D!LastWriter(k, i)' = D!LastWriter(k, i)
  BY DEF D!LastWriter, D!Writers
<1> QED
  BY <1>1 DEF Reads, D_Writes, D_WritesTo

-----------------------------------------------------------------------------
(* Types and dispatch *)

LEMMA D_InitInv == D!Init => D_Inv
<1> SUFFICES ASSUME D!Init
             PROVE  D_Inv
  OBVIOUS
<1> USE LockManagerAssumption
<1>1. D_Types
  <2>1. pre \in [D!TxId -> Seq(D!Task)]
    BY DEF D!Init, D!Task, Task
  <2>2. /\ lock \in [Key -> Int] /\ value \in [Key -> D_Version]
        /\ order \in [Key -> Seq(D!TxId)] /\ committed = {}
    BY DEF D!Init, D_Version, D!Free
  <2>3. /\ pc \in [Thread -> {"point", "retry", "lock", "abort", "exec", "unlock", "done"}]
        /\ tx_pos \in [Thread -> Nat] /\ pos \in [Thread -> Nat \ {0}]
    BY DEF D!Init
  <2>4. /\ rlocks \in [Thread -> SUBSET Key] /\ wlocks \in [Thread -> SUBSET Key]
        /\ reads \in [Thread -> SUBSET D_Read]
    BY DEF D!Init
  <2>5. quit \in BOOLEAN /\ giant = None /\ tx_counter = FirstTx /\ FirstTx \in Nat
    BY DEF D!Init
  <2> QED
    BY <2>1, <2>2, <2>3, <2>4, <2>5 DEF D_Types
<1>2. D_Counted
  BY FreeAgrees, SameLocks DEF D!Init, D_Counted
<1>3. D_Dispatched /\ D_LocksCover /\ NoneAfter
  BY DEF D!Init, D_Dispatched, Locker, Runner, D_LocksCover, D_Covered, NoneAfter
<1>4. D_Holding
  <2> SUFFICES ASSUME NEW k \in Key
               PROVE  D!LastWriter(k, tx_counter - 1) = None
    BY DEF D!Init, D_Holding, D_MayWrite, OtherTimes
  <2>1. D!Writers(k, tx_counter - 1) = {}
    BY DEF D!Init, D!Writers, D!TxId
  <2> QED
    BY <2>1 DEF D!LastWriter
<1>5. D_ReadsDecided /\ D_OrderIncreasing
  BY DEF D!Init, D_ReadsDecided, D_OrderIncreasing
<1> QED
  BY <1>1, <1>2, <1>3, <1>4, <1>5 DEF D_Inv, D_Base

\* The task a worker locks or executes.
LEMMA D_TaskAt ==
    ASSUME D_Types, D_Dispatched, NEW t \in Thread, Locker(t) \/ Runner(t),
           pos[t] <= Len(D!Tasks(t))
    PROVE  /\ tx_pos[t] \in D!TxId /\ D!Tasks(t) = pre[tx_pos[t]]
           /\ pos[t] \in 1 .. Len(D!Tasks(t))
           /\ D!Tasks(t)[pos[t]].key \in Key
           /\ D!Tasks(t)[pos[t]].op \in {"READ", "WRITE"}
<1>1. tx_pos[t] \in D!TxId /\ D!Tasks(t) = pre[tx_pos[t]]
  BY DEF D_Dispatched, D!Tasks
<1>2. pos[t] \in 1 .. Len(D!Tasks(t))
  BY <1>1, D_TasksTyped DEF D_Types
<1> QED
  BY <1>1, <1>2, D_TasksTyped

LEMMA D_TypesStep ==
    ASSUME D_Types, D_Dispatched, [D!Next]_D!vars
    PROVE  D_Types'
<1> USE LockManagerAssumption DEF D_Types, D!dispatch, D!held, D!records, D!history,
   D!Goto
<1>1. CASE D!Quit
  BY <1>1 DEF D!Quit
<1>2. CASE D!Joined \/ UNCHANGED D!vars
  BY <1>2 DEF D!Joined, D!vars
<1>3. ASSUME NEW t \in Thread, D!worker(t)
      PROVE  D_Types'
  <2>1. CASE D!leave(t)
    BY <2>1 DEF D!leave
  <2>2. CASE D!acquireGiant(t)
    BY <2>2 DEF D!acquireGiant
  <2>3. CASE D!retry(t)
    <3>1. /\ UNCHANGED << quit, giant, tx_counter, pre, lock, value, tx_pos, rlocks, wlocks >>
          /\ UNCHANGED << reads, committed, order >>
      BY <2>3 DEF D!retry
    <3>2. pos' = pos \/ pos' = [pos EXCEPT ![t] = 1]
      BY <2>3 DEF D!retry
    <3>3. pc' = [pc EXCEPT ![t] = "done"] \/ pc' = [pc EXCEPT ![t] = "lock"]
      BY <2>3 DEF D!retry
    <3>4. pos' \in [Thread -> Nat \ {0}]
      <4>1. pos \in [Thread -> Nat \ {0}] /\ 1 \in Nat \ {0}
        OBVIOUS
      <4> QED
        BY <3>2, <4>1
    <3>5. pc' \in [Thread -> {"point", "retry", "lock", "abort", "exec", "unlock", "done"}]
      BY <3>3
    <3> QED
      BY <3>1, <3>4, <3>5
  <2>4. CASE D!lockRead(t)
    <3>1. D!Tasks(t)[pos[t]].key \in Key
      BY <2>4, D_TaskAt DEF D!lockRead, D!Locking, Locker
    <3> DEFINE k == D!Tasks(t)[pos[t]].key
    <3>2. CASE D!Grant(t) /\ UNCHANGED D!held
      BY <3>2 DEF D!Grant
    <3>3. CASE /\ D!Grant(t) /\ lock' = [lock EXCEPT ![k] = D!ReadLock(@)]
               /\ rlocks' = [rlocks EXCEPT ![t] = @ \cup {k}] /\ UNCHANGED wlocks
      BY <3>1, <3>3 DEF D!Grant, D!ReadLock
    <3>4. CASE D!Refuse(t)
      BY <3>4 DEF D!Refuse
    <3> QED
      BY <2>4, <3>2, <3>3, <3>4 DEF D!lockRead
  <2>5. CASE D!lockWrite(t)
    <3>1. D!Tasks(t)[pos[t]].key \in Key
      BY <2>5, D_TaskAt DEF D!lockWrite, D!Locking, Locker
    <3> DEFINE k == D!Tasks(t)[pos[t]].key
    <3>2. CASE D!Grant(t) /\ UNCHANGED D!held
      BY <3>2 DEF D!Grant
    <3>3. CASE /\ D!Grant(t) /\ lock' = [lock EXCEPT ![k] = D!Upgrade(@)]
               /\ wlocks' = [wlocks EXCEPT ![t] = @ \cup {k}]
               /\ rlocks' = [rlocks EXCEPT ![t] = @ \ {k}]
      BY <3>1, <3>3 DEF D!Grant, D!Upgrade, D!WriteLocked
    <3>4. CASE /\ D!Grant(t) /\ lock' = [lock EXCEPT ![k] = D!WriteLock(@)]
               /\ wlocks' = [wlocks EXCEPT ![t] = @ \cup {k}] /\ UNCHANGED rlocks
      BY <3>1, <3>4 DEF D!Grant, D!WriteLock, D!WriteLocked
    <3>5. CASE D!Refuse(t)
      BY <3>5 DEF D!Refuse
    <3> QED
      BY <2>5, <3>2, <3>3, <3>4, <3>5 DEF D!lockWrite
  <2>6. CASE D!locked(t)
    <3>1. tx_pos[t] \in Nat /\ tx_pos[t] = tx_counter
      BY <2>6 DEF D!locked, D_Dispatched, Locker
    <3> QED
      BY <2>6, <3>1 DEF D!locked
  <2>7. CASE D!aborted(t)
    BY <2>7 DEF D!aborted
  <2>8. CASE D!execute(t)
    <3>1. /\ D!Tasks(t)[pos[t]].key \in Key /\ tx_pos[t] \in D!TxId
      BY <2>8, D_TaskAt DEF D!execute, Runner
    <3> DEFINE k == D!Tasks(t)[pos[t]].key
               r == [key |-> k, ver |-> value[k]]
    <3>2. r \in D_Read
      BY <3>1 DEF D_Read
    <3> HIDE DEF r
    <3>3. \/ reads' = [reads EXCEPT ![t] = @ \cup {r}]
          \/ reads' = reads
      BY <2>8 DEF D!execute, r
    <3>4. reads' \in [Thread -> SUBSET D_Read]
      <4>1. reads \in [Thread -> SUBSET D_Read]
        OBVIOUS
      <4>2. reads[t] \cup {r} \in SUBSET D_Read
        BY <3>2, <4>1
      <4> QED
        BY ONLY <3>3, <4>1, <4>2
    <3>5. pos' \in [Thread -> Nat \ {0}]
      BY <2>8 DEF D!execute
    <3>6. value' \in [Key -> D_Version]
      BY <2>8, <3>1 DEF D!execute, D_Version
    <3>7. order' \in [Key -> Seq(D!TxId)]
      <4>1. Append(order[k], tx_pos[t]) \in Seq(D!TxId)
        BY <3>1
      <4> QED
        BY <2>8, <3>1, <4>1 DEF D!execute
    <3> QED
      BY <2>8, <3>4, <3>5, <3>6, <3>7 DEF D!execute
  <2>9. CASE D!commit(t)
    <3>1. tx_pos[t] \in D!TxId
      BY <2>9 DEF D!commit, D_Dispatched, Runner
    <3>2. [id |-> tx_pos[t], reads |-> reads[t]] \in [id : D!TxId, reads : SUBSET D_Read]
      BY <3>1
    <3> QED
      BY <2>9, <3>2 DEF D!commit
  <2>10. CASE D!readUnlock(t)
    BY <2>10 DEF D!readUnlock, D!ReadUnlock
  <2>11. CASE D!writeUnlock(t)
    BY <2>11 DEF D!writeUnlock, D!WriteUnlock
  <2>12. CASE D!finish(t)
    BY <2>12 DEF D!finish
  <2> QED
    BY <1>3, <2>1, <2>2, <2>3, <2>4, <2>5, <2>6, <2>7, <2>8, <2>9, <2>10, <2>11,
       <2>12 DEF D!worker
<1> QED
  BY <1>1, <1>2, <1>3 DEF D!Next

\* Transactions are drawn before the run.
LEMMA D_PreKept ==
    ASSUME [D!Next]_D!vars
    PROVE  pre' = pre
<1>1. ASSUME NEW t \in Thread, D!worker(t)
      PROVE  pre' = pre
  <2>1. CASE D!lockRead(t) \/ D!lockWrite(t)
    BY <2>1 DEF D!lockRead, D!lockWrite, D!Grant, D!Refuse, D!dispatch
  <2>2. CASE ~(D!lockRead(t) \/ D!lockWrite(t))
    BY <1>1, <2>2 DEF D!worker, D!leave, D!acquireGiant, D!retry, D!locked, D!aborted,
       D!execute, D!commit,
                      D!readUnlock, D!writeUnlock, D!finish, D!dispatch
  <2> QED
    BY <2>1, <2>2
<1>2. CASE D!Quit \/ D!Joined \/ UNCHANGED D!vars
  BY <1>2 DEF D!Quit, D!Joined, D!vars, D!dispatch
<1> QED
  BY <1>1, <1>2 DEF D!Next

LEMMA D_DispatchedStep ==
    ASSUME D_Types, D_Dispatched, [D!Next]_D!vars
    PROVE  D_Dispatched'
<1> USE LockManagerAssumption DEF D!dispatch, D!Goto, Locker, Runner
<1>1. CASE D!Quit
  BY <1>1 DEF D!Quit, D_Dispatched
<1>2. CASE D!Joined \/ UNCHANGED D!vars
  BY <1>2 DEF D!Joined, D!vars, D_Dispatched
<1>3. ASSUME NEW t \in Thread, D!worker(t)
      PROVE  D_Dispatched'
  <2>1. CASE D!leave(t)
    BY <2>1 DEF D!leave, D_Dispatched, D_Types
  <2>2. CASE D!acquireGiant(t)
    <3>1. \A u \in Thread : ~Locker(u)
      BY <2>2 DEF D!acquireGiant, D_Dispatched
    <3>2. tx_counter < PRE_NUM => tx_counter \in D!TxId
      BY DEF D_Types, D!TxId
    <3>3. \A u \in Thread : u # t => pc'[u] = pc[u] /\ tx_pos'[u] = tx_pos[u]
      BY <2>2 DEF D!acquireGiant, D_Types
    <3>4. /\ pc'[t] \in {"retry", "done"} /\ tx_pos'[t] = tx_counter /\ giant' = t
          /\ pc'[t] = "retry" => tx_counter < PRE_NUM
          /\ tx_counter' = tx_counter
      BY <2>2 DEF D!acquireGiant, D_Types
    <3> QED
      BY <3>1, <3>2, <3>3, <3>4 DEF D_Dispatched
  <2>3. CASE D!retry(t)
    BY <2>3 DEF D!retry, D_Dispatched, D_Types
  <2>4. CASE D!lockRead(t)
    BY <2>4 DEF D!lockRead, D!Locking, D!Grant, D!Refuse, D_Dispatched, D_Types
  <2>5. CASE D!lockWrite(t)
    BY <2>5 DEF D!lockWrite, D!Locking, D!Grant, D!Refuse, D_Dispatched, D_Types
  <2>6. CASE D!locked(t)
    <3>1. tx_pos[t] = tx_counter /\ tx_pos[t] \in D!TxId /\ giant = t /\ tx_counter \in Nat
      BY <2>6 DEF D!locked, D_Dispatched, D_Types
    <3>2. \A u \in Thread : u # t => ~Locker(u)
      BY <3>1 DEF D_Dispatched
    <3>3. \A u \in Thread : Runner(u) => tx_pos[u] \in D!TxId /\ tx_pos[u] < tx_counter + 1
      BY <3>1 DEF D_Dispatched, D!TxId
    <3>4. \A u \in Thread : u # t => pc'[u] = pc[u]
      BY <2>6 DEF D!locked, D_Types
    <3>5. pc'[t] = "exec" /\ tx_pos' = tx_pos /\ tx_counter' = tx_counter + 1
      BY <2>6, <3>1 DEF D!locked, D_Types
    <3> QED
      BY <3>1, <3>2, <3>3, <3>4, <3>5 DEF D_Dispatched
  <2>7. CASE D!aborted(t)
    BY <2>7 DEF D!aborted, D_Dispatched, D_Types
  <2>8. CASE D!execute(t)
    BY <2>8 DEF D!execute, D_Dispatched
  <2>9. CASE D!commit(t)
    BY <2>9 DEF D!commit, D_Dispatched, D_Types
  <2>10. CASE D!readUnlock(t)
    BY <2>10 DEF D!readUnlock, D_Dispatched
  <2>11. CASE D!writeUnlock(t)
    BY <2>11 DEF D!writeUnlock, D_Dispatched
  <2>12. CASE D!finish(t)
    BY <2>12 DEF D!finish, D_Dispatched, D_Types
  <2> QED
    BY <1>3, <2>1, <2>2, <2>3, <2>4, <2>5, <2>6, <2>7, <2>8, <2>9, <2>10, <2>11,
       <2>12 DEF D!worker
<1> QED
  BY <1>1, <1>2, <1>3 DEF D!Next

-----------------------------------------------------------------------------
(* Locks *)

LEMMA D_CountersTyped ==
    ASSUME D_Types
    PROVE  LockTypes(Thread, Key, lock, rlocks, wlocks)
BY LockManagerAssumption DEF D_Types, LockTypes

\* Who writes a record is the only one to have it.
LEMMA D_WriterExcludes ==
    ASSUME D_Types, D_Counted, NEW t \in Thread, NEW u \in Thread, t # u,
           NEW k \in wlocks[t]
    PROVE  k \notin rlocks[u] \cup wlocks[u]
BY D_CountersTyped, WriterAlone DEF D_Counted

LEMMA D_AgreeStep ==
    ASSUME D_Types, D_Dispatched, D_Counted, [D!Next]_D!vars
    PROVE  D_Counted'
<1> USE DEF D!dispatch, D!held
<1>1. CASE UNCHANGED D!held
  BY <1>1 DEF D_Counted
<1>2. ASSUME NEW t \in Thread, NEW k \in Key, k \notin rlocks[t] \cup wlocks[t],
             D!CanReadLock(lock[k]), lock' = [lock EXCEPT ![k] = D!ReadLock(@)],
             rlocks' = [rlocks EXCEPT ![t] = @ \cup {k}], UNCHANGED wlocks
      PROVE  D_Counted'
  BY <1>2, D_CountersTyped, ReadLockAgrees, SameLocks DEF D_Counted
<1>3. ASSUME NEW t \in Thread, NEW k \in Key, k \in rlocks[t],
             D!CanUpgrade(lock[k]), lock' = [lock EXCEPT ![k] = D!Upgrade(@)],
             wlocks' = [wlocks EXCEPT ![t] = @ \cup {k}],
             rlocks' = [rlocks EXCEPT ![t] = @ \ {k}]
      PROVE  D_Counted'
  BY <1>3, D_CountersTyped, UpgradeAgrees, SameLocks DEF D_Counted
<1>4. ASSUME NEW t \in Thread, NEW k \in Key, D!CanWriteLock(lock[k]),
             lock' = [lock EXCEPT ![k] = D!WriteLock(@)],
             wlocks' = [wlocks EXCEPT ![t] = @ \cup {k}], UNCHANGED rlocks
      PROVE  D_Counted'
  BY <1>4, D_CountersTyped, WriteLockAgrees, SameLocks DEF D_Counted
<1>5. ASSUME NEW t \in Thread, NEW k \in rlocks[t],
             lock' = [lock EXCEPT ![k] = D!ReadUnlock(@)],
             rlocks' = [rlocks EXCEPT ![t] = @ \ {k}], UNCHANGED wlocks
      PROVE  D_Counted'
  BY <1>5, D_CountersTyped, ReadUnlockAgrees, SameLocks DEF D_Counted
<1>6. ASSUME NEW t \in Thread, NEW k \in wlocks[t],
             lock' = [lock EXCEPT ![k] = D!WriteUnlock(@)],
             wlocks' = [wlocks EXCEPT ![t] = @ \ {k}], UNCHANGED rlocks
      PROVE  D_Counted'
  BY <1>6, D_CountersTyped, WriteUnlockAgrees, SameLocks DEF D_Counted
<1>7. ASSUME NEW t \in Thread, D!worker(t)
      PROVE  D_Counted'
  <2>1. CASE D!lockRead(t)
    <3>1. D!Tasks(t)[pos[t]].key \in Key
      BY <2>1, D_TaskAt DEF D!lockRead, D!Locking, Locker
    <3> QED
      BY <1>1, <1>2, <2>1, <3>1 DEF D!lockRead, D!Refuse
  <2>2. CASE D!lockWrite(t)
    <3>1. D!Tasks(t)[pos[t]].key \in Key
      BY <2>2, D_TaskAt DEF D!lockWrite, D!Locking, Locker
    <3> QED
      BY <1>1, <1>3, <1>4, <2>2, <3>1 DEF D!lockWrite, D!Refuse
  <2>3. CASE D!readUnlock(t)
    BY <1>5, <2>3 DEF D!readUnlock
  <2>4. CASE D!writeUnlock(t)
    BY <1>6, <2>4 DEF D!writeUnlock
  <2>5. CASE D!leave(t) \/ D!acquireGiant(t) \/ D!retry(t) \/ D!locked(t) \/ D!aborted(t)
             \/ D!execute(t) \/ D!commit(t) \/ D!finish(t)
    BY <1>1, <2>5 DEF D!leave, D!acquireGiant, D!retry, D!locked, D!aborted, D!execute,
       D!commit,
                      D!finish
  <2> QED
    BY <1>7, <2>1, <2>2, <2>3, <2>4, <2>5 DEF D!worker
<1>8. CASE D!Quit \/ D!Joined \/ UNCHANGED D!vars
  BY <1>1, <1>8 DEF D!Quit, D!Joined, D!vars
<1> QED
  BY <1>7, <1>8 DEF D!Next

-----------------------------------------------------------------------------
(* What a worker's locks cover *)

\* Who is not touched is covered as before.
LEMMA D_CoveredFrame ==
    ASSUME NEW t \in Thread, NEW k \in Key, D_Covered(t, k), pre' = pre,
           pc'[t] = pc[t], tx_pos'[t] = tx_pos[t], pc[t] = "lock" => pos'[t] = pos[t],
           rlocks'[t] = rlocks[t], wlocks'[t] = wlocks[t]
    PROVE  D_Covered(t, k)'
BY DEF D_Covered, Locked, D!Tasks, Reads, D_Writes

\* What to show of a worker that has come to lock or execute the task n.
LEMMA CoveredBy ==
    ASSUME NEW t \in Thread, NEW k \in Key, pre' = pre, NEW i, NEW n, tx_pos'[t] = i,
           \/ pc'[t] = "lock" /\ pos'[t] = n
           \/ pc'[t] = "exec" /\ n = Len(pre[i]) + 1,
           Reads(i, n, k) => k \in rlocks'[t] \cup wlocks'[t],
           D_Writes(i, n, k) <=> k \in wlocks'[t]
    PROVE  D_Covered(t, k)'
<1>1. Locked(t)' = n
  BY DEF Locked, D!Tasks
<1> QED
  BY <1>1 DEF D_Covered, Reads, D_Writes

LEMMA LockReadCovers ==
    ASSUME D_Types, D_Dispatched, D_LocksCover, [D!Next]_D!vars, NEW t \in Thread,
       D!lockRead(t),
           NEW k \in Key
    PROVE  D_Covered(t, k)'
<1>1. pre' = pre
  BY D_PreKept
<1>2. /\ pc[t] = "lock" /\ tx_pos[t] \in D!TxId /\ D!Tasks(t) = pre[tx_pos[t]]
      /\ pos[t] \in 1 .. Len(pre[tx_pos[t]])
      /\ tx_pos' = tx_pos
  BY D_TaskAt DEF D!lockRead, D!Locking, Locker, D!Grant, D!Refuse
<1> DEFINE i == tx_pos[t]
           n == pos[t]
           kk == pre[i][n].key
<1>3. pre[i][n].op = "READ"
  BY <1>2 DEF D!lockRead, D!Locking
<1>4. /\ Reads(i, n, k) => k \in rlocks[t] \cup wlocks[t]
      /\ D_Writes(i, n, k) <=> k \in wlocks[t]
  BY <1>2 DEF D_LocksCover, D_Covered, Locked
<1>5. /\ Reads(i, n + 1, k) <=> Reads(i, n, k) \/ kk = k
      /\ D_Writes(i, n + 1, k) <=> D_Writes(i, n, k)
  <2>1. "READ" # "WRITE"
    OBVIOUS
  <2> QED
    BY <1>2, <1>3, <2>1, D_TaskNext
<1>6. CASE D!Refuse(t)
  <2>1. pc'[t] = "abort"
    BY <1>6 DEF D!Refuse, D!Goto, D_Types
  <2> QED
    BY <2>1 DEF D_Covered
<1>7. CASE D!Grant(t) /\ wlocks' = wlocks /\ rlocks'[t] = rlocks[t] \cup {kk}
  <2>1. pc'[t] = "lock" /\ pos'[t] = n + 1
    BY <1>2, <1>7 DEF D!Grant, D_Types
  <2> QED
    BY <1>1, <1>2, <1>4, <1>5, <1>7, <2>1, CoveredBy
<1>8. CASE D!Grant(t) /\ UNCHANGED D!held /\ kk \in rlocks[t] \cup wlocks[t]
  <2>1. pc'[t] = "lock" /\ pos'[t] = n + 1 /\ wlocks' = wlocks /\ rlocks' = rlocks
    BY <1>2, <1>8 DEF D!Grant, D!held, D_Types
  <2> QED
    BY <1>1, <1>2, <1>4, <1>5, <1>8, <2>1, CoveredBy
<1> QED
  <2>1. D!Tasks(t)[pos[t]].key = kk
    BY <1>2
  <2>2. \A K : rlocks' = [rlocks EXCEPT ![t] = @ \cup K] => rlocks'[t] = rlocks[t] \cup K
    BY DEF D_Types
  <2> QED
    BY <1>6, <1>7, <1>8, <2>1, <2>2 DEF D!lockRead

LEMMA LockWriteCovers ==
    ASSUME D_Types, D_Dispatched, D_LocksCover, [D!Next]_D!vars, NEW t \in Thread,
       D!lockWrite(t),
           NEW k \in Key
    PROVE  D_Covered(t, k)'
<1>1. pre' = pre
  BY D_PreKept
<1>2. /\ pc[t] = "lock" /\ tx_pos[t] \in D!TxId /\ D!Tasks(t) = pre[tx_pos[t]]
      /\ pos[t] \in 1 .. Len(pre[tx_pos[t]])
      /\ tx_pos' = tx_pos
  BY D_TaskAt DEF D!lockWrite, D!Locking, Locker, D!Grant, D!Refuse
<1> DEFINE i == tx_pos[t]
           n == pos[t]
           kk == pre[i][n].key
<1>3. pre[i][n].op = "WRITE"
  BY <1>2 DEF D!lockWrite, D!Locking
<1>4. /\ Reads(i, n, k) => k \in rlocks[t] \cup wlocks[t]
      /\ D_Writes(i, n, k) <=> k \in wlocks[t]
  BY <1>2 DEF D_LocksCover, D_Covered, Locked
<1>5. /\ Reads(i, n + 1, k) <=> Reads(i, n, k)
      /\ D_Writes(i, n + 1, k) <=> D_Writes(i, n, k) \/ kk = k
  <2>1. "READ" # "WRITE"
    OBVIOUS
  <2> QED
    BY <1>2, <1>3, <2>1, D_TaskNext
<1>6. CASE D!Refuse(t)
  <2>1. pc'[t] = "abort"
    BY <1>6 DEF D!Refuse, D!Goto, D_Types
  <2> QED
    BY <2>1 DEF D_Covered
<1>7. CASE /\ D!Grant(t) /\ wlocks'[t] = wlocks[t] \cup {kk}
           /\ rlocks'[t] = rlocks[t] \ {kk} \/ rlocks'[t] = rlocks[t]
  <2>1. pc'[t] = "lock" /\ pos'[t] = n + 1
    BY <1>2, <1>7 DEF D!Grant, D_Types
  <2> QED
    BY <1>1, <1>2, <1>4, <1>5, <1>7, <2>1, CoveredBy
<1>8. CASE D!Grant(t) /\ UNCHANGED D!held /\ kk \in wlocks[t]
  <2>1. pc'[t] = "lock" /\ pos'[t] = n + 1 /\ wlocks' = wlocks /\ rlocks' = rlocks
    BY <1>2, <1>8 DEF D!Grant, D!held, D_Types
  <2> QED
    BY <1>1, <1>2, <1>4, <1>5, <1>8, <2>1, CoveredBy
<1> QED
  <2>1. D!Tasks(t)[pos[t]].key = kk
    BY <1>2
  <2>2. /\ \A K : rlocks' = [rlocks EXCEPT ![t] = @ \ K] => rlocks'[t] = rlocks[t] \ K
        /\ \A K : wlocks' = [wlocks EXCEPT ![t] = @ \cup K] => wlocks'[t] = wlocks[t] \cup K
    BY DEF D_Types
  <2> QED
    BY <1>6, <1>7, <1>8, <2>1, <2>2 DEF D!lockWrite

LEMMA D_CoverStep ==
    ASSUME D_Types, D_Dispatched, D_LocksCover, [D!Next]_D!vars
    PROVE  D_LocksCover'
<1> USE DEF D!dispatch, D!held, D!Goto
<1> SUFFICES ASSUME NEW u \in Thread, NEW k \in Key
             PROVE  D_Covered(u, k)'
  BY DEF D_LocksCover
<1>1. pre' = pre /\ D_Covered(u, k)
  BY D_PreKept DEF D_LocksCover
<1>2. CASE D!Quit \/ D!Joined \/ UNCHANGED D!vars
  BY <1>1, <1>2, D_CoveredFrame DEF D!Quit, D!Joined, D!vars
<1>3. ASSUME NEW t \in Thread, D!worker(t)
      PROVE  D_Covered(u, k)'
  <2>1. ASSUME u # t
        PROVE  /\ pc'[u] = pc[u] /\ tx_pos'[u] = tx_pos[u] /\ pos'[u] = pos[u]
               /\ rlocks'[u] = rlocks[u] /\ wlocks'[u] = wlocks[u]
    BY <1>3, <2>1 DEF D_Types, D!worker, D!leave, D!acquireGiant, D!retry, D!lockRead,
       D!lockWrite,
       D!Grant, D!Refuse, D!locked, D!aborted, D!execute, D!commit, D!readUnlock,
          D!writeUnlock, D!finish
  <2>2. CASE u # t
    BY <1>1, <2>1, <2>2, D_CoveredFrame
  <2>3. CASE u = t /\ D!lockRead(t)
    BY <2>3, LockReadCovers
  <2>4. CASE u = t /\ D!lockWrite(t)
    BY <2>4, LockWriteCovers
  <2>5. CASE u = t /\ (D!leave(t) \/ D!acquireGiant(t))
    <3>1. pc[u] = "point" /\ pc'[u] \in {"point", "retry", "done"} /\ UNCHANGED D!held
      BY <2>5 DEF D!leave, D!acquireGiant, D_Types
    <3> QED
      BY <1>1, <3>1 DEF D_Covered
  <2>6. CASE u = t /\ D!retry(t)
    <3>1. pc[u] = "retry" /\ UNCHANGED D!held /\ tx_pos' = tx_pos /\ tx_pos[u] \in D!TxId
      BY <2>6 DEF D!retry, D_Dispatched, Locker
    <3>2. pc'[u] = "done" \/ (pc'[u] = "lock" /\ pos'[u] = 1)
      BY <2>6 DEF D!retry, D_Types
    <3>3. ~Reads(tx_pos[u], 1, k) /\ ~D_Writes(tx_pos[u], 1, k)
      BY <3>1, D_TaskEnds
    <3>4. k \notin rlocks[u] /\ k \notin wlocks[u]
      BY <1>1, <3>1 DEF D_Covered
    <3>5. CASE pc'[u] = "done"
      BY <3>1, <3>4, <3>5 DEF D_Covered
    <3>6. CASE pc'[u] = "lock" /\ pos'[u] = 1
      BY <1>1, <3>1, <3>3, <3>4, <3>6, CoveredBy
    <3> QED
      BY <3>2, <3>5, <3>6
  <2>7. CASE u = t /\ D!locked(t)
    <3> DEFINE i == tx_pos[u]
    <3>1. pc[u] = "lock" /\ UNCHANGED D!held /\ tx_pos' = tx_pos /\ i \in D!TxId
      BY <2>7 DEF D!locked, D_Dispatched, Locker
    <3>2. pc'[u] = "exec" /\ pos[u] > Len(pre[i]) /\ pos[u] \in Nat
      BY <2>7 DEF D!locked, D_Types, D!Tasks
    <3>3. /\ Reads(i, pos[u], k) => k \in rlocks[u] \cup wlocks[u]
          /\ D_Writes(i, pos[u], k) <=> k \in wlocks[u]
      BY <1>1, <3>1 DEF D_Covered, Locked
    <3>4. /\ Reads(i, pos[u], k) <=> Reads(i, Len(pre[i]) + 1, k)
          /\ D_Writes(i, pos[u], k) <=> D_Writes(i, Len(pre[i]) + 1, k)
      <4>1. Len(pre[i]) + 1 \in Nat /\ Len(pre[i]) + 1 > Len(pre[i])
        BY <3>1, D_TasksTyped
      <4> QED
        BY <3>1, <3>2, <4>1, D_TaskEnds
    <3> QED
      BY <1>1, <3>1, <3>2, <3>3, <3>4, CoveredBy
  <2>8. CASE u = t /\ (D!readUnlock(t) \/ D!writeUnlock(t))
    <3>1. pc'[u] \in {"abort", "unlock"}
      BY <2>8 DEF D!readUnlock, D!writeUnlock
    <3> QED
      BY <3>1 DEF D_Covered
  <2>9. CASE u = t /\ (D!aborted(t) \/ D!finish(t))
    <3>1. /\ pc'[u] \in {"retry", "point"} /\ rlocks'[u] = {} /\ wlocks'[u] = {}
      BY <2>9 DEF D!aborted, D!finish, D_Types
    <3> QED
      BY <3>1 DEF D_Covered
  <2>10. CASE u = t /\ D!execute(t)
    <3>1. /\ pc[u] = "exec" /\ pc'[u] = pc[u] /\ tx_pos' = tx_pos /\ UNCHANGED D!held
      BY <2>10 DEF D!execute
    <3> QED
      BY <1>1, <3>1, D_CoveredFrame
  <2>11. CASE u = t /\ D!commit(t)
    <3>1. pc'[u] = "unlock"
      BY <2>11 DEF D!commit, D_Types
    <3> QED
      BY <3>1 DEF D_Covered
  <2> QED
    BY <1>3, <2>2, <2>3, <2>4, <2>5, <2>6, <2>7, <2>8, <2>9, <2>10, <2>11 DEF D!worker
<1> QED
  BY <1>2, <1>3 DEF D!Next

-----------------------------------------------------------------------------
(* What records hold *)

LEMMA WhileWrittenBy ==
    ASSUME pre' = pre, NEW t, NEW k, NEW i, NEW n, tx_pos'[t] = i, pos'[t] = n,
           value'[k] = IF D_Writes(i, n, k) THEN i ELSE D!LastWriter(k, i - 1)
    PROVE  D_WhileWritten(t, k)'
BY DEF D_WhileWritten, D_Writes, D!LastWriter, D!Writers

LEMMA OtherTimesBy ==
    ASSUME pre' = pre, NEW k, NEW i, tx_counter' = i, value'[k] = D!LastWriter(k, i - 1)
    PROVE  OtherTimes(k)'
BY DEF OtherTimes, D!LastWriter, D!Writers

\* Steps that touch no record, and no worker that runs a transaction.
Steady ==
    /\ pre' = pre /\ tx_counter' = tx_counter /\ value' = value
    /\ \A t \in Thread :
          /\ pc'[t] = "exec" <=> pc[t] = "exec"
          /\ pc[t] = "exec" =>
                /\ tx_pos'[t] = tx_pos[t] /\ pos'[t] = pos[t]
                /\ rlocks'[t] = rlocks[t] /\ wlocks'[t] = wlocks[t]

LEMMA SteadySteps ==
    ASSUME D_Types, [D!Next]_D!vars
    PROVE  \/ Steady
           \/ \E t \in Thread : D!locked(t) \/ D!execute(t) \/ D!commit(t)
<1> USE DEF D!dispatch, D!held, D!records, D!Goto
<1>1. CASE D!Quit \/ D!Joined \/ UNCHANGED D!vars
  BY <1>1 DEF D!Quit, D!Joined, D!vars, Steady
<1>2. ASSUME NEW t \in Thread,
             \/ D!leave(t) \/ D!acquireGiant(t) \/ D!retry(t) \/ D!aborted(t) \/ D!finish(t)
             \/ D!lockRead(t) \/ D!lockWrite(t) \/ D!readUnlock(t) \/ D!writeUnlock(t)
      PROVE  Steady
  <2>1. pre' = pre /\ tx_counter' = tx_counter /\ value' = value
    BY <1>2 DEF D!leave, D!acquireGiant, D!retry, D!aborted, D!finish, D!lockRead,
       D!lockWrite, D!Grant,
                D!Refuse, D!readUnlock, D!writeUnlock
  <2>2. pc[t] # "exec" /\ pc'[t] # "exec"
    BY <1>2 DEF D!leave, D!acquireGiant, D!retry, D!aborted, D!finish, D!lockRead,
       D!lockWrite,
                D!Locking, D!Grant, D!Refuse, D!readUnlock, D!writeUnlock, D_Types
  <2>3. \A u \in Thread : u # t =>
            /\ pc'[u] = pc[u] /\ tx_pos'[u] = tx_pos[u] /\ pos'[u] = pos[u]
            /\ rlocks'[u] = rlocks[u] /\ wlocks'[u] = wlocks[u]
    <3> SUFFICES ASSUME NEW u \in Thread, u # t
                 PROVE  /\ pc'[u] = pc[u] /\ tx_pos'[u] = tx_pos[u] /\ pos'[u] = pos[u]
                        /\ rlocks'[u] = rlocks[u] /\ wlocks'[u] = wlocks[u]
      OBVIOUS
    <3> QED
      BY <1>2 DEF D!leave, D!acquireGiant, D!retry, D!aborted, D!finish, D!lockRead,
         D!lockWrite,
                  D!Grant, D!Refuse, D!readUnlock, D!writeUnlock, D_Types
  <2> QED
    BY <2>1, <2>2, <2>3 DEF Steady
<1> QED
  BY <1>1, <1>2 DEF D!Next, D!worker

\* A worker that has all its locks has one on every record it reads or writes.
LEMMA AllLocked ==
    ASSUME D_Types, D_Dispatched, D_LocksCover, NEW t \in Thread, NEW k \in Key,
           pc[t] = "exec" \/ (pc[t] = "lock" /\ pos[t] > Len(D!Tasks(t)))
    PROVE  /\ tx_pos[t] \in D!TxId /\ tx_pos[t] \in Nat /\ pos[t] \in Nat
           /\ D_WritesTo(tx_pos[t], k) <=> k \in wlocks[t]
           /\ Reads(tx_pos[t], Len(D!Tasks(t)) + 1, k) => k \in rlocks[t] \cup wlocks[t]
<1>1. tx_pos[t] \in D!TxId /\ tx_pos[t] \in Nat /\ pos[t] \in Nat
  BY DEF D_Dispatched, Locker, Runner, D_Types
<1>2. Len(D!Tasks(t)) \in Nat /\ D!Tasks(t) = pre[tx_pos[t]]
  BY <1>1, D_TasksTyped DEF D!Tasks
<1>3. PICK n \in Nat : n > Len(D!Tasks(t)) /\ n = Locked(t)
  BY <1>1, <1>2 DEF Locked
<1>4. /\ Reads(tx_pos[t], n, k) => k \in rlocks[t] \cup wlocks[t]
      /\ D_Writes(tx_pos[t], n, k) <=> k \in wlocks[t]
  BY <1>3 DEF D_LocksCover, D_Covered
<1> QED
  BY <1>1, <1>2, <1>3, <1>4, D_TaskEnds

LEMMA NoneAfterStep ==
    ASSUME D_Base, NoneAfter, [D!Next]_D!vars
    PROVE  NoneAfter'
<1> USE DEF D_Base, D!dispatch, D!held, D!Goto
<1>1. pre' = pre
  BY D_PreKept
<1>2. CASE Steady
  BY <1>1, <1>2 DEF Steady, NoneAfter, D_WritesTo
<1>3. ASSUME NEW t \in Thread, D!locked(t)
      PROVE  NoneAfter'
  <2>1. /\ pc[t] = "lock" /\ pos[t] > Len(D!Tasks(t)) /\ tx_pos[t] = tx_counter
        /\ tx_counter' = tx_counter + 1 /\ tx_counter \in Nat
        /\ tx_pos' = tx_pos /\ UNCHANGED D!held
        /\ \A u \in Thread : u # t => pc'[u] = pc[u]
    BY <1>3 DEF D!locked, D_Dispatched, Locker, D_Types
  <2> SUFFICES ASSUME NEW u \in Thread, pc'[u] = "exec",
                      NEW k \in rlocks[u] \cup wlocks[u], NEW j \in D!TxId,
                      tx_pos[u] < j, j < tx_counter + 1, D_WritesTo(j, k)
               PROVE  FALSE
    BY <1>1, <2>1 DEF NoneAfter, D_WritesTo
  <2>2. k \in Key /\ j \in Nat
    BY LockManagerAssumption DEF D_Types, D!TxId
  <2>3. u # t
    BY <2>1, <2>2
  <2>4. j = tx_counter
    BY <2>1, <2>2, <2>3 DEF NoneAfter
  <2>5. k \in wlocks[t]
    BY <2>1, <2>2, <2>4, AllLocked
  <2> QED
    BY <2>3, <2>5, D_WriterExcludes
<1>4. ASSUME NEW t \in Thread, D!execute(t) \/ D!commit(t)
      PROVE  NoneAfter'
  <2>1. /\ tx_pos' = tx_pos /\ tx_counter' = tx_counter /\ UNCHANGED D!held
        /\ \A u \in Thread : pc'[u] = "exec" => pc[u] = "exec"
    BY <1>4 DEF D!execute, D!commit, D_Types
  <2> QED
    BY <1>1, <2>1 DEF NoneAfter, D_WritesTo
<1> QED
  BY <1>2, <1>3, <1>4, SteadySteps

LEMMA HoldingSteady ==
    ASSUME D_Types, D_Holding, Steady
    PROVE  D_Holding'
<1> SUFFICES ASSUME NEW k \in Key
             PROVE  /\ \A t \in Thread : D_MayWrite(t, k)' => D_WhileWritten(t, k)'
                    /\ (\A t \in Thread : ~D_MayWrite(t, k)') => OtherTimes(k)'
  BY DEF D_Holding
<1>1. \A t \in Thread : D_MayWrite(t, k)' <=> D_MayWrite(t, k)
  BY DEF D_MayWrite, Steady
<1>2. ASSUME NEW t \in Thread, D_MayWrite(t, k)
      PROVE  D_WhileWritten(t, k)'
  <2>1. D_WhileWritten(t, k) /\ tx_pos'[t] = tx_pos[t] /\ pos'[t] = pos[t]
    BY <1>2 DEF D_MayWrite, Steady, D_Holding
  <2> QED
    BY <2>1, WhileWrittenBy DEF D_WhileWritten, Steady
<1>3. ASSUME OtherTimes(k)
      PROVE  OtherTimes(k)'
  BY <1>3, OtherTimesBy DEF OtherTimes, Steady
<1> QED
  BY <1>1, <1>2, <1>3 DEF D_Holding

\* A worker begins to run: what it may write, the last writer before it wrote.
LEMMA HoldingLocked ==
    ASSUME D_Base, NoneAfter, D_Holding, [D!Next]_D!vars, NEW t \in Thread, D!locked(t)
    PROVE  D_Holding'
<1> USE DEF D_Base, D!dispatch, D!held, D!records, D!Goto
<1>1. pre' = pre
  BY D_PreKept
<1>2. /\ pc[t] = "lock" /\ pos[t] > Len(D!Tasks(t)) /\ tx_pos[t] = tx_counter
      /\ tx_counter' = tx_counter + 1 /\ tx_counter \in Nat /\ tx_pos[t] \in D!TxId
      /\ tx_pos' = tx_pos /\ wlocks' = wlocks /\ value' = value
      /\ pc'[t] = "exec" /\ pos'[t] = 1
      /\ \A u \in Thread : u # t => pc'[u] = pc[u] /\ pos'[u] = pos[u]
  BY DEF D!locked, D_Dispatched, Locker, D_Types
<1> SUFFICES ASSUME NEW k \in Key
             PROVE  /\ \A u \in Thread : D_MayWrite(u, k)' => D_WhileWritten(u, k)'
                    /\ (\A u \in Thread : ~D_MayWrite(u, k)') => OtherTimes(k)'
  BY DEF D_Holding
<1>3. ASSUME NEW u \in Thread, u # t, D_MayWrite(u, k)'
      PROVE  D_WhileWritten(u, k)'
  <2>1. D_MayWrite(u, k)
    BY <1>2, <1>3 DEF D_MayWrite
  <2>2. D_WhileWritten(u, k) /\ tx_pos'[u] = tx_pos[u] /\ pos'[u] = pos[u]
    BY <1>2, <1>3, <2>1 DEF D_Holding
  <2> QED
    BY <1>1, <1>2, <2>2, WhileWrittenBy DEF D_WhileWritten
<1>4. ASSUME D_MayWrite(t, k)'
      PROVE  D_WhileWritten(t, k)'
  <2>1. k \in wlocks[t]
    BY <1>2, <1>4 DEF D_MayWrite
  <2>2. \A u \in Thread : ~D_MayWrite(u, k)
    BY <1>2, <2>1, D_WriterExcludes DEF D_MayWrite
  <2>3. value[k] = D!LastWriter(k, tx_pos[t] - 1)
    BY <1>2, <2>2 DEF D_Holding, OtherTimes
  <2>4. ~D_Writes(tx_pos[t], 1, k)
    BY <1>2, D_TaskEnds
  <2> QED
    BY <1>1, <1>2, <2>3, <2>4, WhileWrittenBy
<1>5. ASSUME \A u \in Thread : ~D_MayWrite(u, k)'
      PROVE  OtherTimes(k)'
  <2>1. k \notin wlocks[t]
    BY <1>2, <1>5 DEF D_MayWrite
  <2>2. \A u \in Thread : ~D_MayWrite(u, k)
    BY <1>2, <1>5 DEF D_MayWrite
  <2>3. value[k] = D!LastWriter(k, tx_counter - 1)
    BY <2>2 DEF D_Holding, OtherTimes
  <2>4. ~D_WritesTo(tx_counter, k)
    BY <1>2, <2>1, AllLocked
  <2>5. \A m \in D!TxId : tx_counter - 1 < m /\ m <= tx_counter => m = tx_counter
    BY <1>2, LockManagerAssumption DEF D!TxId
  <2>6. D!LastWriter(k, tx_counter - 1) = D!LastWriter(k, tx_counter)
    BY <1>2, <2>4, <2>5, LastSame
  <2>7. tx_counter + 1 - 1 = tx_counter
    BY <1>2
  <2> QED
    BY <1>1, <1>2, <2>3, <2>6, <2>7, OtherTimesBy
<1> QED
  BY <1>3, <1>4, <1>5

\* Who executes the task n has a lock on its record, for a write a write lock.
LEMMA D_TaskLocked ==
    ASSUME D_Base, NEW t \in Thread, pc[t] = "exec", pos[t] <= Len(D!Tasks(t))
    PROVE  LET i == tx_pos[t] k == D!Tasks(t)[pos[t]].key op == D!Tasks(t)[pos[t]].op
           IN /\ i \in D!TxId /\ D!Tasks(t) = pre[i] /\ pos[t] \in 1 .. Len(pre[i])
              /\ k \in Key /\ op \in {"READ", "WRITE"}
              /\ op = "WRITE" => k \in wlocks[t] /\ D_WritesTo(i, k)
              /\ op = "READ" => k \in rlocks[t] \cup wlocks[t]
<1> DEFINE i == tx_pos[t]
           n == pos[t]
           k == D!Tasks(t)[n].key
           op == D!Tasks(t)[n].op
<1>1. /\ i \in D!TxId /\ D!Tasks(t) = pre[i] /\ n \in 1 .. Len(pre[i])
      /\ k \in Key /\ op \in {"READ", "WRITE"}
  BY D_TaskAt DEF D_Base, Runner
<1>2. n \in DOMAIN pre[i] /\ n < Len(pre[i]) + 1
  BY <1>1, D_TasksTyped DEF D_Base
<1>3. pre[i][n] = [op |-> op, key |-> k]
  <2>1. pre[i][n] = [op |-> pre[i][n].op, key |-> pre[i][n].key]
    BY <1>1, D_TasksTyped DEF D_Base
  <2> QED
    BY ONLY <1>1, <2>1
<1>4. /\ D_WritesTo(i, k) => k \in wlocks[t]
      /\ Reads(i, Len(pre[i]) + 1, k) => k \in rlocks[t] \cup wlocks[t]
  BY <1>1, AllLocked DEF D_Base
<1>5. CASE op = "WRITE"
  BY <1>1, <1>2, <1>3, <1>4, <1>5 DEF D_WritesTo
<1>6. CASE op = "READ"
  BY <1>1, <1>2, <1>3, <1>4, <1>6 DEF Reads
<1> QED
  BY <1>1, <1>5, <1>6

LEMMA HoldingExecute ==
    ASSUME D_Base, NoneAfter, D_Holding, [D!Next]_D!vars, NEW t \in Thread, D!execute(t)
    PROVE  D_Holding'
<1> USE DEF D_Base, D!dispatch, D!held, D!records
<1> DEFINE i == tx_pos[t]
           n == pos[t]
           kk == D!Tasks(t)[n].key
           op == D!Tasks(t)[n].op
<1>1. /\ pre' = pre /\ pc[t] = "exec" /\ n <= Len(D!Tasks(t))
      /\ tx_pos' = tx_pos /\ pc' = pc /\ wlocks' = wlocks /\ tx_counter' = tx_counter
      /\ pos'[t] = n + 1 /\ \A u \in Thread : u # t => pos'[u] = pos[u]
  BY D_PreKept DEF D!execute, D_Types
<1>2. /\ i \in D!TxId /\ D!Tasks(t) = pre[i] /\ n \in 1 .. Len(pre[i])
      /\ kk \in Key /\ op \in {"READ", "WRITE"} /\ op = "WRITE" => kk \in wlocks[t]
  BY <1>1, D_TaskLocked
<1>3. \A k \in Key : value'[k] = IF op = "WRITE" /\ k = kk THEN i ELSE value[k]
  BY <1>2 DEF D!execute, D_Types
<1>4. \A k : D_Writes(i, n + 1, k) <=> D_Writes(i, n, k) \/ (op = "WRITE" /\ k = kk)
  BY <1>2, D_TaskNext
<1> HIDE DEF kk, op
<1> SUFFICES ASSUME NEW k \in Key
             PROVE  /\ \A u \in Thread : D_MayWrite(u, k)' => D_WhileWritten(u, k)'
                    /\ (\A u \in Thread : ~D_MayWrite(u, k)') => OtherTimes(k)'
  BY DEF D_Holding
<1>5. \A u \in Thread : D_MayWrite(u, k)' <=> D_MayWrite(u, k)
  BY <1>1 DEF D_MayWrite
<1>6. ASSUME NEW u \in Thread, u # t, D_MayWrite(u, k)
      PROVE  D_WhileWritten(u, k)'
  <2>1. op = "WRITE" => k # kk
    BY <1>2, <1>6, D_WriterExcludes DEF D_MayWrite
  <2>2. value'[k] = value[k]
    BY <1>3, <2>1
  <2>3. D_WhileWritten(u, k) /\ tx_pos'[u] = tx_pos[u] /\ pos'[u] = pos[u]
    BY <1>1, <1>6 DEF D_Holding
  <2> QED
    BY <1>1, <2>2, <2>3, WhileWrittenBy DEF D_WhileWritten
<1>7. ASSUME D_MayWrite(t, k)
      PROVE  D_WhileWritten(t, k)'
  <2>1. value[k] = IF D_Writes(i, n, k) THEN i ELSE D!LastWriter(k, i - 1)
    BY <1>7 DEF D_Holding, D_WhileWritten
  <2>2. value'[k] = IF D_Writes(i, n + 1, k) THEN i ELSE D!LastWriter(k, i - 1)
    BY <1>3, <1>4, <2>1
  <2> QED
    BY <1>1, <2>2, WhileWrittenBy
<1>8. ASSUME \A u \in Thread : ~D_MayWrite(u, k)
      PROVE  OtherTimes(k)'
  <2>1. op = "WRITE" => k # kk
    BY <1>1, <1>2, <1>8 DEF D_MayWrite
  <2>2. value'[k] = value[k] /\ OtherTimes(k)
    BY <1>3, <1>8, <2>1 DEF D_Holding
  <2> QED
    BY <1>1, <2>2, OtherTimesBy DEF OtherTimes
<1> QED
  BY <1>5, <1>6, <1>7, <1>8

\* A worker has run: what it wrote is the last that was written so far.
LEMMA HoldingCommit ==
    ASSUME D_Base, NoneAfter, D_Holding, [D!Next]_D!vars, NEW t \in Thread, D!commit(t)
    PROVE  D_Holding'
<1> USE DEF D_Base, D!dispatch, D!held, D!records, D!Goto
<1>1. /\ pre' = pre /\ pc[t] = "exec" /\ pos[t] > Len(D!Tasks(t)) /\ value' = value
      /\ tx_pos' = tx_pos /\ wlocks' = wlocks /\ tx_counter' = tx_counter /\ pos' = pos
      /\ pc'[t] # "exec" /\ \A u \in Thread : u # t => pc'[u] = pc[u]
  BY D_PreKept DEF D!commit, D_Types
<1>2. tx_counter \in Nat /\ tx_pos[t] < tx_counter
  BY <1>1 DEF D_Types, D_Dispatched, Runner
<1> SUFFICES ASSUME NEW k \in Key
             PROVE  /\ \A u \in Thread : D_MayWrite(u, k)' => D_WhileWritten(u, k)'
                    /\ (\A u \in Thread : ~D_MayWrite(u, k)') => OtherTimes(k)'
  BY DEF D_Holding
<1>3. \A u \in Thread : D_MayWrite(u, k)' <=> D_MayWrite(u, k) /\ u # t
  BY <1>1 DEF D_MayWrite
<1>4. ASSUME NEW u \in Thread, D_MayWrite(u, k)
      PROVE  D_WhileWritten(u, k)'
  <2>1. D_WhileWritten(u, k)
    BY <1>4 DEF D_Holding
  <2> QED
    BY <1>1, <2>1, WhileWrittenBy DEF D_WhileWritten
<1>5. ASSUME \A u \in Thread : ~D_MayWrite(u, k)'
      PROVE  OtherTimes(k)'
  <2>1. CASE k \in wlocks[t]
    <3>1. D_MayWrite(t, k) /\ D_WhileWritten(t, k)
      BY <1>1, <2>1 DEF D_MayWrite, D_Holding
    <3>2. /\ tx_pos[t] \in D!TxId /\ tx_pos[t] \in Nat /\ pos[t] \in Nat
          /\ D_WritesTo(tx_pos[t], k)
      BY <1>1, <2>1, AllLocked
    <3>3. D_Writes(tx_pos[t], pos[t], k)
      BY <1>1, <3>2, D_TaskEnds DEF D!Tasks
    <3>4. value[k] = tx_pos[t]
      BY <3>1, <3>3 DEF D_WhileWritten
    <3>5. \A m \in D!TxId : tx_pos[t] < m /\ m < tx_counter => ~D_WritesTo(m, k)
      BY <1>1, <2>1 DEF NoneAfter
    <3>6. \A m \in D!TxId : m <= tx_counter - 1 => m < tx_counter
      BY <1>2, LockManagerAssumption DEF D!TxId
    <3>7. tx_counter - 1 \in Nat /\ tx_pos[t] <= tx_counter - 1
      BY <1>2, <3>2
    <3>8. D!LastWriter(k, tx_counter - 1) = tx_pos[t]
      BY <3>2, <3>5, <3>6, <3>7, D_LastIs
    <3> QED
      BY <1>1, <3>4, <3>8, OtherTimesBy
  <2>2. CASE k \notin wlocks[t]
    <3>1. \A u \in Thread : ~D_MayWrite(u, k)
      BY <1>3, <1>5, <2>2 DEF D_MayWrite
    <3>2. OtherTimes(k)
      BY <3>1 DEF D_Holding
    <3> QED
      BY <1>1, <3>2, OtherTimesBy DEF OtherTimes
  <2> QED
    BY <2>1, <2>2
<1> QED
  BY <1>3, <1>4, <1>5

LEMMA D_HoldingStep ==
    ASSUME D_Base, NoneAfter, D_Holding, [D!Next]_D!vars
    PROVE  D_Holding'
BY SteadySteps, HoldingSteady, HoldingLocked, HoldingExecute, HoldingCommit DEF D_Base

-----------------------------------------------------------------------------
(* What transactions read, and in which order records are written *)

\* What a worker finds in a record it has locked.
LEMMA D_FindsDecided ==
    ASSUME D_Base, NoneAfter, D_Holding, NEW t \in Thread, pc[t] = "exec",
           NEW k \in rlocks[t] \cup wlocks[t]
    PROVE  value[k] = D!LastWriter(k, tx_pos[t]) \/ value[k] = D!LastWriter(k,
       tx_pos[t] - 1)
<1> USE DEF D_Base
<1> DEFINE i == tx_pos[t]
<1>1. k \in Key /\ i \in D!TxId /\ i \in Nat /\ tx_counter \in Nat /\ i < tx_counter
  BY DEF D_Types, D_Dispatched, Runner
<1>2. \A m \in D!TxId : i < m /\ m < tx_counter => ~D_WritesTo(m, k)
  BY DEF NoneAfter
<1>3. \A m \in D!TxId : m \in Nat
  BY LockManagerAssumption DEF D!TxId
<1>4. CASE k \in wlocks[t]
  <2>1. value[k] = IF D_Writes(i, pos[t], k) THEN i ELSE D!LastWriter(k, i - 1)
    BY <1>1, <1>4 DEF D_Holding, D_MayWrite, D_WhileWritten
  <2>2. D_WritesTo(i, k)
    BY <1>1, <1>4, AllLocked
  <2>3. D!LastWriter(k, i) = i
    <3>1. \A m \in D!TxId : ~(i < m /\ m <= i)
      BY <1>1, <1>3
    <3> QED
      BY <1>1, <2>2, <3>1, D_LastIs
  <2> QED
    BY <2>1, <2>3
<1>5. CASE k \in rlocks[t]
  <2>1. \A u \in Thread : ~D_MayWrite(u, k)
    <3>1. \A u \in Thread : k \in wlocks[u] => FALSE
      BY <1>5, D_CountersTyped, WriterAlone DEF D_Counted
    <3> QED
      BY <3>1 DEF D_MayWrite
  <2>2. value[k] = D!LastWriter(k, tx_counter - 1)
    BY <1>1, <2>1 DEF D_Holding, OtherTimes
  <2>3. \A m \in D!TxId : m <= tx_counter - 1 => m < tx_counter
    BY <1>1, <1>3
  <2>4. i \in Int /\ tx_counter - 1 \in Int /\ i <= tx_counter - 1
    BY <1>1
  <2>5. D!LastWriter(k, i) = D!LastWriter(k, tx_counter - 1)
    BY <1>2, <2>3, <2>4, LastSame
  <2> QED
    BY <2>2, <2>5
<1> QED
  BY <1>4, <1>5

LEMMA DecidedBy ==
    ASSUME pre' = pre, NEW t, NEW i, NEW r, tx_pos'[t] = i, D_Decided(i, r)
    PROVE  D_Decided(tx_pos[t], r)'
BY DEF D_Decided, D!LastWriter, D!Writers

LEMMA D_DecidedKept ==
    ASSUME pre' = pre, NEW i, NEW r, D_Decided(i, r)
    PROVE  D_Decided(i, r)'
BY DEF D_Decided, D!LastWriter, D!Writers

LEMMA D_ReadsDecidedStep ==
    ASSUME D_Base, NoneAfter, D_Holding, D_ReadsDecided, [D!Next]_D!vars
    PROVE  D_ReadsDecided'
<1> USE DEF D_Base, D!dispatch, D!held, D!records, D!history, D!Goto, Runner
<1>1. pre' = pre
  BY D_PreKept
\* It suffices that the worker keeps its transaction and reads what is decided.
<1>2. ASSUME NEW t \in Thread,
             \A r \in reads'[t] :
                 Runner(t)' /\ tx_pos'[t] = tx_pos[t] /\ D_Decided(tx_pos[t], r)
      PROVE  \A r \in reads'[t] : Runner(t)' /\ D_Decided(tx_pos[t], r)'
  BY <1>1, <1>2, DecidedBy
<1>3. ASSUME \A t \in Thread : \A r \in reads'[t] :
                 Runner(t)' /\ tx_pos'[t] = tx_pos[t] /\ D_Decided(tx_pos[t], r),
             \A a \in committed' : \A r \in a.reads : D_Decided(a.id, r)
      PROVE  D_ReadsDecided'
  <2>1. ASSUME NEW a \in committed', NEW r \in a.reads
        PROVE  D_Decided(a.id, r)'
    BY <1>1, <1>3, <2>1, D_DecidedKept
  <2>2. \A t \in Thread : \A r \in reads'[t] : Runner(t)' /\ D_Decided(tx_pos[t], r)'
    BY <1>2, <1>3
  <2> QED
    BY <2>1, <2>2 DEF D_ReadsDecided
<1>4. CASE D!Quit \/ D!Joined \/ UNCHANGED D!vars
  BY <1>3, <1>4 DEF D!Quit, D!Joined, D!vars, D_ReadsDecided
<1>5. ASSUME NEW t \in Thread, D!worker(t)
      PROVE  D_ReadsDecided'
  <2>1. ASSUME NEW u \in Thread, u # t
        PROVE  pc'[u] = pc[u] /\ tx_pos'[u] = tx_pos[u] /\ reads'[u] = reads[u]
    BY <1>5, <2>1 DEF D_Types, D!worker, D!leave, D!acquireGiant, D!retry, D!lockRead,
       D!lockWrite,
       D!Grant, D!Refuse, D!locked, D!aborted, D!execute, D!commit, D!readUnlock,
          D!writeUnlock, D!finish
  <2>2. \A u \in Thread : u # t => \A r \in reads'[u] :
            Runner(u)' /\ tx_pos'[u] = tx_pos[u] /\ D_Decided(tx_pos[u], r)
    BY <2>1 DEF D_ReadsDecided
  <2>3. CASE \/ D!leave(t) \/ D!acquireGiant(t) \/ D!retry(t) \/ D!lockRead(t) \/ D!lockWrite(t)
             \/ D!locked(t) \/ D!aborted(t)
    <3>1. reads' = reads /\ committed' = committed /\ ~Runner(t)
      BY <2>3 DEF D!leave, D!acquireGiant, D!retry, D!lockRead, D!lockWrite, D!Locking,
         D!Grant,
                  D!Refuse, D!locked, D!aborted
    <3>2. reads'[t] = {}
      BY <3>1 DEF D_ReadsDecided, D_Types
    <3> QED
      BY <1>3, <2>2, <3>1, <3>2 DEF D_ReadsDecided
  <2>4. CASE D!readUnlock(t) \/ D!writeUnlock(t)
    <3>1. reads' = reads /\ committed' = committed /\ pc' = pc /\ tx_pos' = tx_pos
      BY <2>4 DEF D!readUnlock, D!writeUnlock
    <3> QED
      BY <1>3, <3>1 DEF D_ReadsDecided
  <2>5. CASE D!execute(t)
    <3> DEFINE k == D!Tasks(t)[pos[t]].key
               new == [key |-> k, ver |-> value[k]]
    <3>1. /\ pc[t] = "exec" /\ pos[t] <= Len(D!Tasks(t))
          /\ pc' = pc /\ tx_pos' = tx_pos /\ committed' = committed
      BY <2>5 DEF D!execute
    <3>2. reads'[t] = reads[t] \/
              (reads'[t] = reads[t] \cup {new} /\ D!Tasks(t)[pos[t]].op = "READ")
      BY <2>5 DEF D!execute, D_Types
    <3>3. ASSUME D!Tasks(t)[pos[t]].op = "READ"
          PROVE  D_Decided(tx_pos[t], new)
      <4>1. k \in rlocks[t] \cup wlocks[t]
        BY <3>1, <3>3, D_TaskLocked
      <4>2. new.key = k /\ new.ver = value[k]
        OBVIOUS
      <4> HIDE DEF k, new
      <4> QED
        BY <3>1, <4>1, <4>2, D_FindsDecided DEF D_Decided
    <3> HIDE DEF k, new
    <3>4. \A r \in reads'[t] : Runner(t)' /\ tx_pos'[t] = tx_pos[t] /\ D_Decided(tx_pos[t], r)
      BY <3>1, <3>2, <3>3 DEF D_ReadsDecided
    <3> QED
      BY <1>3, <2>2, <3>1, <3>4 DEF D_ReadsDecided
  <2>6. CASE D!commit(t)
    <3> DEFINE new == [id |-> tx_pos[t], reads |-> reads[t]]
    <3>1. /\ reads' = reads /\ committed' = committed \cup {new}
          /\ pc'[t] = "unlock" /\ tx_pos' = tx_pos
      BY <2>6 DEF D!commit, D_Types
    <3>2. new.id = tx_pos[t] /\ new.reads = reads[t]
      OBVIOUS
    <3> HIDE DEF new
    <3>3. \A r \in reads'[t] : Runner(t)' /\ tx_pos'[t] = tx_pos[t] /\ D_Decided(tx_pos[t], r)
      BY <3>1 DEF D_ReadsDecided
    <3>4. \A a \in committed' : \A r \in a.reads : D_Decided(a.id, r)
      BY <3>1, <3>2 DEF D_ReadsDecided
    <3> QED
      BY <1>3, <2>2, <3>3, <3>4
  <2>7. CASE D!finish(t)
    <3>1. reads'[t] = {} /\ committed' = committed
      BY <2>7 DEF D!finish, D_Types
    <3> QED
      BY <1>3, <2>2, <3>1 DEF D_ReadsDecided
  <2> QED
    BY <1>5, <2>3, <2>4, <2>5, <2>6, <2>7 DEF D!worker
<1> QED
  BY <1>4, <1>5 DEF D!Next

\* A transaction writes a record after all that wrote it before.
LEMMA D_OrderStep ==
    ASSUME D_Base, NoneAfter, D_OrderIncreasing, [D!Next]_D!vars
    PROVE  D_OrderIncreasing'
<1> USE DEF D_Base, D!dispatch, D!held, D!records, D!Goto
<1>1. pre' = pre
  BY D_PreKept
<1>2. \A j \in D!TxId : j \in Nat
  BY LockManagerAssumption DEF D!TxId
<1>3. ASSUME order' = order, tx_counter' = tx_counter \/ tx_counter' = tx_counter + 1
      PROVE  D_OrderIncreasing'
  <2> SUFFICES ASSUME NEW k \in Key
               PROVE  /\ \A i \in DOMAIN order[k] :
                            order[k][i] < tx_counter' /\ D_WritesTo(order[k][i], k)'
                      /\ \A i, j \in DOMAIN order[k] : i < j => order[k][i] < order[k][j]
    BY <1>3 DEF D_OrderIncreasing, D_WritesTo
  <2>1. ASSUME NEW i \in DOMAIN order[k]
        PROVE  order[k][i] < tx_counter' /\ D_WritesTo(order[k][i], k)'
    <3>1. order[k][i] \in Nat /\ tx_counter \in Nat
      BY <1>2, <2>1 DEF D_Types
    <3>2. order[k][i] < tx_counter /\ D_WritesTo(order[k][i], k)
      BY <2>1 DEF D_OrderIncreasing
    <3> QED
      BY <1>1, <1>3, <3>1, <3>2 DEF D_WritesTo
  <2> QED
    BY <2>1 DEF D_OrderIncreasing
<1>4. ASSUME NEW t \in Thread, D!execute(t), order' # order
      PROVE  D_OrderIncreasing'
  <2> DEFINE i == tx_pos[t]
             kk == D!Tasks(t)[pos[t]].key
  <2>1. /\ pc[t] = "exec" /\ pos[t] <= Len(D!Tasks(t)) /\ D!Tasks(t)[pos[t]].op = "WRITE"
        /\ tx_counter' = tx_counter /\ D!Place(order[kk], i) = 0
        /\ order' = [order EXCEPT ![kk] = Append(@, i)]
    BY <1>4 DEF D!execute
  <2>2. i \in D!TxId /\ kk \in Key /\ kk \in wlocks[t] /\ D_WritesTo(i, kk)
    BY <2>1, D_TaskLocked
  <2>3. i \in Nat /\ tx_counter \in Nat /\ i < tx_counter
    BY <1>2, <2>1, <2>2 DEF D_Types, D_Dispatched, Runner
  <2> HIDE DEF kk
  <2>4. /\ order[kk] \in Seq(D!TxId) /\ order'[kk] = Append(order[kk], i)
        /\ \A k \in Key : k # kk => order'[k] = order[k]
    BY <2>1, <2>2 DEF D_Types
  <2> DEFINE s == order[kk]
             n == Len(order[kk])
  <2>5. /\ n \in Nat /\ DOMAIN s = 1 .. n /\ DOMAIN Append(s, i) = 1 .. n + 1
        /\ Append(s, i)[n + 1] = i /\ \A m \in 1 .. n : Append(s, i)[m] = s[m]
    BY <2>2, <2>4, AppendProperties
  <2>6. ASSUME NEW m \in 1 .. n
        PROVE  s[m] \in D!TxId /\ s[m] \in Nat /\ s[m] < i
    <3>1. s[m] \in D!TxId /\ s[m] \in Nat
      BY <1>2, <2>4, <2>5
    <3>2. s[m] < tx_counter /\ D_WritesTo(s[m], kk)
      BY <2>2, <2>5 DEF D_OrderIncreasing
    <3>3. ~(i < s[m])
      BY <2>1, <2>2, <3>1, <3>2 DEF NoneAfter
    <3>4. s[m] # i
      <4>1. \A x \in DOMAIN s : x # 0
        BY <2>5
      <4> QED
        BY <2>1, <2>5, <4>1 DEF D!Place
    <3> QED
      BY <2>3, <3>1, <3>3, <3>4
  <2> SUFFICES ASSUME NEW k \in Key
               PROVE  /\ \A m \in DOMAIN order'[k] :
                            order'[k][m] < tx_counter /\ D_WritesTo(order'[k][m], k)
                      /\ \A m, j \in DOMAIN order'[k] : m < j => order'[k][m] < order'[k][j]
    BY <1>1, <2>1 DEF D_OrderIncreasing, D_WritesTo
  <2>7. CASE k # kk
    BY <2>4, <2>7 DEF D_OrderIncreasing
  <2>8. CASE k = kk
    <3>1. \A m \in 1 .. n + 1 : m \in 1 .. n \/ m = n + 1
      BY <2>5
    <3>2. \A m \in 1 .. n : s[m] < tx_counter /\ D_WritesTo(s[m], kk)
      BY <2>2, <2>5 DEF D_OrderIncreasing
    <3>3. \A m, j \in 1 .. n : m < j => s[m] < s[j]
      BY <2>2, <2>5 DEF D_OrderIncreasing
    <3>4. \A m, j \in 1 .. n + 1 : m < j => m \in 1 .. n
      BY <2>5
    <3>5. /\ DOMAIN order'[k] = 1 .. n + 1 /\ order'[k][n + 1] = i
          /\ \A m \in 1 .. n : order'[k][m] = s[m]
      BY <2>4, <2>5, <2>8
    <3>6. \A m \in 1 .. n + 1 : order'[k][m] < tx_counter /\ D_WritesTo(order'[k][m], k)
      BY <2>2, <2>3, <2>8, <3>1, <3>2, <3>5
    <3>7. ASSUME NEW m \in 1 .. n + 1, NEW j \in 1 .. n + 1, m < j
          PROVE  order'[k][m] < order'[k][j]
      <4>1. m \in 1 .. n /\ (j \in 1 .. n \/ j = n + 1)
        BY <3>1, <3>4, <3>7
      <4> QED
        BY <2>6, <3>3, <3>5, <3>7, <4>1
    <3> QED
      BY <3>5, <3>6, <3>7
  <2> QED
    BY <2>7, <2>8
<1>5. CASE D!Quit \/ D!Joined \/ UNCHANGED D!vars
  BY <1>3, <1>5 DEF D!Quit, D!Joined, D!vars
<1>6. ASSUME NEW t \in Thread, D!worker(t)
      PROVE  D_OrderIncreasing'
  <2>1. CASE D!locked(t)
    BY <1>3, <2>1 DEF D!locked, D_Dispatched, Locker
  <2>2. CASE D!execute(t)
    BY <1>3, <1>4, <2>2 DEF D!execute
  <2>3. CASE ~D!locked(t) /\ ~D!execute(t)
    BY <1>3, <1>6, <2>3 DEF D!worker, D!leave, D!acquireGiant, D!retry, D!lockRead,
       D!lockWrite,
       D!Grant, D!Refuse, D!aborted, D!commit, D!readUnlock, D!writeUnlock, D!finish
  <2> QED
    BY <2>1, <2>2, <2>3
<1> QED
  BY <1>5, <1>6 DEF D!Next

-----------------------------------------------------------------------------
(* The theorem *)

\* Every step keeps the invariant.
LEMMA D_Invariance == D!Spec => []D_Inv
<1>1. D_Inv /\ [D!Next]_D!vars => D_Inv'
  BY D_TypesStep, D_DispatchedStep, D_AgreeStep, D_CoverStep, NoneAfterStep,
     D_HoldingStep,
     D_ReadsDecidedStep, D_OrderStep DEF D_Inv, D_Base
<1> QED
  BY D_InitInv, <1>1, PTL DEF D!Spec

\* Under the giant lock (determinism_end_after_tx1/ss2pl.cc, worker) what a
\* transaction reads is decided by the numbers of the transactions, and records
\* are written in their order, however many workers run them and however often
\* an attempt is refused.
THEOREM DeterminedUnderGiantLock == D!Spec => []SerialInTxOrder
<1>1. D_Inv => D!SerialInTxOrder
  BY DEF D_Inv, D_ReadsDecided, D_Decided, D_OrderIncreasing, D!SerialInTxOrder
<1>2. D!SerialInTxOrder <=> SerialInTxOrder
  BY DEF D!SerialInTxOrder, SerialInTxOrder, D!LastWriter, LastWriter, D!Writers, Writers,
     D!TxId, TxId
<1> QED
  BY D_Invariance, <1>1, <1>2, PTL

-----------------------------------------------------------------------------
(* Strong strict two-phase locking *)

\* What SS2PL declares besides what is in TwoPhase and LockManager.
CONSTANTS Builds, DrawnProcedures
VARIABLES build, pro_set, status, read_set, write_set

S == INSTANCE SS2PL WITH Procedure <- DrawnProcedures

\* The operators that SS2PL extends are the same.
LEMMA S_SameSets == \A X : /\ S!IsFiniteSet(X) <=> IsFiniteSet(X)
                           /\ S!Cardinality(X) = Cardinality(X)
BY Zenon DEF S!IsFiniteSet, IsFiniteSet, S!Cardinality, Cardinality

LEMMA S_SameLocks ==
    /\ S!Free = Free /\ S!WriteLocked = WriteLocked
    /\ \A c : /\ S!CanReadLock(c) <=> CanReadLock(c)
              /\ S!CanWriteLock(c) <=> CanWriteLock(c)
              /\ S!CanUpgrade(c) <=> CanUpgrade(c)
              /\ S!ReadLock(c) = ReadLock(c) /\ S!ReadUnlock(c) = ReadUnlock(c)
              /\ S!WriteLock(c) = WriteLock(c) /\ S!WriteUnlock(c) = WriteUnlock(c)
              /\ S!Upgrade(c) = Upgrade(c)
BY DEF S!Free, Free, S!WriteLocked, WriteLocked, S!CanReadLock, CanReadLock,
   S!CanWriteLock, CanWriteLock, S!CanUpgrade, CanUpgrade, S!ReadLock, ReadLock,
   S!ReadUnlock, ReadUnlock, S!WriteLock, WriteLock, S!WriteUnlock, WriteUnlock,
   S!Upgrade, Upgrade

\* SS2PLAssumption and LocksMatch, in those operators.
S_Constants ==
    /\ Key \subseteq Int
    /\ IsFiniteSet(Thread)
    /\ Builds \subseteq [DLR0 : BOOLEAN, KEY_SORT : BOOLEAN]
    /\ MaxTxn \in Nat
    /\ None \notin S!Txn
    /\ \A b \in Builds : DrawnProcedures[b] \subseteq Seq(S!Operation)

LEMMA S_ConstantsIs == S!SS2PLAssumption <=> S_Constants
BY S_SameSets DEF S!SS2PLAssumption, S_Constants

S_LocksMatch ==
    \A k \in Key :
        \/ S!WritersOf(k) = {} /\ lock[k] = Cardinality(S!ReadersOf(k))
        \/ /\ \E t \in Thread : S!WritersOf(k) = {t}
           /\ S!ReadersOf(k) = {} /\ lock[k] = WriteLocked

LEMMA S_LocksMatchIs == S!LocksMatch <=> S_LocksMatch
BY S_SameSets, S_SameLocks DEF S!LocksMatch, S_LocksMatch

S_Label == {"next", "retry", "run", "store", "unlock", "done"}

\* TypeOK, but for the range of the lock counters, which needs LocksMatch.
S_Types ==
    /\ S_Constants
    /\ quit \in BOOLEAN
    /\ build \in Builds
    /\ lock \in [Key -> Int]
    /\ value \in [Key -> S!Version]
    /\ pc \in [Thread -> S_Label]
    /\ pro_set \in [Thread -> Seq(S!Operation)]
    /\ pos \in [Thread -> Nat \ {0}]
    /\ status \in [Thread -> {"inFlight", "aborted"}]
    /\ r_lock_list \in [Thread -> SUBSET Key]
    /\ w_lock_list \in [Thread -> SUBSET Key]
    /\ read_set \in [Thread -> SUBSET Key]
    /\ write_set \in [Thread -> SUBSET Key]
    /\ unstored \in [Thread -> SUBSET Key]
    /\ txn \in [Thread -> 0 .. MaxTxn]
    /\ reads \in [Thread -> SUBSET [key : Key, ver : S!Version]]
    /\ committed \in Seq(S!Transaction)

\* What the lists of a worker hold at each point of its transaction.
S_WorkerMatches(t) ==
    /\ pc[t] \notin {"next", "done"} => txn[t] < MaxTxn
    /\ pc[t] \in {"next", "retry", "done"} =>
          /\ r_lock_list[t] = {} /\ w_lock_list[t] = {}
          /\ read_set[t] = {} /\ write_set[t] = {} /\ reads[t] = {}
    /\ pc[t] \in {"run", "store"} =>
          read_set[t] = r_lock_list[t] /\ write_set[t] = w_lock_list[t]
    /\ pc[t] = "run" =>
          \A r \in reads[t] : r.key \in r_lock_list[t] \cup w_lock_list[t]
    /\ unstored[t] \subseteq w_lock_list[t]
    /\ pc[t] # "store" => unstored[t] = {}

S_ListsMatch == \A t \in Thread : S_WorkerMatches(t)

S_Inv == S_Types /\ S_LocksMatch /\ S_ListsMatch /\ S!ReadsStayValid

-----------------------------------------------------------------------------
(* Locks *)

LEMMA S_HoldersFinite ==
    ASSUME S_Types, NEW k \in Key
    PROVE  /\ IsFiniteSet(S!ReadersOf(k)) /\ Cardinality(S!ReadersOf(k)) \in Nat
           /\ Cardinality(S!ReadersOf(k)) <= Cardinality(Thread)
           /\ Cardinality(Thread) \in Nat
BY FS_Subset, FS_CardinalityType DEF S!ReadersOf, S_Types, S_Constants

\* A counter within its bounds: no lock is held by more workers than there are.
LEMMA S_TypesComplete ==
    ASSUME S_Types, S_LocksMatch
    PROVE  S!TypeOK
<1>1. ASSUME NEW k \in Key
      PROVE  lock[k] \in WriteLocked .. Cardinality(Thread)
  <2>1. lock[k] = Cardinality(S!ReadersOf(k)) \/ lock[k] = -1
    BY S_SameLocks, <1>1 DEF S_LocksMatch, WriteLocked
  <2> QED
    BY S_SameLocks, <1>1, <2>1, S_HoldersFinite DEF WriteLocked
<1> QED
  BY <1>1, S_SameLocks, S_SameSets DEF S_Types, S!TypeOK, S_Label

\* A writer is the only one to hold the lock.
LEMMA S_Exclusive ==
    ASSUME S_LocksMatch, NEW k \in Key, NEW t \in Thread, k \in w_lock_list[t],
           NEW u \in Thread, u # t
    PROVE  k \notin w_lock_list[u] /\ k \notin r_lock_list[u]
<1>1. t \in S!WritersOf(k)
  BY DEF S!WritersOf
<1>2. S!WritersOf(k) = {t} /\ S!ReadersOf(k) = {}
  BY <1>1 DEF S_LocksMatch
<1> QED
  BY <1>2 DEF S!WritersOf, S!ReadersOf

\* A reader is counted, and keeps writers out.
LEMMA S_ReaderCounted ==
    ASSUME S_Types, S_LocksMatch, NEW k \in Key, NEW t \in Thread,
           k \in r_lock_list[t]
    PROVE  /\ S!WritersOf(k) = {} /\ lock[k] = Cardinality(S!ReadersOf(k))
           /\ lock[k] \in Nat \ {0}
<1>1. t \in S!ReadersOf(k)
  BY DEF S!ReadersOf
<1>2. S!WritersOf(k) = {} /\ lock[k] = Cardinality(S!ReadersOf(k))
  BY <1>1 DEF S_LocksMatch
<1>3. Cardinality(S!ReadersOf(k)) # 0
  BY <1>1, S_HoldersFinite, FS_EmptySet
<1> QED
  BY <1>2, <1>3, S_HoldersFinite

\* Locks that a step leaves alone still match, as do those of other records.
LEMMA S_OthersMatch ==
    ASSUME S_Types, S_LocksMatch, NEW t \in Thread, NEW k \in Key,
           \A j \in Key \ {k} : lock'[j] = lock[j],
           \A u \in Thread : \A j \in Key \ {k} :
               /\ j \in r_lock_list'[u] <=> j \in r_lock_list[u]
               /\ j \in w_lock_list'[u] <=> j \in w_lock_list[u],
           \/ S!WritersOf(k)' = {} /\ lock'[k] = Cardinality(S!ReadersOf(k)')
           \/ /\ \E u \in Thread : S!WritersOf(k)' = {u}
              /\ S!ReadersOf(k)' = {} /\ lock'[k] = WriteLocked
    PROVE  S_LocksMatch'
<1> SUFFICES ASSUME NEW j \in Key, j # k
             PROVE  /\ S!ReadersOf(j)' = S!ReadersOf(j) /\ S!WritersOf(j)' = S!WritersOf(j)
                    /\ lock'[j] = lock[j]
  BY DEF S_LocksMatch
<1> QED
  BY DEF S!ReadersOf, S!WritersOf

\* The record of the operation a worker is at.
LEMMA S_OpType ==
    ASSUME S_Types, NEW t \in Thread, S!Executes(t)
    PROVE  S!Op(t) \in S!Operation /\ S!Op(t).key \in Key
<1>1. pro_set[t] \in Seq(S!Operation) /\ pos[t] \in DOMAIN pro_set[t]
  BY DEF S_Types, S!Executes
<1>2. pro_set[t][pos[t]] \in S!Operation
  BY <1>1
<1> QED
  BY <1>2 DEF S!Op, S!Operation

LEMMA S_ReadLockMatches ==
    ASSUME S_Types, S_LocksMatch, S_ListsMatch, NEW t \in Thread, S!readLock(t)
    PROVE  S_LocksMatch'
<1>0. S!Executes(t)
  BY DEF S!readLock
<1>1. PICK k \in Key : k = S!Op(t).key
  BY <1>0, S_OpType
<1>2. k \notin r_lock_list[t] /\ lock[k] # WriteLocked
  BY S_SameLocks, <1>1 DEF S!readLock, S!Executes, S!Hit, S!NeedsRead, S!searchReadSet, S_ListsMatch, S_WorkerMatches, CanReadLock
<1>3. S!WritersOf(k) = {} /\ lock[k] = Cardinality(S!ReadersOf(k))
  BY <1>2 DEF S_LocksMatch
<1>4. /\ r_lock_list' = [r_lock_list EXCEPT ![t] = r_lock_list[t] \cup {k}]
      /\ w_lock_list' = w_lock_list
      /\ lock' = [lock EXCEPT ![k] = lock[k] + 1]
  BY S_SameLocks, <1>1 DEF S!readLock, ReadLock
<1>5. S!ReadersOf(k)' = S!ReadersOf(k) \cup {t} /\ S!WritersOf(k)' = S!WritersOf(k) /\ t \notin S!ReadersOf(k)
  BY <1>2, <1>4 DEF S!ReadersOf, S!WritersOf, S_Types
<1>6. Cardinality(S!ReadersOf(k)') = lock[k] + 1
  BY <1>3, <1>5, S_HoldersFinite, FS_AddElement
<1>7. lock'[k] = Cardinality(S!ReadersOf(k)') /\ \A j \in Key \ {k} : lock'[j] = lock[j]
  BY <1>4, <1>6 DEF S_Types
<1>8. \A u \in Thread : \A j \in Key \ {k} :
          /\ j \in r_lock_list'[u] <=> j \in r_lock_list[u]
          /\ j \in w_lock_list'[u] <=> j \in w_lock_list[u]
  BY <1>4 DEF S_Types
<1> QED
  BY <1>3, <1>5, <1>7, <1>8, S_OthersMatch

LEMMA S_UpgradeMatches ==
    ASSUME S_Types, S_LocksMatch, S_ListsMatch, NEW t \in Thread, S!upgrade(t)
    PROVE  S_LocksMatch'
<1>0. S!Executes(t)
  BY DEF S!upgrade
<1>1. PICK k \in Key : k = S!Op(t).key
  BY <1>0, S_OpType
<1>2. k \in r_lock_list[t] /\ lock[k] = 1
  BY S_SameLocks, <1>1 DEF S!upgrade, S!Executes, S!NeedsUpgrade, S!searchReadSet, S_ListsMatch, S_WorkerMatches, CanUpgrade
<1>3. S!WritersOf(k) = {} /\ Cardinality(S!ReadersOf(k)) = 1
  BY <1>2, S_ReaderCounted
<1>4. S!ReadersOf(k) = {t}
  BY <1>2, <1>3, S_HoldersFinite, FS_Singleton DEF S!ReadersOf
<1>5. /\ r_lock_list' = [r_lock_list EXCEPT ![t] = r_lock_list[t] \ {k}]
      /\ w_lock_list' = [w_lock_list EXCEPT ![t] = w_lock_list[t] \cup {k}]
      /\ lock' = [lock EXCEPT ![k] = WriteLocked]
  BY S_SameLocks, <1>1 DEF S!upgrade, Upgrade
<1>6. S!ReadersOf(k)' = {} /\ S!WritersOf(k)' = {t}
  BY <1>3, <1>4, <1>5 DEF S!ReadersOf, S!WritersOf, S_Types
<1>7. lock'[k] = WriteLocked /\ \A j \in Key \ {k} : lock'[j] = lock[j]
  BY <1>5 DEF S_Types
<1>8. \A u \in Thread : \A j \in Key \ {k} :
          /\ j \in r_lock_list'[u] <=> j \in r_lock_list[u]
          /\ j \in w_lock_list'[u] <=> j \in w_lock_list[u]
  BY <1>5 DEF S_Types
<1> QED
  BY <1>6, <1>7, <1>8, S_OthersMatch

LEMMA S_WriteLockMatches ==
    ASSUME S_Types, S_LocksMatch, S_ListsMatch, NEW t \in Thread, S!writeLock(t)
    PROVE  S_LocksMatch'
<1>0. S!Executes(t)
  BY DEF S!writeLock
<1>1. PICK k \in Key : k = S!Op(t).key
  BY <1>0, S_OpType
<1>2. lock[k] = 0
  BY S_SameLocks, <1>1 DEF S!writeLock, CanWriteLock, Free
<1>3. S!WritersOf(k) = {} /\ S!ReadersOf(k) = {}
  BY S_SameLocks, <1>2, S_HoldersFinite, FS_EmptySet DEF S_LocksMatch, WriteLocked
<1>4. /\ w_lock_list' = [w_lock_list EXCEPT ![t] = w_lock_list[t] \cup {k}]
      /\ lock' = [lock EXCEPT ![k] = WriteLocked]
      /\ r_lock_list' = r_lock_list
  BY S_SameLocks, <1>1 DEF S!writeLock, WriteLock
<1>5. S!ReadersOf(k)' = {} /\ S!WritersOf(k)' = {t}
  BY <1>3, <1>4 DEF S!ReadersOf, S!WritersOf, S_Types
<1>6. lock'[k] = WriteLocked /\ \A j \in Key \ {k} : lock'[j] = lock[j]
  BY <1>4 DEF S_Types
<1>7. \A u \in Thread : \A j \in Key \ {k} :
          /\ j \in r_lock_list'[u] <=> j \in r_lock_list[u]
          /\ j \in w_lock_list'[u] <=> j \in w_lock_list[u]
  BY <1>4 DEF S_Types
<1> QED
  BY <1>5, <1>6, <1>7, S_OthersMatch

LEMMA S_ReadUnlockMatches ==
    ASSUME S_Types, S_LocksMatch, NEW t \in Thread, S!readUnlock(t)
    PROVE  S_LocksMatch'
<1>1. PICK k \in r_lock_list[t] :
          /\ lock' = [lock EXCEPT ![k] = lock[k] - 1]
          /\ r_lock_list' = [r_lock_list EXCEPT ![t] = r_lock_list[t] \ {k}]
          /\ w_lock_list' = w_lock_list
  BY S_SameLocks DEF S!readUnlock, ReadUnlock
<1>2. k \in Key
  BY DEF S_Types
<1>3. S!WritersOf(k) = {} /\ lock[k] = Cardinality(S!ReadersOf(k)) /\ t \in S!ReadersOf(k)
  BY <1>2, S_ReaderCounted DEF S!ReadersOf
<1>4. S!ReadersOf(k)' = S!ReadersOf(k) \ {t} /\ S!WritersOf(k)' = S!WritersOf(k)
  BY <1>1, <1>2 DEF S!ReadersOf, S!WritersOf, S_Types
<1>5. Cardinality(S!ReadersOf(k)') = lock[k] - 1
  BY <1>2, <1>3, <1>4, S_HoldersFinite, FS_RemoveElement
<1>6. lock'[k] = Cardinality(S!ReadersOf(k)') /\ \A j \in Key \ {k} : lock'[j] = lock[j]
  BY <1>1, <1>2, <1>5 DEF S_Types
<1>7. \A u \in Thread : \A j \in Key \ {k} :
          /\ j \in r_lock_list'[u] <=> j \in r_lock_list[u]
          /\ j \in w_lock_list'[u] <=> j \in w_lock_list[u]
  BY <1>1 DEF S_Types
<1> QED
  BY <1>2, <1>3, <1>4, <1>6, <1>7, S_OthersMatch

LEMMA S_WriteUnlockMatches ==
    ASSUME S_Types, S_LocksMatch, NEW t \in Thread, S!writeUnlock(t)
    PROVE  S_LocksMatch'
<1>1. PICK k \in w_lock_list[t] :
          /\ lock' = [lock EXCEPT ![k] = lock[k] + 1]
          /\ w_lock_list' = [w_lock_list EXCEPT ![t] = w_lock_list[t] \ {k}]
          /\ r_lock_list' = r_lock_list
  BY S_SameLocks DEF S!writeUnlock, WriteUnlock
<1>2. k \in Key /\ t \in S!WritersOf(k)
  BY DEF S_Types, S!WritersOf
<1>3. S!WritersOf(k) = {t} /\ S!ReadersOf(k) = {} /\ lock[k] = WriteLocked
  BY <1>2 DEF S_LocksMatch
<1>4. S!ReadersOf(k)' = {} /\ S!WritersOf(k)' = {}
  BY <1>1, <1>2, <1>3 DEF S!ReadersOf, S!WritersOf, S_Types
<1>5. lock'[k] = Cardinality(S!ReadersOf(k)') /\ \A j \in Key \ {k} : lock'[j] = lock[j]
  BY S_SameLocks, <1>1, <1>2, <1>3, <1>4, FS_EmptySet DEF S_Types, WriteLocked
<1>6. \A u \in Thread : \A j \in Key \ {k} :
          /\ j \in r_lock_list'[u] <=> j \in r_lock_list[u]
          /\ j \in w_lock_list'[u] <=> j \in w_lock_list[u]
  BY <1>1 DEF S_Types
<1> QED
  BY <1>2, <1>4, <1>5, <1>6, S_OthersMatch

\* Every other step leaves the locks alone.
LEMMA S_LocksStep ==
    ASSUME S_Types, S_LocksMatch, S_ListsMatch, [S!Next]_S!vars
    PROVE  S_LocksMatch'
<1>1. ASSUME UNCHANGED << lock, S!lists >>
      PROVE  S_LocksMatch'
  BY <1>1 DEF S_LocksMatch, S!lists, S!ReadersOf, S!WritersOf
<1>2. ASSUME NEW t \in Thread, S!worker(t)
      PROVE  S_LocksMatch'
  <2>1. CASE S!readLock(t) \/ S!upgrade(t) \/ S!writeLock(t) \/ S!readUnlock(t) \/ S!writeUnlock(t)
    BY <2>1, S_ReadLockMatches, S_UpgradeMatches, S_WriteLockMatches, S_ReadUnlockMatches,
       S_WriteUnlockMatches
  <2>2. CASE \/ S!NextProcedure(t) \/ S!leave(t) \/ S!begin(t) \/ S!hit(t) \/ S!refuse(t)
             \/ S!commit(t) \/ S!store(t) \/ S!stored(t) \/ S!finish(t)
    BY <1>1, <2>2 DEF S!NextProcedure, S!leave, S!begin, S!hit, S!refuse, S!commit, S!store, S!stored, S!finish
  <2> QED
    BY <1>2, <2>1, <2>2 DEF S!worker
<1>3. CASE S!Quit \/ S!Joined \/ UNCHANGED S!vars
  BY <1>1, <1>3 DEF S!Quit, S!Joined, S!vars, S!lists
<1> QED
  BY <1>2, <1>3 DEF S!Next

-----------------------------------------------------------------------------
(* The other parts of the invariant *)

LEMMA S_AdvanceType ==
    ASSUME S_Types, NEW t \in Thread, S!Advance(t)
    PROVE  pos' \in [Thread -> Nat \ {0}]
<1>1. pos[t] + 1 \in Nat \ {0}
  BY DEF S_Types
<1> QED
  BY <1>1 DEF S_Types, S!Advance

LEMMA S_LoadsType ==
    ASSUME S_Types, NEW t \in Thread, NEW k \in Key, S!Loads(t, k)
    PROVE  reads' \in [Thread -> SUBSET [key : Key, ver : S!Version]]
<1>1. [key |-> k, ver |-> value[k]] \in [key : Key, ver : S!Version]
  BY DEF S_Types
<1> QED
  BY <1>1 DEF S!Loads, S_Types

LEMMA S_IdType ==
    ASSUME S_Types, S_ListsMatch, NEW t \in Thread, pc[t] \notin {"next", "done"}
    PROVE  S!Id(t) \in S!Txn
BY DEF S!Id, S!Txn, S_ListsMatch, S_WorkerMatches, S_Types, S_Constants

LEMMA S_TypesStep ==
    ASSUME S_Types, S_ListsMatch, [S!Next]_S!vars
    PROVE  S_Types'
<1> USE DEF S_Types, S!Goto, S!run, S!lists, S!sets, S_Label
<1>1. CASE S!Quit
  BY <1>1 DEF S!Quit
<1>2. ASSUME NEW t \in Thread, S!NextProcedure(t)
      PROVE  S_Types'
  <2>1. S!makeProcedure \subseteq Seq(S!Operation)
    BY DEF S!makeProcedure, S_Types, S_Constants
  <2> QED
    BY <1>2, <2>1 DEF S!NextProcedure
<1>3. ASSUME NEW t \in Thread, S!leave(t) \/ S!stored(t)
      PROVE  S_Types'
  BY <1>3 DEF S!leave, S!stored
<1>4. ASSUME NEW t \in Thread, S!begin(t) \/ S!refuse(t)
      PROVE  S_Types'
  <2>1. CASE S!begin(t)
    BY <2>1 DEF S!begin
  <2>2. CASE S!refuse(t)
    BY <2>2 DEF S!refuse
  <2> QED
    BY <1>4, <2>1, <2>2
<1>5. ASSUME NEW t \in Thread, S!hit(t)
      PROVE  S_Types'
  BY <1>5, S_AdvanceType DEF S!hit
<1>6. ASSUME NEW t \in Thread, S!readLock(t)
      PROVE  S_Types'
  <2>1. S!Op(t).key \in Key
    BY <1>6, S_OpType DEF S!readLock
  <2>2. /\ reads' \in [Thread -> SUBSET [key : Key, ver : S!Version]]
        /\ pos' \in [Thread -> Nat \ {0}]
    BY <1>6, <2>1, S_LoadsType, S_AdvanceType DEF S!readLock
  <2>3. lock' \in [Key -> Int]
    BY S_SameLocks, <1>6, <2>1 DEF S!readLock, ReadLock
  <2>4. r_lock_list' \in [Thread -> SUBSET Key] /\ read_set' \in [Thread -> SUBSET Key]
    BY <1>6, <2>1 DEF S!readLock
  <2> QED
    BY <1>6, <2>2, <2>3, <2>4 DEF S!readLock
<1>7. ASSUME NEW t \in Thread, S!upgrade(t)
      PROVE  S_Types'
  <2>1. S!Op(t).key \in Key
    BY <1>7, S_OpType DEF S!upgrade
  <2>2. pos' \in [Thread -> Nat \ {0}]
    BY <1>7, S_AdvanceType DEF S!upgrade
  <2>3. lock' \in [Key -> Int]
    BY S_SameLocks, <1>7, <2>1 DEF S!upgrade, Upgrade, WriteLocked
  <2>4. r_lock_list' \in [Thread -> SUBSET Key] /\ w_lock_list' \in [Thread -> SUBSET Key]
    BY <1>7, <2>1 DEF S!upgrade
  <2>5. read_set' \in [Thread -> SUBSET Key] /\ write_set' \in [Thread -> SUBSET Key]
    BY <1>7, <2>1 DEF S!upgrade, S!MovesSets
  <2> QED
    BY <1>7, <2>2, <2>3, <2>4, <2>5 DEF S!upgrade
<1>8. ASSUME NEW t \in Thread, S!writeLock(t)
      PROVE  S_Types'
  <2>1. S!Op(t).key \in Key
    BY <1>8, S_OpType DEF S!writeLock
  <2>2. /\ reads' \in [Thread -> SUBSET [key : Key, ver : S!Version]]
        /\ pos' \in [Thread -> Nat \ {0}]
    BY <1>8, <2>1, S_LoadsType, S_AdvanceType DEF S!writeLock
  <2>3. lock' \in [Key -> Int]
    BY S_SameLocks, <1>8, <2>1 DEF S!writeLock, WriteLock, WriteLocked
  <2>4. w_lock_list' \in [Thread -> SUBSET Key] /\ write_set' \in [Thread -> SUBSET Key]
    BY <1>8, <2>1 DEF S!writeLock
  <2> QED
    BY <1>8, <2>2, <2>3, <2>4 DEF S!writeLock
<1>9. ASSUME NEW t \in Thread, S!commit(t)
      PROVE  S_Types'
  <2>1. [id |-> S!Id(t), reads |-> reads[t], writes |-> write_set[t]] \in S!Transaction
    BY <1>9, S_IdType DEF S!commit, S!Transaction
  <2>2. committed' \in Seq(S!Transaction)
    BY <1>9, <2>1 DEF S!commit
  <2> QED
    BY <1>9, <2>2 DEF S!commit
<1>10. ASSUME NEW t \in Thread, S!store(t)
       PROVE  S_Types'
  <2>1. S!Id(t) \in S!Version
    BY <1>10, S_IdType DEF S!store, S!Version
  <2>2. value' \in [Key -> S!Version] /\ unstored' \in [Thread -> SUBSET Key]
    BY <1>10, <2>1 DEF S!store
  <2> QED
    BY <1>10, <2>2 DEF S!store
<1>11. ASSUME NEW t \in Thread, S!readUnlock(t)
       PROVE  S_Types'
  <2>1. lock' \in [Key -> Int]
    BY S_SameLocks, <1>11 DEF S!readUnlock, ReadUnlock
  <2> QED
    BY <1>11, <2>1 DEF S!readUnlock
<1>12. ASSUME NEW t \in Thread, S!writeUnlock(t)
       PROVE  S_Types'
  <2>1. lock' \in [Key -> Int]
    BY S_SameLocks, <1>12 DEF S!writeUnlock, WriteUnlock
  <2> QED
    BY <1>12, <2>1 DEF S!writeUnlock
<1>13. ASSUME NEW t \in Thread, S!finish(t)
       PROVE  S_Types'
  <2>1. txn[t] < MaxTxn /\ txn[t] \in 0 .. MaxTxn
    BY <1>13 DEF S!finish, S_ListsMatch, S_WorkerMatches
  <2>2. txn' \in [Thread -> 0 .. MaxTxn]
    BY <1>13, <2>1 DEF S!finish, S_Types, S_Constants
  <2>3. pc' \in [Thread -> S_Label]
    BY <1>13 DEF S!finish
  <2>4. /\ read_set' \in [Thread -> SUBSET Key] /\ write_set' \in [Thread -> SUBSET Key]
        /\ reads' \in [Thread -> SUBSET [key : Key, ver : S!Version]]
    BY <1>13 DEF S!finish
  <2> QED
    BY <1>13, <2>2, <2>3, <2>4 DEF S!finish
<1>14. CASE S!Joined \/ UNCHANGED S!vars
  BY <1>14 DEF S!Joined, S!vars
<1> QED
  BY <1>1, <1>2, <1>3, <1>4, <1>5, <1>6, <1>7, <1>8, <1>9, <1>10, <1>11, <1>12, <1>13, <1>14
  DEF S!Next, S!worker

\* A step of one worker leaves what the others keep alone.
LEMMA S_OthersKeep ==
    ASSUME S_Types, S_ListsMatch, NEW t \in Thread, S!worker(t), NEW u \in Thread, u # t
    PROVE  S_WorkerMatches(u)'
<1>1. /\ pc'[u] = pc[u] /\ txn'[u] = txn[u] /\ unstored'[u] = unstored[u]
      /\ r_lock_list'[u] = r_lock_list[u] /\ w_lock_list'[u] = w_lock_list[u]
      /\ read_set'[u] = read_set[u] /\ write_set'[u] = write_set[u] /\ reads'[u] = reads[u]
  <2> USE DEF S_Types, S!Goto, S!lists, S!sets
  <2>1. CASE S!NextProcedure(t) \/ S!leave(t) \/ S!begin(t) \/ S!hit(t) \/ S!refuse(t) \/ S!stored(t)
    BY <2>1 DEF S!NextProcedure, S!leave, S!begin, S!hit, S!refuse, S!stored
  <2>2. CASE S!readLock(t) \/ S!upgrade(t) \/ S!writeLock(t)
    BY <2>2 DEF S!readLock, S!upgrade, S!writeLock, S!Loads, S!MovesSets
  <2>3. CASE S!commit(t) \/ S!store(t) \/ S!readUnlock(t) \/ S!writeUnlock(t) \/ S!finish(t)
    BY <2>3 DEF S!commit, S!store, S!readUnlock, S!writeUnlock, S!finish
  <2> QED
    BY <2>1, <2>2, <2>3 DEF S!worker
<1> QED
  BY <1>1 DEF S_ListsMatch, S_WorkerMatches

LEMMA S_ListsStep ==
    ASSUME S_Types, S_ListsMatch, [S!Next]_S!vars
    PROVE  S_ListsMatch'
<1>1. CASE S!Quit \/ S!Joined \/ UNCHANGED S!vars
  BY <1>1 DEF S!Quit, S!Joined, S!vars, S!lists, S!sets, S_ListsMatch, S_WorkerMatches
<1>2. ASSUME NEW t \in Thread, S!worker(t)
      PROVE  S_WorkerMatches(t)'
  <2> USE DEF S_Types, S_WorkerMatches, S!Goto, S!lists, S!sets, S_Label
  <2>0. S_WorkerMatches(t)
    BY DEF S_ListsMatch
  <2>1. CASE S!NextProcedure(t) \/ S!leave(t) \/ S!begin(t)
    BY <2>0, <2>1 DEF S!NextProcedure, S!leave, S!begin
  <2>2. CASE S!hit(t) \/ S!refuse(t) \/ S!stored(t)
    BY <2>0, <2>2 DEF S!hit, S!refuse, S!stored, S!Refused, S!Executes
  <2>3. CASE S!readLock(t)
    BY <2>0, <2>3 DEF S!readLock, S!Loads, S!Executes
  <2>4. CASE S!upgrade(t)
    BY <2>0, <2>4 DEF S!upgrade, S!MovesSets, S!Executes
  <2>5. CASE S!writeLock(t)
    BY <2>0, <2>5 DEF S!writeLock, S!Loads, S!Executes
  <2>6. CASE S!commit(t)
    BY <2>0, <2>6 DEF S!commit
  <2>7. CASE S!store(t)
    BY <2>0, <2>7 DEF S!store
  <2>8. CASE S!readUnlock(t) \/ S!writeUnlock(t)
    BY <2>0, <2>8 DEF S!readUnlock, S!writeUnlock
  <2>9. CASE S!finish(t)
    BY <2>0, <2>9 DEF S!finish
  <2> QED
    BY <1>2, <2>1, <2>2, <2>3, <2>4, <2>5, <2>6, <2>7, <2>8, <2>9 DEF S!worker
<1>3. ASSUME NEW t \in Thread, S!worker(t)
      PROVE  S_ListsMatch'
  BY <1>2, <1>3, S_OthersKeep DEF S_ListsMatch
<1> QED
  BY <1>1, <1>3 DEF S!Next

\* What a running transaction has read stays: only the holder of a write lock
\* stores a value, and it is alone.
LEMMA S_ReadsStep ==
    ASSUME S_Inv, [S!Next]_S!vars
    PROVE  S!ReadsStayValid'
<1> USE DEF S_Inv, S!Goto, S!lists, S!sets
<1>1. CASE S!Quit \/ S!Joined \/ UNCHANGED S!vars
  BY <1>1 DEF S!Quit, S!Joined, S!vars, S!ReadsStayValid
<1>2. ASSUME NEW t \in Thread,
             S!NextProcedure(t) \/ S!leave(t) \/ S!hit(t) \/ S!refuse(t) \/ S!upgrade(t)
      PROVE  S!ReadsStayValid'
  BY <1>2 DEF S!NextProcedure, S!leave, S!hit, S!refuse, S!upgrade, S!ReadsStayValid, S_Types
<1>3. ASSUME NEW t \in Thread, S!begin(t)
      PROVE  S!ReadsStayValid'
  BY <1>3 DEF S!begin, S!ReadsStayValid, S_ListsMatch, S_WorkerMatches, S_Types
<1>4. ASSUME NEW t \in Thread, S!readLock(t) \/ S!writeLock(t)
      PROVE  S!ReadsStayValid'
  <2>1. UNCHANGED << pc, value >>
    BY <1>4 DEF S!readLock, S!writeLock
  <2>2. S!Loads(t, S!Op(t).key) \/ UNCHANGED reads
    BY <1>4 DEF S!readLock, S!writeLock
  <2>3. ASSUME NEW u \in Thread, NEW r \in reads'[u], r \notin reads[u]
        PROVE  r.ver = value[r.key]
    <3>1. S!Loads(t, S!Op(t).key)
      BY <2>2, <2>3
    <3>2. reads'[u] \subseteq reads[u] \cup {[key |-> S!Op(t).key, ver |-> value[S!Op(t).key]]}
      BY <3>1 DEF S!Loads, S_Types
    <3> QED
      BY <2>3, <3>2
  <2> QED
    BY <2>1, <2>3 DEF S!ReadsStayValid
<1>5. ASSUME NEW t \in Thread,
             S!commit(t) \/ S!stored(t) \/ S!readUnlock(t) \/ S!writeUnlock(t) \/ S!finish(t)
      PROVE  S!ReadsStayValid'
  BY <1>5 DEF S!commit, S!stored, S!readUnlock, S!writeUnlock, S!finish, S!ReadsStayValid, S_Types
<1>6. ASSUME NEW t \in Thread, S!store(t)
      PROVE  S!ReadsStayValid'
  <2>1. PICK k \in unstored[t] : value' = [value EXCEPT ![k] = S!Id(t)]
    BY <1>6 DEF S!store
  <2>2. k \in Key /\ k \in w_lock_list[t]
    BY DEF S_Types, S_ListsMatch, S_WorkerMatches
  <2>3. UNCHANGED << pc, reads >> /\ pc[t] = "store"
    BY <1>6 DEF S!store
  <2>4. ASSUME NEW u \in Thread, pc[u] = "run", NEW r \in reads[u]
        PROVE  r.key # k
    <3>1. u # t /\ r.key \in r_lock_list[u] \cup w_lock_list[u]
      BY <2>3, <2>4 DEF S_ListsMatch, S_WorkerMatches
    <3> QED
      BY <2>2, <3>1, S_Exclusive
  <2> QED
    BY <2>1, <2>3, <2>4 DEF S!ReadsStayValid, S_Types
<1> QED
  BY <1>1, <1>2, <1>3, <1>4, <1>5, <1>6 DEF S!Next, S!worker

LEMMA S_InitInv == ASSUME S_Constants, S!Init PROVE S_Inv
<1>1. S_Types
  <2>1. committed \in Seq(S!Transaction) /\ pro_set \in [Thread -> Seq(S!Operation)]
    BY DEF S!Init
  <2>2. txn \in [Thread -> 0 .. MaxTxn]
    BY DEF S!Init, S_Types, S_Constants
  <2>3. lock \in [Key -> Int] /\ value \in [Key -> S!Version] /\ pos \in [Thread -> Nat \ {0}]
    BY S_SameLocks DEF S!Init, S!Version, Free
  <2>4. /\ r_lock_list \in [Thread -> SUBSET Key] /\ w_lock_list \in [Thread -> SUBSET Key]
        /\ read_set \in [Thread -> SUBSET Key] /\ write_set \in [Thread -> SUBSET Key]
        /\ unstored \in [Thread -> SUBSET Key]
        /\ reads \in [Thread -> SUBSET [key : Key, ver : S!Version]]
    BY DEF S!Init
  <2>5. pc \in [Thread -> S_Label] /\ status \in [Thread -> {"inFlight", "aborted"}]
    BY DEF S!Init, S_Label
  <2> QED
    BY <2>1, <2>2, <2>3, <2>4, <2>5 DEF S!Init, S_Types
<1>2. S_LocksMatch
  <2>1. \A k \in Key : S!ReadersOf(k) = {} /\ S!WritersOf(k) = {} /\ lock[k] = 0
    BY S_SameLocks DEF S!Init, S!ReadersOf, S!WritersOf, Free
  <2> QED
    BY <2>1, FS_EmptySet DEF S_LocksMatch
<1>3. S_ListsMatch /\ S!ReadsStayValid
  BY DEF S!Init, S_ListsMatch, S_WorkerMatches, S!ReadsStayValid
<1> QED
  BY <1>1, <1>2, <1>3 DEF S_Inv

\* Every step keeps the invariant.
LEMMA S_Invariance == S!SS2PLAssumption /\ S!Spec => []S_Inv
<1>1. S_Inv /\ [S!Next]_S!vars => S_Inv'
  BY S_TypesStep, S_LocksStep, S_ListsStep, S_ReadsStep DEF S_Inv
<1>2. S!SS2PLAssumption /\ S!Init => S_Inv
  BY S_InitInv, S_ConstantsIs
<1> QED
  BY <1>1, <1>2, PTL DEF S!Spec

-----------------------------------------------------------------------------
(* The promises of TwoPhase, which are what S says they are *)

LEMMA S_LocksMatchSame == S!LocksMatch <=> LocksMatch
BY S_SameSets, S_SameLocks DEF S!LocksMatch, LocksMatch, S!ReadersOf, ReadersOf,
   S!WritersOf, WritersOf

LEMMA S_ReadsStayValidSame == S!ReadsStayValid <=> ReadsStayValid
BY DEF S!ReadsStayValid, ReadsStayValid

\* Every step keeps every variable in its type; in particular a lock counter
\* stays between -1 and the number of workers, through upgrades and aborts.
THEOREM SS2PLTypeCorrect == S!SS2PLAssumption /\ S!Spec => []S!TypeOK
<1>1. S_Inv => S!TypeOK
  BY S_TypesComplete DEF S_Inv
<1> QED
  BY <1>1, S_Invariance, PTL

\* The counter of every lock is what the lists of its holders say, and a writer
\* holds it alone: unlockList releases what was taken, once.
THEOREM LocksAreHeld == S!SS2PLAssumption /\ S!Spec => []LocksMatch
<1>1. S_Inv => LocksMatch
  BY S_LocksMatchIs, S_LocksMatchSame DEF S_Inv
<1> QED
  BY <1>1, S_Invariance, PTL

\* What a transaction has read is in the database until it commits or aborts.
THEOREM ReadsAreRepeatable == S!SS2PLAssumption /\ S!Spec => []ReadsStayValid
<1>1. S_Inv => ReadsStayValid
  BY S_ReadsStayValidSame DEF S_Inv
<1> QED
  BY <1>1, S_Invariance, PTL

-----------------------------------------------------------------------------
(* SS2PL implements the serial store *)

\* A record whose new value a committed transaction has yet to store already
\* holds it, and any other record holds its value.
S_Holding ==
    \A k \in Key :
        /\ \A t \in Thread : k \in unstored[t] => S!Database[k] = S!Id(t)
        /\ (\A t \in Thread : k \notin unstored[t]) => S!Database[k] = value[k]

LEMMA S_DatabaseHolds == S_Inv => S_Holding
<1> SUFFICES ASSUME S_Inv, NEW k \in Key
             PROVE  /\ \A t \in Thread : k \in unstored[t] => S!Database[k] = S!Id(t)
                    /\ (\A t \in Thread : k \notin unstored[t]) => S!Database[k] = value[k]
  BY DEF S_Holding
<1>1. ASSUME NEW t \in Thread, k \in unstored[t]
      PROVE  S!Database[k] = S!Id(t)
  <2>1. \A u \in Thread : k \in unstored[u] => u = t
    BY <1>1, S_Exclusive DEF S_Inv, S_ListsMatch, S_WorkerMatches
  <2>2. (CHOOSE u \in Thread : k \in unstored[u]) = t
    BY <1>1, <2>1
  <2> QED
    BY <1>1, <2>2 DEF S!Database
<1> QED
  BY <1>1 DEF S!Database

LEMMA S_DatabaseHoldsNext == S_Inv' => S_Holding'
BY S_DatabaseHolds, PTL

\* Steps that store nothing, and end no transaction whose values are unstored.
LEMMA S_DatabaseKept ==
    ASSUME S_Inv, S_Inv', UNCHANGED << value, unstored >>,
           \A t \in Thread : unstored[t] # {} => txn'[t] = txn[t]
    PROVE  S!Database' = S!Database
<1> SUFFICES ASSUME NEW k \in Key
             PROVE  S!Database'[k] = S!Database[k]
  BY DEF S!Database
<1>0. S_Holding /\ S_Holding'
  BY S_DatabaseHolds, S_DatabaseHoldsNext
<1>1. CASE \E t \in Thread : k \in unstored[t]
  <2>1. PICK t \in Thread : k \in unstored[t]
    BY <1>1
  <2>2. S!Database[k] = S!Id(t) /\ S!Database'[k] = S!Id(t)'
    BY <1>0, <2>1 DEF S_Holding
  <2> QED
    BY <2>1, <2>2 DEF S!Id
<1>2. CASE \A t \in Thread : k \notin unstored[t]
  BY <1>0, <1>2 DEF S_Holding
<1> QED
  BY <1>1, <1>2

\* commit: the transaction is executed.
LEMMA S_CommitExecutes ==
    ASSUME S_Inv, S_Inv', NEW t \in Thread, S!commit(t)
    PROVE  S!Serial!Next
<1> DEFINE R == {r.key : r \in reads[t]}
<1>0. S_Holding /\ S_Holding'
  BY S_DatabaseHolds, S_DatabaseHoldsNext
<1>1. pc[t] = "run" /\ unstored[t] = {} /\ write_set[t] = w_lock_list[t]
  BY DEF S!commit, S_Inv, S_ListsMatch, S_WorkerMatches
<1>2. R \in SUBSET Key /\ write_set[t] \in SUBSET Key /\ S!Id(t) \in S!Txn
  <2>1. reads[t] \in SUBSET [key : Key, ver : S!Version]
    BY DEF S_Inv, S_Types
  <2>2. S!Id(t) \in S!Txn
    BY <1>1, S_IdType DEF S_Inv
  <2> QED
    BY <2>1, <2>2 DEF S_Inv, S_Types
<1>3. ASSUME NEW r \in reads[t]
      PROVE  r = [key |-> r.key, ver |-> S!Database[r.key]]
  <2>1. r.key \in Key /\ r = [key |-> r.key, ver |-> r.ver]
    BY DEF S_Inv, S_Types
  <2>2. r.key \in r_lock_list[t] \cup w_lock_list[t]
    BY <1>1 DEF S_Inv, S_ListsMatch, S_WorkerMatches
  <2>3. \A u \in Thread : r.key \notin unstored[u]
    BY <1>1, <2>1, <2>2, S_Exclusive DEF S_Inv, S_ListsMatch, S_WorkerMatches
  <2>4. S!Database[r.key] = value[r.key] /\ value[r.key] = r.ver
    BY <1>0, <1>1, <2>1, <2>3 DEF S_Holding, S_Inv, S!ReadsStayValid
  <2> QED
    BY <2>1, <2>4
<1>4. reads[t] = {[key |-> k, ver |-> S!Database[k]] : k \in R}
  BY <1>3
<1>5. unstored' = [unstored EXCEPT ![t] = write_set[t]] /\ UNCHANGED << value, txn >>
  BY DEF S!commit
<1>6. ASSUME NEW k \in Key
      PROVE  S!Database'[k] = IF k \in write_set[t] THEN S!Id(t) ELSE S!Database[k]
  <2>1. CASE k \in write_set[t]
    <3>1. k \in unstored'[t] /\ S!Id(t)' = S!Id(t)
      BY <1>5, <2>1 DEF S!Id, S_Inv, S_Types
    <3> QED
      BY <1>0, <2>1, <3>1 DEF S_Holding
  <2>2. CASE k \notin write_set[t] /\ \E u \in Thread : k \in unstored[u]
    <3>1. PICK u \in Thread : k \in unstored[u]
      BY <2>2
    <3>2. k \in unstored'[u] /\ S!Id(u)' = S!Id(u)
      BY <1>1, <1>5, <3>1 DEF S!Id, S_Inv, S_Types
    <3> QED
      BY <1>0, <2>2, <3>1, <3>2 DEF S_Holding
  <2>3. CASE k \notin write_set[t] /\ \A u \in Thread : k \notin unstored[u]
    <3>1. \A u \in Thread : k \notin unstored'[u]
      BY <1>5, <2>3 DEF S_Inv, S_Types
    <3> QED
      BY <1>0, <1>5, <2>3, <3>1 DEF S_Holding
  <2> QED
    BY <2>1, <2>2, <2>3
<1>7. S!Database' = [k \in Key |-> IF k \in write_set[t] THEN S!Id(t) ELSE S!Database[k]]
  BY <1>6 DEF S!Database
<1>8. committed' = Append(committed, [id |-> S!Id(t),
                                      reads |-> {[key |-> k, ver |-> S!Database[k]] : k \in R},
                                      writes |-> write_set[t]])
  BY <1>4 DEF S!commit
<1>9. /\ Len(committed') = Len(committed) + 1
      /\ committed'[Len(committed')].id = S!Id(t)
  BY <1>8 DEF S_Inv, S_Types
<1> HIDE DEF R
<1> QED
  BY <1>2, <1>7, <1>8, <1>9 DEF S!Serial!Next, S!Serial!Execute

\* store: the record already held the value.
LEMMA S_StoreStutters ==
    ASSUME S_Inv, S_Inv', NEW t \in Thread, S!store(t)
    PROVE  S!Database' = S!Database
<1>0. S_Holding /\ S_Holding'
  BY S_DatabaseHolds, S_DatabaseHoldsNext
<1>1. PICK k \in unstored[t] :
          /\ value' = [value EXCEPT ![k] = S!Id(t)]
          /\ unstored' = [unstored EXCEPT ![t] = unstored[t] \ {k}]
  BY DEF S!store
<1>2. k \in Key /\ UNCHANGED txn
  BY DEF S!store, S_Inv, S_Types
<1>3. \A u \in Thread : S!Id(u)' = S!Id(u)
  BY <1>2 DEF S!Id
<1>4. S!Database'[k] = S!Database[k]
  <2>1. \A u \in Thread : k \notin unstored'[u]
    BY <1>1, <1>2, S_Exclusive DEF S_Inv, S_Types, S_ListsMatch, S_WorkerMatches
  <2>2. S!Database'[k] = value'[k] /\ value'[k] = S!Id(t)
    BY <1>0, <1>1, <1>2, <2>1 DEF S_Holding, S_Inv, S_Types
  <2> QED
    BY <1>0, <1>2, <2>2 DEF S_Holding
<1>5. ASSUME NEW j \in Key, j # k
      PROVE  S!Database'[j] = S!Database[j]
  <2>1. value'[j] = value[j] /\ \A u \in Thread : j \in unstored'[u] <=> j \in unstored[u]
    BY <1>1, <1>5 DEF S_Inv, S_Types
  <2>2. CASE \E u \in Thread : j \in unstored[u]
    BY <1>0, <1>3, <2>1, <2>2 DEF S_Holding
  <2>3. CASE \A u \in Thread : j \notin unstored[u]
    BY <1>0, <2>1, <2>3 DEF S_Holding
  <2> QED
    BY <2>2, <2>3
<1> QED
  BY <1>4, <1>5 DEF S!Database

LEMMA S_StepSimulates ==
    ASSUME S_Inv, S_Inv', [S!Next]_S!vars
    PROVE  [S!Serial!Next]_<< S!Database, committed >>
<1> USE DEF S!lists, S!sets
<1>1. CASE S!Quit \/ S!Joined \/ UNCHANGED S!vars
  <2>1. UNCHANGED << value, unstored, txn, committed >>
    BY <1>1 DEF S!Quit, S!Joined, S!vars
  <2> QED
    BY <2>1, S_DatabaseKept
<1>2. ASSUME NEW t \in Thread, S!worker(t), ~S!commit(t), ~S!store(t)
      PROVE  UNCHANGED << S!Database, committed >>
  <2>1. UNCHANGED << value, unstored, committed >>
    BY <1>2 DEF S!worker, S!NextProcedure, S!leave, S!begin, S!hit, S!readLock, S!upgrade, S!writeLock, S!refuse,
                S!stored, S!readUnlock, S!writeUnlock, S!finish
  <2>2. UNCHANGED txn \/ S!finish(t)
    BY <1>2 DEF S!worker, S!NextProcedure, S!leave, S!begin, S!hit, S!readLock, S!upgrade, S!writeLock, S!refuse,
                S!stored, S!readUnlock, S!writeUnlock
  <2>3. ASSUME S!finish(t), NEW u \in Thread, unstored[u] # {}
        PROVE  txn'[u] = txn[u]
    BY <2>3 DEF S!finish, S_Inv, S_Types, S_ListsMatch, S_WorkerMatches
  <2> QED
    BY <2>1, <2>2, <2>3, S_DatabaseKept
<1>3. ASSUME NEW t \in Thread, S!store(t)
      PROVE  UNCHANGED << S!Database, committed >>
  BY <1>3, S_StoreStutters DEF S!store
<1> QED
  BY <1>1, <1>2, <1>3, S_CommitExecutes DEF S!Next

LEMMA S_SerialStepSame ==
    [S!Serial!Next]_<< S!Database, committed >> => [Serial!Next]_<< Database, committed >>
  BY Zenon DEF S!Serial!Next, Serial!Next, S!Serial!Execute, Serial!Execute,
               S!Database, Database, S!Id, Id, S!Txn, Txn

\* Transactions are executed as if one at a time, in the order in which they
\* begin to commit.
THEOREM SS2PLImplements == S!SS2PLAssumption /\ S!Spec => SerialExecution
<1>1. S!Init => Serial!Init
  BY DEF S!Init, Serial!Init, Database
<1>2. S_Inv /\ S_Inv' /\ [S!Next]_S!vars => [Serial!Next]_<< Database, committed >>
  BY S_StepSimulates, S_SerialStepSame
<1> QED
  BY <1>1, <1>2, S_Invariance, PTL DEF S!Spec, SerialExecution, Serial!Spec
=============================================================================
