----------------------- MODULE FixedLockManagerProofs -----------------------
(***************************************************************************)
(* The lock managers with arrays, for every number of workers, records and *)
(* transactions and every size of the arrays: what a transaction reads,    *)
(* and in which order records are written, is decided by the numbers of    *)
(* the transactions.                                                       *)
(*                                                                         *)
(* A transaction may have several entries in the same list, so a list is   *)
(* related to what its workers wait for by counting.  The argument runs    *)
(* while the transactions have the locks they need (Locking): in one       *)
(* program that ends with quit, and what has been committed then stays as  *)
(* it is.                                                                  *)
(***************************************************************************)
EXTENDS FixedLockManager, CommonProofs, SequenceTheorems, TLAPS

Version == TxId \cup {None}
Read == [key : Key, ver : Version]

Types ==
    /\ build \in {"determinism", "fixed"} /\ quit \in BOOLEAN
    /\ giant \in Thread \cup {None}
    /\ tx_counter \in Nat
    /\ pre \in [TxId -> Seq(Task)]
    /\ wait_list \in [Key -> Seq(TxId)]
    /\ lower \in [Key -> Nat]
    /\ lock \in [Key -> Int]
    /\ value \in [Key -> Version]
    /\ pc \in [Thread -> {"idle", "regist", "wait", "exec", "unlock", "done"}]
    /\ tx_id \in [Thread -> Version]
    /\ pos \in [Thread -> Nat \ {0}]
    /\ future \in [Thread -> Seq(Task)]
    /\ rlocks \in [Thread -> SUBSET Key]
    /\ wlocks \in [Thread -> SUBSET Key]
    /\ reads \in [Thread -> SUBSET Read]
    /\ committed \subseteq [id : TxId, reads : SUBSET Read, locked : BOOLEAN]
    /\ order \in [Key -> Seq(TxId)]

\* The transactions run with the locks they have asked for.
Locking == ~quit \/ build = "fixed"

\* The counters of the locks and the lists of their holders agree.
Counted == LocksAgree(Thread, Key, lock, rlocks, wlocks)

\* The tasks of transaction i before task n access k, or write it.
Touches(i, n, k) == \E m \in DOMAIN pre[i] : m < n /\ pre[i][m].key = k
Writes(i, n, k) ==
    \E m \in DOMAIN pre[i] : m < n /\ pre[i][m].key = k /\ pre[i][m].op = "WRITE"

\* Transaction i writes k.
WritesTo(i, k) ==
    \E m \in DOMAIN pre[i] : pre[i][m].key = k /\ pre[i][m].op = "WRITE"

Busy(t) == pc[t] \in {"regist", "wait", "exec", "unlock"}

\* No transaction is run by two workers, and none is run once it has committed.
Numbered ==
    /\ \A t \in Thread : Busy(t) => tx_id[t] \in TxId /\ tx_id[t] < tx_counter
    /\ \A t, u \in Thread : Busy(t) /\ Busy(u) /\ tx_id[t] = tx_id[u] => t = u
    /\ \A a \in committed :
          /\ a.id < tx_counter
          /\ \A t \in Thread : pc[t] \in {"regist", "wait", "exec"} => tx_id[t] # a.id

\* Who registers has the giant lock, for the transaction counted last.
WorkerMatches(t) ==
    /\ pc[t] = "regist" =>
          /\ giant = t /\ tx_counter = tx_id[t] + 1
          /\ rlocks[t] = {} /\ wlocks[t] = {}
    /\ pc[t] = "wait" => pos[t] = 1
    /\ pc[t] \notin {"regist", "wait"} => future[t] = << >>
    /\ ~Busy(t) => rlocks[t] = {} /\ wlocks[t] = {}
    /\ pc[t] \notin {"exec", "unlock"} => reads[t] = {}

Dispatched == Numbered /\ \A t \in Thread : WorkerMatches(t)

\* How far a worker has come in registering.
Reach(t) == IF pc[t] = "regist" THEN pos[t] ELSE Len(Tasks(t)) + 1

Has(t, k) == k \in rlocks[t] \cup wlocks[t]

\* The entries of a worker for k.
Asked(t, k) == {a \in DOMAIN future[t] : future[t][a].key = k}
Asks(t, k, op) == \E a \in Asked(t, k) : future[t][a].op = op

\* A worker waits for, or has, the lock on each record its tasks access, and for
\* writing if one writes; it asks for reading once, and before it has the lock.
Covered(t, k) ==
    pc[t] \in {"regist", "wait", "exec"} =>
        /\ Touches(tx_id[t], Reach(t), k) <=> Asked(t, k) # {} \/ Has(t, k)
        /\ Writes(tx_id[t], Reach(t), k) <=> Asks(t, k, "WRITE") \/ k \in wlocks[t]
        /\ Asks(t, k, "READ") => ~Has(t, k)

OneRead(t) ==
    \A a, b \in DOMAIN future[t] :
        future[t][a].op = "READ" /\ future[t][a] = future[t][b] => a = b

LocksCover == \A t \in Thread : OneRead(t) /\ \A k \in Key : Covered(t, k)

\* The slots of the wait list of k that have not been passed, and those of them
\* that hold transaction j.
Live(k) == lower[k] + 1 .. Len(wait_list[k])
Slots(k, j) == {n \in Live(k) : wait_list[k][n] = j}

\* The wait lists are in order, of transactions that have been counted ...
Sorted(k) ==
    /\ lower[k] <= Len(wait_list[k])
    /\ \A n \in Live(k) : wait_list[k][n] < tx_counter
    /\ \A m, n \in Live(k) : m < n => wait_list[k][m] <= wait_list[k][n]

\* ... and have a slot for each entry of a worker.
Queued(t, k) ==
    pc[t] \in {"regist", "wait"} =>
        Cardinality(Slots(k, tx_id[t])) = Cardinality(Asked(t, k))

ListsMatch == \A k \in Key : Sorted(k) /\ \A t \in Thread : Queued(t, k)

Base == Types /\ Counted /\ Dispatched /\ LocksCover /\ ListsMatch

\* Transaction j is counted, and its worker is past the wait list of k, which it
\* writes.
Behind(t, j, k) == pc[t] \in {"regist", "wait"} /\ tx_id[t] = j /\ k \notin wlocks[t]
Passed(j, k) == j < tx_counter /\ \A t \in Thread : ~Behind(t, j, k)

\* While a worker has a lock on k, the writers before it are past the wait list,
\* and while it has or waits for one, those after it are not.
InTurn ==
    \A t \in Thread, k \in Key, j \in TxId : WritesTo(j, k) =>
        /\ Has(t, k) /\ j < tx_id[t] => Passed(j, k)
        /\ Has(t, k) \/ Asked(t, k) # {} => ~(j > tx_id[t] /\ Passed(j, k))

\* The writers of k that are past the wait list.
PassedWriters(k) == {j \in TxId : WritesTo(j, k) /\ Passed(j, k)}

\* v is the last of S, or None if there is none.
Latest(S, v) ==
    /\ v = None \/ v \in S
    /\ \A j \in S : v # None /\ j <= v

MayWrite(t, k) == pc[t] \in {"wait", "exec"} /\ k \in wlocks[t]

\* What record k holds while t, who may write it, runs ...
WhileWritten(t, k) ==
    IF pc[t] = "exec" /\ Writes(tx_id[t], pos[t], k) THEN value[k] = tx_id[t]
    ELSE Latest(PassedWriters(k) \ {tx_id[t]}, value[k])

\* ... and at any other time.
HoldsAt(k) ==
    /\ \A t \in Thread : MayWrite(t, k) => WhileWritten(t, k)
    /\ (\A t \in Thread : ~MayWrite(t, k)) => Latest(PassedWriters(k), value[k])

Holding == \A k \in Key : HoldsAt(k)

\* Version v of k is in the database, or it is the loaded one.
Stored(k, v) == v = None \/ \E m \in DOMAIN order[k] : order[k][m] = v

\* r is what the transactions before i, and i itself, determine.
Decided(i, r) ==
    /\ r.ver = None \/ (r.ver \in TxId /\ r.ver <= i /\ WritesTo(r.ver, r.key))
    /\ \A j \in TxId : WritesTo(j, r.key) /\ j < i => r.ver # None /\ j <= r.ver

\* The transactions that have committed with their locks.
Locked == {a \in committed : a.locked}

ReadsDecided ==
    /\ \A t \in Thread : \A r \in reads[t] : Decided(tx_id[t], r) /\ Stored(r.key, r.ver)
    /\ \A a \in Locked : \A r \in a.reads : Decided(a.id, r) /\ Stored(r.key, r.ver)

\* The writers of a record are past its wait list, and in order.
OrderIncreasing ==
    \A k \in Key :
        /\ Stored(k, value[k])
        /\ \A i \in DOMAIN order[k] : WritesTo(order[k][i], k) /\ Passed(order[k][i], k)
        /\ \A i, j \in DOMAIN order[k] : i < j => order[k][i] < order[k][j]

Orderly == Base /\ InTurn /\ Holding /\ ReadsDecided /\ OrderIncreasing

\* What has been committed with locks, whatever happens later.
Settled ==
    /\ \A a \in Locked : \A r \in a.reads : Decided(a.id, r) /\ Stored(r.key, r.ver)
    /\ \A a, b \in Locked : MustPrecede(order, a, b) => a.id < b.id

\* No transaction is in the history of a record twice.
StoredOnce ==
    \A k \in Key : \A i, j \in DOMAIN order[k] : order[k][i] = order[k][j] => i = j

\* While the transactions have their locks they are orderly, and what they have
\* committed is settled then.
Inv == Types /\ Numbered /\ StoredOnce /\ IF Locking THEN Orderly ELSE Settled

-----------------------------------------------------------------------------
(* Tasks *)

LEMMA TasksTyped ==
    ASSUME Types, NEW i \in TxId
    PROVE  /\ pre[i] \in Seq(Task) /\ Len(pre[i]) \in Nat
           /\ DOMAIN pre[i] = 1 .. Len(pre[i])
           /\ \A n \in 1 .. Len(pre[i]) :
                 /\ pre[i][n] \in Task
                 /\ pre[i][n].op \in {"READ", "WRITE"} /\ pre[i][n].key \in Key
<1>1. pre[i] \in Seq(Task)
  BY DEF Types
<1>2. Len(pre[i]) \in Nat /\ DOMAIN pre[i] = 1 .. Len(pre[i])
  BY <1>1
<1>3. \A n \in 1 .. Len(pre[i]) : pre[i][n] \in Task
  BY <1>1
<1> QED
  BY <1>1, <1>2, <1>3 DEF Task

\* The tasks before n + 1 are those before n, and n.
LEMMA TaskNext ==
    ASSUME Types, NEW i \in TxId, NEW n \in 1 .. Len(pre[i]), NEW k
    PROVE  /\ Touches(i, n + 1, k) <=> Touches(i, n, k) \/ pre[i][n].key = k
           /\ Writes(i, n + 1, k) <=>
                  Writes(i, n, k) \/ (pre[i][n].op = "WRITE" /\ pre[i][n].key = k)
<1>1. n \in Nat /\ DOMAIN pre[i] = 1 .. Len(pre[i]) /\ Len(pre[i]) \in Nat
  BY TasksTyped
<1>2. \A m \in DOMAIN pre[i] : m < n + 1 <=> m < n \/ m = n
  BY <1>1
<1>3. Touches(i, n + 1, k) <=> Touches(i, n, k) \/ pre[i][n].key = k
  BY <1>1, <1>2 DEF Touches
<1>4. Writes(i, n + 1, k) <=>
          Writes(i, n, k) \/ (pre[i][n].op = "WRITE" /\ pre[i][n].key = k)
  BY <1>1, <1>2 DEF Writes
<1> QED
  BY <1>3, <1>4

\* Before the first task there is none; past the last, all are.
LEMMA TaskEnds ==
    ASSUME Types, NEW i \in TxId, NEW k
    PROVE  /\ ~Touches(i, 1, k) /\ ~Writes(i, 1, k)
           /\ \A n \in Nat : Writes(i, n, k) => WritesTo(i, k) /\ Touches(i, n, k)
           /\ \A n \in Nat : n > Len(pre[i]) =>
                 /\ Touches(i, n, k) <=> Touches(i, Len(pre[i]) + 1, k)
                 /\ Writes(i, n, k) <=> WritesTo(i, k)
<1>1. DOMAIN pre[i] = 1 .. Len(pre[i]) /\ Len(pre[i]) \in Nat
  BY TasksTyped
<1>2. \A m \in DOMAIN pre[i] : m \in Nat /\ m >= 1 /\ m <= Len(pre[i])
  BY <1>1
<1>3. ~Touches(i, 1, k) /\ ~Writes(i, 1, k)
  BY <1>2 DEF Touches, Writes
<1>4. ASSUME NEW n \in Nat, n > Len(pre[i])
      PROVE  \A m \in DOMAIN pre[i] : m < n /\ m < Len(pre[i]) + 1
  BY <1>1, <1>2, <1>4
<1>5. ASSUME NEW n \in Nat, n > Len(pre[i])
      PROVE  /\ Touches(i, n, k) <=> Touches(i, Len(pre[i]) + 1, k)
             /\ Writes(i, n, k) <=> WritesTo(i, k)
  BY <1>4, <1>5 DEF Touches, Writes, WritesTo
<1>6. \A n \in Nat : Writes(i, n, k) => WritesTo(i, k) /\ Touches(i, n, k)
  BY DEF Writes, WritesTo, Touches
<1> QED
  BY <1>3, <1>5, <1>6

\* The task a worker registers or executes.
LEMMA TaskAt ==
    ASSUME Types, Numbered, NEW t \in Thread, Busy(t), pos[t] <= Len(Tasks(t))
    PROVE  /\ tx_id[t] \in TxId /\ Tasks(t) = pre[tx_id[t]]
           /\ pos[t] \in 1 .. Len(pre[tx_id[t]])
           /\ Tasks(t)[pos[t]] \in Task
           /\ Tasks(t)[pos[t]].key \in Key
           /\ Tasks(t)[pos[t]].op \in {"READ", "WRITE"}
<1>1. tx_id[t] \in TxId /\ Tasks(t) = pre[tx_id[t]]
  BY DEF Numbered, Tasks
<1>2. pos[t] \in 1 .. Len(Tasks(t))
  BY <1>1, TasksTyped DEF Types
<1> QED
  BY <1>1, <1>2, TasksTyped

\* dup_check tells whether, and how, the record has been accessed before.
LEMMA DupCheck ==
    ASSUME Types, Numbered, NEW t \in Thread, Busy(t), pos[t] <= Len(Tasks(t)), NEW k
    PROVE  /\ dup_check(t, k) \in {"NONE", "READ", "WRITE"}
           /\ dup_check(t, k) = "NONE" <=> ~Touches(tx_id[t], pos[t], k)
           /\ dup_check(t, k) = "WRITE" => Writes(tx_id[t], pos[t], k)
<1> DEFINE i == tx_id[t]
           earlier == {m \in 1 .. pos[t] - 1 : Tasks(t)[m].key = k}
           first == CHOOSE m \in earlier : \A j \in earlier : m <= j
<1>1. i \in TxId /\ Tasks(t) = pre[i] /\ pos[t] \in 1 .. Len(pre[i])
  BY TaskAt
<1>2. DOMAIN pre[i] = 1 .. Len(pre[i]) /\ Len(pre[i]) \in Nat
  BY <1>1, TasksTyped
<1>3. \A m : m \in earlier <=> m \in DOMAIN pre[i] /\ m < pos[t] /\ pre[i][m].key = k
  BY <1>1, <1>2
<1>4. earlier = {} <=> ~Touches(i, pos[t], k)
  BY <1>3 DEF Touches
<1>5. CASE earlier = {}
  BY <1>4, <1>5 DEF dup_check
<1>6. CASE earlier # {}
  <2>1. earlier \subseteq Nat
    BY <1>1
  <2>2. first \in earlier
    <3> HIDE DEF earlier
    <3> QED
      BY <1>6, <2>1, HasMinimum
  <2>3. dup_check(t, k) = pre[i][first].op
    BY <1>1, <1>6 DEF dup_check
  <2> HIDE DEF first
  <2>4. first \in DOMAIN pre[i] /\ first < pos[t] /\ pre[i][first].key = k
    BY <1>3, <2>2
  <2>5. pre[i][first].op \in {"READ", "WRITE"}
    BY <1>1, <1>2, <2>4, TasksTyped
  <2>6. dup_check(t, k) = "WRITE" => Writes(i, pos[t], k)
    BY <2>3, <2>4 DEF Writes
  <2> QED
    BY <1>4, <1>6, <2>3, <2>5, <2>6
<1> QED
  BY <1>5, <1>6

\* Striking one element off a sequence.
LEMMA Strike ==
    ASSUME NEW S, NEW s \in Seq(S), NEW i \in 1 .. Len(s)
    PROVE  /\ RemoveAt(s, i) \in Seq(S)
           /\ Len(RemoveAt(s, i)) = Len(s) - 1
           /\ DOMAIN RemoveAt(s, i) = 1 .. Len(s) - 1
           /\ \A m \in 1 .. Len(s) - 1 :
                 RemoveAt(s, i)[m] = IF m < i THEN s[m] ELSE s[m + 1]
<1> DEFINE a == SubSeq(s, 1, i - 1)
           b == SubSeq(s, i + 1, Len(s))
<1>1. Len(s) \in Nat /\ i \in Nat /\ \A m \in 1 .. Len(s) : s[m] \in S
  OBVIOUS
<1>2. /\ a \in Seq(S) /\ Len(a) = i - 1
      /\ \A m \in 1 .. i - 1 : a[m] = s[m]
  <2>1. \A m \in 1 .. i - 1 : s[m] \in S
    BY <1>1
  <2> HIDE DEF a
  <2>2. /\ a \in Seq(S) /\ Len(a) = IF 1 <= i - 1 THEN i - 1 - 1 + 1 ELSE 0
        /\ \A m \in 1 .. i - 1 - 1 + 1 : a[m] = s[1 + m - 1]
    BY <1>1, <2>1, SubSeqProperties DEF a
  <2> QED
    BY <1>1, <2>2
<1>3. /\ b \in Seq(S) /\ Len(b) = Len(s) - i
      /\ \A m \in 1 .. Len(s) - i : b[m] = s[i + m]
  <2>1. \A m \in i + 1 .. Len(s) : s[m] \in S
    BY <1>1
  <2> HIDE DEF b
  <2>2. /\ b \in Seq(S) /\ Len(b) = IF i + 1 <= Len(s) THEN Len(s) - (i + 1) + 1 ELSE 0
        /\ \A m \in 1 .. Len(s) - (i + 1) + 1 : b[m] = s[i + 1 + m - 1]
    BY <1>1, <2>1, SubSeqProperties DEF b
  <2> QED
    BY <1>1, <2>2
<1>4. RemoveAt(s, i) = a \o b
  BY DEF RemoveAt
<1> HIDE DEF a, b
<1>5. /\ a \o b \in Seq(S) /\ Len(a \o b) = Len(s) - 1
      /\ \A m \in 1 .. Len(s) - 1 :
            (a \o b)[m] = IF m <= i - 1 THEN a[m] ELSE b[m - (i - 1)]
  BY <1>1, <1>2, <1>3, ConcatProperties
<1>6. ASSUME NEW m \in 1 .. Len(s) - 1
      PROVE  (a \o b)[m] = IF m < i THEN s[m] ELSE s[m + 1]
  <2>1. CASE m < i
    BY <1>1, <1>2, <1>5, <2>1
  <2>2. CASE ~(m < i)
    <3>1. m - (i - 1) \in 1 .. Len(s) - i /\ i + (m - (i - 1)) = m + 1 /\ ~(m <= i - 1)
      BY <1>1, <2>2
    <3> QED
      BY <1>3, <1>5, <2>2, <3>1
  <2> QED
    BY <2>1, <2>2
<1>7. DOMAIN (a \o b) = 1 .. Len(s) - 1
  BY <1>5, LenProperties
<1> QED
  BY <1>4, <1>5, <1>6, <1>7

\* An entry of a worker.
LEMMA EntryAt ==
    ASSUME Types, NEW t \in Thread, NEW i \in DOMAIN future[t]
    PROVE  /\ future[t] \in Seq(Task) /\ Len(future[t]) \in Nat
           /\ DOMAIN future[t] = 1 .. Len(future[t]) /\ i \in 1 .. Len(future[t])
           /\ future[t][i] \in Task /\ future[t][i].key \in Key
           /\ future[t][i].op \in {"READ", "WRITE"}
<1>1. future[t] \in Seq(Task)
  BY DEF Types
<1>2. /\ Len(future[t]) \in Nat /\ DOMAIN future[t] = 1 .. Len(future[t])
      /\ future[t][i] \in Task
  BY <1>1
<1> QED
  BY <1>1, <1>2 DEF Task

-----------------------------------------------------------------------------
(* What the steps do *)

\* Transactions are drawn before the run, and one program runs.
LEMMA PreKept ==
    ASSUME [Next]_vars
    PROVE  pre' = pre /\ build' = build
<1>1. ASSUME NEW t \in Thread, worker(t)
      PROVE  pre' = pre /\ build' = build
  BY <1>1 DEF worker, leave, acquireGiant, regist, releaseGiant, check_waitlist, readLock,
     upgrade, drop, writeLock, Dequeues, giveUp, execute, commit, readUnlock, writeUnlock,
     finish, dispatch
<1>2. CASE Timer \/ Ended \/ UNCHANGED vars
  BY <1>2 DEF Timer, Quit, Ended, vars, dispatch
<1> QED
  BY <1>1, <1>2 DEF Next, Running

\* What regist does: it enters the list, for a read if that is the first access ...
Registers(t, task) ==
    /\ task.op = "READ" => ~Touches(tx_id[t], pos[t], task.key)
    /\ wait_list' = [wait_list EXCEPT ![task.key] = Append(@, tx_id[t])]
    /\ future' = [future EXCEPT ![t] = Append(@, task)]

\* ... or there is an entry for the task already.
Repeats(t, task) ==
    /\ Touches(tx_id[t], pos[t], task.key)
    /\ task.op = "WRITE" => Writes(tx_id[t], pos[t], task.key)
    /\ wait_list' = wait_list /\ future' = future

LEMMA RegistEffect ==
    ASSUME Types, Numbered, NEW t \in Thread, regist(t)
    PROVE  LET task == Tasks(t)[pos[t]]
           IN /\ pc[t] = "regist" /\ pos[t] <= Len(Tasks(t)) /\ Busy(t)
              /\ Registers(t, task) \/ Repeats(t, task)
              /\ pos' = [pos EXCEPT ![t] = @ + 1] /\ lower' = lower
              /\ UNCHANGED << dispatch, quit, held, records, pc, tx_id, history >>
<1> DEFINE task == Tasks(t)[pos[t]]
           dup == dup_check(t, task.key)
<1>1. /\ pc[t] = "regist" /\ pos[t] <= Len(Tasks(t)) /\ Busy(t)
      /\ pos' = [pos EXCEPT ![t] = @ + 1]
      /\ UNCHANGED << dispatch, quit, held, records, pc, tx_id, history >>
  BY DEF regist, Busy
<1>2. task.op \in {"READ", "WRITE"}
  BY <1>1, TaskAt
<1>3. /\ dup \in {"NONE", "READ", "WRITE"}
      /\ dup = "NONE" <=> ~Touches(tx_id[t], pos[t], task.key)
      /\ dup = "WRITE" => Writes(tx_id[t], pos[t], task.key)
  BY <1>1, DupCheck
<1>4. \/ /\ Enters(task, dup) /\ wait_add(t, task.key)
         /\ future' = [future EXCEPT ![t] = Append(@, task)]
      \/ ~Enters(task, dup) /\ UNCHANGED << lists, exited, future >>
  BY DEF regist
<1> HIDE DEF task, dup
<1>5. CASE /\ Enters(task, dup) /\ wait_add(t, task.key)
           /\ future' = [future EXCEPT ![t] = Append(@, task)]
  <2>1. task.op = "READ" => ~Touches(tx_id[t], pos[t], task.key)
    BY <1>3, <1>5 DEF Enters
  <2>2. wait_list' = [wait_list EXCEPT ![task.key] = Append(@, tx_id[t])] /\ lower' = lower
    BY <1>5 DEF wait_add
  <2> QED
    BY <1>1, <1>5, <2>1, <2>2 DEF Registers, task
<1>6. CASE ~Enters(task, dup) /\ UNCHANGED << lists, exited, future >>
  <2>1. /\ Touches(tx_id[t], pos[t], task.key)
        /\ task.op = "WRITE" => Writes(tx_id[t], pos[t], task.key)
    BY <1>2, <1>3, <1>6 DEF Enters
  <2>2. wait_list' = wait_list /\ lower' = lower /\ future' = future
    BY <1>6 DEF lists
  <2> QED
    BY <1>1, <2>1, <2>2 DEF Repeats, task
<1> QED
  BY <1>4, <1>5, <1>6

\* One of the entries a worker waits with is served.
Serves(t, i) == readLock(t, i) \/ upgrade(t, i) \/ drop(t, i) \/ writeLock(t, i)

\* What becomes of the locks: a read lock, a read lock turned into a write lock, no
\* change with an entry for the same record left, or a write lock.
Reading(t, k) ==
    /\ CanReadLock(lock[k]) /\ lock' = [lock EXCEPT ![k] = ReadLock(@)]
    /\ rlocks' = [rlocks EXCEPT ![t] = @ \cup {k}] /\ wlocks' = wlocks

Upgrading(t, k) ==
    /\ k \in rlocks[t] /\ CanUpgrade(lock[k]) /\ lock' = [lock EXCEPT ![k] = Upgrade(@)]
    /\ wlocks' = [wlocks EXCEPT ![t] = @ \cup {k}]
    /\ rlocks' = [rlocks EXCEPT ![t] = @ \ {k}]

Dropping(t, k) ==
    /\ build = "fixed" /\ k \in rlocks[t] /\ NextIsOwn(t, k)
    /\ lock' = lock /\ rlocks' = rlocks /\ wlocks' = wlocks

Writing(t, k) ==
    /\ k \notin rlocks[t] /\ ~NextIsOwn(t, k)
    /\ CanWriteLock(lock[k]) /\ lock' = [lock EXCEPT ![k] = WriteLock(@)]
    /\ wlocks' = [wlocks EXCEPT ![t] = @ \cup {k}] /\ rlocks' = rlocks

LEMMA ServeEffect ==
    ASSUME Types, NEW t \in Thread, NEW i \in DOMAIN future[t], Serves(t, i)
    PROVE  LET f == future[t][i]
               rest == RemoveAt(future[t], i)
           IN /\ f \in Task /\ f.key \in Key /\ AtHead(t, f.key)
              /\ rest \in Seq(Task)
              /\ lower' = [lower EXCEPT ![f.key] = @ + 1] /\ wait_list' = wait_list
              /\ future' = [future EXCEPT ![t] = rest]
              /\ pc' = [pc EXCEPT ![t] = IF rest = << >> THEN "exec" ELSE @]
              /\ \/ f.op = "READ" /\ Reading(t, f.key)
                 \/ f.op = "WRITE" /\ (\/ Upgrading(t, f.key)
                                       \/ Dropping(t, f.key)
                                       \/ Writing(t, f.key))
              /\ UNCHANGED << dispatch, quit, records, tx_id, pos, history >>
<1> DEFINE f == future[t][i]
           rest == RemoveAt(future[t], i)
<1>1. /\ future[t] \in Seq(Task) /\ i \in 1 .. Len(future[t])
      /\ f \in Task /\ f.key \in Key
  BY EntryAt
<1>2. rest \in Seq(Task)
  BY <1>1, Strike
<1>3. Dequeues(t, i) /\ AtHead(t, f.key)
  BY DEF Serves, readLock, upgrade, drop, writeLock
<1>4. /\ lower' = [lower EXCEPT ![f.key] = @ + 1]
      /\ future' = [future EXCEPT ![t] = rest]
      /\ IF rest = << >> THEN pc' = [pc EXCEPT ![t] = "exec"] ELSE pc' = pc
      /\ wait_list' = wait_list
      /\ UNCHANGED << dispatch, quit, records, tx_id, pos, history >>
  BY <1>3 DEF Dequeues, Goto
<1>5. \/ f.op = "READ" /\ Reading(t, f.key)
      \/ f.op = "WRITE" /\ (\/ Upgrading(t, f.key)
                            \/ Dropping(t, f.key)
                            \/ Writing(t, f.key))
  BY DEF Serves, readLock, upgrade, drop, writeLock, Reading, Upgrading, Dropping,
     Writing,
         held
<1> HIDE DEF f, rest
<1>6. pc' = [pc EXCEPT ![t] = IF rest = << >> THEN "exec" ELSE @]
  BY <1>4 DEF Types
<1> QED
  BY <1>1, <1>2, <1>3, <1>4, <1>5, <1>6 DEF f, rest

\* The entry check_waitlist serves.
LEMMA Served ==
    ASSUME NEW t \in Thread, check_waitlist(t)
    PROVE  pc[t] = "wait" /\ \E i \in DOMAIN future[t] : Serves(t, i)
BY DEF check_waitlist, Serves

LEMMA AcquireEffect ==
    ASSUME Types, NEW t \in Thread, acquireGiant(t)
    PROVE  /\ giant = None /\ giant' = t /\ pc[t] = "idle" /\ ~Busy(t) /\ ~quit
           /\ \/ /\ pc'[t] = "done" /\ tx_counter' = tx_counter /\ UNCHANGED << tx_id, pos >>
              \/ /\ pc'[t] = "regist" /\ tx_counter' = tx_counter + 1 /\ pos'[t] = 1
                 /\ tx_id'[t] = tx_counter /\ tx_counter \in TxId
           /\ UNCHANGED << quit, lists, held, records, future, history >>
<1>1. tx_counter < PRE_NUM => tx_counter \in TxId
  BY FixedLockManagerAssumption DEF Types, TxId
<1>2. /\ pc \in [Thread -> {"idle", "regist", "wait", "exec", "unlock", "done"}]
      /\ tx_id \in [Thread -> Version] /\ pos \in [Thread -> Nat \ {0}]
      /\ tx_counter \in Nat /\ PRE_NUM \in Nat
  BY FixedLockManagerAssumption DEF Types
<1> QED
  BY <1>1, <1>2 DEF acquireGiant, Goto, Busy

-----------------------------------------------------------------------------
(* The initial state *)

LEMMA InitInv == Init => Inv
<1> SUFFICES ASSUME Init
             PROVE  Inv
  OBVIOUS
<1> USE FixedLockManagerAssumption
<1>1. Types
  <2>1. pre \in [TxId -> Seq(Task)]
    BY DEF Init
  <2>2. /\ lock \in [Key -> Int] /\ value \in [Key -> Version]
        /\ order \in [Key -> Seq(TxId)] /\ wait_list \in [Key -> Seq(TxId)]
        /\ lower \in [Key -> Nat] /\ committed = {}
    BY DEF Init, Version, Free
  <2>3. /\ pc \in [Thread -> {"idle", "regist", "wait", "exec", "unlock", "done"}]
        /\ tx_id \in [Thread -> Version] /\ pos \in [Thread -> Nat \ {0}]
        /\ future \in [Thread -> Seq(Task)]
    BY DEF Init, Version
  <2>4. /\ rlocks \in [Thread -> SUBSET Key] /\ wlocks \in [Thread -> SUBSET Key]
        /\ reads \in [Thread -> SUBSET Read]
    BY DEF Init
  <2>5. /\ build \in {"determinism", "fixed"} /\ quit \in BOOLEAN /\ giant = None
        /\ tx_counter = 0
    BY DEF Init
  <2> QED
    BY <2>1, <2>2, <2>3, <2>4, <2>5 DEF Types
<1>2. Counted
  BY FreeAgrees DEF Init, Counted
<1>3. /\ \A t \in Thread : /\ pc[t] = "idle" /\ future[t] = << >> /\ reads[t] = {}
                           /\ rlocks[t] = {} /\ wlocks[t] = {}
      /\ \A k \in Key : wait_list[k] = << >> /\ order[k] = << >> /\ value[k] = None
      /\ committed = {} /\ tx_counter = 0
  BY DEF Init
<1>4. Dispatched
  BY <1>3 DEF Dispatched, Numbered, WorkerMatches, Busy
<1>5. LocksCover
  BY <1>3 DEF LocksCover, OneRead, Covered
<1>6. ListsMatch
  <2>1. \A k \in Key : Live(k) = {} /\ lower[k] <= Len(wait_list[k])
    BY <1>3 DEF Live, Init
  <2> QED
    BY <1>3, <2>1 DEF ListsMatch, Sorted, Queued
<1>7. InTurn
  <2>1. \A t \in Thread, k \in Key : ~Has(t, k) /\ Asked(t, k) = {}
    BY <1>3 DEF Has, Asked
  <2> QED
    BY <2>1 DEF InTurn
<1>8. Holding
  <2>1. \A j \in TxId : \A k : ~Passed(j, k)
    BY <1>3 DEF Passed, TxId
  <2> QED
    BY <1>3, <2>1 DEF Holding, HoldsAt, MayWrite, Latest, PassedWriters
<1>9. ReadsDecided /\ OrderIncreasing /\ Settled /\ StoredOnce
  BY <1>3 DEF ReadsDecided, OrderIncreasing, Stored, StoredOnce, Locked, Settled
<1> QED
  BY <1>1, <1>2, <1>4, <1>5, <1>6, <1>7, <1>8, <1>9 DEF Inv, Orderly, Base, Dispatched

-----------------------------------------------------------------------------
(* Types *)

LEMMA RegistTypes ==
    ASSUME Types, Numbered, NEW t \in Thread, regist(t)
    PROVE  wait_list' \in [Key -> Seq(TxId)] /\ future' \in [Thread -> Seq(Task)]
<1> DEFINE task == Tasks(t)[pos[t]]
<1>1. pc[t] = "regist" /\ pos[t] <= Len(Tasks(t)) /\ Busy(t)
  BY RegistEffect
<1>2. task \in Task /\ task.key \in Key /\ tx_id[t] \in TxId
  BY <1>1, TaskAt
<1>3. Registers(t, task) \/ Repeats(t, task)
  BY RegistEffect
<1> HIDE DEF task
<1>4. wait_list \in [Key -> Seq(TxId)] /\ future \in [Thread -> Seq(Task)]
  BY DEF Types
<1>5. CASE Registers(t, task)
  <2>1. Append(wait_list[task.key], tx_id[t]) \in Seq(TxId)
    BY <1>2, <1>4
  <2>2. Append(future[t], task) \in Seq(Task)
    BY <1>2, <1>4
  <2> QED
    BY <1>4, <1>5, <2>1, <2>2 DEF Registers
<1>6. CASE Repeats(t, task)
  BY <1>4, <1>6 DEF Repeats
<1> QED
  BY <1>3, <1>5, <1>6

\* The locks a serving worker has.
LEMMA ServeLocks ==
    ASSUME Types, NEW t \in Thread, NEW i \in DOMAIN future[t], Serves(t, i)
    PROVE  /\ lock' \in [Key -> Int]
           /\ rlocks' \in [Thread -> SUBSET Key] /\ wlocks' \in [Thread -> SUBSET Key]
<1> DEFINE k == future[t][i].key
<1>1. /\ k \in Key
      /\ Reading(t, k) \/ Upgrading(t, k) \/ Dropping(t, k) \/ Writing(t, k)
  BY ServeEffect
<1> HIDE DEF k
<1>2. /\ lock \in [Key -> Int]
      /\ rlocks \in [Thread -> SUBSET Key] /\ wlocks \in [Thread -> SUBSET Key]
  BY DEF Types
<1>3. CASE Reading(t, k)
  BY <1>1, <1>2, <1>3 DEF Reading, ReadLock
<1>4. CASE Upgrading(t, k)
  BY <1>1, <1>2, <1>4 DEF Upgrading, Upgrade, WriteLocked
<1>5. CASE Dropping(t, k)
  BY <1>2, <1>5 DEF Dropping
<1>6. CASE Writing(t, k)
  BY <1>1, <1>2, <1>6 DEF Writing, WriteLock, WriteLocked
<1> QED
  BY <1>1, <1>3, <1>4, <1>5, <1>6

LEMMA TypesStep ==
    ASSUME Types, Numbered, [Next]_vars
    PROVE  Types'
<1> USE DEF dispatch, lists, held, records, history, Goto
<1>1. CASE Timer
  BY <1>1 DEF Timer, Quit, Types
<1>2. CASE Ended \/ UNCHANGED vars
  BY <1>2 DEF Ended, vars, Types
<1>3. ASSUME NEW t \in Thread, worker(t)
      PROVE  Types'
  <2>1. CASE leave(t) \/ giveUp(t)
    BY <2>1 DEF leave, giveUp, Types
  <2>2. CASE acquireGiant(t)
    <3>1. tx_counter < PRE_NUM => tx_counter \in Version
      BY FixedLockManagerAssumption DEF Types, TxId, Version
    <3>2. tx_counter \in Nat /\ PRE_NUM \in Nat
      BY FixedLockManagerAssumption DEF Types
    <3>3. giant' \in Thread \cup {None} /\ tx_counter' \in Nat
      BY <2>2, <3>2 DEF acquireGiant, Types
    <3>4. pc \in [Thread -> {"idle", "regist", "wait", "exec", "unlock", "done"}]
      BY DEF Types
    <3>5. pc' \in [Thread -> {"idle", "regist", "wait", "exec", "unlock", "done"}]
      BY <2>2, <3>4 DEF acquireGiant
    <3>6. tx_id \in [Thread -> Version] /\ pos \in [Thread -> Nat \ {0}]
      BY DEF Types
    <3>7. tx_id' \in [Thread -> Version] /\ pos' \in [Thread -> Nat \ {0}]
      BY <2>2, <3>1, <3>2, <3>6 DEF acquireGiant
    <3>8. UNCHANGED << build, quit, pre, lists, held, records, future, history >>
      BY <2>2 DEF acquireGiant
    <3> QED
      BY <3>3, <3>5, <3>7, <3>8 DEF Types
  <2>3. CASE regist(t)
    <3>1. wait_list' \in [Key -> Seq(TxId)] /\ future' \in [Thread -> Seq(Task)]
      BY <2>3, RegistTypes
    <3>2. /\ pos' = [pos EXCEPT ![t] = @ + 1] /\ lower' = lower
          /\ UNCHANGED << dispatch, quit, held, records, pc, tx_id, history >>
      BY <2>3, RegistEffect
    <3> QED
      BY <3>1, <3>2 DEF Types
  <2>4. CASE releaseGiant(t)
    BY <2>4 DEF releaseGiant, Types
  <2>5. CASE check_waitlist(t)
    <3>0. PICK i \in DOMAIN future[t] : Serves(t, i)
      BY <2>5, Served
    <3> DEFINE k == future[t][i].key
               rest == RemoveAt(future[t], i)
    <3>1. /\ k \in Key /\ rest \in Seq(Task)
          /\ lower' = [lower EXCEPT ![k] = @ + 1] /\ wait_list' = wait_list
          /\ future' = [future EXCEPT ![t] = rest]
          /\ pc' = [pc EXCEPT ![t] = IF rest = << >> THEN "exec" ELSE @]
          /\ UNCHANGED << dispatch, quit, records, tx_id, pos, history >>
      BY <3>0, ServeEffect
    <3>2. /\ lock' \in [Key -> Int]
          /\ rlocks' \in [Thread -> SUBSET Key] /\ wlocks' \in [Thread -> SUBSET Key]
      BY <3>0, ServeLocks
    <3> HIDE DEF k, rest
    <3>3. pc' \in [Thread -> {"idle", "regist", "wait", "exec", "unlock", "done"}]
      <4>1. pc \in [Thread -> {"idle", "regist", "wait", "exec", "unlock", "done"}]
        BY DEF Types
      <4> QED
        BY ONLY <3>1, <4>1
    <3>4. future' \in [Thread -> Seq(Task)]
      <4>1. future \in [Thread -> Seq(Task)]
        BY DEF Types
      <4> QED
        BY ONLY <3>1, <4>1
    <3>5. lower' \in [Key -> Nat]
      <4>1. lower \in [Key -> Nat]
        BY DEF Types
      <4> QED
        BY ONLY <3>1, <4>1
    <3> QED
      BY <3>1, <3>2, <3>3, <3>4, <3>5 DEF Types
  <2>6. CASE execute(t)
    <3> DEFINE k == Tasks(t)[pos[t]].key
               r == [key |-> k, ver |-> value[k]]
    <3>1. k \in Key /\ tx_id[t] \in TxId
      BY <2>6, TaskAt DEF execute, Busy
    <3>2. r \in Read
      BY <3>1 DEF Read, Types
    <3>3. \/ reads' = [reads EXCEPT ![t] = @ \cup {r}] /\ UNCHANGED records
          \/ /\ reads' = reads /\ value' = [value EXCEPT ![k] = tx_id[t]]
             /\ order' = order \/ order' = [order EXCEPT ![k] = Append(@, tx_id[t])]
      BY <2>6 DEF execute
    <3> HIDE DEF r, k
    <3>4. reads \in [Thread -> SUBSET Read] /\ value \in [Key -> Version]
          /\ order \in [Key -> Seq(TxId)]
      BY DEF Types
    <3>5. reads' \in [Thread -> SUBSET Read]
      <4>1. reads[t] \cup {r} \in SUBSET Read
        BY <3>2, <3>4
      <4> QED
        BY ONLY <3>3, <3>4, <4>1
    <3>6. value' \in [Key -> Version] /\ order' \in [Key -> Seq(TxId)]
      <4>1. Append(order[k], tx_id[t]) \in Seq(TxId) /\ tx_id[t] \in Version
        BY <3>1, <3>4 DEF Version
      <4> QED
        BY <3>3, <3>4, <4>1
    <3>7. pos' \in [Thread -> Nat \ {0}]
      <4>1. pos \in [Thread -> Nat \ {0}]
        BY DEF Types
      <4>2. pos' = [pos EXCEPT ![t] = @ + 1]
        BY <2>6 DEF execute
      <4> QED
        BY ONLY <4>1, <4>2
    <3>8. UNCHANGED << dispatch, quit, lists, held, pc, tx_id, future, committed >>
      BY <2>6 DEF execute
    <3> QED
      BY <3>5, <3>6, <3>7, <3>8 DEF Types
  <2>7. CASE commit(t)
    <3> DEFINE a == [id |-> tx_id[t], reads |-> reads[t],
                     locked |-> ~quit \/ build = "fixed"]
    <3>1. tx_id[t] \in TxId
      BY <2>7 DEF commit, Numbered, Busy
    <3>2. a \in [id : TxId, reads : SUBSET Read, locked : BOOLEAN]
      BY <3>1 DEF Types
    <3>3. committed' = committed \cup {a}
      BY <2>7 DEF commit
    <3> HIDE DEF a
    <3>4. committed' \subseteq [id : TxId, reads : SUBSET Read, locked : BOOLEAN]
      BY <3>2, <3>3 DEF Types
    <3>5. /\ pc' = [pc EXCEPT ![t] = "unlock"]
          /\ UNCHANGED << dispatch, quit, lists, held, records, tx_id, pos, future, reads >>
      BY <2>7 DEF commit
    <3> QED
      BY <3>4, <3>5 DEF Types
  <2>8. CASE readUnlock(t)
    BY <2>8 DEF readUnlock, ReadUnlock, Types
  <2>9. CASE writeUnlock(t)
    BY <2>9 DEF writeUnlock, WriteUnlock, Types
  <2>10. CASE finish(t)
    BY <2>10 DEF finish, Types, Version
  <2> QED
    BY <1>3, <2>1, <2>2, <2>3, <2>4, <2>5, <2>6, <2>7, <2>8, <2>9, <2>10 DEF worker
<1> QED
  BY <1>1, <1>2, <1>3 DEF Next, Running

-----------------------------------------------------------------------------
(* Dispatch *)

\* A worker's step leaves the state of the others alone.
Kept(u) ==
    /\ pc'[u] = pc[u] /\ tx_id'[u] = tx_id[u] /\ pos'[u] = pos[u]
    /\ future'[u] = future[u] /\ reads'[u] = reads[u]
    /\ rlocks'[u] = rlocks[u] /\ wlocks'[u] = wlocks[u]

LEMMA OthersKept ==
    ASSUME Types, NEW t \in Thread, worker(t), NEW u \in Thread, u # t
    PROVE  Kept(u)
<1> USE DEF dispatch, lists, held, records, history, Goto, Kept
<1>0. /\ pc \in [Thread -> {"idle", "regist", "wait", "exec", "unlock", "done"}]
      /\ tx_id \in [Thread -> Version] /\ pos \in [Thread -> Nat \ {0}]
      /\ future \in [Thread -> Seq(Task)]
      /\ rlocks \in [Thread -> SUBSET Key] /\ wlocks \in [Thread -> SUBSET Key]
      /\ reads \in [Thread -> SUBSET Read]
  BY DEF Types
<1>1. CASE leave(t) \/ giveUp(t)
  BY <1>0, <1>1 DEF leave, giveUp
<1>2. CASE acquireGiant(t)
  BY <1>0, <1>2 DEF acquireGiant
<1>3. CASE regist(t)
  BY <1>0, <1>3 DEF regist
<1>4. CASE releaseGiant(t)
  BY <1>0, <1>4 DEF releaseGiant
<1>5. CASE check_waitlist(t)
  <2>1. PICK i \in DOMAIN future[t] : Serves(t, i)
    BY <1>5, Served
  <2> DEFINE k == future[t][i].key
             rest == RemoveAt(future[t], i)
  <2>2. /\ future' = [future EXCEPT ![t] = rest]
        /\ pc' = [pc EXCEPT ![t] = IF rest = << >> THEN "exec" ELSE @]
        /\ Reading(t, k) \/ Upgrading(t, k) \/ Dropping(t, k) \/ Writing(t, k)
        /\ UNCHANGED << tx_id, pos, reads >>
    BY <2>1, ServeEffect
  <2> HIDE DEF k, rest
  <2>3. rlocks'[u] = rlocks[u] /\ wlocks'[u] = wlocks[u]
    BY <1>0, <2>2 DEF Reading, Upgrading, Dropping, Writing
  <2> QED
    BY <1>0, <2>2, <2>3
<1>6. CASE execute(t)
  BY <1>0, <1>6 DEF execute
<1>7. CASE commit(t)
  BY <1>0, <1>7 DEF commit
<1>8. CASE readUnlock(t)
  BY <1>0, <1>8 DEF readUnlock
<1>9. CASE writeUnlock(t)
  BY <1>0, <1>9 DEF writeUnlock
<1>10. CASE finish(t)
  BY <1>0, <1>10 DEF finish
<1> QED
  BY <1>1, <1>2, <1>3, <1>4, <1>5, <1>6, <1>7, <1>8, <1>9, <1>10 DEF worker

\* What check_waitlist leaves alone.
LEMMA WaitFrame ==
    ASSUME Types, NEW t \in Thread, check_waitlist(t)
    PROVE  /\ pc[t] = "wait" /\ pc'[t] \in {"wait", "exec"}
           /\ pc' \in [Thread -> {"idle", "regist", "wait", "exec", "unlock", "done"}]
           /\ wait_list' = wait_list
           /\ UNCHANGED << dispatch, quit, records, tx_id, pos, history >>
<1>1. PICK i \in DOMAIN future[t] : Serves(t, i)
  BY Served
<1>2. pc[t] = "wait"
  BY Served
<1> DEFINE rest == RemoveAt(future[t], i)
<1>3. /\ pc' = [pc EXCEPT ![t] = IF rest = << >> THEN "exec" ELSE @]
      /\ wait_list' = wait_list
      /\ UNCHANGED << dispatch, quit, records, tx_id, pos, history >>
  BY <1>1, ServeEffect
<1> HIDE DEF rest
<1>4. pc \in [Thread -> {"idle", "regist", "wait", "exec", "unlock", "done"}]
  BY DEF Types
<1> QED
  BY <1>2, <1>3, <1>4

\* What a worker's steps do to the giant lock and the counter.
LEMMA GiantStep ==
    ASSUME Types, NEW t \in Thread, worker(t)
    PROVE  \/ giant' = giant /\ tx_counter' = tx_counter
           \/ acquireGiant(t) /\ giant = None /\ tx_counter' \in {tx_counter, tx_counter + 1}
           \/ releaseGiant(t) /\ tx_counter' = tx_counter
<1>1. CASE check_waitlist(t)
  BY <1>1, WaitFrame DEF dispatch
<1>2. CASE ~check_waitlist(t)
  BY <1>2 DEF worker, leave, acquireGiant, regist, releaseGiant, giveUp, execute,
              commit, readUnlock, writeUnlock, finish, dispatch
<1> QED
  BY <1>1, <1>2

\* Only acquireGiant gives a worker a transaction; a transaction that runs has
\* not committed before.
LEMMA OnlyAcquired ==
    ASSUME Types, NEW t \in Thread, worker(t), ~acquireGiant(t), Busy(t)'
    PROVE  /\ Busy(t) /\ tx_id'[t] = tx_id[t]
           /\ pc'[t] \in {"regist", "wait", "exec"} =>
                 pc[t] \in {"regist", "wait", "exec"} /\ committed' = committed
<1> USE DEF dispatch, lists, held, records, history, Goto, Busy
<1>0. pc \in [Thread -> {"idle", "regist", "wait", "exec", "unlock", "done"}]
  BY DEF Types
<1>1. CASE leave(t) \/ finish(t)
  BY <1>0, <1>1 DEF leave, finish
<1>2. CASE regist(t) \/ releaseGiant(t) \/ giveUp(t)
  BY <1>0, <1>2 DEF regist, releaseGiant, giveUp
<1>3. CASE check_waitlist(t)
  BY <1>3, WaitFrame
<1>4. CASE execute(t) \/ commit(t) \/ readUnlock(t) \/ writeUnlock(t)
  BY <1>0, <1>4 DEF execute, commit, readUnlock, writeUnlock
<1> QED
  BY <1>1, <1>2, <1>3, <1>4 DEF worker

\* Only commit adds to what is committed.
LEMMA CommittedStep ==
    ASSUME NEW t \in Thread, Types, worker(t)
    PROVE  \/ committed' = committed
           \/ /\ commit(t) /\ pc[t] = "exec" /\ pc'[t] = "unlock"
              /\ committed' = committed \cup
                    {[id |-> tx_id[t], reads |-> reads[t], locked |-> Locking]}
<1>1. CASE check_waitlist(t)
  BY <1>1, WaitFrame DEF history
<1>2. CASE commit(t)
  BY <1>2 DEF commit, Locking, Goto, Types
<1>3. CASE ~check_waitlist(t) /\ ~commit(t)
  BY <1>3 DEF worker, leave, acquireGiant, regist, releaseGiant, giveUp, execute,
              readUnlock, writeUnlock, finish, history
<1> QED
  BY <1>1, <1>2, <1>3

LEMMA NumberedWorker ==
    ASSUME Types, Numbered, NEW t \in Thread, worker(t)
    PROVE  Numbered'
<1>0. /\ tx_counter \in Nat /\ \A a \in committed : a.id \in TxId
      /\ \A i \in TxId : i \in Nat
  BY FixedLockManagerAssumption DEF Types, TxId
<1>1. tx_counter' \in {tx_counter, tx_counter + 1}
  BY GiantStep
<1>2. ASSUME NEW u \in Thread, u # t
      PROVE  (Busy(u)' <=> Busy(u)) /\ tx_id'[u] = tx_id[u] /\ pc'[u] = pc[u]
  BY <1>2, OthersKept DEF Kept, Busy
<1>3. CASE acquireGiant(t)
  <2>1. /\ ~Busy(t) /\ tx_counter' \in {tx_counter, tx_counter + 1}
        /\ committed' = committed
        /\ Busy(t)' => /\ tx_id'[t] = tx_counter /\ tx_counter \in TxId
                       /\ tx_counter' = tx_counter + 1
    BY <1>3, AcquireEffect DEF Busy, history
  <2>2. \A u \in Thread : Busy(u)' => tx_id'[u] \in TxId /\ tx_id'[u] < tx_counter'
    BY <1>0, <1>2, <2>1 DEF Numbered
  <2>3. ASSUME NEW u \in Thread, NEW v \in Thread, Busy(u)', Busy(v)',
               tx_id'[u] = tx_id'[v]
        PROVE  u = v
    BY <1>0, <1>2, <2>1, <2>3 DEF Numbered
  <2>4. ASSUME NEW a \in committed, NEW u \in Thread,
               pc'[u] \in {"regist", "wait", "exec"}, tx_id'[u] = a.id
        PROVE  FALSE
    BY <1>0, <1>2, <2>1, <2>4 DEF Numbered, Busy
  <2>5. \A a \in committed : a.id < tx_counter'
    BY <1>0, <2>1 DEF Numbered
  <2> QED
    BY <2>1, <2>2, <2>3, <2>4, <2>5 DEF Numbered
<1>4. CASE ~acquireGiant(t)
  <2>1. /\ Busy(t)' => Busy(t) /\ tx_id'[t] = tx_id[t]
        /\ pc'[t] \in {"regist", "wait", "exec"} =>
              pc[t] \in {"regist", "wait", "exec"} /\ tx_id'[t] = tx_id[t]
    BY <1>4, OnlyAcquired DEF Busy
  <2>2. \A u \in Thread : Busy(u)' => tx_id'[u] \in TxId /\ tx_id'[u] < tx_counter'
    BY <1>0, <1>1, <1>2, <2>1 DEF Numbered
  <2>3. \A u, v \in Thread : Busy(u)' /\ Busy(v)' /\ tx_id'[u] = tx_id'[v] => u = v
    BY <1>2, <2>1 DEF Numbered
  <2>4. ASSUME NEW a \in committed', NEW u \in Thread
        PROVE  a.id < tx_counter' /\
               (pc'[u] \in {"regist", "wait", "exec"} => tx_id'[u] # a.id)
    <3>1. CASE a \in committed
      BY <1>0, <1>1, <1>2, <2>1, <3>1 DEF Numbered
    <3>2. CASE a \notin committed
      <4>1. a.id = tx_id[t] /\ pc[t] = "exec" /\ pc'[t] = "unlock"
        BY <2>4, <3>2, CommittedStep
      <4>2. tx_id[t] \in TxId /\ tx_id[t] < tx_counter
        BY <4>1 DEF Numbered, Busy
      <4>3. u # t /\ pc'[u] \in {"regist", "wait", "exec"} => tx_id'[u] # a.id
        BY <1>2, <4>1 DEF Numbered, Busy
      <4> QED
        BY <1>0, <1>1, <4>1, <4>2, <4>3
    <3> QED
      BY <3>1, <3>2
  <2>5. \A a \in committed' : a.id < tx_counter'
    <3>1. \A a \in committed : a.id < tx_counter'
      BY <1>0, <1>1 DEF Numbered
    <3>2. \A a \in committed' : a \notin committed => a.id < tx_counter'
      BY <2>4
    <3> QED
      BY <3>1, <3>2
  <2> QED
    BY <2>2, <2>3, <2>4, <2>5 DEF Numbered
<1> QED
  BY <1>3, <1>4

LEMMA NumberedStep ==
    ASSUME Types, Numbered, [Next]_vars
    PROVE  Numbered'
<1>1. CASE Timer
  BY <1>1 DEF Timer, Quit, Numbered, Busy, dispatch, history
<1>2. CASE Ended \/ UNCHANGED vars
  BY <1>2 DEF Ended, vars, Numbered, Busy, dispatch, history
<1> QED
  BY <1>1, <1>2, NumberedWorker DEF Next, Running

LEMMA WorkerMatchesOwn ==
    ASSUME Types, Dispatched, Locking, NEW t \in Thread, worker(t)
    PROVE  WorkerMatches(t)'
<1> USE DEF dispatch, lists, held, records, history, Goto
<1>0. /\ pc \in [Thread -> {"idle", "regist", "wait", "exec", "unlock", "done"}]
      /\ tx_id \in [Thread -> Version] /\ pos \in [Thread -> Nat \ {0}]
      /\ future \in [Thread -> Seq(Task)]
      /\ rlocks \in [Thread -> SUBSET Key] /\ wlocks \in [Thread -> SUBSET Key]
      /\ reads \in [Thread -> SUBSET Read] /\ tx_counter \in Nat
  BY DEF Types
<1>m. WorkerMatches(t)
  BY DEF Dispatched
<1>1. CASE leave(t)
  BY <1>0, <1>1, <1>m DEF leave, WorkerMatches, Busy
<1>2. CASE acquireGiant(t)
  <2>1. /\ giant' = t /\ pc[t] = "idle"
        /\ \/ pc'[t] = "done"
           \/ /\ pc'[t] = "regist" /\ tx_counter' = tx_counter + 1
              /\ tx_id'[t] = tx_counter /\ tx_counter \in TxId
        /\ UNCHANGED << future, held, reads >>
    BY <1>2, AcquireEffect
  <2> QED
    BY <1>0, <1>m, <2>1 DEF WorkerMatches, Busy
<1>3. CASE regist(t)
  <2>1. pc[t] = "regist" /\ UNCHANGED << dispatch, pc, tx_id, held, reads >>
    BY <1>3, RegistEffect DEF Dispatched
  <2> QED
    BY <1>m, <2>1 DEF WorkerMatches, Busy
<1>4. CASE releaseGiant(t)
  <2>1. /\ pc[t] = "regist" /\ pos'[t] = 1
        /\ pc'[t] = IF future[t] = << >> THEN "exec" ELSE "wait"
        /\ UNCHANGED << tx_counter, tx_id, future, held, reads >>
    BY <1>0, <1>4 DEF releaseGiant
  <2> QED
    BY <1>m, <2>1 DEF WorkerMatches, Busy
<1>5. CASE check_waitlist(t)
  <2>0. PICK i \in DOMAIN future[t] : Serves(t, i)
    BY <1>5, Served
  <2> DEFINE rest == RemoveAt(future[t], i)
  <2>1. /\ future' = [future EXCEPT ![t] = rest]
        /\ pc' = [pc EXCEPT ![t] = IF rest = << >> THEN "exec" ELSE @]
        /\ UNCHANGED << dispatch, tx_id, pos, reads >>
    BY <2>0, ServeEffect
  <2> HIDE DEF rest
  <2>2. pc[t] = "wait"
    BY <1>5, Served
  <2>3. future'[t] = rest /\ pc'[t] = IF rest = << >> THEN "exec" ELSE "wait"
    BY <1>0, <2>1, <2>2
  <2> QED
    BY <1>m, <2>1, <2>2, <2>3 DEF WorkerMatches, Busy
<1>6. CASE giveUp(t)
  BY <1>6 DEF giveUp, Locking
<1>7. CASE execute(t)
  BY <1>7, <1>m DEF execute, WorkerMatches, Busy
<1>8. CASE commit(t)
  BY <1>0, <1>8, <1>m DEF commit, WorkerMatches, Busy
<1>9. CASE readUnlock(t)
  BY <1>9, <1>m DEF readUnlock, WorkerMatches, Busy
<1>10. CASE writeUnlock(t)
  BY <1>10, <1>m DEF writeUnlock, WorkerMatches, Busy
<1>11. CASE finish(t)
  BY <1>0, <1>11, <1>m DEF finish, WorkerMatches, Busy
<1> QED
  BY <1>1, <1>2, <1>3, <1>4, <1>5, <1>6, <1>7, <1>8, <1>9, <1>10, <1>11 DEF worker

LEMMA DispatchedStep ==
    ASSUME Types, Dispatched, Locking, NEW t \in Thread, worker(t)
    PROVE  Dispatched'
<1>1. WorkerMatches(t)'
  BY WorkerMatchesOwn
<1>2. ASSUME NEW u \in Thread, u # t
      PROVE  WorkerMatches(u)'
  <2>1. Kept(u) /\ WorkerMatches(u)
    BY <1>2, OthersKept DEF Dispatched
  <2>2. pc[u] = "regist" => giant' = giant /\ tx_counter' = tx_counter
    <3>1. pc[u] = "regist" => giant = u
      BY <2>1 DEF WorkerMatches
    <3>2. releaseGiant(t) => giant = t
      BY DEF Dispatched, WorkerMatches, releaseGiant
    <3> QED
      BY <1>2, <3>1, <3>2, GiantStep, FixedLockManagerAssumption
  <2> QED
    BY <2>1, <2>2 DEF Kept, WorkerMatches, Busy
<1>3. Numbered'
  BY NumberedWorker DEF Dispatched
<1> QED
  BY <1>1, <1>2, <1>3 DEF Dispatched

-----------------------------------------------------------------------------
(* The entries at the head of a list *)

\* The entries of a worker, and the slots of a list, can be counted.
LEMMA CountedSets ==
    ASSUME Types, NEW t \in Thread, NEW k \in Key, NEW j
    PROVE  /\ IsFiniteSet(Asked(t, k)) /\ Cardinality(Asked(t, k)) \in Nat
           /\ IsFiniteSet(Slots(k, j)) /\ Cardinality(Slots(k, j)) \in Nat
           /\ wait_list[k] \in Seq(TxId) /\ Len(wait_list[k]) \in Nat /\ lower[k] \in Nat
<1>1. /\ future[t] \in Seq(Task) /\ wait_list[k] \in Seq(TxId) /\ lower[k] \in Nat
  BY DEF Types
<1>2. /\ Len(future[t]) \in Nat /\ DOMAIN future[t] = 1 .. Len(future[t])
      /\ Len(wait_list[k]) \in Nat
  BY <1>1
<1>3. IsFiniteSet(DOMAIN future[t]) /\ IsFiniteSet(Live(k))
  <2>1. lower[k] + 1 \in Int /\ Len(wait_list[k]) \in Int /\ Len(future[t]) \in Int
    BY <1>1, <1>2
  <2>2. IsFiniteSet(1 .. Len(future[t])) /\ IsFiniteSet(lower[k] + 1 .. Len(wait_list[k]))
    BY <2>1, FS_Interval
  <2> QED
    BY <1>2, <2>2 DEF Live
<1>4. Asked(t, k) \subseteq DOMAIN future[t] /\ Slots(k, j) \subseteq Live(k)
  BY DEF Asked, Slots
<1>5. IsFiniteSet(Asked(t, k)) /\ IsFiniteSet(Slots(k, j))
  BY <1>3, <1>4, FS_Subset
<1> QED
  BY <1>1, <1>2, <1>5, FS_CardinalityType

\* The head a worker finds its number at is a slot that has been filled.
LEMMA HeadIsOwn ==
    ASSUME Types, Numbered, ListsMatch, NEW t \in Thread, pc[t] = "wait", NEW k \in Key,
           AtHead(t, k), Asked(t, k) # {}
    PROVE  /\ lower[k] + 1 \in Live(k) /\ lower[k] + 1 <= Len(wait_list[k])
           /\ wait_list[k][lower[k] + 1] = tx_id[t]
           /\ lower[k] + 1 \in Slots(k, tx_id[t])
           /\ Cardinality(Slots(k, tx_id[t])) = Cardinality(Asked(t, k))
<1>1. /\ IsFiniteSet(Asked(t, k)) /\ IsFiniteSet(Slots(k, tx_id[t]))
      /\ wait_list[k] \in Seq(TxId) /\ Len(wait_list[k]) \in Nat /\ lower[k] \in Nat
  BY CountedSets
<1>2. Cardinality(Slots(k, tx_id[t])) = Cardinality(Asked(t, k))
  BY DEF ListsMatch, Queued
<1>3. Slots(k, tx_id[t]) # {}
  BY <1>1, <1>2, FS_EmptySet
<1>4. lower[k] < Len(wait_list[k])
  BY <1>1, <1>3 DEF Slots, Live
<1>5. wait_list[k][lower[k] + 1] = tx_id[t]
  BY <1>4 DEF AtHead, slot
<1>6. lower[k] + 1 \in Live(k) /\ lower[k] + 1 <= Len(wait_list[k])
  BY <1>1, <1>4 DEF Live
<1> QED
  BY <1>2, <1>5, <1>6 DEF Slots

\* If the next slot is not its own, the worker has that one entry only ...
LEMMA OnlyOwn ==
    ASSUME Types, Numbered, ListsMatch, NEW t \in Thread, pc[t] = "wait", NEW k \in Key,
           AtHead(t, k), NEW i \in Asked(t, k), ~NextIsOwn(t, k)
    PROVE  Asked(t, k) = {i} /\ Slots(k, tx_id[t]) = {lower[k] + 1}
<1>1. /\ lower[k] + 1 \in Slots(k, tx_id[t]) /\ lower[k] + 1 \in Live(k)
      /\ wait_list[k][lower[k] + 1] = tx_id[t]
      /\ Cardinality(Slots(k, tx_id[t])) = Cardinality(Asked(t, k))
  BY HeadIsOwn
<1>2. /\ IsFiniteSet(Asked(t, k)) /\ wait_list[k] \in Seq(TxId)
      /\ Len(wait_list[k]) \in Nat /\ lower[k] \in Nat
  BY CountedSets
<1>3. ASSUME NEW n \in Slots(k, tx_id[t]), n # lower[k] + 1
      PROVE  FALSE
  <2>1. n \in Live(k) /\ wait_list[k][n] = tx_id[t]
    BY DEF Slots
  <2>2. n > lower[k] + 1 /\ n <= Len(wait_list[k]) /\ n \in Nat
    BY <1>2, <1>3, <2>1 DEF Live
  <2>3. /\ lower[k] + 1 < Len(wait_list[k]) /\ lower[k] + 2 \in Live(k)
        /\ n = lower[k] + 2 \/ lower[k] + 2 < n
        /\ lower[k] + 1 < lower[k] + 2 /\ lower[k] + 1 + 1 = lower[k] + 2
    BY <1>2, <2>2 DEF Live
  <2>4. \A a, b \in Live(k) : a < b => wait_list[k][a] <= wait_list[k][b]
    BY DEF ListsMatch, Sorted
  <2>5. /\ tx_id[t] <= wait_list[k][lower[k] + 2]
        /\ n # lower[k] + 2 => wait_list[k][lower[k] + 2] <= tx_id[t]
    BY <1>1, <2>1, <2>3, <2>4
  <2>6. tx_id[t] \in Nat /\ wait_list[k][lower[k] + 2] \in Nat
    <3>1. \A m \in 1 .. Len(wait_list[k]) : wait_list[k][m] \in TxId
      BY <1>2
    <3>2. tx_id[t] \in TxId /\ lower[k] + 2 \in 1 .. Len(wait_list[k])
      BY <1>2, <2>3 DEF Live, Numbered, Busy
    <3> QED
      BY <3>1, <3>2, FixedLockManagerAssumption DEF TxId
  <2>7. wait_list[k][lower[k] + 2] = tx_id[t]
    BY <2>1, <2>5, <2>6
  <2>8. slot(k, lower[k] + 1) = wait_list[k][lower[k] + 2]
    BY <2>3 DEF slot
  <2> QED
    BY <2>7, <2>8 DEF NextIsOwn
<1>4. Slots(k, tx_id[t]) = {lower[k] + 1}
  BY <1>1, <1>3
<1>5. Cardinality(Asked(t, k)) = 1
  BY <1>1, <1>4, FS_Singleton
<1>6. PICK x : Asked(t, k) = {x}
  BY <1>2, <1>5, FS_Singleton
<1> QED
  BY <1>4, <1>6

\* ... and if it is, another entry.
LEMMA AnotherOwn ==
    ASSUME Types, Numbered, ListsMatch, NEW t \in Thread, pc[t] = "wait", NEW k \in Key,
           AtHead(t, k), NEW i \in Asked(t, k), build = "fixed", NextIsOwn(t, k)
    PROVE  \E a \in Asked(t, k) : a # i
<1>1. /\ lower[k] + 1 \in Slots(k, tx_id[t])
      /\ Cardinality(Slots(k, tx_id[t])) = Cardinality(Asked(t, k))
  BY HeadIsOwn
<1>2. /\ IsFiniteSet(Slots(k, tx_id[t])) /\ lower[k] \in Nat /\ Len(wait_list[k]) \in Nat
  BY CountedSets
<1>3. tx_id[t] # None
  BY FixedLockManagerAssumption DEF Numbered, Busy, TxId
<1>4. lower[k] + 1 < Len(wait_list[k])
  BY <1>3 DEF NextIsOwn, slot, Unfilled
<1>5. wait_list[k][lower[k] + 1 + 1] = tx_id[t]
  BY <1>4 DEF NextIsOwn, slot
<1>6. lower[k] + 1 + 1 \in Slots(k, tx_id[t])
  BY <1>2, <1>4, <1>5 DEF Slots, Live
<1>7. Cardinality(Slots(k, tx_id[t])) # 1
  <2>1. lower[k] + 1 # lower[k] + 1 + 1
    BY <1>2
  <2>2. ~\E x : Slots(k, tx_id[t]) = {x}
    BY <1>1, <1>6, <2>1
  <2> QED
    BY <1>2, <2>2, FS_Singleton
<1>8. Asked(t, k) # {i}
  BY <1>1, <1>7, FS_Singleton
<1> QED
  BY <1>8

-----------------------------------------------------------------------------
(* Locks *)

LEMMA CountersTyped ==
    ASSUME Types
    PROVE  LockTypes(Thread, Key, lock, rlocks, wlocks)
BY FixedLockManagerAssumption DEF Types, LockTypes

\* Who writes a record is the only one to have it.
LEMMA WriterExcludes ==
    ASSUME Types, Counted, NEW t \in Thread, NEW u \in Thread, t # u,
           NEW k \in wlocks[t]
    PROVE  ~Has(u, k)
BY CountersTyped, WriterAlone DEF Has, Counted

\* The lock a worker has is not free, and a writer's lock not for reading.
LEMMA HeldNotFree ==
    ASSUME Types, Counted, NEW t \in Thread, NEW k, Has(t, k)
    PROVE  ~CanWriteLock(lock[k]) /\ (k \in wlocks[t] => ~CanReadLock(lock[k]))
<1>1. CASE k \in wlocks[t]
  BY <1>1, CountersTyped, WriterAlone
     DEF CanWriteLock, CanReadLock, WriteLocked, Free, Counted
<1>2. CASE k \in rlocks[t]
  <2>1. lock[k] \in Nat \ {0}
    BY <1>2, CountersTyped, ReaderCounted DEF Counted
  <2>2. k \notin wlocks[t]
    BY <1>2, CountersTyped, ReaderCounted DEF Counted
  <2> QED
    BY <2>1, <2>2 DEF CanWriteLock, Free
<1> QED
  BY <1>1, <1>2 DEF Has

\* A worker that reads a record does not write it.
LEMMA ReaderOnly ==
    ASSUME Types, Counted, NEW t \in Thread, NEW k \in rlocks[t]
    PROVE  k \notin wlocks[t]
BY CountersTyped, ReaderCounted DEF Counted

\* What serving an entry does to the locks agrees with the entry.
LEMMA ServeCase ==
    ASSUME Types, LocksCover, NEW t \in Thread, pc[t] = "wait",
           NEW i \in DOMAIN future[t], Serves(t, i)
    PROVE  LET f == future[t][i]
               k == f.key
           IN /\ k \in Key /\ i \in Asked(t, k)
              /\ f.op = "READ" => ~Has(t, k)
              /\ \/ f.op = "READ" /\ Reading(t, k)
                 \/ f.op = "WRITE" /\ (Upgrading(t, k) \/ Dropping(t, k) \/ Writing(t, k))
<1> DEFINE f == future[t][i]
<1>1. /\ f.key \in Key
      /\ \/ f.op = "READ" /\ Reading(t, f.key)
         \/ f.op = "WRITE" /\ (Upgrading(t, f.key) \/ Dropping(t, f.key) \/ Writing(t, f.key))
  BY ServeEffect
<1>2. i \in Asked(t, f.key)
  BY DEF Asked
<1>3. f.op = "READ" => Asks(t, f.key, "READ")
  BY <1>2 DEF Asks
<1>4. f.op = "READ" => ~Has(t, f.key)
  BY <1>1, <1>3 DEF LocksCover, Covered
<1> QED
  BY <1>1, <1>2, <1>4

LEMMA AgreeStep ==
    ASSUME Types, LocksCover, Counted, NEW t \in Thread, worker(t)
    PROVE  Counted'
<1> USE DEF dispatch, held
<1>1. CASE UNCHANGED held
  BY <1>1 DEF Counted
<1>2. CASE check_waitlist(t)
  <2>1. PICK i \in DOMAIN future[t] : Serves(t, i)
    BY <1>2, Served
  <2> DEFINE k == future[t][i].key
  <2>2. /\ k \in Key
        /\ \/ k \notin rlocks[t] /\ Reading(t, k)
           \/ Upgrading(t, k) \/ Dropping(t, k) \/ Writing(t, k)
    <3>1. /\ k \in Key /\ (future[t][i].op = "READ" => ~Has(t, k))
          /\ \/ future[t][i].op = "READ" /\ Reading(t, k)
             \/ future[t][i].op = "WRITE" /\ (Upgrading(t, k) \/ Dropping(t, k) \/ Writing(t, k))
      BY <1>2, <2>1, ServeCase, Served
    <3> QED
      BY <3>1 DEF Has
  <2> HIDE DEF k
  <2>3. CASE k \notin rlocks[t] /\ Reading(t, k)
    BY <2>2, <2>3, CountersTyped, ReadLockAgrees DEF Counted, Reading
  <2>4. CASE Upgrading(t, k)
    BY <2>2, <2>4, CountersTyped, UpgradeAgrees DEF Counted, Upgrading
  <2>5. CASE Dropping(t, k)
    BY <1>1, <2>5 DEF Dropping
  <2>6. CASE Writing(t, k)
    BY <2>2, <2>6, CountersTyped, WriteLockAgrees DEF Counted, Writing
  <2> QED
    BY <2>2, <2>3, <2>4, <2>5, <2>6
<1>3. CASE readUnlock(t)
  <2>1. PICK k \in rlocks[t] : /\ lock' = [lock EXCEPT ![k] = ReadUnlock(@)]
                               /\ rlocks' = [rlocks EXCEPT ![t] = @ \ {k}]
    BY <1>3 DEF readUnlock
  <2>2. wlocks' = wlocks
    BY <1>3 DEF readUnlock
  <2> QED
    BY <2>1, <2>2, CountersTyped, ReadUnlockAgrees DEF Counted
<1>4. CASE writeUnlock(t)
  <2>1. PICK k \in wlocks[t] : /\ lock' = [lock EXCEPT ![k] = WriteUnlock(@)]
                               /\ wlocks' = [wlocks EXCEPT ![t] = @ \ {k}]
    BY <1>4 DEF writeUnlock
  <2>2. rlocks' = rlocks
    BY <1>4 DEF writeUnlock
  <2> QED
    BY <2>1, <2>2, CountersTyped, WriteUnlockAgrees DEF Counted
<1>5. CASE leave(t) \/ acquireGiant(t) \/ regist(t) \/ releaseGiant(t) \/ giveUp(t)
              \/ execute(t) \/ commit(t) \/ finish(t)
  BY <1>1, <1>5 DEF leave, acquireGiant, regist, releaseGiant, giveUp, execute, commit,
     finish
<1> QED
  BY <1>2, <1>3, <1>4, <1>5 DEF worker

-----------------------------------------------------------------------------
(* What a worker's locks and entries cover *)

\* Who is not touched is covered as before.
LEMMA CoveredFrame ==
    ASSUME NEW u \in Thread, pre' = pre,
           pc'[u] = pc[u], tx_id'[u] = tx_id[u], pos'[u] = pos[u] \/ pc[u] # "regist",
           future'[u] = future[u], rlocks'[u] = rlocks[u], wlocks'[u] = wlocks[u],
           OneRead(u), \A k \in Key : Covered(u, k)
    PROVE  OneRead(u)' /\ \A k \in Key : Covered(u, k)'
BY DEF OneRead, Covered, Touches, Writes, Reach, Tasks, Asked, Asks, Has

\* What is struck off is one entry; the others stay.
LEMMA Struck ==
    ASSUME NEW s \in Seq(Task), NEW i \in 1 .. Len(s)
    PROVE  LET r == RemoveAt(s, i)
           IN \E g \in Bijection(DOMAIN r, DOMAIN s \ {i}) :
                 \A m \in DOMAIN r : r[m] = s[g[m]]
<1> DEFINE r == RemoveAt(s, i)
           g == [m \in DOMAIN r |-> IF m < i THEN m ELSE m + 1]
<1>1. Len(s) \in Nat /\ DOMAIN s = 1 .. Len(s) /\ i \in Nat
  OBVIOUS
<1>2. /\ DOMAIN r = 1 .. Len(s) - 1
      /\ \A m \in 1 .. Len(s) - 1 : r[m] = IF m < i THEN s[m] ELSE s[m + 1]
  BY Strike
<1> HIDE DEF r
<1>3. \A m \in DOMAIN r : g[m] \in DOMAIN s /\ g[m] # i /\ r[m] = s[g[m]]
  BY <1>1, <1>2
<1>4. \A a, b \in DOMAIN r : g[a] = g[b] => a = b
  BY <1>1, <1>2
<1>5. ASSUME NEW n \in DOMAIN s \ {i}
      PROVE  \E m \in DOMAIN r : g[m] = n
  <2>1. CASE n < i
    BY <1>1, <1>2, <2>1
  <2>2. CASE ~(n < i)
    <3>1. n - 1 \in DOMAIN r /\ ~(n - 1 < i) /\ n - 1 + 1 = n
      BY <1>1, <1>2, <2>2
    <3> QED
      BY <3>1
  <2> QED
    BY <2>1, <2>2
<1>6. g \in [DOMAIN r -> DOMAIN s \ {i}]
  BY <1>3
<1> HIDE DEF g
<1>7. g \in Bijection(DOMAIN r, DOMAIN s \ {i})
  BY <1>4, <1>5, <1>6 DEF Bijection, Injection, Surjection, IsInjective
<1> QED
  BY <1>3, <1>7 DEF r

LEMMA ServeEntries ==
    ASSUME Types, NEW t \in Thread, NEW i \in DOMAIN future[t], Serves(t, i)
    PROVE  /\ OneRead(t) => OneRead(t)'
           /\ \A k : /\ Asked(t, k)' # {} <=> \E a \in Asked(t, k) : a # i
                     /\ Cardinality(Asked(t, k)') = Cardinality(Asked(t, k) \ {i})
           /\ \A k, op : Asks(t, k, op)' <=>
                 \E a \in Asked(t, k) : a # i /\ future[t][a].op = op
<1> DEFINE s == future[t]
           r == RemoveAt(s, i)
<1>1. s \in Seq(Task) /\ i \in 1 .. Len(s) /\ DOMAIN s = 1 .. Len(s) /\ Len(s) \in Nat
  BY EntryAt
<1>2. future'[t] = r
  BY ServeEffect DEF Types
<1> HIDE DEF s, r
<1>3. PICK g \in Bijection(DOMAIN r, DOMAIN s \ {i}) : \A m \in DOMAIN r : r[m] = s[g[m]]
  BY <1>1, Struck DEF r
<1>4. /\ \A m \in DOMAIN r : g[m] \in DOMAIN s /\ g[m] # i /\ r[m] = s[g[m]]
      /\ \A a, b \in DOMAIN r : g[a] = g[b] => a = b
      /\ \A n \in DOMAIN s : n # i => \E m \in DOMAIN r : g[m] = n
  BY <1>3 DEF Bijection, Injection, Surjection, IsInjective
<1>5. \A k, op : /\ Asked(t, k)' = {m \in DOMAIN r : r[m].key = k}
                 /\ Asked(t, k) = {a \in DOMAIN s : s[a].key = k}
                 /\ Asks(t, k, op) <=> \E a \in DOMAIN s : s[a].key = k /\ s[a].op = op
                 /\ Asks(t, k, op)' <=> \E m \in DOMAIN r : r[m].key = k /\ r[m].op = op
                 /\ future[t] = s
  BY <1>2 DEF Asked, Asks, s
<1>6. OneRead(t) => OneRead(t)'
  BY <1>2, <1>4 DEF OneRead, s
<1>7. ASSUME NEW k
      PROVE  /\ Asked(t, k)' # {} <=> \E a \in Asked(t, k) : a # i
             /\ Cardinality(Asked(t, k)') = Cardinality(Asked(t, k) \ {i})
  <2> DEFINE A == {m \in DOMAIN r : r[m].key = k}
             B == {a \in DOMAIN s : s[a].key = k} \ {i}
             h == [m \in A |-> g[m]]
  <2>1. h \in [A -> B] /\ \A a, b \in A : h[a] = h[b] => a = b
    BY <1>4
  <2>2. \A n \in B : \E m \in A : h[m] = n
    BY <1>4
  <2>3. Asked(t, k)' = A /\ Asked(t, k) \ {i} = B
    BY <1>5
  <2> HIDE DEF A, B, h
  <2>4. h \in Bijection(A, B)
    BY <2>1, <2>2 DEF Bijection, Injection, Surjection, IsInjective
  <2>5. IsFiniteSet(A)
    <3>1. DOMAIN r = 1 .. Len(s) - 1
      BY <1>1, Strike DEF r
    <3>2. IsFiniteSet(DOMAIN r)
      <4>1. 1 \in Int /\ Len(s) - 1 \in Int
        BY <1>1
      <4>2. IsFiniteSet(1 .. Len(s) - 1)
        BY <4>1, FS_Interval
      <4> QED
        BY <3>1, <4>2
    <3> QED
      BY <3>2, FS_Subset DEF A
  <2>6. Cardinality(B) = Cardinality(A)
    BY <2>4, <2>5, FS_Bijection DEF ExistsBijection
  <2>7. A # {} <=> B # {}
    BY <2>1, <2>2
  <2> QED
    BY <2>3, <2>6, <2>7
<1>8. ASSUME NEW k, NEW op
      PROVE  Asks(t, k, op)' <=> \E a \in Asked(t, k) : a # i /\ future[t][a].op = op
  <2>1. (\E m \in DOMAIN r : r[m].key = k /\ r[m].op = op)
           <=> \E a \in DOMAIN s : a # i /\ s[a].key = k /\ s[a].op = op
    BY <1>4
  <2> QED
    BY <1>5, <2>1
<1> QED
  BY <1>6, <1>7, <1>8

\* A worker that registers holds nothing.
LEMMA Registering ==
    ASSUME Types, Dispatched, LocksCover, NEW t \in Thread, regist(t)
    PROVE  LET i == tx_id[t]
               n == pos[t]
               task == pre[i][n]
           IN /\ i \in TxId /\ n \in 1 .. Len(pre[i]) /\ task = Tasks(t)[pos[t]]
              /\ task \in Task /\ task.key \in Key /\ task.op \in {"READ", "WRITE"}
              /\ pc[t] = "regist" /\ pc'[t] = "regist" /\ tx_id'[t] = i
              /\ pos'[t] = n + 1 /\ pre' = pre
              /\ rlocks[t] = {} /\ wlocks[t] = {} /\ rlocks'[t] = {} /\ wlocks'[t] = {}
              /\ tx_counter = i + 1
              /\ Registers(t, task) \/ Repeats(t, task)
              /\ \A k \in Key :
                    /\ Touches(i, n, k) <=> Asked(t, k) # {}
                    /\ Writes(i, n, k) <=> Asks(t, k, "WRITE")
                    /\ Touches(i, n + 1, k) <=> Touches(i, n, k) \/ task.key = k
                    /\ Writes(i, n + 1, k) <=>
                           Writes(i, n, k) \/ (task.op = "WRITE" /\ task.key = k)
<1> DEFINE i == tx_id[t]
           n == pos[t]
<1>1. /\ pc[t] = "regist" /\ pos[t] <= Len(Tasks(t)) /\ Busy(t)
      /\ pos' = [pos EXCEPT ![t] = @ + 1]
      /\ Registers(t, Tasks(t)[pos[t]]) \/ Repeats(t, Tasks(t)[pos[t]])
      /\ UNCHANGED << dispatch, pc, tx_id, held >>
  BY RegistEffect DEF Dispatched
<1>2. /\ i \in TxId /\ Tasks(t) = pre[i] /\ n \in 1 .. Len(pre[i])
      /\ Tasks(t)[pos[t]] \in Task /\ Tasks(t)[pos[t]].key \in Key
      /\ Tasks(t)[pos[t]].op \in {"READ", "WRITE"}
  BY <1>1, TaskAt DEF Dispatched
<1>3. pos'[t] = n + 1
  BY <1>1 DEF Types
<1>4. rlocks[t] = {} /\ wlocks[t] = {} /\ tx_counter = i + 1
  BY <1>1 DEF Dispatched, WorkerMatches
<1>5. ASSUME NEW k \in Key
      PROVE  /\ Touches(i, n, k) <=> Asked(t, k) # {}
             /\ Writes(i, n, k) <=> Asks(t, k, "WRITE")
  BY <1>1, <1>4 DEF LocksCover, Covered, Reach, Has
<1>6. ASSUME NEW k \in Key
      PROVE  /\ Touches(i, n + 1, k) <=> Touches(i, n, k) \/ pre[i][n].key = k
             /\ Writes(i, n + 1, k) <=>
                    Writes(i, n, k) \/ (pre[i][n].op = "WRITE" /\ pre[i][n].key = k)
  BY <1>2, TaskNext
<1> QED
  BY <1>1, <1>2, <1>3, <1>4, <1>5, <1>6 DEF dispatch, held

\* Registering appends an entry.
LEMMA RegistEntries ==
    ASSUME Types, NEW t \in Thread, NEW task \in Task, Registers(t, task)
    PROVE  LET n == Len(future[t]) + 1
           IN /\ n \notin DOMAIN future[t]
              /\ DOMAIN future'[t] = DOMAIN future[t] \cup {n} /\ future'[t][n] = task
              /\ \A a \in DOMAIN future[t] : future'[t][a] = future[t][a]
              /\ \A k : Asked(t, k)' = IF task.key = k THEN Asked(t, k) \cup {n}
                                                       ELSE Asked(t, k)
              /\ \A k, op : Asks(t, k, op)' <=>
                               Asks(t, k, op) \/ (task.key = k /\ task.op = op)
<1> DEFINE s == future[t]
           n == Len(s) + 1
<1>1. s \in Seq(Task) /\ future'[t] = Append(s, task)
  BY DEF Types, Registers
<1> HIDE DEF s
<1>2. /\ Len(s) \in Nat /\ DOMAIN s = 1 .. Len(s) /\ n \notin DOMAIN s
      /\ DOMAIN future'[t] = 1 .. n /\ future'[t][n] = task
      /\ \A a \in 1 .. Len(s) : future'[t][a] = s[a]
  BY <1>1
<1>3. DOMAIN future'[t] = DOMAIN s \cup {n}
  BY <1>2
<1> HIDE DEF n
<1>4. ASSUME NEW k
      PROVE  Asked(t, k)' = IF task.key = k THEN Asked(t, k) \cup {n} ELSE Asked(t, k)
  BY <1>2, <1>3 DEF Asked, s
<1>5. ASSUME NEW k, NEW op
      PROVE  Asks(t, k, op)' <=> Asks(t, k, op) \/ (task.key = k /\ task.op = op)
  <2>1. Asks(t, k, op)' <=> \E a \in DOMAIN future'[t] : future'[t][a].key = k
                                                       /\ future'[t][a].op = op
    BY DEF Asks, Asked
  <2>2. Asks(t, k, op) <=> \E a \in DOMAIN s : s[a].key = k /\ s[a].op = op
    BY DEF Asks, Asked, s
  <2> QED
    BY <1>2, <1>3, <2>1, <2>2
<1> QED
  BY <1>2, <1>3, <1>4, <1>5 DEF s, n

\* The entries after a step of regist, and what they stand for.
LEMMA RegistCovers ==
    ASSUME Types, Dispatched, LocksCover, NEW t \in Thread, regist(t)
    PROVE  OneRead(t)' /\ \A k \in Key : Covered(t, k)'
<1> DEFINE i == tx_id[t]
           n == pos[t]
           task == pre[i][n]
<1>1. /\ i \in TxId /\ task \in Task /\ task.key \in Key /\ task.op \in {"READ", "WRITE"}
      /\ pc'[t] = "regist" /\ tx_id'[t] = i /\ pos'[t] = n + 1 /\ pre' = pre
      /\ rlocks'[t] = {} /\ wlocks'[t] = {}
      /\ Registers(t, task) \/ Repeats(t, task)
  BY Registering
<1>2. \A k \in Key :
          /\ Touches(i, n, k) <=> Asked(t, k) # {}
          /\ Writes(i, n, k) <=> Asks(t, k, "WRITE")
          /\ Touches(i, n + 1, k) <=> Touches(i, n, k) \/ task.key = k
          /\ Writes(i, n + 1, k) <=> Writes(i, n, k) \/ (task.op = "WRITE" /\ task.key = k)
  BY Registering
<1>3. ASSUME NEW k \in Key
      PROVE  /\ ~Has(t, k)' /\ Reach(t)' = n + 1 /\ (k \notin wlocks'[t])
             /\ Touches(tx_id[t], Reach(t), k)' <=> Touches(i, n + 1, k)
             /\ Writes(tx_id[t], Reach(t), k)' <=> Writes(i, n + 1, k)
  <2>1. ~Has(t, k)' /\ Reach(t)' = n + 1
    BY <1>1 DEF Has, Reach
  <2> QED
    BY <1>1, <2>1 DEF Touches, Writes
<1> HIDE DEF task
<1>4. OneRead(t)
  BY DEF LocksCover
<1>5. CASE Registers(t, task)
  <2> DEFINE last == Len(future[t]) + 1
  <2>1. /\ DOMAIN future'[t] = DOMAIN future[t] \cup {last} /\ future'[t][last] = task
        /\ \A a \in DOMAIN future[t] : future'[t][a] = future[t][a]
    BY <1>1, <1>5, RegistEntries
  <2>2. \A k : Asked(t, k)' = IF task.key = k THEN Asked(t, k) \cup {last} ELSE Asked(t, k)
    BY <1>1, <1>5, RegistEntries
  <2>3. \A k, op : Asks(t, k, op)' <=> Asks(t, k, op) \/ (task.key = k /\ task.op = op)
    BY <1>1, <1>5, RegistEntries
  <2> HIDE DEF last
  <2>4. task.op = "READ" => \A a \in DOMAIN future[t] : future[t][a].key # task.key
    <3>1. task.op = "READ" => Asked(t, task.key) = {}
      BY <1>1, <1>2, <1>5 DEF Registers
    <3> QED
      BY <3>1 DEF Asked
  <2>5. OneRead(t)'
    BY <1>4, <2>1, <2>4 DEF OneRead
  <2>6. ASSUME NEW k \in Key
        PROVE  Covered(t, k)'
    <3>1. Asked(t, k)' # {} <=> Asked(t, k) # {} \/ task.key = k
      BY <2>2
    <3> QED
      BY <1>2, <1>3, <2>3, <3>1 DEF Covered
  <2> QED
    BY <2>5, <2>6
<1>6. CASE Repeats(t, task)
  <2>1. /\ future' = future /\ Touches(i, n, task.key)
        /\ (task.op = "WRITE" => Writes(i, n, task.key))
    BY <1>6 DEF Repeats
  <2>2. OneRead(t)'
    BY <1>4, <2>1 DEF OneRead
  <2>3. ASSUME NEW k \in Key
        PROVE  Covered(t, k)'
    <3>1. Asked(t, k)' = Asked(t, k) /\ (Asks(t, k, "WRITE")' <=> Asks(t, k, "WRITE"))
      BY <2>1 DEF Asked, Asks
    <3> QED
      BY <1>2, <1>3, <2>1, <3>1 DEF Covered
  <2> QED
    BY <2>2, <2>3
<1> QED
  BY <1>1, <1>5, <1>6

LEMMA ReleaseCovers ==
    ASSUME Types, Dispatched, LocksCover, NEW t \in Thread, releaseGiant(t)
    PROVE  OneRead(t)' /\ \A k \in Key : Covered(t, k)'
<1> DEFINE i == tx_id[t]
<1>1. /\ pc[t] = "regist" /\ pos[t] > Len(Tasks(t)) /\ pc'[t] \in {"wait", "exec"}
      /\ tx_id' = tx_id /\ future' = future /\ rlocks' = rlocks /\ wlocks' = wlocks
      /\ pre' = pre
  BY DEF releaseGiant, Goto, held, Types
<1>2. i \in TxId /\ Tasks(t) = pre[i] /\ Tasks(t)' = pre[i] /\ pos[t] \in Nat
  BY <1>1 DEF Dispatched, Numbered, Busy, Tasks, Types
<1>3. OneRead(t)'
  BY <1>1 DEF LocksCover, OneRead
<1>4. ASSUME NEW k \in Key
      PROVE  Covered(t, k)'
  <2>1. Len(pre[i]) \in Nat
    BY <1>2, TasksTyped
  <2>2. /\ Touches(i, pos[t], k) <=> Touches(i, Len(pre[i]) + 1, k)
        /\ Writes(i, pos[t], k) <=> Writes(i, Len(pre[i]) + 1, k)
    <3>1. /\ pos[t] \in Nat /\ pos[t] > Len(pre[i])
          /\ Len(pre[i]) + 1 \in Nat /\ Len(pre[i]) + 1 > Len(pre[i])
      BY <1>1, <1>2, <2>1
    <3>2. \A n \in Nat : n > Len(pre[i]) =>
              /\ Touches(i, n, k) <=> Touches(i, Len(pre[i]) + 1, k)
              /\ Writes(i, n, k) <=> WritesTo(i, k)
      BY <1>2, TaskEnds
    <3> QED
      BY <3>1, <3>2
  <2>3. Reach(t) = pos[t] /\ Reach(t)' = Len(pre[i]) + 1
    BY <1>1, <1>2 DEF Reach
  <2>4. /\ Touches(tx_id[t], Reach(t), k)' <=> Touches(i, Reach(t), k)
        /\ Writes(tx_id[t], Reach(t), k)' <=> Writes(i, Reach(t), k)
    BY <1>1, <2>2, <2>3 DEF Touches, Writes
  <2>5. /\ Asked(t, k)' = Asked(t, k) /\ (Has(t, k)' <=> Has(t, k))
        /\ \A op : Asks(t, k, op)' <=> Asks(t, k, op)
    BY <1>1 DEF Asked, Asks, Has
  <2>6. Covered(t, k)
    BY DEF LocksCover
  <2> QED
    BY <1>1, <2>4, <2>5, <2>6 DEF Covered
<1> QED
  BY <1>3, <1>4

\* What remains of the entries and what is held, after one entry has been served.
LEMMA ServeHolds ==
    ASSUME Types, Numbered, ListsMatch, LocksCover, NEW t \in Thread, pc[t] = "wait",
           NEW i \in DOMAIN future[t], Serves(t, i), NEW k, k = future[t][i].key
    PROVE  /\ Has(t, k)' /\ ~Asks(t, k, "READ")'
           /\ Asks(t, k, "WRITE")' \/ k \in wlocks'[t] <=>
                  Asks(t, k, "WRITE") \/ k \in wlocks[t]
           /\ \A j : j # k => /\ j \in rlocks'[t] <=> j \in rlocks[t]
                              /\ j \in wlocks'[t] <=> j \in wlocks[t]
<1> DEFINE f == future[t][i]
<1>1. /\ k \in Key /\ i \in Asked(t, k)
      /\ f.op = "READ" => ~Has(t, k)
      /\ \/ f.op = "READ" /\ Reading(t, k)
         \/ f.op = "WRITE" /\ (Upgrading(t, k) \/ Dropping(t, k) \/ Writing(t, k))
  BY ServeCase
<1>2. AtHead(t, k)
  BY ServeEffect
<1>3. \A op : Asks(t, k, op)' <=> \E a \in Asked(t, k) : a # i /\ future[t][a].op = op
  BY ServeEntries
<1>4. \A op : Asks(t, k, op) <=> \E a \in Asked(t, k) : future[t][a].op = op
  BY DEF Asks
<1>5. \A a \in Asked(t, k) : /\ future[t][a].key = k /\ a \in DOMAIN future[t]
                             /\ future[t][a].op \in {"READ", "WRITE"}
                             /\ future[t][a] = [op |-> future[t][a].op, key |-> k]
  BY EntryAt DEF Asked, Task
<1>6. Asks(t, k, "READ") => ~Has(t, k)
  BY <1>1 DEF LocksCover, Covered
<1>7. OneRead(t) /\ rlocks \in [Thread -> SUBSET Key] /\ wlocks \in [Thread -> SUBSET Key]
  BY DEF LocksCover, Types
<1>8. CASE f.op = "READ" /\ Reading(t, k)
  <2>1. k \in rlocks'[t] /\ wlocks' = wlocks
        /\ \A j : j # k => (j \in rlocks'[t] <=> j \in rlocks[t])
    BY <1>7, <1>8 DEF Reading
  <2>2. ~\E a \in Asked(t, k) : a # i /\ future[t][a].op = "READ"
    BY <1>1, <1>5, <1>7, <1>8 DEF OneRead
  <2>3. Asks(t, k, "WRITE")' <=> Asks(t, k, "WRITE")
    BY <1>3, <1>4, <1>8
  <2> QED
    BY <1>3, <2>1, <2>2, <2>3 DEF Has
<1>9. CASE f.op = "WRITE" /\ Upgrading(t, k)
  <2>1. k \in rlocks[t] /\ k \in wlocks'[t]
        /\ \A j : j # k => /\ j \in rlocks'[t] <=> j \in rlocks[t]
                           /\ j \in wlocks'[t] <=> j \in wlocks[t]
    BY <1>7, <1>9 DEF Upgrading
  <2>2. ~Asks(t, k, "READ") /\ Asks(t, k, "WRITE")
    BY <1>1, <1>4, <1>6, <1>9, <2>1 DEF Has
  <2> QED
    BY <1>3, <1>4, <2>1, <2>2 DEF Has
<1>10. CASE f.op = "WRITE" /\ Dropping(t, k)
  <2>1. k \in rlocks[t] /\ rlocks' = rlocks /\ wlocks' = wlocks
    BY <1>10 DEF Dropping
  <2>2. ~Asks(t, k, "READ") /\ Asks(t, k, "WRITE")
    BY <1>1, <1>4, <1>6, <1>10, <2>1 DEF Has
  <2>3. \E a \in Asked(t, k) : a # i
    BY <1>1, <1>2, <1>10, AnotherOwn DEF Dropping
  <2>4. Asks(t, k, "WRITE")' /\ ~Asks(t, k, "READ")'
    BY <1>3, <1>4, <1>5, <2>2, <2>3
  <2> QED
    BY <2>1, <2>2, <2>4 DEF Has
<1>11. CASE f.op = "WRITE" /\ Writing(t, k)
  <2>1. k \in wlocks'[t] /\ rlocks' = rlocks
        /\ \A j : j # k => (j \in wlocks'[t] <=> j \in wlocks[t])
    BY <1>7, <1>11 DEF Writing
  <2>2. Asked(t, k) = {i}
    BY <1>1, <1>2, <1>11, OnlyOwn DEF Writing
  <2>3. ~Asks(t, k, "READ")' /\ Asks(t, k, "WRITE")
    BY <1>1, <1>3, <1>4, <1>11, <2>2
  <2> QED
    BY <2>1, <2>3 DEF Has
<1> QED
  BY <1>1, <1>8, <1>9, <1>10, <1>11

LEMMA ServeCovers ==
    ASSUME Types, Numbered, ListsMatch, LocksCover, NEW t \in Thread, check_waitlist(t)
    PROVE  OneRead(t)' /\ \A k \in Key : Covered(t, k)'
<1>1. PICK i \in DOMAIN future[t] : Serves(t, i)
  BY Served
<1>0. PICK key : key = future[t][i].key
  OBVIOUS
<1>2. /\ pc[t] = "wait" /\ pc'[t] \in {"wait", "exec"}
      /\ pre' = pre /\ tx_id' = tx_id
  BY WaitFrame DEF dispatch
<1>3. /\ OneRead(t)'
      /\ \A k : Asked(t, k)' # {} <=> \E a \in Asked(t, k) : a # i
      /\ \A k, op : Asks(t, k, op)' <=>
            \E a \in Asked(t, k) : a # i /\ future[t][a].op = op
  BY <1>1, ServeEntries DEF LocksCover
<1>4. /\ Has(t, key)' /\ ~Asks(t, key, "READ")'
      /\ Asks(t, key, "WRITE")' \/ key \in wlocks'[t] <=>
             Asks(t, key, "WRITE") \/ key \in wlocks[t]
      /\ \A j : j # key => /\ j \in rlocks'[t] <=> j \in rlocks[t]
                           /\ j \in wlocks'[t] <=> j \in wlocks[t]
  BY <1>0, <1>1, <1>2, ServeHolds
<1>5. i \in Asked(t, key)
  BY <1>0 DEF Asked
<1>7. ASSUME NEW k \in Key
      PROVE  Covered(t, k)'
  <2>1. Reach(t)' = Reach(t)
    BY <1>2 DEF Reach, Tasks
  <2>2. /\ Touches(tx_id[t], Reach(t), k)' <=> Touches(tx_id[t], Reach(t), k)
        /\ Writes(tx_id[t], Reach(t), k)' <=> Writes(tx_id[t], Reach(t), k)
    BY <1>2, <2>1 DEF Touches, Writes
  <2>3. Covered(t, k)
    BY DEF LocksCover
  <2>4. CASE k = key
    BY <1>2, <1>4, <1>5, <2>2, <2>3, <2>4 DEF Covered
  <2>5. CASE k # key
    <3>1. i \notin Asked(t, k)
      BY <1>0, <2>5 DEF Asked
    <3>2. (Asked(t, k)' # {} <=> Asked(t, k) # {}) /\ \A op : Asks(t, k, op)' <=> Asks(t, k, op)
      BY <1>3, <3>1 DEF Asks
    <3>3. (Has(t, k)' <=> Has(t, k)) /\ (k \in wlocks'[t] <=> k \in wlocks[t])
      BY <1>4, <2>5 DEF Has
    <3> QED
      BY <1>2, <2>2, <2>3, <3>2, <3>3 DEF Covered
  <2> QED
    BY <2>4, <2>5
<1> QED
  BY <1>3, <1>7

LEMMA CoverStep ==
    ASSUME Types, Dispatched, ListsMatch, LocksCover, Locking, Dispatched',
           NEW t \in Thread, worker(t), pre' = pre
    PROVE  LocksCover'
<1>1. ASSUME NEW u \in Thread, u # t
      PROVE  OneRead(u)' /\ \A k \in Key : Covered(u, k)'
  <2>1. Kept(u)
    BY <1>1, OthersKept
  <2> QED
    BY <2>1, CoveredFrame DEF LocksCover, Kept
<1>2. CASE regist(t)
  BY <1>1, <1>2, RegistCovers DEF LocksCover
<1>3. CASE releaseGiant(t)
  BY <1>1, <1>3, ReleaseCovers DEF LocksCover
<1>4. CASE check_waitlist(t)
  BY <1>1, <1>4, ServeCovers DEF LocksCover, Dispatched
<1>5. CASE execute(t)
  <2>1. UNCHANGED << pc, tx_id, future, rlocks, wlocks >> /\ pc[t] # "regist"
    BY <1>5 DEF execute, held
  <2>2. OneRead(t)' /\ \A k \in Key : Covered(t, k)'
    BY <2>1, CoveredFrame DEF LocksCover
  <2> QED
    BY <1>1, <2>2 DEF LocksCover
<1>6. CASE leave(t) \/ commit(t) \/ readUnlock(t) \/ writeUnlock(t) \/ finish(t)
  <2>1. pc'[t] \in {"done", "idle", "unlock"}
    <3>1. pc \in [Thread -> {"idle", "regist", "wait", "exec", "unlock", "done"}]
      BY DEF Types
    <3> QED
      BY <1>6, <3>1 DEF leave, commit, readUnlock, writeUnlock, finish, Goto
  <2>2. future'[t] = << >>
    BY <2>1 DEF Dispatched, WorkerMatches
  <2>3. OneRead(t)' /\ \A k \in Key : Covered(t, k)'
    BY <2>1, <2>2 DEF OneRead, Covered
  <2> QED
    BY <1>1, <2>3 DEF LocksCover
<1>7. CASE acquireGiant(t)
  <2>1. /\ pc[t] = "idle" /\ UNCHANGED << future, held >>
        /\ \/ pc'[t] = "done"
           \/ pc'[t] = "regist" /\ pos'[t] = 1 /\ tx_id'[t] \in TxId
    BY <1>7, AcquireEffect
  <2>2. future'[t] = << >> /\ rlocks'[t] = {} /\ wlocks'[t] = {}
    BY <2>1 DEF Dispatched, WorkerMatches, Busy, held
  <2>3. OneRead(t)' /\ \A k : Asked(t, k)' = {}
    BY <2>2 DEF OneRead, Asked
  <2>4. ASSUME NEW k \in Key, pc'[t] = "regist"
        PROVE  ~Touches(tx_id[t], Reach(t), k)' /\ ~Writes(tx_id[t], Reach(t), k)'
    <3>1. ~Touches(tx_id'[t], 1, k) /\ ~Writes(tx_id'[t], 1, k)
      BY <2>1, <2>4, TaskEnds
    <3>2. Reach(t)' = 1
      BY <2>1, <2>4 DEF Reach
    <3> QED
      BY <3>1, <3>2 DEF Touches, Writes
  <2>5. \A k \in Key : Covered(t, k)'
    <3>1. \A k, op : ~Asks(t, k, op)' /\ ~Has(t, k)'
      BY <2>2, <2>3 DEF Asks, Has
    <3> QED
      BY <2>1, <2>2, <2>3, <2>4, <3>1 DEF Covered
  <2> QED
    BY <1>1, <2>3, <2>5 DEF LocksCover
<1>8. CASE giveUp(t)
  BY <1>8 DEF giveUp, Locking
<1> QED
  BY <1>2, <1>3, <1>4, <1>5, <1>6, <1>7, <1>8 DEF worker

-----------------------------------------------------------------------------
(* The wait lists *)

\* A list that is not touched, whatever the counter.
LEMMA ListFrame ==
    ASSUME Types, NEW k \in Key, wait_list'[k] = wait_list[k], lower'[k] = lower[k],
           tx_counter' \in {tx_counter, tx_counter + 1}, Sorted(k)
    PROVE  Sorted(k)' /\ Live(k)' = Live(k) /\ \A j : Slots(k, j)' = Slots(k, j)
<1>1. Live(k)' = Live(k)
  BY DEF Live
<1>2. ASSUME NEW j
      PROVE  Slots(k, j)' = Slots(k, j)
  BY <1>1 DEF Slots
<1>3. \A n \in Live(k) : wait_list[k][n] \in Nat
  <2>1. wait_list[k] \in Seq(TxId) /\ lower[k] \in Nat
    BY DEF Types
  <2>2. \A n \in Live(k) : n \in 1 .. Len(wait_list[k])
    BY <2>1 DEF Live
  <2>3. \A n \in 1 .. Len(wait_list[k]) : wait_list[k][n] \in TxId
    BY <2>1
  <2> QED
    BY <2>2, <2>3, FixedLockManagerAssumption DEF TxId
<1>4. tx_counter \in Nat
  BY DEF Types
<1>5. Sorted(k)'
  BY <1>1, <1>3, <1>4 DEF Sorted
<1> QED
  BY <1>1, <1>2, <1>5

\* A worker has a slot for each entry after a step.
LEMMA QueuedAfter ==
    ASSUME NEW u \in Thread, NEW k, NEW j, tx_id'[u] = j,
           pc'[u] \in {"regist", "wait"} => Cardinality(Slots(k, j)') = Cardinality(Asked(u, k)')
    PROVE  Queued(u, k)'
<1>1. Slots(k, j)' = {n \in Live(k)' : wait_list'[k][n] = tx_id'[u]}
  BY DEF Slots
<1> QED
  BY <1>1 DEF Queued, Slots

\* The last transaction counted enters the list behind the others.
LEMMA AppendList ==
    ASSUME Types, Dispatched, NEW t \in Thread, tx_id[t] \in TxId, NEW k \in Key, Sorted(k),
           wait_list'[k] = Append(wait_list[k], tx_id[t]), lower'[k] = lower[k],
           tx_counter' = tx_counter, tx_counter = tx_id[t] + 1
    PROVE  LET n == Len(wait_list[k]) + 1
           IN /\ Sorted(k)' /\ n \notin Live(k)
              /\ \A j : /\ j # tx_id[t] => Slots(k, j)' = Slots(k, j)
                        /\ j = tx_id[t] => Slots(k, j)' = Slots(k, j) \cup {n}
<1> DEFINE l == wait_list[k]
           n == Len(l) + 1
<1>1. l \in Seq(TxId) /\ lower[k] \in Nat /\ tx_id[t] \in Nat /\ lower[k] <= Len(l)
  BY FixedLockManagerAssumption DEF Types, TxId, Sorted
<1>2. wait_list'[k] = Append(l, tx_id[t])
  OBVIOUS
<1>3. \A m \in Live(k) : l[m] < tx_counter
  BY DEF Sorted
<1>4. \A a, b \in Live(k) : a < b => l[a] <= l[b]
  BY DEF Sorted
<1>5. Live(k) = lower[k] + 1 .. Len(l) /\ Live(k)' = lower[k] + 1 .. Len(wait_list'[k])
  BY DEF Live
<1> HIDE DEF l
<1>6. /\ Len(l) \in Nat /\ Len(wait_list'[k]) = n /\ wait_list'[k][n] = tx_id[t]
      /\ \A m \in 1 .. Len(l) : wait_list'[k][m] = l[m] /\ l[m] \in TxId
  BY <1>1, <1>2
<1>7. /\ Live(k)' = Live(k) \cup {n} /\ n \notin Live(k)
      /\ \A m \in Live(k) : m \in 1 .. Len(l) /\ m < n
  BY <1>1, <1>5, <1>6
<1>8. \A m \in Live(k) : l[m] \in Nat /\ l[m] <= tx_id[t]
  <2>1. \A m \in Live(k) : l[m] \in Nat
    BY <1>6, <1>7, FixedLockManagerAssumption DEF TxId
  <2> QED
    BY <1>1, <1>3, <2>1
<1>9. Sorted(k)'
  <2>1. lower'[k] <= Len(wait_list'[k])
    BY <1>1, <1>6
  <2>2. \A m \in Live(k)' : wait_list'[k][m] < tx_counter'
    BY <1>1, <1>3, <1>6, <1>7
  <2>3. ASSUME NEW a \in Live(k)', NEW b \in Live(k)', a < b
        PROVE  wait_list'[k][a] <= wait_list'[k][b]
    <3>1. a # n
      BY <1>6, <1>7, <2>3
    <3> QED
      BY <1>4, <1>6, <1>7, <1>8, <2>3, <3>1
  <2> QED
    BY <2>1, <2>2, <2>3 DEF Sorted
<1>10. ASSUME NEW j
       PROVE  /\ j # tx_id[t] => Slots(k, j)' = Slots(k, j)
              /\ j = tx_id[t] => Slots(k, j)' = Slots(k, j) \cup {n}
  <2>1. Slots(k, j)' = {m \in Live(k)' : wait_list'[k][m] = j}
    BY DEF Slots
  <2>2. Slots(k, j) = {m \in Live(k) : l[m] = j}
    BY DEF Slots, l
  <2> QED
    BY <1>6, <1>7, <2>1, <2>2
<1> QED
  BY <1>7, <1>9, <1>10 DEF l

\* A head is taken off.
LEMMA AdvanceList ==
    ASSUME Types, NEW k \in Key, Sorted(k), lower[k] + 1 \in Live(k),
           wait_list'[k] = wait_list[k], lower'[k] = lower[k] + 1, tx_counter' = tx_counter
    PROVE  /\ Sorted(k)'
           /\ \A j : Slots(k, j)' = Slots(k, j) \ {lower[k] + 1}
<1>1. lower[k] \in Nat /\ wait_list[k] \in Seq(TxId) /\ Len(wait_list[k]) \in Nat
  BY DEF Types
<1>2. Live(k)' = Live(k) \ {lower[k] + 1}
  BY <1>1 DEF Live
<1>3. Sorted(k)'
  BY <1>1, <1>2 DEF Sorted, Live
<1>4. ASSUME NEW j
      PROVE  Slots(k, j)' = Slots(k, j) \ {lower[k] + 1}
  BY <1>2 DEF Slots
<1> QED
  BY <1>3, <1>4

LEMMA RegistLists ==
    ASSUME Types, Dispatched, LocksCover, ListsMatch, NEW t \in Thread, regist(t)
    PROVE  ListsMatch'
<1> DEFINE i == tx_id[t]
           task == pre[i][pos[t]]
<1>1. /\ i \in TxId /\ task \in Task /\ task.key \in Key /\ pc[t] = "regist"
      /\ tx_counter = i + 1
      /\ Registers(t, task) \/ Repeats(t, task)
  BY Registering
<1>2. lower' = lower /\ UNCHANGED << dispatch, pc, tx_id >>
  BY RegistEffect DEF Dispatched
<1> HIDE DEF task
<1>3. \A k \in Key : Sorted(k) /\ \A u \in Thread : Queued(u, k)
  BY DEF ListsMatch
<1>4. \A u \in Thread : u # t => Kept(u)
  BY OthersKept DEF worker
<1>5. tx_counter' = tx_counter
  BY <1>2 DEF dispatch
<1>6. ASSUME NEW k \in Key, wait_list'[k] = wait_list[k], Asked(t, k)' = Asked(t, k)
      PROVE  Sorted(k)' /\ \A u \in Thread : Queued(u, k)'
  <2>1. Sorted(k)' /\ Live(k)' = Live(k) /\ \A j : Slots(k, j)' = Slots(k, j)
    BY <1>2, <1>3, <1>5, <1>6, ListFrame
  <2>2. ASSUME NEW u \in Thread
        PROVE  Queued(u, k)'
    <3>1. Asked(u, k)' = Asked(u, k)
      BY <1>4, <1>6 DEF Kept, Asked
    <3>2. PICK j : j = tx_id[u]
      OBVIOUS
    <3>3. pc'[u] \in {"regist", "wait"} => Cardinality(Slots(k, j)) = Cardinality(Asked(u, k))
      BY <1>2, <1>3, <3>2 DEF Queued
    <3> QED
      BY <1>2, <2>1, <3>1, <3>2, <3>3, QueuedAfter
  <2> QED
    BY <2>1, <2>2
<1>7. CASE Repeats(t, task)
  <2>1. \A k \in Key : wait_list'[k] = wait_list[k] /\ Asked(t, k)' = Asked(t, k)
    BY <1>7 DEF Repeats, Asked
  <2> QED
    BY <1>6, <2>1 DEF ListsMatch
<1>8. CASE Registers(t, task)
  <2> DEFINE key == task.key
             a == Len(future[t]) + 1
             n == Len(wait_list[key]) + 1
  <2>1. /\ a \notin DOMAIN future[t]
        /\ \A k : Asked(t, k)' = IF key = k THEN Asked(t, k) \cup {a} ELSE Asked(t, k)
    BY <1>1, <1>8, RegistEntries
  <2>2. /\ wait_list'[key] = Append(wait_list[key], i)
        /\ \A k \in Key : k # key => wait_list'[k] = wait_list[k]
    BY <1>1, <1>8 DEF Registers, Types
  <2> HIDE DEF a
  <2>3. ASSUME NEW k \in Key, k = key
        PROVE  Sorted(k)' /\ \A u \in Thread : Queued(u, k)'
    <3>1. wait_list'[k] = Append(wait_list[k], i) /\ lower'[k] = lower[k]
      BY <1>2, <2>2, <2>3
    <3>2. /\ Sorted(k)' /\ Len(wait_list[k]) + 1 \notin Live(k)
          /\ \A j : /\ j # i => Slots(k, j)' = Slots(k, j)
                    /\ j = i => Slots(k, j)' = Slots(k, j) \cup {Len(wait_list[k]) + 1}
      BY <1>1, <1>3, <1>5, <3>1, AppendList
    <3>3. ASSUME NEW u \in Thread, u # t
          PROVE  Queued(u, k)'
      <4>1. Kept(u) /\ Queued(u, k)
        BY <1>3, <1>4, <3>3
      <4>2. CASE pc[u] \in {"regist", "wait"}
        <5>1. tx_id[u] # i
          BY <1>1, <3>3, <4>2 DEF Dispatched, Numbered, Busy
        <5>2. PICK j : j = tx_id[u]
          OBVIOUS
        <5>3. Slots(k, j)' = Slots(k, j)
          BY <3>2, <5>1, <5>2
        <5>4. Asked(u, k)' = Asked(u, k)
          BY <4>1 DEF Kept, Asked
        <5>5. tx_id'[u] = j /\ Cardinality(Slots(k, j)) = Cardinality(Asked(u, k))
          BY <4>1, <4>2, <5>2 DEF Queued, Kept
        <5> QED
          BY <5>3, <5>4, <5>5, QueuedAfter
      <4>3. CASE pc[u] \notin {"regist", "wait"}
        BY <4>1, <4>3 DEF Queued, Kept
      <4> QED
        BY <4>2, <4>3
    <3>4. Queued(t, k)'
      <4>0. PICK j : j = i
        OBVIOUS
      <4>1. /\ IsFiniteSet(Asked(t, k)) /\ IsFiniteSet(Slots(k, j))
            /\ Cardinality(Asked(t, k)) \in Nat
        BY CountedSets
      <4>2. Cardinality(Slots(k, j)) = Cardinality(Asked(t, k))
        BY <1>1, <1>3, <4>0 DEF Queued
      <4>3. Asked(t, k)' = Asked(t, k) \cup {a} /\ a \notin Asked(t, k)
        BY <2>1, <2>3 DEF Asked
      <4>4. Cardinality(Asked(t, k)') = Cardinality(Asked(t, k)) + 1
        BY <4>1, <4>3, FS_AddElement
      <4>5. Slots(k, j)' = Slots(k, j) \cup {Len(wait_list[k]) + 1}
            /\ Len(wait_list[k]) + 1 \notin Slots(k, j)
        BY <3>2, <4>0 DEF Slots
      <4>6. Cardinality(Slots(k, j)') = Cardinality(Slots(k, j)) + 1
        BY <4>1, <4>5, FS_AddElement
      <4>7. tx_id'[t] = j
        BY <1>2, <4>0
      <4> QED
        BY <4>2, <4>4, <4>6, <4>7, QueuedAfter
    <3> QED
      BY <3>2, <3>3, <3>4
  <2>4. ASSUME NEW k \in Key, k # key
        PROVE  Sorted(k)' /\ \A u \in Thread : Queued(u, k)'
    BY <1>6, <2>1, <2>2, <2>4
  <2> QED
    BY <2>3, <2>4 DEF ListsMatch
<1> QED
  BY <1>1, <1>7, <1>8

LEMMA ServeLists ==
    ASSUME Types, Dispatched, LocksCover, ListsMatch, NEW t \in Thread, check_waitlist(t)
    PROVE  ListsMatch'
<1>1. PICK i \in DOMAIN future[t] : Serves(t, i)
  BY Served
<1>0. PICK key : key = future[t][i].key
  OBVIOUS
<1>2. /\ key \in Key /\ AtHead(t, key) /\ wait_list' = wait_list
      /\ lower' = [lower EXCEPT ![key] = @ + 1]
      /\ UNCHANGED << dispatch, tx_id >>
  BY <1>0, <1>1, ServeEffect
<1>3. pc[t] = "wait"
  BY WaitFrame
<1>4. i \in Asked(t, key) /\ \A k : k # key => i \notin Asked(t, k)
  BY <1>0 DEF Asked
<1>5. \A k : Cardinality(Asked(t, k)') = Cardinality(Asked(t, k) \ {i})
  BY <1>1, ServeEntries
<1>6. \A k \in Key : Sorted(k) /\ \A u \in Thread : Queued(u, k)
  BY DEF ListsMatch
<1>7. \A u \in Thread : u # t => Kept(u) /\ \A k : Asked(u, k)' = Asked(u, k)
  BY OthersKept DEF worker, Kept, Asked
<1>8. tx_counter' = tx_counter
  BY <1>2 DEF dispatch
<1>9. lower'[key] = lower[key] + 1 /\ \A k \in Key : k # key => lower'[k] = lower[k]
  BY <1>2 DEF Types
<1>10. /\ lower[key] + 1 \in Live(key) /\ wait_list[key][lower[key] + 1] = tx_id[t]
       /\ lower[key] + 1 \in Slots(key, tx_id[t])
       /\ Cardinality(Slots(key, tx_id[t])) = Cardinality(Asked(t, key))
  <2>1. Asked(t, key) # {}
    BY <1>4
  <2> QED
    BY <1>2, <1>3, <2>1, HeadIsOwn DEF Dispatched
<1>11. Sorted(key)' /\ \A j : Slots(key, j)' = Slots(key, j) \ {lower[key] + 1}
  BY <1>2, <1>6, <1>8, <1>9, <1>10, AdvanceList
<1>12. Queued(t, key)'
  <2>0. PICK j : j = tx_id[t]
    OBVIOUS
  <2>1. IsFiniteSet(Asked(t, key)) /\ IsFiniteSet(Slots(key, j))
    BY <1>2, CountedSets
  <2>2. Cardinality(Asked(t, key)') = Cardinality(Asked(t, key)) - 1
    <3>1. i \in Asked(t, key) => Cardinality(Asked(t, key) \ {i}) = Cardinality(Asked(t, key)) - 1
      BY <2>1, FS_RemoveElement
    <3> QED
      BY <1>4, <1>5, <3>1
  <2>3. Slots(key, j)' = Slots(key, j) \ {lower[key] + 1}
    BY <1>11
  <2>4. Cardinality(Slots(key, j)') = Cardinality(Slots(key, j)) - 1
    <3>1. lower[key] + 1 \in Slots(key, j) =>
              Cardinality(Slots(key, j) \ {lower[key] + 1}) = Cardinality(Slots(key, j)) - 1
      BY <2>1, FS_RemoveElement
    <3> QED
      BY <1>10, <2>0, <2>3, <3>1
  <2>5. tx_id'[t] = j /\ Cardinality(Slots(key, j)) = Cardinality(Asked(t, key))
    BY <1>2, <1>10, <2>0
  <2> QED
    BY <2>2, <2>4, <2>5, QueuedAfter
<1>13. ASSUME NEW u \in Thread, u # t
       PROVE  Queued(u, key)'
  <2>1. Kept(u) /\ Queued(u, key) /\ Asked(u, key)' = Asked(u, key)
    BY <1>2, <1>6, <1>7, <1>13
  <2>2. CASE pc[u] \in {"regist", "wait"}
    <3>0. PICK j : j = tx_id[u]
      OBVIOUS
    <3>1. j # tx_id[t]
      BY <1>3, <1>13, <2>2, <3>0 DEF Dispatched, Numbered, Busy
    <3>2. lower[key] + 1 \notin Slots(key, j)
      BY <1>10, <3>1 DEF Slots
    <3>3. Slots(key, j)' = Slots(key, j)
      BY <1>11, <3>2
    <3>4. tx_id'[u] = j /\ Cardinality(Slots(key, j)) = Cardinality(Asked(u, key))
      BY <2>1, <2>2, <3>0 DEF Queued, Kept
    <3> QED
      BY <2>1, <3>3, <3>4, QueuedAfter
  <2>3. CASE pc[u] \notin {"regist", "wait"}
    BY <2>1, <2>3 DEF Queued, Kept
  <2> QED
    BY <2>2, <2>3
<1>14. ASSUME NEW k \in Key, k # key
       PROVE  Sorted(k)' /\ \A u \in Thread : Queued(u, k)'
  <2>1. Sorted(k)' /\ Live(k)' = Live(k) /\ \A j : Slots(k, j)' = Slots(k, j)
    BY <1>2, <1>6, <1>8, <1>9, <1>14, ListFrame
  <2>2. ASSUME NEW u \in Thread
        PROVE  Queued(u, k)'
    <3>0. PICK j : j = tx_id[u]
      OBVIOUS
    <3>1. tx_id'[u] = j /\ Slots(k, j)' = Slots(k, j)
      BY <1>2, <2>1, <3>0
    <3>2. Cardinality(Asked(u, k)') = Cardinality(Asked(u, k))
      <4>1. Asked(t, k) \ {i} = Asked(t, k)
        BY <1>4, <1>14
      <4> QED
        BY <1>5, <1>7, <4>1
    <3>3. pc'[u] \in {"regist", "wait"} => pc[u] \in {"regist", "wait"}
      BY <1>3, <1>7 DEF Kept
    <3>4. pc'[u] \in {"regist", "wait"} => Cardinality(Slots(k, j)) = Cardinality(Asked(u, k))
      BY <1>6, <3>0, <3>3 DEF Queued
    <3> QED
      BY <3>1, <3>2, <3>4, QueuedAfter
  <2> QED
    BY <2>1, <2>2
<1> QED
  BY <1>11, <1>12, <1>13, <1>14 DEF ListsMatch

LEMMA ListsStep ==
    ASSUME Types, Dispatched, LocksCover, ListsMatch, Dispatched',
           NEW t \in Thread, worker(t)
    PROVE  ListsMatch'
<1>1. CASE regist(t)
  BY <1>1, RegistLists
<1>2. CASE check_waitlist(t)
  BY <1>2, ServeLists
<1>3. CASE ~regist(t) /\ ~check_waitlist(t)
  <2>1. wait_list' = wait_list /\ lower' = lower
    BY <1>3 DEF worker, leave, acquireGiant, releaseGiant, giveUp, execute, commit,
                readUnlock, writeUnlock, finish, lists
  <2>2. future' = future
    BY <1>3 DEF worker, leave, acquireGiant, releaseGiant, giveUp, execute, commit,
                readUnlock, writeUnlock, finish
  <2>3. tx_counter' \in {tx_counter, tx_counter + 1}
    BY GiantStep
  <2>4. ASSUME NEW k \in Key
        PROVE  Sorted(k)' /\ Sorted(k) /\ \A j : Slots(k, j)' = Slots(k, j)
    BY <2>1, <2>3, ListFrame DEF ListsMatch
  <2>5. ASSUME NEW u \in Thread, NEW k \in Key
        PROVE  Queued(u, k)'
    <3>1. Queued(u, k) /\ Asked(u, k)' = Asked(u, k)
      BY <2>2 DEF ListsMatch, Asked
    <3>2. CASE tx_id'[u] = tx_id[u] /\ (pc'[u] \in {"regist", "wait"} =>
                                           pc[u] \in {"regist", "wait"})
      <4>0. PICK j : j = tx_id[u]
        OBVIOUS
      <4>1. Slots(k, j)' = Slots(k, j) /\ tx_id'[u] = j
        BY <2>4, <3>2, <4>0
      <4>2. pc'[u] \in {"regist", "wait"} => Cardinality(Slots(k, j)) = Cardinality(Asked(u, k))
        BY <3>1, <3>2, <4>0 DEF Queued
      <4> QED
        BY <3>1, <4>1, <4>2, QueuedAfter
    <3>3. CASE u = t /\ acquireGiant(t) /\ pc'[t] = "regist" /\ tx_id'[t] = tx_counter
      <4>1. Asked(u, k)' = {}
        <5>1. pc[t] = "idle"
          BY <3>3, AcquireEffect
        <5> QED
          BY <2>2, <3>3, <5>1 DEF Dispatched, WorkerMatches, Asked
      <4>2. PICK j : j = tx_counter
        OBVIOUS
      <4>3. Slots(k, j) = {}
        <5>1. tx_counter \in Nat
          BY DEF Types
        <5>2. \A n \in Live(k) : wait_list[k][n] # j
          BY <2>4, <4>2, <5>1 DEF Sorted
        <5> QED
          BY <5>2 DEF Slots
      <4>4. Slots(k, j)' = {} /\ tx_id'[u] = j
        BY <2>4, <3>3, <4>2, <4>3
      <4> QED
        BY <4>1, <4>4, QueuedAfter
    <3>4. u # t => pc'[u] = pc[u] /\ tx_id'[u] = tx_id[u]
      BY OthersKept DEF Kept
    <3>5. CASE u = t /\ ~(pc'[t] \in {"regist", "wait"})
      BY <3>5 DEF Queued
    <3>6. CASE u = t /\ acquireGiant(t)
      BY <3>3, <3>5, <3>6, AcquireEffect
    <3>7. CASE u = t /\ ~acquireGiant(t) /\ pc'[t] \in {"regist", "wait"}
      <4>1. releaseGiant(t)
        <5>1. pc \in [Thread -> {"idle", "regist", "wait", "exec", "unlock", "done"}]
          BY DEF Types
        <5> QED
          BY <1>3, <3>7, <5>1 DEF worker, leave, giveUp, execute, commit, readUnlock,
                                  writeUnlock, finish, Goto
      <4>2. pc[t] = "regist" /\ tx_id' = tx_id
        BY <4>1 DEF releaseGiant
      <4> QED
        BY <3>2, <3>7, <4>2
    <3> QED
      BY <3>2, <3>4, <3>5, <3>6, <3>7
  <2> QED
    BY <2>4, <2>5 DEF ListsMatch
<1> QED
  BY <1>1, <1>2, <1>3

-----------------------------------------------------------------------------
(* Passing a wait list *)

\* t takes the lock on k for writing.
Takes(t, k) == k \in wlocks'[t] /\ k \notin wlocks[t]

LEMMA Numbers ==
    ASSUME Types
    PROVE  tx_counter \in Nat /\ TxId \subseteq Nat
BY FixedLockManagerAssumption DEF Types, TxId

\* The locks a step of a worker takes: on the record at whose head it is.
LEMMA LockTaken ==
    ASSUME Base, NEW t \in Thread, worker(t), NEW k,
           k \in rlocks'[t] \cup wlocks'[t], k \notin rlocks[t] \/ k \notin wlocks[t],
           Takes(t, k) \/ ~Has(t, k)
    PROVE  /\ check_waitlist(t) /\ pc[t] = "wait" /\ k \in Key
           /\ AtHead(t, k) /\ Asked(t, k) # {}
           /\ Takes(t, k) => \A u \in Thread : u # t => ~Has(u, k)
           /\ k \notin wlocks[t]
<1>0. /\ Types /\ LocksCover /\ Counted
      /\ rlocks \in [Thread -> SUBSET Key] /\ wlocks \in [Thread -> SUBSET Key]
  BY DEF Base, Types
<1>1. check_waitlist(t)
  <2>1. CASE UNCHANGED held
    BY <2>1 DEF Takes, Has, held
  <2>2. CASE readUnlock(t) \/ writeUnlock(t)
    <3>1. rlocks'[t] \subseteq rlocks[t] /\ wlocks'[t] \subseteq wlocks[t]
      BY <1>0, <2>2 DEF readUnlock, writeUnlock
    <3> QED
      BY <3>1 DEF Takes, Has
  <2>3. CASE ~check_waitlist(t) /\ ~readUnlock(t) /\ ~writeUnlock(t)
    <3>1. UNCHANGED held
      BY <2>3 DEF worker, leave, acquireGiant, regist, releaseGiant, giveUp, execute,
                  commit, finish
    <3> QED
      BY <2>1, <3>1
  <2> QED
    BY <2>2, <2>3
<1>2. PICK i \in DOMAIN future[t] : Serves(t, i)
  BY <1>1, Served
<1>3. pc[t] = "wait"
  BY <1>1, Served
<1>4. PICK key : key = future[t][i].key
  OBVIOUS
<1>5. /\ key \in Key /\ i \in Asked(t, key) /\ AtHead(t, key)
      /\ Reading(t, key) \/ Upgrading(t, key) \/ Dropping(t, key) \/ Writing(t, key)
  BY <1>0, <1>2, <1>3, <1>4, ServeCase, ServeEffect
<1>6. k = key /\ ~Dropping(t, key)
  BY <1>0, <1>5 DEF Reading, Upgrading, Dropping, Writing, Takes, Has
<1>7. CASE Reading(t, key)
  <2>1. ~Takes(t, k)
    BY <1>7 DEF Reading, Takes
  <2> QED
    BY <1>1, <1>3, <1>5, <1>6, <2>1 DEF Has
<1>8. CASE Upgrading(t, key)
  <2>1. k \in rlocks[t] /\ CanUpgrade(lock[k])
    BY <1>6, <1>8 DEF Upgrading
  <2>2. k \notin wlocks[t]
    BY <1>0, <2>1, ReaderOnly
  <2>3. ASSUME NEW u \in Thread, u # t, Has(u, k)
        PROVE  FALSE
    <3>1. CASE k \in wlocks[u]
      <4>1. ~Has(t, k)
        BY <1>0, <2>3, <3>1, WriterExcludes
      <4> QED
        BY <2>1, <4>1 DEF Has
    <3>2. CASE k \in rlocks[u]
      <4>1. LockTypes(Thread, Key, lock, rlocks, wlocks)
        BY <1>0, CountersTyped
      <4>2. u \in HoldersOf(Thread, rlocks, k) /\ t \in HoldersOf(Thread, rlocks, k)
        BY <2>1, <3>2 DEF HoldersOf
      <4>3. Cardinality(HoldersOf(Thread, rlocks, k)) = 1
        BY <1>0, <2>1, <4>1, ReaderCounted DEF Counted, CanUpgrade
      <4>4. IsFiniteSet(HoldersOf(Thread, rlocks, k))
        BY <4>1, HoldersFinite DEF LockTypes
      <4>5. \E x : HoldersOf(Thread, rlocks, k) = {x}
        BY <4>3, <4>4, FS_Singleton
      <4> QED
        BY <2>3, <4>2, <4>5
    <3> QED
      BY <2>3, <3>1, <3>2 DEF Has
  <2> QED
    BY <1>1, <1>3, <1>5, <1>6, <2>2, <2>3
<1>9. CASE Writing(t, key)
  <2>1. CanWriteLock(lock[k])
    BY <1>6, <1>9 DEF Writing
  <2>2. \A u \in Thread : ~Has(u, k)
    BY <1>0, <2>1, HeldNotFree
  <2> QED
    BY <1>1, <1>3, <1>5, <1>6, <2>2 DEF Has
<1> QED
  BY <1>5, <1>6, <1>7, <1>8, <1>9

\* A worker that takes the lock on a record has it for itself, and is at the head.
LEMMA TakesAlone ==
    ASSUME Base, NEW t \in Thread, worker(t), NEW k, Takes(t, k)
    PROVE  /\ check_waitlist(t) /\ pc[t] = "wait" /\ k \in Key
           /\ AtHead(t, k) /\ Asked(t, k) # {}
           /\ \A u \in Thread : u # t => ~Has(u, k)
BY LockTaken DEF Takes

\* check_waitlist gives no write lock up.
LEMMA WritesStay ==
    ASSUME Types, NEW t \in Thread, check_waitlist(t)
    PROVE  wlocks[t] \subseteq wlocks'[t]
<1>1. PICK i \in DOMAIN future[t] : Serves(t, i)
  BY Served
<1>2. PICK k : Reading(t, k) \/ Upgrading(t, k) \/ Dropping(t, k) \/ Writing(t, k)
  BY <1>1, ServeEffect
<1>3. wlocks \in [Thread -> SUBSET Key]
  BY DEF Types
<1> QED
  BY <1>2, <1>3 DEF Reading, Upgrading, Dropping, Writing

\* What a transaction writes and has not locked for that, its worker waits for.
LEMMA WriterWaits ==
    ASSUME Base, NEW t \in Thread, NEW k \in Key, WritesTo(tx_id[t], k), k \notin wlocks[t],
           \/ pc[t] \in {"wait", "exec"}
           \/ pc[t] = "regist" /\ pos[t] > Len(Tasks(t))
    PROVE  Asks(t, k, "WRITE") /\ Asked(t, k) # {}
<1> DEFINE i == tx_id[t]
<1>1. i \in TxId /\ Tasks(t) = pre[i]
  BY DEF Base, Dispatched, Numbered, Busy, Tasks
<1>2. Len(pre[i]) \in Nat /\ pos[t] \in Nat
  BY <1>1, TasksTyped DEF Base, Types
<1>3. Reach(t) \in Nat /\ Reach(t) > Len(pre[i])
  BY <1>1, <1>2 DEF Reach
<1>4. Writes(i, Reach(t), k)
  BY <1>1, <1>3, TaskEnds DEF Base
<1>5. Covered(t, k)
  BY DEF Base, LocksCover
<1>6. Asks(t, k, "WRITE")
  BY <1>4, <1>5 DEF Covered
<1> QED
  BY <1>6 DEF Asks

\* A worker leaves a record it writes behind only by taking the lock.
LEMMA WorkerBehind ==
    ASSUME Base, Base', Locking, NEW t \in Thread, worker(t), pre' = pre, ~acquireGiant(t),
           NEW k \in Key, NEW j \in TxId, WritesTo(j, k)
    PROVE  Behind(t, j, k)' <=> Behind(t, j, k) /\ ~Takes(t, k)
<1>0. /\ pc \in [Thread -> {"idle", "regist", "wait", "exec", "unlock", "done"}]
      /\ Types /\ Dispatched
  BY DEF Base, Types
<1>1. CASE regist(t)
  <2>1. UNCHANGED << pc, tx_id, wlocks >>
    BY <1>1 DEF regist, held
  <2> QED
    BY <2>1 DEF Behind, Takes
<1>2. CASE leave(t) \/ execute(t) \/ commit(t) \/ readUnlock(t) \/ writeUnlock(t)
           \/ finish(t)
  <2>1. pc[t] \notin {"regist", "wait"} /\ pc'[t] \notin {"regist", "wait"}
    BY <1>0, <1>2 DEF leave, execute, commit, readUnlock, writeUnlock, finish, Goto
  <2> QED
    BY <2>1 DEF Behind
<1>3. CASE releaseGiant(t)
  <2>1. /\ pc[t] = "regist" /\ pc'[t] = IF future[t] = << >> THEN "exec" ELSE "wait"
        /\ UNCHANGED << tx_id, rlocks, wlocks >> /\ pos[t] > Len(Tasks(t))
    BY <1>0, <1>3 DEF releaseGiant, Goto, held
  <2>2. ~Takes(t, k)
    BY <2>1 DEF Takes
  <2>3. Behind(t, j, k) => future[t] # << >>
    BY <2>1, WriterWaits DEF Behind, Asked
  <2> QED
    BY <2>1, <2>2, <2>3 DEF Behind
<1>4. CASE check_waitlist(t)
  <2>1. pc[t] = "wait" /\ pc'[t] \in {"wait", "exec"} /\ tx_id' = tx_id
    BY <1>0, <1>4, WaitFrame
  <2>2. wlocks[t] \subseteq wlocks'[t]
    BY <1>0, <1>4, WritesStay
  <2>3. pc'[t] = "exec" /\ tx_id[t] = j => k \in wlocks'[t]
    <3>1. ASSUME pc'[t] = "exec", tx_id[t] = j
          PROVE  k \in wlocks'[t]
      <4>1. future'[t] = << >>
        BY <3>1 DEF Base, Dispatched, WorkerMatches
      <4>2. Len(pre[j]) \in Nat /\ Writes(j, Len(pre[j]) + 1, k)
        BY <1>0, TasksTyped, TaskEnds
      <4>3. Writes(tx_id[t], Reach(t), k)'
        BY <2>1, <3>1, <4>2 DEF Writes, Reach, Tasks
      <4>4. Asks(t, k, "WRITE")' \/ k \in wlocks'[t]
        BY <3>1, <4>3 DEF Base, LocksCover, Covered
      <4> QED
        BY <4>1, <4>4 DEF Asks, Asked
    <3> QED
      BY <3>1
  <2> QED
    BY <2>1, <2>2, <2>3 DEF Behind, Takes
<1>5. CASE giveUp(t)
  BY <1>5 DEF giveUp, Locking
<1> QED
  BY <1>1, <1>2, <1>3, <1>4, <1>5 DEF worker

LEMMA PassedWorker ==
    ASSUME Base, Base', Locking, NEW t \in Thread, worker(t), pre' = pre,
           NEW k \in Key, NEW j \in TxId, WritesTo(j, k)
    PROVE  Passed(j, k)' <=> Passed(j, k) \/ (Takes(t, k) /\ tx_id[t] = j)
<1>0. Types /\ Dispatched /\ tx_counter \in Nat /\ j \in Nat
  BY Numbers DEF Base
<1>1. ASSUME NEW u \in Thread, u # t
      PROVE  Behind(u, j, k)' <=> Behind(u, j, k)
  BY <1>0, <1>1, OthersKept DEF Kept, Behind
<1>2. CASE acquireGiant(t)
  <2>1. /\ pc[t] = "idle" /\ UNCHANGED held
        /\ \/ pc'[t] = "done" /\ tx_counter' = tx_counter
           \/ /\ pc'[t] = "regist" /\ tx_counter' = tx_counter + 1
              /\ tx_id'[t] = tx_counter
    BY <1>0, <1>2, AcquireEffect
  <2>2. ~Takes(t, k) /\ ~Behind(t, j, k) /\ k \notin wlocks'[t]
    BY <1>0, <2>1 DEF Takes, Behind, Dispatched, WorkerMatches, Busy, held
  <2>3. Behind(t, j, k)' <=> pc'[t] = "regist" /\ j = tx_counter
    BY <2>1, <2>2 DEF Behind
  <2> QED
    BY <1>0, <1>1, <2>1, <2>2, <2>3 DEF Passed
<1>3. CASE ~acquireGiant(t)
  <2>1. tx_counter' = tx_counter
    BY <1>0, <1>3, GiantStep
  <2>2. Behind(t, j, k)' <=> Behind(t, j, k) /\ ~Takes(t, k)
    BY <1>3, WorkerBehind
  <2>3. Behind(t, j, k) => tx_id[t] = j
    BY DEF Behind
  <2>4. ASSUME Takes(t, k), tx_id[t] = j
        PROVE  j < tx_counter /\ \A u \in Thread : u # t => ~Behind(u, j, k)
    <3>1. pc[t] = "wait"
      BY <2>4, TakesAlone
    <3> QED
      BY <1>0, <2>4, <3>1 DEF Dispatched, Numbered, Busy, Behind
  <2> QED
    BY <1>1, <2>1, <2>2, <2>3, <2>4 DEF Passed
<1> QED
  BY <1>2, <1>3

-----------------------------------------------------------------------------
(* Taking turns *)

\* Who waits for a record at whose head another is, is not before that one.
LEMMA FirstInLine ==
    ASSUME Base, NEW t \in Thread, pc[t] = "wait", NEW k \in Key, AtHead(t, k),
           Asked(t, k) # {}, NEW u \in Thread, Asked(u, k) # {}
    PROVE  ~(tx_id[u] < tx_id[t])
<1>1. /\ lower[k] + 1 \in Live(k) /\ wait_list[k][lower[k] + 1] = tx_id[t]
      /\ wait_list[k] \in Seq(TxId) /\ Len(wait_list[k]) \in Nat /\ lower[k] \in Nat
  BY HeadIsOwn, CountedSets DEF Base, Dispatched
<1>2. pc[u] \in {"regist", "wait"}
  <2>1. future[u] # << >>
    BY DEF Asked
  <2> QED
    BY <2>1 DEF Base, Dispatched, WorkerMatches
<1>3. PICK n \in Slots(k, tx_id[u]) : TRUE
  <2>1. Cardinality(Slots(k, tx_id[u])) = Cardinality(Asked(u, k))
    BY <1>2 DEF Base, ListsMatch, Queued
  <2>2. IsFiniteSet(Slots(k, tx_id[u])) /\ IsFiniteSet(Asked(u, k))
    BY CountedSets DEF Base
  <2>3. Slots(k, tx_id[u]) # {}
    BY <2>1, <2>2, FS_EmptySet
  <2> QED
    BY <2>3
<1>4. n \in Live(k) /\ wait_list[k][n] = tx_id[u]
  BY DEF Slots
<1>5. n = lower[k] + 1 \/ lower[k] + 1 < n
  BY <1>1, <1>4 DEF Live
<1>6. n = lower[k] + 1 \/ tx_id[t] <= tx_id[u]
  BY <1>1, <1>4, <1>5 DEF Base, ListsMatch, Sorted
<1>7. tx_id[t] \in Nat /\ tx_id[u] \in Nat
  <2>1. tx_id[t] \in TxId /\ tx_id[u] \in TxId
    BY <1>2 DEF Base, Dispatched, Numbered, Busy
  <2> QED
    BY <2>1, Numbers DEF Base
<1> QED
  BY <1>1, <1>4, <1>6, <1>7

\* The locks and entries of a worker are those it had, but for one.
LEMMA ClaimsKept ==
    ASSUME Base, Base', NEW t \in Thread, worker(t), NEW u \in Thread,
           NEW k \in Key, Has(u, k)' \/ Asked(u, k)' # {}
    PROVE  /\ tx_id'[u] = tx_id[u] /\ tx_id[u] \in TxId /\ tx_id[u] < tx_counter
           /\ Has(u, k) \/ Asked(u, k) # {} \/ (u = t /\ regist(t))
           /\ Has(u, k)' /\ ~Has(u, k) =>
                  u = t /\ pc[t] = "wait" /\ AtHead(t, k) /\ Asked(t, k) # {}
<1>0. /\ Types /\ Dispatched /\ Dispatched'
      /\ rlocks \in [Thread -> SUBSET Key] /\ wlocks \in [Thread -> SUBSET Key]
  BY DEF Base, Types
<1>1. Busy(u)'
  <2>1. (rlocks'[u] # {} \/ wlocks'[u] # {}) \/ future'[u] # << >>
    BY DEF Has, Asked
  <2> QED
    BY <1>0, <2>1 DEF Dispatched, WorkerMatches, Busy
<1>2. CASE u # t
  <2>1. Kept(u)
    BY <1>0, <1>2, OthersKept
  <2>2. (Has(u, k)' <=> Has(u, k)) /\ Asked(u, k)' = Asked(u, k) /\ Busy(u)
    BY <1>1, <2>1 DEF Kept, Has, Asked, Busy
  <2> QED
    BY <1>0, <2>1, <2>2 DEF Kept, Dispatched, Numbered
<1>3. CASE u = t
  <2>1. ~acquireGiant(t)
    <3>1. ASSUME acquireGiant(t)
          PROVE  FALSE
      <4>1. ~Busy(t) /\ pc[t] = "idle" /\ UNCHANGED << future, held >>
        BY <1>0, <3>1, AcquireEffect
      <4>2. rlocks[t] = {} /\ wlocks[t] = {} /\ future[t] = << >>
        BY <1>0, <4>1 DEF Dispatched, WorkerMatches
      <4> QED
        BY <1>3, <4>1, <4>2 DEF Has, Asked, held
    <3> QED
      BY <3>1
  <2>2. Busy(t) /\ tx_id'[t] = tx_id[t]
    BY <1>0, <1>1, <1>3, <2>1, OnlyAcquired
  <2>3. tx_id[t] \in TxId /\ tx_id[t] < tx_counter
    BY <1>0, <2>2 DEF Dispatched, Numbered
  <2>4. Has(t, k)' /\ ~Has(t, k) => pc[t] = "wait" /\ AtHead(t, k) /\ Asked(t, k) # {}
    BY LockTaken DEF Has
  <2>5. Has(t, k) \/ Asked(t, k) # {} \/ regist(t)
    <3>1. ASSUME ~regist(t), Asked(t, k)' # {}
          PROVE  Asked(t, k) # {}
      <4>1. CASE check_waitlist(t)
        <5>1. PICK i \in DOMAIN future[t] : Serves(t, i)
          BY <4>1, Served
        <5> QED
          BY <1>0, <3>1, <5>1, ServeEntries
      <4>2. CASE ~check_waitlist(t)
        <5>1. future' = future
          BY <2>1, <3>1, <4>2 DEF worker, leave, releaseGiant, giveUp, execute, commit,
                                  readUnlock, writeUnlock, finish
        <5> QED
          BY <3>1, <5>1 DEF Asked
      <4> QED
        BY <4>1, <4>2
    <3> QED
      BY <1>3, <2>4, <3>1
  <2> QED
    BY <1>3, <2>2, <2>3, <2>4, <2>5
<1> QED
  BY <1>2, <1>3

LEMMA InTurnStep ==
    ASSUME Base, Base', Locking, InTurn, NEW t \in Thread, worker(t), pre' = pre
    PROVE  InTurn'
<1>0. \A j, k : WritesTo(j, k)' <=> WritesTo(j, k)
  BY DEF WritesTo
<1>1. ASSUME NEW u \in Thread, NEW k \in Key, NEW j \in TxId,
             WritesTo(j, k), Has(u, k)' \/ Asked(u, k)' # {}
      PROVE  /\ Has(u, k)' /\ j < tx_id'[u] => Passed(j, k)'
             /\ ~(j > tx_id'[u] /\ Passed(j, k)')
  <2>0. /\ tx_id'[u] = tx_id[u] /\ tx_id[u] \in TxId /\ tx_id[u] < tx_counter
        /\ Has(u, k) \/ Asked(u, k) # {} \/ (u = t /\ regist(t))
        /\ Has(u, k)' /\ ~Has(u, k) =>
               u = t /\ pc[t] = "wait" /\ AtHead(t, k) /\ Asked(t, k) # {}
    BY <1>1, ClaimsKept
  <2>1. Passed(j, k)' <=> Passed(j, k) \/ (Takes(t, k) /\ tx_id[t] = j)
    BY <1>1, PassedWorker
  <2>2. /\ Types /\ Dispatched /\ tx_counter \in Nat /\ j \in Nat /\ tx_id[u] \in Nat
    BY <2>0, Numbers DEF Base
  <2>3. ASSUME Has(u, k)', j < tx_id[u]
        PROVE  Passed(j, k)
    <3>1. CASE Has(u, k)
      BY <1>1, <2>3, <3>1 DEF InTurn
    <3>2. CASE ~Has(u, k)
      <4>1. u = t /\ pc[t] = "wait" /\ AtHead(t, k) /\ Asked(t, k) # {}
        BY <2>0, <2>3, <3>2
      <4>2. ASSUME NEW v \in Thread, Behind(v, j, k)
            PROVE  FALSE
        <5>1. pc[v] \in {"regist", "wait"} /\ tx_id[v] = j /\ k \notin wlocks[v]
          BY <4>2 DEF Behind
        <5>2. pc[v] = "wait"
          <6>1. pc[v] = "regist" => tx_counter = j + 1
            BY <2>2, <5>1 DEF Dispatched, WorkerMatches
          <6> QED
            BY <2>0, <2>2, <2>3, <5>1, <6>1
        <5>3. Asked(v, k) # {}
          BY <1>1, <5>1, <5>2, WriterWaits
        <5> QED
          BY <2>3, <4>1, <5>1, <5>3, FirstInLine
      <4> QED
        BY <2>0, <2>2, <2>3, <4>2 DEF Passed
    <3> QED
      BY <3>1, <3>2
  <2>4. ASSUME j > tx_id[u], Passed(j, k)'
        PROVE  FALSE
    <3>1. CASE u = t /\ regist(t)
      <4>1. tx_counter = tx_id[t] + 1
        BY <2>2, <3>1 DEF Dispatched, WorkerMatches, regist
      <4>2. tx_counter' = tx_counter
        BY <3>1 DEF regist, dispatch
      <4>3. j < tx_counter'
        BY <2>4 DEF Passed
      <4> QED
        BY <2>2, <2>4, <3>1, <4>1, <4>2, <4>3
    <3>2. CASE (Has(u, k) \/ Asked(u, k) # {}) /\ Passed(j, k)
      BY <1>1, <2>4, <3>2 DEF InTurn
    <3>3. CASE (Has(u, k) \/ Asked(u, k) # {}) /\ Takes(t, k) /\ tx_id[t] = j
      <4>0. u # t
        BY <2>2, <2>4, <3>3
      <4>1. /\ pc[t] = "wait" /\ AtHead(t, k) /\ Asked(t, k) # {}
            /\ ~Has(u, k)
        BY <3>3, <4>0, TakesAlone
      <4> QED
        BY <2>2, <2>4, <3>3, <4>1, FirstInLine
    <3> QED
      BY <2>0, <2>1, <2>4, <3>1, <3>2, <3>3
  <2> QED
    BY <2>0, <2>1, <2>3, <2>4
<1> QED
  BY <1>0, <1>1 DEF InTurn

-----------------------------------------------------------------------------
(* The values of the records *)

LEMMA PassedWritersStep ==
    ASSUME Base, Base', Locking, NEW t \in Thread, worker(t), pre' = pre, NEW k \in Key
    PROVE  IF Takes(t, k)
           THEN /\ PassedWriters(k)' = PassedWriters(k) \cup {tx_id[t]}
                /\ tx_id[t] \notin PassedWriters(k)
                /\ tx_id[t] \in TxId /\ WritesTo(tx_id[t], k)
           ELSE PassedWriters(k)' = PassedWriters(k)
<1>0. \A j, q : WritesTo(j, q)' <=> WritesTo(j, q)
  BY DEF WritesTo
<1>1. \A j \in TxId : WritesTo(j, k) =>
          (Passed(j, k)' <=> Passed(j, k) \/ (Takes(t, k) /\ tx_id[t] = j))
  BY PassedWorker
<1>2. CASE ~Takes(t, k)
  BY <1>0, <1>1, <1>2 DEF PassedWriters
<1>3. CASE Takes(t, k)
  <2>1. Types /\ Dispatched /\ LocksCover'
    BY DEF Base
  <2>2. check_waitlist(t) /\ pc[t] = "wait"
    BY <1>3, TakesAlone
  <2>3. /\ pc'[t] \in {"wait", "exec"} /\ tx_id' = tx_id /\ tx_id[t] \in TxId
    BY <2>1, <2>2, WaitFrame DEF Dispatched, Numbered, Busy
  <2>4. Covered(t, k)'
    BY <2>1 DEF LocksCover
  <2>5. Writes(tx_id[t], Reach(t), k)'
    BY <1>3, <2>3, <2>4 DEF Covered, Takes
  <2>6. WritesTo(tx_id[t], k)
    BY <2>3, <2>5 DEF Writes, WritesTo
  <2>7. ~Passed(tx_id[t], k)
    BY <1>3, <2>2, <2>3 DEF Passed, Behind, Takes
  <2> QED
    BY <1>0, <1>1, <1>3, <2>3, <2>6, <2>7 DEF PassedWriters
<1> QED
  BY <1>2, <1>3

\* A step that does not touch what k holds, or who may write it.
LEMMA HoldsAtSteady ==
    ASSUME Base, Base', Locking, NEW t \in Thread, worker(t), pre' = pre, NEW k \in Key, HoldsAt(k),
           ~Takes(t, k), value'[k] = value[k], MayWrite(t, k)' <=> MayWrite(t, k),
           MayWrite(t, k) =>
               /\ tx_id'[t] = tx_id[t]
               /\ (pc[t] = "exec" /\ Writes(tx_id[t], pos[t], k))'
                     <=> pc[t] = "exec" /\ Writes(tx_id[t], pos[t], k)
    PROVE  HoldsAt(k)'
<1>1. PassedWriters(k)' = PassedWriters(k)
  BY PassedWritersStep
<1>3. ASSUME NEW u \in Thread
      PROVE  /\ MayWrite(u, k)' <=> MayWrite(u, k)
             /\ MayWrite(u, k) => (WhileWritten(u, k)' <=> WhileWritten(u, k))
  <2>1. CASE u = t
    BY <1>1, <2>1 DEF WhileWritten
  <2>2. CASE u # t
    <3>1. Kept(u)
      BY <2>2, OthersKept DEF Base
    <3>2. Writes(tx_id[u], pos[u], k)' <=> Writes(tx_id[u], pos[u], k)
      BY <3>1 DEF Kept, Writes
    <3> QED
      BY <1>1, <3>1, <3>2 DEF Kept, MayWrite, WhileWritten
  <2> QED
    BY <2>1, <2>2
<1> QED
  BY <1>1, <1>3 DEF HoldsAt

\* The lock is taken for writing: from now on the writer is not counted.
LEMMA HoldsAtTaken ==
    ASSUME Base, Base', Locking, NEW t \in Thread, worker(t), pre' = pre, NEW k \in Key, HoldsAt(k),
           Takes(t, k)
    PROVE  HoldsAt(k)'
<1>1. /\ PassedWriters(k)' = PassedWriters(k) \cup {tx_id[t]}
      /\ tx_id[t] \notin PassedWriters(k) /\ tx_id[t] \in TxId
  BY PassedWritersStep
<1>2. \A u \in Thread : u # t => ~Has(u, k)
  BY TakesAlone
<1>3. Latest(PassedWriters(k), value[k])
  BY <1>2 DEF HoldsAt, MayWrite, Has, Takes
<1>4. /\ pc[t] = "wait" /\ pc'[t] \in {"wait", "exec"} /\ k \notin wlocks[t]
      /\ value' = value /\ tx_id' = tx_id /\ pos' = pos /\ pre' = pre
  BY TakesAlone, WaitFrame DEF Takes, Base, records
<1>5. MayWrite(t, k)'
  BY <1>4 DEF MayWrite, Takes
<1>6. \A u \in Thread : u # t => ~MayWrite(u, k)'
  BY <1>2, OthersKept DEF Kept, MayWrite, Has, Base
<1>7. ~Writes(tx_id[t], pos[t], k)'
  <2>1. pos[t] = 1
    BY <1>4 DEF Base, Dispatched, WorkerMatches
  <2>2. ~Writes(tx_id[t], pos[t], k)
    BY <1>1, <2>1, TaskEnds DEF Base
  <2> QED
    BY <1>4, <2>2 DEF Writes
<1>8. (PassedWriters(k) \ {tx_id[t]})' = PassedWriters(k)
  BY <1>1, <1>4
<1>9. Latest(PassedWriters(k) \ {tx_id[t]}, value[k])'
  BY <1>3, <1>4, <1>8 DEF Latest
<1> QED
  BY <1>5, <1>6, <1>7, <1>9 DEF HoldsAt, WhileWritten

\* What a running worker accesses, it has locked.
LEMMA TaskLocked ==
    ASSUME Base, NEW t \in Thread, execute(t)
    PROVE  LET task == pre[tx_id[t]][pos[t]]
           IN /\ tx_id[t] \in TxId /\ pos[t] \in 1 .. Len(pre[tx_id[t]])
              /\ task = Tasks(t)[pos[t]] /\ task.key \in Key
              /\ task.op \in {"READ", "WRITE"} /\ Has(t, task.key)
              /\ task.key \in wlocks[t] <=> WritesTo(tx_id[t], task.key)
              /\ task.op = "WRITE" => task.key \in wlocks[t]
<1> DEFINE i == tx_id[t]
           n == pos[t]
           task == pre[i][n]
           k == task.key
<1>1. pc[t] = "exec" /\ pos[t] <= Len(Tasks(t)) /\ Busy(t)
  BY DEF execute, Busy
<1>2. /\ i \in TxId /\ Tasks(t) = pre[i] /\ n \in 1 .. Len(pre[i])
      /\ k \in Key /\ task.op \in {"READ", "WRITE"}
  BY <1>1, TaskAt DEF Base, Dispatched
<1>3. Len(pre[i]) \in Nat /\ DOMAIN pre[i] = 1 .. Len(pre[i])
  BY <1>2, TasksTyped DEF Base
<1>4. Reach(t) = Len(pre[i]) + 1
  BY <1>1, <1>2 DEF Reach
<1>5. Touches(i, Reach(t), k) /\ (task.op = "WRITE" => WritesTo(i, k))
  BY <1>2, <1>3, <1>4 DEF Touches, WritesTo
<1>6. Writes(i, Reach(t), k) <=> WritesTo(i, k)
  <2>1. Reach(t) \in Nat /\ Reach(t) > Len(pre[i])
    BY <1>3, <1>4
  <2> HIDE DEF k
  <2> QED
    BY <1>2, <2>1, TaskEnds DEF Base
<1>7. Covered(t, k) /\ Asked(t, k) = {} /\ ~Asks(t, k, "WRITE")
  <2>1. future[t] = << >>
    BY <1>1 DEF Base, Dispatched, WorkerMatches
  <2> QED
    BY <1>2, <2>1 DEF Base, LocksCover, Asked, Asks
<1>8. Has(t, k) /\ (k \in wlocks[t] <=> WritesTo(i, k))
  BY <1>1, <1>5, <1>6, <1>7 DEF Covered
<1> QED
  BY <1>2, <1>5, <1>8

\* Whoever has the lock on k, the writers past the list are those before it, and
\* perhaps itself.
LEMMA InTurnAt ==
    ASSUME Base, InTurn, NEW t \in Thread, NEW k \in Key, Has(t, k)
    PROVE  /\ tx_id[t] \in TxId /\ tx_id[t] \in Nat
           /\ \A j \in PassedWriters(k) : j \in Nat /\ j <= tx_id[t]
           /\ \A j \in TxId : WritesTo(j, k) /\ j < tx_id[t] => j \in PassedWriters(k)
<1>1. Busy(t)
  BY DEF Base, Dispatched, WorkerMatches, Has
<1>2. tx_id[t] \in TxId
  BY <1>1 DEF Base, Dispatched, Numbered
<1>3. TxId \subseteq Nat
  BY Numbers DEF Base
<1>4. \A j \in PassedWriters(k) : j \in TxId /\ ~(j > tx_id[t])
  BY DEF InTurn, PassedWriters
<1>5. \A j \in TxId : WritesTo(j, k) /\ j < tx_id[t] => j \in PassedWriters(k)
  BY DEF InTurn, PassedWriters
<1>6. ASSUME NEW j \in PassedWriters(k)
      PROVE  j \in Nat /\ j <= tx_id[t]
  <2>1. j \in Nat /\ tx_id[t] \in Nat /\ ~(j > tx_id[t])
    BY <1>2, <1>3, <1>4
  <2> QED
    BY ONLY <2>1
<1> QED
  BY <1>2, <1>3, <1>5, <1>6

\* The record is written.
LEMMA HoldsAtWritten ==
    ASSUME Base, Base', NEW t \in Thread, execute(t), pre' = pre,
           NEW k \in Key, k = Tasks(t)[pos[t]].key, Tasks(t)[pos[t]].op = "WRITE"
    PROVE  HoldsAt(k)'
<1> DEFINE i == tx_id[t]
           task == pre[i][pos[t]]
<1>1. /\ i \in TxId /\ pos[t] \in 1 .. Len(pre[i]) /\ task = Tasks(t)[pos[t]]
      /\ task.op = "WRITE" => task.key \in wlocks[t]
  BY TaskLocked
<1>2. k \in wlocks[t]
  BY <1>1
<1>3. value' = [value EXCEPT ![k] = i]
  BY DEF execute
<1>4. value'[k] = i
  BY <1>3 DEF Base, Types
<1>5. /\ pc' = pc /\ tx_id' = tx_id /\ rlocks' = rlocks /\ wlocks' = wlocks /\ pre' = pre
      /\ pos' = [pos EXCEPT ![t] = @ + 1] /\ pc[t] = "exec"
  BY DEF execute, held, dispatch
<1>6. pos'[t] = pos[t] + 1
  BY <1>5 DEF Base, Types
<1>7. Writes(i, pos[t] + 1, k)
  BY <1>1, TaskNext DEF Base
<1>8. Writes(tx_id[t], pos[t], k)'
  BY <1>5, <1>6, <1>7 DEF Writes
<1>9. MayWrite(t, k)' /\ WhileWritten(t, k)'
  BY <1>2, <1>4, <1>5, <1>8 DEF MayWrite, WhileWritten
<1>10. ASSUME NEW u \in Thread, u # t
       PROVE  ~MayWrite(u, k)'
  <2>1. ~Has(u, k)
    BY <1>2, <1>10, WriterExcludes DEF Base
  <2> QED
    BY <1>5, <2>1 DEF MayWrite, Has
<1> QED
  BY <1>9, <1>10 DEF HoldsAt

\* The writer commits: it is the last of those past the list.
LEMMA HoldsAtCommitted ==
    ASSUME Base, Base', Locking, InTurn, NEW t \in Thread, commit(t), worker(t), pre' = pre,
           NEW k \in Key, HoldsAt(k), k \in wlocks[t]
    PROVE  HoldsAt(k)'
<1> DEFINE i == tx_id[t]
<1>1. /\ pc[t] = "exec" /\ pos[t] > Len(Tasks(t)) /\ value' = value
      /\ pc' = [pc EXCEPT ![t] = "unlock"] /\ wlocks' = wlocks
  BY DEF commit, Goto, records, held
<1>2. Has(t, k) /\ i \in TxId /\ i \in Nat
  BY InTurnAt DEF Has
<1>3. Tasks(t) = pre[i] /\ Len(pre[i]) \in Nat /\ pos[t] \in Nat /\ i < tx_counter
  BY <1>1, <1>2, TasksTyped DEF Tasks, Base, Types, Dispatched, Numbered, Busy
<1>4. \A n \in Nat : n > Len(pre[i]) => (Writes(i, n, k) <=> WritesTo(i, k))
  BY <1>2, TaskEnds DEF Base
<1>5. WritesTo(i, k) /\ Writes(i, pos[t], k)
  <2>1. Covered(t, k) /\ Reach(t) = Len(pre[i]) + 1
    BY <1>1, <1>3 DEF Base, LocksCover, Reach
  <2>2. Writes(i, Len(pre[i]) + 1, k)
    BY <1>1, <1>2, <2>1 DEF Covered
  <2>3. Len(pre[i]) + 1 \in Nat /\ Len(pre[i]) + 1 > Len(pre[i])
        /\ pos[t] \in Nat /\ pos[t] > Len(pre[i])
    BY <1>1, <1>3
  <2> QED
    BY <1>4, <2>2, <2>3
<1>6. value[k] = i
  BY <1>1, <1>5 DEF HoldsAt, MayWrite, WhileWritten
<1>7. Passed(i, k)
  <2>1. \A u \in Thread : u # t => ~Behind(u, i, k)
    BY <1>1 DEF Behind, Base, Dispatched, Numbered, Busy
  <2> QED
    BY <1>1, <1>3, <2>1 DEF Passed, Behind
<1>8. ~Takes(t, k)
  BY <1>1, TakesAlone
<1>9. PassedWriters(k)' = PassedWriters(k) /\ i \in PassedWriters(k)
  BY <1>2, <1>5, <1>7, <1>8, PassedWritersStep DEF PassedWriters
<1>10. Latest(PassedWriters(k), value[k])
  <2>1. i # None
    BY <1>2, FixedLockManagerAssumption
  <2> QED
    BY <1>2, <1>6, <1>9, <2>1, InTurnAt DEF Latest
<1>11. Latest(PassedWriters(k), value[k])'
  BY <1>1, <1>9, <1>10 DEF Latest
<1>12. ASSUME NEW u \in Thread
       PROVE  ~MayWrite(u, k)'
  <2>1. CASE u = t
    BY <1>1, <2>1 DEF MayWrite, Base, Types
  <2>2. CASE u # t
    BY <1>1, <2>2, WriterExcludes DEF MayWrite, Has, Base
  <2> QED
    BY <2>1, <2>2
<1> QED
  BY <1>11, <1>12 DEF HoldsAt

LEMMA HoldingStep ==
    ASSUME Base, Base', Locking, InTurn, Holding, NEW t \in Thread, worker(t), pre' = pre
    PROVE  Holding'
<1>2. ASSUME NEW k \in Key
      PROVE  HoldsAt(k)'
  <2>0. /\ HoldsAt(k) /\ Types /\ Dispatched
        /\ pc \in [Thread -> {"idle", "regist", "wait", "exec", "unlock", "done"}]
    BY DEF Holding, Base, Types
  <2>00. Takes(t, k) => pc[t] = "wait" /\ check_waitlist(t)
    BY TakesAlone
  <2>1. CASE Takes(t, k)
    BY <1>2, <2>0, <2>1, HoldsAtTaken
  <2>2. CASE regist(t)
    <3>1. pc[t] = "regist" /\ pc' = pc /\ value' = value
      BY <2>2 DEF regist, records
    <3> QED
      BY <1>2, <2>0, <2>00, <3>1, HoldsAtSteady DEF MayWrite
  <2>3. CASE giveUp(t)
    BY <2>3 DEF giveUp, Locking
  <2>4. CASE leave(t) \/ acquireGiant(t) \/ readUnlock(t) \/ writeUnlock(t) \/ finish(t)
    <3>1. /\ value' = value /\ pc[t] \notin {"wait", "exec"} /\ pc'[t] \notin {"wait", "exec"}
      BY <2>0, <2>4 DEF leave, acquireGiant, readUnlock, writeUnlock, finish, Goto,
         records
    <3> QED
      BY <1>2, <2>0, <2>00, <3>1, HoldsAtSteady DEF MayWrite
  <2>5. CASE releaseGiant(t)
    <3>1. value' = value /\ pc[t] = "regist" /\ wlocks' = wlocks
      BY <2>5 DEF releaseGiant, records, held
    <3>2. wlocks[t] = {}
      BY <2>0, <3>1 DEF Dispatched, WorkerMatches
    <3> QED
      BY <1>2, <2>0, <3>1, <2>00, <3>2, HoldsAtSteady DEF MayWrite
  <2>6. CASE check_waitlist(t) /\ ~Takes(t, k)
    <3>1. /\ value' = value /\ pc[t] = "wait" /\ pc'[t] \in {"wait", "exec"}
          /\ tx_id' = tx_id /\ pos' = pos
      BY <2>0, <2>6, WaitFrame DEF records
    <3>3. k \in wlocks'[t] <=> k \in wlocks[t]
      BY <2>0, <2>6, WritesStay DEF Takes
    <3>4. ~Writes(tx_id[t], pos[t], k)'
      <4>1. pos[t] = 1 /\ tx_id[t] \in TxId
        BY <2>0, <3>1 DEF Dispatched, Numbered, WorkerMatches, Busy
      <4>2. ~Writes(tx_id[t], pos[t], k)
        BY <2>0, <4>1, TaskEnds
      <4> QED
        BY <3>1, <4>2 DEF Writes
    <3> QED
      BY <1>2, <2>0, <2>6, <3>1, <3>3, <3>4, HoldsAtSteady DEF MayWrite
  <2>7. CASE execute(t)
    <3> DEFINE task == pre[tx_id[t]][pos[t]]
    <3>1. /\ tx_id[t] \in TxId /\ pos[t] \in 1 .. Len(pre[tx_id[t]])
          /\ task = Tasks(t)[pos[t]] /\ task.key \in Key
      BY <2>7, TaskLocked
    <3>2. CASE task.op = "WRITE" /\ task.key = k
      BY <2>7, <3>1, <3>2, HoldsAtWritten
    <3>3. CASE ~(task.op = "WRITE" /\ task.key = k)
      <4>1. /\ UNCHANGED << pc, tx_id, wlocks >> /\ pc[t] = "exec"
            /\ pos' = [pos EXCEPT ![t] = @ + 1]
        BY <2>7 DEF execute, held
      <4>2. value'[k] = value[k]
        <5>1. value' = value
                 \/ (task.op = "WRITE" /\ value' = [value EXCEPT ![task.key] = tx_id[t]])
          BY <2>7, <3>1 DEF execute, records
        <5>2. value \in [Key -> Version]
          BY <2>0 DEF Types
        <5> QED
          BY <3>3, <5>1, <5>2
      <4>3. Writes(tx_id[t], pos[t] + 1, k) <=> Writes(tx_id[t], pos[t], k)
        BY <2>0, <3>1, <3>3, TaskNext
      <4>4. pos'[t] = pos[t] + 1
        BY <2>0, <4>1 DEF Types
      <4>5. Writes(tx_id[t], pos[t], k)' <=> Writes(tx_id[t], pos[t], k)
        BY <4>1, <4>3, <4>4 DEF Writes
      <4>6. ~Takes(t, k)
        BY <2>00, <4>1
      <4> QED
        BY <1>2, <2>0, <4>1, <4>2, <4>5, <4>6, HoldsAtSteady DEF MayWrite
    <3> QED
      BY <3>2, <3>3
  <2>8. CASE commit(t)
    <3>1. CASE k \in wlocks[t]
      BY <1>2, <2>0, <2>8, <3>1, HoldsAtCommitted
    <3>2. CASE k \notin wlocks[t]
      <4>1. value' = value /\ wlocks' = wlocks /\ pc[t] = "exec"
        BY <2>8 DEF commit, records, held
      <4> QED
        BY <1>2, <2>0, <2>00, <3>2, <4>1, HoldsAtSteady DEF MayWrite
    <3> QED
      BY <3>1, <3>2
  <2> QED
    BY <1>2, <2>1, <2>2, <2>3, <2>4, <2>5, <2>6, <2>7, <2>8 DEF worker
<1> QED
  BY <1>2 DEF Holding

-----------------------------------------------------------------------------
(* What is read, and the order of the writes *)

\* Storing a value appends the writer to the history, unless it is there.
LEMMA WriteEffect ==
    ASSUME Base, NEW t \in Thread, execute(t), Tasks(t)[pos[t]].op = "WRITE",
           NEW q \in Key, q = Tasks(t)[pos[t]].key
    PROVE  /\ value'[q] = tx_id[t] /\ tx_id[t] \in TxId /\ q \in wlocks[t]
           /\ \A k \in Key : k # q => order'[k] = order[k] /\ value'[k] = value[k]
           /\ \/ order'[q] = order[q] /\ Stored(q, tx_id[t])
              \/ /\ order'[q] = Append(order[q], tx_id[t])
                 /\ \A m \in DOMAIN order[q] : order[q][m] # tx_id[t]
<1> DEFINE i == tx_id[t]
<1>1. i \in TxId /\ q \in wlocks[t]
  BY TaskLocked
<1>2. /\ value' = [value EXCEPT ![q] = i]
      /\ order' = IF Place(order[q], i) = 0 THEN [order EXCEPT ![q] = Append(@, i)] ELSE order
  BY DEF execute
<1>3. value \in [Key -> Version] /\ order \in [Key -> Seq(TxId)]
  BY DEF Base, Types
<1>4. \A m \in DOMAIN order[q] : m # 0
  BY <1>3
<1>5. CASE \E m \in DOMAIN order[q] : order[q][m] = i
  <2>1. Place(order[q], i) \in DOMAIN order[q]
    BY <1>5 DEF Place
  <2>2. Place(order[q], i) # 0
    BY <1>4, <2>1
  <2> QED
    BY <1>1, <1>2, <1>3, <1>5, <2>2 DEF Stored
<1>6. CASE ~ \E m \in DOMAIN order[q] : order[q][m] = i
  <2>1. Place(order[q], i) = 0
    BY <1>6 DEF Place
  <2> QED
    BY <1>1, <1>2, <1>3, <1>6, <2>1
<1> QED
  BY <1>5, <1>6

\* The other steps store nothing.
LEMMA NothingStored ==
    ASSUME Types, NEW t \in Thread, worker(t), ~(execute(t) /\ Tasks(t)[pos[t]].op = "WRITE")
    PROVE  value' = value /\ order' = order
BY WaitFrame DEF worker, leave, acquireGiant, regist, releaseGiant, giveUp, execute,
       commit, readUnlock, writeUnlock, finish, records

\* What is stored stays.
LEMMA StoredKept ==
    ASSUME Types, NEW t \in Thread, worker(t)
    PROVE  \A k \in Key : \A v : Stored(k, v) => Stored(k, v)'
<1> SUFFICES ASSUME NEW k \in Key, NEW v, Stored(k, v)
             PROVE  Stored(k, v)'
  OBVIOUS
<1>1. order'[k] = order[k] \/ order'[k] = Append(order[k], tx_id[t])
  <2>1. CASE ~(execute(t) /\ Tasks(t)[pos[t]].op = "WRITE")
    BY <2>1, NothingStored
  <2>2. CASE execute(t) /\ Tasks(t)[pos[t]].op = "WRITE"
    <3>1. PICK q : order' = IF Place(order[q], tx_id[t]) = 0
                            THEN [order EXCEPT ![q] = Append(@, tx_id[t])] ELSE order
      BY <2>2 DEF execute
    <3>2. order \in [Key -> Seq(TxId)]
      BY DEF Types
    <3> QED
      BY <3>1, <3>2
  <2> QED
    BY <2>1, <2>2
<1>2. order[k] \in Seq(TxId)
  BY DEF Types
<1>3. \A m \in DOMAIN order[k] : m \in DOMAIN order'[k] /\ order'[k][m] = order[k][m]
  <2> DEFINE s == order[k]
  <2>1. \A x : \A m \in DOMAIN s : m \in DOMAIN Append(s, x) /\ Append(s, x)[m] = s[m]
    BY <1>2
  <2> QED
    BY <1>1, <2>1
<1> QED
  BY <1>3 DEF Stored

LEMMA DecidedKept ==
    ASSUME pre' = pre
    PROVE  \A i, r : Decided(i, r)' <=> Decided(i, r)
BY DEF Decided, WritesTo

\* A worker that has the lock finds what the transactions before it left.
LEMMA FindsDecided ==
    ASSUME Base, InTurn, Holding, NEW t \in Thread, execute(t),
           NEW k \in Key, k = Tasks(t)[pos[t]].key
    PROVE  Decided(tx_id[t], [key |-> k, ver |-> value[k]])
<1> DEFINE i == tx_id[t]
           r == [key |-> k, ver |-> value[k]]
<1>1. Has(t, k) /\ (k \in wlocks[t] <=> WritesTo(i, k)) /\ pc[t] = "exec"
  BY TaskLocked DEF execute
<1>2. /\ i \in TxId /\ i \in Nat
      /\ \A j \in PassedWriters(k) : j \in Nat /\ j <= i
      /\ \A j \in TxId : WritesTo(j, k) /\ j < i => j \in PassedWriters(k)
  BY <1>1, InTurnAt
<1>3. r.key = k /\ r.ver = value[k] /\ HoldsAt(k)
  BY DEF Holding
<1> HIDE DEF r
<1>4. TxId \subseteq Nat
  BY Numbers DEF Base
<1>5. CASE k \in wlocks[t] /\ Writes(i, pos[t], k)
  <2>1. value[k] = i
    BY <1>1, <1>3, <1>5 DEF HoldsAt, MayWrite, WhileWritten
  <2>2. i # None
    BY <1>2, FixedLockManagerAssumption
  <2>3. \A j \in TxId : j < i => j <= i
    BY <1>2, <1>4
  <2> QED
    BY <1>1, <1>2, <1>3, <1>5, <2>1, <2>2, <2>3 DEF Decided
<1>6. ASSUME NEW S, Latest(S, value[k]), S \subseteq PassedWriters(k),
             PassedWriters(k) \subseteq S \cup {i}
      PROVE  Decided(i, r)
  <2>1. value[k] = None \/ (value[k] \in TxId /\ value[k] <= i /\ WritesTo(value[k], k))
    BY <1>2, <1>6 DEF Latest, PassedWriters
  <2>2. ASSUME NEW j \in TxId, WritesTo(j, k), j < i
        PROVE  value[k] # None /\ j <= value[k]
    <3>1. j \in PassedWriters(k) /\ j # i
      BY <1>2, <1>4, <2>2
    <3> QED
      BY <1>6, <3>1 DEF Latest
  <2> QED
    BY <1>3, <2>1, <2>2 DEF Decided
<1>7. CASE k \in wlocks[t] /\ ~Writes(i, pos[t], k)
  <2>1. Latest(PassedWriters(k) \ {i}, value[k])
    BY <1>1, <1>3, <1>7 DEF HoldsAt, MayWrite, WhileWritten
  <2> QED
    BY <1>6, <2>1 DEF r
<1>8. CASE k \notin wlocks[t]
  <2>1. ASSUME NEW u \in Thread
        PROVE  ~MayWrite(u, k)
    <3>1. CASE u = t
      BY <1>8, <3>1 DEF MayWrite
    <3>2. CASE u # t
      BY <1>1, <3>2, WriterExcludes DEF MayWrite, Base
    <3> QED
      BY <3>1, <3>2
  <2>2. Latest(PassedWriters(k), value[k])
    BY <1>3, <2>1 DEF HoldsAt
  <2> QED
    BY <1>6, <2>2 DEF r
<1> QED
  BY <1>5, <1>7, <1>8 DEF r

LEMMA ReadsDecidedStep ==
    ASSUME Base, Base', Locking, InTurn, Holding, ReadsDecided, OrderIncreasing,
           NEW t \in Thread, worker(t), pre' = pre
    PROVE  ReadsDecided'
<1>0. /\ Types /\ Dispatched /\ Dispatched' /\ reads \in [Thread -> SUBSET Read]
      /\ committed \subseteq [id : TxId, reads : SUBSET Read, locked : BOOLEAN]
  BY DEF Base, Types
<1>1. \A k \in Key : \A v : Stored(k, v) => Stored(k, v)'
  BY StoredKept DEF Base
<1>2. \A i, r : Decided(i, r)' <=> Decided(i, r)
  BY DecidedKept
<1>3. \A r \in Read : r.key \in Key
  BY DEF Read
<1>4. ASSUME NEW i, NEW r \in Read, Decided(i, r), Stored(r.key, r.ver)
      PROVE  Decided(i, r)' /\ Stored(r.key, r.ver)'
  <2>1. Decided(i, r)'
    BY <1>2, <1>4
  <2> QED
    BY <1>1, <1>3, <1>4, <2>1
<1>5. ASSUME NEW a \in Locked, NEW r \in a.reads
      PROVE  r \in Read /\ Decided(a.id, r)' /\ Stored(r.key, r.ver)'
  <2>1. r \in Read
    BY <1>0, <1>5 DEF Locked
  <2>2. Decided(a.id, r) /\ Stored(r.key, r.ver)
    BY <1>5 DEF ReadsDecided
  <2> QED
    BY <1>4, <2>1, <2>2
<1>6. ASSUME NEW u \in Thread, NEW r \in reads[u]
      PROVE  /\ r \in Read /\ Decided(tx_id[u], r) /\ Stored(r.key, r.ver)
             /\ Stored(r.key, r.ver)'
  <2>1. r \in Read /\ Decided(tx_id[u], r) /\ Stored(r.key, r.ver)
    BY <1>0, <1>6 DEF ReadsDecided
  <2> QED
    BY <1>4, <2>1
<1>8. ReadsDecided'
  <2>1. ASSUME NEW u \in Thread, NEW r \in reads'[u]
        PROVE  Decided(tx_id'[u], r) /\ Stored(r.key, r.ver)'
    <3>1. CASE u # t
      <4>1. reads'[u] = reads[u] /\ tx_id'[u] = tx_id[u]
        BY <1>0, <3>1, OthersKept DEF Kept
      <4> QED
        BY <1>6, <2>1, <4>1
    <3>2. CASE u = t
      <4>1. tx_id'[t] = tx_id[t]
        <5>1. pc'[t] \in {"exec", "unlock"}
          BY <1>0, <2>1, <3>2 DEF Dispatched, WorkerMatches
        <5>2. ~acquireGiant(t)
          BY <1>0, <5>1, AcquireEffect
        <5> QED
          BY <1>0, <5>1, <5>2, OnlyAcquired DEF Busy
      <4>2. CASE r \in reads[t]
        BY <1>6, <3>2, <4>1, <4>2
      <4>3. CASE r \notin reads[t]
        <5> DEFINE k == Tasks(t)[pos[t]].key
        <5>1. /\ execute(t) /\ Tasks(t)[pos[t]].op = "READ"
              /\ reads'[t] = reads[t] \cup {[key |-> k, ver |-> value[k]]}
          <6>1. ~finish(t)
            BY <1>0, <2>1, <3>2 DEF finish
          <6>2. reads' # reads
            BY <2>1, <3>2, <4>3
          <6>3. execute(t)
            BY <1>0, <6>1, <6>2, WaitFrame DEF worker, leave, acquireGiant, regist,
               releaseGiant, giveUp, commit, readUnlock, writeUnlock, history
          <6> QED
            BY <1>0, <6>2, <6>3 DEF execute
        <5>2. r = [key |-> k, ver |-> value[k]] /\ r.key = k /\ r.ver = value[k]
          BY <2>1, <3>2, <4>3, <5>1
        <5>3. k \in Key
          BY <5>1, TaskLocked
        <5>4. Decided(tx_id[t], r)
          BY <5>1, <5>2, <5>3, FindsDecided
        <5>5. Stored(k, value[k])
          BY <5>3 DEF OrderIncreasing
        <5> HIDE DEF k
        <5>6. Stored(r.key, r.ver)
          BY <5>2, <5>5
        <5> QED
          BY <1>1, <3>2, <4>1, <5>2, <5>3, <5>4, <5>6
      <4> QED
        BY <4>2, <4>3
    <3> QED
      BY <3>1, <3>2
  <2>2. \A u \in Thread : \A r \in reads'[u] : Decided(tx_id[u], r)'
    BY <1>2, <2>1 DEF Decided
  <2>3. CASE commit(t)
    <3>1. committed' = committed \cup
                  {[id |-> tx_id[t], reads |-> reads[t], locked |-> Locking]}
      BY <2>3 DEF commit, Locking
    <3>2. ASSUME NEW a \in Locked', NEW r \in a.reads
          PROVE  Decided(a.id, r)' /\ Stored(r.key, r.ver)'
      <4>1. CASE a \in committed
        BY <1>5, <3>2, <4>1 DEF Locked
      <4>2. CASE a = [id |-> tx_id[t], reads |-> reads[t], locked |-> Locking]
        <5>1. a.id = tx_id[t] /\ a.reads = reads[t]
          BY <4>2
        <5>2. Decided(a.id, r) /\ Stored(r.key, r.ver)'
          BY <1>6, <3>2, <5>1
        <5> QED
          BY <1>2, <5>2
      <4> QED
        BY <3>1, <3>2, <4>1, <4>2 DEF Locked
    <3> QED
      BY <2>1, <2>2, <3>2 DEF ReadsDecided
  <2>4. CASE ~commit(t)
    <3>1. committed' = committed
      BY <1>0, <2>4, CommittedStep
    <3> QED
      BY <1>5, <2>1, <2>2, <3>1 DEF ReadsDecided, Locked
  <2> QED
    BY <2>3, <2>4
<1> QED
  BY <1>8

LEMMA OrderStep ==
    ASSUME Base, Base', Locking, InTurn, OrderIncreasing,
           NEW t \in Thread, worker(t), pre' = pre
    PROVE  OrderIncreasing'
<1>0. /\ TxId \subseteq Nat /\ order \in [Key -> Seq(TxId)]
      /\ \A j, k : WritesTo(j, k)' <=> WritesTo(j, k)
  BY Numbers DEF Base, Types, WritesTo
<1>1. \A k \in Key : \A v : Stored(k, v) => Stored(k, v)'
  BY StoredKept DEF Base
<1>3. ASSUME NEW k \in Key
      PROVE  /\ Stored(k, value[k])'
             /\ \A m \in DOMAIN order'[k] :
                   WritesTo(order'[k][m], k) /\ order'[k][m] \in PassedWriters(k)'
             /\ \A m, j \in DOMAIN order'[k] : m < j => order'[k][m] < order'[k][j]
  <2>1. PassedWriters(k) \subseteq PassedWriters(k)'
    BY <1>3, PassedWritersStep
  <2>2. /\ order[k] \in Seq(TxId) /\ Len(order[k]) \in Nat
        /\ DOMAIN order[k] = 1 .. Len(order[k])
        /\ \A m \in DOMAIN order[k] : order[k][m] \in TxId
    <3>1. order[k] \in Seq(TxId)
      BY <1>0
    <3> QED
      BY <3>1
  <2>3. \A m \in DOMAIN order[k] :
            WritesTo(order[k][m], k) /\ order[k][m] \in PassedWriters(k)
    BY <2>2 DEF OrderIncreasing, PassedWriters
  <2>4. /\ Stored(k, value[k])
        /\ \A m, j \in DOMAIN order[k] : m < j => order[k][m] < order[k][j]
    BY DEF OrderIncreasing
  <2>5. CASE order'[k] = order[k] /\ value'[k] = value[k]
    BY <2>1, <2>3, <2>4, <2>5 DEF Stored
  <2>6. ASSUME ~(order'[k] = order[k] /\ value'[k] = value[k])
        PROVE  execute(t) /\ Tasks(t)[pos[t]].op = "WRITE" /\ k = Tasks(t)[pos[t]].key
    <3>1. execute(t) /\ Tasks(t)[pos[t]].op = "WRITE"
      BY <1>3, <2>6, NothingStored DEF Base
    <3>2. Tasks(t)[pos[t]].key \in Key
      BY <3>1, TaskLocked
    <3> QED
      BY <2>6, <3>1, <3>2, WriteEffect
  <2>7. CASE ~(order'[k] = order[k] /\ value'[k] = value[k])
    <3> DEFINE i == tx_id[t]
               n == Len(order[k])
    <3>1. execute(t) /\ Tasks(t)[pos[t]].op = "WRITE" /\ k = Tasks(t)[pos[t]].key
      BY <2>6, <2>7
    <3>2. /\ value'[k] = i /\ i \in TxId /\ k \in wlocks[t]
          /\ \/ order'[k] = order[k] /\ Stored(k, i)
             \/ /\ order'[k] = Append(order[k], i)
                /\ \A m \in DOMAIN order[k] : order[k][m] # i
      BY <3>1, WriteEffect
    <3>3. CASE order'[k] = order[k] /\ Stored(k, i)
      BY <2>1, <2>3, <2>4, <3>2, <3>3 DEF Stored
    <3>4. CASE /\ order'[k] = Append(order[k], i)
               /\ \A m \in DOMAIN order[k] : order[k][m] # i
      <4>1. /\ DOMAIN order'[k] = 1 .. n + 1 /\ order'[k][n + 1] = i
            /\ \A m \in 1 .. n : order'[k][m] = order[k][m]
        BY <2>2, <3>2, <3>4
      <4>2. Has(t, k) /\ WritesTo(i, k)
        BY <3>1, <3>2, TaskLocked DEF Has
      <4>3. \A m \in 1 .. n : order[k][m] < i
        <5> SUFFICES ASSUME NEW m \in 1 .. n
                     PROVE  order[k][m] < i
          OBVIOUS
        <5>1. order[k][m] \in PassedWriters(k) /\ order[k][m] # i
          BY <2>2, <2>3, <3>4
        <5>2. order[k][m] \in Nat /\ order[k][m] <= i /\ i \in Nat
          BY <4>2, <5>1, InTurnAt
        <5> QED
          BY ONLY <5>1, <5>2
      <4>4. i \in PassedWriters(k)'
        <5>1. pc[t] = "exec" /\ i < tx_counter
          BY <3>1 DEF execute, Base, Dispatched, Numbered, Busy
        <5>2. \A u \in Thread : ~Behind(u, i, k)
          BY <5>1 DEF Behind, Base, Dispatched, Numbered, Busy
        <5> QED
          BY <2>1, <3>2, <4>2, <5>1, <5>2 DEF PassedWriters, Passed
      <4>5. \A m \in 1 .. n + 1 : m \in 1 .. n \/ m = n + 1
        BY <2>2
      <4>6. \A m, j \in 1 .. n + 1 : m < j => m \in 1 .. n
        BY <2>2
      <4>7. Stored(k, value[k])'
        <5>1. n + 1 \in DOMAIN order'[k]
          BY <2>2, <4>1
        <5> QED
          BY <3>2, <4>1, <5>1 DEF Stored
      <4>8. \A m \in DOMAIN order'[k] :
                WritesTo(order'[k][m], k) /\ order'[k][m] \in PassedWriters(k)'
        BY <2>1, <2>2, <2>3, <4>1, <4>2, <4>4, <4>5
      <4>9. ASSUME NEW m \in 1 .. n + 1, NEW j \in 1 .. n + 1, m < j
            PROVE  order'[k][m] < order'[k][j]
        <5>1. m \in 1 .. n /\ (j \in 1 .. n \/ j = n + 1)
          BY <4>5, <4>6, <4>9
        <5> QED
          BY <2>2, <2>4, <4>1, <4>3, <4>9, <5>1
      <4> QED
        BY <4>1, <4>7, <4>8, <4>9
    <3> QED
      BY <3>2, <3>3, <3>4
  <2> QED
    BY <2>5, <2>7
<1>4. OrderIncreasing'
  <2>1. \A k \in Key : \A j : j \in PassedWriters(k)' => Passed(j, k)'
    BY DEF PassedWriters
  <2>2. ASSUME NEW k \in Key, NEW m \in DOMAIN order'[k]
        PROVE  WritesTo(order[k][m], k)' /\ Passed(order[k][m], k)'
    <3>1. WritesTo(order'[k][m], k) /\ order'[k][m] \in PassedWriters(k)'
      BY <1>3, <2>2
    <3> QED
      BY <1>0, <3>1 DEF PassedWriters, WritesTo
  <2> QED
    BY <1>3, <2>2 DEF OrderIncreasing
<1> QED
  BY <1>4

-----------------------------------------------------------------------------
(* From the numbers to the serial order *)

LEMMA LastIs ==
    ASSUME NEW k, NEW i \in Int, NEW j \in TxId, j <= i, WritesTo(j, k),
           \A m \in TxId : WritesTo(m, k) /\ m <= i => m <= j,
           Types
    PROVE  LastWriter(k, i) = j
<1> DEFINE W == Writers(k, i)
<1>1. ASSUME NEW m \in TxId
      PROVE  WritesTo(m, k) <=>
                 \E n \in DOMAIN pre[m] : pre[m][n] = [op |-> "WRITE", key |-> k]
  <2>1. \A n \in DOMAIN pre[m] : pre[m][n] \in Task
    BY TasksTyped
  <2>2. \A x \in Task : x.key = k /\ x.op = "WRITE" <=> x = [op |-> "WRITE", key |-> k]
    BY DEF Task
  <2> QED
    BY <2>1, <2>2 DEF WritesTo
<1>2. \A m : m \in W <=> m \in TxId /\ m <= i /\ WritesTo(m, k)
  BY <1>1 DEF Writers
<1>3. j \in W /\ \A m \in W : m <= j
  BY <1>2
<1>4. W \subseteq Nat
  BY <1>2, Numbers
<1>5. \A x \in W : (\A m \in W : m <= x) => x = j
  BY <1>3, <1>4
<1>6. LastWriter(k, i) = CHOOSE x \in W : \A m \in W : m <= x
  BY <1>3 DEF LastWriter
<1> HIDE DEF W
<1>7. (CHOOSE x \in W : \A m \in W : m <= x) = j
  BY <1>3, <1>5
<1> QED
  BY <1>6, <1>7

\* What Decided says is the version that the order of the numbers gives.
LEMMA DecidedIsLast ==
    ASSUME Types, NEW i \in TxId, NEW r \in Read, Decided(i, r)
    PROVE  r.ver = LastWriter(r.key, i) \/ r.ver = LastWriter(r.key, i - 1)
<1>1. TxId \subseteq Nat /\ i \in Nat /\ i \in Int /\ i - 1 \in Int
  BY Numbers
<1>2. /\ r.ver = None \/ (r.ver \in TxId /\ r.ver <= i /\ WritesTo(r.ver, r.key))
      /\ \A j \in TxId : WritesTo(j, r.key) /\ j < i => r.ver # None /\ j <= r.ver
  BY DEF Decided
<1>3. CASE r.ver = None
  <2>1. \A j \in TxId : WritesTo(j, r.key) => ~(j < i)
    BY <1>2, <1>3
  <2>2. ASSUME NEW j \in Writers(r.key, i - 1)
        PROVE  FALSE
    <3>1. j \in TxId /\ j <= i - 1 /\ WritesTo(j, r.key)
      BY <2>2 DEF Writers, WritesTo
    <3>2. j \in Nat /\ j < i
      BY <1>1, <3>1
    <3> QED
      BY <2>1, <3>1, <3>2
  <2>3. Writers(r.key, i - 1) = {}
    BY <2>2
  <2> QED
    BY <1>3, <2>3 DEF LastWriter
<1>4. CASE r.ver # None /\ r.ver = i
  <2>1. \A m \in TxId : WritesTo(m, r.key) /\ m <= i => m <= r.ver
    BY <1>4
  <2> QED
    BY <1>1, <1>2, <1>4, <2>1, LastIs
<1>5. CASE r.ver # None /\ r.ver # i
  <2>1. r.ver \in TxId /\ r.ver <= i - 1
    <3>1. r.ver \in TxId /\ r.ver \in Nat /\ r.ver <= i /\ r.ver # i
      BY <1>1, <1>2, <1>5
    <3> QED
      BY <1>1, <3>1
  <2>2. \A m \in TxId : WritesTo(m, r.key) /\ m <= i - 1 => m <= r.ver
    BY <1>1, <1>2
  <2> QED
    BY <1>1, <1>2, <1>5, <2>1, <2>2, LastIs
<1> QED
  BY <1>3, <1>4, <1>5

\* The places of the versions of a record are in the order of their numbers.
LEMMA PlacesInOrder ==
    ASSUME Types, OrderIncreasing, NEW k \in Key, NEW v, NEW w,
           Place(order[k], v) < Place(order[k], w)
    PROVE  /\ \E m \in DOMAIN order[k] : order[k][m] = w
           /\ (\E m \in DOMAIN order[k] : order[k][m] = v) => v < w
<1> DEFINE s == order[k]
<1>1. s \in Seq(TxId) /\ DOMAIN s = 1 .. Len(s)
  BY DEF Types
<1>2. ASSUME NEW x, \E m \in DOMAIN s : s[m] = x
      PROVE  Place(s, x) \in DOMAIN s /\ s[Place(s, x)] = x
  BY <1>2 DEF Place
<1>3. ASSUME NEW x
      PROVE  (\E m \in DOMAIN s : s[m] = x) \/ Place(s, x) = 0
  BY DEF Place
<1>4. \A m \in DOMAIN s : m \in Nat /\ m # 0
  BY <1>1
<1>5. \E m \in DOMAIN s : s[m] = w
  <2>1. Place(s, v) \in Nat
    BY <1>2, <1>3, <1>4
  <2>2. Place(s, w) # 0
    BY <2>1
  <2> QED
    BY <1>3, <2>2
<1>6. ASSUME \E m \in DOMAIN s : s[m] = v
      PROVE  v < w
  <2>1. /\ Place(s, v) \in DOMAIN s /\ s[Place(s, v)] = v
        /\ Place(s, w) \in DOMAIN s /\ s[Place(s, w)] = w
    BY <1>2, <1>5, <1>6
  <2> QED
    BY <2>1 DEF OrderIncreasing
<1> QED
  BY <1>5, <1>6

\* What must come first has the smaller number.
LEMMA PrecedesInOrder ==
    ASSUME Types, ReadsDecided, OrderIncreasing,
           NEW a \in Locked, NEW b \in Locked, MustPrecede(order, a, b)
    PROVE  a.id < b.id
<1>1. /\ Types /\ OrderIncreasing /\ TxId \subseteq Nat
      /\ Locked \subseteq [id : TxId, reads : SUBSET Read, locked : BOOLEAN]
      /\ DOMAIN order = Key
  BY Numbers DEF Types, Locked
<1>2. a.id \in TxId /\ b.id \in TxId /\ a.id \in Nat /\ b.id \in Nat /\ a.id # b.id
  BY <1>1 DEF MustPrecede
<1>3. CASE ReadsFrom(a, b)
  <2>1. PICK r \in b.reads : r.ver = a.id
    BY <1>3 DEF ReadsFrom
  <2>2. Decided(b.id, r)
    BY <2>1 DEF ReadsDecided
  <2>3. a.id # None
    BY <1>2, FixedLockManagerAssumption
  <2>4. a.id <= b.id
    BY <2>1, <2>2, <2>3 DEF Decided
  <2> QED
    BY <1>2, <2>4
<1>4. CASE Overwrites(order, a, b)
  <2>1. PICK k \in Key : /\ Place(order[k], a.id) > 0
                         /\ Place(order[k], a.id) < Place(order[k], b.id)
    BY <1>1, <1>4 DEF Overwrites
  <2>2. \E m \in DOMAIN order[k] : order[k][m] = a.id
    BY <2>1 DEF Place
  <2> QED
    BY <1>1, <2>1, <2>2, PlacesInOrder
<1>5. CASE AntiDepends(order, a, b)
  <2>1. PICK r \in a.reads : Place(order[r.key], r.ver) < Place(order[r.key], b.id)
    BY <1>5 DEF AntiDepends
  <2>2. r \in Read /\ r.key \in Key
    BY <1>1, <2>1 DEF Read
  <2>3. Decided(a.id, r) /\ Stored(r.key, r.ver)
    BY <2>1 DEF ReadsDecided
  <2> DEFINE k == r.key
             v == r.ver
  <2>4. /\ \E m \in DOMAIN order[k] : order[k][m] = b.id
        /\ (\E m \in DOMAIN order[k] : order[k][m] = v) => v < b.id
    <3> HIDE DEF k, v
    <3>1. k \in Key /\ Place(order[k], v) < Place(order[k], b.id)
      BY <2>1, <2>2 DEF k, v
    <3> QED
      BY <1>1, <3>1, PlacesInOrder
  <2>5. WritesTo(b.id, k)
    BY <1>1, <2>2, <2>4 DEF OrderIncreasing
  <2>6. ASSUME b.id < a.id
        PROVE  FALSE
    <3>1. v # None /\ b.id <= v /\ v \in TxId
      BY <1>2, <2>3, <2>5, <2>6 DEF Decided
    <3>2. v < b.id
      BY <2>3, <2>4, <3>1 DEF Stored
    <3>3. v \in Nat
      BY <1>1, <3>1
    <3> QED
      BY <1>2, <3>1, <3>2, <3>3
  <2> QED
    BY <1>2, <2>6
<1> QED
  BY <1>3, <1>4, <1>5 DEF MustPrecede

-----------------------------------------------------------------------------
(* The invariant *)

\* What quit and exit(0) change: nothing of what the invariant relates.
LEMMA NothingMoves ==
    ASSUME Orderly, Types', pre' = pre,
           UNCHANGED << dispatch, lists, held, records, pc, tx_id, pos, future, history >>
    PROVE  Orderly'
<1>0. /\ UNCHANGED << pc, tx_id, pos, future, rlocks, wlocks, lock, value, order, reads >>
      /\ UNCHANGED << wait_list, lower, tx_counter, giant, committed >>
  BY DEF dispatch, lists, held, records, history
<1>1. Counted'
  BY <1>0 DEF Orderly, Base, Counted
<1>2. Dispatched'
  BY <1>0 DEF Orderly, Base, Dispatched, Numbered, WorkerMatches, Busy
<1>3. LocksCover'
  BY <1>0, CoveredFrame DEF Orderly, Base, LocksCover
<1>4. ListsMatch'
  BY <1>0 DEF Orderly, Base, ListsMatch, Sorted, Queued, Live, Slots, Asked
<1>5. \A j, k : (WritesTo(j, k)' <=> WritesTo(j, k)) /\ (Passed(j, k)' <=> Passed(j, k))
  BY <1>0 DEF WritesTo, Passed, Behind
<1>6. InTurn'
  BY <1>0, <1>5 DEF Orderly, InTurn, Has, Asked
<1>7. \A k : PassedWriters(k)' = PassedWriters(k)
  BY <1>5 DEF PassedWriters
<1>8. Holding'
  BY <1>0, <1>7 DEF Orderly, Holding, HoldsAt, MayWrite, WhileWritten, Writes, Latest
<1>9. \A i, r : Decided(i, r)' <=> Decided(i, r)
  BY DecidedKept
<1>10. ReadsDecided'
  <2>1. \A k, v : Stored(k, v)' <=> Stored(k, v)
    BY <1>0 DEF Stored
  <2>2. ASSUME NEW u \in Thread, NEW r \in reads'[u]
        PROVE  Decided(tx_id[u], r)' /\ Stored(r.key, r.ver)'
    BY <1>0, <1>9, <2>1, <2>2 DEF Orderly, ReadsDecided
  <2>3. ASSUME NEW a \in Locked', NEW r \in a.reads
        PROVE  Decided(a.id, r)' /\ Stored(r.key, r.ver)'
    BY <1>0, <1>9, <2>1, <2>3 DEF Orderly, ReadsDecided, Locked
  <2> QED
    BY <2>2, <2>3 DEF ReadsDecided
<1>11. OrderIncreasing'
  <2>1. ASSUME NEW k \in Key, NEW m \in DOMAIN order[k]
        PROVE  WritesTo(order[k][m], k)' /\ Passed(order[k][m], k)'
    BY <1>0 DEF Orderly, OrderIncreasing, WritesTo, Passed, Behind
  <2> QED
    BY <1>0, <2>1 DEF Orderly, OrderIncreasing, Stored
<1> QED
  BY <1>1, <1>2, <1>3, <1>4, <1>6, <1>8, <1>10, <1>11 DEF Orderly, Base

LEMMA OrderlyStep ==
    ASSUME Orderly, Types', Locking, NEW t \in Thread, worker(t), pre' = pre
    PROVE  Orderly'
<1>0. Base /\ Types /\ Dispatched /\ LocksCover /\ ListsMatch /\ Counted
  BY DEF Orderly, Base
<1>1. Counted'
  BY <1>0, AgreeStep
<1>2. Dispatched'
  BY <1>0, DispatchedStep
<1>3. LocksCover'
  BY <1>0, <1>2, CoverStep
<1>4. ListsMatch'
  BY <1>0, <1>2, ListsStep
<1>5. Base'
  BY <1>1, <1>2, <1>3, <1>4 DEF Base
<1>6. InTurn'
  BY <1>0, <1>5, InTurnStep DEF Orderly
<1>7. Holding'
  BY <1>0, <1>5, HoldingStep DEF Orderly
<1>8. ReadsDecided'
  BY <1>0, <1>5, ReadsDecidedStep DEF Orderly
<1>9. OrderIncreasing'
  BY <1>0, <1>5, OrderStep DEF Orderly
<1> QED
  BY <1>5, <1>6, <1>7, <1>8, <1>9 DEF Orderly

\* A version is appended by the transaction that runs, if it is not there.
LEMMA AppendedOnce ==
    ASSUME Types, Numbered, NEW t \in Thread, worker(t), NEW k \in Key
    PROVE  \/ order'[k] = order[k]
           \/ /\ order'[k] = Append(order[k], tx_id[t])
              /\ tx_id[t] \in TxId /\ \A m \in DOMAIN order[k] : order[k][m] # tx_id[t]
              /\ \A a \in committed : a.id # tx_id[t]
<1>1. CASE ~(execute(t) /\ Tasks(t)[pos[t]].op = "WRITE")
  BY <1>1, NothingStored
<1>2. CASE execute(t) /\ Tasks(t)[pos[t]].op = "WRITE"
  <2>1. PICK q : order' = IF Place(order[q], tx_id[t]) = 0
                          THEN [order EXCEPT ![q] = Append(@, tx_id[t])] ELSE order
    BY <1>2 DEF execute
  <2>2. order \in [Key -> Seq(TxId)]
    BY DEF Types
  <2>3. pc[t] = "exec" /\ tx_id[t] \in TxId
    BY <1>2 DEF execute, Numbered, Busy
  <2>4. \A a \in committed : a.id # tx_id[t]
    BY <2>3 DEF Numbered
  <2>5. CASE q = k /\ Place(order[k], tx_id[t]) = 0
    <3>1. \A m \in DOMAIN order[k] : order[k][m] # tx_id[t]
      BY <2>2, <2>5, PlaceFound
    <3> QED
      BY <2>1, <2>2, <2>3, <2>4, <2>5, <3>1
  <2> QED
    BY <2>1, <2>2, <2>5
<1> QED
  BY <1>1, <1>2

LEMMA StoredOnceStep ==
    ASSUME Types, Numbered, StoredOnce, NEW t \in Thread, worker(t)
    PROVE  StoredOnce'
<1> SUFFICES ASSUME NEW k \in Key
             PROVE  \A i, j \in DOMAIN order'[k] : order'[k][i] = order'[k][j] => i = j
  BY DEF StoredOnce
<1>1. /\ order[k] \in Seq(TxId)
      /\ \A i, j \in DOMAIN order[k] : order[k][i] = order[k][j] => i = j
  BY DEF Types, StoredOnce
<1>2. CASE order'[k] = order[k]
  BY <1>1, <1>2
<1>3. CASE /\ order'[k] = Append(order[k], tx_id[t]) /\ tx_id[t] \in TxId
           /\ \A m \in DOMAIN order[k] : order[k][m] # tx_id[t]
  <2> DEFINE n == Len(order[k]) + 1
  <2>1. /\ DOMAIN order'[k] = DOMAIN order[k] \cup {n} /\ order'[k][n] = tx_id[t]
        /\ \A m \in DOMAIN order[k] : order'[k][m] = order[k][m]
    BY <1>1, <1>3
  <2> HIDE DEF n
  <2> QED
    BY <1>1, <1>3, <2>1
<1> QED
  BY <1>2, <1>3, AppendedOnce

\* A transaction that runs moves no version that is stored, or of one committed.
LEMMA PlacesStay ==
    ASSUME Types, Numbered, StoredOnce, NEW t \in Thread, worker(t), NEW k \in Key,
           NEW v, Stored(k, v) \/ \E a \in committed : v = a.id
    PROVE  Place(order'[k], v) = Place(order[k], v)
<1>1. /\ order[k] \in Seq(TxId)
      /\ \A i, j \in DOMAIN order[k] : order[k][i] = order[k][j] => i = j
  BY DEF Types, StoredOnce
<1>2. CASE /\ order'[k] = Append(order[k], tx_id[t]) /\ tx_id[t] \in TxId
           /\ \A m \in DOMAIN order[k] : order[k][m] # tx_id[t]
           /\ \A a \in committed : a.id # tx_id[t]
  <2>1. tx_id[t] # None
    BY <1>2, Numbers, FixedLockManagerAssumption
  <2>2. v # tx_id[t]
    BY <1>2, <2>1 DEF Stored
  <2> QED
    BY <1>1, <1>2, <2>2, PlaceAppended
<1> QED
  BY <1>2, AppendedOnce

\* What is settled stays so, whatever the transactions without their locks do.
LEMMA SettledKept ==
    ASSUME Types, Types', Numbered, StoredOnce, Settled, ~Locking,
           NEW t \in Thread, worker(t), pre' = pre
    PROVE  Settled'
<1>1. Locked' = Locked
  BY CommittedStep DEF Locked
<1>2. /\ Locked \subseteq [id : TxId, reads : SUBSET Read, locked : BOOLEAN]
      /\ Locked \subseteq committed
      /\ DOMAIN order = Key /\ DOMAIN order' = Key
  BY DEF Types, Locked
<1>3. ASSUME NEW a \in Locked, NEW r \in a.reads
      PROVE  /\ r.key \in Key /\ Stored(r.key, r.ver)
             /\ Decided(a.id, r)' /\ Stored(r.key, r.ver)'
  <2>1. r \in Read /\ r.key \in Key
    BY <1>2, <1>3 DEF Read
  <2>2. Decided(a.id, r) /\ Stored(r.key, r.ver)
    BY <1>3 DEF Settled
  <2>3. Stored(r.key, r.ver)'
    BY <2>1, <2>2, StoredKept
  <2>4. Decided(a.id, r)'
    BY <2>2, DecidedKept
  <2> QED
    BY <2>1, <2>2, <2>3, <2>4
<1>4. ASSUME NEW a \in Locked, NEW b \in Locked, MustPrecede(order', a, b)
      PROVE  a.id < b.id
  <2>1. \A k \in Key : /\ Place(order'[k], a.id) = Place(order[k], a.id)
                       /\ Place(order'[k], b.id) = Place(order[k], b.id)
    BY <1>2, PlacesStay
  <2>2. CASE ReadsFrom(a, b)
    BY <1>4, <2>2 DEF Settled, MustPrecede
  <2>3. CASE Overwrites(order', a, b)
    <3>1. Overwrites(order, a, b)
      BY <1>2, <2>1, <2>3 DEF Overwrites
    <3> QED
      BY <1>4, <3>1 DEF Settled, MustPrecede
  <2>4. CASE AntiDepends(order', a, b)
    <3>1. PICK r \in a.reads : Place(order'[r.key], r.ver) < Place(order'[r.key], b.id)
      BY <2>4 DEF AntiDepends
    <3>2. r.key \in Key /\ Stored(r.key, r.ver)
      BY <1>3
    <3>3. Place(order'[r.key], r.ver) = Place(order[r.key], r.ver)
      BY <3>2, PlacesStay
    <3>4. AntiDepends(order, a, b)
      BY <2>1, <3>1, <3>2, <3>3 DEF AntiDepends
    <3> QED
      BY <1>4, <3>4 DEF Settled, MustPrecede
  <2> QED
    BY <1>4, <2>2, <2>3, <2>4 DEF MustPrecede
<1>5. \A a \in Locked' : \A r \in a.reads : Decided(a.id, r)' /\ Stored(r.key, r.ver)'
  BY <1>1, <1>3
<1> QED
  BY <1>1, <1>4, <1>5 DEF Settled

\* Transactions that run with their locks settle what they commit.
LEMMA OrderlySettles ==
    ASSUME Orderly
    PROVE  Settled
<1>1. Types /\ ReadsDecided /\ OrderIncreasing
  BY DEF Orderly, Base
<1>2. \A a, b \in Locked : MustPrecede(order, a, b) => a.id < b.id
  BY <1>1, PrecedesInOrder
<1> QED
  BY <1>1, <1>2 DEF Settled, ReadsDecided

LEMMA InvStep ==
    ASSUME Inv, [Next]_vars
    PROVE  Inv'
<1>0. Types /\ Numbered /\ StoredOnce /\ (Locking => Orderly) /\ Settled
  BY OrderlySettles DEF Inv
<1>1. pre' = pre /\ build' = build /\ Types' /\ Numbered'
  BY <1>0, PreKept, TypesStep, NumberedStep
<1>2. CASE Timer \/ Ended \/ UNCHANGED vars
  <2>1. /\ UNCHANGED << dispatch, lists, held, records, pc, tx_id, pos, future, history >>
        /\ Locking' => Locking
    BY <1>0, <1>1, <1>2 DEF Timer, Quit, Ended, vars, Locking
  <2>2. StoredOnce'
    BY <1>0, <2>1 DEF StoredOnce, records
  <2>3. Locking => Orderly'
    BY <1>0, <1>1, <2>1, NothingMoves
  <2>4. Settled'
    <3>1. UNCHANGED << committed, order >>
      BY <2>1 DEF history, records
    <3>2. \A i, r : Decided(i, r)' <=> Decided(i, r)
      BY <1>1, DecidedKept
    <3>3. ASSUME NEW a \in Locked', NEW r \in a.reads
          PROVE  Decided(a.id, r)' /\ Stored(r.key, r.ver)'
      BY <1>0, <3>1, <3>2, <3>3 DEF Settled, Stored, Locked
    <3>4. \A a, b \in Locked' : MustPrecede(order', a, b) => a.id < b.id
      BY <1>0, <3>1 DEF Settled, Locked
    <3> QED
      BY <3>3, <3>4 DEF Settled
  <2> QED
    BY <1>1, <2>1, <2>2, <2>3, <2>4 DEF Inv
<1>3. ASSUME NEW t \in Thread, worker(t)
      PROVE  Inv'
  <2>1. quit' = quit
    BY <1>0, <1>3, WaitFrame DEF worker, leave, acquireGiant, regist, releaseGiant,
       giveUp,
       execute, commit, readUnlock, writeUnlock, finish
  <2>2. Locking' <=> Locking
    BY <1>1, <2>1 DEF Locking
  <2>3. StoredOnce'
    BY <1>0, <1>3, StoredOnceStep
  <2>4. CASE Locking
    <3>1. Orderly'
      BY <1>0, <1>1, <1>3, <2>4, OrderlyStep
    <3> QED
      BY <1>1, <2>2, <2>3, <2>4, <3>1 DEF Inv
  <2>5. CASE ~Locking
    BY <1>0, <1>1, <1>3, <2>2, <2>3, <2>5, SettledKept DEF Inv
  <2> QED
    BY <2>4, <2>5
<1> QED
  BY <1>2, <1>3 DEF Next, Running

LEMMA Invariance == Spec => []Inv
<1>1. Inv /\ [Next]_vars => Inv'
  BY InvStep
<1> QED
  BY InitInv, <1>1, PTL DEF Spec

-----------------------------------------------------------------------------
(* The theorem *)

\* In both programs (determinism_lock_manager/ and lock_manager_fixed/ss2pl.cc,
\* worker) the transactions that commit with their locks read and write as if
\* they were run one at a time in the order of their numbers, however many
\* workers run them and whatever those do that gave up waiting at quit.
THEOREM Determined == Spec => []SerialInTxOrder
<1>1. ASSUME Inv
      PROVE  SerialInTxOrder
  <2>0. Types /\ Settled
    BY <1>1, OrderlySettles DEF Inv
  <2>1. ASSUME NEW a \in Locked, NEW r \in a.reads
        PROVE  r.ver = LastWriter(r.key, a.id) \/ r.ver = LastWriter(r.key, a.id - 1)
    <3>1. Types /\ a.id \in TxId /\ r \in Read
      BY <2>0, <2>1 DEF Types, Locked
    <3>2. Decided(a.id, r)
      BY <2>0, <2>1 DEF Settled
    <3> QED
      BY <3>1, <3>2, DecidedIsLast
  <2>2. \A a, b \in Locked : MustPrecede(order, a, b) => a.id < b.id
    BY <2>0 DEF Settled
  <2> QED
    BY <2>1, <2>2 DEF SerialInTxOrder, Locked
<1> QED
  BY Invariance, <1>1, PTL

\* So those transactions are serializable: what they overwrite and read of one
\* another agrees with their numbers.
THEOREM LockingIsSerializable == Spec => []Serializable(Locked, order)
<1>1. ASSUME Inv
      PROVE  Serializable(Locked, order)
  <2> DEFINE f == [a \in Locked |-> a.id]
             g == [a \in Locked |-> 0]
  <2>0. Types /\ Settled
    BY <1>1, OrderlySettles DEF Inv
  <2>1. \A a \in Locked : a.id \in Nat
    BY <2>0, FixedLockManagerAssumption DEF Types, Locked, TxId
  <2>2. f \in [Locked -> Nat] /\ g \in [Locked -> Nat]
    BY <2>1
  <2>3. ASSUME NEW a \in Locked, NEW b \in Locked, MustPrecede(order, a, b)
        PROVE  f[a] < f[b]
    BY <2>0, <2>3 DEF Settled
  <2> HIDE DEF f, g
  <2> QED
    BY <2>2, <2>3, RankedSerializable
<1> QED
  BY Invariance, <1>1, PTL
=============================================================================
