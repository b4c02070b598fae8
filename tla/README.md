# CCBench in TLA+

CCBench is a collection of concurrency-control protocols for an in-memory
transactional key-value store. Each directory under `src/` builds one program:
`main` loads a table, starts worker threads, lets them run transactions for
some seconds, sets `quit` and joins them. The programs share helpers
(`include/`, `common/`) and otherwise have nothing to do with each other: a
protocol is one `transaction.cc` with its records (`tuple.hh`), its worker loop,
and, for some, a leader, a log, or a garbage collector.

What every one of them promises is the same: the transactions it commits have
an equivalent serial execution (SI: that they read from a snapshot), no lock is
lost, and `main` gets its threads back. The first promise is stated twice: as a
property of the history of a run (`History.tla`), and as an abstract program that
executes transactions one at a time (`SerialStore.tla`).

## 1. Inventory

| Component (`src/`) | State | Operations | How its parts interact | Hard behaviours | What makes it correct |
|---|---|---|---|---|---|
| `silo/` | TID word and value of each record; global epoch, published epochs; per worker: read and write set, TIDs, log buffer | `read`, `write`, `validationPhase`, `writePhase`, `wal`, `abort`; the leader's `leaderWork` | shared memory only; TID words are the locks; worker 0 is the epoch leader | copies without locks; validation against concurrent lockers; epochs advancing in between; bit-field wrap; partial locking; spinning | serializable; commits in epoch and TID order; locks owned; log whole; workers stop |
| `lock-manager/` and five variants | giant lock; `tx_counter`; wait list and lock of each record | dispatch, `lockmanager_regist`, `check_waitlist`, execution, commit | the giant lock orders registration; wait lists order the locks | unlocked read of a vector's head; upgrades; leaving with a lock held | lists in order; equal to the serial run in number order; nobody starves |
| `lock_manager_fixed/`, `determinism_lock_manager/` | the same, wait lists as arrays with indices | as above | as above | full arrays; two or three entries of one transaction; quit while waiting | as above |
| `determinism_end_after_tx1/` and relatives | giant lock, locks of records | take all locks under the giant lock, retry | holders commit without the giant lock | retrying with the giant lock held | serial in number order; what is looked up commits |
| `ss2pl/` | reader/writer lock and value of each record; lock lists, sets | `read`, `write`, `readWrite`, `commit`, `abort`, `makeProcedure` | through the locks | upgrades; deadlock; partial failure | implements the serial store; reads repeatable; every attempt ends |
| `ss2pl_serial/` | the records | runs transactions one after another | one thread | none | it is the abstract program |
| `occ/` | global lock, `txId`, list of write sets, `progress` of each worker | `read`, `write`, `validationPhase`, `writePhase`, `gc` | validation and installation under the global lock, reads outside it | torn reads; write sets erased too early; spinning on the lock | implements the serial store in number order; write sets kept while needed |
| `tictoc/` | word (`wts`, `delta`, lock) and previous word of each record; per worker: sets, timestamps | `read`, `write`, `lockWriteSet`, `validationPhase`, `writePhase`, `unlockWriteSet`, `abort` | shared memory only | timestamps extended by others; 15-bit overflow; retries; timestamp history | commit timestamps follow the dependencies; serializable; locks owned |
| `mocc/` | Silo's, temperatures, reader/writer locks, lists of locks to take | `read`, `write`, `read_write`, `lock`, `construct_RLL`, `commit`, `abort` | locks in canonical order, released out of order and taken again | waiting while holding; TID word and lock are two words | serializable; nobody waits in a circle |
| `si/` | version list of each record, transaction mapping table, GC queues | `tbegin`, `tread`, `twrite`, `commit`, `abort`, `mainte`, `gcVersion`; the leader's threshold | snapshots from published commit timestamps; the list's head is the lock | snapshot against running commits; GC against starting readers; writers waiting | lists are locks and histories; snapshots hold what had ended; nothing in use reclaimed |
| `ermia/` | SI's, SSN stamps and reader bits of each version, table elements | `ssn_tread`, `ssn_twrite`, `ssn_parallel_commit`, `abort`, `gcTMTelement` | committing workers look at, and wait for, each other's table elements | certification in parallel; marks taken back or turned into stamps; elements reused | versions tell of their successors; elements in use not reused; waits end; serializable |
| `cicada/` | version lists with pending versions, inline versions, thread timestamps, `MinWts`, `MinRts` | `tbegin`, `tread`, `twrite`, `validation`, `writePhase`, `mainte`; `leaderWork` | validators wait for pending versions; the leader computes what may be collected | insertion in the middle of lists; promotion; GC and reuse | lists sorted and whole; commits in timestamp order; nothing in use collected |
| `tpcc_silo/` | Silo over an index with insertions and deletions; sessions; epoch thread; garbage | `tx_begin`, `search_key`, `insert`, `update`, `delete_record`, `commit`, `abort` | an epoch thread and a reclamation epoch | records freed while read; aborts that take inserts back; deleted records met at commit | serializable; the index gives out live records; transactions end |
| `include/rwlock.hh` | a counter | lock, try, upgrade, unlock | used by the locking programs | - | one writer or readers |
| copies, `fair_ss2pl/` and relatives, `single_lock_manager/`, `cc_format/`, `instruction/`, `include/`, `common/` | see section 7 | | | | |

`PROJECT.json` lists every component with its status, and under `hazards` each
place in the code where these behaviours bite, with the properties about it.

## 2. Plan, and where it stands

1. `History`, `Silo`, `SiloProofs`, `RWLock`, `LockManager`, `SS2PL`, `OCC`,
   `TicToc`: done.
2. An abstract program, `SerialStore`, that `SS2PL` and `OCC` implement: done, with
   a machine-checked refinement proof for each (`LockManagerProofs`, `OCCProofs`).
3. `SI`, and `ERMIA` on top of its actions: done.
4. `MOCC`, `FixedLockManager`, `Determinism`, `Cicada`, `TPCCSilo`: done, the last
   without upsert, scans and the container of old values.
5. That deterministic locking is serial in number order (`TxOrder`), as a theorem: done
   for `LockManager` and `Determinism` (`LockManagerProofs`) and for `FixedLockManager`
   (`FixedLockManagerProofs`), on `CommonProofs`.
6. That the optimistic protocols are serializable, as a theorem over `History`: done
   for `Silo` (`SiloProofs`), for `TicToc` (`TicTocProofs`) and, as far as it holds, for
   `MOCC` (`MOCCProofs`), all on `CommonProofs`.
7. That the version lists of `SI` stay locks and histories while they are reclaimed, as a
   theorem (`SIProofs`): done.
8. Open: the same for `Cicada` and `TPCCSilo`; the scans of `tpcc_silo`; an abstract
   snapshot store for `SI`.

One run covers several builds, programs or workloads of a component where they
can be chosen in the initial state.

## 3. How the code is modelled

**Atomicity.** A step contains at most one access to memory that another thread
uses at the time. The programs run on x86 and use acquire loads, release stores
and locked read-modify-writes for what they share; under these, and with no
thread storing one shared word and then loading another without a locked
instruction in between where it would matter, interleaving of single accesses
is what the machine does. (The one store of Silo that is followed by loads
without a locked instruction is the published epoch; seen late, it holds the
leader back longer, which is a run of the model in which the leader scans
later.) Four kinds of code are one step each:

- a compare-and-swap loop, at its successful iteration (the failed ones change
  nothing and are the state "not yet");
- a section that runs wholly under a lock that guards everything it touches
  (`lock_for_lock_` of the lock managers, validation and GC of OCC under the
  global lock, `g_clock_` and `gc_lock_` of the collectors);
- a load under a lock the same step takes (SS2PL reads the value it has just
  locked);
- a walk along a version list over versions that are committed: no one changes
  them until they are reclaimed, and that none in use is reclaimed is a property
  the runs check.

Where such an argument fails, the step is split: values of Silo and OCC are
copied word by word; in TicToc, `unlockWriteSet` loads and stores a word in two
steps, because in one build the worker does not hold the lock; the lock
manager's unlocked look at the head of a wait list is a load of an address and
a load through it; ERMIA's `ssn_tread` loads the sstamp of a version twice.

**Data.** A value is the identifier of the transaction that wrote it, so a read
tells where it came from. A procedure is any element of a small set of operation
sequences. The index (but for `tpcc_silo`), statistics, back-off delays and sleeps
are left out: they decide nothing but time. Counters of the code stay counters; the
widths of Silo's `tid` and TicToc's `delta` are constants, so that small ones
overflow.

**Bounds.** `MaxTxn`, `MaxTry`, `PRE_NUM` (a constant of the code too), `MaxEpoch`
and the length of a workload stop the counting; they appear only in the guards of
the worker's loop, of the dispatcher and of the epoch leaders. `RESERVE`, `MaxSlot`
and `Record` bound the versions and records that exist. A worker that has reached
its bound waits for `quit`, so every run ends with the joined threads.

**Workers.** `pc` is where a worker is; a label names the loop or function it is
in. `leave` is the test of `quit` at the head of the loop and at `RETRY`. `Quit`
is main's timer, enabled at any time. `Joined` is main after `join`.

### Modules

- **History** - no state. `MustPrecede`: reads-from, overwrites,
  anti-dependency. `Serializable`: every set of committed transactions has a
  member that must follow none of the others, which is acyclicity.
- **SerialStore** - the abstract program: one action, `Execute`, reads what the store
  holds and replaces what it writes. It is `ss2pl_serial/` with a transaction as a
  step. `SS2PL` and `OCC` instantiate it (`Serial == INSTANCE SerialStore WITH ...`)
  over the history of what they commit (`SS2PL` in `TwoPhase`); SS2PL's refinement mapping takes a
  transaction to be executed when its commit begins, OCC's when `txId` counts it.
- **RWLock** - `include/rwlock.hh`. A guard and an effect per operation on the
  counter (-1 a writer, n > 0 readers).
- **CommonProofs** - lemmas for several programs. About histories: transactions ranked by
  numbers that agree with what must precede what are serializable (`RankedSerializable`),
  and stay so when one commits last (`LastSerializable`); a version has a place
  (`PlaceFound`); sets of naturals have a least, finite ones a greatest element. About
  locks: each operation of `RWLock` keeps counters in agreement with the lists of locks
  the workers keep (`LocksAgree`).
- **Silo** - `silo/`. `begin`..`readCheck` are the read phase: load the TID word,
  copy the words, load it again. `validationPhase` is `lock` (key order), `epoch`
  (`loadEpoch`, then `storeEpoch`: two steps, so that the leader comes between),
  `validate` (one element a step), `install` (`installWord`, `installTid`).
  `LockPolicy` is the choice between `NO_WAIT_LOCKING_IN_VALIDATION`,
  `NO_WAIT_OF_TICTOC` and neither. `chkEpochLoaded` scans the published epochs in
  one step: only its caller advances the epoch, so a worker seen up to date stays
  so during the scan.
- **LockedTable** - the workers, records, values and locks that the programs which take
  `RWLock`s have in common (`TxOrder`, `TwoPhase`); no definitions.
- **TxOrder** - no actions: the numbered transactions, and the promise that what they
  read and in which order they write is that of the serial run in the order of their
  numbers. `LockManager` and `Determinism` extend it; `FixedLockManager` promises it
  only to the transactions that commit with their locks, and states it for those.
- **LockManager** - `lock-manager/` and the variants that differ in `FirstTx`, in
  `EndAfterFirst` and in sizes. `acquireGiant`..`releaseGiant` is dispatch,
  `Locks`/`Dequeues`/`grant`/`pass` are `check_waitlist`. A vector that grows frees
  its buffer; with `Racing`, a worker that has loaded the old address then reads
  any value a reused buffer may hold.
- **FixedLockManager** - `lock_manager_fixed/` and `determinism_lock_manager/`;
  `build` says which. The head of an array is dropped by advancing `lower`, and a
  slot is never used again. What an empty slot holds differs: 0 in
  `determinism_lock_manager/`, which is also the number of a transaction. When an
  array is full `lock_for_lock_` stays held in one program, the other exits.
- **Determinism** - `determinism_end_after_tx1/` and its variants: all locks under
  the giant lock, or all given back and tried again.
- **TwoPhase** - no actions: the lists of locks and the promise of two-phase locking,
  `LocksMatch`, `ReadsStayValid` and `SerialExecution`, the refinement of `SerialStore`.
- **SS2PL** - `ss2pl/`, over `TwoPhase`. `readLock`, `upgrade`, `writeLock` are the accesses,
  `refuse` is DLR1's failure; with DLR0 a refused worker waits. `makeProcedure`
  yields the orders its comparison allows under `KEY_SORT`, including those
  `std::sort` may produce because it is no strict weak order.
- **OCC** - `occ/`. `lock`..`gc` under the global lock. A look before the
  start of `ws_list` may find any keys.
- **TicToc** - `tictoc/`. `Inspects` is the read loop for one loaded word;
  `lockRecord`, `lockBusy`, `unlockLoad`, `unlockStore`, `unlocked` are locking
  in the three builds (`Sorts` is what `sort` leaves, for keys that differ); `pass`, `extend`, `fail`, `seeNewer`, `seeHistory` are the
  validation of one read, and with the label `preverify` the pre-verification.
  The build is chosen in `Init` from `Builds`. A transaction whose
  pre-verification fails goes on to validate without locks, as in the code.
- **MOCC** - `mocc/` as its CMakeLists.txt builds it (`RWLOCK`; the queue lock of
  `lock.cc` is not compiled). Temperatures only choose between locking and
  validating. The loop of `lock()` that takes the locks of `RLL_` in canonical mode
  never takes one: its threshold is `UINT_MAX` unless a lock is out of order.
  `CLL_.back()` of an empty list is a choice.
- **SI** - `si/`. `tbegin`, `scan`, `publish` choose and enter the snapshot;
  `loadLatest` and `tread`/`twrite`... are an access; `stamp`, `install`, `commit`;
  `lead` is the leader's look at the table, `gcVersion` the collection. `Builds`
  chooses the counter (`CCTR_ON`, `CCTR_TW`), or `ERMIA`.
- **ERMIA** - extends `SI`, as the program is `si/` with changes: `Shared` lists the
  actions taken over. `ssn_tread` is `walk`, `loadSstamp`, `loadSuccessor` (the
  second load) and `ssn_tread`; `ssn_twrite` is `forgetRead`, `swap`, `mark`,
  `ssn_twrite`; `ssn_parallel_commit` announces itself, takes a stamp, gathers
  (`finalizePi`, `finalizeEta`; `passOver`, `holdOn`, `later`, `earlier` are the look
  at another worker's element) and decides (`exclude`, `admit`), then stores. Table
  elements have addresses, as they are reused.
- **Cicada** - `cicada/` with inline versions, reuse, with and without promotion. A
  promotion writes `write_val_`, not the value read. Group commit is not modelled:
  the calls of `pwal` and `swal` are commented out. `rdtscp` counts up.
- **TPCCSilo** - the engine of `tpcc_silo/`: sessions, epoch thread (check, advance and
  store of the reclamation epoch are steps), local sets, `read_record`'s loop, commit
  phases, removal from the index, garbage. The index is a map with atomic operations.
  Memory that has been freed keeps its contents until an insert takes it.

## 4. What the runs check

Times are with two cores.

| Run | Instance | Shows |
|---|---|---|
| `silo` (155 s, 2.2 M states) | 2 workers x 2 commits, 2 records, 3 epochs, write skew and blind writes | serializable; commits in epoch order and in TID order; locks owned; epoch window |
| `silo_log` (10 s, 19 k) | 2 workers, values of two words, `tid` of one bit, lock retry, log flushed after one record | no torn read commits; `tid` stays in its field; log records whole; locks released; workers stop |
| `lock_manager` (120 s, 340 k) | 3 workers, 3 transactions (upgrade; crosswise), fair | lists in order, serial in number order; every transaction commits and every worker stops (`Progress`) |
| `fixed_lock_manager` (22 s, 100 k) | 2 workers, 3 transactions, both programs, arrays of 5 slots that fill up | serial in number order; all commit, but for a full array or a transaction that waits for itself |
| `determinism` (65 s, 290 k) | 3 workers, 3 transactions, upgrades, both variants | serial in number order; a transaction looked up commits unless the run ends |
| `ss2pl` (66 s, 260 k) | 3 workers; DLR1 with upgrades, local hits, read-modify-writes in both orders; DLR0 with sorted operations | locks match, reads repeatable, refinement of `SerialStore`, attempts end without locks |
| `occ` (18 s, 170 k) | 2 workers x 2 commits, values of two words, GC threshold 2 | refinement of `SerialStore` in number order, write sets kept, workers stop |
| `tictoc` (135 s, 2.6 M) | 2 workers x 2 commits, 3 builds, `delta` of one bit | locks owned; without timestamp history, timestamps follow the dependencies and commits are serializable |
| `mocc` (20 s, 890 k) | 2 workers, 3 operations on 3 records in opposing orders, records that become hot | no circle of waiting workers; what was read under locks is serializable |
| `si` (160 s, 2.5 M) | 2 workers; SI under either counter, ERMIA; overwriting until versions are reclaimed, then crosswise writes | lists are locks and histories; snapshots hold what had ended; versions tell of their successors (ERMIA); no version, no table element in use is reused; no circle of waits |
| `cicada` (95 s, 1.2 M) | 2 workers, crosswise writes, promotion of what another collects, overwriting and collecting | lists sorted and whole; nothing in use collected; commits in timestamp order; validations do not wait in a circle |
| `tpcc_silo` (15 s, 60 k) | 2 workers, NewOrder and Payment on one district, crosswise updates with an insert, deletion and re-insertion, 3 epochs, fair | serializable; the index gives out live records; transactions end |

**Why the bounds are enough to be of interest.** Every anomaly the properties
speak of has two or three transactions: write skew (two crosswise), lost update
(two on one record), a torn or mixed read (one writer, one reader, two words), a
deadlock (two in opposite orders, or three in a circle). Two commits per worker
let the second meet what the first left: a TID chosen before, an extended `rts`,
a collected write set. Two keys give locking order and partial locking. The
three epochs of Silo let the leader be one ahead of a worker twice. A `tid` or
`delta` of one bit wraps within a run. Three workers are used where counters of
readers or circles of three matter. In `si` and `cicada` the leader's threshold
moves far enough for versions to be detached, put by and used again. Every
property has a mutant of the code it is about (`PROJECT.json`), which TLC finds
under the same instance, so no property holds for want of states. `tictoc` uses the
symmetry of workers; it checks no liveness.

**`silo_log` does not check `TidOrder`**: once the field has wrapped, a commit TID
can be below that of the version it overwrites. The code needs 2^29 commits to one
record in an epoch for that.

**OCC's threshold.** `occ` uses a threshold at which every worker has committed
before the first collection; see Findings for what follows otherwise. The theorems
about OCC have that as a condition (`FirstSetsKept`) and hold for any threshold.

**TicToc's properties** are stated for the builds they hold in. With
`NO_WAIT_OF_TICTOC` a worker can validate and commit without locks after a failed
pre-verification, and `unlockWriteSet` can then clear another worker's lock bit;
with `TIMESTAMP_HISTORY`, see Findings. A build with both is explored in the
same run. Locking does not depend on `TIMESTAMP_HISTORY`, so `LocksOwned` is
checked for either locking without it.

**MOCC's, ERMIA's and Cicada's** positive properties are what holds of the programs as
they are: `LockedReadsSerializable` for what MOCC read under locks, `SuccessorsKnown`
for the state ERMIA's certification rests on, `TimestampOrder` for transactions of
Cicada that were not promoted after reads. The full `SerializableCommits` of each is
in the module, and fails; see Findings.

**`tpcc_silo`** starts at epoch 2: at global epoch 1 the reclamation epoch would wrap to
2^32 - 1, but loading the tables takes many epochs. Its workers stop after their
workload, so deadlock is not an error there; `AttemptEnds` is what is checked instead.

### Fairness

Liveness properties assume that each worker thread is scheduled (weak fairness
of the worker's steps as a whole; in `tpcc_silo`, of its steps inside a transaction)
and that main's timer fires (weak fairness of `Quit`). Both are what the operating
system and `main` give: preemptive threads, a sleep and a store. Nothing is assumed
about who wins a compare-and-swap or a lock, so no progress is claimed that rests on
winning: `Progress` and `EveryTxCommits` hold because wait lists are queues,
`AttemptEnds` because a refused lock ends the attempt or sorted operations cannot
wait in a circle, `LocksReleased` because no one waits while holding a lock. A retry
loop may fail for ever until `quit`; `Shutdown` says that `quit` then ends it. For
`mocc`, `si` and `cicada` the absence of circles is checked as an invariant; that a
spinning worker then gets on needs its peer to be scheduled, no more.

## 5. Findings

What TLC found the programs to do against what they, or their documentation,
promise. Each is reproduced by a configuration that is not one of the runs:
`tlc -config <cfg> <module>` stops with the named property violated. Two of them
serve two findings: the first line of the file says what to set for the other.

| Configuration | Property | Where | What happens |
|---|---|---|---|
| `MCSiloSpin.cfg`, `MCSilo` | `Phase1Ends` | `silo/transaction.cc:67` | with both no-wait options off, `lockWriteSet` spins on a local copy of the TID word that it never loads again |
| `MCLockManagerRace.cfg`, `MCLockManager` | `GrantedAtHead` | `lock-manager/ss2pl.cc:355` | `check_waitlist` looks without a lock at the head of a vector that another thread may move, and can take a lock before its turn |
| `MCOCCEarlyGC.cfg`, `MCOCC` | `SerialExecution` | `occ/transaction.cc:132` | a worker that has committed nothing is taken for one that has committed transaction 0: its write set is collected, a validation misses it, an update is lost |
| `MCTicTocHistory.cfg`, `MCTicToc` | `SerializableCommits` | `tictoc/transaction.cc:237`; `tictoc/README.md:46-47` | the timestamp history does not ask whether the version before the newest is the one that was read: write skew |
| `MCSISkew.cfg`, `MCSI` | `FirstUpdaterWins` | `si/transaction.cc:291-294`; `si/README.md:66-68` | under `CCTR_ON` a snapshot can reach past a commit that is still stamping its versions: the update it makes is lost |
| `MCSISkew.cfg` (ERMIA), `MCSI` | `SerializableCommits` | `ermia/transaction.cc:156-163,441,490` | write skew and lost updates pass the certification; see below |
| `MCMOCCSkew.cfg`, `MCMOCC` | `SerializableCommits` | `mocc/transaction.cc:738` | the TID word and the lock of a record are validated one after the other, while a committer stores the one and releases the other: write skew |
| `MCCicadaPromotion.cfg`, `MCCicada` | `SerializableCommits` | `cicada/include/transaction.hh:168` | what a transaction read before it was promoted from read-only is not validated |
| `MCTPCCSiloRecords.cfg`, `MCTPCCSilo` | `PointersValid` | `tpcc_silo/epoch.cpp:73`; `interface/interface.h:243` ("Returned tuple pointers are valid untill commit/abort") | the reclamation epoch is one too large: a record is freed and reused while a transaction holds it |
| `MCTPCCSiloRecords.cfg` (Orders), `MCTPCCSilo` | `OrderInserted` | `tpcc_silo/tpcc/neworder.cpp:115,141,273` | NewOrder ignores `WARN_ALREADY_EXISTS`: the order row of one that commits is another's, whose abort removes it |
| `MCTPCCSiloDeleted.cfg`, `MCTPCCSilo` | `AttemptEnds` | `tpcc_silo/interface/interface_termination.cpp:49-53` | a commit that meets a deleted record leaves it locked: a third worker that had found it waits for ever |

**ERMIA** in more detail. (a) `ssn_tread` of a version that bears a worker's mark takes
the worker's number for a stamp, and leaves the read out of the read set, so that
its pstamp is never raised. (b) A committing worker passes over a peer that is
already `committed` but still storing its stamps, and one whose mark it loaded just
before. (c) An element leaves the read set when its record is written ("avoid false
positive", 202-217), while the snapshot may reach past a commit that is still
stamping: a lost update. From reading the code, without a model: a read never
raises the reader's pstamp by the creator's stamp; the mark is stored on `prev_`,
which can be an aborted version (308); reader bits of versions outside the read set
are never taken back; `1 << thid_` is an int.

**SS2PL**: "Dead lock resolution is timeout" has no timeout
(`ss2pl/transaction.cc:249`): with DLR0 and unsorted operations workers wait in
circles. The run uses DLR0 with sorted operations, where they do not.

**Lock managers with fixed arrays**: transaction 0 that writes a record it has not read
waits until another transaction registers, because the empty slot holds its number;
a transaction that reads, writes and writes again a record waits for its own write
lock; a full array leaves `lock_for_lock_` held for ever; on quit a worker executes
without the locks it still waits for; a record serves about a hundred accesses in a
run. `EveryTxCommits` and `SerialInTxOrder` except exactly these.

**tpcc_silo**, from reading: an aborted insert is stored without the absent bit
(`session_info.cpp:126`), so that a reader that has found it reads what never
commits; a deletion of a record inserted by the same transaction leaves a locked,
absent record in the index; an update after a deletion in one transaction writes the
live record; two blind deletions put a record into the garbage twice; upsert goes on
with a deleted pointer after a failed insert and skips the absent check; keys not
found and scans are not validated (phantoms); sessions numbered beyond the number
of cores share a garbage queue without a lock.

## 6. What is proved

tlapm checks every proof to the last leaf; the assumptions are those of the
modules' constants (`SiloAssumption`, `NoTxnAssumption`, `SS2PLAssumption`,
`OCCAssumption`, `FixedLockManagerAssumption`, `LockManagerAssumption`,
`TicTocAssumption`, `MOCCAssumption`, `SIAssumption`), which TLC evaluates in the runs.

**`SiloProofs`** extends `Silo` and proves, for all workers, keys, procedures, words,
widths of `tid`, bounds and lock policies:

- `TypeCorrect == Spec => []TypeOK`. `TypeOK` is inductive as it stands, because
  it says also that `pos` is inside the procedure while one runs (`Running`).
  `IncTidType` is where the width of the field enters.
- `LocksAreOwned == Spec => []LockOwnership`. Inductive relative to `TypeOK`: a
  record is locked iff exactly one worker holds it, and a worker not validating
  or installing holds none. One step per action; only `lockRecord`,
  `unlockRecord` and `installTid` change a lock bit.
- `EpochsAdvanceTogether == Spec => []EpochWindow`. Not inductive: a commit TID
  takes the epoch of the largest TID it has met. `EpochInd` adds that every TID a
  record or a worker holds is of an epoch no later than the global one, that
  those of a worker about to publish are no later than the epoch it loaded, and
  that those of a validating worker are no later than the one it published.
- `LogIsWhole == Spec => []LogWhole`, by `LogInd`: a worker's log records are of its
  own transactions up to the one it installs, none is split between buffer and
  file, and what it installs has been logged.
- `SiloIsSerializable == Spec /\ []TidsFit => []SerializableCommits`,
  `EpochsAgreeWithOrder` (`EpochOrder`) and `TidsAgreeWithOrder` (`TidOrder`).
  `TidsFit`: no increment of a TID in `validate` leaves the 29-bit field, so that TIDs
  of a record rise and a TID word seen twice has not changed in between. A wrap
  would take 2^29 commits within one epoch, which only the machine's speed excludes;
  it holds throughout the run `silo` (`TidSpan` 16), and does not in `silo_log`.
- The serial order is not that of TIDs: TIDs of transactions that only read from each
  other's past may come in any order. A transaction takes its place when it has
  locked its write set (`Placed`, a ranking `r` of the transactions that `SerialInd` carries
  under an existential). `Ranked`: epochs do not fall along it, the versions of a record
  rise, and a worker that has locked a record comes after all its versions; an entry of
  a read set is of a version that ranks before the worker, and once it is validated
  no later one ranks before it, nor will (`Unspoilt`: because who has the record
  locked then is the worker itself or is placed later). `TidsRise`, `WordsHold` and
  `CopiesHold` tell which version a TID and the words copied around it belong to.

**`OCCProofs`** extends `OCC` and proves, for any number of workers, records, words,
transactions and any garbage-collection threshold:

- `TypeCorrect == Spec => []TypeOK`, without a condition.
- `WriteSetsAreKept == Spec /\ []FirstSetsKept => []WriteSetsKept` and
  `Implements == Spec /\ []FirstSetsKept => SerialExecution`. `FirstSetsKept`: nothing
  has been erased while a worker runs that began before transaction 0 had committed.
  It is the exact condition that the program does not ensure
  (`MCOCCEarlyGC.cfg`, Findings): `progress` is 0 for such a worker, as for one that has
  committed transaction 0. It speaks of no other transaction and no other worker, and
  it is implied by `WriteSetsKept`, which the run checks, so in the run's instance it
  always holds. All that the rest of the collection needs is proved.
- The inductive invariant has four parts. `Sets`: the global lock has one
  holder, the sets of a worker fit the place it is at, `ws_list` is the tail of the
  committed write sets from `deletedTxId + 1`, and no worker's `progress` is behind
  `deletedTxId`. `WordsHold`: each word of a record is of the last committed
  writer, or of the transaction in `writePhase` if it has stored it. `ReadsFresh`: a
  word that has been read is of the last writer, or its record is written since the
  reader's start (`Overwritten`), and then validation will meet it. `ReadsValid`: after
  validation only the former is left.
- That the collector takes the least `progress` needs the existence of a minimum
  (`HasMinimum` of `CommonProofs`): by well-foundedness of the naturals, as induction
  is not available. The one step that does not stutter is the commit
  (`CommitExecutes`): it reads what the serial store holds because of `ReadsValid`.

**`LockManagerProofs`** extends `LockManager` and proves, for any finite set of workers,
any records and drawn transactions and every variant, from `LockManagerAssumption` and
`~Racing`:

- `ServedInOrder == Spec => []WaitListsInOrder`,
  `Determined == Spec => []SerialInTxOrder`, `GrantsAreInTurn == Spec => GrantedAtHead`
  and `LockingIsSerializable == Spec => []Serializable(committed, order)`. The condition excludes that a wait list
  moves in memory between the two loads of a reader of its head; with the race both
  fail (`MCLockManagerRace.cfg`, Findings).
- The invariant up to the wait lists (`Base`): counters and lists of locks agree; who
  registers has the giant lock, for the transaction counted last, and no transaction
  has two workers (`Dispatched`); a worker has either an entry or a lock for each record
  its registered tasks access, for writing exactly if one of them writes
  (`LocksCover`, with `DupCheck` for what `dup_check` finds out); and the lists
  hold the waiting transactions, increasing, all counted (`ListsMatch`). An entry is
  appended for the largest number so far, and only the head is struck off.
- A transaction is past the list of a record when it is counted and its worker is not
  waiting there (`Passed`). A writer gets past only by taking the lock
  (`PassedWorker`), at the head of the list and with nobody else holding the lock.
  So whoever has the lock, all writers before it are past the list, and while it has or
  waits for the lock none after it is (`InTurn`). `WaitListsInOrder` alone does not
  give the second half: it has to be carried for waiting workers, since a reader's turn
  leaves no mark in the record.
- Then a record holds what the last writer past the list wrote, but for one that
  has the lock and has yet to store (`Holding`), and reads and the order of writes follow
  (`ReadsDecided`, `OrderIncreasing`).

`Determinism` is an instance there, over the same records, locks and workers and with
what it declares besides; names with the prefix `D_` are the counterparts of those above.
For any number of workers, records and drawn transactions and for every variant:

- `DeterminedUnderGiantLock == D!Spec => []SerialInTxOrder`, without a condition on
  `Racing`: there are no wait lists. The invariant: counters and lists of locks
  agree (`LocksAgree` of `CommonProofs`); only the holder of the giant lock is
  locking, and it locks for the transaction counted next; a worker's
  locks cover the tasks it has come past, and its write locks no others; while a
  transaction runs, none that was counted after it writes a
  record it has locked (`NoneAfter`: such a writer would have needed a lock that
  excludes); so a record holds what the last writer below the running transaction
  wrote, then what that one wrote, and when nobody may write it, what the last writer
  counted so far wrote. Reads and the order of writes follow.
- Whether an attempt is refused does not occur in the argument: an attempt that
  is given back has stored nothing.

`SS2PL` is an instance there too, with `S_` before the names of what it needs; the
theorems state what `TwoPhase` promises, over the workers and records of `LockedTable`.
For any number of workers, records and transactions and for every build, from
`SS2PLAssumption`, which the theorems have as a hypothesis:

- `S_Invariance`, with `S_Inv` the conjunction of the types, of `LocksMatch`, of
  `S_ListsMatch` (which sets and lock lists a worker has at each place) and of
  `ReadsStayValid`. The lock counter is the cardinality of the readers or -1: each
  lock operation has a lemma (`S_ReadLockMatches`, `S_UpgradeMatches`, ...) that says how
  the holders change with it; `S_LocksStep`, `S_TypesStep`, `S_ListsStep` and
  `S_ReadsStep` are one conjunct each, by action.
- `SS2PLTypeCorrect`, `LocksAreHeld` and `ReadsAreRepeatable` follow from it.
- `SS2PLImplements == S!SS2PLAssumption /\ S!Spec => SerialExecution`: every step is a
  step of `SerialStore`, or none, under the refinement mapping that counts a transaction
  as executed in the step that begins its commit. `S_CommitExecutes` is the one step that
  is not a stutter: what the transaction has read is still what the store holds
  (`S_DatabaseHolds`, from the locks). A store stutters, for the record held the value
  already (`S_StoreStutters`), and so does all else (`S_DatabaseKept`).

**`FixedLockManagerProofs`** extends `FixedLockManager` and proves, for any finite set of
workers, any records, numbers of transactions and sizes of the arrays, and for both
programs:

- `Determined == Spec => []SerialInTxOrder` and
  `LockingIsSerializable == Spec => []Serializable(Locked, order)`. No condition is
  needed: full arrays, entries too many, the empty slot that names transaction 0 and
  workers that give up waiting are all in it.
- While workers execute with the locks they have asked for (`Locking`), counters and
  lists of locks agree (`Counted`); who registers has the giant lock, for the transaction
  counted last (`Dispatched`); a worker has entries or locks for what its registered
  tasks access, an entry to write exactly where it has yet to get the lock its writes
  need, and at most one to read, and only before it holds the lock (`LocksCover`).
- The lists are not what those of `LockManager` are: an entry is not removed but passed
  by, a worker may have two entries, an upgrade may drop one of them or pass both.
  `ListsMatch` says what is left: between `lower` and the end the numbers do not
  decrease, all are counted, and a worker that waits has as many slots with its number
  as entries of its own. That is enough for a transaction that takes a lock to be the
  least that waits there, also by way of the next slot (`NextIsOwn`), and also when
  that slot is empty, because then its number is 0.
- From there the argument is that of `LockManager`, with the difference that a
  worker passes a list when it has the lock for writing, be it by an upgrade of its
  read lock (`Passed`, `InTurn`, `Holding`, `ReadsDecided`, `OrderIncreasing`).
- At quit the workers of one of the programs execute without locks, and all of that
  ends. What has been decided stays (`Settled`): the committed reads are not touched, and
  who stores now appends its own number, which no committed transaction has
  (`Numbered`, `StoredOnce`), behind the numbers that are there, whose places remain
  (`PlacesStay`).

**`TicTocProofs`** extends `TicToc` and proves, for all workers, records, procedures,
widths of `delta` and bounds:

- `TypeCorrect == Spec => []TypeOK`, in every build, with `Indexed`: the elements that a
  worker is at exist, and a write set has one element for a record.
- `LocksAreOwned == Spec => []LocksOwned`, in the builds in which aborts take effect
  (`AbortsTake`; the others lock and unlock what they do not own, Findings). `LocksKnown`
  says how far each worker has locked, and that the word it loaded to
  unlock a record is still there when it stores it.
- `TimestampsAgree == Spec => []TimestampOrder` and
  `TicTocIsSerializable == Spec => []SerializableWithoutHistory`, in those builds
  without `TIMESTAMP_HISTORY` (with it the second fails, Findings). The invariant
  `PlainInd` is about four things. `TimestampsRise`: from version to version timestamps rise,
  up to the word's `wts`, but for one version that is being written back; and the
  commit timestamp of a worker exceeds the `rts` of each record it has locked
  (`LocksAhead`: because nobody extends a locked word). `CopiesHold`: what is copied
  between two loads of the same word is the newest version; words never return to
  an earlier content because `rts` only rises (`WordsRise`). `ReadsHold`: each element of a read
  set was read of a version that was the last one while its word said so, and each that
  has passed validation, and each read of a committed transaction, stays valid up to the
  commit timestamp: later versions are later than it, and so will be the
  next one, because the word says so or the transaction itself holds the lock
  (`ValidFor`). A worker that is about to overwrite it has a commit timestamp beyond
  `rts` already, before it shows (`PassValid`, `ExtendValid`). The version is
  followed by its place in the order, not by `wts`, since an extension that overflows
  moves `wts`.
- Timestamps may be equal when one transaction reads what another wrote. Those have
  committed one after the other (`Ranked`), which ranks them.

**`MOCCProofs`** extends `MOCC` and proves, for any finite set of workers, any records,
any paging of their temperatures, procedures, temperature bounds and width of `tid`:

- `TypeCorrect == Spec => []Types` and `LocksAreCounted == Spec => []Counted`: counters
  and lists of locks agree. Both are parts of `Base`, whose third part, `WorkersMatch`,
  says what each worker's sets and lists hold at each place: a worker has locks on
  what it has operated on and no others (`Known`), for writing on what it has come past
  in `commit()` and on what it has yet to store (`WriteLocks`). It has to be proved
  together with the types: that an index is in range depends on it.
- `NoWorkersWaitInCircles == Spec => []NoWaitingInCircles`. In `lock()` a worker that
  waits has none of its locks on the record it waits for or on later ones
  (`WaitsAbove`); an optimistic read waits only for a record after all the worker's
  locks, or else the worker aborts. Along a chain of waiting workers the records they
  wait for rise (`WaitingRises`), so in a finite set somebody waits for nobody in it.
- `LockedReadsAreSerializable == Spec /\ []TidsFit => []LockedReadsSerializable`, with
  `TidsFit` as for Silo (it holds throughout the run `mocc`). The order is that in which
  transactions choose their TIDs, at the beginning of the write phase: `Decided` is the
  order of writers with the writes begun counted in. `Serial` says that
  the transactions are serializable over `Decided`; a transaction that chooses
  its TID comes last (`LastSerializable`), because what it has locked it has verified under
  the lock (`Verified`), so that it read the newest version. Which version a copy is of follows
  from the TID word: words rise (`Rising`), and a copy whose word is still the record's is
  of the record's value, unless the writer is between storing the value and the
  word (`Copies`). A read that was locked before the copy falls under the same argument,
  so nothing is said about when the lock was taken, or whether it was dropped in between.
- What fails for the reads without locks (Findings) is `Verified`: a record can be
  written between the check of its TID word and that of its lock.

**`SIProofs`** extends `SI` and proves, for any finite sets of workers and records, any
workloads, every build and any number of versions:

- `ListsStayInOrder == Spec => []ListsInOrder`,
  `ReclaimedAreApart == Spec => []Apart` and `WritersAreAlone == Spec => []Owners`.
  `ListsInOrder` says nothing of the versions behind those it compares, of the reserves or
  of the queues, on which the next write and the next reclamation depend: it is far from
  inductive.
- `From` and `Visible` walk at most as many steps as there are versions. `FromChain` says
  that this is enough: what `From` returns is the list (`Chain`), each the `prev_` of
  the one before it, none twice, to the end. `ChainPushed` and `ChainCut` are
  what `twrite` and `gcVersion` do to a list.
- The inductive invariant `Inv`. Of each list (`Sound`): only its head may be in flight;
  `committed_prev_` is the next committed version behind; stamps do not grow towards the
  end and those of committed versions fall (`Under`); the last version is committed, and
  its stamp is the record's `min_cstamp_`. `Stamps` and `Counters`: what has been
  stamped came from `CCtr`, and a snapshot is at most one ahead of it, so that a version
  in flight, stamped with the snapshot, may be at the head. `Apart`: a version is in one
  list, or put by once. `WriteSets` and `Owners`: each element of a write set that is
  undecided names the head of its record's list, in flight, with the stamp that its
  transaction has at that point of `commit`; and two transactions have none in common.
  `Queued`: an element of a GC queue whose stamp is above `min_cstamp_` is in its list
  and as it was queued; that is why `gcVersion` may follow it, and why the test of
  `min_cstamp_` (the "dangling" one) is needed.
- One lemma per group of actions: those that leave the lists alone (`Quiet`, `Shared`),
  `twrite` (`TwriteKeeps`), `stamp`, `install` and `discard`, which change the head of one list
  (`HeadStep`), and `gcVersion`, which cuts one (`GcReclaims`). That `gcVersion` keeps what the
  queues of other workers name is the part for which `Sound` has to speak of aborted
  versions too: what is cut off has no stamp above that of the version
  behind which it was (`TakenUnder`).

Only model-checked:

- All liveness (`LocksReleased`, `Shutdown`, `Progress`, `AttemptEnds`,
  `EveryTxCommits`): fairness and ENABLED are out of the prover's reach.
- SI's `SeesWhatHadEnded`: besides the lists it needs that no version a snapshot can
  reach is reclaimed, for which the leader's two rounds over the mapping table and
  the element that `publish` replaces have to be followed.
- `ERMIA`'s three properties. Its worker is `SI`'s with the certification added; the same invariant
  would have to be carried through about twenty more actions, and the waiting graph
  speaks of table elements that are taken by others while they are looked at.
- `Cicada`'s four, which rest on versions inserted in the middle of lists that others
  walk, and on the timestamps the leader collects.
- `TPCCSilo`'s `SerializableCommits` and `IndexSound`. They do not hold for every value of
  the constants: two blind deletions of one record put it into the garbage twice
  (Findings), which the runs' workloads exclude.
- What a recursive definition computes for every input, which needs induction.

## 7. What is not modelled

- **Crashes.** The log of Silo is written and never read, that of the others is never
  written: there is no recovery to model.
- **SS2PL with stores in place** (`fair_ss2pl/`, `experiment_ss2pl/`,
  `ss2pl_experiment/`, `ss2pl_prepare/`, `ss2pl_uchida/`): a write is stored before
  commit and abort does not restore it (`fair_ss2pl/ss2pl.cc:286,312-328`), so that
  an outcome with an abort is not that of any serial run. The locking is that of
  `SS2PL` under DLR1; and `tx_pos` grows with nothing to stop it at the end of
  `Pre_tx_set`. There is no protocol left to check.
- **Copies of the lock managers** (`lock_manager_variable_debug/`, the directories and
  files named as copies): debugging states of programs that are modelled, with steps
  left half changed. `single_lock_manager/` does not compile.
- **`tpcc_silo`**: upsert and scans (no transaction of the program calls them), the
  container of old values, the log (`WAL` is not defined), the generation of queries,
  and the inside of the Masstree index.
- **Compiled out**: MOCC's queue lock (`mocc/lock.cc` under `MQLOCK`), Cicada's group
  commit, ERMIA's serial `ssn_commit`, `naiveGarbageCollection`, OCC's `wal`.
- **`cc_format/`** is a template, `instruction/` holds micro-benchmarks; `include/`,
  `common/`, the `util.cc` and `result.cc` of the programs draw procedures, load tables,
  count and print. Masstree, mimalloc, tbb, gflags and glog are external. These,
  with the scripts' generated CMake files, are most of the lines of the repository that
  no definition stands for.
- **Allocation**: the lock managers' table is used without its constructors having
  run; the model starts from the zero pages a fresh mapping has. In SI and ERMIA
  versions come from a reserve (`RESERVE`), never from `new`: a worker that has none left
  would have to stop. In the runs none has to: `si` has as many states with a reserve of 6
  as with 5.
- **Weak memory** beyond x86, and the 32-bit and wider counters that do not wrap in a
  run.
