------------------------------- MODULE Cicada -------------------------------
(***************************************************************************)
(* Cicada, multi-version timestamp ordering, as built by its CMakeLists:   *)
(* Masstree, inline versions, reuse of versions, with and without inline   *)
(* version promotion, and without group commit (the calls of pwal and swal *)
(* are commented out: with it every version would stay pending).           *)
(*                                                                         *)
(* A record is a list of versions, newest first; one of the version        *)
(* objects is inside the record.  A transaction reads at its timestamp,    *)
(* installs pending versions in the middle of the lists, validates while   *)
(* it waits for the pending versions of others, and decides its own.       *)
(* Worker 0 computes, from what the workers publish, below which           *)
(* timestamps no transaction writes (MinWts) and reads (MinRts) any more;  *)
(* versions behind those are detached and used again.                      *)
(*                                                                         *)
(* A walk along a list is one step, the one of its last load: the list is  *)
(* sorted, and what is inserted behind the walk is not what it looks for.  *)
(* From a version that is pending or aborted it goes on in further steps.  *)
(* rdtscp counts up at every call; a READ_MODIFY_WRITE is a READ and a     *)
(* WRITE; partial_sort sorts all of a write set, of two elements or less.  *)
(***************************************************************************)
EXTENDS FiniteSets, SequencesExt, History

CONSTANTS
    N,           \* number of workers
    Key,
    Workloads,   \* INLINE_VERSION_PROMOTION, what makeProcedure returns to each
                 \* worker, call by call, and how many attempts the worker makes;
                 \* the numbers of both are bounds
    Elapsed,     \* whether gc_inter_us is over when a worker looks: it may be, it may
                 \* not; with FLAGS_gc_inter_us = 0 it is
    BOOST,       \* set_clockBoost, in clocks
    MaxSlot,     \* bound: version objects of a record beside the inline one
    None

Thread == 0 .. N - 1
Inline == 0
Slot   == Inline .. MaxSlot
Operation == [ope : {"READ", "WRITE"}, key : Key]

ASSUME CicadaAssumption ==
    /\ N \in Nat \ {0}
    /\ Key \subseteq Nat
    /\ Elapsed \subseteq BOOLEAN
    /\ BOOST \in Nat /\ MaxSlot \in Nat
    /\ None \notin Nat
    /\ \A l \in Workloads :
          /\ l.promotion \in BOOLEAN
          /\ \A t \in Thread :
                /\ l.tries[t] \in Nat
                /\ \A n \in DOMAIN l.procedures[t] :
                      l.procedures[t][n] \in Seq(Operation) \ {<< >>}

VARIABLES
    workload,    \* never changes
    tsc,         \* the time stamp counter
    ver,         \* the version objects of each record ("unused": free), and who
                 \* has written val_
    latest, min_wts, gc_lock,
    MinWts, MinRts,
    pub,         \* of each worker: the elements of ThreadWtsArray, ThreadRtsArray,
                 \* GCFlag and GCExecuteFlag
    w,           \* what each worker keeps: pc, its transaction, its sets, its queue
    committed    \* history: the committed transactions

vars == << workload, tsc, ver, latest, min_wts, gc_lock, MinWts, MinRts,
           pub, w, committed >>

Ts(clock, t) == clock * N + t

Unused == [wts |-> 0, rts |-> 0, next |-> None, status |-> "unused", writer |-> None]

\* A worker looks at a version, and the one it came from.
Nowhere == [later |-> None, ver |-> None]

Init ==
    /\ workload \in Workloads
    /\ tsc = 1
    /\ ver = [k \in Key |-> [s \in Slot |->
                IF s = Inline THEN [Unused EXCEPT !.status = "committed"] ELSE Unused]]
    /\ latest = [k \in Key |-> Inline]
    /\ min_wts = [k \in Key |-> 0]
    /\ gc_lock = [k \in Key |-> None]
    /\ MinWts = 2 /\ MinRts = 0
    /\ pub = [t \in Thread |-> [wts |-> Ts(1, t), rts |-> 0, gc |-> FALSE, exec |-> FALSE]]
    /\ w = [t \in Thread |->
              [pc |-> "next", pro |-> << >>, pos |-> 1, ronly |-> FALSE, promoted |-> FALSE,
               clock |-> 1, boost |-> 0, wts |-> Ts(1, t), rts |-> 1,
               reads |-> << >>, writes |-> << >>, installed |-> 0, i |-> 1,
               obs |-> {}, at |-> Nowhere, gcq |-> << >>, garbage |-> None,
               minw |-> 0, minr |-> 0, txn |-> 0, try |-> 0]]
    /\ committed = {}

lists  == << ver, latest >>
gc     == << min_wts, gc_lock >>
minima == << MinWts, MinRts >>

At(t, label) == w[t].pc = label

\* The last version of k, from x on, newer than ts; x is.
LastAfter(k, x, ts) ==
    LET f[s \in Slot] == IF ver[k][ver[k][s].next].wts > ts THEN f[ver[k][s].next] ELSE s
    IN f[x]

\* The first version of k, from x on, not newer than ts, and the one before it.
Walk(k, x, ts) ==
    IF ver[k][x].wts > ts
    THEN LET l == LastAfter(k, x, ts) IN [later |-> l, ver |-> ver[k][l].next]
    ELSE [later |-> None, ver |-> x]

\* A walk from where an earlier one has ended.
WalkFrom(k, later, ts) == Walk(k, IF later = None THEN latest[k] ELSE later, ts)

-----------------------------------------------------------------------------
(* worker, leaderWork, tbegin *)

Retry(t) == IF t = 0 THEN "lead" ELSE "begin"

NextProcedure(t) ==
    /\ At(t, "next") /\ w[t].txn < Len(workload.procedures[t])
    /\ LET p == workload.procedures[t][w[t].txn + 1]
       IN w' = [w EXCEPT ![t].pro = p, ![t].pc = Retry(t),
                         ![t].ronly = \A i \in DOMAIN p : p[i].ope = "READ"]
    /\ UNCHANGED << workload, tsc, lists, gc, minima, pub, committed >>

\* leaderWork: if every worker has raised its flag, start from one's own elements.
leaderWork(t) ==
    /\ At(t, "lead")
    /\ w' = IF \A u \in Thread : pub[u].gc
            THEN [w EXCEPT ![t].minw = pub[0].wts, ![t].minr = pub[0].rts,
                           ![t].i = 1, ![t].pc = "leadWts"]
            ELSE [w EXCEPT ![t].pc = "begin"]
    /\ UNCHANGED << workload, tsc, lists, gc, minima, pub, committed >>

\* The next worker's write timestamp ...
leadWts(t) ==
    /\ At(t, "leadWts") /\ w[t].i \in Thread
    /\ w' = [w EXCEPT ![t].minw = IF @ > pub[w[t].i].wts THEN pub[w[t].i].wts ELSE @,
                      ![t].pc = "leadRts"]
    /\ UNCHANGED << workload, tsc, lists, gc, minima, pub, committed >>

\* ... and its read timestamp.
leadRts(t) ==
    /\ At(t, "leadRts")
    /\ w' = [w EXCEPT ![t].minr = IF @ > pub[w[t].i].rts THEN pub[w[t].i].rts ELSE @,
                      ![t].i = @ + 1, ![t].pc = "leadWts"]
    /\ UNCHANGED << workload, tsc, lists, gc, minima, pub, committed >>

storeMinWts(t) ==
    /\ At(t, "leadWts") /\ w[t].i \notin Thread
    /\ MinWts' = w[t].minw
    /\ w' = [w EXCEPT ![t].pc = "storeMinRts"]
    /\ UNCHANGED << workload, tsc, lists, gc, MinRts, pub, committed >>

storeMinRts(t) ==
    /\ At(t, "storeMinRts")
    /\ MinRts' = w[t].minr
    /\ pub' = [u \in Thread |-> [pub[u] EXCEPT !.gc = FALSE, !.exec = TRUE]]
    /\ w' = [w EXCEPT ![t].minw = 0, ![t].minr = 0, ![t].i = 1, ![t].pc = "begin"]
    /\ UNCHANGED << workload, tsc, lists, gc, MinWts, committed >>

\* generateTimeStamp: the time, or what the clock was boosted to if that is later.
\* Then two transactions of a worker can have the same timestamp.
NextClock(t) == (IF tsc + 1 > w[t].clock THEN tsc + 1 ELSE w[t].clock) + w[t].boost

\* tbegin: the write timestamp.
tbegin(t) ==
    /\ At(t, "begin") /\ w[t].try < workload.tries[t]
    /\ tsc' = tsc + 1
    /\ pub' = [pub EXCEPT ![t].wts = Ts(NextClock(t), t)]
    /\ w' = [w EXCEPT ![t].clock = NextClock(t), ![t].wts = Ts(NextClock(t), t),
                      ![t].try = @ + 1, ![t].pc = "loadMinWts"]
    /\ UNCHANGED << workload, lists, gc, minima, committed >>

\* tbegin: the read timestamp, below all that is still written ...
loadMinWts(t) ==
    /\ At(t, "loadMinWts")
    /\ w' = [w EXCEPT ![t].rts = MinWts - 1, ![t].pc = "storeRts"]
    /\ UNCHANGED << workload, tsc, lists, gc, minima, pub, committed >>

\* ... which the worker publishes.
storeRts(t) ==
    /\ At(t, "storeRts")
    /\ pub' = [pub EXCEPT ![t].rts = w[t].rts]
    /\ w' = [w EXCEPT ![t].pos = 1, ![t].pc = "run"]
    /\ UNCHANGED << workload, tsc, lists, gc, minima, committed >>

-----------------------------------------------------------------------------
(* tread *)

InSet(set, k) == \E i \in DOMAIN set : set[i].key = k

Executes(t, ope) ==
    At(t, "run") /\ w[t].pos <= Len(w[t].pro) /\ w[t].pro[w[t].pos].ope = ope
OpKey(t) == w[t].pro[w[t].pos].key

\* A record in a local set, the write set for a WRITE.
Local(t) ==
    \/ InSet(w[t].writes, OpKey(t))
    \/ Executes(t, "READ") /\ InSet(w[t].reads, OpKey(t))

readLocal(t) ==
    /\ At(t, "run") /\ w[t].pos <= Len(w[t].pro) /\ Local(t)
    /\ w' = [w EXCEPT ![t].pos = @ + 1]
    /\ UNCHANGED << workload, tsc, lists, gc, minima, pub, committed >>

\* Choose the timestamp and scan to the area to be viewed.
treadScan(t) ==
    /\ Executes(t, "READ") /\ ~Local(t)
    /\ w' = [w EXCEPT ![t].at = Walk(OpKey(t), latest[OpKey(t)],
                                     IF w[t].ronly THEN w[t].rts ELSE w[t].wts),
                      ![t].pc = "read"]
    /\ UNCHANGED << workload, tsc, lists, gc, minima, pub, committed >>

\* Read the payload of a committed version.  A read-only transaction does not
\* track what it reads.
tread(t) ==
    /\ At(t, "read")
    /\ LET v == ver[OpKey(t)][w[t].at.ver]
       IN /\ v.status = "committed"
          /\ w' = [w EXCEPT
                ![t].obs = @ \cup {[key |-> OpKey(t), ver |-> v.writer]},
                ![t].reads = IF w[t].ronly THEN @
                             ELSE Append(@, [key |-> OpKey(t), later |-> w[t].at.later,
                                             ver |-> w[t].at.ver]),
                ![t].at = IF workload.promotion THEN @ ELSE Nowhere,
                ![t].pos = IF workload.promotion THEN @ ELSE @ + 1,
                ![t].pc = IF workload.promotion THEN "promote" ELSE "run"]
    /\ UNCHANGED << workload, tsc, lists, gc, minima, pub, committed >>

-----------------------------------------------------------------------------
(* twrite *)

\* What twrite finds: for a record that was read, the latest version.
Found(t, k) ==
    IF InSet(w[t].reads, k) THEN [later |-> None, ver |-> latest[k]]
    ELSE Walk(k, latest[k], w[t].wts)

\* Early abort check.
AbortsEarly(t, k) ==
    LET v == ver[k][Found(t, k).ver]
    IN v.wts > w[t].wts \/ (v.rts > w[t].wts /\ v.status = "committed")

\* newVersionGeneration: the inline version if it is free, else one collected or
\* allocated.
NewSlot(k) == CHOOSE s \in Slot : /\ ver[k][s].status = "unused"
                                  /\ \A r \in Slot : ver[k][r].status = "unused" => s <= r

Written(t) == << w[t].wts, w[t].txn, t >>

\* A new version, not yet in the list, and the element of the write set.
NewVersion(t, k) ==
    ver' = [ver EXCEPT ![k][NewSlot(k)] =
              [Unused EXCEPT !.wts = w[t].wts, !.status = "pending", !.writer = Written(t)]]

WriteElement(t, k) ==
    [key |-> k, later |-> Found(t, k).later, new |-> NewSlot(k), rmw |-> InSet(w[t].reads, k)]

twrite(t) ==
    /\ Executes(t, "WRITE") /\ ~Local(t) /\ ~AbortsEarly(t, OpKey(t))
    /\ NewVersion(t, OpKey(t))
    /\ w' = [w EXCEPT ![t].writes = Append(@, WriteElement(t, OpKey(t))), ![t].pos = @ + 1]
    /\ UNCHANGED << workload, tsc, latest, gc, minima, pub, committed >>

twriteAborts(t) ==
    /\ Executes(t, "WRITE") /\ ~Local(t) /\ AbortsEarly(t, OpKey(t))
    /\ w' = [w EXCEPT ![t].pc = "clean", ![t].i = 1]
    /\ UNCHANGED << workload, tsc, lists, gc, minima, pub, committed >>

\* inlineVersionPromotion: a version that everyone can read is written again, into
\* the record.
Promotes(t) ==
    /\ w[t].at.ver # Inline
    /\ MinRts > ver[OpKey(t)][w[t].at.ver].wts
    /\ ver[OpKey(t)][Inline].status = "unused"

promoteNot(t) ==
    /\ At(t, "promote") /\ ~Promotes(t)
    /\ w' = [w EXCEPT ![t].pos = @ + 1, ![t].at = Nowhere, ![t].pc = "run"]
    /\ UNCHANGED << workload, tsc, lists, gc, minima, pub, committed >>

\* The read-only transaction goes on, and tries again, as one that writes.
Promoted(t, label) ==
    [w[t] EXCEPT !.ronly = FALSE, !.promoted = @ \/ w[t].ronly, !.i = 1,
                 !.at = Nowhere, !.pc = label]

promote(t) ==
    /\ At(t, "promote") /\ Promotes(t) /\ ~AbortsEarly(t, OpKey(t))
    /\ NewVersion(t, OpKey(t))
    /\ w' = [w EXCEPT ![t] =
          [Promoted(t, "run") EXCEPT
              !.writes = Append(@, WriteElement(t, OpKey(t))),
              !.reads = IF w[t].ronly
                        THEN Append(@, [key |-> OpKey(t), later |-> w[t].at.later,
                                        ver |-> w[t].at.ver])
                        ELSE @,
              !.pos = @ + 1]]
    /\ UNCHANGED << workload, tsc, latest, gc, minima, pub, committed >>

promoteAborts(t) ==
    /\ At(t, "promote") /\ Promotes(t) /\ AbortsEarly(t, OpKey(t))
    /\ w' = [w EXCEPT ![t] = Promoted(t, "clean")]
    /\ UNCHANGED << workload, tsc, lists, gc, minima, pub, committed >>

-----------------------------------------------------------------------------
(* validation *)

SortedWrites(t) == SortSeq(w[t].writes, LAMBDA e, f : e.key < f.key)

\* From one loop of the validation to the next that has an element.
ToReads(t) == IF w[t].reads # << >> THEN "updateRts" ELSE "checkWrites"
ToWrites(t) == IF w[t].writes # << >> THEN "checkWrites" ELSE "decide"

\* One element of a loop over a set is done.
Turn(t, set, next) ==
    IF w[t].i < Len(set) THEN [w[t] EXCEPT !.i = @ + 1]
    ELSE [w[t] EXCEPT !.i = 1, !.pc = next]

\* The first committed version from x on; this walk does not wait.
RECURSIVE CommittedFrom(_, _)
CommittedFrom(k, x) ==
    IF ver[k][x].status = "committed" THEN x ELSE CommittedFrom(k, ver[k][x].next)

\* Pre-check version consistency of an element of the write set.
ConsistentSoFar(t, e) ==
    LET v == IF e.rmw THEN ver[e.key][latest[e.key]]
             ELSE ver[e.key][CommittedFrom(e.key, WalkFrom(e.key, e.later, w[t].wts).ver)]
    IN v.wts <= w[t].wts /\ v.rts <= w[t].wts

\* precheckInValidation: sort the write set and check the first half of it; no
\* element of a record with five commits in a row.
precheck(t) ==
    /\ At(t, "run") /\ w[t].pos > Len(w[t].pro) /\ ~w[t].ronly
    /\ LET half == {i \in DOMAIN w[t].writes : i <= Len(w[t].writes) \div 2}
       IN \E checked \in SUBSET half :
             w' = [w EXCEPT
                ![t].writes = SortedWrites(t),
                ![t].pc = IF \E i \in checked : ~ConsistentSoFar(t, SortedWrites(t)[i])
                          THEN "clean"
                          ELSE IF w[t].writes # << >> THEN "install" ELSE "updateRts",
                ![t].i = 1]
    /\ UNCHANGED << workload, tsc, lists, gc, minima, pub, committed >>

Element(t) == w[t].writes[w[t].i]

\* The place of a new version: at the head, or behind newer ones.
InstallAt(t) ==
    IF Element(t).rmw THEN [later |-> None, ver |-> latest[Element(t).key]]
    ELSE WalkFrom(Element(t).key, Element(t).later, w[t].wts)

\* A record that was read has a newer version.
installFails(t) ==
    /\ At(t, "install") /\ Element(t).rmw
    /\ ver[Element(t).key][latest[Element(t).key]].wts > w[t].wts
    /\ w' = [w EXCEPT ![t].pc = "clean", ![t].i = 1]
    /\ UNCHANGED << workload, tsc, lists, gc, minima, pub, committed >>

\* Mutation: a version of a record that was read goes to the head of the list
\* whatever it finds there.
installBlind(t) ==
    /\ At(t, "install")
    /\ LET k == Element(t).key
           place == InstallAt(t)
       IN IF place.later = None
          THEN /\ ver' = [ver EXCEPT ![k][Element(t).new].next = place.ver]
               /\ latest' = [latest EXCEPT ![k] = Element(t).new]
          ELSE /\ ver' = [ver EXCEPT ![k][Element(t).new].next = place.ver,
                                     ![k][place.later].next = Element(t).new]
               /\ UNCHANGED latest
    /\ w' = [w EXCEPT ![t] =
                [Turn(t, w[t].writes, ToReads(t)) EXCEPT !.installed = w[t].i]]
    /\ UNCHANGED << workload, tsc, gc, minima, pub, committed >>

\* Install a pending version.
install(t) ==
    /\ At(t, "install")
    /\ Element(t).rmw => ver[Element(t).key][latest[Element(t).key]].wts <= w[t].wts
    /\ LET k == Element(t).key
           place == InstallAt(t)
       IN IF place.later = None
          THEN /\ ver' = [ver EXCEPT ![k][Element(t).new].next = place.ver]
               /\ latest' = [latest EXCEPT ![k] = Element(t).new]
          ELSE /\ ver' = [ver EXCEPT ![k][Element(t).new].next = place.ver,
                                     ![k][place.later].next = Element(t).new]
               /\ UNCHANGED latest
    /\ w' = [w EXCEPT ![t] =
                [Turn(t, w[t].writes, ToReads(t)) EXCEPT !.installed = w[t].i]]
    /\ UNCHANGED << workload, tsc, gc, minima, pub, committed >>

\* Mutation: a read leaves no timestamp.
updateRtsNot(t) ==
    /\ At(t, "updateRts")
    /\ w' = [w EXCEPT ![t] = Turn(t, w[t].reads, "checkReads")]
    /\ UNCHANGED << workload, tsc, lists, gc, minima, pub, committed >>

\* readTimestampUpdateInValidation.
updateRts(t) ==
    /\ At(t, "updateRts")
    /\ LET e == w[t].reads[w[t].i]
       IN ver' = [ver EXCEPT ![e.key][e.ver].rts = IF @ > w[t].wts THEN @ ELSE w[t].wts]
    /\ w' = [w EXCEPT ![t] = Turn(t, w[t].reads, "checkReads")]
    /\ UNCHANGED << workload, tsc, latest, gc, minima, pub, committed >>

\* Version consistency check (a): walk past what is not older than the transaction.
checkReads(t) ==
    /\ At(t, "checkReads")
    /\ LET e == w[t].reads[w[t].i]
       IN w' = [w EXCEPT ![t].at = WalkFrom(e.key, e.later, w[t].wts - 1),
                         ![t].pc = "checkRead"]
    /\ UNCHANGED << workload, tsc, lists, gc, minima, pub, committed >>

\* The currently visible version is the one that was read, or the check fails.
checkRead(t) ==
    /\ At(t, "checkRead")
    /\ LET e == w[t].reads[w[t].i]
           turn == [Turn(t, w[t].reads, ToWrites(t)) EXCEPT !.at = Nowhere]
       IN /\ ver[e.key][w[t].at.ver].status = "committed"
          /\ w' = [w EXCEPT ![t] =
                IF w[t].at.ver # e.ver THEN [turn EXCEPT !.i = 1, !.pc = "clean"]
                ELSE IF turn.pc = "checkRead" THEN [turn EXCEPT !.pc = "checkReads"]
                ELSE turn]
    /\ UNCHANGED << workload, tsc, lists, gc, minima, pub, committed >>

\* Check (b): look at the version behind the new one.
checkWrites(t) ==
    /\ At(t, "checkWrites")
    /\ w' = [w EXCEPT ![t].at = [later |-> None, ver |-> ver[Element(t).key][Element(t).new].next],
                      ![t].pc = "checkWrite"]
    /\ UNCHANGED << workload, tsc, lists, gc, minima, pub, committed >>

\* It may not have been read by a later transaction.
checkWrite(t) ==
    /\ At(t, "checkWrite")
    /\ LET v == ver[Element(t).key][w[t].at.ver]
           turn == [Turn(t, w[t].writes, "decide") EXCEPT !.at = Nowhere]
       IN /\ v.status = "committed"
          /\ w' = [w EXCEPT ![t] =
                IF v.rts > w[t].wts THEN [turn EXCEPT !.i = 1, !.pc = "clean"]
                ELSE IF turn.pc = "checkWrite" THEN [turn EXCEPT !.pc = "checkWrites"]
                ELSE turn]
    /\ UNCHANGED << workload, tsc, lists, gc, minima, pub, committed >>

\* The record whose versions a read or a check of the worker goes along.
Walked(t) ==
    CASE At(t, "read") -> OpKey(t)
      [] At(t, "checkRead") -> w[t].reads[w[t].i].key
      [] At(t, "checkWrite") -> Element(t).key

Walking(t) == w[t].pc \in {"read", "checkRead", "checkWrite"}

\* Wait for the result of a pending version; pass it if it was aborted.
passAborted(t) ==
    /\ Walking(t) /\ ver[Walked(t)][w[t].at.ver].status = "aborted"
    /\ w' = [w EXCEPT ![t].at.ver = ver[Walked(t)][@].next]
    /\ UNCHANGED << workload, tsc, lists, gc, minima, pub, committed >>

-----------------------------------------------------------------------------
(* The end of a transaction, writePhase, abort *)

\* reads: what the protocol answers for, for a transaction that was read-only until
\* it was promoted has read at another timestamp without tracking it; seen: all.
Commit(t, ts) ==
    committed' = committed \cup
        {[id |-> << ts, w[t].txn, t >>, ronly |-> w[t].ronly,
          reads |-> IF w[t].promoted THEN {} ELSE w[t].obs, seen |-> w[t].obs,
          keys |-> {w[t].writes[i].key : i \in DOMAIN w[t].writes}]}

\* The local sets are cleared.
Cleared(t, label) ==
    [w[t] EXCEPT !.reads = << >>, !.writes = << >>, !.installed = 0, !.i = 1,
                 !.obs = {}, !.promoted = FALSE, !.pc = label]

\* A read-only transaction has committed; it does no maintenance.
commitReadOnly(t) ==
    /\ At(t, "run") /\ w[t].pos > Len(w[t].pro) /\ w[t].ronly
    /\ Commit(t, w[t].rts)
    /\ w' = [w EXCEPT ![t] = [Cleared(t, "next") EXCEPT !.txn = @ + 1, !.pro = << >>]]
    /\ UNCHANGED << workload, tsc, lists, gc, minima, pub >>

\* writePhase: all is committed.
Ended(t) ==
    [Cleared(t, "mainte") EXCEPT !.boost = 0, !.txn = @ + 1, !.pro = << >>]

\* The validation has succeeded.
decide(t) ==
    /\ At(t, "decide")
    /\ Commit(t, w[t].wts)
    /\ w' = [w EXCEPT ![t] = IF @.writes = << >> THEN Ended(t) ELSE [@ EXCEPT !.pc = "cpv"]]
    /\ UNCHANGED << workload, tsc, lists, gc, minima, pub >>

\* cpv: commit a pending version and queue it.
cpv(t) ==
    /\ At(t, "cpv")
    /\ ver' = [ver EXCEPT ![Element(t).key][Element(t).new].status = "committed"]
    /\ w' = [w EXCEPT ![t] =
          [(IF @.i < Len(@.writes) THEN [@ EXCEPT !.i = @ + 1] ELSE Ended(t)) EXCEPT
              !.gcq = Append(@, [key |-> Element(t).key, ver |-> Element(t).new,
                                 wts |-> w[t].wts])]]
    /\ UNCHANGED << workload, tsc, latest, gc, minima, pub, committed >>

\* writeSetClean: a version in a list is marked, another is put by.
writeSetClean(t) ==
    /\ At(t, "clean") /\ w[t].i <= Len(w[t].writes)
    /\ ver' = [ver EXCEPT ![Element(t).key][Element(t).new] =
                  IF w[t].i <= w[t].installed THEN [@ EXCEPT !.status = "aborted"] ELSE Unused]
    /\ w' = [w EXCEPT ![t].i = @ + 1]
    /\ UNCHANGED << workload, tsc, latest, gc, minima, pub, committed >>

\* earlyAbort, abort: the next timestamp is boosted.
abort(t) ==
    /\ At(t, "clean") /\ w[t].i > Len(w[t].writes)
    /\ w' = [w EXCEPT ![t] = [Cleared(t, "mainte") EXCEPT !.boost = BOOST, !.at = Nowhere]]
    /\ UNCHANGED << workload, tsc, lists, gc, minima, pub, committed >>

-----------------------------------------------------------------------------
(* mainte *)

\* Mutation: what no transaction writes at any more is compared with.
CollectsEarly(t) ==
    /\ At(t, "mainte") /\ pub[t].exec
    /\ w[t].gcq # << >> /\ Head(w[t].gcq).wts < MinWts

\* The oldest committed version of the worker: no transaction reads what is older.
Collects(t) ==
    /\ At(t, "mainte") /\ pub[t].exec
    /\ w[t].gcq # << >> /\ Head(w[t].gcq).wts < MinRts

\* Another worker has the lock of the record, or has collected behind a later version.
gcPass(t) ==
    /\ Collects(t)
    /\ LET e == Head(w[t].gcq) IN gc_lock[e.key] # None \/ e.wts <= min_wts[e.key]
    /\ w' = [w EXCEPT ![t].gcq = Tail(@)]
    /\ UNCHANGED << workload, tsc, lists, gc, minima, pub, committed >>

\* Detach what is behind the version.
gcDetach(t) ==
    /\ Collects(t)
    /\ LET e == Head(w[t].gcq)
       IN /\ gc_lock[e.key] = None /\ e.wts > min_wts[e.key]
          /\ gc_lock' = [gc_lock EXCEPT ![e.key] = t]
          /\ min_wts' = [min_wts EXCEPT ![e.key] = ver[e.key][e.ver].wts]
          /\ ver' = [ver EXCEPT ![e.key][e.ver].next = None]
          /\ w' = [w EXCEPT ![t].garbage = ver[e.key][e.ver].next, ![t].pc = "free"]
    /\ UNCHANGED << workload, tsc, latest, minima, pub, committed >>

\* gcAfterThisVersion: put a version by.
gcAfterThisVersion(t) ==
    /\ At(t, "free") /\ w[t].garbage # None
    /\ LET k == Head(w[t].gcq).key
       IN /\ ver' = [ver EXCEPT ![k][w[t].garbage] = Unused]
          /\ w' = [w EXCEPT ![t].garbage = ver[k][@].next]
    /\ UNCHANGED << workload, tsc, latest, gc, minima, pub, committed >>

returnGCRight(t) ==
    /\ At(t, "free") /\ w[t].garbage = None
    /\ gc_lock' = [gc_lock EXCEPT ![Head(w[t].gcq).key] = None]
    /\ w' = [w EXCEPT ![t].gcq = Tail(@), ![t].pc = "mainte"]
    /\ UNCHANGED << workload, tsc, lists, min_wts, minima, pub, committed >>

\* From time to time the worker asks for new minima.
mainte(t) ==
    /\ At(t, "mainte") /\ ~Collects(t)
    /\ \E ask \in Elapsed : pub' = [pub EXCEPT ![t].exec = FALSE, ![t].gc = @ \/ ask]
    /\ w' = [w EXCEPT ![t].pc = IF w[t].pro = << >> THEN "next" ELSE Retry(t)]
    /\ UNCHANGED << workload, tsc, lists, gc, minima, committed >>

-----------------------------------------------------------------------------
worker(t) ==
    \/ NextProcedure(t) \/ leaderWork(t) \/ leadWts(t) \/ leadRts(t)
    \/ storeMinWts(t) \/ storeMinRts(t) \/ tbegin(t) \/ loadMinWts(t) \/ storeRts(t)
    \/ readLocal(t) \/ treadScan(t) \/ tread(t) \/ twrite(t) \/ twriteAborts(t)
    \/ promoteNot(t) \/ promote(t) \/ promoteAborts(t)
    \/ precheck(t) \/ installFails(t) \/ install(t) \/ updateRts(t)
    \/ checkReads(t) \/ checkRead(t) \/ checkWrites(t) \/ checkWrite(t) \/ passAborted(t)
    \/ commitReadOnly(t) \/ decide(t) \/ cpv(t)
    \/ writeSetClean(t) \/ abort(t)
    \/ gcPass(t) \/ gcDetach(t) \/ gcAfterThisVersion(t) \/ returnGCRight(t) \/ mainte(t)

\* quit is set: no worker begins a transaction any more.
Quit ==
    /\ \A t \in Thread : \/ (At(t, "next") /\ w[t].txn = Len(workload.procedures[t]))
                          \/ (At(t, "begin") /\ w[t].try = workload.tries[t])
    /\ UNCHANGED vars

Next == (\E t \in Thread : worker(t)) \/ Quit

Spec == Init /\ [][Next]_vars

-----------------------------------------------------------------------------
(* Properties *)

\* A version and what it leads to.
RECURSIVE From(_, _)
From(k, x) == IF x = None THEN << >> ELSE << x >> \o From(k, ver[k][x].next)

List(k) == From(k, latest[k])

\* A record's list goes from newer to older versions whoever inserts where, and
\* holds what its transactions have installed and decided, and nothing that is put
\* by; the oldest version of it is committed, so that each walk ends.
ListsInOrder ==
    \A k \in Key : LET list == List(k) IN
        /\ \A i \in 1 .. Len(list) - 1 : ver[k][list[i]].wts >= ver[k][list[i + 1]].wts
        /\ \A i \in DOMAIN list : ver[k][list[i]].status # "unused"
        /\ ver[k][Last(list)].status = "committed"
        /\ \A t \in Thread : \A i \in 1 .. w[t].installed :
              w[t].writes[i].key = k => w[t].writes[i].new \in ToSet(list)

\* A transaction that may read and has not ended.
Reading(t) ==
    w[t].pc \in {"run", "read", "promote", "install", "updateRts", "checkReads",
                 "checkRead", "checkWrites", "checkWrite"}

\* No version is put by, or used again, while a transaction is at it or has read it,
\* and there is a version for every transaction to read at either timestamp.
NothingCollectedInUse ==
    \A t \in Thread : Reading(t) =>
        /\ Walking(t) => ver[Walked(t)][w[t].at.ver].status # "unused"
        /\ \A i \in DOMAIN w[t].reads :
              LET e == w[t].reads[i]
              IN /\ [key |-> e.key, ver |-> ver[e.key][e.ver].writer] \in w[t].obs
                 /\ e.later # None => ver[e.key][e.later].wts > w[t].rts
        /\ \A i \in DOMAIN w[t].writes :
              LET e == w[t].writes[i]
              IN /\ ver[e.key][e.new].writer = Written(t)
                 /\ e.later # None => ver[e.key][e.later].wts > w[t].wts
        /\ \A k \in Key : \E s \in ToSet(List(k)) :
              ver[k][s].status = "committed" /\ ver[k][s].wts <= w[t].rts

\* The order of the timestamps; a read-only transaction comes after those that
\* write at its timestamp, and transactions of a worker in their own order.
Earlier(a, b) ==
    \/ a.id[1] < b.id[1]
    \/ (a.id[1] = b.id[1] /\ ~a.ronly /\ b.ronly)
    \/ (a.id[1] = b.id[1] /\ (a.ronly <=> b.ronly) /\ a.id[2] < b.id[2])

\* Who has written a record, in the order of their timestamps.
Versions ==
    [k \in Key |->
        LET writers == {c \in committed : k \in c.keys}
            Rank(c) == Cardinality({d \in writers : Earlier(d, c)})
        IN [i \in 1 .. Cardinality(writers) |->
              (CHOOSE c \in writers : Rank(c) = i - 1).id]]

\* The transactions that commit have read and written as in a serial execution in
\* the order of their timestamps.
TimestampOrder ==
    LET order == Versions
    IN \A a, b \in committed : MustPrecede(order, a, b) => Earlier(a, b)

\* All that a transaction has read counts, also what a read-only transaction had
\* read when it was promoted.
SerializableCommits ==
    Serializable({[id |-> c.id, reads |-> c.seen] : c \in committed}, Versions)

\* t waits for u to decide.
WaitsFor(t, u) ==
    /\ Walking(t)
    /\ ver[Walked(t)][w[t].at.ver].status = "pending"
    /\ \E i \in DOMAIN w[u].writes :
          w[u].writes[i].key = Walked(t) /\ w[u].writes[i].new = w[t].at.ver

\* Readers and validations wait for pending versions, with pending versions of
\* their own in the lists, and never in a circle.
NoWaitingInCircles ==
    \A S \in SUBSET Thread \ {{}} : \E t \in S : \A u \in S : ~WaitsFor(t, u)
=============================================================================
