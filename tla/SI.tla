--------------------------------- MODULE SI ---------------------------------
(***************************************************************************)
(* Snapshot isolation, si/.  A record is a list of versions, newest first. *)
(* tbegin chooses a transaction's snapshot txid_: with CCTR_ON, one more   *)
(* than the largest commit timestamp that any worker has published in the  *)
(* transaction mapping table TMT; with CCTR_TW, the next number of CCtr.   *)
(* tread takes the newest committed version not above txid_.  twrite puts  *)
(* a version in flight at the head of the list, which is at once the lock  *)
(* of the record, and commit stamps the versions with the next number of   *)
(* CCtr, one by one.                                                       *)
(*                                                                         *)
(* Worker 0 leads: before each attempt it looks at the snapshots in TMT    *)
(* and moves the threshold below which versions may be reclaimed.  After a *)
(* commit a worker may reclaim what lies behind the versions it has queued *)
(* and use it for its next writes.                                         *)
(*                                                                         *)
(* A step is one access to shared memory, and with it what the worker does *)
(* with versions that are committed: these no one changes until they are   *)
(* reclaimed.  tread is a load of the head and a step that looks at its    *)
(* status and walks; twrite a load of the head and a step that decides and *)
(* swaps.  A section under g_clock_ is one step.                           *)
(***************************************************************************)
EXTENDS Naturals, FiniteSets, SequencesExt, FiniteSetsExt

CONSTANTS
    Thread,         \* thread numbers; 0 is the leader
    Key,
    Procedure,      \* what makeProcedure may return in each build to each worker,
                    \* call by call: sets of operation sequences; their number is
                    \* a bound
    Builds,         \* the counter compiled in, "CCTR_ON" or "CCTR_TW", or "ERMIA",
                    \* which begins as CCTR_ON does
    RESERVE,        \* FLAGS_pre_reserve_version; bounds the versions of a worker, who
                    \* has to stop where the code would allocate one more
    MaxTry          \* bound: attempts of each worker in each build

\* A READ_MODIFY_WRITE is a READ followed by a WRITE.
Operation == [ope : {"READ", "WRITE"}, key : Key]

ASSUME SIAssumption ==
    /\ IsFiniteSet(Thread) /\ Thread = 0 .. Cardinality(Thread) - 1 /\ Thread # {}
    /\ IsFiniteSet(Key) /\ Key \subseteq Nat
    /\ Builds \subseteq {"CCTR_ON", "CCTR_TW", "ERMIA"}
    /\ RESERVE \in Nat /\ MaxTry \in [Builds -> [Thread -> Nat]]
    /\ \A b \in Builds, t \in Thread : Procedure[b][t] \in Seq(SUBSET Seq(Operation))

VARIABLES
    quit,
    build,          \* never changes
    CCtr,           \* the shared counter
    TMT,            \* txid and lastcstamp of each worker
    GC_threshold,
    gcob,           \* the leader's: fmin, fmax, smin, smax, and where it scans
    latest,         \* the head of each record's list
    version,        \* the versions, by address
    min_cstamp,     \* of each record: versions below are reclaimed
    w,              \* what each worker keeps: pc, its sets and queues
    ended           \* history: the stamp of the last commit to each record that
                    \* has ended

vars == << quit, build, CCtr, TMT, GC_threshold, gcob, latest, version, min_cstamp,
           w, ended >>

-----------------------------------------------------------------------------
(* Versions *)

NULL == << >>
Loaded(k) == << k, 0 >>
Reserved(t) == {<< t, i >> : i \in 1 .. RESERVE}
Version == {Loaded(k) : k \in Key} \cup UNION {Reserved(t) : t \in Thread}

\* v and what its prev_ leads to, in order.
From(v) ==
    LET f[n \in Nat] ==
            IF n = 0 THEN << >>
            ELSE LET s    == f[n - 1]
                     next == IF s = << >> THEN v ELSE version[Last(s)].prev
                 IN IF next = NULL THEN s ELSE Append(s, next)
    IN f[Cardinality(Version)]

NewestCommitted(v) ==
    IF version[v].status = "committed" THEN v ELSE version[v].committed_prev

\* The newest committed version, from v on, of a snapshot.
Visible(v, txid) ==
    LET f[n \in Nat] ==
            IF n = 0 THEN v
            ELSE LET u == f[n - 1]
                 IN IF u = NULL \/ version[u].cstamp <= txid THEN u
                    ELSE version[u].committed_prev
    IN f[Cardinality(Version)]

Init ==
    /\ quit = FALSE
    /\ build \in Builds
    /\ CCtr = 0
    /\ TMT = [t \in Thread |-> [txid |-> 0, lastcstamp |-> 0]]
    /\ GC_threshold = 0
    /\ gcob = [fmin |-> 0, fmax |-> 0, smin |-> 0, smax |-> 0, i |-> 1]
    /\ latest = [k \in Key |-> Loaded(k)]
    /\ version = [v \in Version |->
                     [prev |-> NULL, committed_prev |-> NULL, cstamp |-> 0,
                      status |-> IF v[2] = 0 THEN "committed" ELSE "inFlight"]]
    /\ min_cstamp = [k \in Key |-> 0]
    /\ w = [t \in Thread |->
              [pc |-> "next", pro_set |-> << >>, pos |-> 1, txid |-> 0, cstamp |-> 0,
               i |-> 0, ver |-> NULL, read_set |-> << >>, write_set |-> << >>,
               gcq |-> << >>, reuse |-> SetToSeq(Reserved(t)), pre_gc_threshold |-> 0,
               threshold |-> 0, began |-> [k \in Key |-> 0], txn |-> 0, try |-> 0]]
    /\ ended = [k \in Key |-> 0]

counters == << quit, build, CCtr >>
lists    == << latest, version >>

At(t, label) == w[t].pc = label

-----------------------------------------------------------------------------
(* worker, and the leader's work *)

\* main: the run time is over.
Quit ==
    /\ ~quit
    /\ quit' = TRUE
    /\ UNCHANGED << build, CCtr, TMT, GC_threshold, gcob, lists, min_cstamp, w, ended >>

\* RETRY: the leader works, then every worker looks at quit.
Retry(t) == IF t = 0 THEN "lead" ELSE "begin"

NextProcedure(t) ==
    /\ At(t, "next") /\ ~quit
    /\ w[t].txn < Len(Procedure[build][t])
    /\ \E p \in Procedure[build][t][w[t].txn + 1] :
          w' = [w EXCEPT ![t].pro_set = p, ![t].pc = Retry(t)]
    /\ UNCHANGED << counters, TMT, GC_threshold, gcob, lists, min_cstamp, ended >>

leave(t) ==
    /\ w[t].pc \in {"next", "begin"} /\ quit
    /\ w' = [w EXCEPT ![t].pc = "done"]
    /\ UNCHANGED << counters, TMT, GC_threshold, gcob, lists, min_cstamp, ended >>

\* chkSecondRange: the next worker's snapshot.  The leader's own starts the range.
chkSecondRange(t) ==
    /\ At(t, "lead") /\ gcob.i \in Thread
    /\ LET own == IF gcob.i = 1 THEN {TMT[t].txid} ELSE {gcob.smin, gcob.smax}
       IN gcob' = [gcob EXCEPT !.smin = Min(own \cup {TMT[gcob.i].txid}),
                               !.smax = Max(own \cup {TMT[gcob.i].txid}),
                               !.i = @ + 1]
    /\ UNCHANGED << counters, TMT, GC_threshold, lists, min_cstamp, w, ended >>

\* leaderWork: when every snapshot is above those of the range before, the
\* smallest of that range becomes the threshold.
decideGcThreshold(t) ==
    /\ At(t, "lead") /\ gcob.i \notin Thread
    /\ IF gcob.fmax < gcob.smin
       THEN /\ GC_threshold' = gcob.fmin
            /\ gcob' = [gcob EXCEPT !.fmin = gcob.smin, !.fmax = gcob.smax, !.smin = 0, !.smax = 0, !.i = 1]
       ELSE gcob' = [gcob EXCEPT !.smin = 0, !.smax = 0, !.i = 1] /\ UNCHANGED GC_threshold
    /\ w' = [w EXCEPT ![t].pc = "begin"]
    /\ UNCHANGED << counters, TMT, lists, min_cstamp, ended >>

-----------------------------------------------------------------------------
(* tbegin *)

\* With CCTR_ON the search for the latest commit starts from the worker's own;
\* with CCTR_TW the snapshot is the next number.
tbegin(t) ==
    /\ At(t, "begin") /\ ~quit
    /\ w[t].try < MaxTry[build][t]
    /\ \/ /\ build # "CCTR_TW"
          /\ w' = [w EXCEPT ![t].txid = TMT[t].lastcstamp, ![t].i = 0, ![t].pc = "scan",
                            ![t].began = ended, ![t].try = @ + 1]
          /\ UNCHANGED CCtr
       \/ /\ build = "CCTR_TW"
          /\ CCtr' = CCtr + 1
          /\ w' = [w EXCEPT ![t].txid = CCtr + 1, ![t].pc = "publish",
                            ![t].began = ended, ![t].try = @ + 1]
    /\ UNCHANGED << quit, build, TMT, GC_threshold, gcob, lists, min_cstamp, ended >>

\* The workers the search has yet to look at, and the first of them; its own
\* timestamp a worker knows.
Unseen(t) == {u \in Thread \ {t} : u >= w[t].i}
NextSeen(t) == {u \in Unseen(t) : \A v \in Unseen(t) : u <= v}

\* Mutation: the timestamp looked at last is the snapshot's, not the largest.
scanLast(t) ==
    /\ At(t, "scan")
    /\ \E u \in NextSeen(t) :
          LET seen == TMT[u].lastcstamp
          IN IF Unseen(t) = {u}
             THEN w' = [w EXCEPT ![t].txid = seen + 1, ![t].i = 0, ![t].pc = "publish"]
             ELSE w' = [w EXCEPT ![t].txid = seen, ![t].i = u + 1]
    /\ UNCHANGED << counters, TMT, GC_threshold, gcob, lists, min_cstamp, ended >>

\* CCTR_ON: the commit timestamp the next worker, if there is one, has published.
scan(t) ==
    /\ At(t, "scan")
    /\ LET seen == Max({w[t].txid} \cup {TMT[u].lastcstamp : u \in NextSeen(t)})
       IN \/ /\ Unseen(t) = NextSeen(t)
             /\ w' = [w EXCEPT ![t].txid = seen + 1, ![t].i = 0, ![t].pc = "publish"]
          \/ /\ Unseen(t) # NextSeen(t)
             /\ \E u \in NextSeen(t) : w' = [w EXCEPT ![t].txid = seen, ![t].i = u + 1]
    /\ UNCHANGED << counters, TMT, GC_threshold, gcob, lists, min_cstamp, ended >>

\* The snapshot is entered in TMT, with CCTR_ON in a new element that takes over
\* the worker's last commit timestamp.
publish(t) ==
    /\ At(t, "publish")
    /\ TMT' = [TMT EXCEPT ![t].txid = w[t].txid]
    /\ w' = [w EXCEPT ![t].pos = 1, ![t].pc = "run"]
    /\ UNCHANGED << counters, GC_threshold, gcob, lists, min_cstamp, ended >>

-----------------------------------------------------------------------------
(* tread and twrite *)

InSet(set, k) == \E i \in DOMAIN set : set[i].key = k

Executes(t, ope) ==
    At(t, "run") /\ w[t].pos <= Len(w[t].pro_set) /\ w[t].pro_set[w[t].pos].ope = ope
OpKey(t) == w[t].pro_set[w[t].pos].key

\* A record already read, for a READ, or already written.
readLocal(t) ==
    /\ At(t, "run") /\ w[t].pos <= Len(w[t].pro_set)
    /\ \/ InSet(w[t].write_set, OpKey(t))
       \/ Executes(t, "READ") /\ InSet(w[t].read_set, OpKey(t))
    /\ w' = [w EXCEPT ![t].pos = @ + 1]
    /\ UNCHANGED << counters, TMT, GC_threshold, gcob, lists, min_cstamp, ended >>

\* tread or twrite of any other: load the head.
loadLatest(t) ==
    /\ At(t, "run") /\ w[t].pos <= Len(w[t].pro_set)
    /\ ~InSet(w[t].write_set, OpKey(t))
    /\ Executes(t, "READ") => ~InSet(w[t].read_set, OpKey(t))
    /\ w' = [w EXCEPT ![t].ver = latest[OpKey(t)],
                      ![t].pc = IF Executes(t, "READ") THEN "read" ELSE "write"]
    /\ UNCHANGED << counters, TMT, GC_threshold, gcob, lists, min_cstamp, ended >>

\* tread: walk to the version of the snapshot.
tread(t) ==
    /\ At(t, "read")
    /\ LET v == Visible(NewestCommitted(w[t].ver), w[t].txid)
       IN w' = [w EXCEPT ![t].read_set = Append(@, [key |-> OpKey(t), ver |-> v]),
                         ![t].pos = @ + 1, ![t].ver = NULL, ![t].pc = "run"]
    /\ UNCHANGED << counters, TMT, GC_threshold, gcob, lists, min_cstamp, ended >>

\* Mutation: a transaction waits also for one with the same snapshot.
MayNotWaitLess(t) == w[t].txid < version[w[t].ver].cstamp

\* twrite: the head is in flight, and no older transaction's.
MayNotWait(t) == w[t].txid <= version[w[t].ver].cstamp

\* twrite: the newest committed version is not in the snapshot.
Updated(t) == w[t].txid < version[NewestCommitted(w[t].ver)].cstamp

HeadInFlight(t) == version[w[t].ver].status = "inFlight"

\* First updater wins: the transaction aborts.
twriteAborts(t) ==
    /\ At(t, "write")
    /\ IF HeadInFlight(t) THEN MayNotWait(t) ELSE Updated(t)
    /\ w' = [w EXCEPT ![t].ver = NULL, ![t].pc = "abort", ![t].pos = 1]
    /\ UNCHANGED << counters, TMT, GC_threshold, gcob, lists, min_cstamp, ended >>

\* The head is in flight, of an older transaction: look again.
twriteWaits(t) ==
    /\ At(t, "write") /\ HeadInFlight(t) /\ ~MayNotWait(t)
    /\ w' = [w EXCEPT ![t].ver = latest[OpKey(t)]]
    /\ UNCHANGED << counters, TMT, GC_threshold, gcob, lists, min_cstamp, ended >>

\* The swap fails: the head is another one now.
twriteMoved(t) ==
    /\ At(t, "write") /\ ~HeadInFlight(t) /\ ~Updated(t)
    /\ latest[OpKey(t)] # w[t].ver
    /\ w' = [w EXCEPT ![t].ver = latest[OpKey(t)]]
    /\ UNCHANGED << counters, TMT, GC_threshold, gcob, lists, min_cstamp, ended >>

\* Mutation: the head is replaced whoever put it there.
twriteBlind(t) ==
    /\ At(t, "write") /\ ~HeadInFlight(t) /\ ~Updated(t)
    /\ w[t].reuse # << >>
    /\ LET desired == Last(w[t].reuse)
       IN /\ latest' = [latest EXCEPT ![OpKey(t)] = desired]
          /\ version' = [version EXCEPT ![desired] =
                [prev |-> w[t].ver, committed_prev |-> NewestCommitted(w[t].ver),
                 cstamp |-> w[t].txid, status |-> "inFlight"]]
          /\ w' = [w EXCEPT
                ![t].write_set = Append(@, [key |-> OpKey(t), ver |-> desired]),
                ![t].reuse = Front(@), ![t].pos = @ + 1, ![t].ver = NULL, ![t].pc = "run"]
    /\ UNCHANGED << counters, TMT, GC_threshold, gcob, min_cstamp, ended >>

\* The swap succeeds: the new version, the last that was put by, is the head.
twrite(t) ==
    /\ At(t, "write") /\ ~HeadInFlight(t) /\ ~Updated(t)
    /\ latest[OpKey(t)] = w[t].ver /\ w[t].reuse # << >>
    /\ LET desired == Last(w[t].reuse)
       IN /\ latest' = [latest EXCEPT ![OpKey(t)] = desired]
          /\ version' = [version EXCEPT ![desired] =
                [prev |-> w[t].ver, committed_prev |-> NewestCommitted(w[t].ver),
                 cstamp |-> w[t].txid, status |-> "inFlight"]]
          /\ w' = [w EXCEPT
                ![t].write_set = Append(@, [key |-> OpKey(t), ver |-> desired]),
                ![t].reuse = Front(@), ![t].pos = @ + 1, ![t].ver = NULL, ![t].pc = "run"]
    /\ UNCHANGED << counters, TMT, GC_threshold, gcob, min_cstamp, ended >>

-----------------------------------------------------------------------------
(* commit and abort *)

\* The element of the write set that commit or abort is at.
Written(t) == w[t].write_set[w[t].pos]
InWriteSet(t) == w[t].pos <= Len(w[t].write_set)

GCElement(t, cstamp) == [key |-> Written(t).key, ver |-> Written(t).ver, cstamp |-> cstamp]

takeStamp(t) ==
    /\ At(t, "run") /\ w[t].pos > Len(w[t].pro_set)
    /\ CCtr' = CCtr + 1
    /\ w' = [w EXCEPT ![t].cstamp = CCtr + 1, ![t].pos = 1, ![t].pc = "stamp"]
    /\ UNCHANGED << quit, build, TMT, GC_threshold, gcob, lists, min_cstamp, ended >>

\* commit: a version gets the commit timestamp,
stamp(t) ==
    /\ At(t, "stamp") /\ InWriteSet(t)
    /\ version' = [version EXCEPT ![Written(t).ver].cstamp = w[t].cstamp]
    /\ w' = [w EXCEPT ![t].pc = "install"]
    /\ UNCHANGED << counters, TMT, GC_threshold, gcob, latest, min_cstamp, ended >>

\* its value, and its status; and is queued.
install(t) ==
    /\ At(t, "install")
    /\ version' = [version EXCEPT ![Written(t).ver].status = "committed"]
    /\ w' = [w EXCEPT ![t].gcq = Append(@, GCElement(t, w[t].cstamp)),
                      ![t].pos = @ + 1, ![t].pc = "stamp"]
    /\ UNCHANGED << counters, TMT, GC_threshold, gcob, latest, min_cstamp, ended >>

\* The commit timestamp is published.
commit(t) ==
    /\ At(t, "stamp") /\ ~InWriteSet(t)
    /\ TMT' = [TMT EXCEPT ![t].lastcstamp = w[t].cstamp]
    /\ ended' = [k \in Key |-> IF InSet(w[t].write_set, k)
                               THEN Max({ended[k], w[t].cstamp}) ELSE ended[k]]
    /\ w' = [w EXCEPT ![t].read_set = << >>, ![t].write_set = << >>, ![t].pos = 1,
                      ![t].txid = 0, ![t].cstamp = 0, ![t].began = [k \in Key |-> 0],
                      ![t].txn = @ + 1, ![t].pc = "mainte"]
    /\ UNCHANGED << counters, GC_threshold, gcob, lists, min_cstamp >>

\* abort: a version is marked, and is queued.
discard(t) ==
    /\ At(t, "abort") /\ InWriteSet(t)
    /\ version' = [version EXCEPT ![Written(t).ver].status = "aborted"]
    /\ w' = [w EXCEPT ![t].gcq = Append(@, GCElement(t, w[t].txid)), ![t].pos = @ + 1]
    /\ UNCHANGED << counters, TMT, GC_threshold, gcob, latest, min_cstamp, ended >>

abort(t) ==
    /\ At(t, "abort") /\ ~InWriteSet(t)
    /\ w' = [w EXCEPT ![t].read_set = << >>, ![t].write_set = << >>, ![t].pos = 1,
                      ![t].txid = 0, ![t].cstamp = 0, ![t].began = [k \in Key |-> 0],
                      ![t].pc = Retry(t)]
    /\ UNCHANGED << counters, TMT, GC_threshold, gcob, lists, min_cstamp, ended >>

-----------------------------------------------------------------------------
(* Garbage collection *)

\* mainte: too early, or nothing new to reclaim.
mainteSkips(t) ==
    /\ At(t, "mainte")
    /\ w' = [w EXCEPT ![t].pc = "next"]
    /\ UNCHANGED << counters, TMT, GC_threshold, gcob, lists, min_cstamp, ended >>

mainte(t) ==
    /\ At(t, "mainte") /\ w[t].pre_gc_threshold # GC_threshold
    /\ w' = [w EXCEPT ![t].pre_gc_threshold = GC_threshold, ![t].pc = "gcVersion"]
    /\ UNCHANGED << counters, TMT, GC_threshold, gcob, lists, min_cstamp, ended >>

\* gcVersion loads the threshold again.
loadThreshold(t) ==
    /\ At(t, "gcVersion")
    /\ w' = [w EXCEPT ![t].threshold = GC_threshold, ![t].pc = "gc"]
    /\ UNCHANGED << counters, TMT, GC_threshold, gcob, lists, min_cstamp, ended >>

gcEnds(t) ==
    /\ At(t, "gc")
    /\ w[t].gcq # << >> => Head(w[t].gcq).cstamp >= w[t].threshold
    /\ w' = [w EXCEPT ![t].threshold = 0, ![t].pc = "next"]
    /\ UNCHANGED << counters, TMT, GC_threshold, gcob, lists, min_cstamp, ended >>

\* g_clock_ is taken by another worker: the element is dropped.
gcBusy(t) ==
    /\ At(t, "gc") /\ w[t].gcq # << >> /\ Head(w[t].gcq).cstamp < w[t].threshold
    /\ \E u \in Thread \ {t} : At(u, "gc")
    /\ w' = [w EXCEPT ![t].gcq = Tail(@)]
    /\ UNCHANGED << counters, TMT, GC_threshold, gcob, lists, min_cstamp, ended >>

\* The queued version is behind what has been reclaimed: it may be in use again.
Dangling(t) == Head(w[t].gcq).cstamp <= min_cstamp[Head(w[t].gcq).key]

\* Mutation: what is behind the newest committed version.
ReclaimableNewest(t) ==
    LET before == NewestCommitted(latest[Head(w[t].gcq).key])
    IN IF before = NULL THEN << >> ELSE From(version[before].prev)

\* What may be reclaimed: what is behind the committed version that the queued
\* one has overwritten.
Reclaimable(t) ==
    LET before == version[Head(w[t].gcq).ver].committed_prev
    IN IF before = NULL THEN << >> ELSE From(version[before].prev)

\* gcVersion, one element: detach the rest of the list and put it by.
gcVersion(t) ==
    /\ At(t, "gc") /\ w[t].gcq # << >> /\ Head(w[t].gcq).cstamp < w[t].threshold
    /\ IF Dangling(t) \/ Reclaimable(t) = << >>
       THEN /\ w' = [w EXCEPT ![t].gcq = Tail(@)]
            /\ UNCHANGED << version, min_cstamp >>
       ELSE LET before == version[Head(w[t].gcq).ver].committed_prev
            IN /\ version' = [version EXCEPT ![before].prev = NULL]
               /\ min_cstamp' = [min_cstamp EXCEPT ![Head(w[t].gcq).key] =
                                    version[before].cstamp]
               /\ w' = [w EXCEPT ![t].gcq = Tail(@), ![t].reuse = @ \o Reclaimable(t)]
    /\ UNCHANGED << counters, TMT, GC_threshold, gcob, latest, ended >>

-----------------------------------------------------------------------------
worker(t) ==
    \/ NextProcedure(t) \/ leave(t) \/ chkSecondRange(t) \/ decideGcThreshold(t)
    \/ tbegin(t) \/ scan(t) \/ publish(t)
    \/ readLocal(t) \/ loadLatest(t) \/ tread(t)
    \/ twriteAborts(t) \/ twriteWaits(t) \/ twriteMoved(t) \/ twrite(t)
    \/ takeStamp(t) \/ stamp(t) \/ install(t) \/ commit(t) \/ discard(t) \/ abort(t)
    \/ mainteSkips(t) \/ mainte(t) \/ loadThreshold(t) \/ gcEnds(t) \/ gcBusy(t) \/ gcVersion(t)

\* main joins the workers: nothing is left to do.
Joined ==
    /\ \A t \in Thread : At(t, "done")
    /\ UNCHANGED vars

Next == Quit \/ (\E t \in Thread : worker(t)) \/ Joined

Spec == Init /\ [][Next]_vars

\* Every thread is scheduled, and main sets quit when the run time is over.
FairSpec == Spec /\ WF_vars(Quit) /\ \A t \in Thread : WF_vars(worker(t))

-----------------------------------------------------------------------------
(* Properties *)

TypeOK ==
    /\ quit \in BOOLEAN /\ build \in Builds
    /\ CCtr \in Nat /\ GC_threshold \in Nat
    /\ TMT \in [Thread -> [txid : Nat, lastcstamp : Nat]]
    /\ latest \in [Key -> Version]
    /\ version \in [Version ->
          [prev : Version \cup {NULL}, committed_prev : Version \cup {NULL},
           cstamp : Nat, status : {"inFlight", "committed", "aborted"}]]
    /\ min_cstamp \in [Key -> Nat] /\ ended \in [Key -> Nat]

\* Workers that are between tbegin and the end of commit or abort.
Running(t) == w[t].pc \in {"run", "read", "write", "stamp", "install", "abort"}

\* A list is a lock and a history at once: until its transaction ends a version
\* in flight is the head, no list holds one further down, and behind each
\* committed version are older ones.
ListsInOrder ==
    /\ TypeOK
    /\ \A t \in Thread : w[t].pc \in {"run", "read", "write"} =>
          \A e \in ToSet(w[t].write_set) : latest[e.key] = e.ver
    /\ \A k \in Key :
          LET list == From(latest[k])
          IN \A i \in DOMAIN list :
                LET v == version[list[i]]
                IN /\ v.status = "inFlight" => i = 1
                   /\ v.status = "committed" /\ v.prev # NULL =>
                         version[v.committed_prev].cstamp < v.cstamp

\* A transaction sees at least what had been committed, to the end, when it
\* began: each version it reads or overwrites is that or a later one.
SeesWhatHadEnded ==
    \A t \in Thread : Running(t) =>
        /\ \A r \in ToSet(w[t].read_set) : version[r.ver].cstamp >= w[t].began[r.key]
        /\ \A e \in ToSet(w[t].write_set) :
              version[version[e.ver].committed_prev].cstamp >= w[t].began[e.key]

\* The versions put by for reuse are put by once and in no one's hands: no worker
\* is at one, no snapshot leads to one, no list or queue that will be followed
\* holds one.
NothingReclaimedInUse ==
    LET free == UNION {ToSet(w[t].reuse) : t \in Thread}
    IN /\ \A t \in Thread :
             /\ Cardinality(ToSet(w[t].reuse)) = Len(w[t].reuse)
             /\ \A u \in Thread \ {t} : ToSet(w[t].reuse) \cap ToSet(w[u].reuse) = {}
       /\ \A k \in Key : latest[k] \notin free
       /\ \A t \in Thread :
             /\ w[t].ver \notin free
             /\ \A e \in ToSet(w[t].write_set) : e.ver \notin free
             /\ \A e \in ToSet(w[t].gcq) : e.cstamp > min_cstamp[e.key] => e.ver \notin free
             /\ Running(t) => \A k \in Key :
                   Visible(NewestCommitted(latest[k]), w[t].txid) \notin free \cup {NULL}

\* t waits until u ends its transaction.
WaitsFor(t, u) ==
    /\ At(t, "write") /\ HeadInFlight(t) /\ ~MayNotWait(t)
    /\ \E e \in ToSet(w[u].write_set) : e.ver = w[t].ver

\* A transaction that has read a record and writes it overwrites what it read:
\* the lifetimes of two that write one record do not overlap.
FirstUpdaterWins ==
    \A t \in Thread : At(t, "stamp") =>
        \A e \in ToSet(w[t].write_set) : \A r \in ToSet(w[t].read_set) :
            e.key = r.key => version[e.ver].committed_prev = r.ver
=============================================================================
