------------------------------- MODULE ERMIA -------------------------------
(***************************************************************************)
(* ERMIA, ermia/: snapshot isolation as in SI, certified by the serial     *)
(* safety net.  A version keeps the largest commit stamp of its readers    *)
(* (pstamp) and the stamp of its successor (sstamp), or, while its         *)
(* successor's transaction runs, the number of that worker; and a bit for  *)
(* each worker that reads it.  A transaction that commits gathers the      *)
(* largest stamp that must precede it and the smallest that it must        *)
(* precede, waiting for those that are committing with a smaller stamp,    *)
(* and gives up when the first is not below the second.                    *)
(*                                                                         *)
(* The program is a copy of si/ with changes.  What it shares is SI's      *)
(* action: the worker loop, the leader, the choice of the snapshot, the    *)
(* walk and the loop of twrite.  The version that SI finds by              *)
(* committed_prev is here what a walk along prev finds.  The certification *)
(* and the elements of the transaction mapping table are this module's.    *)
(* Elements matter here: one that another worker waits at must not be      *)
(* reused.                                                                 *)
(***************************************************************************)
EXTENDS SI, History

CONSTANT UINT32_MAX     \* above twice any stamp of a run

ASSUME ERMIAAssumption == UINT32_MAX \in Nat /\ UINT32_MAX % 2 = 1

VARIABLES
    psstamp,        \* of each version: pstamp, sstamp, readers
    element,        \* the elements of the mapping table, by address
    ssn,            \* what each worker keeps for the certification
    hist            \* history: the committed transactions, the writers of each
                    \* record in order, each version's author, and what the
                    \* running transactions have read

ermia == << psstamp, element, ssn, hist >>

\* The lowest bit of an sstamp tells a worker's number from a stamp.
Mark(t) == 2 * t + 1
Stamp(n) == 2 * n
IsMark(s) == s % 2 = 1
NotOverwritten == UINT32_MAX - 1

Address == {<< t, i >> : t \in Thread,
                        i \in 0 .. Max({MaxTry[b][t] : b \in Builds, t \in Thread})}
Blank == [cstamp |-> 0, sstamp |-> UINT32_MAX, status |-> "inFlight"]
Unstamped == [pstamp |-> 0, sstamp |-> NotOverwritten, readers |-> {}]

\* current is TMT[thid_], made counts the elements a worker has allocated.
InitERMIA ==
    /\ Init
    /\ psstamp = [v \in Version |-> Unstamped]
    /\ element = [e \in Address |-> Blank]
    /\ ssn = [t \in Thread |->
                [pstamp |-> 0, sstamp |-> UINT32_MAX, peers |-> {}, tmt |-> NULL,
                 current |-> << t, 0 >>, made |-> 0, gcq |-> << >>, reuse |-> << >>]]
    /\ hist = [committed |-> {}, order |-> [k \in Key |-> << >>],
               author |-> [v \in Version |-> NULL], seen |-> [t \in Thread |-> {}]]

TxnId(t) == << t, w[t].txn + 1 >>
Self(t) == ssn[t].current

\* verify_exclusion_or_abort, and the test of ssn_parallel_commit.
Excluded(t) == ssn[t].pstamp >= ssn[t].sstamp

\* Between the halves of a READ_MODIFY_WRITE no one looks at the status.
HalfDone(t) ==
    /\ w[t].pos < Len(w[t].pro_set)
    /\ w[t].pro_set[w[t].pos] = [ope |-> "READ", key |-> OpKey(t)]
    /\ w[t].pro_set[w[t].pos + 1] = [ope |-> "WRITE", key |-> OpKey(t)]

\* The worker after an access: at the next one, or at abort.
AfterAccess(t, rec, excluded) ==
    IF excluded THEN [rec EXCEPT !.pc = "abort", !.pos = 1, !.ver = NULL]
    ELSE [rec EXCEPT !.pc = "run", !.pos = @ + 1, !.ver = NULL]

-----------------------------------------------------------------------------
(* tbegin *)

\* Mutation: the worker's old element is put by at once.
ssn_tbeginEager(t) ==
    /\ publish(t)
    /\ LET e == IF ssn[t].reuse = << >> THEN << t, ssn[t].made + 1 >> ELSE Last(ssn[t].reuse)
       IN /\ element' = [element EXCEPT ![e] = Blank]
          /\ ssn' = [ssn EXCEPT
                ![t].current = e, ![t].pstamp = 0, ![t].sstamp = UINT32_MAX,
                ![t].made = IF ssn[t].reuse = << >> THEN @ + 1 ELSE @,
                ![t].reuse = Append(IF @ = << >> THEN @ ELSE Front(@), Self(t))]
    /\ UNCHANGED << psstamp, hist >>

\* The new element, one put by or a new one, takes the place of the worker's own.
ssn_tbegin(t) ==
    /\ publish(t)
    /\ LET e == IF ssn[t].reuse = << >> THEN << t, ssn[t].made + 1 >> ELSE Last(ssn[t].reuse)
       IN /\ element' = [element EXCEPT ![e] = Blank]
          /\ ssn' = [ssn EXCEPT
                ![t].current = e, ![t].pstamp = 0, ![t].sstamp = UINT32_MAX,
                ![t].made = IF ssn[t].reuse = << >> THEN @ + 1 ELSE @,
                ![t].reuse = IF @ = << >> THEN @ ELSE Front(@),
                ![t].gcq = Append(@, [tmt |-> Self(t), txid |-> TMT[t].txid])]
    /\ UNCHANGED << psstamp, hist >>

-----------------------------------------------------------------------------
(* ssn_tread *)

\* The walk to the version of the snapshot.
walk(t) ==
    /\ At(t, "read")
    /\ w' = [w EXCEPT ![t].ver = Visible(NewestCommitted(w[t].ver), w[t].txid),
                      ![t].pc = "sstamp"]
    /\ UNCHANGED << counters, TMT, GC_threshold, gcob, lists, min_cstamp, ended, ermia >>

\* Only a version that no one has overwritten, or is about to, is remembered.
loadSstamp(t) ==
    /\ At(t, "sstamp")
    /\ IF psstamp[w[t].ver].sstamp = NotOverwritten
       THEN w' = [w EXCEPT ![t].pc = "readers",
                           ![t].read_set = Append(@, [key |-> OpKey(t), ver |-> w[t].ver])]
       ELSE w' = [w EXCEPT ![t].pc = "successor"]
    /\ UNCHANGED << counters, TMT, GC_threshold, gcob, lists, min_cstamp, ended, ermia >>

\* Of another the sstamp, loaded again, is a bound, be it a stamp or a mark.
loadSuccessor(t) ==
    /\ At(t, "successor")
    /\ ssn' = [ssn EXCEPT ![t].sstamp = Min({@, psstamp[w[t].ver].sstamp \div 2})]
    /\ w' = [w EXCEPT ![t].pc = "readers"]
    /\ UNCHANGED << counters, TMT, GC_threshold, gcob, lists, min_cstamp, ended,
                    psstamp, element, hist >>

\* upReadersBits, verify_exclusion_or_abort, and the payload.
ssn_tread(t) ==
    /\ At(t, "readers")
    /\ psstamp' = [psstamp EXCEPT ![w[t].ver].readers = @ \cup {t}]
    /\ hist' = [hist EXCEPT !.seen[t] =
                   @ \cup {[key |-> OpKey(t), ver |-> hist.author[w[t].ver]]}]
    /\ \/ w' = [w EXCEPT ![t] = AfterAccess(t, @, Excluded(t))]
       \/ HalfDone(t) /\ w' = [w EXCEPT ![t] = AfterAccess(t, @, FALSE)]
    /\ UNCHANGED << counters, TMT, GC_threshold, gcob, lists, min_cstamp, ended,
                    element, ssn >>

-----------------------------------------------------------------------------
(* ssn_twrite *)

\* A record in the read set leaves it before it is written.
ReadEarlier(t) == {i \in DOMAIN w[t].read_set : w[t].read_set[i].key = OpKey(t)}

WritesWhatItRead(t) ==
    Executes(t, "WRITE") /\ ~InSet(w[t].write_set, OpKey(t)) /\ ReadEarlier(t) # {}

forgetRead(t) ==
    /\ WritesWhatItRead(t)
    /\ \E i \in ReadEarlier(t) :
          /\ psstamp' = [psstamp EXCEPT ![w[t].read_set[i].ver].readers = @ \ {t}]
          /\ w' = [w EXCEPT ![t].read_set = RemoveAt(@, i)]
    /\ UNCHANGED << counters, TMT, GC_threshold, gcob, lists, min_cstamp, ended,
                    element, ssn, hist >>

\* The swap succeeds.
swap(t) ==
    /\ At(t, "write") /\ ~HeadInFlight(t) /\ ~Updated(t)
    /\ latest[OpKey(t)] = w[t].ver /\ w[t].reuse # << >>
    /\ LET desired == Last(w[t].reuse)
       IN /\ latest' = [latest EXCEPT ![OpKey(t)] = desired]
          /\ version' = [version EXCEPT ![desired] =
                [prev |-> w[t].ver, committed_prev |-> NewestCommitted(w[t].ver),
                 cstamp |-> w[t].txid, status |-> "inFlight"]]
          /\ psstamp' = [psstamp EXCEPT ![desired] = Unstamped]
          /\ hist' = [hist EXCEPT !.author[desired] = TxnId(t)]
          /\ w' = [w EXCEPT ![t].reuse = Front(@), ![t].ver = desired, ![t].pc = "mark"]
    /\ UNCHANGED << counters, TMT, GC_threshold, gcob, min_cstamp, ended, element, ssn >>

\* The version below gets the worker's mark, be it committed or aborted;
mark(t) ==
    /\ At(t, "mark")
    /\ psstamp' = [psstamp EXCEPT ![version[w[t].ver].prev].sstamp = Mark(t)]
    /\ w' = [w EXCEPT ![t].pc = "pstamp"]
    /\ UNCHANGED << counters, TMT, GC_threshold, gcob, lists, min_cstamp, ended,
                    element, ssn, hist >>

\* and its readers precede the transaction.
ssn_twrite(t) ==
    /\ At(t, "pstamp")
    /\ LET pstamp == Max({ssn[t].pstamp, psstamp[version[w[t].ver].prev].pstamp})
           entered == [w[t] EXCEPT !.write_set =
                          Append(@, [key |-> OpKey(t), ver |-> w[t].ver])]
       IN /\ ssn' = [ssn EXCEPT ![t].pstamp = pstamp]
          /\ w' = [w EXCEPT ![t] = AfterAccess(t, entered, pstamp >= ssn[t].sstamp)]
    /\ UNCHANGED << counters, TMT, GC_threshold, gcob, lists, min_cstamp, ended,
                    psstamp, element, hist >>

-----------------------------------------------------------------------------
(* ssn_parallel_commit: gathering *)

\* A worker before its read set, and after an element of it: at label, or past the
\* last, at then.
FirstRead(rec, label, then) ==
    [rec EXCEPT !.pos = 1, !.pc = IF rec.read_set = << >> THEN then ELSE label]
NextRead(rec, label, then) ==
    IF rec.pos < Len(rec.read_set) THEN [rec EXCEPT !.pos = @ + 1, !.pc = label]
    ELSE [rec EXCEPT !.pos = 1, !.pc = then]

ReadVersion(t) == w[t].read_set[w[t].pos].ver
Overwritten(t) == version[Written(t).ver].committed_prev

announce(t) ==
    /\ At(t, "run") /\ w[t].pos > Len(w[t].pro_set)
    /\ element' = [element EXCEPT ![Self(t)].status = "committing"]
    /\ w' = [w EXCEPT ![t].pc = "lsn"]
    /\ UNCHANGED << counters, TMT, GC_threshold, gcob, lists, min_cstamp, ended,
                    psstamp, ssn, hist >>

\* The stamp is taken and stored; who looks in between waits for the store.
takeLsn(t) ==
    /\ At(t, "lsn")
    /\ CCtr' = CCtr + 1
    /\ element' = [element EXCEPT ![Self(t)].cstamp = CCtr + 1]
    /\ ssn' = [ssn EXCEPT ![t].sstamp = Min({@, CCtr + 1})]
    /\ w' = [w EXCEPT ![t] = FirstRead([@ EXCEPT !.cstamp = CCtr + 1], "pi", "eta")]
    /\ UNCHANGED << quit, build, TMT, GC_threshold, gcob, lists, min_cstamp, ended,
                    psstamp, hist >>

\* finalize pi: the successor of what the transaction has read.
finalizePi(t) ==
    /\ At(t, "pi")
    /\ LET s == psstamp[ReadVersion(t)].sstamp
       IN IF IsMark(s)
          THEN /\ ssn' = [ssn EXCEPT ![t].peers = {s \div 2}]
               /\ w' = [w EXCEPT ![t].pc = "piPeer"]
          ELSE /\ ssn' = [ssn EXCEPT ![t].sstamp = Min({@, s \div 2})]
               /\ w' = [w EXCEPT ![t] = NextRead(@, "pi", "eta")]
    /\ UNCHANGED << counters, TMT, GC_threshold, gcob, lists, min_cstamp, ended,
                    psstamp, element, hist >>

\* finalize eta: the readers of what the transaction overwrites.
finalizeEta(t) ==
    /\ At(t, "eta") /\ InWriteSet(t)
    /\ ssn' = [ssn EXCEPT ![t].peers = psstamp[Overwritten(t)].readers]
    /\ w' = [w EXCEPT ![t].pc = "etaPeer"]
    /\ UNCHANGED << counters, TMT, GC_threshold, gcob, lists, min_cstamp, ended,
                    psstamp, element, hist >>

\* Both look at the elements of other workers in turn.
Gathers(t) == w[t].pc \in {"piPeer", "etaPeer"} /\ ssn[t].tmt = NULL /\ ssn[t].peers # {}
Peer(t) == Min(ssn[t].peers)

\* A worker that is not committing is passed over, one that has just committed too.
passOver(t) ==
    /\ Gathers(t)
    /\ element[Self(Peer(t))].status # "committing"
    /\ ssn' = [ssn EXCEPT ![t].peers = @ \ {Peer(t)}]
    /\ UNCHANGED << counters, TMT, GC_threshold, gcob, lists, min_cstamp, w, ended,
                    psstamp, element, hist >>

\* One that is committing is held on to by its element.
holdOn(t) ==
    /\ Gathers(t)
    /\ element[Self(Peer(t))].status = "committing"
    /\ ssn' = [ssn EXCEPT ![t].tmt = Self(Peer(t)), ![t].peers = @ \ {Peer(t)}]
    /\ UNCHANGED << counters, TMT, GC_threshold, gcob, lists, min_cstamp, w, ended,
                    psstamp, element, hist >>

\* It has a larger stamp than this transaction's,
later(t) ==
    /\ ssn[t].tmt # NULL
    /\ element[ssn[t].tmt].cstamp >= w[t].cstamp
    /\ ssn' = [ssn EXCEPT ![t].tmt = NULL]
    /\ UNCHANGED << counters, TMT, GC_threshold, gcob, lists, min_cstamp, w, ended,
                    psstamp, element, hist >>

\* or it ends; if it has committed its stamp counts.
earlier(t) ==
    /\ ssn[t].tmt # NULL
    /\ LET e == element[ssn[t].tmt]
       IN /\ 0 < e.cstamp /\ e.cstamp < w[t].cstamp
          /\ e.status # "committing"
          /\ ssn' = [ssn EXCEPT
                ![t].tmt = NULL,
                ![t].sstamp = IF e.status = "committed" /\ At(t, "piPeer")
                              THEN Min({@, e.sstamp}) ELSE @,
                ![t].pstamp = IF e.status = "committed" /\ At(t, "etaPeer")
                              THEN Max({@, e.cstamp}) ELSE @]
    /\ UNCHANGED << counters, TMT, GC_threshold, gcob, lists, min_cstamp, w, ended,
                    psstamp, element, hist >>

\* The next element of the read set; of the write set, after the stamp of readers
\* that have gone.
gathered(t) ==
    /\ w[t].pc \in {"piPeer", "etaPeer"} /\ ssn[t].tmt = NULL /\ ssn[t].peers = {}
    /\ IF At(t, "piPeer")
       THEN w' = [w EXCEPT ![t] = NextRead(@, "pi", "eta")] /\ UNCHANGED ssn
       ELSE /\ w' = [w EXCEPT ![t].pos = @ + 1, ![t].pc = "eta"]
            /\ ssn' = [ssn EXCEPT ![t].pstamp = Max({@, psstamp[Overwritten(t)].pstamp})]
    /\ UNCHANGED << counters, TMT, GC_threshold, gcob, lists, min_cstamp, ended,
                    psstamp, element, hist >>

-----------------------------------------------------------------------------
(* ssn_parallel_commit: the decision and the stores *)

exclude(t) ==
    /\ At(t, "eta") /\ ~InWriteSet(t) /\ Excluded(t)
    /\ element' = [element EXCEPT ![Self(t)].status = "aborted"]
    /\ w' = [w EXCEPT ![t].pos = 1, ![t].pc = "abort"]
    /\ UNCHANGED << counters, TMT, GC_threshold, gcob, lists, min_cstamp, ended,
                    psstamp, ssn, hist >>

admit(t) ==
    /\ At(t, "eta") /\ ~InWriteSet(t) /\ ~Excluded(t)
    /\ element' = [element EXCEPT ![Self(t)].sstamp = ssn[t].sstamp,
                                  ![Self(t)].status = "committed"]
    /\ w' = [w EXCEPT ![t] = FirstRead(@, "store", "stamp")]
    /\ UNCHANGED << counters, TMT, GC_threshold, gcob, lists, min_cstamp, ended,
                    psstamp, ssn, hist >>

\* update eta, of what was read.
updateEta(t) ==
    /\ At(t, "store")
    /\ psstamp' = [psstamp EXCEPT ![ReadVersion(t)].pstamp = Max({@, w[t].cstamp})]
    /\ w' = [w EXCEPT ![t].pc = "down"]
    /\ UNCHANGED << counters, TMT, GC_threshold, gcob, lists, min_cstamp, ended,
                    element, ssn, hist >>

downReaders(t) ==
    /\ At(t, "down")
    /\ psstamp' = [psstamp EXCEPT ![ReadVersion(t)].readers = @ \ {t}]
    /\ w' = [w EXCEPT ![t] = NextRead(@, "store", "stamp")]
    /\ UNCHANGED << counters, TMT, GC_threshold, gcob, lists, min_cstamp, ended,
                    element, ssn, hist >>

\* update pi, of what was overwritten;
updatePi(t) ==
    /\ At(t, "stamp") /\ InWriteSet(t)
    /\ psstamp' = [psstamp EXCEPT ![Overwritten(t)].sstamp = Stamp(ssn[t].sstamp)]
    /\ w' = [w EXCEPT ![t].pc = "stampVersion"]
    /\ UNCHANGED << counters, TMT, GC_threshold, gcob, lists, min_cstamp, ended,
                    element, ssn, hist >>

\* the stamps of the new version, which no one reads yet;
stampVersion(t) ==
    /\ At(t, "stampVersion")
    /\ version' = [version EXCEPT ![Written(t).ver].cstamp = w[t].cstamp]
    /\ psstamp' = [psstamp EXCEPT ![Written(t).ver].pstamp = w[t].cstamp,
                                  ![Written(t).ver].sstamp = NotOverwritten]
    /\ w' = [w EXCEPT ![t].pc = "install"]
    /\ UNCHANGED << counters, TMT, GC_threshold, gcob, latest, min_cstamp, ended,
                    element, ssn, hist >>

\* its value and its status; and it is queued.
installVersion(t) ==
    /\ install(t)
    /\ hist' = [hist EXCEPT !.order[Written(t).key] = Append(@, TxnId(t))]
    /\ UNCHANGED << psstamp, element, ssn >>

ssn_parallel_commit(t) ==
    /\ commit(t)
    /\ ssn' = [ssn EXCEPT ![t].pstamp = 0, ![t].sstamp = UINT32_MAX]
    /\ hist' = [hist EXCEPT !.committed = @ \cup {[id |-> TxnId(t), reads |-> hist.seen[t]]},
                            !.seen[t] = {}]
    /\ UNCHANGED << psstamp, element >>

-----------------------------------------------------------------------------
(* abort *)

\* Mutation: the mark stays.
cancelNot(t) ==
    /\ At(t, "abort") /\ InWriteSet(t)
    /\ w' = [w EXCEPT ![t].pc = "discard"]
    /\ UNCHANGED << counters, TMT, GC_threshold, gcob, lists, min_cstamp, ended, ermia >>

\* The mark is taken back,
cancel(t) ==
    /\ At(t, "abort") /\ InWriteSet(t)
    /\ psstamp' = [psstamp EXCEPT ![Overwritten(t)].sstamp = NotOverwritten]
    /\ w' = [w EXCEPT ![t].pc = "discard"]
    /\ UNCHANGED << counters, TMT, GC_threshold, gcob, lists, min_cstamp, ended,
                    element, ssn, hist >>

\* and the version is given up.
discardVersion(t) ==
    /\ At(t, "discard")
    /\ version' = [version EXCEPT ![Written(t).ver].status = "aborted"]
    /\ w' = [w EXCEPT ![t].pos = @ + 1, ![t].pc = "abort"]
    /\ UNCHANGED << counters, TMT, GC_threshold, gcob, latest, min_cstamp, ended, ermia >>

\* Then the readers bits, of the versions in the read set.
leaveReaders(t) ==
    /\ At(t, "abort") /\ ~InWriteSet(t)
    /\ w[t].read_set # << >>
    /\ psstamp' = [psstamp EXCEPT ![Head(w[t].read_set).ver].readers = @ \ {t}]
    /\ w' = [w EXCEPT ![t].read_set = Tail(@)]
    /\ UNCHANGED << counters, TMT, GC_threshold, gcob, lists, min_cstamp, ended,
                    element, ssn, hist >>

ssn_abort(t) ==
    /\ abort(t) /\ w[t].read_set = << >>
    /\ ssn' = [ssn EXCEPT ![t].pstamp = 0, ![t].sstamp = UINT32_MAX]
    /\ hist' = [hist EXCEPT !.seen[t] = {}]
    /\ UNCHANGED << psstamp, element >>

-----------------------------------------------------------------------------
(* Garbage collection *)

\* mainte: the elements first.
ssn_mainte(t) ==
    /\ At(t, "mainte") /\ w[t].pre_gc_threshold # GC_threshold
    /\ w' = [w EXCEPT ![t].pre_gc_threshold = GC_threshold, ![t].pc = "gcTMT"]
    /\ UNCHANGED << counters, TMT, GC_threshold, gcob, lists, min_cstamp, ended, ermia >>

\* The elements at the front of the queue with a snapshot below the threshold.
gcTMTelement(t) ==
    /\ At(t, "gcTMT")
    /\ LET q == ssn[t].gcq
           kept == {i \in DOMAIN q : q[i].txid >= GC_threshold}
           n == IF kept = {} THEN Len(q) ELSE Min(kept) - 1
       IN ssn' = [ssn EXCEPT ![t].gcq = SubSeq(q, n + 1, Len(q)),
                             ![t].reuse = @ \o [i \in 1 .. n |-> q[i].tmt]]
    /\ w' = [w EXCEPT ![t].pc = "gcVersion"]
    /\ UNCHANGED << counters, TMT, GC_threshold, gcob, lists, min_cstamp, ended,
                    psstamp, element, hist >>

\* What may be reclaimed: what is behind the queued version itself.
Behind(t) == From(version[Head(w[t].gcq).ver].prev)

gcVersionBehind(t) ==
    /\ At(t, "gc") /\ w[t].gcq # << >> /\ Head(w[t].gcq).cstamp < w[t].threshold
    /\ IF Dangling(t) \/ Behind(t) = << >>
       THEN /\ w' = [w EXCEPT ![t].gcq = Tail(@)]
            /\ UNCHANGED << version, min_cstamp >>
       ELSE LET v == Head(w[t].gcq).ver
            IN /\ version' = [version EXCEPT ![v].prev = NULL]
               /\ min_cstamp' = [min_cstamp EXCEPT ![Head(w[t].gcq).key] =
                                    version[v].cstamp]
               /\ w' = [w EXCEPT ![t].gcq = Tail(@), ![t].reuse = @ \o Behind(t)]
    /\ UNCHANGED << counters, TMT, GC_threshold, gcob, latest, ended, ermia >>

-----------------------------------------------------------------------------
\* What is as in si/.
Shared(t) ==
    \/ NextProcedure(t) \/ leave(t) \/ chkSecondRange(t) \/ decideGcThreshold(t)
    \/ tbegin(t) \/ scan(t) \/ readLocal(t)
    \/ loadLatest(t) /\ ~WritesWhatItRead(t)
    \/ twriteAborts(t) \/ twriteWaits(t) \/ twriteMoved(t)
    \/ mainteSkips(t) \/ loadThreshold(t) \/ gcEnds(t) \/ gcBusy(t)

workerERMIA(t) ==
    \/ Shared(t) /\ UNCHANGED ermia
    \/ ssn_tbegin(t)
    \/ walk(t) \/ loadSstamp(t) \/ loadSuccessor(t) \/ ssn_tread(t)
    \/ forgetRead(t) \/ swap(t) \/ mark(t) \/ ssn_twrite(t)
    \/ announce(t) \/ takeLsn(t) \/ finalizePi(t) \/ finalizeEta(t)
    \/ passOver(t) \/ holdOn(t) \/ later(t) \/ earlier(t) \/ gathered(t)
    \/ exclude(t) \/ admit(t) \/ updateEta(t) \/ downReaders(t)
    \/ updatePi(t) \/ stampVersion(t) \/ installVersion(t) \/ ssn_parallel_commit(t)
    \/ cancel(t) \/ discardVersion(t) \/ leaveReaders(t) \/ ssn_abort(t)
    \/ ssn_mainte(t) \/ gcTMTelement(t) \/ gcVersionBehind(t)

NextERMIA ==
    \/ build # "ERMIA" /\ Next /\ UNCHANGED ermia
    \/ build = "ERMIA" /\ (Quit \/ Joined) /\ UNCHANGED ermia
    \/ build = "ERMIA" /\ \E t \in Thread : workerERMIA(t)

SpecERMIA == InitERMIA /\ [][NextERMIA]_<< vars, ermia >>

-----------------------------------------------------------------------------
(* Properties *)

\* Worker t's version is the head of the list, not yet committed or given up.
HeadOf(k, t) ==
    /\ version[latest[k]].status = "inFlight"
    /\ hist.author[latest[k]] = TxnId(t)

\* A committed version tells of its successor: a mark is of a worker that is
\* writing a version above it; one overwritten by a committed version has a stamp
\* no larger than that version's; and the newest, when no one writes, is free of
\* what transactions that aborted have left.
SuccessorsKnown ==
    build = "ERMIA" =>
        \A k \in Key :
            LET list == From(latest[k])
                places == {i \in DOMAIN list : version[list[i]].status = "committed"}
            IN \A i \in places :
                  LET s == psstamp[list[i]].sstamp
                      above == {j \in places : j < i}
                  IN /\ IsMark(s) => /\ HeadOf(k, s \div 2)
                                     /\ above = {}
                     /\ above # {} => s <= Stamp(version[list[Max(above)]].cstamp)
                     /\ i = 1 => s = NotOverwritten

\* What is put by is in no one's hands: no version that a worker may still follow,
\* as in SI, or has read and will stamp; no element that a worker holds on to.
NothingReusedInUse ==
    LET free == UNION {ToSet(w[t].reuse) : t \in Thread}
        blank == UNION {ToSet(ssn[t].reuse) : t \in Thread}
    IN /\ NothingReclaimedInUse
       /\ build = "ERMIA" => \A t \in Thread :
             /\ \A r \in ToSet(w[t].read_set) : r.ver \notin free
             /\ Self(t) \notin blank /\ ssn[t].tmt \notin blank

\* t waits in twrite, or for a transaction that is committing.
Waits(t, u) ==
    \/ WaitsFor(t, u)
    \/ /\ ssn[t].tmt = Self(u)
       /\ element[Self(u)].cstamp < w[t].cstamp
       /\ element[Self(u)].status = "committing"

\* Neither wait is for ever: no transactions wait for one another in a circle.
NobodyWaitsInCircles ==
    \A S \in SUBSET Thread \ {{}} : \E t \in S : \A u \in S : ~Waits(t, u)

\* The serial safety net: "SSN is serialization certifier" (README of ermia/).
SerializableCommits == Serializable(hist.committed, hist.order)
=============================================================================
