------------------------------ MODULE SIProofs ------------------------------
(***************************************************************************)
(* The version lists of si/ (and of ermia/, whose worker is this one with  *)
(* other actions: that part is not proved here) for every build, and every *)
(* set of workers, records and transactions, and any number of versions.   *)
(*                                                                         *)
(* The invariant follows a version through its life: put by in the reserve *)
(* of one worker (Apart), installed as the head of a list and in flight    *)
(* there, where one transaction's write set names it (WriteSets, Owners),  *)
(* decided, queued for reclamation with the timestamp it then has (Queued),*)
(* cut off its list, with all that is behind it, by gcVersion, and put by  *)
(* again.                                                                  *)
(*                                                                         *)
(* Sound says of one list what Chain does not: only its head may be in     *)
(* flight, committed_prev skips what was aborted and nothing else, stamps  *)
(* never grow towards the end and committed ones fall, and the last        *)
(* version is the committed one whose stamp is min_cstamp: gcVersion cuts  *)
(* behind the committed version that the queued one has overwritten, which *)
(* becomes the last, and min_cstamp tells whether it had been cut before.  *)
(***************************************************************************)
EXTENDS SI, FiniteSetTheorems, CommonProofs, SequenceTheorems, TLAPS

-----------------------------------------------------------------------------
(* Walks *)

\* From(v) and Visible(v, txid), of versions ver: n steps from the start.
NextIn(ver, v, s) == IF s = << >> THEN v ELSE ver[Last(s)].prev
StepIn(ver, v, s) ==
    IF NextIn(ver, v, s) = NULL THEN s ELSE Append(s, NextIn(ver, v, s))
FromIn(ver, v) ==
    (CHOOSE f : f = [n \in Nat |-> IF n = 0 THEN << >> ELSE StepIn(ver, v, f[n - 1])])
        [Cardinality(Version)]

LEMMA FromIsFromIn == ASSUME NEW v PROVE From(v) = FromIn(version, v)
BY Zenon DEF From, FromIn, StepIn, NextIn

LEMMA NullIsNoVersion == NULL \notin Version
BY DEF NULL, Version, Loaded, Reserved

LEMMA VersionsFinite == IsFiniteSet(Version) /\ Cardinality(Version) \in Nat
<1> DEFINE L == {0} 
           R == 0 .. RESERVE
<1>1. IsFiniteSet(Key) /\ IsFiniteSet(Thread) /\ IsFiniteSet(R)
  BY FS_Interval, SIAssumption
<1>2. IsFiniteSet((Key \cup Thread) \X R)
  BY <1>1, FS_Union, FS_Product
<1>3. Version \subseteq (Key \cup Thread) \X R
  BY SIAssumption DEF Version, Loaded, Reserved
<1> QED
  BY <1>2, <1>3, FS_Subset, FS_CardinalityType

\* s is what v leads to: from v on, each is the prev of the one before, and the
\* last has none.
Chain(ver, v, s) ==
    /\ s \in Seq(Version)
    /\ \A i, j \in 1 .. Len(s) : s[i] = s[j] => i = j
    /\ \A i \in 1 .. Len(s) - 1 : ver[s[i]].prev = s[i + 1]
    /\ IF s = << >> THEN v = NULL ELSE s[1] = v /\ ver[s[Len(s)]].prev = NULL

\* No list is longer than there are versions.
LEMMA ChainBounded ==
    ASSUME NEW ver, NEW v, NEW s, Chain(ver, v, s)
    PROVE  Len(s) \in Nat /\ Len(s) <= Cardinality(Version)
<1>1. s \in [1 .. Len(s) -> Version] /\ Len(s) \in Nat
  BY LenProperties DEF Chain
<1>2. Cardinality(1 .. Len(s)) = Len(s) /\ IsFiniteSet(1 .. Len(s))
  <2> DEFINE n == Len(s)
  <2> SUFFICES Cardinality(1 .. n) = n /\ IsFiniteSet(1 .. n)
    OBVIOUS
  <2>1. n \in Nat /\ 1 \in Int /\ n \in Int
    BY <1>1
  <2> HIDE DEF n
  <2>2. /\ IsFiniteSet(1 .. n)
        /\ Cardinality(1 .. n) = IF 1 > n THEN 0 ELSE n - 1 + 1
    BY <2>1, FS_Interval
  <2> QED
    BY <2>1, <2>2
<1>3. ASSUME Cardinality(Version) < Cardinality(1 .. Len(s))
      PROVE  FALSE
  <2> DEFINE S == 1 .. Len(s)
  <2>1. \E x, y \in S : x # y /\ s[x] = s[y]
    <3>1. IsFiniteSet(S) /\ IsFiniteSet(Version) /\ s \in [S -> Version]
          /\ Cardinality(Version) < Cardinality(S)
      BY <1>1, <1>2, <1>3, VersionsFinite
    <3> HIDE DEF S
    <3> QED
      BY Zenon, <3>1, FS_PigeonHole
  <2> QED
    BY <2>1 DEF Chain
<1> QED
  BY <1>1, <1>2, <1>3, VersionsFinite

LEMMA FromChain ==
    ASSUME NEW ver, NEW v, NEW s, Chain(ver, v, s)
    PROVE  FromIn(ver, v) = s
<1> DEFINE Step(f, n) == IF n = 0 THEN << >> ELSE StepIn(ver, v, f[n - 1])
           Cut(n) == IF n <= Len(s) THEN n ELSE Len(s)
           g == [n \in Nat |-> SubSeq(s, 1, Cut(n))]
           f == CHOOSE h : h = [n \in Nat |-> Step(h, n)]
           N == Cardinality(Version)
<1>1. s \in Seq(Version) /\ Len(s) \in Nat /\ Len(s) <= N /\ N \in Nat
  BY ChainBounded, VersionsFinite DEF Chain
<1>2. ASSUME NEW n \in Nat
      PROVE  g[n] = Step(g, n)
  <2>0. /\ g[n] = SubSeq(s, 1, Cut(n))
        /\ n # 0 => g[n - 1] = SubSeq(s, 1, Cut(n - 1))
    OBVIOUS
  <2>1. CASE n = 0
    BY <1>1, <2>0, <2>1, SubSeqEmpty
  <2>2. CASE n # 0
    <3> DEFINE r == SubSeq(s, 1, Cut(n - 1))
    <3>1. /\ Cut(n - 1) \in 0 .. Len(s)
          /\ r \in Seq(Version) /\ Len(r) = Cut(n - 1)
          /\ \A i \in 1 .. Len(r) : r[i] = s[i]
      BY <1>1, <2>2
    <3>2. CASE Len(s) < n
      <4>1. Cut(n) = Len(s) /\ Cut(n - 1) = Len(s)
        BY <1>1, <2>2, <3>2
      <4>2. r = s
        BY <1>1, <4>1, SubSeqFull
      <4>3. NextIn(ver, v, s) = NULL
        <5>1. s # << >> => Last(s) = s[Len(s)]
          BY DEF Last
        <5> QED
          BY <5>1 DEF NextIn, Chain
      <4>4. StepIn(ver, v, s) = s
        BY <4>3 DEF StepIn
      <4> QED
        BY <2>0, <2>2, <4>1, <4>2, <4>4
    <3>3. CASE n <= Len(s)
      <4>1. Cut(n) = n /\ Cut(n - 1) = n - 1
        BY <1>1, <2>2, <3>3
      <4>2. NextIn(ver, v, r) = s[n]
        <5>1. CASE n = 1
          BY <1>1, <3>1, <4>1, <5>1, <3>3 DEF NextIn, Chain
        <5>2. CASE n > 1
          <6>1. r # << >> /\ Last(r) = s[n - 1]
            BY <3>1, <4>1, <5>2 DEF Last
          <6> QED
            BY <1>1, <3>3, <5>2, <6>1 DEF NextIn, Chain
        <5> QED
          BY <2>2, <5>1, <5>2
      <4>3. s[n] \in Version /\ s[n] # NULL
        BY <1>1, <2>2, <3>3, NullIsNoVersion
      <4>4. StepIn(ver, v, r) = Append(r, s[n])
        BY <4>2, <4>3 DEF StepIn
      <4>5. SubSeq(s, 1, n) = Append(r, s[n])
        <5> SUFFICES SubSeq(s, 1, n) = Append(SubSeq(s, 1, n - 1), s[n])
          BY <4>1
        <5>1. SubSeq(s, 1, n) = SubSeq(s, 1, n - 1) \o << s[n] >>
          BY <1>1, <2>2, <3>3, SubSeqRecursiveSecond
        <5> QED
          BY <1>1, <3>1, <4>1, <4>3, <5>1, AppendIsConcat
      <4> QED
        BY <2>0, <2>2, <4>1, <4>4, <4>5
    <3>4. Len(s) < n \/ n <= Len(s)
      BY <1>1
    <3> HIDE DEF g, Step
    <3> QED
      BY <3>2, <3>3, <3>4
  <2> QED
    BY <2>1, <2>2
<1>3. g = [n \in Nat |-> Step(g, n)]
  BY <1>2
<1>4. f = [n \in Nat |-> Step(f, n)]
  <2> DEFINE P(h) == h = [n \in Nat |-> Step(h, n)]
  <2>1. P(g)
    BY <1>3
  <2> HIDE DEF P, g
  <2>2. P(CHOOSE h : P(h))
    BY <2>1
  <2> QED
    BY <2>2 DEF P
<1>5. \A n \in Nat : f[n] = Step(f, n) /\ g[n] = Step(g, n)
  <2> HIDE DEF f, g
  <2> QED
    BY <1>3, <1>4
<1> DEFINE D == {n \in Nat : f[n] # g[n]}
<1>6. D = {}
  <2> HIDE DEF f, g
  <2> SUFFICES ASSUME D # {} PROVE FALSE
    OBVIOUS
  <2>1. PICK m \in D : \A n \in D : m <= n
    BY HasMinimum
  <2>2. m \in Nat /\ f[m] # g[m]
    BY <2>1
  <2>3. m # 0
    <3>1. Step(f, 0) = Step(g, 0)
      OBVIOUS
    <3> QED
      BY <1>5, <2>2, <3>1
  <2>4. m - 1 \in Nat /\ m - 1 \notin D
    BY <2>1, <2>2, <2>3
  <2>5. f[m - 1] = g[m - 1]
    BY <2>4
  <2>6. Step(f, m) = Step(g, m)
    BY <2>5
  <2> QED
    BY <1>5, <2>2, <2>6
<1>7. f[N] = g[N]
  BY <1>1, <1>6
<1>8. g[N] = s
  <2>1. g[N] = SubSeq(s, 1, Len(s))
    BY <1>1
  <2> QED
    BY <1>1, <2>1, SubSeqFull
<1>9. FromIn(ver, v) = f[N]
  BY DEF FromIn
<1> QED
  BY <1>7, <1>8, <1>9

\* A function can be applied again and again.
LEMMA Iterates ==
    ASSUME NEW S, NEW v \in S, NEW step \in [S -> S]
    PROVE  \E f \in [Nat -> S] :
              f[0] = v /\ \A n \in Nat \ {0} : f[n] = step[f[n - 1]]
<1> DEFINE Iterate(n, f) ==
               f \in [0 .. n -> S] /\ f[0] = v /\ \A i \in 1 .. n : f[i] = step[f[i - 1]]
           D == {n \in Nat : ~ \E f : Iterate(n, f)}
<1>1. D = {}
  <2> SUFFICES ASSUME D # {} PROVE FALSE
    OBVIOUS
  <2>1. PICK m \in D : \A n \in D : m <= n
    BY HasMinimum
  <2>2. m # 0
    <3>1. Iterate(0, [i \in 0 .. 0 |-> v])
      OBVIOUS
    <3> QED
      BY <3>1
  <2>3. m \in Nat /\ m - 1 \in Nat /\ m - 1 \notin D
    <3>1. m \in Nat /\ m - 1 \in Nat /\ ~(m <= m - 1)
      BY <2>2
    <3> QED
      BY <2>1, <3>1
  <2>4. PICK f : Iterate(m - 1, f)
    BY <2>3
  <2> DEFINE g == [i \in 0 .. m |-> IF i = m THEN step[f[m - 1]] ELSE f[i]]
  <2>5. Iterate(m, g)
    <3>1. \A i \in 0 .. m : i = m \/ i \in 0 .. m - 1
      BY <2>3
    <3>2. m - 1 \in 0 .. m - 1 /\ f[m - 1] \in S
      BY <2>3, <2>4
    <3>3. g \in [0 .. m -> S]
      BY <2>4, <3>1, <3>2
    <3>4. g[0] = v
      BY <2>2, <2>3, <2>4
    <3>5. ASSUME NEW i \in 1 .. m
          PROVE  g[i] = step[g[i - 1]]
      <4>1. i - 1 \in 0 .. m /\ i - 1 # m /\ g[i - 1] = f[i - 1]
        BY <2>3
      <4>2. CASE i = m
        BY <2>3, <4>1, <4>2
      <4>3. CASE i # m
        <5>1. i \in 1 .. m - 1 /\ g[i] = f[i]
          BY <2>3, <4>3
        <5> QED
          BY <2>4, <4>1, <5>1
      <4> QED
        BY <4>2, <4>3
    <3> QED
      BY <3>3, <3>4, <3>5
  <2> QED
    BY <2>1, <2>5
<1> DEFINE F(n) == CHOOSE f : Iterate(n, f)
<1>2. ASSUME NEW n \in Nat
      PROVE  Iterate(n, F(n))
  <2>1. \E f : Iterate(n, f)
    BY <1>1
  <2> HIDE DEF Iterate
  <2> QED
    BY <2>1
<1> HIDE DEF F
<1>3. ASSUME NEW n \in Nat
      PROVE  F(n + 1)[n] = F(n)[n]
  <2>1. n + 1 \in Nat /\ Iterate(n, F(n)) /\ Iterate(n + 1, F(n + 1))
    BY <1>2
  <2> DEFINE E == {i \in Nat : i <= n /\ F(n + 1)[i] # F(n)[i]}
  <2>2. E = {}
    <3> SUFFICES ASSUME E # {} PROVE FALSE
      OBVIOUS
    <3>1. PICK m \in E : \A i \in E : m <= i
      BY HasMinimum
    <3>2. m \in Nat /\ m <= n /\ m # 0
      BY <2>1, <3>1
    <3>3. m - 1 \in Nat /\ m - 1 <= n /\ ~(m <= m - 1)
      BY <3>2
    <3>4. F(n + 1)[m - 1] = F(n)[m - 1]
      BY <3>1, <3>3
    <3>5. m \in 1 .. n /\ m \in 1 .. n + 1
      BY <3>2
    <3> QED
      BY <2>1, <3>1, <3>4, <3>5
  <2> QED
    BY <2>2
<1> DEFINE f == [n \in Nat |-> F(n)[n]]
<1>4. f \in [Nat -> S]
  <2>1. ASSUME NEW n \in Nat
        PROVE  F(n)[n] \in S
    <3>1. n \in 0 .. n
      OBVIOUS
    <3> QED
      BY <1>2, <3>1
  <2> QED
    BY <2>1
<1>5. f[0] = v
  BY <1>2
<1>6. ASSUME NEW n \in Nat \ {0}
      PROVE  f[n] = step[f[n - 1]]
  <2>1. n - 1 \in Nat /\ n \in 1 .. n /\ (n - 1) + 1 = n
    OBVIOUS
  <2>2. F(n)[n] = step[F(n)[n - 1]]
    BY <1>2, <2>1
  <2>3. F(n)[n - 1] = F(n - 1)[n - 1]
    BY <1>3, <2>1
  <2> QED
    BY <2>1, <2>2, <2>3
<1> QED
  BY <1>4, <1>5, <1>6

WalkEnds(ver, txid, u) == u = NULL \/ ver[u].cstamp <= txid
VisibleIn(ver, v, txid) ==
    (CHOOSE f : f = [n \in Nat |->
        IF n = 0 THEN v
        ELSE IF WalkEnds(ver, txid, f[n - 1]) THEN f[n - 1]
        ELSE ver[f[n - 1]].committed_prev])
        [Cardinality(Version)]

LEMMA VisibleIsVisibleIn ==
    ASSUME NEW v, NEW txid PROVE Visible(v, txid) = VisibleIn(version, v, txid)
BY Zenon DEF Visible, VisibleIn, WalkEnds

\* The walk of tread, step by step.
WalkStep(ver, txid, u) == IF WalkEnds(ver, txid, u) THEN u ELSE ver[u].committed_prev

LEMMA VisibleWalks ==
    ASSUME NEW ver, NEW v \in Version \cup {NULL}, NEW txid,
           \A u \in Version : ver[u].committed_prev \in Version \cup {NULL}
    PROVE  \E f \in [Nat -> Version \cup {NULL}] :
              /\ f[0] = v
              /\ \A n \in Nat \ {0} : f[n] = WalkStep(ver, txid, f[n - 1])
              /\ VisibleIn(ver, v, txid) = f[Cardinality(Version)]
<1> DEFINE S == Version \cup {NULL}
           step == [u \in S |-> WalkStep(ver, txid, u)]
           Step(f, n) == IF n = 0 THEN v
                         ELSE IF WalkEnds(ver, txid, f[n - 1]) THEN f[n - 1]
                         ELSE ver[f[n - 1]].committed_prev
           P(h) == h = [n \in Nat |-> Step(h, n)]
           f == CHOOSE h : P(h)
<1>1. step \in [S -> S]
  BY DEF WalkStep, WalkEnds
<1>2. PICK g \in [Nat -> S] : g[0] = v /\ \A n \in Nat \ {0} : g[n] = step[g[n - 1]]
  <2>1. v \in S
    OBVIOUS
  <2> HIDE DEF S, step
  <2> QED
    BY <1>1, <2>1, Iterates
<1>3. \A n \in Nat \ {0} : g[n] = WalkStep(ver, txid, g[n - 1])
  <2> SUFFICES ASSUME NEW n \in Nat \ {0} PROVE g[n] = WalkStep(ver, txid, g[n - 1])
    OBVIOUS
  <2>1. n - 1 \in Nat /\ g[n] = step[g[n - 1]]
    BY <1>2
  <2>2. g[n - 1] \in S
    BY <1>2, <2>1
  <2> QED
    BY <2>1, <2>2
<1>4. P(g)
  <2>1. \A n \in Nat : g[n] = Step(g, n)
    BY <1>2, <1>3 DEF WalkStep
  <2> HIDE DEF Step
  <2> QED
    BY <1>2, <2>1
<1>5. P(f)
  <2> HIDE DEF P
  <2> QED
    BY <1>4
<1>6. \A n \in Nat : f[n] = Step(f, n) /\ g[n] = Step(g, n)
  <2> HIDE DEF f
  <2> QED
    BY <1>4, <1>5
<1> DEFINE D == {n \in Nat : f[n] # g[n]}
<1>7. D = {}
  <2> HIDE DEF f
  <2> SUFFICES ASSUME D # {} PROVE FALSE
    OBVIOUS
  <2>1. PICK m \in D : \A n \in D : m <= n
    BY HasMinimum
  <2>2. m \in Nat /\ f[m] # g[m]
    BY <2>1
  <2>3. m # 0
    <3>1. Step(f, 0) = Step(g, 0)
      OBVIOUS
    <3> QED
      BY <1>6, <2>2, <3>1
  <2>4. m - 1 \in Nat /\ m - 1 \notin D
    BY <2>1, <2>2, <2>3
  <2>5. f[m - 1] = g[m - 1]
    BY <2>4
  <2>6. Step(f, m) = Step(g, m)
    BY <2>5
  <2> QED
    BY <1>6, <2>2, <2>6
<1>8. f[Cardinality(Version)] = g[Cardinality(Version)]
  BY <1>7, VersionsFinite
<1>9. VisibleIn(ver, v, txid) = f[Cardinality(Version)]
  BY DEF VisibleIn
<1> QED
  BY <1>2, <1>3, <1>8, <1>9

LEMMA VisibleTyped ==
    ASSUME NEW ver, NEW v \in Version \cup {NULL}, NEW txid,
           \A u \in Version : ver[u].committed_prev \in Version \cup {NULL}
    PROVE  VisibleIn(ver, v, txid) \in Version \cup {NULL}
BY VisibleWalks, VersionsFinite

-----------------------------------------------------------------------------
(* Chains of versions *)

LEMMA ChainTyped ==
    ASSUME NEW ver, NEW v, NEW s, Chain(ver, v, s)
    PROVE  /\ s \in Seq(Version) /\ Len(s) \in Nat /\ DOMAIN s = 1 .. Len(s)
           /\ \A i \in 1 .. Len(s) : s[i] \in Version
           /\ s # << >> => 1 \in 1 .. Len(s) /\ Len(s) \in 1 .. Len(s) /\ s[1] = v
<1>1. s \in Seq(Version) /\ Len(s) \in Nat /\ DOMAIN s = 1 .. Len(s)
  BY DEF Chain
<1>2. \A i \in 1 .. Len(s) : s[i] \in Version
  BY <1>1
<1>3. s # << >> => 1 \in 1 .. Len(s) /\ Len(s) \in 1 .. Len(s) /\ s[1] = v
  BY <1>1 DEF Chain
<1> QED
  BY <1>1, <1>2, <1>3

\* What is not in a chain does not matter to it.
LEMMA ChainKept ==
    ASSUME NEW ver, NEW new, NEW v, NEW s, Chain(ver, v, s),
           \A i \in 1 .. Len(s) : new[s[i]].prev = ver[s[i]].prev
    PROVE  Chain(new, v, s)
<1>1. \A i \in 1 .. Len(s) - 1 : i \in 1 .. Len(s)
  BY ChainTyped
<1> QED
  BY <1>1, ChainTyped DEF Chain

\* A version before a chain.
LEMMA ChainPushed ==
    ASSUME NEW ver, NEW new, NEW v, NEW s, NEW d \in Version,
           Chain(ver, v, s), s # << >>,
           \A i \in 1 .. Len(s) : s[i] # d /\ new[s[i]].prev = ver[s[i]].prev,
           new[d].prev = v
    PROVE  /\ Chain(new, d, << d >> \o s)
           /\ Len(<< d >> \o s) = Len(s) + 1
           /\ \A i \in 1 .. Len(s) + 1 : (<< d >> \o s)[i] = IF i = 1 THEN d ELSE s[i - 1]
<1> DEFINE r == << d >> \o s
<1>1. Chain(new, v, s)
  BY ChainKept
<1>2. s \in Seq(Version) /\ Len(s) \in Nat /\ Len(s) # 0
  BY ChainTyped
<1>3. /\ r \in Seq(Version) /\ Len(r) = Len(s) + 1
      /\ \A i \in 1 .. Len(s) + 1 : r[i] = IF i = 1 THEN d ELSE s[i - 1]
  BY <1>2
<1> HIDE DEF r
<1>4. ASSUME NEW i \in 1 .. Len(r), NEW j \in 1 .. Len(r), r[i] = r[j]
      PROVE  i = j
  <2>0. i \in 1 .. Len(s) + 1 /\ j \in 1 .. Len(s) + 1
    BY <1>2, <1>3
  <2>1. i # 1 => i - 1 \in 1 .. Len(s) /\ r[i] = s[i - 1]
    BY <1>2, <1>3, <2>0
  <2>2. j # 1 => j - 1 \in 1 .. Len(s) /\ r[j] = s[j - 1]
    BY <1>2, <1>3, <2>0
  <2>3. i # 1 /\ j # 1 => i - 1 = j - 1
    BY <1>4, <2>1, <2>2 DEF Chain
  <2>4. r[1] = d
    <3>1. 1 \in 1 .. Len(s) + 1
      BY <1>2
    <3> QED
      BY <1>3, <3>1
  <2>5. (i = 1 /\ j = 1) \/ (i # 1 /\ j # 1)
    BY <1>4, <2>1, <2>2, <2>4
  <2> QED
    BY <2>0, <2>3, <2>5
<1>5. ASSUME NEW i \in 1 .. Len(r) - 1
      PROVE  new[r[i]].prev = r[i + 1]
  <2>1. i + 1 \in 1 .. Len(s) + 1 /\ r[i + 1] = s[i]
    BY <1>2, <1>3
  <2>2. CASE i = 1
    BY <1>1, <1>2, <1>3, <2>1, <2>2 DEF Chain
  <2>3. CASE i # 1
    <3>1. i - 1 \in 1 .. Len(s) - 1 /\ r[i] = s[i - 1] /\ (i - 1) + 1 = i
      BY <1>2, <1>3, <2>3
    <3> QED
      BY <1>1, <2>1, <3>1 DEF Chain
  <2> QED
    BY <2>2, <2>3
<1>6. r # << >> /\ r[1] = d /\ new[r[Len(r)]].prev = NULL
  <2>1. Len(r) # 1 /\ Len(r) \in 1 .. Len(s) + 1 /\ Len(r) - 1 = Len(s)
    BY <1>2, <1>3
  <2>2. r[Len(r)] = s[Len(s)]
    BY <1>3, <2>1
  <2>3. new[s[Len(s)]].prev = NULL
    BY <1>1 DEF Chain
  <2>4. 1 \in 1 .. Len(s) + 1
    BY <1>2
  <2>5. r[1] = d
    BY <1>3, <2>4
  <2>6. r # << >>
    BY <1>2, <1>3
  <2> QED
    BY <2>2, <2>3, <2>5, <2>6
<1>7. Chain(new, d, r)
  BY <1>3, <1>4, <1>5, <1>6 DEF Chain
<1> QED
  BY <1>3, <1>7 DEF r

\* What is behind a version of a chain, and the chain without it.
CutAt(ver, new, v, s, j) ==
    /\ j \in 1 .. Len(s) /\ Chain(ver, v, s)
    /\ new[s[j]].prev = NULL
    /\ \A i \in 1 .. Len(s) : i # j => new[s[i]].prev = ver[s[i]].prev

\* a is the first j of s, and b the rest.
Halves(s, j, a, b) ==
    /\ Len(a) = j /\ \A i \in 1 .. j : a[i] = s[i]
    /\ Len(b) = Len(s) - j /\ \A i \in 1 .. Len(s) - j : b[i] = s[i + j]

LEMMA ChainCut ==
    ASSUME NEW ver, NEW new, NEW v, NEW s, NEW j, CutAt(ver, new, v, s, j)
    PROVE  \E a, b : /\ Chain(new, v, a) /\ Chain(ver, ver[s[j]].prev, b)
                     /\ Halves(s, j, a, b)
<1> DEFINE a == SubSeq(s, 1, j)
           b == SubSeq(s, j + 1, Len(s))
<1> USE DEF CutAt
<1>1. s \in Seq(Version) /\ Len(s) \in Nat /\ s # << >> /\ j \in Nat /\ j >= 1 /\ j <= Len(s)
  BY ChainTyped
<1>2. a \in Seq(Version) /\ Len(a) = j /\ \A i \in 1 .. j : a[i] = s[i]
  BY <1>1
<1>3. /\ b \in Seq(Version) /\ Len(b) = Len(s) - j
      /\ \A i \in 1 .. Len(s) - j : b[i] = s[i + j]
  <2>1. Len(s) \in Int /\ j + 1 \in Int /\ \A i \in j + 1 .. Len(s) : s[i] \in Version
    BY <1>1
  <2>2. b \in Seq(Version) /\ Len(b) = IF j + 1 <= Len(s) THEN Len(s) - (j + 1) + 1 ELSE 0
    BY <2>1, SubSeqProperties
  <2>3. Len(b) = Len(s) - j
    BY <1>1, <2>2
  <2>4. ASSUME NEW i \in 1 .. Len(s) - j
        PROVE  b[i] = s[i + j]
    BY <1>1
  <2> QED
    BY <2>2, <2>3, <2>4
<1> HIDE DEF a, b
<1>4. Chain(new, v, a)
  <2>1. \A i, l \in 1 .. Len(a) : a[i] = a[l] => i = l
    BY <1>1, <1>2 DEF Chain
  <2>2. ASSUME NEW i \in 1 .. Len(a) - 1
        PROVE  new[a[i]].prev = a[i + 1]
    <3>1. i \in 1 .. Len(s) - 1 /\ i \in 1 .. Len(s) /\ i # j /\ a[i] = s[i] /\ a[i + 1] = s[i + 1]
      BY <1>1, <1>2
    <3> QED
      BY <3>1 DEF Chain
  <2>3. a # << >> /\ a[1] = v /\ new[a[Len(a)]].prev = NULL
    <3>1. a # << >>
      BY <1>1, <1>2
    <3>2. 1 \in 1 .. j /\ j \in 1 .. j
      BY <1>1
    <3> QED
      BY <1>1, <1>2, <3>1, <3>2 DEF Chain
  <2> QED
    BY <1>2, <2>1, <2>2, <2>3 DEF Chain
<1>5. Chain(ver, ver[s[j]].prev, b)
  <2>1. ASSUME NEW i \in 1 .. Len(b), NEW l \in 1 .. Len(b), b[i] = b[l]
        PROVE  i = l
    <3>1. i + j \in 1 .. Len(s) /\ l + j \in 1 .. Len(s) /\ s[i + j] = s[l + j]
      BY <1>1, <1>3, <2>1
    <3>2. i + j = l + j
      BY <3>1 DEF Chain
    <3> QED
      BY <1>1, <1>3, <3>2
  <2>2. ASSUME NEW i \in 1 .. Len(b) - 1
        PROVE  ver[b[i]].prev = b[i + 1]
    <3>1. /\ i + j \in 1 .. Len(s) - 1 /\ b[i] = s[i + j]
          /\ b[i + 1] = s[(i + j) + 1]
      BY <1>1, <1>3
    <3> QED
      BY <3>1 DEF Chain
  <2>3. IF b = << >> THEN ver[s[j]].prev = NULL
        ELSE b[1] = ver[s[j]].prev /\ ver[b[Len(b)]].prev = NULL
    <3>1. CASE j = Len(s)
      <4>1. b = << >>
        BY <1>1, <1>3, <3>1
      <4> QED
        BY <1>1, <3>1, <4>1 DEF Chain
    <3>2. CASE j # Len(s)
      <4>1. b # << >> /\ b[1] = s[j + 1] /\ b[Len(b)] = s[Len(s)] /\ j \in 1 .. Len(s) - 1
        <5>1. /\ 1 \in 1 .. Len(s) - j /\ 1 + j = j + 1
              /\ Len(b) \in 1 .. Len(s) - j /\ Len(b) + j = Len(s)
              /\ j \in 1 .. Len(s) - 1
          BY <1>1, <1>3, <3>2
        <5>2. b[1] = s[1 + j] /\ b[Len(b)] = s[Len(b) + j]
          BY <1>3, <5>1
        <5>3. b # << >>
          BY <1>3, <5>1
        <5> QED
          BY <5>1, <5>2, <5>3
      <4> QED
        <5>1. ver[s[j]].prev = s[j + 1] /\ ver[s[Len(s)]].prev = NULL
          BY <1>1, <4>1 DEF Chain
        <5> QED
          BY <4>1, <5>1
    <3> QED
      BY <3>1, <3>2
  <2> QED
    BY <1>3, <2>1, <2>2, <2>3 DEF Chain
<1>6. Halves(s, j, a, b)
  BY <1>2, <1>3 DEF Halves
<1> QED
  BY <1>4, <1>5, <1>6

-----------------------------------------------------------------------------
(* The order of a list *)

\* Of list s, j is the first committed version behind i.
NextCommitted(ver, s, i, j) ==
    /\ ver[s[i]].committed_prev = s[j] /\ ver[s[j]].status = "committed"
    /\ \A m \in i + 1 .. j - 1 : ver[s[m]].status # "committed"

\* No version behind i has a stamp above c, and no committed one has c itself.
Under(ver, s, i, c) ==
    \A j \in i + 1 .. Len(s) :
        /\ ver[s[j]].cstamp <= c
        /\ ver[s[j]].status = "committed" => ver[s[j]].cstamp # c

\* A list that has been cut at the committed version with stamp c.
Sound(ver, s, c) ==
    /\ s # << >>
    /\ ver[s[Len(s)]].status = "committed" /\ ver[s[Len(s)]].cstamp = c
    /\ \A i \in 1 .. Len(s) :
          /\ ver[s[i]].status = "inFlight" => i = 1
          /\ i < Len(s) => \E j \in i + 1 .. Len(s) : NextCommitted(ver, s, i, j)
          /\ ver[s[i]].status = "committed" => Under(ver, s, i, ver[s[i]].cstamp)

\* new has the versions of s from the i-th on as ver has them, but for prev.
Alike(ver, new, s, i) ==
    \A j \in i .. Len(s) :
        /\ new[s[j]].status = ver[s[j]].status
        /\ new[s[j]].cstamp = ver[s[j]].cstamp
        /\ new[s[j]].committed_prev = ver[s[j]].committed_prev

LEMMA MoreThanOne ==
    ASSUME NEW n \in Nat, 1 \in 1 .. n, n # 1
    PROVE  n >= 2 /\ 1 < n
OBVIOUS

LEMMA NextCommittedKept ==
    ASSUME NEW ver, NEW new, NEW s \in Seq(Version), NEW i \in 1 .. Len(s),
           NEW j \in i + 1 .. Len(s), Alike(ver, new, s, i + 1),
           new[s[i]].committed_prev = ver[s[i]].committed_prev,
           NextCommitted(ver, s, i, j)
    PROVE  NextCommitted(new, s, i, j)
<1>1. Len(s) \in Nat
  OBVIOUS
<1>2. \A m \in i + 1 .. j - 1 : m \in i + 1 .. Len(s)
  BY <1>1
<1> QED
  BY <1>2 DEF NextCommitted, Alike

LEMMA UnderKept ==
    ASSUME NEW ver, NEW new, NEW s, NEW i, NEW c, Alike(ver, new, s, i + 1), Under(ver, s, i, c)
    PROVE  Under(new, s, i, c)
BY DEF Under, Alike

\* The head changes, and with it nothing behind it.
LEMMA SoundHead ==
    ASSUME NEW ver, NEW new, NEW v, NEW s, NEW c,
           Chain(ver, v, s), Sound(ver, s, c), Len(s) # 1,
           Alike(ver, new, s, 2),
           new[s[1]].committed_prev = ver[s[1]].committed_prev,
           new[s[1]].status = "committed" => Under(ver, s, 1, new[s[1]].cstamp)
    PROVE  Sound(new, s, c)
<1>1. s \in Seq(Version) /\ Len(s) \in Nat /\ Len(s) >= 2 /\ s # << >>
  <2>1. s \in Seq(Version) /\ Len(s) \in Nat /\ s # << >> /\ 1 \in 1 .. Len(s)
    BY ChainTyped DEF Sound
  <2>2. Len(s) >= 2
    BY <2>1, MoreThanOne
  <2> QED
    BY <2>1, <2>2
<1>2. ASSUME NEW i \in 1 .. Len(s)
      PROVE  /\ i + 1 \in 2 .. Len(s) + 1 /\ Alike(ver, new, s, i + 1)
             /\ new[s[i]].committed_prev = ver[s[i]].committed_prev
             /\ i # 1 => /\ new[s[i]].status = ver[s[i]].status
                         /\ new[s[i]].cstamp = ver[s[i]].cstamp
  <2>1. \A j \in i + 1 .. Len(s) : j \in 2 .. Len(s)
    BY <1>1
  <2>2. i = 1 \/ i \in 2 .. Len(s)
    BY <1>1
  <2> QED
    BY <1>1, <2>1, <2>2 DEF Alike
<1>3. new[s[Len(s)]].status = "committed" /\ new[s[Len(s)]].cstamp = c
  <2>1. Len(s) \in 1 .. Len(s) /\ Len(s) # 1
    BY <1>1
  <2>2. ver[s[Len(s)]].status = "committed" /\ ver[s[Len(s)]].cstamp = c
    BY DEF Sound
  <2> QED
    BY <1>2, <2>1, <2>2
<1>4. ASSUME NEW i \in 1 .. Len(s)
      PROVE  /\ new[s[i]].status = "inFlight" => i = 1
             /\ i < Len(s) => \E j \in i + 1 .. Len(s) : NextCommitted(new, s, i, j)
             /\ new[s[i]].status = "committed" => Under(new, s, i, new[s[i]].cstamp)
  <2>1. new[s[i]].status = "inFlight" => i = 1
    BY <1>2 DEF Sound
  <2>2. i < Len(s) => \E j \in i + 1 .. Len(s) : NextCommitted(new, s, i, j)
    BY <1>1, <1>2, NextCommittedKept DEF Sound
  <2>3. ASSUME new[s[i]].status = "committed"
        PROVE  Under(new, s, i, new[s[i]].cstamp)
    <3>1. Under(ver, s, i, new[s[i]].cstamp)
      BY <1>2, <2>3 DEF Sound
    <3> QED
      BY <1>2, <3>1, UnderKept
  <2> QED
    BY <2>1, <2>2, <2>3
<1> QED
  BY <1>1, <1>3, <1>4 DEF Sound

\* Nothing in the list changes.
LEMMA SoundKept ==
    ASSUME NEW ver, NEW new, NEW v, NEW s, NEW c,
           Chain(ver, v, s), Sound(ver, s, c), Alike(ver, new, s, 1)
    PROVE  Sound(new, s, c)
<1>1. s \in Seq(Version) /\ Len(s) \in Nat /\ s # << >> /\ Len(s) \in 1 .. Len(s)
  BY ChainTyped DEF Sound
<1>2. ASSUME NEW i \in 1 .. Len(s)
      PROVE  /\ Alike(ver, new, s, i + 1)
             /\ new[s[i]].committed_prev = ver[s[i]].committed_prev
             /\ new[s[i]].status = ver[s[i]].status /\ new[s[i]].cstamp = ver[s[i]].cstamp
  <2>1. \A j \in i + 1 .. Len(s) : j \in 1 .. Len(s)
    BY <1>1
  <2> QED
    BY <2>1 DEF Alike
<1>3. ASSUME NEW i \in 1 .. Len(s)
      PROVE  /\ new[s[i]].status = "inFlight" => i = 1
             /\ i < Len(s) => \E j \in i + 1 .. Len(s) : NextCommitted(new, s, i, j)
             /\ new[s[i]].status = "committed" => Under(new, s, i, new[s[i]].cstamp)
  <2>1. i < Len(s) => \E j \in i + 1 .. Len(s) : NextCommitted(new, s, i, j)
    BY <1>1, <1>2, NextCommittedKept DEF Sound
  <2>2. new[s[i]].status = "committed" => Under(new, s, i, new[s[i]].cstamp)
    BY <1>2, UnderKept DEF Sound
  <2> QED
    BY <1>2, <2>1, <2>2 DEF Sound
<1> QED
  BY <1>1, <1>2, <1>3 DEF Sound

\* A version in flight is put before the list.
LEMMA SoundPushed ==
    ASSUME NEW ver, NEW new, NEW v, NEW s, NEW c, NEW d, NEW r,
           Chain(ver, v, s), Sound(ver, s, c), Alike(ver, new, s, 1),
           Len(r) = Len(s) + 1,
           \A i \in 1 .. Len(s) + 1 : r[i] = IF i = 1 THEN d ELSE s[i - 1],
           r \in Seq(Version),
           new[d].status = "inFlight",
           new[d].committed_prev = IF ver[v].status = "committed" THEN v
                                   ELSE ver[v].committed_prev,
           ver[v].status # "inFlight"
    PROVE  Sound(new, r, c)
<1>1. /\ s \in Seq(Version) /\ Len(s) \in Nat /\ s # << >> /\ Len(s) \in 1 .. Len(s)
      /\ s[1] = v /\ 1 \in 1 .. Len(s)
  BY ChainTyped DEF Sound
<1>2. Sound(new, s, c)
  BY SoundKept
<1>3. /\ r[1] = d /\ \A i \in 1 .. Len(s) : r[i + 1] = s[i]
      /\ \A i \in 2 .. Len(r) : i - 1 \in 1 .. Len(s) /\ r[i] = s[i - 1]
  <2>1. \A i \in 1 .. Len(s) : i + 1 \in 1 .. Len(s) + 1 /\ i + 1 # 1 /\ (i + 1) - 1 = i
    BY <1>1
  <2>2. 1 \in 1 .. Len(s) + 1
    BY <1>1
  <2>3. \A i \in 2 .. Len(r) : i \in 1 .. Len(s) + 1 /\ i # 1 /\ i - 1 \in 1 .. Len(s)
    BY <1>1
  <2> QED
    BY <2>1, <2>2, <2>3
<1>4. r # << >> /\ r[Len(r)] = s[Len(s)]
  <2>1. r # << >>
    BY <1>1
  <2> QED
    BY <1>1, <1>3, <2>1
<1>5. ASSUME NEW i \in 1 .. Len(s), NEW j \in i + 1 .. Len(s), NextCommitted(new, s, i, j)
      PROVE  j + 1 \in (i + 1) + 1 .. Len(r) /\ NextCommitted(new, r, i + 1, j + 1)
  <2>1. j \in 1 .. Len(s) /\ j + 1 \in (i + 1) + 1 .. Len(r)
    BY <1>1
  <2>2. r[i + 1] = s[i] /\ r[j + 1] = s[j]
    BY <1>3, <2>1
  <2>3. ASSUME NEW m \in (i + 1) + 1 .. (j + 1) - 1
        PROVE  new[r[m]].status # "committed"
    <3>1. m \in 2 .. Len(r) /\ m - 1 \in i + 1 .. j - 1
      BY <1>1, <2>1
    <3>2. r[m] = s[m - 1]
      BY <1>3, <3>1
    <3> QED
      BY <1>5, <3>1, <3>2 DEF NextCommitted
  <2> QED
    BY <1>5, <2>1, <2>2, <2>3 DEF NextCommitted
<1>6. ASSUME NEW i \in 1 .. Len(r)
      PROVE  /\ new[r[i]].status = "inFlight" => i = 1
             /\ i < Len(r) => \E j \in i + 1 .. Len(r) : NextCommitted(new, r, i, j)
             /\ new[r[i]].status = "committed" => Under(new, r, i, new[r[i]].cstamp)
  <2>1. CASE i = 1
    <3>1. \E j \in 2 .. Len(r) : NextCommitted(new, r, 1, j)
      <4>1. new[v].status = ver[v].status /\ new[v].committed_prev = ver[v].committed_prev
        BY <1>1 DEF Alike
      <4>2. CASE ver[v].status = "committed"
        <5>1. 2 \in 2 .. Len(r) /\ r[2] = v
          BY <1>1, <1>3
        <5>2. NextCommitted(new, r, 1, 2)
          BY <1>3, <4>1, <4>2, <5>1 DEF NextCommitted
        <5> QED
          BY <5>1, <5>2
      <4>3. CASE ver[v].status # "committed"
        <5>1. Len(s) # 1
          BY <1>1, <4>3 DEF Sound
        <5>2. PICK j \in 1 + 1 .. Len(s) : NextCommitted(new, s, 1, j)
          <6>1. 1 \in 1 .. Len(s) /\ 1 < Len(s)
            BY <1>1, <5>1, MoreThanOne
          <6> QED
            BY <1>2, <6>1 DEF Sound
        <5>3. j + 1 \in 2 .. Len(r) /\ NextCommitted(new, r, 1 + 1, j + 1)
          BY <1>1, <1>5, <5>2
        <5>4. NextCommitted(new, r, 1, j + 1)
          <6>1. r[2] = v
            BY <1>1, <1>3
          <6>2. ASSUME NEW m \in 1 + 1 .. (j + 1) - 1
                PROVE  new[r[m]].status # "committed"
            <7>1. m = 2 \/ m \in (1 + 1) + 1 .. (j + 1) - 1
              BY <1>1
            <7> QED
              BY <4>1, <4>3, <5>3, <6>1, <7>1 DEF NextCommitted
          <6> QED
            BY <1>3, <4>1, <4>3, <5>3, <6>1, <6>2 DEF NextCommitted
        <5> QED
          BY <5>3, <5>4
      <4> QED
        BY <4>2, <4>3
    <3> QED
      BY <1>3, <2>1, <3>1
  <2>2. CASE i # 1
    <3> DEFINE l == i - 1
    <3>1. l \in 1 .. Len(s) /\ i = l + 1 /\ r[i] = s[l] /\ (i < Len(r) => l < Len(s))
      BY <1>1, <1>3, <2>2
    <3> HIDE DEF l
    <3>2. /\ new[s[l]].status = "inFlight" => l = 1
          /\ l < Len(s) => \E j \in l + 1 .. Len(s) : NextCommitted(new, s, l, j)
          /\ new[s[l]].status = "committed" => Under(new, s, l, new[s[l]].cstamp)
      BY <1>2, <3>1 DEF Sound
    <3>3. new[r[i]].status # "inFlight"
      <4>1. l = 1 => s[l] = v
        BY <1>1
      <4>2. new[v].status # "inFlight"
        BY <1>1 DEF Alike
      <4> QED
        BY <3>1, <3>2, <4>1, <4>2
    <3>4. i < Len(r) => \E j \in i + 1 .. Len(r) : NextCommitted(new, r, i, j)
      BY <1>5, <3>1, <3>2
    <3>5. ASSUME new[r[i]].status = "committed"
          PROVE  Under(new, r, i, new[r[i]].cstamp)
      <4>1. \A j \in i + 1 .. Len(r) : j \in 2 .. Len(r) /\ j - 1 \in l + 1 .. Len(s)
        BY <1>1, <3>1
      <4>2. Under(new, s, l, new[s[l]].cstamp)
        BY <3>1, <3>2, <3>5
      <4> QED
        BY <1>3, <3>1, <4>1, <4>2 DEF Under
    <3> QED
      BY <3>3, <3>4, <3>5
  <2> QED
    BY <2>1, <2>2
<1>7. new[s[Len(s)]].status = "committed" /\ new[s[Len(s)]].cstamp = c
  BY <1>2 DEF Sound
<1> QED
  BY <1>4, <1>6, <1>7 DEF Sound

\* The list is cut behind a committed version.
LEMMA SoundCut ==
    ASSUME NEW ver, NEW new, NEW v, NEW s, NEW c, NEW j \in 1 .. Len(s), NEW a,
           Chain(ver, v, s), Sound(ver, s, c), Alike(ver, new, s, 1),
           ver[s[j]].status = "committed",
           Len(a) = j, \A i \in 1 .. j : a[i] = s[i], a # << >>
    PROVE  Sound(new, a, ver[s[j]].cstamp)
<1>1. /\ s \in Seq(Version) /\ Len(s) \in Nat /\ j \in Nat /\ j \in 1 .. j
      /\ \A i \in 1 .. j : i \in 1 .. Len(s)
  BY ChainTyped
<1>2. Sound(new, s, c)
  BY SoundKept
<1>3. \A i \in 1 .. j : new[a[i]] = new[s[i]]
  OBVIOUS
<1>4. new[s[j]].status = "committed" /\ new[s[j]].cstamp = ver[s[j]].cstamp
  BY DEF Alike
<1>5. ASSUME NEW i \in 1 .. j
      PROVE  /\ new[a[i]].status = "inFlight" => i = 1
             /\ i < j => \E l \in i + 1 .. j : NextCommitted(new, a, i, l)
             /\ new[a[i]].status = "committed" => Under(new, a, i, new[a[i]].cstamp)
  <2>1. new[a[i]].status = "inFlight" => i = 1
    BY <1>1, <1>2, <1>3 DEF Sound
  <2>2. ASSUME i < j
        PROVE  \E l \in i + 1 .. j : NextCommitted(new, a, i, l)
    <3>1. PICK l \in i + 1 .. Len(s) : NextCommitted(new, s, i, l)
      BY <1>1, <1>2, <2>2 DEF Sound
    <3>2. l <= j
      <4>1. CASE l > j
        <5>1. j \in i + 1 .. l - 1
          BY <1>1, <2>2, <4>1
        <5> QED
          BY <1>4, <3>1, <5>1 DEF NextCommitted
      <4> QED
        BY <1>1, <4>1
    <3>3. l \in i + 1 .. j /\ \A m \in i + 1 .. l - 1 : m \in 1 .. j
      BY <1>1, <3>2
    <3>4. l \in 1 .. j
      BY <1>1, <3>3
    <3>5. NextCommitted(new, a, i, l)
      BY <1>3, <3>1, <3>3, <3>4 DEF NextCommitted
    <3> QED
      BY <3>3, <3>5
  <2>3. ASSUME new[a[i]].status = "committed"
        PROVE  Under(new, a, i, new[a[i]].cstamp)
    <3>1. \A l \in i + 1 .. j : l \in 1 .. j /\ l \in i + 1 .. Len(s)
      BY <1>1
    <3>2. Under(new, s, i, new[s[i]].cstamp)
      BY <1>1, <1>2, <1>3, <2>3 DEF Sound
    <3> QED
      BY <1>3, <3>1, <3>2 DEF Under
  <2> QED
    BY <2>1, <2>2, <2>3
<1> QED
  BY <1>1, <1>3, <1>4, <1>5 DEF Sound

-----------------------------------------------------------------------------
(* The inductive invariant of the lists *)

Label == {"next", "lead", "begin", "scan", "publish", "run", "read", "write", "stamp",
          "install", "abort", "mainte", "gcVersion", "gc", "done"}

Pointer == Version \cup {NULL}
ReadElement == [key : Key, ver : Pointer]
WriteElement == [key : Key, ver : Version]
QueueElement == [key : Key, ver : Version, cstamp : Nat]
ProSets == Seq(Operation)
ReadSets == Seq(ReadElement)
WriteSetTypes == Seq(WriteElement)
Queues == Seq(QueueElement)
Reserves == Seq(Version)
Positive == Nat \ {0}
KeyStamps == [Key -> Nat]

Worker ==
    [pc : Label, pro_set : ProSets, pos : Positive, txid : Nat, cstamp : Nat,
     i : Nat, ver : Pointer, read_set : ReadSets, write_set : WriteSetTypes,
     gcq : Queues, reuse : Reserves, pre_gc_threshold : Nat, threshold : Nat,
     began : KeyStamps, txn : Nat, try : Nat]

Types ==
    /\ TypeOK
    /\ gcob \in [fmin : Nat, fmax : Nat, smin : Nat, smax : Nat, i : Nat]
    /\ w \in [Thread -> Worker]

\* Where a worker is in its sets.
Positions ==
    \A t \in Thread :
        /\ w[t].pc \in {"read", "write"} =>
              w[t].pos <= Len(w[t].pro_set) /\ w[t].ver \in Version
        /\ w[t].pc = "install" => w[t].pos <= Len(w[t].write_set)
        /\ ~Running(t) => w[t].write_set = << >>

\* What workers know of the counter.
Counters ==
    \A t \in Thread :
        /\ TMT[t].lastcstamp <= CCtr
        /\ w[t].cstamp <= CCtr
        /\ w[t].txid <= CCtr + 1
        /\ w[t].pc = "scan" => w[t].txid <= CCtr

List(k) == From(latest[k])
InList(k, u) == \E i \in 1 .. Len(List(k)) : List(k)[i] = u

Chains == \A k \in Key : Chain(version, latest[k], List(k))
Sounds == \A k \in Key : Sound(version, List(k), min_cstamp[k])

\* Stamps come from the counter, snapshots are at most one ahead of it.
Stamps ==
    \A k \in Key : \A i \in 1 .. Len(List(k)) :
        /\ version[List(k)[i]].cstamp <= CCtr + 1
        /\ version[List(k)[i]].status = "committed" => version[List(k)[i]].cstamp <= CCtr

\* A version is in one list, or put by once, or neither.
Apart ==
    /\ \A k, l \in Key : \A u \in Version : InList(k, u) /\ InList(l, u) => k = l
    /\ \A t \in Thread : \A i \in 1 .. Len(w[t].reuse) : \A k \in Key :
          ~InList(k, w[t].reuse[i])
    /\ \A t, u \in Thread :
          \A i \in 1 .. Len(w[t].reuse), j \in 1 .. Len(w[u].reuse) :
              w[t].reuse[i] = w[u].reuse[j] => t = u /\ i = j

\* The elements of the write set whose versions are still in flight.
Undecided(t) ==
    {i \in 1 .. Len(w[t].write_set) :
        \/ w[t].pc \in {"run", "read", "write"}
        \/ w[t].pc \in {"stamp", "install", "abort"} /\ i >= w[t].pos}

WriteSets ==
    \A t \in Thread :
        /\ \A i, j \in 1 .. Len(w[t].write_set) :
              w[t].write_set[i].key = w[t].write_set[j].key => i = j
        /\ \A i \in Undecided(t) :
              LET e == w[t].write_set[i]
              IN /\ latest[e.key] = e.ver /\ version[e.ver].status = "inFlight"
                 /\ w[t].pc \in {"run", "read", "write", "abort"} =>
                       version[e.ver].cstamp = w[t].txid
                 /\ w[t].pc \in {"stamp", "install"} =>
                       Under(version, List(e.key), 1, w[t].cstamp)
                 /\ w[t].pc = "install" /\ i = w[t].pos =>
                       version[e.ver].cstamp = w[t].cstamp

\* A version in flight is one transaction's.
Owners ==
    \A t, u \in Thread : \A i \in Undecided(t), j \in Undecided(u) :
        w[t].write_set[i].key = w[u].write_set[j].key => t = u

\* A queued version that has not been reclaimed is in its list, as it was queued.
Queued ==
    \A t \in Thread : \A n \in 1 .. Len(w[t].gcq) :
        LET e == w[t].gcq[n]
        IN e.cstamp > min_cstamp[e.key] =>
              /\ InList(e.key, e.ver)
              /\ version[e.ver].cstamp = e.cstamp /\ version[e.ver].status # "inFlight"

Inv == /\ Types /\ Positions /\ Counters /\ Chains /\ Sounds /\ Stamps /\ Apart
       /\ WriteSets /\ Owners /\ Queued

-----------------------------------------------------------------------------
(* Types *)

\* Of w only t's part changes.
OneMoves(t) == \A u \in Thread \ {t} : w'[u] = w[u]

\* What Types says of t's part.
LEMMA WorkerTyped ==
    ASSUME Types, NEW t \in Thread
    PROVE  /\ w[t] \in Worker
           /\ w[t].pos \in Nat /\ w[t].pos >= 1 /\ w[t].pos + 1 \in Positive /\ 1 \in Positive
           /\ w[t].pro_set \in Seq(Operation) /\ Len(w[t].pro_set) \in Nat
           /\ w[t].read_set \in Seq(ReadElement) /\ Len(w[t].read_set) \in Nat
           /\ w[t].write_set \in Seq(WriteElement) /\ Len(w[t].write_set) \in Nat
           /\ w[t].gcq \in Seq(QueueElement) /\ Len(w[t].gcq) \in Nat
           /\ w[t].reuse \in Seq(Version) /\ Len(w[t].reuse) \in Nat
           /\ w[t].began \in [Key -> Nat]
           /\ w[t].ver \in Version \cup {NULL}
           /\ w[t].txid \in Nat /\ w[t].cstamp \in Nat /\ w[t].i \in Nat
           /\ w[t].txn \in Nat /\ w[t].try \in Nat
<1>1. w[t] \in Worker
  BY DEF Types
<1>2. /\ w[t].pos \in Positive /\ w[t].pro_set \in ProSets /\ w[t].read_set \in ReadSets
      /\ w[t].write_set \in WriteSetTypes /\ w[t].gcq \in Queues /\ w[t].reuse \in Reserves
      /\ w[t].began \in KeyStamps /\ w[t].ver \in Pointer
      /\ w[t].txid \in Nat /\ w[t].cstamp \in Nat /\ w[t].i \in Nat
      /\ w[t].txn \in Nat /\ w[t].try \in Nat
  BY <1>1 DEF Worker
<1>3. w[t].pos \in Nat /\ w[t].pos >= 1 /\ w[t].pos + 1 \in Positive /\ 1 \in Positive
  BY <1>2 DEF Positive
<1>4. w[t].pro_set \in Seq(Operation) /\ Len(w[t].pro_set) \in Nat
  BY <1>2, LenProperties DEF ProSets
<1>5. w[t].read_set \in Seq(ReadElement) /\ Len(w[t].read_set) \in Nat
  BY <1>2, LenProperties DEF ReadSets
<1>6. w[t].write_set \in Seq(WriteElement) /\ Len(w[t].write_set) \in Nat
  BY <1>2, LenProperties DEF WriteSetTypes
<1>7. w[t].gcq \in Seq(QueueElement) /\ Len(w[t].gcq) \in Nat
  BY <1>2, LenProperties DEF Queues
<1>8. w[t].reuse \in Seq(Version) /\ Len(w[t].reuse) \in Nat
  BY <1>2, LenProperties DEF Reserves
<1> QED
  BY <1>1, <1>2, <1>3, <1>4, <1>5, <1>6, <1>7, <1>8 DEF KeyStamps, Pointer

LEMMA OperationTyped ==
    ASSUME Types, NEW t \in Thread, w[t].pos \in 1 .. Len(w[t].pro_set)
    PROVE  OpKey(t) \in Key /\ latest[OpKey(t)] \in Version
<1>1. w[t].pro_set[w[t].pos] \in Operation
  BY WorkerTyped
<1>2. OpKey(t) \in Key
  BY <1>1 DEF OpKey, Operation
<1> QED
  BY <1>2 DEF Types, TypeOK

LEMMA QuietTypes ==
    ASSUME Types, Positions, NEW t \in Thread,
           \/ NextProcedure(t) \/ leave(t) \/ tbegin(t) \/ readLocal(t) \/ loadLatest(t)
           \/ twriteAborts(t) \/ twriteWaits(t) \/ twriteMoved(t) \/ takeStamp(t)
           \/ mainteSkips(t) \/ mainte(t) \/ loadThreshold(t) \/ gcEnds(t) \/ gcBusy(t)
           \/ abort(t)
    PROVE  w' \in [Thread -> Worker] /\ OneMoves(t) /\ TypeOK'
<1>0. /\ w \in [Thread -> Worker] /\ w[t] \in Worker
      /\ 1 \in Positive /\ w[t].pos + 1 \in Positive
      /\ w[t].txid \in Nat /\ w[t].try \in Nat /\ w[t].try + 1 \in Nat
  BY WorkerTyped DEF Types
<1>00. CCtr \in Nat /\ CCtr + 1 \in Nat /\ GC_threshold \in Nat /\ ended \in KeyStamps
       /\ latest \in [Key -> Version] /\ TMT[t].lastcstamp \in Nat
  BY DEF Types, TypeOK, KeyStamps
<1> DEFINE Same == UNCHANGED << quit, build, GC_threshold, TMT, latest, version, min_cstamp, ended >>
<1>T. Same /\ CCtr' \in {CCtr, CCtr + 1} => TypeOK'
  BY <1>00 DEF Types, TypeOK
<1> HIDE DEF Same
<1>1. CASE NextProcedure(t)
  <2>1. \A p \in Procedure[build][t][w[t].txn + 1] : p \in ProSets
    <3>1. /\ build \in Builds /\ w[t].txn \in Nat
          /\ w[t].txn < Len(Procedure[build][t])
      BY <1>0, <1>1 DEF NextProcedure, Types, TypeOK, Worker
    <3>2. Procedure[build][t] \in Seq(SUBSET Seq(Operation))
      BY <3>1, SIAssumption
    <3>3. Procedure[build][t][w[t].txn + 1] \in SUBSET Seq(Operation)
      <4>1. w[t].txn + 1 \in 1 .. Len(Procedure[build][t])
        BY <3>1, <3>2
      <4> QED
        BY <3>2, <4>1
    <3> QED
      BY <3>3 DEF ProSets
  <2>2. w' \in [Thread -> Worker] /\ OneMoves(t)
    <3>1. PICK p \in ProSets : w' = [w EXCEPT ![t].pro_set = p, ![t].pc = Retry(t)]
      BY <1>1, <2>1 DEF NextProcedure
    <3> QED
      BY <1>0, <3>1 DEF Worker, Label, Retry, OneMoves
  <2>3. Same /\ CCtr' = CCtr
    BY <1>1 DEF NextProcedure, Same, counters, lists
  <2> QED
    BY <1>T, <2>2, <2>3
<1>2. CASE leave(t)
  <2>2. w' \in [Thread -> Worker] /\ OneMoves(t)
    BY <1>0, <1>2 DEF leave, Worker, Label, OneMoves
  <2>3. Same /\ CCtr' = CCtr
    BY <1>2 DEF leave, Same, counters, lists
  <2> QED
    BY <1>T, <2>2, <2>3
<1>3. CASE tbegin(t)
  <2>1. w' \in [Thread -> Worker] /\ OneMoves(t)
    BY <1>0, <1>00, <1>3 DEF tbegin, Worker, Label, OneMoves
  <2>3. Same /\ CCtr' \in {CCtr, CCtr + 1}
    BY <1>3 DEF tbegin, Same, counters, lists
  <2> QED
    BY <1>T, <2>1, <2>3
<1>4. CASE readLocal(t)
  <2>2. w' \in [Thread -> Worker] /\ OneMoves(t)
    BY <1>0, <1>4 DEF readLocal, Worker, Label, OneMoves
  <2>3. Same /\ CCtr' = CCtr
    BY <1>4 DEF readLocal, Same, counters, lists
  <2> QED
    BY <1>T, <2>2, <2>3
<1>5. CASE loadLatest(t)
  <2>1. OpKey(t) \in Key /\ latest[OpKey(t)] \in Pointer
    <3>1. w[t].pos \in 1 .. Len(w[t].pro_set)
      BY <1>5, WorkerTyped DEF loadLatest
    <3> QED
      BY <3>1, OperationTyped DEF Pointer
  <2>2. w' \in [Thread -> Worker] /\ OneMoves(t)
    BY <1>0, <1>5, <2>1 DEF loadLatest, Worker, Label, OneMoves
  <2>3. Same /\ CCtr' = CCtr
    BY <1>5 DEF loadLatest, Same, counters, lists
  <2> QED
    BY <1>T, <2>2, <2>3
<1>6. CASE twriteAborts(t)
  <2>1. NULL \in Pointer
    BY DEF Pointer
  <2>2. w' \in [Thread -> Worker] /\ OneMoves(t)
    BY <1>0, <1>6, <2>1 DEF twriteAborts, Worker, Label, OneMoves
  <2>3. Same /\ CCtr' = CCtr
    BY <1>6 DEF twriteAborts, Same, counters, lists
  <2> QED
    BY <1>T, <2>2, <2>3
<1>7. CASE twriteWaits(t) \/ twriteMoved(t)
  <2>1. OpKey(t) \in Key /\ latest[OpKey(t)] \in Pointer
    <3>1. w[t].pos \in 1 .. Len(w[t].pro_set)
      BY <1>7, WorkerTyped DEF twriteWaits, twriteMoved, At, Positions
    <3> QED
      BY <3>1, OperationTyped DEF Pointer
  <2>2. w' \in [Thread -> Worker] /\ OneMoves(t)
    BY <1>0, <1>7, <2>1 DEF twriteWaits, twriteMoved, Worker, Label, OneMoves
  <2>3. Same /\ CCtr' = CCtr
    BY <1>7 DEF twriteWaits, twriteMoved, Same, counters, lists
  <2> QED
    BY <1>T, <2>2, <2>3
<1>8. CASE takeStamp(t)
  <2>2. w' \in [Thread -> Worker] /\ OneMoves(t)
    BY <1>0, <1>00, <1>8 DEF takeStamp, Worker, Label, OneMoves
  <2>3. Same /\ CCtr' = CCtr + 1
    BY <1>8 DEF takeStamp, Same, counters, lists
  <2> QED
    BY <1>T, <2>2, <2>3
<1>9. CASE mainteSkips(t) \/ mainte(t) \/ loadThreshold(t) \/ gcEnds(t)
  <2>2. w' \in [Thread -> Worker] /\ OneMoves(t)
    <3>1. \/ w' = [w EXCEPT ![t].pc = "next"]
          \/ w' = [w EXCEPT ![t].pre_gc_threshold = GC_threshold, ![t].pc = "gcVersion"]
          \/ w' = [w EXCEPT ![t].threshold = GC_threshold, ![t].pc = "gc"]
          \/ w' = [w EXCEPT ![t].threshold = 0, ![t].pc = "next"]
      BY <1>9 DEF mainteSkips, mainte, loadThreshold, gcEnds
    <3>2. CASE w' = [w EXCEPT ![t].pc = "next"]
      BY <1>0, <3>2 DEF Worker, Label, OneMoves
    <3>3. CASE w' = [w EXCEPT ![t].pre_gc_threshold = GC_threshold, ![t].pc = "gcVersion"]
      BY <1>0, <1>00, <3>3 DEF Worker, Label, OneMoves
    <3>4. CASE w' = [w EXCEPT ![t].threshold = GC_threshold, ![t].pc = "gc"]
      BY <1>0, <1>00, <3>4 DEF Worker, Label, OneMoves
    <3>5. CASE w' = [w EXCEPT ![t].threshold = 0, ![t].pc = "next"]
      BY <1>0, <3>5 DEF Worker, Label, OneMoves
    <3> QED
      BY <3>1, <3>2, <3>3, <3>4, <3>5
  <2>3. Same /\ CCtr' = CCtr
    BY <1>9 DEF mainteSkips, mainte, loadThreshold, gcEnds, Same, counters, lists
  <2> QED
    BY <1>T, <2>2, <2>3
<1>10. CASE gcBusy(t)
  <2>1. Tail(w[t].gcq) \in Queues
    BY <1>10, WorkerTyped, HeadTailProperties DEF gcBusy, Queues
  <2>2. w' \in [Thread -> Worker] /\ OneMoves(t)
    BY <1>0, <1>10, <2>1 DEF gcBusy, Worker, Label, OneMoves
  <2>3. Same /\ CCtr' = CCtr
    BY <1>10 DEF gcBusy, Same, counters, lists
  <2> QED
    BY <1>T, <2>2, <2>3
<1>11. CASE abort(t)
  <2>1. PICK r, e, z, l : r = << >> /\ e = << >> /\ z = [k \in Key |-> 0] /\ l = Retry(t)
    OBVIOUS
  <2>2. r \in ReadSets /\ e \in WriteSetTypes /\ z \in KeyStamps /\ l \in Label
    BY <2>1 DEF ReadSets, WriteSetTypes, KeyStamps, Retry, Label
  <2>3. w' = [w EXCEPT ![t].read_set = r, ![t].write_set = e, ![t].pos = 1,
                    ![t].txid = 0, ![t].cstamp = 0, ![t].began = z, ![t].pc = l]
    BY Zenon, <1>11, <2>1 DEF abort
  <2>4. w' \in [Thread -> Worker] /\ OneMoves(t)
    BY <1>0, <2>2, <2>3 DEF Worker, OneMoves
  <2>5. Same /\ CCtr' = CCtr
    BY <1>11 DEF abort, Same, counters, lists
  <2> QED
    BY <1>T, <2>4, <2>5
<1> QED
  BY <1>1, <1>2, <1>3, <1>4, <1>5, <1>6, <1>7, <1>8, <1>9, <1>10, <1>11

\* What TypeOK says of a version.
LEMMA VersionTyped ==
    ASSUME Types, NEW v \in Version
    PROVE  /\ version[v].prev \in Pointer /\ version[v].committed_prev \in Pointer
           /\ version[v].cstamp \in Nat
           /\ version[v].status \in {"inFlight", "committed", "aborted"}
BY DEF Types, TypeOK, Pointer

\* The leader's work, the search for the snapshot, and what ends in TMT.
LEMMA MinMaxTyped ==
    ASSUME NEW S, S \subseteq Nat, S # {}, NEW c \in Nat, S \subseteq 0 .. c
    PROVE  Min(S) \in S /\ Max(S) \in S /\ (\A x \in S : Min(S) <= x /\ x <= Max(S))
<1> DEFINE P(x) == x \in S /\ \A y \in S : x <= y
           Q(x) == x \in S /\ \A y \in S : x >= y
<1>1. \E x : P(x)
  BY HasMinimum
<1>2. \E x : Q(x)
  <2> DEFINE T == {n \in 0 .. c : \A y \in S : y <= n}
  <2>1. c \in T /\ T \subseteq Nat
    OBVIOUS
  <2>2. PICK m \in T : \A n \in T : m <= n
    <3> HIDE DEF T
    <3> QED
      BY <2>1, HasMinimum
  <2>3. m \in Nat /\ \A y \in S : y <= m
    OBVIOUS
  <2>4. m \in S
    <3> SUFFICES ASSUME m \notin S PROVE FALSE
      OBVIOUS
    <3>1. \A y \in S : y \in Nat /\ y < m
      BY <2>3
    <3>2. m # 0
      <4>1. PICK y \in S : TRUE
        OBVIOUS
      <4> QED
        BY <3>1, <4>1
    <3>3. m - 1 \in T
      <4>1. m \in 0 .. c /\ m - 1 \in 0 .. c
        BY <3>2
      <4>2. \A y \in S : y <= m - 1
        BY <2>3, <3>1
      <4> QED
        BY <4>1, <4>2
    <3>4. ~(m <= m - 1)
      BY <2>3
    <3> HIDE DEF T
    <3> QED
      BY <2>2, <3>3, <3>4
  <2> QED
    BY <2>3, <2>4
<1>3. P(CHOOSE x : P(x)) /\ Q(CHOOSE x : Q(x))
  <2> HIDE DEF P, Q
  <2> QED
    BY <1>1, <1>2
<1>4. Min(S) = (CHOOSE x : P(x)) /\ Max(S) = (CHOOSE x : Q(x))
  BY DEF Min, Max
<1>5. P(Min(S)) /\ Q(Max(S))
  BY <1>3, <1>4
<1> QED
  BY <1>5

\* The leader, and what a worker publishes.
LEMMA SharedTypes ==
    ASSUME Types, Positions, Counters, NEW t \in Thread,
           \/ chkSecondRange(t) \/ decideGcThreshold(t) \/ scan(t) \/ publish(t) \/ commit(t)
    PROVE  w' \in [Thread -> Worker] /\ OneMoves(t) /\ TypeOK'
           /\ gcob' \in [fmin : Nat, fmax : Nat, smin : Nat, smax : Nat, i : Nat]
           /\ Counters'
<1> DEFINE Gcob == [fmin : Nat, fmax : Nat, smin : Nat, smax : Nat, i : Nat]
           Entry == [txid : Nat, lastcstamp : Nat]
<1>0. /\ w \in [Thread -> Worker] /\ w[t] \in Worker
      /\ 1 \in Positive /\ w[t].txid \in Nat /\ w[t].cstamp \in Nat /\ w[t].txn + 1 \in Nat
      /\ gcob \in Gcob
  BY WorkerTyped DEF Types
<1>00. /\ CCtr \in Nat /\ GC_threshold \in Nat /\ TMT \in [Thread -> Entry]
       /\ ended \in [Key -> Nat] /\ Thread \subseteq Nat
       /\ \A u \in Thread : TMT[u].txid \in Nat /\ TMT[u].lastcstamp \in Nat
  <2>1. /\ CCtr \in Nat /\ GC_threshold \in Nat /\ TMT \in [Thread -> Entry]
        /\ ended \in [Key -> Nat]
    BY DEF Types, TypeOK
  <2>2. Thread \subseteq Nat
    <3>1. Thread = 0 .. Cardinality(Thread) - 1
      BY SIAssumption
    <3>2. \A n : 0 .. n \subseteq Nat
      OBVIOUS
    <3> QED
      BY <3>1, <3>2
  <2>3. ASSUME NEW u \in Thread
        PROVE  TMT[u].txid \in Nat /\ TMT[u].lastcstamp \in Nat
    <3>1. TMT[u] \in Entry
      BY <2>1
    <3> QED
      BY <3>1
  <2> HIDE DEF Entry
  <2> QED
    BY <2>1, <2>2, <2>3
<1>000. \A u \in Thread : w[u].txid \in Nat /\ w[u].cstamp \in Nat
  BY WorkerTyped
<1> DEFINE Same == UNCHANGED << quit, build, latest, version, min_cstamp >>
<1>T. Same /\ CCtr' = CCtr /\ GC_threshold' \in Nat /\ TMT' \in [Thread -> Entry]
      /\ ended' \in [Key -> Nat] => TypeOK'
  BY DEF Types, TypeOK
<1> HIDE DEF Same
<1>1. CASE chkSecondRange(t)
  <2> DEFINE own == IF gcob.i = 1 THEN {TMT[t].txid} ELSE {gcob.smin, gcob.smax}
             S == own \cup {TMT[gcob.i].txid}
  <2>0. /\ gcob.i \in Thread /\ gcob.i \in Nat /\ gcob.i + 1 \in Nat
        /\ gcob' = [gcob EXCEPT !.smin = Min(S), !.smax = Max(S), !.i = @ + 1]
        /\ UNCHANGED << quit, build, CCtr, TMT, GC_threshold, latest, version, min_cstamp, w, ended >>
    BY <1>0, <1>1 DEF chkSecondRange, counters, lists
  <2>1. S \subseteq Nat /\ S # {}
    BY <1>0, <1>00, <2>0
  <2>2. \E c \in Nat : S \subseteq 0 .. c
    <3> DEFINE c == TMT[t].txid + gcob.smin + gcob.smax + TMT[gcob.i].txid
    <3>1. /\ TMT[t].txid \in Nat /\ gcob.smin \in Nat /\ gcob.smax \in Nat
          /\ TMT[gcob.i].txid \in Nat
      BY <1>0, <1>00, <2>0
    <3>2. c \in Nat /\ S \subseteq 0 .. c
      BY <3>1
    <3> QED
      BY <3>2
  <2>3. Min(S) \in Nat /\ Max(S) \in Nat
    <3> HIDE DEF S
    <3> QED
      BY <2>1, <2>2, MinMaxTyped
  <2> HIDE DEF S
  <2>4. gcob' \in Gcob
    BY <1>0, <2>0, <2>3
  <2>5. TypeOK'
    BY <1>T, <1>00, <2>0 DEF Same
  <2>6. OneMoves(t) /\ w' \in [Thread -> Worker]
    BY <1>0, <2>0 DEF OneMoves
  <2> QED
    BY <2>0, <2>4, <2>5, <2>6 DEF Counters
<1>2. CASE decideGcThreshold(t)
  <2>0. /\ w' = [w EXCEPT ![t].pc = "begin"]
        /\ UNCHANGED << quit, build, CCtr, TMT, latest, version, min_cstamp, ended >>
        /\ \/ /\ gcob' = [gcob EXCEPT !.fmin = gcob.smin, !.fmax = gcob.smax, !.smin = 0, !.smax = 0, !.i = 1]
              /\ GC_threshold' = gcob.fmin
           \/ /\ gcob' = [gcob EXCEPT !.smin = 0, !.smax = 0, !.i = 1]
              /\ GC_threshold' = GC_threshold
    BY <1>2 DEF decideGcThreshold, counters, lists
  <2>1. gcob' \in Gcob /\ GC_threshold' \in Nat
    <3>1. /\ gcob.fmin \in Nat /\ gcob.smin \in Nat /\ gcob.smax \in Nat
          /\ gcob \in Gcob
      BY <1>0
    <3>2. gcob' \in Gcob
      <4>1. CASE gcob' = [gcob EXCEPT !.fmin = gcob.smin, !.fmax = gcob.smax, !.smin = 0,
                                      !.smax = 0, !.i = 1]
        BY <3>1, <4>1
      <4>2. CASE gcob' = [gcob EXCEPT !.smin = 0, !.smax = 0, !.i = 1]
        BY <3>1, <4>2
      <4> QED
        BY <2>0, <4>1, <4>2
    <3> QED
      BY <1>00, <2>0, <3>1, <3>2
  <2>2. w' \in [Thread -> Worker] /\ OneMoves(t)
    BY <1>0, <2>0 DEF Worker, Label, OneMoves
  <2>3. TypeOK'
    BY <1>T, <1>00, <2>0, <2>1 DEF Same
  <2>4. \A u \in Thread : w'[u].txid = w[u].txid /\ w'[u].cstamp = w[u].cstamp
                          /\ (w'[u].pc = "scan" => w[u].pc = "scan")
    BY <1>0, <2>0 DEF Worker
  <2> QED
    BY <2>0, <2>1, <2>2, <2>3, <2>4 DEF Counters
<1>3. CASE scan(t)
  <2> DEFINE S == {w[t].txid} \cup {TMT[u].lastcstamp : u \in NextSeen(t)}
  <2>0. /\ UNCHANGED << quit, build, CCtr, TMT, GC_threshold, gcob, latest, version, min_cstamp, ended >>
        /\ \/ w' = [w EXCEPT ![t].txid = Max(S) + 1, ![t].i = 0, ![t].pc = "publish"]
           \/ \E u \in NextSeen(t) : w' = [w EXCEPT ![t].txid = Max(S), ![t].i = u + 1]
    BY <1>3 DEF scan, counters, lists
  <2>1. NextSeen(t) \subseteq Thread
    BY DEF NextSeen, Unseen
  <2>2. S \subseteq 0 .. CCtr /\ S # {} /\ S \subseteq Nat
    <3>1. w[t].txid <= CCtr
      BY <1>3 DEF scan, At, Counters
    <3>2. \A u \in Thread : TMT[u].lastcstamp <= CCtr
      BY DEF Counters
    <3>3. ASSUME NEW x \in S
          PROVE  x \in Nat /\ x <= CCtr
      <4>1. x = w[t].txid \/ \E u \in NextSeen(t) : x = TMT[u].lastcstamp
        OBVIOUS
      <4> QED
        BY <1>0, <1>00, <2>1, <3>1, <3>2, <4>1
    <3>4. w[t].txid \in S
      OBVIOUS
    <3> HIDE DEF S
    <3> QED
      BY <1>00, <3>3, <3>4
  <2>3. Max(S) \in Nat /\ Max(S) <= CCtr
    <3> HIDE DEF S
    <3>1. Max(S) \in S
      BY <1>00, <2>2, MinMaxTyped
    <3>2. Max(S) \in 0 .. CCtr
      BY <2>2, <3>1
    <3> QED
      BY <1>00, <3>2
  <2> HIDE DEF S
  <2>4. /\ w' \in [Thread -> Worker] /\ OneMoves(t)
        /\ w'[t].cstamp = w[t].cstamp
        /\ w'[t].txid <= CCtr + 1 /\ (w'[t].pc = "scan" => w'[t].txid <= CCtr)
    <3>1. CASE w' = [w EXCEPT ![t].txid = Max(S) + 1, ![t].i = 0, ![t].pc = "publish"]
      <4>1. Max(S) + 1 \in Nat /\ Max(S) + 1 <= CCtr + 1
        BY <1>00, <2>3
      <4> QED
        BY <1>0, <3>1, <4>1 DEF Worker, Label, OneMoves
    <3>2. ASSUME NEW u \in NextSeen(t), w' = [w EXCEPT ![t].txid = Max(S), ![t].i = u + 1]
          PROVE  /\ w' \in [Thread -> Worker] /\ OneMoves(t)
                 /\ w'[t].cstamp = w[t].cstamp
                 /\ w'[t].txid <= CCtr + 1 /\ w'[t].txid <= CCtr
      <4>1. u \in Nat
        BY <1>00, <2>1
      <4>2. u + 1 \in Nat /\ Max(S) <= CCtr + 1
        BY <1>00, <2>3, <4>1
      <4>3. w' \in [Thread -> Worker] /\ OneMoves(t)
        BY <1>0, <2>3, <3>2, <4>2 DEF Worker, Label, OneMoves
      <4>4. w'[t].cstamp = w[t].cstamp /\ w'[t].txid = Max(S)
        BY <1>0, <3>2 DEF Worker
      <4> QED
        BY <2>3, <4>2, <4>3, <4>4
    <3>3. CASE \E u \in NextSeen(t) : w' = [w EXCEPT ![t].txid = Max(S), ![t].i = u + 1]
      BY Zenon, <3>2, <3>3
    <3> QED
      BY Zenon, <2>0, <3>1, <3>3
  <2>5. TypeOK'
    BY <1>T, <1>00, <2>0 DEF Same
  <2> QED
    BY <1>0, <2>0, <2>4, <2>5 DEF Counters, OneMoves
<1>4. CASE publish(t)
  <2>0. /\ UNCHANGED << quit, build, CCtr, GC_threshold, gcob, latest, version, min_cstamp, ended >>
        /\ TMT' = [TMT EXCEPT ![t].txid = w[t].txid]
        /\ w' = [w EXCEPT ![t].pos = 1, ![t].pc = "run"]
    BY <1>4 DEF publish, counters, lists
  <2>1. TMT' \in [Thread -> Entry] /\ \A u \in Thread : TMT'[u].lastcstamp = TMT[u].lastcstamp
    BY <1>0, <1>00, <2>0
  <2>2. w' \in [Thread -> Worker] /\ OneMoves(t)
    BY <1>0, <2>0 DEF Worker, Label, OneMoves
  <2>3. TypeOK'
    BY <1>T, <1>00, <2>0, <2>1 DEF Same
  <2>4. \A u \in Thread : w'[u].txid = w[u].txid /\ w'[u].cstamp = w[u].cstamp
                          /\ (w'[u].pc = "scan" => w[u].pc = "scan")
    BY <1>0, <2>0 DEF Worker
  <2> QED
    BY <1>0, <2>0, <2>1, <2>2, <2>3, <2>4 DEF Counters
<1>5. CASE commit(t)
  <2>0. /\ UNCHANGED << quit, build, CCtr, GC_threshold, gcob, latest, version, min_cstamp >>
        /\ TMT' = [TMT EXCEPT ![t].lastcstamp = w[t].cstamp]
        /\ ended' = [k \in Key |-> IF InSet(w[t].write_set, k)
                                   THEN Max({ended[k], w[t].cstamp}) ELSE ended[k]]
        /\ w' = [w EXCEPT ![t].read_set = << >>, ![t].write_set = << >>, ![t].pos = 1,
                      ![t].txid = 0, ![t].cstamp = 0, ![t].began = [k \in Key |-> 0],
                      ![t].txn = @ + 1, ![t].pc = "mainte"]
    BY <1>5 DEF commit, counters, lists
  <2>1. TMT' \in [Thread -> Entry]
        /\ \A u \in Thread : TMT'[u].lastcstamp = IF u = t THEN w[t].cstamp ELSE TMT[u].lastcstamp
    BY <1>0, <1>00, <2>0
  <2>2. ended' \in [Key -> Nat]
    <3>1. ASSUME NEW k \in Key PROVE Max({ended[k], w[t].cstamp}) \in Nat
      <4> DEFINE S == {ended[k], w[t].cstamp}
                 c == ended[k] + w[t].cstamp
      <4>1. ended[k] \in Nat /\ c \in Nat /\ S \subseteq Nat /\ S # {} /\ S \subseteq 0 .. c
        BY <1>0, <1>00
      <4> HIDE DEF S, c
      <4>2. Max(S) \in S
        BY <4>1, MinMaxTyped
      <4> QED
        BY <4>1, <4>2 DEF S
    <3> QED
      BY <1>00, <2>0, <3>1
  <2>3. w' \in [Thread -> Worker] /\ OneMoves(t) /\ w'[t].txid = 0 /\ w'[t].cstamp = 0
    <3>1. PICK r, e, z : r = << >> /\ e = << >> /\ z = [k \in Key |-> 0]
      OBVIOUS
    <3>2. r \in ReadSets /\ e \in WriteSetTypes /\ z \in KeyStamps
      BY <3>1 DEF ReadSets, WriteSetTypes, KeyStamps
    <3>3. w' = [w EXCEPT ![t].read_set = r, ![t].write_set = e, ![t].pos = 1,
                      ![t].txid = 0, ![t].cstamp = 0, ![t].began = z,
                      ![t].txn = @ + 1, ![t].pc = "mainte"]
      BY Zenon, <2>0, <3>1
    <3> QED
      BY <1>0, <3>2, <3>3 DEF Worker, Label, OneMoves
  <2>4. TypeOK'
    BY <1>T, <1>00, <2>0, <2>1, <2>2 DEF Same
  <2>5. Counters'
    <3>1. w'[t].pc = "mainte"
      BY <1>0, <2>0 DEF Worker
    <3>2. ASSUME NEW u \in Thread
          PROVE  /\ TMT'[u].lastcstamp <= CCtr /\ w'[u].cstamp <= CCtr
                 /\ w'[u].txid <= CCtr + 1 /\ (w'[u].pc = "scan" => w'[u].txid <= CCtr)
      <4>1. CASE u = t
        <5>1. w[t].cstamp <= CCtr
          BY DEF Counters
        <5> QED
          BY <1>00, <2>1, <2>3, <3>1, <4>1, <5>1
      <4>2. CASE u # t
        <5>1. w'[u] = w[u] /\ TMT'[u].lastcstamp = TMT[u].lastcstamp
          BY <2>1, <2>3, <4>2 DEF OneMoves
        <5> QED
          BY <5>1 DEF Counters
      <4> QED
        BY <4>1, <4>2
    <3> QED
      BY <2>0, <3>2 DEF Counters
  <2> QED
    BY <1>0, <2>0, <2>3, <2>4, <2>5
<1> QED
  BY <1>1, <1>2, <1>3, <1>4, <1>5

-----------------------------------------------------------------------------
(* What the actions that leave the lists alone do to a worker *)

\* t keeps what it is to decide, or has decided, or takes its stamp.
Steady(t) ==
    \/ /\ w'[t].write_set = w[t].write_set /\ w'[t].pc = w[t].pc /\ w'[t].pos = w[t].pos
       /\ w'[t].txid = w[t].txid /\ w'[t].cstamp = w[t].cstamp
    \/ w'[t].write_set = << >>
    \/ /\ w'[t].write_set = w[t].write_set /\ w[t].pc \in {"run", "read", "write"}
       /\ w'[t].txid = w[t].txid
       /\ \/ w'[t].pc \in {"run", "read", "write", "abort"}
          \/ w'[t].pc = "stamp" /\ w'[t].cstamp = CCtr + 1

\* t's queue is as it was, or without its first element.
SameQueues(t) ==
    /\ w'[t].reuse = w[t].reuse
    /\ \/ w'[t].gcq = w[t].gcq
       \/ w[t].gcq # << >> /\ w'[t].gcq = Tail(w[t].gcq)

\* Positions and Counters, of t.
PositionsAt(t) ==
    /\ w[t].pc \in {"read", "write"} =>
          w[t].pos <= Len(w[t].pro_set) /\ w[t].ver \in Version
    /\ w[t].pc = "install" => w[t].pos <= Len(w[t].write_set)
    /\ ~Running(t) => w[t].write_set = << >>
CountersAt(t) ==
    /\ w[t].cstamp <= CCtr
    /\ w[t].txid <= CCtr + 1
    /\ w[t].pc = "scan" => w[t].txid <= CCtr

LEMMA Elsewhere ==
    ASSUME Positions, NEW t \in Thread, OneMoves(t), PositionsAt(t)'
    PROVE  Positions'
<1>1. ASSUME NEW u \in Thread
      PROVE  PositionsAt(u)'
  <2>1. CASE u = t
    BY <2>1
  <2>2. CASE u # t
    <3>1. w'[u] = w[u]
      BY <2>2 DEF OneMoves
    <3>2. PositionsAt(u)
      BY DEF Positions, PositionsAt
    <3> QED
      BY <3>1, <3>2 DEF PositionsAt, Running
  <2> QED
    BY <2>1, <2>2
<1> QED
  BY <1>1 DEF Positions, PositionsAt

LEMMA CountersElsewhere ==
    ASSUME Types, Counters, NEW t \in Thread, OneMoves(t), CountersAt(t)',
           CCtr' \in {CCtr, CCtr + 1}, UNCHANGED TMT
    PROVE  Counters'
<1>1. ASSUME NEW u \in Thread
      PROVE  CountersAt(u)' /\ TMT'[u].lastcstamp <= CCtr'
  <2>0. /\ CCtr \in Nat /\ TMT[u].lastcstamp \in Nat /\ TMT[u].lastcstamp <= CCtr
        /\ w[u].txid \in Nat /\ w[u].cstamp \in Nat
    <3>1. TMT[u] \in [txid : Nat, lastcstamp : Nat] /\ CCtr \in Nat
      BY DEF Types, TypeOK
    <3> QED
      BY <3>1, WorkerTyped DEF Counters
  <2>1. TMT'[u].lastcstamp <= CCtr'
    BY <2>0
  <2>2. CASE u = t
    BY <2>1, <2>2
  <2>3. CASE u # t
    <3>1. w'[u] = w[u]
      BY <2>3 DEF OneMoves
    <3>2. CountersAt(u)
      BY DEF Counters, CountersAt
    <3> QED
      BY <2>0, <2>1, <3>1, <3>2 DEF CountersAt
  <2> QED
    BY <2>2, <2>3
<1> QED
  BY <1>1 DEF Counters, CountersAt

LEMMA QuietMoves ==
    ASSUME Types, Positions, Counters, NEW t \in Thread,
           \/ NextProcedure(t) \/ leave(t) \/ tbegin(t) \/ readLocal(t) \/ loadLatest(t)
           \/ twriteAborts(t) \/ twriteWaits(t) \/ twriteMoved(t) \/ takeStamp(t)
           \/ mainteSkips(t) \/ mainte(t) \/ loadThreshold(t) \/ gcEnds(t) \/ gcBusy(t)
           \/ abort(t)
    PROVE  Steady(t) /\ SameQueues(t) /\ PositionsAt(t)' /\ CountersAt(t)'
<1>0. w \in [Thread -> Worker] /\ w[t] \in Worker /\ t \in Thread
  BY WorkerTyped DEF Types
<1>00. /\ CCtr \in Nat /\ w[t].txid \in Nat /\ w[t].cstamp \in Nat
       /\ TMT[t].lastcstamp \in Nat /\ TMT[t].lastcstamp <= CCtr
  <2>1. TMT[t] \in [txid : Nat, lastcstamp : Nat] /\ CCtr \in Nat
    BY DEF Types, TypeOK
  <2> QED
    BY <2>1, WorkerTyped DEF Counters
<1>000. PositionsAt(t) /\ CountersAt(t)
  BY DEF Positions, PositionsAt, Counters, CountersAt
<1>r. Running(t) <=> w[t].pc \in {"run", "read", "write", "stamp", "install", "abort"}
  BY DEF Running
<1>1. CASE NextProcedure(t)
  <2>1. /\ w[t].pc = "next"
        /\ w'[t].pc \in {"lead", "begin"}
        /\ w'[t].write_set = w[t].write_set
        /\ w'[t].txid = w[t].txid
        /\ w'[t].cstamp = w[t].cstamp
        /\ w'[t].gcq = w[t].gcq
        /\ w'[t].reuse = w[t].reuse
        /\ CCtr' = CCtr
    <3>1. PICK p : w' = [w EXCEPT ![t].pro_set = p, ![t].pc = Retry(t)]
      BY <1>1 DEF NextProcedure
    <3> QED
      BY <1>0, <1>1, <3>1 DEF NextProcedure, At, Worker, counters, Retry
  <2> QED
    BY <1>00, <1>000, <1>r, <2>1 DEF Steady, SameQueues, PositionsAt, CountersAt, Running
<1>2. CASE leave(t)
  <2>1. /\ w[t].pc \in {"next", "begin"}
        /\ w'[t].pc = "done"
        /\ w'[t].write_set = w[t].write_set
        /\ w'[t].txid = w[t].txid
        /\ w'[t].cstamp = w[t].cstamp
        /\ w'[t].gcq = w[t].gcq
        /\ w'[t].reuse = w[t].reuse
        /\ CCtr' = CCtr
    BY <1>0, <1>2 DEF leave, At, Worker, counters
  <2> QED
    BY <1>00, <1>000, <1>r, <2>1 DEF Steady, SameQueues, PositionsAt, CountersAt, Running
<1>3. CASE mainteSkips(t)
  <2>1. /\ w[t].pc = "mainte"
        /\ w'[t].pc = "next"
        /\ w'[t].write_set = w[t].write_set
        /\ w'[t].txid = w[t].txid
        /\ w'[t].cstamp = w[t].cstamp
        /\ w'[t].gcq = w[t].gcq
        /\ w'[t].reuse = w[t].reuse
        /\ CCtr' = CCtr
    BY <1>0, <1>3 DEF mainteSkips, At, Worker, counters
  <2> QED
    BY <1>00, <1>000, <1>r, <2>1 DEF Steady, SameQueues, PositionsAt, CountersAt, Running
<1>4. CASE mainte(t)
  <2>1. /\ w[t].pc = "mainte"
        /\ w'[t].pc = "gcVersion"
        /\ w'[t].write_set = w[t].write_set
        /\ w'[t].txid = w[t].txid
        /\ w'[t].cstamp = w[t].cstamp
        /\ w'[t].gcq = w[t].gcq
        /\ w'[t].reuse = w[t].reuse
        /\ CCtr' = CCtr
    BY <1>0, <1>4 DEF mainte, At, Worker, counters
  <2> QED
    BY <1>00, <1>000, <1>r, <2>1 DEF Steady, SameQueues, PositionsAt, CountersAt, Running
<1>5. CASE loadThreshold(t)
  <2>1. /\ w[t].pc = "gcVersion"
        /\ w'[t].pc = "gc"
        /\ w'[t].write_set = w[t].write_set
        /\ w'[t].txid = w[t].txid
        /\ w'[t].cstamp = w[t].cstamp
        /\ w'[t].gcq = w[t].gcq
        /\ w'[t].reuse = w[t].reuse
        /\ CCtr' = CCtr
    BY <1>0, <1>5 DEF loadThreshold, At, Worker, counters
  <2> QED
    BY <1>00, <1>000, <1>r, <2>1 DEF Steady, SameQueues, PositionsAt, CountersAt, Running
<1>6. CASE gcEnds(t)
  <2>1. /\ w[t].pc = "gc"
        /\ w'[t].pc = "next"
        /\ w'[t].write_set = w[t].write_set
        /\ w'[t].txid = w[t].txid
        /\ w'[t].cstamp = w[t].cstamp
        /\ w'[t].gcq = w[t].gcq
        /\ w'[t].reuse = w[t].reuse
        /\ CCtr' = CCtr
    BY <1>0, <1>6 DEF gcEnds, At, Worker, counters
  <2> QED
    BY <1>00, <1>000, <1>r, <2>1 DEF Steady, SameQueues, PositionsAt, CountersAt, Running
<1>7. CASE gcBusy(t)
  <2>1. /\ w[t].pc = "gc"
        /\ w'[t].pc = "gc"
        /\ w[t].gcq # << >>
        /\ w'[t].gcq = Tail(w[t].gcq)
        /\ w'[t].write_set = w[t].write_set
        /\ w'[t].txid = w[t].txid
        /\ w'[t].cstamp = w[t].cstamp
        /\ w'[t].reuse = w[t].reuse
        /\ CCtr' = CCtr
    BY <1>0, <1>7 DEF gcBusy, At, Worker, counters
  <2> QED
    BY <1>00, <1>000, <1>r, <2>1 DEF Steady, SameQueues, PositionsAt, CountersAt, Running
<1>8. CASE tbegin(t)
  <2>1. /\ w[t].pc = "begin"
        /\ w'[t].pc \in {"scan", "publish"}
        /\ \/ w'[t].pc = "scan" /\ w'[t].txid = TMT[t].lastcstamp /\ CCtr' = CCtr
           \/ w'[t].pc = "publish" /\ w'[t].txid = CCtr + 1 /\ CCtr' = CCtr + 1
        /\ w'[t].write_set = w[t].write_set
        /\ w'[t].cstamp = w[t].cstamp
        /\ w'[t].gcq = w[t].gcq
        /\ w'[t].reuse = w[t].reuse
    BY <1>0, <1>8 DEF tbegin, At, Worker, counters
  <2> QED
    BY <1>00, <1>000, <1>r, <2>1 DEF Steady, SameQueues, PositionsAt, CountersAt, Running
<1>9. CASE readLocal(t)
  <2>1. /\ w[t].pc = "run"
        /\ w'[t].pc = "run"
        /\ w'[t].write_set = w[t].write_set
        /\ w'[t].txid = w[t].txid
        /\ w'[t].cstamp = w[t].cstamp
        /\ w'[t].gcq = w[t].gcq
        /\ w'[t].reuse = w[t].reuse
        /\ CCtr' = CCtr
    BY <1>0, <1>9 DEF readLocal, At, Worker, counters
  <2> QED
    BY <1>00, <1>000, <1>r, <2>1 DEF Steady, SameQueues, PositionsAt, CountersAt, Running
<1>10. CASE loadLatest(t)
  <2>0. latest[OpKey(t)] \in Version
    <3>1. w[t].pos \in 1 .. Len(w[t].pro_set)
      BY <1>10, WorkerTyped DEF loadLatest
    <3> QED
      BY <3>1, OperationTyped
  <2>1. /\ w'[t].ver = latest[OpKey(t)]
        /\ w[t].pc = "run"
        /\ w'[t].pc \in {"read", "write"}
        /\ w'[t].pos <= Len(w'[t].pro_set)
        /\ w'[t].write_set = w[t].write_set
        /\ w'[t].txid = w[t].txid
        /\ w'[t].cstamp = w[t].cstamp
        /\ w'[t].gcq = w[t].gcq
        /\ w'[t].reuse = w[t].reuse
        /\ CCtr' = CCtr
    BY <1>0, <1>10 DEF loadLatest, At, Worker, counters
  <2> QED
    BY <2>0, <1>00, <1>000, <1>r, <2>1 DEF Steady, SameQueues, PositionsAt, CountersAt, Running
<1>11. CASE twriteAborts(t)
  <2>1. /\ w[t].pc = "write"
        /\ w'[t].pc = "abort"
        /\ w'[t].write_set = w[t].write_set
        /\ w'[t].txid = w[t].txid
        /\ w'[t].cstamp = w[t].cstamp
        /\ w'[t].gcq = w[t].gcq
        /\ w'[t].reuse = w[t].reuse
        /\ CCtr' = CCtr
    BY <1>0, <1>11 DEF twriteAborts, At, Worker, counters
  <2> QED
    BY <1>00, <1>000, <1>r, <2>1 DEF Steady, SameQueues, PositionsAt, CountersAt, Running
<1>12. CASE twriteWaits(t)
  <2>0. latest[OpKey(t)] \in Version
    <3>1. w[t].pos \in 1 .. Len(w[t].pro_set)
      BY <1>0, <1>00, <1>000, <1>12, WorkerTyped DEF twriteWaits, At, PositionsAt
    <3> QED
      BY <3>1, OperationTyped
  <2>1. /\ w'[t].ver = latest[OpKey(t)]
        /\ w[t].pc = "write"
        /\ w'[t].pc = "write"
        /\ w'[t].pos = w[t].pos
        /\ w'[t].pro_set = w[t].pro_set
        /\ w'[t].write_set = w[t].write_set
        /\ w'[t].txid = w[t].txid
        /\ w'[t].cstamp = w[t].cstamp
        /\ w'[t].gcq = w[t].gcq
        /\ w'[t].reuse = w[t].reuse
        /\ CCtr' = CCtr
    BY <1>0, <1>12 DEF twriteWaits, At, Worker, counters
  <2> QED
    BY <2>0, <1>00, <1>000, <1>r, <2>1 DEF Steady, SameQueues, PositionsAt, CountersAt, Running
<1>13. CASE twriteMoved(t)
  <2>0. latest[OpKey(t)] \in Version
    <3>1. w[t].pos \in 1 .. Len(w[t].pro_set)
      BY <1>0, <1>00, <1>000, <1>13, WorkerTyped DEF twriteMoved, At, PositionsAt
    <3> QED
      BY <3>1, OperationTyped
  <2>1. /\ w'[t].ver = latest[OpKey(t)]
        /\ w[t].pc = "write"
        /\ w'[t].pc = "write"
        /\ w'[t].pos = w[t].pos
        /\ w'[t].pro_set = w[t].pro_set
        /\ w'[t].write_set = w[t].write_set
        /\ w'[t].txid = w[t].txid
        /\ w'[t].cstamp = w[t].cstamp
        /\ w'[t].gcq = w[t].gcq
        /\ w'[t].reuse = w[t].reuse
        /\ CCtr' = CCtr
    BY <1>0, <1>13 DEF twriteMoved, At, Worker, counters
  <2> QED
    BY <2>0, <1>00, <1>000, <1>r, <2>1 DEF Steady, SameQueues, PositionsAt, CountersAt, Running
<1>14. CASE takeStamp(t)
  <2>1. /\ w[t].pc = "run"
        /\ w'[t].pc = "stamp"
        /\ w'[t].cstamp = CCtr + 1
        /\ CCtr' = CCtr + 1
        /\ w'[t].write_set = w[t].write_set
        /\ w'[t].txid = w[t].txid
        /\ w'[t].gcq = w[t].gcq
        /\ w'[t].reuse = w[t].reuse
    BY <1>0, <1>14 DEF takeStamp, At, Worker, counters
  <2> QED
    BY <1>00, <1>000, <1>r, <2>1 DEF Steady, SameQueues, PositionsAt, CountersAt, Running
<1>15. CASE abort(t)
  <2>1. /\ w'[t].pc \in {"lead", "begin"}
        /\ w'[t].write_set = << >>
        /\ w'[t].txid = 0
        /\ w'[t].cstamp = 0
        /\ w'[t].gcq = w[t].gcq
        /\ w'[t].reuse = w[t].reuse
        /\ CCtr' = CCtr
    BY <1>0, <1>15 DEF abort, At, Worker, counters, Retry
  <2> QED
    BY <1>00, <1>000, <1>r, <2>1 DEF Steady, SameQueues, PositionsAt, CountersAt, Running
<1> QED
  BY <1>1, <1>2, <1>3, <1>4, <1>5, <1>6, <1>7, <1>8, <1>9, <1>10, <1>11, <1>12, <1>13, <1>14, <1>15

-----------------------------------------------------------------------------
(* Lists in a step *)

LEMMA ListIs ==
    ASSUME NEW k
    PROVE  /\ List(k) = FromIn(version, latest[k])
           /\ List(k)' = FromIn(version', latest'[k])
BY Zenon DEF List, From, FromIn, StepIn, NextIn

\* From a chain, the list.
LEMMA NewList ==
    ASSUME NEW k, NEW s, Chain(version', latest'[k], s)
    PROVE  List(k)' = s
BY ListIs, FromChain

\* Nothing is written to a version or a record.
Unmoved == version' = version /\ latest' = latest

LEMMA ListsUnmoved ==
    ASSUME Unmoved
    PROVE  /\ \A k : List(k)' = List(k)
           /\ \A k, u : InList(k, u)' <=> InList(k, u)
<1>1. ASSUME NEW k PROVE List(k)' = List(k)
  BY ListIs DEF Unmoved
<1>2. ASSUME NEW k, NEW u PROVE InList(k, u)' <=> InList(k, u)
  BY <1>1 DEF InList
<1> QED
  BY <1>1, <1>2

LEMMA QueueShortened ==
    ASSUME NEW S, NEW s \in Seq(S), NEW r, r = s \/ (s # << >> /\ r = Tail(s))
    PROVE  \A n \in 1 .. Len(r) : \E m \in 1 .. Len(s) : r[n] = s[m]
<1>1. CASE r = s
  BY <1>1
<1>2. CASE s # << >> /\ r = Tail(s)
  <2>1. Len(r) = Len(s) - 1 /\ \A n \in 1 .. Len(r) : r[n] = s[n + 1] /\ Len(s) \in Nat
    BY <1>2
  <2>2. \A n \in 1 .. Len(r) : n + 1 \in 1 .. Len(s)
    BY <2>1
  <2> QED
    BY <2>1, <2>2
<1> QED
  BY <1>1, <1>2

\* A step that leaves the lists alone keeps what the invariant says of them.
LEMMA QuietStep ==
    ASSUME Inv, Types', Unmoved, min_cstamp' = min_cstamp, CCtr' \in {CCtr, CCtr + 1},
           \A t \in Thread : Steady(t) /\ SameQueues(t),
           \A t \in Thread : w'[t] = w[t] \/ PositionsAt(t)'
    PROVE  Chains' /\ Sounds' /\ Stamps' /\ Apart' /\ WriteSets' /\ Owners' /\ Queued'
<1>0. /\ \A k : List(k)' = List(k)
      /\ \A k, u : InList(k, u)' <=> InList(k, u)
      /\ version' = version /\ latest' = latest
  BY ListsUnmoved DEF Unmoved
<1>1. Chains'
  BY <1>0 DEF Inv, Chains
<1>2. Sounds'
  BY <1>0 DEF Inv, Sounds
<1>3. Stamps'
  <2>1. CCtr \in Nat /\ \A v \in Version : version[v].cstamp \in Nat
    BY VersionTyped DEF Inv, Types, TypeOK
  <2> SUFFICES ASSUME NEW k \in Key, NEW i \in 1 .. Len(List(k))
               PROVE  /\ version[List(k)[i]].cstamp <= CCtr' + 1
                      /\ version[List(k)[i]].status = "committed" => version[List(k)[i]].cstamp <= CCtr'
    BY <1>0 DEF Stamps
  <2>2. List(k)[i] \in Version
    BY ChainTyped DEF Inv, Chains
  <2>3. /\ version[List(k)[i]].cstamp <= CCtr + 1
        /\ version[List(k)[i]].status = "committed" => version[List(k)[i]].cstamp <= CCtr
    BY DEF Inv, Stamps
  <2> QED
    BY <2>1, <2>2, <2>3
<1>4. Apart'
  <2>1. \A t \in Thread : w'[t].reuse = w[t].reuse
    BY DEF SameQueues
  <2> QED
    BY <1>0, <2>1 DEF Inv, Apart
<1>5. ASSUME NEW t \in Thread
      PROVE  /\ Undecided(t)' \subseteq Undecided(t)
             /\ \A i \in Undecided(t)' : w'[t].write_set = w[t].write_set
             /\ \A i \in Undecided(t)' :
                  LET e == w[t].write_set[i]
                  IN /\ w'[t].pc \in {"run", "read", "write", "abort"} =>
                           version[e.ver].cstamp = w'[t].txid
                     /\ w'[t].pc \in {"stamp", "install"} =>
                           Under(version, List(e.key), 1, w'[t].cstamp)
                     /\ w'[t].pc = "install" /\ i = w'[t].pos =>
                           version[e.ver].cstamp = w'[t].cstamp
  <2>1. CASE w'[t].write_set = << >>
    <3>1. Undecided(t)' = {}
      BY <2>1 DEF Undecided
    <3> QED
      BY <3>1
  <2>2. CASE /\ w'[t].write_set = w[t].write_set /\ w'[t].pc = w[t].pc /\ w'[t].pos = w[t].pos
             /\ w'[t].txid = w[t].txid /\ w'[t].cstamp = w[t].cstamp
    <3>1. Undecided(t)' = Undecided(t)
      BY <2>2 DEF Undecided
    <3> QED
      BY <2>2, <3>1 DEF Inv, WriteSets
  <2>3. CASE /\ w'[t].write_set = w[t].write_set /\ w[t].pc \in {"run", "read", "write"}
             /\ w'[t].txid = w[t].txid
             /\ \/ w'[t].pc \in {"run", "read", "write", "abort"}
                \/ w'[t].pc = "stamp" /\ w'[t].cstamp = CCtr + 1
    <3>1. Undecided(t) = 1 .. Len(w[t].write_set)
      BY <2>3 DEF Undecided
    <3>2. Undecided(t)' \subseteq Undecided(t)
      BY <2>3, <3>1 DEF Undecided
    <3>3. ASSUME NEW i \in Undecided(t), w'[t].pc = "stamp", w'[t].cstamp = CCtr + 1
          PROVE  Under(version, List(w[t].write_set[i].key), 1, w'[t].cstamp)
      <4> DEFINE k == w[t].write_set[i].key
      <4>1. k \in Key
        <5>1. w[t].write_set[i] \in WriteElement
          BY <3>1, WorkerTyped DEF Inv
        <5> QED
          BY <5>1 DEF WriteElement
      <4> HIDE DEF k
      <4>2. Chain(version, latest[k], List(k))
        BY <4>1 DEF Inv, Chains
      <4>3. Len(List(k)) \in Nat /\ \A j \in 1 + 1 .. Len(List(k)) : j \in 1 .. Len(List(k))
        BY <4>2, ChainTyped
      <4>4. ASSUME NEW j \in 1 + 1 .. Len(List(k))
            PROVE  /\ version[List(k)[j]].cstamp <= CCtr + 1
                   /\ version[List(k)[j]].status = "committed" =>
                         version[List(k)[j]].cstamp # CCtr + 1
        <5>1. List(k)[j] \in Version
          BY <4>2, <4>3, ChainTyped
        <5>2. version[List(k)[j]].cstamp \in Nat /\ CCtr \in Nat
          BY <5>1, VersionTyped DEF Inv, Types, TypeOK
        <5>3. /\ version[List(k)[j]].cstamp <= CCtr + 1
              /\ version[List(k)[j]].status = "committed" => version[List(k)[j]].cstamp <= CCtr
          BY <4>1, <4>3 DEF Inv, Stamps
        <5> QED
          BY <5>2, <5>3
      <4> QED
        BY <3>3, <4>4 DEF Under, k
    <3> QED
      BY <2>3, <3>2, <3>3 DEF Inv, WriteSets
  <2> QED
    BY <2>1, <2>2, <2>3 DEF Steady
<1>6. WriteSets'
  <2> SUFFICES ASSUME NEW t \in Thread
               PROVE  /\ \A i, j \in 1 .. Len(w'[t].write_set) :
                            w'[t].write_set[i].key = w'[t].write_set[j].key => i = j
                      /\ \A i \in Undecided(t)' :
                            LET e == w'[t].write_set[i]
                            IN /\ latest[e.key] = e.ver /\ version[e.ver].status = "inFlight"
                               /\ w'[t].pc \in {"run", "read", "write", "abort"} =>
                                     version[e.ver].cstamp = w'[t].txid
                               /\ w'[t].pc \in {"stamp", "install"} =>
                                     Under(version, List(e.key), 1, w'[t].cstamp)
                               /\ w'[t].pc = "install" /\ i = w'[t].pos =>
                                     version[e.ver].cstamp = w'[t].cstamp
    BY <1>0 DEF WriteSets
  <2>1. w'[t].write_set = w[t].write_set \/ w'[t].write_set = << >>
    BY DEF Steady
  <2>2. \A i, j \in 1 .. Len(w'[t].write_set) :
            w'[t].write_set[i].key = w'[t].write_set[j].key => i = j
    BY <2>1 DEF Inv, WriteSets
  <2>3. \A i \in Undecided(t) : LET e == w[t].write_set[i]
            IN latest[e.key] = e.ver /\ version[e.ver].status = "inFlight"
    BY DEF Inv, WriteSets
  <2> QED
    BY <1>5, <2>2, <2>3
<1>7. Owners'
  BY <1>5 DEF Inv, Owners
<1>8. Queued'
  <2> SUFFICES ASSUME NEW t \in Thread, NEW n \in 1 .. Len(w'[t].gcq),
                      w'[t].gcq[n].cstamp > min_cstamp[w'[t].gcq[n].key]
               PROVE  LET e == w'[t].gcq[n]
                      IN /\ InList(e.key, e.ver)
                         /\ version[e.ver].cstamp = e.cstamp
                         /\ version[e.ver].status # "inFlight"
    BY <1>0 DEF Queued
  <2>1. PICK m \in 1 .. Len(w[t].gcq) : w'[t].gcq[n] = w[t].gcq[m]
    <3>1. w[t].gcq \in Seq(QueueElement)
      BY WorkerTyped DEF Inv
    <3>2. w'[t].gcq = w[t].gcq \/ (w[t].gcq # << >> /\ w'[t].gcq = Tail(w[t].gcq))
      BY DEF SameQueues
    <3> DEFINE r == w'[t].gcq
    <3>3. r = w[t].gcq \/ (w[t].gcq # << >> /\ r = Tail(w[t].gcq))
      BY <3>2
    <3>4. n \in 1 .. Len(r)
      OBVIOUS
    <3> HIDE DEF r
    <3>5. \E m \in 1 .. Len(w[t].gcq) : r[n] = w[t].gcq[m]
      <4> DEFINE s == w[t].gcq
      <4>1. s \in Seq(QueueElement) /\ (r = s \/ (s # << >> /\ r = Tail(s)))
        BY <3>1, <3>3
      <4> SUFFICES \E m \in 1 .. Len(s) : r[n] = s[m]
        OBVIOUS
      <4> HIDE DEF s
      <4>2. \A l \in 1 .. Len(r) : \E m \in 1 .. Len(s) : r[l] = s[m]
        BY <4>1, QueueShortened
      <4> QED
        BY <3>4, <4>2
    <3> QED
      BY <3>5 DEF r
  <2> QED
    BY <2>1 DEF Inv, Queued
<1> QED
  BY <1>1, <1>2, <1>3, <1>4, <1>6, <1>7, <1>8

LEMMA NewestTyped ==
    ASSUME Types, NEW v \in Version
    PROVE  NewestCommitted(v) \in Version \cup {NULL}
BY VersionTyped DEF NewestCommitted, Pointer

LEMMA TreadMoves ==
    ASSUME Types, Positions, Counters, NEW t \in Thread, tread(t)
    PROVE  /\ w' \in [Thread -> Worker] /\ OneMoves(t) /\ TypeOK'
           /\ Steady(t) /\ SameQueues(t) /\ PositionsAt(t)' /\ CountersAt(t)'
<1> DEFINE v == Visible(NewestCommitted(w[t].ver), w[t].txid)
           r == Append(w[t].read_set, [key |-> OpKey(t), ver |-> v])
<1>0. w \in [Thread -> Worker] /\ w[t] \in Worker /\ w[t].pos + 1 \in Positive /\ NULL \in Pointer
  BY WorkerTyped DEF Types, Pointer
<1>00. PositionsAt(t) /\ CountersAt(t)
  BY DEF Positions, PositionsAt, Counters, CountersAt
<1>1. /\ w[t].pc = "read"
      /\ w' = [w EXCEPT ![t].read_set = r, ![t].pos = @ + 1, ![t].ver = NULL, ![t].pc = "run"]
      /\ UNCHANGED << quit, build, CCtr, TMT, GC_threshold, latest, version, min_cstamp, ended >>
  BY DEF tread, At, counters, lists
<1>2. OpKey(t) \in Key /\ v \in Pointer
  <2>1. w[t].pos \in 1 .. Len(w[t].pro_set) /\ w[t].ver \in Version
    BY <1>00, <1>1, WorkerTyped DEF PositionsAt
  <2>2. OpKey(t) \in Key
    BY <2>1, OperationTyped
  <2>3. v \in Version \cup {NULL}
    <3>1. \A u \in Version : version[u].committed_prev \in Version \cup {NULL}
      BY VersionTyped DEF Pointer
    <3> QED
      BY <2>1, <3>1, NewestTyped, VisibleTyped, VisibleIsVisibleIn
  <2> QED
    BY <2>2, <2>3 DEF Pointer
<1> HIDE DEF v
<1>3. r \in ReadSets
  <2>1. [key |-> OpKey(t), ver |-> v] \in ReadElement
    BY <1>2 DEF ReadElement
  <2> QED
    BY <2>1, WorkerTyped, AppendProperties DEF ReadSets
<1> HIDE DEF r
<1>4. w' \in [Thread -> Worker] /\ OneMoves(t)
  BY <1>0, <1>1, <1>3 DEF Worker, Label, OneMoves
<1>5. TypeOK'
  BY <1>1 DEF Types, TypeOK
<1>6. /\ w'[t].pc = "run" /\ w'[t].write_set = w[t].write_set /\ w'[t].txid = w[t].txid
      /\ w'[t].cstamp = w[t].cstamp /\ w'[t].gcq = w[t].gcq /\ w'[t].reuse = w[t].reuse
      /\ CCtr' = CCtr
  BY <1>0, <1>1 DEF Worker
<1> QED
  BY <1>00, <1>1, <1>4, <1>5, <1>6
     DEF Steady, SameQueues, PositionsAt, CountersAt, Running

LEMMA SharedMoves ==
    ASSUME Types, Positions, NEW t \in Thread,
           \/ chkSecondRange(t) \/ decideGcThreshold(t) \/ scan(t) \/ publish(t) \/ commit(t)
    PROVE  Steady(t) /\ SameQueues(t) /\ PositionsAt(t)'
<1>0. w \in [Thread -> Worker] /\ w[t] \in Worker /\ t \in Thread
  BY WorkerTyped DEF Types
<1>00. PositionsAt(t)
  BY DEF Positions, PositionsAt
<1>1. CASE chkSecondRange(t)
  <2>1. w'[t] = w[t]
    BY <1>1 DEF chkSecondRange
  <2> QED
    BY <1>00, <2>1 DEF Steady, SameQueues, PositionsAt, Running
<1>2. CASE decideGcThreshold(t)
  <2>1. /\ w[t].pc = "lead" /\ w'[t].pc = "begin"
        /\ w'[t].write_set = w[t].write_set
        /\ w'[t].gcq = w[t].gcq /\ w'[t].reuse = w[t].reuse
    BY <1>0, <1>2 DEF decideGcThreshold, At, Worker
  <2> QED
    BY <1>00, <2>1 DEF Steady, SameQueues, PositionsAt, Running
<1>3. CASE scan(t)
  <2>1. /\ w[t].pc = "scan" /\ w'[t].pc \in {"scan", "publish"}
        /\ w'[t].write_set = w[t].write_set
        /\ w'[t].gcq = w[t].gcq /\ w'[t].reuse = w[t].reuse
    <3>1. \E n, i : \/ w' = [w EXCEPT ![t].txid = n, ![t].i = i, ![t].pc = "publish"]
                    \/ w' = [w EXCEPT ![t].txid = n, ![t].i = i]
      <4> DEFINE seen == Max({w[t].txid} \cup {TMT[u].lastcstamp : u \in NextSeen(t)})
      <4>1. \/ w' = [w EXCEPT ![t].txid = seen + 1, ![t].i = 0, ![t].pc = "publish"]
            \/ \E u \in NextSeen(t) : w' = [w EXCEPT ![t].txid = seen, ![t].i = u + 1]
        BY <1>3 DEF scan
      <4> HIDE DEF seen
      <4> QED
        BY Zenon, <4>1
    <3>2. PICK n, i : \/ w' = [w EXCEPT ![t].txid = n, ![t].i = i, ![t].pc = "publish"]
                      \/ w' = [w EXCEPT ![t].txid = n, ![t].i = i]
      BY <3>1
    <3>3. w[t].pc = "scan"
      BY <1>3 DEF scan, At
    <3> QED
      BY <1>0, <3>2, <3>3 DEF Worker
  <2> QED
    BY <1>00, <2>1 DEF Steady, SameQueues, PositionsAt, Running
<1>4. CASE publish(t)
  <2>1. /\ w[t].pc = "publish" /\ w'[t].pc = "run"
        /\ w'[t].write_set = w[t].write_set
        /\ w'[t].gcq = w[t].gcq /\ w'[t].reuse = w[t].reuse
    BY <1>0, <1>4 DEF publish, At, Worker
  <2> QED
    BY <1>00, <2>1 DEF Steady, SameQueues, PositionsAt, Running
<1>5. CASE commit(t)
  <2>1. /\ w'[t].pc = "mainte" /\ w'[t].write_set = << >>
        /\ w'[t].gcq = w[t].gcq /\ w'[t].reuse = w[t].reuse
    BY <1>0, <1>5 DEF commit, At, Worker
  <2> QED
    BY <1>00, <2>1 DEF Steady, SameQueues, PositionsAt, Running
<1> QED
  BY <1>1, <1>2, <1>3, <1>4, <1>5

\* The steps that write to no version and to no record.
Quiet(t) ==
    \/ NextProcedure(t) \/ leave(t) \/ tbegin(t) \/ readLocal(t) \/ loadLatest(t)
    \/ twriteAborts(t) \/ twriteWaits(t) \/ twriteMoved(t) \/ takeStamp(t)
    \/ mainteSkips(t) \/ mainte(t) \/ loadThreshold(t) \/ gcEnds(t) \/ gcBusy(t)
    \/ abort(t)
Shared(t) ==
    \/ chkSecondRange(t) \/ decideGcThreshold(t) \/ scan(t) \/ publish(t) \/ commit(t)

LEMMA QuietFrame ==
    ASSUME NEW t \in Thread, Quiet(t) \/ Shared(t) \/ tread(t)
    PROVE  /\ Unmoved /\ min_cstamp' = min_cstamp /\ CCtr' \in {CCtr, CCtr + 1}
           /\ Quiet(t) \/ tread(t) => UNCHANGED << TMT, gcob >>
<1>1. CASE NextProcedure(t) \/ leave(t) \/ readLocal(t) \/ loadLatest(t)
  BY <1>1 DEF NextProcedure, leave, readLocal, loadLatest, Unmoved, lists, counters
<1>2. CASE twriteAborts(t) \/ twriteWaits(t) \/ twriteMoved(t)
  BY <1>2 DEF twriteAborts, twriteWaits, twriteMoved, Unmoved, lists, counters
<1>3. CASE mainteSkips(t) \/ mainte(t) \/ loadThreshold(t)
  BY <1>3 DEF mainteSkips, mainte, loadThreshold, Unmoved, lists, counters
<1>4. CASE gcEnds(t) \/ gcBusy(t) \/ abort(t)
  BY <1>4 DEF gcEnds, gcBusy, abort, Unmoved, lists, counters
<1>5. CASE tread(t)
  <2>1. UNCHANGED << counters, TMT, gcob, lists, min_cstamp >>
    BY <1>5 DEF tread
  <2> QED
    BY <2>1 DEF Unmoved, lists, counters
<1>6. CASE tbegin(t) \/ takeStamp(t)
  BY <1>6 DEF tbegin, takeStamp, Unmoved, lists, counters
<1>7. CASE Shared(t) /\ ~Quiet(t) /\ ~tread(t)
  <2>1. UNCHANGED << counters, lists, min_cstamp >>
    BY <1>7 DEF Shared, chkSecondRange, decideGcThreshold, scan, publish, commit
  <2> QED
    BY <1>7, <2>1 DEF Unmoved, lists, counters
<1> QED
  BY <1>1, <1>2, <1>3, <1>4, <1>5, <1>6, <1>7 DEF Quiet

LEMMA QuietKeeps ==
    ASSUME Inv, NEW t \in Thread, Quiet(t) \/ Shared(t) \/ tread(t)
    PROVE  Inv'
<1>0. Types /\ Positions /\ Counters
  BY DEF Inv
<1>1. /\ Unmoved /\ min_cstamp' = min_cstamp /\ CCtr' \in {CCtr, CCtr + 1}
      /\ Quiet(t) \/ tread(t) => UNCHANGED << TMT, gcob >>
  BY QuietFrame
<1>2. Steady(t) /\ SameQueues(t) /\ PositionsAt(t)' /\ OneMoves(t)
      /\ w' \in [Thread -> Worker] /\ TypeOK'
  <2>1. CASE Quiet(t)
    BY <1>0, <2>1, QuietTypes, QuietMoves DEF Quiet
  <2>2. CASE Shared(t)
    BY <1>0, <2>2, SharedTypes, SharedMoves DEF Shared
  <2>3. CASE tread(t)
    BY <1>0, <2>3, TreadMoves
  <2> QED
    BY <2>1, <2>2, <2>3
<1>3. Counters'
  <2>1. CASE Quiet(t)
    <3>1. CountersAt(t)'
      BY <1>0, <2>1, QuietMoves DEF Quiet
    <3> QED
      BY <1>0, <1>1, <1>2, <2>1, <3>1, CountersElsewhere
  <2>2. CASE Shared(t)
    BY <1>0, <2>2, SharedTypes DEF Shared
  <2>3. CASE tread(t)
    <3>1. CountersAt(t)'
      BY <1>0, <2>3, TreadMoves
    <3> QED
      BY <1>0, <1>1, <1>2, <2>3, <3>1, CountersElsewhere
  <2> QED
    BY <2>1, <2>2, <2>3
<1>4. gcob' \in [fmin : Nat, fmax : Nat, smin : Nat, smax : Nat, i : Nat]
  <2>1. CASE Shared(t)
    BY <1>0, <2>1, SharedTypes DEF Shared
  <2>2. CASE Quiet(t) \/ tread(t)
    <3>1. gcob' = gcob
      BY <1>1, <2>2
    <3> QED
      BY <1>0, <3>1 DEF Types
  <2> QED
    BY <2>1, <2>2
<1>5. Types'
  BY <1>2, <1>4 DEF Types
<1>6. Positions'
  BY <1>0, <1>2, Elsewhere
<1>7. \A u \in Thread : /\ Steady(u) /\ SameQueues(u)
                        /\ w'[u] = w[u] \/ PositionsAt(u)'
  <2> SUFFICES ASSUME NEW u \in Thread
               PROVE  /\ Steady(u) /\ SameQueues(u)
                      /\ w'[u] = w[u] \/ PositionsAt(u)'
    OBVIOUS
  <2>1. CASE u = t
    BY <1>2, <2>1
  <2>2. CASE u # t
    <3>1. w'[u] = w[u]
      BY <1>2, <2>2 DEF OneMoves
    <3> QED
      BY <3>1 DEF Steady, SameQueues
  <2> QED
    BY <2>1, <2>2
<1>8. Chains' /\ Sounds' /\ Stamps' /\ Apart' /\ WriteSets' /\ Owners' /\ Queued'
  BY <1>1, <1>5, <1>7, QuietStep
<1> QED
  BY <1>3, <1>5, <1>6, <1>8 DEF Inv

LEMMA IdleKeeps ==
    ASSUME Inv, Quit \/ UNCHANGED vars
    PROVE  Inv'
<1>1. /\ Unmoved /\ CCtr' = CCtr
      /\ UNCHANGED << w, TMT, GC_threshold, gcob, min_cstamp, ended, build >>
      /\ quit' \in BOOLEAN
  BY DEF Quit, vars, lists, Unmoved, Inv, Types, TypeOK
<1>2. Types'
  BY <1>1 DEF Inv, Types, TypeOK, Unmoved
<1>3. Positions' /\ Counters'
  BY <1>1 DEF Inv, Positions, Counters, Running
<1>4. \A u \in Thread : Steady(u) /\ SameQueues(u)
  BY <1>1 DEF Steady, SameQueues
<1>5. Chains' /\ Sounds' /\ Stamps' /\ Apart' /\ WriteSets' /\ Owners' /\ Queued'
  BY <1>1, <1>2, <1>4, QuietStep
<1> QED
  BY <1>2, <1>3, <1>5 DEF Inv

-----------------------------------------------------------------------------
(* What a step that writes to versions leaves alone *)

SameList(k) ==
    /\ latest'[k] = latest[k] /\ List(k)' = List(k)
    /\ \A i \in 1 .. Len(List(k)) : version'[List(k)[i]] = version[List(k)[i]]

\* What the invariant says of an undecided element of a write set.
Pending(t, i) ==
    LET e == w[t].write_set[i]
    IN /\ latest[e.key] = e.ver /\ version[e.ver].status = "inFlight"
       /\ w[t].pc \in {"run", "read", "write", "abort"} => version[e.ver].cstamp = w[t].txid
       /\ w[t].pc \in {"stamp", "install"} => Under(version, List(e.key), 1, w[t].cstamp)
       /\ w[t].pc = "install" /\ i = w[t].pos => version[e.ver].cstamp = w[t].cstamp

OneEach(t) ==
    \A i, j \in 1 .. Len(w[t].write_set) :
        w[t].write_set[i].key = w[t].write_set[j].key => i = j

LEMMA PendingIs == WriteSets <=> \A t \in Thread : OneEach(t) /\ \A i \in Undecided(t) : Pending(t, i)
BY DEF WriteSets, Pending, OneEach

LEMMA HeadIsFirst ==
    ASSUME Inv, NEW k \in Key
    PROVE  /\ latest[k] \in Version /\ InList(k, latest[k]) /\ List(k)[1] = latest[k]
           /\ Len(List(k)) \in Nat /\ 1 \in 1 .. Len(List(k)) /\ List(k) # << >>
           /\ List(k) \in Seq(Version)
           /\ \A i \in 1 .. Len(List(k)) : List(k)[i] \in Version
           /\ Chain(version, latest[k], List(k)) /\ Sound(version, List(k), min_cstamp[k])
<1>1. Chain(version, latest[k], List(k)) /\ Sound(version, List(k), min_cstamp[k])
  BY DEF Inv, Chains, Sounds
<1>2. List(k) # << >>
  BY <1>1 DEF Sound
<1>3. /\ Len(List(k)) \in Nat /\ 1 \in 1 .. Len(List(k)) /\ List(k)[1] = latest[k]
      /\ List(k) \in Seq(Version)
      /\ \A i \in 1 .. Len(List(k)) : List(k)[i] \in Version
  BY <1>1, <1>2, ChainTyped
<1> QED
  BY <1>1, <1>2, <1>3 DEF InList

LEMMA ListKept ==
    ASSUME Inv, NEW k \in Key, latest'[k] = latest[k],
           \A i \in 1 .. Len(List(k)) : version'[List(k)[i]] = version[List(k)[i]]
    PROVE  /\ SameList(k) /\ Chain(version', latest'[k], List(k)')
           /\ Sound(version', List(k)', min_cstamp[k])
<1>1. Chain(version, latest[k], List(k)) /\ Sound(version, List(k), min_cstamp[k])
  BY HeadIsFirst
<1>2. Chain(version', latest'[k], List(k))
  BY <1>1, ChainKept
<1>3. List(k)' = List(k)
  BY <1>2, NewList
<1>4. Sound(version', List(k), min_cstamp[k])
  BY <1>1, SoundKept DEF Alike
<1> QED
  BY <1>2, <1>3, <1>4 DEF SameList

LEMMA PendingKept ==
    ASSUME Inv, NEW t \in Thread, NEW i \in Undecided(t), w'[t] = w[t],
           SameList(w[t].write_set[i].key)
    PROVE  Pending(t, i)'
<1> DEFINE e == w[t].write_set[i]
<1>1. Pending(t, i)
  BY PendingIs DEF Inv
<1>2. e.key \in Key
  <2>1. i \in 1 .. Len(w[t].write_set)
    BY DEF Undecided
  <2>2. e \in WriteElement
    BY <2>1, WorkerTyped DEF Inv
  <2> QED
    BY <2>2 DEF WriteElement
<1>3. /\ latest'[e.key] = latest[e.key] /\ List(e.key)' = List(e.key)
      /\ version'[latest[e.key]] = version[latest[e.key]]
  BY <1>2, HeadIsFirst DEF SameList
<1>4. ASSUME Under(version, List(e.key), 1, w[t].cstamp)
      PROVE  Under(version', List(e.key)', 1, w[t].cstamp)
  <2>1. \A j \in 1 + 1 .. Len(List(e.key)) : j \in 1 .. Len(List(e.key))
    BY <1>2, HeadIsFirst
  <2>2. Alike(version, version', List(e.key), 1 + 1)
    BY <2>1 DEF Alike, SameList
  <2> QED
    BY <1>3, <1>4, <2>2, UnderKept
<1> QED
  BY <1>1, <1>3, <1>4 DEF Pending

\* The stamps of a list that is left alone.
StampsAt(k) ==
    \A i \in 1 .. Len(List(k)) :
        /\ version[List(k)[i]].cstamp <= CCtr + 1
        /\ version[List(k)[i]].status = "committed" => version[List(k)[i]].cstamp <= CCtr

LEMMA StampsKept ==
    ASSUME Inv, NEW k \in Key, SameList(k), CCtr' = CCtr
    PROVE  StampsAt(k)'
BY DEF SameList, Inv, Stamps, StampsAt

\* t's undecided elements name the heads of lists, which are in flight.
LEMMA UndecidedHead ==
    ASSUME Inv, NEW t \in Thread, NEW i \in Undecided(t)
    PROVE  /\ i \in 1 .. Len(w[t].write_set)
           /\ w[t].write_set[i].key \in Key /\ w[t].write_set[i].ver \in Version
           /\ w[t].write_set[i].ver = latest[w[t].write_set[i].key]
           /\ version[w[t].write_set[i].ver].status = "inFlight"
<1>1. i \in 1 .. Len(w[t].write_set)
  BY DEF Undecided
<1>2. w[t].write_set[i] \in WriteElement
  BY <1>1, WorkerTyped DEF Inv
<1> QED
  BY <1>1, <1>2, PendingIs DEF Inv, Pending, WriteElement

-----------------------------------------------------------------------------
(* twrite *)

LEMMA FrontOf ==
    ASSUME NEW S, NEW s \in Seq(S), s # << >>
    PROVE  /\ Len(s) \in Nat /\ Len(s) \in 1 .. Len(s) /\ Last(s) = s[Len(s)] /\ Last(s) \in S
           /\ Front(s) \in Seq(S) /\ Len(Front(s)) = Len(s) - 1
           /\ \A i \in 1 .. Len(Front(s)) :
                 i \in 1 .. Len(s) /\ i # Len(s) /\ Front(s)[i] = s[i]
<1>1. Len(s) \in Nat /\ Len(s) # 0
  BY EmptySeq
<1>2. Front(s) = SubSeq(s, 1, Len(s) - 1) /\ Last(s) = s[Len(s)]
  BY DEF Front, Last
<1>3. /\ SubSeq(s, 1, Len(s) - 1) \in Seq(S) /\ Len(SubSeq(s, 1, Len(s) - 1)) = Len(s) - 1
      /\ \A i \in 1 .. Len(s) - 1 : SubSeq(s, 1, Len(s) - 1)[i] = s[i]
  <2> DEFINE n == Len(s) - 1
  <2>1. n \in 0 .. Len(s) /\ \A i \in 1 .. n : i \in 1 .. Len(s)
    BY <1>1
  <2> HIDE DEF n
  <2>2. /\ SubSeq(s, 1, n) \in Seq(S) /\ Len(SubSeq(s, 1, n)) = n
        /\ \A i \in 1 .. n : SubSeq(s, 1, n)[i] = s[i]
    BY <2>1
  <2> QED
    BY <2>2 DEF n
<1>4. Len(s) \in 1 .. Len(s) /\ s[Len(s)] \in S
  BY <1>1
<1> QED
  BY <1>1, <1>2, <1>3, <1>4

LEMMA Appended ==
    ASSUME NEW S, NEW s \in Seq(S), NEW e \in S
    PROVE  /\ Append(s, e) \in Seq(S) /\ Len(Append(s, e)) = Len(s) + 1 /\ Len(s) \in Nat
           /\ Append(s, e)[Len(s) + 1] = e
           /\ \A i \in 1 .. Len(s) : Append(s, e)[i] = s[i]
           /\ \A i \in 1 .. Len(s) + 1 : i \in 1 .. Len(s) \/ i = Len(s) + 1
<1>1. Len(s) \in Nat
  OBVIOUS
<1>2. \A i \in 1 .. Len(s) + 1 : i \in 1 .. Len(s) \/ i = Len(s) + 1
  BY <1>1
<1> QED
  BY <1>1, <1>2, AppendProperties

\* What twrite does.
Desired(t) == Last(w[t].reuse)
NewElement(t) == [key |-> OpKey(t), ver |-> Desired(t)]

LEMMA TwriteMoves ==
    ASSUME Inv, NEW t \in Thread, twrite(t)
    PROVE  /\ w' \in [Thread -> Worker] /\ OneMoves(t) /\ TypeOK' /\ PositionsAt(t)' /\ CountersAt(t)'
           /\ w[t].pc = "write" /\ w'[t].pc = "run"
           /\ w'[t].write_set = Append(w[t].write_set, NewElement(t))
           /\ NewElement(t) \in WriteElement
           /\ w[t].reuse # << >> /\ w'[t].reuse = Front(w[t].reuse)
           /\ w'[t].gcq = w[t].gcq /\ w'[t].txid = w[t].txid
           /\ OpKey(t) \in Key /\ Desired(t) \in Version
           /\ latest' = [latest EXCEPT ![OpKey(t)] = Desired(t)]
           /\ \A u \in Version : u # Desired(t) => version'[u] = version[u]
           /\ version'[Desired(t)] =
                 [prev |-> latest[OpKey(t)], committed_prev |-> NewestCommitted(latest[OpKey(t)]),
                  cstamp |-> w[t].txid, status |-> "inFlight"]
           /\ version[latest[OpKey(t)]].status # "inFlight"
           /\ UNCHANGED << CCtr, TMT, gcob, min_cstamp >>
<1> DEFINE d == Desired(t)
           k == OpKey(t)
           V == [prev : Version \cup {NULL}, committed_prev : Version \cup {NULL},
                 cstamp : Nat, status : {"inFlight", "committed", "aborted"}]
           r == [prev |-> w[t].ver, committed_prev |-> NewestCommitted(w[t].ver),
                 cstamp |-> w[t].txid, status |-> "inFlight"]
           ws == Append(w[t].write_set, NewElement(t))
           fr == Front(w[t].reuse)
<1>0. /\ Types /\ w \in [Thread -> Worker] /\ w[t] \in Worker /\ w[t].pos + 1 \in Positive
      /\ NULL \in Pointer
  BY WorkerTyped DEF Types, Pointer, Inv
<1>00. PositionsAt(t) /\ CountersAt(t)
  BY DEF Inv, Positions, PositionsAt, Counters, CountersAt
<1>1. /\ w[t].pc = "write" /\ w[t].reuse # << >>
      /\ latest[k] = w[t].ver /\ version[w[t].ver].status # "inFlight"
      /\ latest' = [latest EXCEPT ![k] = d]
      /\ version' = [version EXCEPT ![d] = r]
      /\ w' = [w EXCEPT ![t].write_set = ws, ![t].reuse = fr, ![t].pos = @ + 1,
                        ![t].ver = NULL, ![t].pc = "run"]
      /\ UNCHANGED << quit, build, CCtr, TMT, GC_threshold, gcob, min_cstamp, ended >>
  BY DEF twrite, At, HeadInFlight, counters, Desired, NewElement
<1>2. w[t].ver \in Version /\ k \in Key
  <2>1. w[t].pos \in 1 .. Len(w[t].pro_set) /\ w[t].ver \in Version
    BY <1>0, <1>00, <1>1, WorkerTyped DEF PositionsAt
  <2> QED
    BY <1>0, <2>1, OperationTyped
<1>3. d \in Version /\ fr \in Reserves
  BY <1>0, <1>1, WorkerTyped, FrontOf DEF Desired, Reserves
<1>4. NewElement(t) \in WriteElement /\ ws \in WriteSetTypes
  <2>1. NewElement(t) \in WriteElement
    BY <1>2, <1>3 DEF NewElement, WriteElement
  <2> QED
    BY <1>0, <2>1, WorkerTyped, Appended DEF WriteSetTypes
<1>5. r \in V
  <2>1. NewestCommitted(w[t].ver) \in Version \cup {NULL} /\ w[t].txid \in Nat
    BY <1>0, <1>2, NewestTyped, WorkerTyped
  <2> QED
    BY <1>2, <2>1
<1> HIDE DEF d, k, r, ws, fr, V
<1>6. w' \in [Thread -> Worker] /\ OneMoves(t)
  BY <1>0, <1>1, <1>3, <1>4 DEF Worker, Label, OneMoves
<1>7. TypeOK'
  <2>1. version \in [Version -> V] /\ latest \in [Key -> Version]
    BY <1>0 DEF Types, TypeOK, V
  <2>2. version' \in [Version -> V] /\ latest' \in [Key -> Version]
    BY <1>1, <1>2, <1>3, <1>5, <2>1
  <2> QED
    BY <1>0, <1>1, <2>2 DEF Types, TypeOK, V
<1>8. /\ w'[t].pc = "run" /\ w'[t].write_set = ws /\ w'[t].reuse = fr
      /\ w'[t].gcq = w[t].gcq /\ w'[t].txid = w[t].txid /\ w'[t].cstamp = w[t].cstamp
  BY <1>0, <1>1 DEF Worker
<1>9. /\ \A u \in Version : u # d => version'[u] = version[u]
      /\ version'[d] = r
  <2>1. version \in [Version -> V]
    BY <1>0 DEF Types, TypeOK, V
  <2> QED
    BY <1>1, <1>3, <2>1
<1>10. PositionsAt(t)' /\ CountersAt(t)'
  BY <1>00, <1>1, <1>8 DEF PositionsAt, CountersAt, Running
<1>11. r = [prev |-> latest[k], committed_prev |-> NewestCommitted(latest[k]),
            cstamp |-> w[t].txid, status |-> "inFlight"]
  BY <1>1 DEF r
<1> QED
  BY <1>1, <1>2, <1>3, <1>4, <1>6, <1>7, <1>8, <1>9, <1>10, <1>11 DEF d, k, ws, fr

LEMMA TwriteKeeps ==
    ASSUME Inv, NEW t \in Thread, twrite(t)
    PROVE  Inv'
<1>P. PICK d, k, s, r, n, m, e :
         /\ d = Desired(t) /\ k = OpKey(t) /\ s = List(k) /\ r = << d >> \o s
         /\ n = Len(w[t].reuse) /\ m = Len(w[t].write_set) /\ e = NewElement(t)
  OBVIOUS
<1>r. r = << d >> \o s
  BY <1>P
<1>0. /\ w' \in [Thread -> Worker] /\ OneMoves(t) /\ TypeOK' /\ PositionsAt(t)' /\ CountersAt(t)'
      /\ w[t].pc = "write" /\ w'[t].pc = "run"
      /\ w'[t].write_set = Append(w[t].write_set, e)
      /\ e \in WriteElement
      /\ w[t].reuse # << >> /\ w'[t].reuse = Front(w[t].reuse)
      /\ w'[t].gcq = w[t].gcq /\ w'[t].txid = w[t].txid
      /\ k \in Key /\ d \in Version
      /\ latest' = [latest EXCEPT ![k] = d]
      /\ \A u \in Version : u # d => version'[u] = version[u]
      /\ version'[d] =
            [prev |-> latest[k], committed_prev |-> NewestCommitted(latest[k]),
             cstamp |-> w[t].txid, status |-> "inFlight"]
      /\ version[latest[k]].status # "inFlight"
      /\ UNCHANGED << CCtr, TMT, gcob, min_cstamp >>
  BY <1>P, TwriteMoves
<1>00. /\ Types /\ Positions /\ Counters
       /\ w[t].reuse \in Seq(Version) /\ w[t].write_set \in Seq(WriteElement)
       /\ e.key = k /\ e.ver = d
  BY <1>P, WorkerTyped DEF Inv, NewElement
<1>1. /\ n = Len(w[t].reuse) /\ n \in 1 .. n /\ d = w[t].reuse[n] /\ n \in Nat
      /\ Len(w'[t].reuse) = n - 1
      /\ \A i \in 1 .. Len(w'[t].reuse) :
            i \in 1 .. n /\ i # n /\ w'[t].reuse[i] = w[t].reuse[i]
  BY <1>P, <1>0, <1>00, FrontOf DEF Desired
<1>2. /\ m \in Nat /\ Len(w'[t].write_set) = m + 1
      /\ w'[t].write_set[m + 1] = e
      /\ \A i \in 1 .. m : w'[t].write_set[i] = w[t].write_set[i]
      /\ \A i \in 1 .. m + 1 : i \in 1 .. m \/ i = m + 1
  <2>1. e \in WriteElement /\ w[t].write_set \in Seq(WriteElement)
    BY <1>0, <1>00
  <2> DEFINE a == w[t].write_set
  <2>2. /\ Len(a) = m /\ a \in Seq(WriteElement) /\ w'[t].write_set = Append(a, e)
    BY <1>P, <1>0, <1>00
  <2> HIDE DEF a
  <2>3. /\ m \in Nat /\ Len(w'[t].write_set) = m + 1
        /\ w'[t].write_set[m + 1] = e
        /\ \A i \in 1 .. m : w'[t].write_set[i] = a[i]
        /\ \A i \in 1 .. m + 1 : i \in 1 .. m \/ i = m + 1
    BY <2>1, <2>2, Appended
  <2> QED
    BY <2>3 DEF a
<1>3. \A l \in Key : ~InList(l, d)
  BY <1>1 DEF Inv, Apart
<1>4. \A l \in Key : latest[l] \in Version /\ latest \in [Key -> Version]
  BY <1>00 DEF Types, TypeOK
<1>5. ASSUME NEW l \in Key
      PROVE  \A i \in 1 .. Len(List(l)) :
                List(l)[i] # d /\ List(l)[i] \in Version
                /\ version'[List(l)[i]] = version[List(l)[i]]
  BY <1>0, <1>3, HeadIsFirst DEF InList
<1>6. ASSUME NEW l \in Key, l # k
      PROVE  /\ SameList(l) /\ Chain(version', latest'[l], List(l)')
             /\ Sound(version', List(l)', min_cstamp[l])
  <2>1. latest'[l] = latest[l]
    BY <1>0, <1>4, <1>6
  <2> QED
    BY <1>5, <2>1, ListKept
<1>7. /\ List(k)' = r /\ Chain(version', latest'[k], r)
      /\ Len(r) = Len(s) + 1
      /\ \A i \in 1 .. Len(s) + 1 : r[i] = IF i = 1 THEN d ELSE s[i - 1]
  <2>1. s # << >> /\ Chain(version, latest[k], s)
    BY <1>P, <1>0, HeadIsFirst
  <2>2. \A i \in 1 .. Len(s) : s[i] # d /\ version'[s[i]].prev = version[s[i]].prev
    BY <1>P, <1>0, <1>5
  <2>3. version'[d].prev = latest[k] /\ latest'[k] = d
    BY <1>0, <1>4
  <2>4. /\ Chain(version', d, r) /\ Len(r) = Len(s) + 1
        /\ \A i \in 1 .. Len(s) + 1 : r[i] = IF i = 1 THEN d ELSE s[i - 1]
    <3>1. /\ Chain(version', d, << d >> \o s) /\ Len(<< d >> \o s) = Len(s) + 1
          /\ \A i \in 1 .. Len(s) + 1 : (<< d >> \o s)[i] = IF i = 1 THEN d ELSE s[i - 1]
      <4>1. d \in Version
        BY <1>0
      <4> QED
        BY <2>1, <2>2, <2>3, <4>1, ChainPushed
    <3> QED
      BY <3>1, <1>r
  <2> QED
    BY <2>3, <2>4, NewList
<1>8. /\ Len(s) \in Nat /\ r[1] = d /\ Len(r) \in Nat
      /\ \A i \in 1 .. Len(s) : i + 1 \in 1 .. Len(r) /\ r[i + 1] = s[i]
      /\ \A i \in 1 .. Len(r) : i = 1 \/ (i - 1 \in 1 .. Len(s) /\ r[i] = s[i - 1])
      /\ 1 \in 1 .. Len(r)
  <2>1. Len(s) \in Nat
    BY <1>P, <1>0, HeadIsFirst
  <2>2. 1 \in 1 .. Len(s) + 1
    BY <2>1
  <2>3. \A i \in 1 .. Len(s) : i + 1 \in 1 .. Len(s) + 1 /\ i + 1 # 1 /\ (i + 1) - 1 = i
    BY <2>1
  <2>4. \A i \in 1 .. Len(s) + 1 : i = 1 \/ i - 1 \in 1 .. Len(s)
    BY <2>1
  <2> QED
    BY <1>7, <2>1, <2>2, <2>3, <2>4
<1>9. Sound(version', r, min_cstamp[k])
  <2>1. Chain(version, latest[k], s) /\ Sound(version, s, min_cstamp[k])
    BY <1>P, <1>0, HeadIsFirst
  <2>2. Alike(version, version', s, 1)
    BY <1>P, <1>0, <1>5 DEF Alike
  <2>3. /\ version'[d].status = "inFlight"
        /\ version'[d].committed_prev =
              IF version[latest[k]].status = "committed" THEN latest[k]
              ELSE version[latest[k]].committed_prev
    BY <1>0 DEF NewestCommitted
  <2>4. r \in Seq(Version)
    BY <1>7, ChainTyped
  <2> QED
    <3>1. /\ Len(r) = Len(s) + 1
          /\ \A i \in 1 .. Len(s) + 1 : r[i] = IF i = 1 THEN d ELSE s[i - 1]
      BY <1>7
    <3>2. version[latest[k]].status # "inFlight"
      BY <1>0
    <3> QED
      BY <2>1, <2>2, <2>3, <2>4, <3>1, <3>2, SoundPushed
<1>10. /\ \A l \in Key : \A u : l # k => (InList(l, u)' <=> InList(l, u))
       /\ \A u : InList(k, u)' <=> (u = d \/ InList(k, u))
  <2>1. ASSUME NEW l \in Key, NEW u, l # k
        PROVE  InList(l, u)' <=> InList(l, u)
    BY <1>6, <2>1 DEF SameList, InList
  <2>2. ASSUME NEW u
        PROVE  InList(k, u)' <=> (u = d \/ InList(k, u))
    BY <1>P, <1>7, <1>8 DEF InList
  <2> QED
    BY <2>1, <2>2
<1>A. Types'
  <2>1. gcob' \in [fmin : Nat, fmax : Nat, smin : Nat, smax : Nat, i : Nat]
    BY <1>0, <1>00 DEF Types
  <2> QED
    BY <1>0, <2>1 DEF Types
<1>B. Positions'
  BY <1>0, <1>00, Elsewhere
<1>C. Counters'
  BY <1>0, <1>00, CountersElsewhere
<1>D. Chains'
  <2> SUFFICES ASSUME NEW l \in Key
               PROVE  Chain(version', latest'[l], List(l)')
    BY DEF Chains
  <2> QED
    BY <1>6, <1>7
<1>E. Sounds'
  <2> SUFFICES ASSUME NEW l \in Key
               PROVE  Sound(version', List(l)', min_cstamp[l])
    BY <1>0 DEF Sounds
  <2> QED
    BY <1>6, <1>7, <1>9
<1>F. Stamps'
  <2> SUFFICES ASSUME NEW l \in Key
               PROVE  StampsAt(l)'
    BY DEF Stamps, StampsAt
  <2>1. CASE l # k
    BY <1>0, <1>6, <2>1, StampsKept
  <2>2. CASE l = k
    <3> SUFFICES ASSUME NEW i \in 1 .. Len(r)
                 PROVE  /\ version'[r[i]].cstamp <= CCtr + 1
                        /\ version'[r[i]].status = "committed" => version'[r[i]].cstamp <= CCtr
      BY <1>0, <1>7, <2>2 DEF StampsAt
    <3>1. CASE i = 1
      <4>1. w[t].txid <= CCtr + 1
        BY <1>00 DEF Counters
      <4> QED
        BY <1>0, <1>8, <3>1, <4>1
    <3>2. CASE i # 1
      <4>1. i - 1 \in 1 .. Len(s) /\ r[i] = s[i - 1]
        BY <1>8, <3>2
      <4>2. version'[r[i]] = version[s[i - 1]]
        BY <1>P, <1>0, <1>5, <4>1
      <4> QED
        BY <1>P, <1>0, <4>1, <4>2 DEF Inv, Stamps
    <3> QED
      BY <3>1, <3>2
  <2> QED
    BY <2>1, <2>2
<1>O. \A u, o \in Thread : \A i \in 1 .. Len(w[u].reuse), j \in 1 .. Len(w[o].reuse) :
          w[u].reuse[i] = w[o].reuse[j] => u = o /\ i = j
  BY DEF Inv, Apart
<1>G. Apart'
  <2>1. ASSUME NEW l \in Key, NEW o \in Key, NEW u \in Version, InList(l, u)', InList(o, u)'
        PROVE  l = o
    <3>1. \A q \in Key : InList(q, u)' => InList(q, u) \/ (q = k /\ u = d)
      BY <1>10
    <3>2. InList(l, u) /\ InList(o, u) => l = o
      BY DEF Inv, Apart
    <3> QED
      BY <1>3, <2>1, <3>1, <3>2
  <2>2. ASSUME NEW u \in Thread, NEW i \in 1 .. Len(w'[u].reuse)
        PROVE  /\ i \in 1 .. Len(w[u].reuse) /\ w'[u].reuse[i] = w[u].reuse[i]
               /\ w[u].reuse[i] # d
    <3>1. i \in 1 .. Len(w[u].reuse) /\ w'[u].reuse[i] = w[u].reuse[i] /\ (u = t => i # n)
      BY <1>P, <1>0, <1>1 DEF OneMoves
    <3>2. w[u].reuse[i] = w[t].reuse[n] => u = t /\ i = n
      <4>1. n \in 1 .. Len(w[t].reuse) /\ i \in 1 .. Len(w[u].reuse)
        BY <1>1, <3>1
      <4> QED
        BY Zenon, <1>O, <4>1
    <3> QED
      BY <1>1, <3>1, <3>2
  <2>3. ASSUME NEW u \in Thread, NEW i \in 1 .. Len(w'[u].reuse), NEW l \in Key
        PROVE  \A v : v = w'[u].reuse[i] => ~InList(l, v)'
    <3>1. ~InList(l, w[u].reuse[i])
      BY <2>2 DEF Inv, Apart
    <3>2. \A v : InList(l, v)' => InList(l, v) \/ v = d
      BY <1>10
    <3> QED
      BY <2>2, <3>1, <3>2
  <2>4. ASSUME NEW u \in Thread, NEW o \in Thread,
               NEW i \in 1 .. Len(w'[u].reuse), NEW j \in 1 .. Len(w'[o].reuse),
               w'[u].reuse[i] = w'[o].reuse[j]
        PROVE  u = o /\ i = j
    BY <1>O, <2>2, <2>4
  <2> QED
    BY <2>1, <2>3, <2>4 DEF Apart
<1>11. ASSUME NEW u \in Thread, NEW i \in Undecided(u)
       PROVE  /\ w[u].write_set[i].key # k /\ w[u].write_set[i].key \in Key
              /\ SameList(w[u].write_set[i].key)
  <2>1. w[u].write_set[i].key # k /\ w[u].write_set[i].key \in Key
    BY <1>0, UndecidedHead
  <2> QED
    BY <1>6, <2>1
<1>12. /\ Undecided(t) = 1 .. m /\ Undecided(t)' = 1 .. m + 1
       /\ \A u \in Thread \ {t} : Undecided(u)' = Undecided(u) /\ w'[u] = w[u]
  BY <1>P, <1>0, <1>2 DEF Undecided, OneMoves
<1>H. WriteSets'
  <2> SUFFICES ASSUME NEW u \in Thread
               PROVE  OneEach(u)' /\ \A i \in Undecided(u)' : Pending(u, i)'
    BY DEF WriteSets, OneEach, Pending
  <2>1. CASE u # t
    <3>1. w'[u] = w[u] /\ Undecided(u)' = Undecided(u)
      BY <1>12, <2>1
    <3>2. OneEach(u)'
      BY <3>1, PendingIs DEF Inv, OneEach
    <3>3. \A i \in Undecided(u) : Pending(u, i)'
      BY <1>11, <3>1, PendingKept
    <3> QED
      BY <3>1, <3>2, <3>3
  <2>2. CASE u = t
    <3>1. OneEach(t)'
      <4> SUFFICES ASSUME NEW i \in 1 .. m + 1, NEW j \in 1 .. m + 1,
                          w'[t].write_set[i].key = w'[t].write_set[j].key
                   PROVE  i = j
        BY <1>2 DEF OneEach
      <4>1. \A q \in 1 .. m : w[t].write_set[q].key # k
        BY <1>11, <1>12
      <4>2. CASE i \in 1 .. m /\ j \in 1 .. m
        BY <1>P, <1>2, <4>2, PendingIs DEF Inv, OneEach
      <4>3. CASE i = m + 1 /\ j = m + 1
        BY <4>3
      <4>4. CASE i \in 1 .. m /\ j = m + 1
        BY <1>00, <1>2, <4>1, <4>4
      <4>5. CASE i = m + 1 /\ j \in 1 .. m
        BY <1>00, <1>2, <4>1, <4>5
      <4> QED
        BY <1>2, <4>2, <4>3, <4>4, <4>5
    <3>2. ASSUME NEW i \in 1 .. m
          PROVE  Pending(t, i)'
      <4> DEFINE x == w[t].write_set[i]
      <4>1. Pending(t, i) /\ x.key \in Key /\ x.key # k /\ SameList(x.key) /\ x.ver = latest[x.key]
        BY <1>11, <1>12, PendingIs, UndecidedHead DEF Inv
      <4>2. version'[latest[x.key]] = version[latest[x.key]] /\ latest'[x.key] = latest[x.key]
        BY <4>1, HeadIsFirst DEF SameList
      <4>3. w'[t].write_set[i] = x /\ w'[t].txid = w[t].txid /\ w[t].pc = "write" /\ w'[t].pc = "run"
        BY <1>0, <1>2
      <4> HIDE DEF x
      <4>4. version[x.ver].status = "inFlight" /\ version[x.ver].cstamp = w[t].txid
        BY <4>1, <4>3 DEF Pending, x
      <4> QED
        BY <4>1, <4>2, <4>3, <4>4 DEF Pending
    <3>3. Pending(t, m + 1)'
      <4>1. w'[t].write_set[m + 1].key = k /\ w'[t].write_set[m + 1].ver = d
        BY <1>00, <1>2
      <4>2. latest'[k] = d
        BY <1>0, <1>4
      <4> QED
        BY <1>0, <4>1, <4>2 DEF Pending
    <3>4. \A i \in 1 .. m + 1 : Pending(t, i)'
      BY <1>2, <3>2, <3>3
    <3> QED
      BY <1>12, <2>2, <3>1, <3>4
  <2> QED
    BY <2>1, <2>2
<1>I. Owners'
  <2> SUFFICES ASSUME NEW u \in Thread, NEW o \in Thread,
                      NEW i \in Undecided(u)', NEW j \in Undecided(o)',
                      w'[u].write_set[i].key = w'[o].write_set[j].key
               PROVE  u = o
    BY DEF Owners
  <2>1. \A x \in Thread : \A q \in Undecided(x)' :
            \/ q \in Undecided(x) /\ w'[x].write_set[q].key = w[x].write_set[q].key
               /\ w'[x].write_set[q].key # k
            \/ x = t /\ w'[x].write_set[q].key = k
    <3> SUFFICES ASSUME NEW x \in Thread, NEW q \in Undecided(x)'
                 PROVE  \/ q \in Undecided(x) /\ w'[x].write_set[q].key = w[x].write_set[q].key
                           /\ w'[x].write_set[q].key # k
                        \/ x = t /\ w'[x].write_set[q].key = k
      OBVIOUS
    <3>1. CASE x # t
      BY <1>11, <1>12, <3>1
    <3>2. CASE x = t /\ q \in 1 .. m
      BY <1>2, <1>11, <1>12, <3>2
    <3>3. CASE x = t /\ q = m + 1
      BY <1>00, <1>2, <3>3
    <3> QED
      BY <1>2, <1>12, <3>1, <3>2, <3>3
  <2> QED
    BY <2>1 DEF Inv, Owners
<1>J. Queued'
  <2> SUFFICES ASSUME NEW u \in Thread, NEW q \in 1 .. Len(w'[u].gcq),
                      NEW x, x = w'[u].gcq[q], x.cstamp > min_cstamp[x.key]
               PROVE  /\ InList(x.key, x.ver)'
                      /\ version'[x.ver].cstamp = x.cstamp
                      /\ version'[x.ver].status # "inFlight"
    BY <1>0 DEF Queued
  <2>1. w'[u].gcq = w[u].gcq /\ x = w[u].gcq[q]
    BY <1>0 DEF OneMoves
  <2>2. x.key \in Key /\ x.ver \in Version
    <3>1. x \in QueueElement
      BY <2>1, WorkerTyped, <1>00
    <3> QED
      BY <3>1 DEF QueueElement
  <2>3. InList(x.key, x.ver) /\ version[x.ver].cstamp = x.cstamp /\ version[x.ver].status # "inFlight"
    BY <2>1 DEF Inv, Queued
  <2>4. x.ver # d
    BY <1>3, <2>2, <2>3
  <2>6. InList(x.key, x.ver)'
    <3>1. \A v : InList(x.key, v) => InList(x.key, v)'
      BY <1>10, <2>2
    <3> QED
      BY <2>3, <3>1
  <2> QED
    BY <1>0, <2>2, <2>3, <2>4, <2>6
<1> QED
  BY <1>A, <1>B, <1>C, <1>D, <1>E, <1>F, <1>G, <1>H, <1>I, <1>J DEF Inv

-----------------------------------------------------------------------------
(* stamp, install and discard *)

LEMMA HeadOrTail ==
    ASSUME NEW n \in Nat, 1 \in 1 .. n
    PROVE  /\ \A j \in 1 .. n : j = 1 \/ j \in 2 .. n
           /\ \A j \in 2 .. n : j \in 1 .. n /\ j # 1
OBVIOUS

\* t changes the stamp or the status of the head d of k's list, which its i-th
\* element names.
HeadStep(t, i, k, d) ==
    /\ i \in Undecided(t) /\ k = w[t].write_set[i].key /\ d = w[t].write_set[i].ver
    /\ w' \in [Thread -> Worker] /\ OneMoves(t) /\ TypeOK' /\ PositionsAt(t)' /\ CountersAt(t)'
    /\ UNCHANGED << CCtr, TMT, gcob, latest, min_cstamp >>
    /\ \A u \in Version : u # d => version'[u] = version[u]
    /\ version'[d].prev = version[d].prev
    /\ version'[d].committed_prev = version[d].committed_prev
    /\ version'[d].cstamp <= CCtr + 1
    /\ version'[d].status = "committed" =>
          version'[d].cstamp <= CCtr /\ Under(version, List(k), 1, version'[d].cstamp)
    /\ w'[t].reuse = w[t].reuse /\ w'[t].write_set = w[t].write_set
    /\ Undecided(t)' \subseteq Undecided(t)
    /\ i \in Undecided(t)' =>
          /\ version'[d].status = "inFlight" /\ w'[t].pc = "install"
          /\ version'[d].cstamp = w'[t].cstamp
          /\ Under(version, List(k), 1, w'[t].cstamp)
    /\ \/ /\ w[t].pc \in {"stamp", "install"} /\ w'[t].pc \in {"stamp", "install"}
          /\ w'[t].cstamp = w[t].cstamp
       \/ w[t].pc = "abort" /\ w'[t].pc = "abort" /\ w'[t].txid = w[t].txid
    /\ w'[t].pc = "install" => w'[t].pos = i
    /\ \/ w'[t].gcq = w[t].gcq
       \/ /\ w'[t].gcq = Append(w[t].gcq, [key |-> k, ver |-> d, cstamp |-> version'[d].cstamp])
          /\ version'[d].status # "inFlight" /\ version'[d].cstamp \in Nat

LEMMA HeadKeeps ==
    ASSUME Inv, NEW t \in Thread, NEW i, NEW k, NEW d, HeadStep(t, i, k, d)
    PROVE  Inv'
<1>W. /\ i \in Undecided(t) /\ k = w[t].write_set[i].key /\ d = w[t].write_set[i].ver
      /\ w' \in [Thread -> Worker] /\ OneMoves(t) /\ TypeOK' /\ PositionsAt(t)' /\ CountersAt(t)'
  BY DEF HeadStep
<1>U. /\ UNCHANGED << CCtr, TMT, gcob, latest, min_cstamp >>
  BY DEF HeadStep
<1>V. /\ \A u \in Version : u # d => version'[u] = version[u]
      /\ version'[d].prev = version[d].prev
      /\ version'[d].committed_prev = version[d].committed_prev
      /\ version'[d].cstamp <= CCtr + 1
      /\ version'[d].status = "committed" =>
            version'[d].cstamp <= CCtr /\ Under(version, List(k), 1, version'[d].cstamp)
  BY DEF HeadStep
<1>T. /\ w'[t].reuse = w[t].reuse /\ w'[t].write_set = w[t].write_set
      /\ Undecided(t)' \subseteq Undecided(t)
      /\ i \in Undecided(t)' =>
            /\ version'[d].status = "inFlight" /\ w'[t].pc = "install"
            /\ version'[d].cstamp = w'[t].cstamp
            /\ Under(version, List(k), 1, w'[t].cstamp)
      /\ \/ /\ w[t].pc \in {"stamp", "install"} /\ w'[t].pc \in {"stamp", "install"}
            /\ w'[t].cstamp = w[t].cstamp
         \/ w[t].pc = "abort" /\ w'[t].pc = "abort" /\ w'[t].txid = w[t].txid
      /\ w'[t].pc = "install" => w'[t].pos = i
      /\ \/ w'[t].gcq = w[t].gcq
         \/ /\ w'[t].gcq = Append(w[t].gcq, [key |-> k, ver |-> d, cstamp |-> version'[d].cstamp])
            /\ version'[d].status # "inFlight" /\ version'[d].cstamp \in Nat
  BY DEF HeadStep
<1>P. PICK s : s = List(k)
  OBVIOUS
<1>0. /\ i \in 1 .. Len(w[t].write_set)
      /\ k \in Key /\ d \in Version /\ d = latest[k] /\ version[d].status = "inFlight"
      /\ Types /\ Positions /\ Counters
  BY <1>W, UndecidedHead DEF Inv
<1>1. /\ s \in Seq(Version) /\ Len(s) \in Nat /\ 1 \in 1 .. Len(s) /\ s[1] = d
      /\ \A j \in 1 .. Len(s) : s[j] \in Version
      /\ Chain(version, latest[k], s) /\ Sound(version, s, min_cstamp[k])
      /\ InList(k, d)
  BY <1>P, <1>0, HeadIsFirst
<1>2. Len(s) # 1
  BY <1>0, <1>1 DEF Sound
<1>3. ASSUME NEW j \in 2 .. Len(s)
      PROVE  j \in 1 .. Len(s) /\ s[j] # d /\ version'[s[j]] = version[s[j]]
  <2>1. j \in 1 .. Len(s) /\ j # 1
    BY <1>1, HeadOrTail
  <2>2. s[j] # s[1]
    BY <1>1, <2>1 DEF Chain
  <2> QED
    BY <1>V, <1>1, <2>1, <2>2
<1>4. ASSUME NEW l \in Key, l # k
      PROVE  /\ SameList(l) /\ Chain(version', latest'[l], List(l)')
             /\ Sound(version', List(l)', min_cstamp[l])
  <2>1. \A j \in 1 .. Len(List(l)) : List(l)[j] \in Version /\ List(l)[j] # d
    <3>1. ~InList(l, d)
      BY <1>0, <1>1, <1>4 DEF Inv, Apart
    <3> QED
      BY <3>1, HeadIsFirst DEF InList
  <2> QED
    BY <1>U, <1>V, <2>1, ListKept
<1>5. List(k)' = s /\ Chain(version', latest'[k], s)
  <2>1. ASSUME NEW j \in 1 .. Len(s)
        PROVE  version'[s[j]].prev = version[s[j]].prev
    <3>1. j = 1 \/ j \in 2 .. Len(s)
      BY <1>1, HeadOrTail
    <3> QED
      BY <1>V, <1>1, <1>3, <3>1
  <2>2. Chain(version', latest[k], s)
    BY <1>1, <2>1, ChainKept
  <2> QED
    BY <1>U, <2>2, NewList
<1>6. Alike(version, version', s, 2)
  BY <1>3 DEF Alike
<1>7. Sound(version', s, min_cstamp[k])
  BY <1>P, <1>V, <1>1, <1>2, <1>6, SoundHead
<1>8. \A l \in Key : List(l)' = List(l) /\ \A u : InList(l, u)' <=> InList(l, u)
  <2> SUFFICES ASSUME NEW l \in Key
               PROVE  List(l)' = List(l) /\ \A u : InList(l, u)' <=> InList(l, u)
    OBVIOUS
  <2>1. List(l)' = List(l)
    BY <1>P, <1>4, <1>5 DEF SameList
  <2> QED
    BY <2>1 DEF InList
<1>9. ASSUME NEW c, Under(version, List(k), 1, c)
      PROVE  Under(version', List(k)', 1, c)
  <2>1. Alike(version, version', s, 1 + 1)
    BY <1>6
  <2>2. Under(version', s, 1, c)
    BY <1>P, <1>9, <2>1, UnderKept
  <2> QED
    BY <1>5, <2>2
<1>A. Types'
  <2>1. gcob' \in [fmin : Nat, fmax : Nat, smin : Nat, smax : Nat, i : Nat]
    BY <1>U, <1>0 DEF Types
  <2> QED
    BY <1>W, <2>1 DEF Types
<1>B. Positions'
  BY <1>W, <1>0, Elsewhere
<1>C. Counters'
  BY <1>W, <1>U, <1>0, CountersElsewhere
<1>D. Chains'
  <2> SUFFICES ASSUME NEW l \in Key
               PROVE  Chain(version', latest'[l], List(l)')
    BY DEF Chains
  <2> QED
    BY <1>4, <1>5
<1>E. Sounds'
  <2> SUFFICES ASSUME NEW l \in Key
               PROVE  Sound(version', List(l)', min_cstamp[l])
    BY <1>U DEF Sounds
  <2> QED
    BY <1>4, <1>5, <1>7
<1>F. Stamps'
  <2> SUFFICES ASSUME NEW l \in Key
               PROVE  StampsAt(l)'
    BY DEF Stamps, StampsAt
  <2>1. CASE l # k
    BY <1>U, <1>4, <2>1, StampsKept
  <2>2. CASE l = k
    <3> SUFFICES ASSUME NEW j \in 1 .. Len(s)
                 PROVE  /\ version'[s[j]].cstamp <= CCtr + 1
                        /\ version'[s[j]].status = "committed" => version'[s[j]].cstamp <= CCtr
      BY <1>U, <1>5, <2>2 DEF StampsAt
    <3>1. CASE j = 1
      BY <1>V, <1>1, <3>1
    <3>2. CASE j # 1
      <4>1. j \in 2 .. Len(s)
        BY <1>1, <3>2, HeadOrTail
      <4>2. version'[s[j]] = version[s[j]]
        BY <1>3, <4>1
      <4> QED
        BY <1>P, <1>0, <4>2 DEF Inv, Stamps
    <3> QED
      BY <3>1, <3>2
  <2> QED
    BY <2>1, <2>2
<1>G. Apart'
  <2>1. \A u \in Thread : w'[u].reuse = w[u].reuse
    BY <1>W, <1>T DEF OneMoves
  <2>2. \A l, o \in Key : \A u \in Version : InList(l, u)' /\ InList(o, u)' => l = o
    BY <1>8 DEF Inv, Apart
  <2>3. ASSUME NEW u \in Thread, NEW j \in 1 .. Len(w'[u].reuse), NEW l \in Key
        PROVE  \A v : v = w'[u].reuse[j] => ~InList(l, v)'
    <3>1. ~InList(l, w[u].reuse[j])
      BY <2>1 DEF Inv, Apart
    <3> QED
      BY <1>8, <2>1, <3>1
  <2>4. \A u, o \in Thread : \A j \in 1 .. Len(w'[u].reuse), q \in 1 .. Len(w'[o].reuse) :
            w'[u].reuse[j] = w'[o].reuse[q] => u = o /\ j = q
    BY <2>1 DEF Inv, Apart
  <2> QED
    BY <2>2, <2>3, <2>4 DEF Apart
<1>10. \A u \in Thread \ {t} : w'[u] = w[u] /\ Undecided(u)' = Undecided(u)
  BY <1>W DEF OneMoves, Undecided
<1>H. WriteSets'
  <2> SUFFICES ASSUME NEW u \in Thread
               PROVE  OneEach(u)' /\ \A j \in Undecided(u)' : Pending(u, j)'
    BY DEF WriteSets, OneEach, Pending
  <2>1. CASE u # t
    <3>1. w'[u] = w[u] /\ Undecided(u)' = Undecided(u)
      BY <1>10, <2>1
    <3>2. OneEach(u)'
      <4>1. OneEach(u)
        BY PendingIs DEF Inv
      <4> QED
        BY <3>1, <4>1 DEF OneEach
    <3>3. ASSUME NEW j \in Undecided(u)
          PROVE  Pending(u, j)'
      <4>1. w[u].write_set[j].key # k
        BY <1>W, <2>1 DEF Inv, Owners
      <4>2. SameList(w[u].write_set[j].key)
        BY <1>4, <4>1, UndecidedHead
      <4> QED
        BY <3>1, <4>2, PendingKept
    <3> QED
      BY <3>1, <3>2, <3>3
  <2>2. CASE u = t
    <3>1. OneEach(t)'
      <4>1. OneEach(t)
        BY PendingIs DEF Inv
      <4> QED
        BY <1>T, <4>1 DEF OneEach
    <3>2. ASSUME NEW j \in Undecided(t)', j # i
          PROVE  Pending(t, j)'
      <4>0. PICK x : x = w[t].write_set[j]
        OBVIOUS
      <4>1. j \in Undecided(t) /\ j \in 1 .. Len(w[t].write_set)
        BY <1>T, UndecidedHead
      <4>2. x.key # k /\ x.key \in Key
        BY <1>W, <1>0, <3>2, <4>0, <4>1, PendingIs, UndecidedHead DEF Inv, OneEach
      <4>3. SameList(x.key)
        BY <1>4, <4>2
      <4>4. version'[latest[x.key]] = version[latest[x.key]] /\ List(x.key)' = List(x.key)
        BY <4>2, <4>3, HeadIsFirst DEF SameList
      <4>5. Pending(t, j)
        BY <4>1, PendingIs DEF Inv
      <4>6. /\ latest[x.key] = x.ver /\ version[x.ver].status = "inFlight"
            /\ w[t].pc = "abort" => version[x.ver].cstamp = w[t].txid
            /\ w[t].pc \in {"stamp", "install"} => Under(version, List(x.key), 1, w[t].cstamp)
        BY <4>0, <4>5 DEF Pending
      <4>7. ASSUME Under(version, List(x.key), 1, w[t].cstamp)
            PROVE  Under(version', List(x.key)', 1, w[t].cstamp)
        <5>1. \A q \in 1 + 1 .. Len(List(x.key)) : q \in 1 .. Len(List(x.key))
          BY <4>2, HeadIsFirst
        <5>2. Alike(version, version', List(x.key), 1 + 1)
          BY <4>3, <5>1 DEF Alike, SameList
        <5>3. Under(version', List(x.key), 1, w[t].cstamp)
          BY <4>7, <5>2, UnderKept
        <5> QED
          BY <4>4, <5>3
      <4>8. w'[t].write_set[j] = x
        BY <1>T, <4>0
      <4>9. w'[t].pc = "install" => j # w'[t].pos
        BY <1>T, <3>2
      <4> QED
        BY <1>T, <1>U, <3>2, <4>4, <4>6, <4>7, <4>8, <4>9 DEF Pending
    <3>3. ASSUME i \in Undecided(t)'
          PROVE  Pending(t, i)'
      <4>1. Under(version', List(k)', 1, w'[t].cstamp)
        BY <1>T, <1>9, <3>3
      <4>2. w'[t].write_set[i].key = k /\ w'[t].write_set[i].ver = d
        BY <1>T, <1>W
      <4> QED
        BY <1>U, <1>T, <1>0, <3>3, <4>1, <4>2 DEF Pending
    <3> QED
      BY <2>2, <3>1, <3>2, <3>3
  <2> QED
    BY <2>1, <2>2
<1>I. Owners'
  <2> SUFFICES ASSUME NEW u \in Thread, NEW o \in Thread,
                      NEW x \in Undecided(u)', NEW y \in Undecided(o)',
                      w'[u].write_set[x].key = w'[o].write_set[y].key
               PROVE  u = o
    BY DEF Owners
  <2>1. \A v \in Thread : w'[v].write_set = w[v].write_set /\ Undecided(v)' \subseteq Undecided(v)
    BY <1>T, <1>10
  <2> QED
    BY <2>1 DEF Inv, Owners
<1>J. Queued'
  <2> SUFFICES ASSUME NEW u \in Thread, NEW q \in 1 .. Len(w'[u].gcq),
                      NEW x, x = w'[u].gcq[q], x.cstamp > min_cstamp[x.key]
               PROVE  /\ InList(x.key, x.ver)'
                      /\ version'[x.ver].cstamp = x.cstamp
                      /\ version'[x.ver].status # "inFlight"
    BY <1>U DEF Queued
  <2>1. CASE q \in 1 .. Len(w[u].gcq) /\ x = w[u].gcq[q]
    <3>1. x.key \in Key /\ x.ver \in Version
      <4>1. w[u].gcq \in Seq(QueueElement)
        BY <1>0, WorkerTyped
      <4>2. x \in QueueElement
        BY <2>1, <4>1
      <4> QED
        BY <4>2 DEF QueueElement
    <3>2. InList(x.key, x.ver) /\ version[x.ver].cstamp = x.cstamp /\ version[x.ver].status # "inFlight"
      BY <2>1 DEF Inv, Queued
    <3>3. x.ver # d
      BY <1>0, <3>2
    <3>4. InList(x.key, x.ver)'
      BY <1>8, <3>1, <3>2
    <3> QED
      BY <1>V, <3>1, <3>2, <3>3, <3>4
  <2>2. CASE /\ x = [key |-> k, ver |-> d, cstamp |-> version'[d].cstamp]
             /\ version'[d].status # "inFlight"
    <3>1. x.key = k /\ x.ver = d /\ x.cstamp = version'[d].cstamp
      BY <2>2
    <3>2. InList(k, d)'
      BY <1>0, <1>1, <1>8
    <3> QED
      BY <2>2, <3>1, <3>2
  <2>3. \/ q \in 1 .. Len(w[u].gcq) /\ x = w[u].gcq[q]
        \/ x = [key |-> k, ver |-> d, cstamp |-> version'[d].cstamp] /\ version'[d].status # "inFlight"
    <3>1. CASE w'[u].gcq = w[u].gcq
      BY <3>1
    <3>2. CASE w'[u].gcq # w[u].gcq
      <4>0. PICK a, y : /\ a = w[t].gcq
                        /\ y = [key |-> k, ver |-> d, cstamp |-> version'[d].cstamp]
        OBVIOUS
      <4>1. u = t /\ w'[u].gcq = Append(a, y) /\ version'[d].status # "inFlight"
            /\ version'[d].cstamp \in Nat
        BY <1>W, <1>T, <3>2, <4>0 DEF OneMoves
      <4>2. y \in QueueElement /\ a \in Seq(QueueElement)
        BY <1>0, <4>0, <4>1, WorkerTyped DEF QueueElement
      <4>3. (q \in 1 .. Len(a) /\ x = a[q]) \/ x = y
        BY <4>1, <4>2, Appended
      <4> QED
        BY <4>0, <4>1, <4>3
    <3> QED
      BY <3>1, <3>2
  <2> QED
    BY <2>1, <2>2, <2>3
<1> QED
  BY <1>A, <1>B, <1>C, <1>D, <1>E, <1>F, <1>G, <1>H, <1>I, <1>J DEF Inv

\* The element that commit or abort is at is undecided.
LEMMA WrittenIs ==
    ASSUME Inv, NEW t \in Thread, w[t].pc \in {"stamp", "install", "abort"},
           w[t].pos <= Len(w[t].write_set)
    PROVE  /\ w[t].pos \in Undecided(t)
           /\ Written(t).key \in Key /\ Written(t).ver \in Version
           /\ \A q \in 1 .. Len(w[t].write_set) :
                 q \in Undecided(t) <=> q >= w[t].pos
<1>1. w[t].pos \in 1 .. Len(w[t].write_set)
  BY WorkerTyped DEF Inv
<1>2. \A q \in 1 .. Len(w[t].write_set) : q \in Undecided(t) <=> q >= w[t].pos
  BY DEF Undecided
<1>3. w[t].pos \in Undecided(t)
  BY <1>1, <1>2, WorkerTyped DEF Inv
<1> QED
  BY <1>2, <1>3, UndecidedHead DEF Written

LEMMA StampKeeps ==
    ASSUME Inv, NEW t \in Thread, stamp(t)
    PROVE  Inv'
<1>P. PICK i, k, d : i = w[t].pos /\ k = w[t].write_set[i].key /\ d = w[t].write_set[i].ver
  OBVIOUS
<1>0. /\ w[t].pc = "stamp" /\ i <= Len(w[t].write_set)
      /\ version' = [version EXCEPT ![d].cstamp = w[t].cstamp]
      /\ w' = [w EXCEPT ![t].pc = "install"]
      /\ UNCHANGED << quit, build, CCtr, TMT, GC_threshold, gcob, latest, min_cstamp, ended >>
  BY <1>P DEF stamp, At, InWriteSet, Written, counters
<1>00. /\ Types /\ Positions /\ Counters /\ w \in [Thread -> Worker] /\ w[t] \in Worker
       /\ w[t].cstamp \in Nat /\ CCtr \in Nat /\ PositionsAt(t) /\ CountersAt(t)
  BY WorkerTyped DEF Inv, Types, TypeOK, Positions, PositionsAt, Counters, CountersAt
<1>1. /\ i \in Undecided(t) /\ k \in Key /\ d \in Version
      /\ version[d].status = "inFlight" /\ Pending(t, i)
  BY <1>0, <1>P, WrittenIs, UndecidedHead, PendingIs DEF Inv, Written
<1>2. w' \in [Thread -> Worker] /\ OneMoves(t)
  BY <1>0, <1>00 DEF Worker, Label, OneMoves
<1>3. /\ w'[t].pc = "install" /\ w'[t].pos = i /\ w'[t].write_set = w[t].write_set
      /\ w'[t].reuse = w[t].reuse /\ w'[t].gcq = w[t].gcq
      /\ w'[t].cstamp = w[t].cstamp /\ w'[t].txid = w[t].txid
  BY <1>0, <1>00, <1>P DEF Worker
<1>4. /\ TypeOK'
      /\ \A u \in Version : u # d => version'[u] = version[u]
      /\ version'[d].prev = version[d].prev
      /\ version'[d].committed_prev = version[d].committed_prev
      /\ version'[d].cstamp = w[t].cstamp /\ version'[d].status = version[d].status
  <2> DEFINE P == Version \cup {NULL}
             S == {"inFlight", "committed", "aborted"}
             V == [prev : P, committed_prev : P, cstamp : Nat, status : S]
  <2>1. version \in [Version -> V]
    BY <1>00 DEF Types, TypeOK
  <2> HIDE DEF P, S
  <2>2. version' \in [Version -> V]
    BY <1>0, <1>00, <1>1, <2>1
  <2>3. TypeOK'
    BY <1>0, <1>00, <2>2 DEF Types, TypeOK, P, S
  <2> QED
    BY <1>0, <1>1, <2>1, <2>3
<1>5. PositionsAt(t)' /\ CountersAt(t)'
  BY <1>0, <1>00, <1>3, <1>P DEF PositionsAt, CountersAt, Running
<1>6. w[t].cstamp <= CCtr /\ w[t].cstamp <= CCtr + 1
  BY <1>00 DEF CountersAt
<1>7. Undecided(t)' = Undecided(t)
  BY <1>0, <1>3, <1>P DEF Undecided
<1>8. Under(version, List(k), 1, w[t].cstamp)
  BY <1>0, <1>1, <1>P DEF Pending
<1>9. HeadStep(t, i, k, d)
  BY <1>P, <1>0, <1>1, <1>2, <1>3, <1>4, <1>5, <1>6, <1>7, <1>8 DEF HeadStep
<1> QED
  BY <1>9, HeadKeeps

LEMMA InstallKeeps ==
    ASSUME Inv, NEW t \in Thread, install(t)
    PROVE  Inv'
<1>P. PICK i, k, d, x :
         /\ i = w[t].pos /\ k = w[t].write_set[i].key /\ d = w[t].write_set[i].ver
         /\ x = [key |-> k, ver |-> d, cstamp |-> w[t].cstamp]
  OBVIOUS
<1>0. /\ w[t].pc = "install"
      /\ version' = [version EXCEPT ![d].status = "committed"]
      /\ w' = [w EXCEPT ![t].gcq = Append(@, x), ![t].pos = @ + 1, ![t].pc = "stamp"]
      /\ UNCHANGED << quit, build, CCtr, TMT, GC_threshold, gcob, latest, min_cstamp, ended >>
  BY <1>P DEF install, At, Written, GCElement, counters
<1>00. /\ Types /\ Positions /\ Counters /\ w \in [Thread -> Worker] /\ w[t] \in Worker
       /\ w[t].cstamp \in Nat /\ CCtr \in Nat /\ PositionsAt(t) /\ CountersAt(t)
       /\ w[t].pos + 1 \in Positive /\ w[t].pos \in Nat
  BY WorkerTyped DEF Inv, Types, TypeOK, Positions, PositionsAt, Counters, CountersAt
<1>1. /\ i \in Undecided(t) /\ k \in Key /\ d \in Version
      /\ version[d].status = "inFlight" /\ Pending(t, i)
  <2>1. i <= Len(w[t].write_set)
    BY <1>0, <1>00, <1>P DEF PositionsAt
  <2> QED
    BY <1>0, <1>P, <2>1, WrittenIs, UndecidedHead, PendingIs DEF Inv, Written
<1>2. version[d].cstamp = w[t].cstamp /\ Under(version, List(k), 1, w[t].cstamp)
  BY <1>0, <1>1, <1>P DEF Pending
<1>3. Append(w[t].gcq, x) \in Queues
  <2>1. x \in QueueElement
    BY <1>00, <1>1, <1>P DEF QueueElement
  <2> QED
    BY <1>00, <2>1, WorkerTyped, Appended DEF Queues
<1>4. w' \in [Thread -> Worker] /\ OneMoves(t)
  BY <1>0, <1>00, <1>3 DEF Worker, Label, OneMoves
<1>5. /\ w'[t].pc = "stamp" /\ w'[t].pos = i + 1 /\ w'[t].write_set = w[t].write_set
      /\ w'[t].reuse = w[t].reuse /\ w'[t].gcq = Append(w[t].gcq, x)
      /\ w'[t].cstamp = w[t].cstamp /\ w'[t].txid = w[t].txid
  BY <1>0, <1>00, <1>P DEF Worker
<1>6. /\ TypeOK'
      /\ \A u \in Version : u # d => version'[u] = version[u]
      /\ version'[d].prev = version[d].prev
      /\ version'[d].committed_prev = version[d].committed_prev
      /\ version'[d].cstamp = w[t].cstamp /\ version'[d].status = "committed"
  <2> DEFINE P == Version \cup {NULL}
             S == {"inFlight", "committed", "aborted"}
             V == [prev : P, committed_prev : P, cstamp : Nat, status : S]
  <2>1. version \in [Version -> V] /\ "committed" \in S
    BY <1>00 DEF Types, TypeOK
  <2> HIDE DEF P, S
  <2>2. version' \in [Version -> V]
    BY <1>0, <1>1, <2>1
  <2>3. TypeOK'
    BY <1>0, <1>00, <2>2 DEF Types, TypeOK, P, S
  <2> QED
    BY <1>0, <1>1, <1>2, <2>1, <2>3
<1>7. PositionsAt(t)' /\ CountersAt(t)'
  BY <1>0, <1>00, <1>5, <1>P DEF PositionsAt, CountersAt, Running
<1>8. w[t].cstamp <= CCtr /\ w[t].cstamp <= CCtr + 1
  BY <1>00 DEF CountersAt
<1>9. Undecided(t)' \subseteq Undecided(t) /\ i \notin Undecided(t)'
  <2>1. /\ Undecided(t)' = {q \in 1 .. Len(w[t].write_set) : q >= i + 1}
        /\ Undecided(t) = {q \in 1 .. Len(w[t].write_set) : q >= i}
    BY <1>0, <1>5, <1>P DEF Undecided
  <2>2. i \in Nat
    BY <1>00, <1>P
  <2>3. \A q : q \in 1 .. Len(w[t].write_set) => q \in Int
    OBVIOUS
  <2>4. \A q \in Int : (q >= i + 1 => q >= i) /\ ~(i >= i + 1)
    BY <2>2
  <2> QED
    BY <2>1, <2>3, <2>4
<1>10. x = [key |-> k, ver |-> d, cstamp |-> version'[d].cstamp]
  BY <1>6, <1>P
<1>11. HeadStep(t, i, k, d)
  BY <1>P, <1>0, <1>00, <1>1, <1>2, <1>4, <1>5, <1>6, <1>7, <1>8, <1>9, <1>10 DEF HeadStep
<1> QED
  BY <1>11, HeadKeeps

LEMMA DiscardKeeps ==
    ASSUME Inv, NEW t \in Thread, discard(t)
    PROVE  Inv'
<1>P. PICK i, k, d, x :
         /\ i = w[t].pos /\ k = w[t].write_set[i].key /\ d = w[t].write_set[i].ver
         /\ x = [key |-> k, ver |-> d, cstamp |-> w[t].txid]
  OBVIOUS
<1>0. /\ w[t].pc = "abort" /\ i <= Len(w[t].write_set)
      /\ version' = [version EXCEPT ![d].status = "aborted"]
      /\ w' = [w EXCEPT ![t].gcq = Append(@, x), ![t].pos = @ + 1]
      /\ UNCHANGED << quit, build, CCtr, TMT, GC_threshold, gcob, latest, min_cstamp, ended >>
  BY <1>P DEF discard, At, Written, InWriteSet, GCElement, counters
<1>00. /\ Types /\ Positions /\ Counters /\ w \in [Thread -> Worker] /\ w[t] \in Worker
       /\ w[t].txid \in Nat /\ CCtr \in Nat /\ PositionsAt(t) /\ CountersAt(t)
       /\ w[t].pos + 1 \in Positive /\ w[t].pos \in Nat
  BY WorkerTyped DEF Inv, Types, TypeOK, Positions, PositionsAt, Counters, CountersAt
<1>1. /\ i \in Undecided(t) /\ k \in Key /\ d \in Version
      /\ version[d].status = "inFlight" /\ Pending(t, i)
  BY <1>0, <1>P, WrittenIs, UndecidedHead, PendingIs DEF Inv, Written
<1>2. version[d].cstamp = w[t].txid
  BY <1>0, <1>1, <1>P DEF Pending
<1>3. Append(w[t].gcq, x) \in Queues
  <2>1. x \in QueueElement
    BY <1>00, <1>1, <1>P DEF QueueElement
  <2> QED
    BY <1>00, <2>1, WorkerTyped, Appended DEF Queues
<1>4. w' \in [Thread -> Worker] /\ OneMoves(t)
  BY <1>0, <1>00, <1>3 DEF Worker, Label, OneMoves
<1>5. /\ w'[t].pc = "abort" /\ w'[t].pos = i + 1 /\ w'[t].write_set = w[t].write_set
      /\ w'[t].reuse = w[t].reuse /\ w'[t].gcq = Append(w[t].gcq, x)
      /\ w'[t].cstamp = w[t].cstamp /\ w'[t].txid = w[t].txid
  BY <1>0, <1>00, <1>P DEF Worker
<1>6. /\ TypeOK'
      /\ \A u \in Version : u # d => version'[u] = version[u]
      /\ version'[d].prev = version[d].prev
      /\ version'[d].committed_prev = version[d].committed_prev
      /\ version'[d].cstamp = w[t].txid /\ version'[d].status = "aborted"
  <2> DEFINE P == Version \cup {NULL}
             S == {"inFlight", "committed", "aborted"}
             V == [prev : P, committed_prev : P, cstamp : Nat, status : S]
  <2>1. version \in [Version -> V] /\ "aborted" \in S
    BY <1>00 DEF Types, TypeOK
  <2> HIDE DEF P, S
  <2>2. version' \in [Version -> V]
    BY <1>0, <1>1, <2>1
  <2>3. TypeOK'
    BY <1>0, <1>00, <2>2 DEF Types, TypeOK, P, S
  <2> QED
    BY <1>0, <1>1, <1>2, <2>1, <2>3
<1>7. PositionsAt(t)' /\ CountersAt(t)'
  BY <1>0, <1>00, <1>5, <1>P DEF PositionsAt, CountersAt, Running
<1>8. w[t].txid <= CCtr + 1
  BY <1>00 DEF CountersAt
<1>9. Undecided(t)' \subseteq Undecided(t) /\ i \notin Undecided(t)'
  <2>1. /\ Undecided(t)' = {q \in 1 .. Len(w[t].write_set) : q >= i + 1}
        /\ Undecided(t) = {q \in 1 .. Len(w[t].write_set) : q >= i}
    BY <1>0, <1>5, <1>P DEF Undecided
  <2>2. i \in Nat
    BY <1>00, <1>P
  <2>3. \A q : q \in 1 .. Len(w[t].write_set) => q \in Int
    OBVIOUS
  <2>4. \A q \in Int : (q >= i + 1 => q >= i) /\ ~(i >= i + 1)
    BY <2>2
  <2> QED
    BY <2>1, <2>3, <2>4
<1>10. x = [key |-> k, ver |-> d, cstamp |-> version'[d].cstamp]
  BY <1>6, <1>P
<1>11. HeadStep(t, i, k, d)
  BY <1>P, <1>0, <1>00, <1>1, <1>2, <1>4, <1>5, <1>6, <1>7, <1>8, <1>9, <1>10 DEF HeadStep
<1> QED
  BY <1>11, HeadKeeps

-----------------------------------------------------------------------------
(* gcVersion *)

LEMMA HeadOf ==
    ASSUME NEW S, NEW s \in Seq(S), s # << >>
    PROVE  /\ 1 \in 1 .. Len(s) /\ Head(s) = s[1] /\ Head(s) \in S
           /\ Tail(s) \in Seq(S)
OBVIOUS

LEMMA Above ==
    ASSUME NEW m \in Nat, NEW n \in Nat
    PROVE  /\ ~(m <= n) <=> m > n
           /\ m > n => m # n
OBVIOUS

LEMMA Between ==
    ASSUME NEW n \in Nat, NEW i \in 1 .. n
    PROVE  /\ i # n => i < n
           /\ n - i # 0 => i # n
           /\ \A j \in i + 1 .. n : j \in 1 .. n
           /\ \A j \in 1 .. n : j \in 1 .. i \/ j \in i + 1 .. n
           /\ i # n => n \in i + 1 .. n
           /\ \A q \in 1 .. n - i : q + i \in 1 .. n
OBVIOUS

\* What gcVersion takes away of a list.
Taken(k, j, s, a, b, before) ==
    /\ s = List(k) /\ j \in 1 .. Len(s) /\ j # Len(s)
    /\ before = s[j] /\ before \in Version /\ version[before].status = "committed"
    /\ Chain(version', latest[k], a) /\ Sound(version', a, version[before].cstamp)
    /\ Len(a) = j /\ \A i \in 1 .. j : a[i] = s[i]
    /\ b \in Seq(Version) /\ Len(b) = Len(s) - j
    /\ \A i \in 1 .. Len(b) : i + j \in 1 .. Len(s) /\ b[i] = s[i + j]

\* The element that gcVersion is at, when there is something to reclaim.
GcAt(t, k, before) ==
    /\ Inv /\ w[t].gcq # << >> /\ ~(Dangling(t) \/ Reclaimable(t) = << >>)
    /\ k = Head(w[t].gcq).key /\ before = version[Head(w[t].gcq).ver].committed_prev
    /\ version' = [version EXCEPT ![before].prev = NULL]

Cutting(t, k, before) ==
    /\ k \in Key /\ Head(w[t].gcq) \in QueueElement
    /\ \A u \in Version : /\ u # before => version'[u] = version[u]
                          /\ version'[u].status = version[u].status
                          /\ version'[u].cstamp = version[u].cstamp
                          /\ version'[u].committed_prev = version[u].committed_prev
    /\ \E j : \E s, a : Taken(k, j, s, a, Reclaimable(t), before)

LEMMA ReclaimableIs ==
    ASSUME NEW t \in Thread, NEW k, NEW before, GcAt(t, k, before)
    PROVE  Cutting(t, k, before)
<1>a. /\ Inv /\ w[t].gcq # << >> /\ ~(Dangling(t) \/ Reclaimable(t) = << >>)
      /\ k = Head(w[t].gcq).key /\ before = version[Head(w[t].gcq).ver].committed_prev
  BY DEF GcAt
<1>b. version' = [version EXCEPT ![before].prev = NULL]
  BY DEF GcAt
<1> USE <1>a
<1>0. PICK e, s : e = Head(w[t].gcq) /\ s = List(k)
  OBVIOUS
<1>1. e = w[t].gcq[1] /\ 1 \in 1 .. Len(w[t].gcq) /\ e \in QueueElement
  <2>1. w[t].gcq \in Seq(QueueElement)
    BY WorkerTyped DEF Inv
  <2> QED
    BY <1>0, <2>1, HeadOf
<1>2. k \in Key /\ e.ver \in Version /\ e.cstamp \in Nat /\ min_cstamp[k] \in Nat
  BY <1>0, <1>1 DEF QueueElement, Inv, Types, TypeOK
<1>3. e.cstamp > min_cstamp[k]
  <2>1. ~(e.cstamp <= min_cstamp[k])
    BY <1>0 DEF Dangling
  <2> QED
    BY <1>2, <2>1, Above
<1>4. InList(k, e.ver) /\ version[e.ver].cstamp = e.cstamp
  BY <1>0, <1>1, <1>3 DEF Inv, Queued
<1>5. /\ Chain(version, latest[k], s) /\ Sound(version, s, min_cstamp[k])
      /\ s \in Seq(Version) /\ Len(s) \in Nat /\ \A i \in 1 .. Len(s) : s[i] \in Version
  BY <1>0, <1>2, HeadIsFirst
<1>6. PICK i \in 1 .. Len(s) : s[i] = e.ver
  BY <1>0, <1>4 DEF InList
<1>7. i < Len(s)
  <2>1. version[s[Len(s)]].cstamp = min_cstamp[k]
    BY <1>5 DEF Sound
  <2>2. i # Len(s)
    <3>1. version[s[Len(s)]].cstamp # version[s[i]].cstamp
      <4>1. e.cstamp # min_cstamp[k]
        BY <1>2, <1>3, Above
      <4> QED
        BY Zenon, <1>4, <1>6, <2>1, <4>1
    <3> QED
      BY Zenon, <3>1
  <2> QED
    BY <1>5, <2>2, Between
<1>8. PICK j \in i + 1 .. Len(s) : NextCommitted(version, s, i, j)
  BY <1>5, <1>7 DEF Sound
<1>9. /\ j \in 1 .. Len(s) /\ before = s[j] /\ before \in Version
      /\ version[before].status = "committed"
  <2>1. j \in 1 .. Len(s)
    BY <1>5, Between
  <2> QED
    BY <1>0, <1>5, <1>6, <1>8, <2>1 DEF NextCommitted
<1>10. /\ \A u \in Version : /\ u # before => version'[u] = version[u]
                             /\ version'[u].status = version[u].status
                             /\ version'[u].cstamp = version[u].cstamp
                             /\ version'[u].committed_prev = version[u].committed_prev
       /\ version'[before].prev = NULL
  <2> DEFINE P == Version \cup {NULL}
             S == {"inFlight", "committed", "aborted"}
             V == [prev : P, committed_prev : P, cstamp : Nat, status : S]
  <2>1. version \in [Version -> V]
    BY DEF Inv, Types, TypeOK
  <2> HIDE DEF P, S
  <2> QED
    BY <1>9, <1>b, <2>1
<1>11. ASSUME NEW q \in 1 .. Len(s), q # j
       PROVE  version'[s[q]].prev = version[s[q]].prev
  <2>1. s[q] # s[j]
    BY <1>5, <1>9, <1>11 DEF Chain
  <2> QED
    BY <1>5, <1>9, <1>10, <2>1
<1>12. PICK a, b : /\ Chain(version', latest[k], a) /\ Chain(version, version[s[j]].prev, b)
                   /\ Halves(s, j, a, b)
  <2>1. version'[s[j]].prev = NULL
    BY <1>9, <1>10
  <2>2. CutAt(version, version', latest[k], s, j)
    BY <1>5, <1>9, <1>11, <2>1 DEF CutAt
  <2> QED
    BY <2>2, ChainCut
<1>13. /\ Chain(version', latest[k], a) /\ Chain(version, version[s[j]].prev, b)
       /\ Len(a) = j /\ \A q \in 1 .. j : a[q] = s[q]
       /\ Len(b) = Len(s) - j /\ \A q \in 1 .. Len(s) - j : b[q] = s[q + j]
  BY <1>12 DEF Halves
<1>14. Reclaimable(t) = b
  <2>1. FromIn(version, version[s[j]].prev) = b
    BY <1>13, FromChain
  <2>2. From(version[before].prev) = b
    BY <1>9, <2>1, FromIsFromIn
  <2>3. before # NULL
    BY <1>9, NullIsNoVersion
  <2> QED
    BY <1>0, <2>2, <2>3 DEF Reclaimable
<1>15. j # Len(s) /\ b \in Seq(Version)
  <2>1. b # << >>
    BY <1>14
  <2>2. b \in Seq(Version)
    BY <1>13 DEF Chain
  <2>3. Len(b) # 0
    BY <2>1, <2>2, EmptySeq
  <2> QED
    BY <1>5, <1>9, <1>13, <2>2, <2>3, Between
<1>16. Sound(version', a, version[before].cstamp)
  <2>1. Alike(version, version', s, 1)
    BY <1>5, <1>10 DEF Alike
  <2>2. a # << >>
    BY <1>9, <1>13
  <2> QED
    <3>1. /\ j \in 1 .. Len(s) /\ version[s[j]].status = "committed"
          /\ Chain(version, latest[k], s) /\ Sound(version, s, min_cstamp[k])
      BY <1>5, <1>9
    <3>2. Len(a) = j /\ \A q \in 1 .. j : a[q] = s[q]
      BY <1>13
    <3>3. Sound(version', a, version[s[j]].cstamp)
      BY <2>1, <2>2, <3>1, <3>2, SoundCut
    <3> QED
      BY <1>9, <3>3
<1>17. \A q \in 1 .. Len(b) : q + j \in 1 .. Len(s) /\ b[q] = s[q + j]
  BY <1>5, <1>9, <1>13
<1>18. Taken(k, j, s, a, b, before)
  BY <1>0, <1>9, <1>13, <1>15, <1>16, <1>17 DEF Taken
<1> QED
  BY <1>0, <1>1, <1>2, <1>10, <1>14, <1>18 DEF Cutting

\* What is taken away has no stamp above that of the version it was behind.
LEMMA TakenUnder ==
    ASSUME Inv, NEW k \in Key, NEW j, NEW s, NEW a, NEW b, NEW before,
           Taken(k, j, s, a, b, before)
    PROVE  /\ min_cstamp[k] <= version[before].cstamp
           /\ \A i \in 1 .. Len(s) :
                 version[s[i]].cstamp > version[before].cstamp =>
                     i \in 1 .. j
<1>1. /\ Chain(version, latest[k], s) /\ Sound(version, s, min_cstamp[k])
      /\ Len(s) \in Nat /\ s # << >> /\ Len(s) \in 1 .. Len(s)
      /\ \A i \in 1 .. Len(s) : s[i] \in Version /\ version[s[i]].cstamp \in Nat
      /\ j \in 1 .. Len(s) /\ j # Len(s) /\ before = s[j] /\ version[before].cstamp \in Nat
      /\ version[before].status = "committed"
  <2>1. s = List(k)
    BY DEF Taken
  <2>2. /\ Chain(version, latest[k], s) /\ Sound(version, s, min_cstamp[k])
        /\ \A i \in 1 .. Len(s) : s[i] \in Version
        /\ Len(s) \in Nat /\ s # << >>
    BY <2>1, HeadIsFirst
  <2>3. Len(s) \in 1 .. Len(s)
    BY <2>2, ChainTyped
  <2> QED
    BY <2>2, <2>3, VersionTyped DEF Taken, Inv
<1>2. Under(version, s, j, version[before].cstamp)
  BY <1>1 DEF Sound
<1>3. Len(s) \in j + 1 .. Len(s) /\ \A i \in 1 .. Len(s) : i \in 1 .. j \/ i \in j + 1 .. Len(s)
  BY <1>1, Between
<1>4. version[s[Len(s)]].cstamp = min_cstamp[k]
  BY <1>1 DEF Sound
<1>5. min_cstamp[k] <= version[before].cstamp
  BY <1>2, <1>3, <1>4 DEF Under
<1>6. ASSUME NEW i \in 1 .. Len(s), version[s[i]].cstamp > version[before].cstamp
      PROVE  i \in 1 .. j
  <2>1. i \in j + 1 .. Len(s) => version[s[i]].cstamp <= version[before].cstamp
    BY <1>2 DEF Under
  <2>2. version[s[i]].cstamp \in Nat /\ version[before].cstamp \in Nat
    BY <1>1
  <2> QED
    BY <1>3, <1>6, <2>1, <2>2
<1> QED
  BY <1>5, <1>6

LEMMA Concatenated ==
    ASSUME NEW S, NEW s \in Seq(S), NEW r \in Seq(S)
    PROVE  /\ s \o r \in Seq(S)
           /\ \A i \in 1 .. Len(s \o r) :
                 \/ i \in 1 .. Len(s) /\ (s \o r)[i] = s[i]
                 \/ /\ i \notin 1 .. Len(s) /\ i - Len(s) \in 1 .. Len(r) /\ i \in Int
                    /\ (s \o r)[i] = r[i - Len(s)]
<1>1. Len(s) \in Nat /\ Len(r) \in Nat /\ s \o r \in Seq(S) /\ Len(s \o r) = Len(s) + Len(r)
  OBVIOUS
<1>2. ASSUME NEW i \in 1 .. Len(s) + Len(r)
      PROVE  \/ i \in 1 .. Len(s) /\ (s \o r)[i] = s[i]
             \/ /\ i \notin 1 .. Len(s) /\ i - Len(s) \in 1 .. Len(r) /\ i \in Int
                /\ (s \o r)[i] = r[i - Len(s)]
  BY <1>1
<1> QED
  BY <1>1, <1>2

\* Nothing to reclaim: the element goes.
LEMMA GcSkips ==
    ASSUME Inv, NEW t \in Thread, gcVersion(t), Dangling(t) \/ Reclaimable(t) = << >>
    PROVE  Inv'
<1>0. /\ w[t].pc = "gc" /\ w[t].gcq # << >>
      /\ w' = [w EXCEPT ![t].gcq = Tail(@)]
      /\ UNCHANGED << quit, build, CCtr, TMT, GC_threshold, gcob, latest, version, min_cstamp, ended >>
  BY DEF gcVersion, At, counters
<1>1. /\ Types /\ Positions /\ Counters /\ w \in [Thread -> Worker] /\ w[t] \in Worker
      /\ PositionsAt(t) /\ CountersAt(t)
  BY WorkerTyped DEF Inv, Types, Positions, PositionsAt, Counters, CountersAt
<1>2. Tail(w[t].gcq) \in Queues
  BY <1>0, <1>1, WorkerTyped, HeadOf DEF Queues
<1>3. w' \in [Thread -> Worker] /\ OneMoves(t)
  BY <1>0, <1>1, <1>2 DEF Worker, OneMoves
<1>4. /\ w'[t].pc = "gc" /\ w'[t].write_set = w[t].write_set /\ w'[t].reuse = w[t].reuse
      /\ w'[t].gcq = Tail(w[t].gcq) /\ w'[t].cstamp = w[t].cstamp /\ w'[t].txid = w[t].txid
      /\ w'[t].pos = w[t].pos
  BY <1>0, <1>1 DEF Worker
<1>5. PositionsAt(t)' /\ CountersAt(t)'
  BY <1>0, <1>1, <1>4 DEF PositionsAt, CountersAt, Running
<1>6. Types'
  BY <1>0, <1>1, <1>3 DEF Types, TypeOK
<1>7. Positions' /\ Counters'
  BY <1>0, <1>1, <1>3, <1>5, Elsewhere, CountersElsewhere
<1>8. \A u \in Thread : /\ Steady(u) /\ SameQueues(u)
                        /\ w'[u] = w[u] \/ PositionsAt(u)'
  <2> SUFFICES ASSUME NEW u \in Thread
               PROVE  /\ Steady(u) /\ SameQueues(u)
                      /\ w'[u] = w[u] \/ PositionsAt(u)'
    OBVIOUS
  <2>1. CASE u = t
    BY <1>0, <1>4, <1>5, <2>1 DEF Steady, SameQueues
  <2>2. CASE u # t
    <3>1. w'[u] = w[u]
      BY <1>3, <2>2 DEF OneMoves
    <3> QED
      BY <3>1 DEF Steady, SameQueues
  <2> QED
    BY <2>1, <2>2
<1>9. Chains' /\ Sounds' /\ Stamps' /\ Apart' /\ WriteSets' /\ Owners' /\ Queued'
  BY <1>0, <1>6, <1>8, QuietStep DEF Unmoved
<1> QED
  BY <1>6, <1>7, <1>9 DEF Inv

GcMoved(t, k, before) ==
    /\ GcAt(t, k, before) /\ Cutting(t, k, before)
    /\ min_cstamp' = [min_cstamp EXCEPT ![k] = version[before].cstamp]
    /\ UNCHANGED << CCtr, TMT, gcob, latest >>
    /\ w' \in [Thread -> Worker] /\ OneMoves(t) /\ Types'
    /\ PositionsAt(t)' /\ CountersAt(t)'
    /\ w[t].write_set = << >> /\ w'[t].write_set = << >>
    /\ w'[t].gcq = Tail(w[t].gcq) /\ w'[t].reuse = w[t].reuse \o Reclaimable(t)

LEMMA GcMoves ==
    ASSUME Inv, NEW t \in Thread, gcVersion(t), ~(Dangling(t) \/ Reclaimable(t) = << >>)
    PROVE  \E k, before : GcMoved(t, k, before)
<1>k. PICK k, before :
         k = Head(w[t].gcq).key /\ before = version[Head(w[t].gcq).ver].committed_prev
  OBVIOUS
<1>0. /\ w[t].pc = "gc" /\ w[t].gcq # << >>
      /\ version' = [version EXCEPT ![before].prev = NULL]
      /\ min_cstamp' = [min_cstamp EXCEPT ![k] = version[before].cstamp]
      /\ w' = [w EXCEPT ![t].gcq = Tail(@), ![t].reuse = @ \o Reclaimable(t)]
      /\ UNCHANGED << quit, build, CCtr, TMT, GC_threshold, gcob, latest, ended >>
  BY <1>k DEF gcVersion, At, counters
<1>1. /\ Types /\ Positions /\ Counters /\ w \in [Thread -> Worker] /\ w[t] \in Worker
      /\ PositionsAt(t) /\ CountersAt(t)
  BY WorkerTyped DEF Inv, Types, Positions, PositionsAt, Counters, CountersAt
<1>g. GcAt(t, k, before)
  BY <1>k, <1>0 DEF GcAt
<1>c. Cutting(t, k, before)
  BY <1>g, ReclaimableIs
<1>2. PICK j, s, a, b : Taken(k, j, s, a, b, before) /\ b = Reclaimable(t) /\ k \in Key
  BY <1>c DEF Cutting
<1>3. before \in Version /\ b \in Seq(Version)
  BY <1>2 DEF Taken
<1>4. Tail(w[t].gcq) \in Queues /\ w[t].reuse \o b \in Reserves
  BY <1>0, <1>1, <1>3, WorkerTyped, HeadOf, Concatenated DEF Queues, Reserves
<1>5. w' = [w EXCEPT ![t].gcq = Tail(w[t].gcq), ![t].reuse = w[t].reuse \o b]
  BY <1>0, <1>2
<1>6. w' \in [Thread -> Worker] /\ OneMoves(t)
  BY <1>1, <1>4, <1>5 DEF Worker, OneMoves
<1>7. /\ w'[t].pc = "gc" /\ w'[t].write_set = w[t].write_set
      /\ w'[t].reuse = w[t].reuse \o b
      /\ w'[t].gcq = Tail(w[t].gcq) /\ w'[t].cstamp = w[t].cstamp /\ w'[t].txid = w[t].txid
  <2>1. w'[t] = [w[t] EXCEPT !.gcq = Tail(w[t].gcq), !.reuse = w[t].reuse \o b]
    BY <1>1, <1>5
  <2>2. /\ w'[t].pc = w[t].pc /\ w'[t].write_set = w[t].write_set
        /\ w'[t].cstamp = w[t].cstamp /\ w'[t].txid = w[t].txid
        /\ w'[t].reuse = w[t].reuse \o b /\ w'[t].gcq = Tail(w[t].gcq)
    BY <1>1, <2>1 DEF Worker
  <2> QED
    BY <1>0, <2>2
<1>8. PositionsAt(t)' /\ CountersAt(t)' /\ w[t].write_set = << >>
  BY <1>0, <1>1, <1>7 DEF PositionsAt, CountersAt, Running
<1>9. Types'
  <2> DEFINE P == Version \cup {NULL}
             S == {"inFlight", "committed", "aborted"}
             V == [prev : P, committed_prev : P, cstamp : Nat, status : S]
  <2>1. version \in [Version -> V] /\ NULL \in P /\ min_cstamp \in [Key -> Nat]
    BY <1>1 DEF Types, TypeOK
  <2> HIDE DEF P, S
  <2>2. version' \in [Version -> V]
    BY <1>0, <1>3, <2>1
  <2>3. min_cstamp' \in [Key -> Nat]
    BY <1>0, <1>2, <1>3, <2>1
  <2>4. TypeOK'
    BY <1>0, <1>1, <2>2, <2>3 DEF Types, TypeOK, P, S
  <2>5. gcob' \in [fmin : Nat, fmax : Nat, smin : Nat, smax : Nat, i : Nat]
    BY <1>0, <1>1 DEF Types
  <2> QED
    BY <1>6, <2>4, <2>5 DEF Types
<1> QED
  <2>1. GcMoved(t, k, before)
    BY <1>0, <1>2, <1>6, <1>7, <1>8, <1>9, <1>c, <1>g DEF GcMoved
  <2> QED
    BY <2>1

LEMMA GcReclaims ==
    ASSUME Inv, NEW t \in Thread, gcVersion(t), ~(Dangling(t) \/ Reclaimable(t) = << >>)
    PROVE  Inv'
<1>P. PICK k, before : GcMoved(t, k, before)
  BY GcMoves
<1>0. /\ w[t].gcq # << >> /\ k \in Key
      /\ version' = [version EXCEPT ![before].prev = NULL]
      /\ min_cstamp' = [min_cstamp EXCEPT ![k] = version[before].cstamp]
      /\ UNCHANGED << CCtr, TMT, gcob, latest >>
      /\ w' \in [Thread -> Worker] /\ OneMoves(t) /\ Types'
      /\ PositionsAt(t)' /\ CountersAt(t)'
      /\ w[t].write_set = << >> /\ w'[t].write_set = << >>
      /\ w'[t].gcq = Tail(w[t].gcq) /\ w'[t].reuse = w[t].reuse \o Reclaimable(t)
  BY <1>P DEF GcMoved, GcAt, Cutting
<1>T. /\ \A u \in Version : /\ u # before => version'[u] = version[u]
                            /\ version'[u].status = version[u].status
                            /\ version'[u].cstamp = version[u].cstamp
                            /\ version'[u].committed_prev = version[u].committed_prev
      /\ \E j : \E s, a : Taken(k, j, s, a, Reclaimable(t), before)
  BY <1>P DEF GcMoved, Cutting
<1>1. PICK j, s, a, b : b = Reclaimable(t) /\ Taken(k, j, s, a, b, before)
  BY <1>T
<1>2. /\ Types /\ Positions /\ Counters
      /\ s = List(k) /\ j \in 1 .. Len(s) /\ before = s[j] /\ before \in Version
      /\ Chain(version', latest'[k], a) /\ Sound(version', a, version[before].cstamp)
      /\ Len(a) = j /\ \A i \in 1 .. j : a[i] = s[i]
      /\ b \in Seq(Version)
      /\ \A i \in 1 .. Len(b) : i + j \in 1 .. Len(s) /\ b[i] = s[i + j]
      /\ w'[t].reuse = w[t].reuse \o b
      /\ InList(k, before)
  BY <1>0, <1>1 DEF Taken, Inv, InList
<1>3. /\ s \in Seq(Version) /\ Len(s) \in Nat /\ \A i \in 1 .. Len(s) : s[i] \in Version
      /\ Chain(version, latest[k], s) /\ 1 \in 1 .. Len(s)
  BY <1>0, <1>2, HeadIsFirst
<1>4. \A i \in 1 .. j : i \in 1 .. Len(s)
  BY <1>2, <1>3
<1>5. min_cstamp \in [Key -> Nat]
  BY <1>2 DEF Types, TypeOK
<1>6. min_cstamp'[k] = version[before].cstamp /\ \A l \in Key : l # k => min_cstamp'[l] = min_cstamp[l]
  BY <1>0, <1>5
<1>7. /\ min_cstamp[k] <= version[before].cstamp
      /\ \A i \in 1 .. Len(s) : version[s[i]].cstamp > version[before].cstamp => i \in 1 .. j
  BY <1>0, <1>1, TakenUnder
<1>8. ASSUME NEW l \in Key, l # k
      PROVE  /\ SameList(l) /\ Chain(version', latest'[l], List(l)')
             /\ Sound(version', List(l)', min_cstamp'[l])
  <2>1. latest'[l] = latest[l]
    BY <1>0
  <2>2. ~InList(l, before)
    BY <1>0, <1>2, <1>8 DEF Inv, Apart
  <2>3. \A i \in 1 .. Len(List(l)) : version'[List(l)[i]] = version[List(l)[i]]
    BY <1>T, <2>2, HeadIsFirst DEF InList
  <2> QED
    BY <1>6, <1>8, <2>1, <2>3, ListKept
<1>9. List(k)' = a
  BY <1>2, NewList
<1>10. /\ \A l \in Key : \A u : l # k => (InList(l, u)' <=> InList(l, u))
       /\ \A u : InList(k, u)' <=> \E i \in 1 .. j : s[i] = u
       /\ \A l \in Key : \A u : InList(l, u)' => InList(l, u)
  <2>1. ASSUME NEW l \in Key, NEW u, l # k
        PROVE  InList(l, u)' <=> InList(l, u)
    BY <1>8, <2>1 DEF SameList, InList
  <2>2. ASSUME NEW u
        PROVE  InList(k, u)' <=> \E i \in 1 .. j : s[i] = u
    BY <1>2, <1>9 DEF InList
  <2>3. ASSUME NEW u, InList(k, u)'
        PROVE  InList(k, u)
    BY <1>2, <1>4, <2>2, <2>3 DEF InList
  <2> QED
    BY <2>1, <2>2, <2>3
<1>B. Positions'
  BY <1>0, <1>2, Elsewhere
<1>C. Counters'
  BY <1>0, <1>2, CountersElsewhere
<1>D. Chains'
  <2> SUFFICES ASSUME NEW l \in Key
               PROVE  Chain(version', latest'[l], List(l)')
    BY DEF Chains
  <2> QED
    BY <1>2, <1>8, <1>9
<1>E. Sounds'
  <2> SUFFICES ASSUME NEW l \in Key
               PROVE  Sound(version', List(l)', min_cstamp'[l])
    BY DEF Sounds
  <2> QED
    BY <1>2, <1>6, <1>8, <1>9
<1>F. Stamps'
  <2> SUFFICES ASSUME NEW l \in Key
               PROVE  StampsAt(l)'
    BY DEF Stamps, StampsAt
  <2>1. CASE l # k
    BY <1>0, <1>8, <2>1, StampsKept
  <2>2. CASE l = k
    <3> SUFFICES ASSUME NEW i \in 1 .. j
                 PROVE  /\ version'[s[i]].cstamp <= CCtr + 1
                        /\ version'[s[i]].status = "committed" => version'[s[i]].cstamp <= CCtr
      BY <1>0, <1>2, <1>9, <2>2 DEF StampsAt
    <3>1. i \in 1 .. Len(s) /\ s[i] \in Version
      BY <1>3, <1>4
    <3>2. version'[s[i]].cstamp = version[s[i]].cstamp /\ version'[s[i]].status = version[s[i]].status
      BY <1>T, <3>1
    <3> QED
      BY <1>0, <1>2, <3>1, <3>2 DEF Inv, Stamps
  <2> QED
    BY <2>1, <2>2
<1>11. ASSUME NEW i \in 1 .. Len(b)
       PROVE  \A l \in Key : ~InList(l, b[i])'
  <2>1. i + j \in 1 .. Len(s) /\ b[i] = s[i + j] /\ b[i] \in Version /\ i + j \notin 1 .. j
    <3>1. i + j \in 1 .. Len(s) /\ b[i] = s[i + j]
      BY <1>2
    <3>2. i \in Nat /\ i >= 1 /\ j \in Nat
      BY <1>2, <1>3
    <3>3. i + j \notin 1 .. j
      BY <3>2
    <3> QED
      BY <1>3, <3>1, <3>3
  <2>2. InList(k, b[i])
    BY <1>2, <2>1 DEF InList
  <2>3. ~ \E q \in 1 .. j : s[q] = b[i]
    <3> SUFFICES ASSUME NEW q \in 1 .. j, s[q] = s[i + j] PROVE FALSE
      BY <2>1
    <3>1. q = i + j
      BY <1>3, <1>4, <2>1 DEF Chain
    <3> QED
      BY <2>1, <3>1
  <2>4. PICK v : v = b[i]
    OBVIOUS
  <2>5. \A l \in Key : InList(l, v) => l = k
    BY <1>0, <2>1, <2>2, <2>4 DEF Inv, Apart
  <2>6. \A l \in Key : ~InList(l, v)'
    BY <1>10, <2>3, <2>4, <2>5
  <2> QED
    BY <2>4, <2>6
<1>12. PICK r, n : r = w[t].reuse /\ n = Len(r)
  OBVIOUS
<1>13. /\ r \in Seq(Version) /\ n \in Nat
       /\ \A i \in 1 .. Len(w'[t].reuse) :
             \/ i \in 1 .. n /\ w'[t].reuse[i] = r[i]
             \/ /\ i \notin 1 .. n /\ i - n \in 1 .. Len(b) /\ i \in Int
                /\ w'[t].reuse[i] = b[i - n]
  <2>1. r \in Seq(Version)
    BY <1>2, <1>12, WorkerTyped
  <2>2. w'[t].reuse = r \o b
    BY <1>2, <1>12
  <2> QED
    BY <1>2, <1>12, <2>1, <2>2, Concatenated
<1>O. /\ \A u, o \in Thread : \A i \in 1 .. Len(w[u].reuse), q \in 1 .. Len(w[o].reuse) :
            w[u].reuse[i] = w[o].reuse[q] => u = o /\ i = q
      /\ \A u \in Thread : \A i \in 1 .. Len(w[u].reuse) : ~InList(k, w[u].reuse[i])
  BY <1>0 DEF Inv, Apart
<1>14. ASSUME NEW u \in Thread, NEW i \in 1 .. Len(w'[u].reuse)
       PROVE  \/ i \in 1 .. Len(w[u].reuse) /\ w'[u].reuse[i] = w[u].reuse[i]
              \/ /\ u = t /\ i \notin 1 .. n /\ i - n \in 1 .. Len(b) /\ i \in Int
                 /\ w'[u].reuse[i] = b[i - n]
  <2>1. CASE u = t
    BY <1>12, <1>13, <2>1
  <2>2. CASE u # t
    BY <1>0, <2>2 DEF OneMoves
  <2> QED
    BY <2>1, <2>2
<1>15. \A i \in 1 .. Len(b) : InList(k, b[i])
  BY <1>2 DEF InList
<1>16. \A i, q \in 1 .. Len(b) : b[i] = b[q] => i = q
  <2> SUFFICES ASSUME NEW i \in 1 .. Len(b), NEW q \in 1 .. Len(b), b[i] = b[q]
               PROVE  i = q
    OBVIOUS
  <2>1. i + j \in 1 .. Len(s) /\ q + j \in 1 .. Len(s) /\ s[i + j] = s[q + j]
    BY <1>2
  <2>2. i + j = q + j
    BY <1>3, <2>1 DEF Chain
  <2>3. i \in Int /\ q \in Int /\ j \in Int
    BY <1>2, <1>3
  <2> QED
    BY <2>2, <2>3
<1>G. Apart'
  <2>1. \A l, o \in Key : \A u \in Version : InList(l, u)' /\ InList(o, u)' => l = o
    BY <1>10 DEF Inv, Apart
  <2>2. ASSUME NEW u \in Thread, NEW i \in 1 .. Len(w'[u].reuse), NEW l \in Key
        PROVE  \A v : v = w'[u].reuse[i] => ~InList(l, v)'
    <3>1. CASE i \in 1 .. Len(w[u].reuse) /\ w'[u].reuse[i] = w[u].reuse[i]
      <4>1. ~InList(l, w[u].reuse[i])
        BY <3>1 DEF Inv, Apart
      <4> QED
        BY <1>10, <3>1, <4>1
    <3>2. CASE i - n \in 1 .. Len(b) /\ w'[u].reuse[i] = b[i - n]
      <4>1. PICK v : v = b[i - n]
        OBVIOUS
      <4>2. ~InList(l, v)'
        <5>1. \A q \in 1 .. Len(b) : \A x : x = b[q] => ~InList(l, x)'
          BY <1>11
        <5> QED
          BY <3>2, <4>1, <5>1
      <4> QED
        BY <3>2, <4>1, <4>2
    <3> QED
      BY <1>14, <3>1, <3>2
  <2>3. ASSUME NEW u \in Thread, NEW o \in Thread,
               NEW i \in 1 .. Len(w'[u].reuse), NEW q \in 1 .. Len(w'[o].reuse),
               w'[u].reuse[i] = w'[o].reuse[q]
        PROVE  u = o /\ i = q
    <3>1. CASE /\ i \in 1 .. Len(w[u].reuse) /\ w'[u].reuse[i] = w[u].reuse[i]
               /\ q \in 1 .. Len(w[o].reuse) /\ w'[o].reuse[q] = w[o].reuse[q]
      <4>1. w[u].reuse[i] = w[o].reuse[q]
        BY Zenon, <2>3, <3>1
      <4>2. \A x, y \in Thread : \A l \in 1 .. Len(w[x].reuse), m \in 1 .. Len(w[y].reuse) :
               w[x].reuse[l] = w[y].reuse[m] => x = y /\ l = m
        BY Zenon, <1>O
      <4> QED
        BY <3>1, <4>1, <4>2
    <3>2. CASE /\ u = t /\ i - n \in 1 .. Len(b) /\ i \in Int /\ w'[u].reuse[i] = b[i - n]
               /\ o = t /\ q - n \in 1 .. Len(b) /\ q \in Int /\ w'[o].reuse[q] = b[q - n]
      <4>1. i - n = q - n
        BY <1>16, <2>3, <3>2
      <4> QED
        BY <1>13, <3>2, <4>1
    <3>3. CASE /\ i \in 1 .. Len(w[u].reuse) /\ w'[u].reuse[i] = w[u].reuse[i]
               /\ q - n \in 1 .. Len(b) /\ w'[o].reuse[q] = b[q - n]
      <4>1. ~InList(k, w[u].reuse[i]) /\ InList(k, b[q - n])
        BY <1>O, <1>15, <3>3
      <4> QED
        BY <2>3, <3>3, <4>1
    <3>4. CASE /\ i - n \in 1 .. Len(b) /\ w'[u].reuse[i] = b[i - n]
               /\ q \in 1 .. Len(w[o].reuse) /\ w'[o].reuse[q] = w[o].reuse[q]
      <4>1. ~InList(k, w[o].reuse[q]) /\ InList(k, b[i - n])
        BY <1>O, <1>15, <3>4
      <4> QED
        BY <2>3, <3>4, <4>1
    <3> QED
      BY <1>14, <3>1, <3>2, <3>3, <3>4
  <2> QED
    BY <2>1, <2>2, <2>3 DEF Apart
<1>17. /\ Undecided(t)' = {}
       /\ \A u \in Thread \ {t} : w'[u] = w[u] /\ Undecided(u)' = Undecided(u)
  BY <1>0 DEF OneMoves, Undecided
<1>H. WriteSets'
  <2> SUFFICES ASSUME NEW u \in Thread
               PROVE  OneEach(u)' /\ \A i \in Undecided(u)' : Pending(u, i)'
    BY DEF WriteSets, OneEach, Pending
  <2>1. CASE u = t
    BY <1>0, <1>17, <2>1 DEF OneEach
  <2>2. CASE u # t
    <3>1. w'[u] = w[u] /\ Undecided(u)' = Undecided(u)
      BY <1>17, <2>2
    <3>2. OneEach(u)'
      <4>1. OneEach(u)
        BY PendingIs DEF Inv
      <4> QED
        BY <3>1, <4>1 DEF OneEach
    <3>3. ASSUME NEW i \in Undecided(u)
          PROVE  Pending(u, i)'
      <4>0. PICK e : e = w[u].write_set[i]
        OBVIOUS
      <4>1. CASE e.key # k
        <5>1. SameList(e.key)
          BY <1>8, <4>0, <4>1, UndecidedHead
        <5> QED
          BY <3>1, <4>0, <5>1, PendingKept
      <4>2. CASE e.key = k
        <5>1. /\ e.ver = latest[k] /\ latest[k] \in Version /\ latest'[k] = latest[k]
              /\ version'[e.ver].status = version[e.ver].status
              /\ version'[e.ver].cstamp = version[e.ver].cstamp
          BY <1>0, <1>T, <4>0, <4>2, UndecidedHead
        <5>2. ASSUME NEW c, Under(version, s, 1, c)
              PROVE  Under(version', a, 1, c)
          <6>1. \A q \in 1 + 1 .. Len(a) : q \in 1 .. j /\ q \in 1 + 1 .. Len(s)
            BY <1>2, <1>3
          <6>2. \A q \in 1 + 1 .. Len(a) :
                   /\ a[q] = s[q] /\ version'[s[q]].cstamp = version[s[q]].cstamp
                   /\ version'[s[q]].status = version[s[q]].status
            BY <1>T, <1>2, <1>3, <1>4, <6>1
          <6> QED
            BY <5>2, <6>1, <6>2 DEF Under
        <5>3. Pending(u, i)
          BY PendingIs DEF Inv
        <5>4. /\ latest[k] = e.ver /\ version[e.ver].status = "inFlight"
              /\ w[u].pc \in {"run", "read", "write", "abort"} => version[e.ver].cstamp = w[u].txid
              /\ w[u].pc \in {"stamp", "install"} => Under(version, s, 1, w[u].cstamp)
              /\ w[u].pc = "install" /\ i = w[u].pos => version[e.ver].cstamp = w[u].cstamp
          BY <1>2, <4>0, <4>2, <5>3 DEF Pending
        <5>5. w'[u].write_set[i] = e
          BY <3>1, <4>0
        <5>6. w[u].pc \in {"stamp", "install"} => Under(version', List(k)', 1, w[u].cstamp)
          BY <1>9, <5>2, <5>4
        <5> QED
          BY <3>1, <4>2, <5>1, <5>4, <5>5, <5>6 DEF Pending
      <4> QED
        BY <4>1, <4>2
    <3> QED
      BY <3>1, <3>2, <3>3
  <2> QED
    BY <2>1, <2>2
<1>I. Owners'
  <2> SUFFICES ASSUME NEW u \in Thread, NEW o \in Thread,
                      NEW x \in Undecided(u)', NEW y \in Undecided(o)',
                      w'[u].write_set[x].key = w'[o].write_set[y].key
               PROVE  u = o
    BY DEF Owners
  <2>1. u # t /\ o # t
    BY <1>17
  <2> QED
    BY <1>17, <2>1 DEF Inv, Owners
<1>J. Queued'
  <2> SUFFICES ASSUME NEW u \in Thread, NEW q \in 1 .. Len(w'[u].gcq),
                      NEW x, x = w'[u].gcq[q], x.cstamp > min_cstamp'[x.key]
               PROVE  /\ InList(x.key, x.ver)'
                      /\ version'[x.ver].cstamp = x.cstamp
                      /\ version'[x.ver].status # "inFlight"
    BY DEF Queued
  <2>1. PICK m \in 1 .. Len(w[u].gcq) : x = w[u].gcq[m]
    <3>1. PICK g, g2 : g = w[u].gcq /\ g2 = w'[u].gcq
      OBVIOUS
    <3>2. g2 = g \/ (g # << >> /\ g2 = Tail(g))
      <4>1. u = t \/ w'[u] = w[u]
        BY Zenon, <1>0 DEF OneMoves
      <4>2. CASE u = t
        BY Zenon, <1>0, <3>1, <4>2
      <4>3. CASE w'[u] = w[u]
        BY Zenon, <3>1, <4>3
      <4> QED
        BY <4>1, <4>2, <4>3
    <3>3. g \in Seq(QueueElement)
      BY <1>2, <3>1, WorkerTyped
    <3>4. \A i \in 1 .. Len(g2) : \E l \in 1 .. Len(g) : g2[i] = g[l]
      BY <3>2, <3>3, QueueShortened
    <3> QED
      BY <3>1, <3>4
  <2>2. x.key \in Key /\ x.ver \in Version /\ x.cstamp \in Nat
    <3>1. w[u].gcq \in Seq(QueueElement)
      BY <1>2, WorkerTyped
    <3>2. x \in QueueElement
      BY <2>1, <3>1
    <3> QED
      BY <3>2 DEF QueueElement
  <2>3. x.cstamp > min_cstamp[x.key]
    <3>1. CASE x.key # k
      BY <1>6, <2>2, <3>1
    <3>2. CASE x.key = k
      <4>1. /\ min_cstamp[k] \in Nat /\ version[before].cstamp \in Nat
            /\ x.cstamp > version[before].cstamp
        BY <1>0, <1>2, <1>5, <1>6, <3>2, VersionTyped
      <4> QED
        BY <1>7, <2>2, <3>2, <4>1
    <3> QED
      BY <3>1, <3>2
  <2>4. InList(x.key, x.ver) /\ version[x.ver].cstamp = x.cstamp /\ version[x.ver].status # "inFlight"
    BY <2>1, <2>3 DEF Inv, Queued
  <2>5. InList(x.key, x.ver)'
    <3>1. CASE x.key # k
      BY <1>10, <2>2, <2>4, <3>1
    <3>2. CASE x.key = k
      <4>1. PICK i \in 1 .. Len(s) : s[i] = x.ver
        BY <1>2, <2>4, <3>2 DEF InList
      <4>2. i \in 1 .. j
        BY <1>6, <1>7, <2>4, <3>2, <4>1
      <4>3. \A v : v = x.ver => InList(k, v)'
        BY <1>10, <4>1, <4>2
      <4> QED
        BY <3>2, <4>3
    <3> QED
      BY <3>1, <3>2
  <2> QED
    BY <1>T, <2>2, <2>4, <2>5
<1> QED
  BY <1>0, <1>B, <1>C, <1>D, <1>E, <1>F, <1>G, <1>H, <1>I, <1>J DEF Inv

-----------------------------------------------------------------------------
(* The lists stay in order *)

\* SetToSeq lists a set, each element once.
LEMMA Listed ==
    ASSUME NEW S, IsFiniteSet(S)
    PROVE  /\ SetToSeq(S) \in Seq(S)
           /\ \A i, j \in 1 .. Len(SetToSeq(S)) : SetToSeq(S)[i] = SetToSeq(S)[j] => i = j
<1> DEFINE n == Cardinality(S)
           P(f) == f \in [1 .. n -> S] /\ IsInjective(f)
<1>1. n \in Nat /\ \E f : P(f)
  BY FS_CardinalityType DEF ExistsBijection, Bijection, Injection
<1>2. SetToSeq(S) = CHOOSE f \in [1 .. n -> S] : IsInjective(f)
  BY DEF SetToSeq
<1>3. P(SetToSeq(S))
  BY <1>1, <1>2
<1>4. PICK f, m : f = SetToSeq(S) /\ m = n
  OBVIOUS
<1>5. m \in Nat /\ f \in [1 .. m -> S] /\ \A i, j \in DOMAIN f : f[i] = f[j] => i = j
  BY <1>1, <1>3, <1>4 DEF IsInjective
<1>6. f \in Seq(S) /\ Len(f) = m /\ DOMAIN f = 1 .. m
  BY <1>5
<1> QED
  BY <1>4, <1>5, <1>6

LEMMA ReservedTyped ==
    ASSUME NEW t \in Thread
    PROVE  /\ IsFiniteSet(Reserved(t)) /\ Reserved(t) \subseteq Version
           /\ \A u \in Reserved(t) : u[1] = t /\ u[2] # 0
<1>1. Reserved(t) \subseteq Version
  BY DEF Version
<1>2. \A u \in Reserved(t) : u[1] = t /\ u[2] # 0
  BY SIAssumption DEF Reserved
<1> QED
  BY <1>1, <1>2, VersionsFinite, FS_Subset

LEMMA InitTypes ==
    ASSUME Init
    PROVE  Types /\ Positions /\ Counters
<1>1. \A t \in Thread : SetToSeq(Reserved(t)) \in Reserves
  <2> SUFFICES ASSUME NEW t \in Thread
               PROVE  SetToSeq(Reserved(t)) \in Reserves
    OBVIOUS
  <2>1. PICK s : s = SetToSeq(Reserved(t))
    OBVIOUS
  <2>2. s \in Seq(Reserved(t)) /\ Reserved(t) \subseteq Version
    BY <2>1, Listed, ReservedTyped
  <2> QED
    BY <2>1, <2>2 DEF Reserves
<1>2. /\ << >> \in ProSets /\ << >> \in ReadSets /\ << >> \in WriteSetTypes /\ << >> \in Queues
      /\ NULL \in Pointer /\ 1 \in Positive /\ [k \in Key |-> 0] \in KeyStamps /\ "next" \in Label
  BY DEF ProSets, ReadSets, WriteSetTypes, Queues, Pointer, Positive, KeyStamps, Label
<1>3. w \in [Thread -> Worker]
  BY <1>1, <1>2 DEF Init, Worker
<1>4. TypeOK
  BY DEF Init, TypeOK, Version
<1>5. Types
  BY <1>3, <1>4 DEF Init, Types
<1>6. \A t \in Thread : /\ w[t].pc = "next" /\ w[t].write_set = << >>
                        /\ TMT[t].lastcstamp = 0 /\ w[t].cstamp = 0 /\ w[t].txid = 0 /\ CCtr = 0
  BY DEF Init
<1> QED
  BY <1>5, <1>6 DEF Positions, Counters, Running

\* At first each list is the loaded version.
LEMMA InitLists ==
    ASSUME Init, NEW k \in Key
    PROVE  /\ Loaded(k) \in Version
           /\ Chain(version, latest[k], << Loaded(k) >>) /\ List(k) = << Loaded(k) >>
           /\ Sound(version, << Loaded(k) >>, min_cstamp[k])
           /\ version[Loaded(k)].cstamp = 0
<1>1. PICK v, s : v = Loaded(k) /\ s = << v >>
  OBVIOUS
<1>2. /\ v \in Version /\ latest[k] = v /\ min_cstamp[k] = 0
      /\ version[v].prev = NULL /\ version[v].cstamp = 0 /\ version[v].status = "committed"
  BY <1>1 DEF Init, Version, Loaded
<1>3. /\ s \in Seq(Version) /\ Len(s) = 1 /\ s # << >> /\ s[1] = v
      /\ \A i \in 1 .. Len(s) : i = 1
      /\ 1 .. Len(s) - 1 = {} /\ 1 + 1 .. Len(s) = {}
  BY <1>1, <1>2
<1>4. Chain(version, latest[k], s)
  BY <1>2, <1>3 DEF Chain
<1>5. List(k) = s
  BY <1>4, ListIs, FromChain
<1>6. Sound(version, s, min_cstamp[k])
  BY <1>2, <1>3 DEF Sound, Under
<1> QED
  BY <1>1, <1>2, <1>4, <1>5, <1>6

LEMMA InitInv ==
    ASSUME Init
    PROVE  Inv
<1>1. Types /\ Positions /\ Counters
  BY InitTypes
<1>2. \A k \in Key : /\ List(k) = << Loaded(k) >>
                     /\ Chain(version, latest[k], List(k)) /\ Sound(version, List(k), min_cstamp[k])
                     /\ version[Loaded(k)].cstamp = 0
  BY InitLists
<1>3. \A k \in Key : Len(List(k)) = 1 /\ List(k)[1] = Loaded(k)
  BY <1>2
<1>4. Chains /\ Sounds
  BY <1>2 DEF Chains, Sounds
<1>11. \A k \in Key : 1 .. Len(List(k)) = {1}
  <2>1. \A n : n = 1 => 1 .. n = {1}
    OBVIOUS
  <2> QED
    BY Zenon, <1>3, <2>1
<1>5. Stamps
  <2> SUFFICES ASSUME NEW k \in Key, NEW i \in 1 .. Len(List(k))
               PROVE  /\ version[List(k)[i]].cstamp <= CCtr + 1
                      /\ version[List(k)[i]].cstamp <= CCtr
    BY DEF Stamps
  <2>1. i = 1 /\ CCtr = 0
    BY <1>11 DEF Init
  <2> QED
    BY <1>2, <1>3, <2>1
<1>6. \A k \in Key : \A u : InList(k, u) <=> u = Loaded(k)
  <2> SUFFICES ASSUME NEW k \in Key, NEW u
               PROVE  InList(k, u) <=> u = Loaded(k)
    OBVIOUS
  <2>1. 1 .. Len(List(k)) = {1}
    BY <1>11
  <2> QED
    BY <1>3, <2>1 DEF InList
<1>7. \A t \in Thread : /\ w[t].write_set = << >> /\ w[t].gcq = << >>
                        /\ w[t].reuse = SetToSeq(Reserved(t))
  BY DEF Init
<1>8. \A t \in Thread : \A i \in 1 .. Len(w[t].reuse) :
         /\ w[t].reuse[i][1] = t /\ w[t].reuse[i][2] # 0
         /\ \A j \in 1 .. Len(w[t].reuse) : w[t].reuse[i] = w[t].reuse[j] => i = j
  <2> SUFFICES ASSUME NEW t \in Thread, NEW i \in 1 .. Len(w[t].reuse)
               PROVE  /\ w[t].reuse[i][1] = t /\ w[t].reuse[i][2] # 0
                      /\ \A j \in 1 .. Len(w[t].reuse) : w[t].reuse[i] = w[t].reuse[j] => i = j
    OBVIOUS
  <2>1. PICK s : s = w[t].reuse
    OBVIOUS
  <2>2. /\ s \in Seq(Reserved(t))
        /\ \A l, j \in 1 .. Len(s) : s[l] = s[j] => l = j
    BY <1>7, <2>1, Listed, ReservedTyped
  <2>3. s[i] \in Reserved(t)
    BY <2>1, <2>2
  <2> QED
    BY <2>1, <2>2, <2>3, ReservedTyped
<1>9. Apart
  <2>1. \A k \in Key : Loaded(k)[1] = k /\ Loaded(k)[2] = 0
    BY DEF Loaded
  <2>2. ASSUME NEW k \in Key, NEW l \in Key, NEW u \in Version, InList(k, u), InList(l, u)
        PROVE  k = l
    BY <1>6, <2>1, <2>2
  <2>3. ASSUME NEW t \in Thread, NEW i \in 1 .. Len(w[t].reuse), NEW k \in Key
        PROVE  ~InList(k, w[t].reuse[i])
    BY <1>6, <1>8, <2>1
  <2>4. ASSUME NEW t \in Thread, NEW u \in Thread,
               NEW i \in 1 .. Len(w[t].reuse), NEW j \in 1 .. Len(w[u].reuse),
               w[t].reuse[i] = w[u].reuse[j]
        PROVE  t = u /\ i = j
    <3>1. t = u
      BY <1>8, <2>4
    <3> QED
      BY <1>8, <2>4, <3>1
  <2> QED
    BY <2>2, <2>3, <2>4 DEF Apart
<1>10. WriteSets /\ Owners /\ Queued
  <2>1. \A t \in Thread : 1 .. Len(w[t].write_set) = {} /\ 1 .. Len(w[t].gcq) = {}
    BY <1>7
  <2>2. \A t \in Thread : Undecided(t) = {}
    BY <2>1 DEF Undecided
  <2>3. WriteSets
    BY <2>1, <2>2 DEF WriteSets
  <2>4. Owners
    BY <2>2 DEF Owners
  <2> QED
    BY <2>1, <2>3, <2>4 DEF Queued
<1> QED
  BY <1>1, <1>4, <1>5, <1>9, <1>10 DEF Inv

LEMMA NextKeepsInv ==
    ASSUME Inv, [Next]_vars
    PROVE  Inv'
<1>1. CASE Quit \/ UNCHANGED vars
  BY <1>1, IdleKeeps
<1>2. CASE Joined
  <2>1. UNCHANGED vars
    BY <1>2 DEF Joined
  <2> QED
    BY <2>1, IdleKeeps
<1>3. ASSUME NEW t \in Thread, worker(t)
      PROVE  Inv'
  <2>1. CASE Quiet(t) \/ Shared(t) \/ tread(t)
    BY <2>1, QuietKeeps
  <2>2. CASE twrite(t)
    BY <2>2, TwriteKeeps
  <2>3. CASE stamp(t)
    BY <2>3, StampKeeps
  <2>4. CASE install(t)
    BY <2>4, InstallKeeps
  <2>5. CASE discard(t)
    BY <2>5, DiscardKeeps
  <2>6. CASE gcVersion(t)
    <3>1. CASE Dangling(t) \/ Reclaimable(t) = << >>
      BY <2>6, <3>1, GcSkips
    <3>2. CASE ~(Dangling(t) \/ Reclaimable(t) = << >>)
      BY <2>6, <3>2, GcReclaims
    <3> QED
      BY <3>1, <3>2
  <2> QED
    BY <1>3, <2>1, <2>2, <2>3, <2>4, <2>5, <2>6 DEF worker, Quiet, Shared
<1> QED
  BY <1>1, <1>2, <1>3 DEF Next

LEMMA InvOrders ==
    ASSUME Inv
    PROVE  ListsInOrder
<1>1. TypeOK
  BY DEF Inv, Types
<1>2. ASSUME NEW t \in Thread, w[t].pc \in {"run", "read", "write"},
             NEW e \in ToSet(w[t].write_set)
      PROVE  latest[e.key] = e.ver
  <2>1. w[t].write_set \in Seq(WriteElement)
    BY WorkerTyped DEF Inv
  <2>2. PICK i \in 1 .. Len(w[t].write_set) : e = w[t].write_set[i]
    BY <1>2, <2>1 DEF ToSet
  <2>3. i \in Undecided(t)
    BY <1>2, <2>2 DEF Undecided
  <2> QED
    BY <2>2, <2>3, UndecidedHead
<1>3. ASSUME NEW k \in Key, NEW i \in DOMAIN From(latest[k])
      PROVE  LET v == version[From(latest[k])[i]]
             IN /\ v.status = "inFlight" => i = 1
                /\ v.status = "committed" /\ v.prev # NULL =>
                      version[v.committed_prev].cstamp < v.cstamp
  <2>1. PICK s, c : s = List(k) /\ c = min_cstamp[k]
    OBVIOUS
  <2>2. /\ Chain(version, latest[k], s) /\ Sound(version, s, c)
        /\ s \in Seq(Version) /\ Len(s) \in Nat
        /\ \A j \in 1 .. Len(s) : s[j] \in Version /\ version[s[j]].cstamp \in Nat
    BY <2>1, HeadIsFirst, VersionTyped DEF Inv
  <2>3. From(latest[k]) = s /\ i \in 1 .. Len(s)
    BY <2>1, <2>2 DEF List
  <2>4. version[s[i]].status = "inFlight" => i = 1
    BY <2>2, <2>3 DEF Sound
  <2>5. ASSUME version[s[i]].status = "committed", version[s[i]].prev # NULL
        PROVE  version[version[s[i]].committed_prev].cstamp < version[s[i]].cstamp
    <3>1. i # Len(s)
      BY <2>2, <2>3, <2>5 DEF Chain
    <3>2. i < Len(s) /\ \A j \in i + 1 .. Len(s) : j \in 1 .. Len(s)
      BY <2>2, <2>3, <3>1, Between
    <3>3. PICK j \in i + 1 .. Len(s) : NextCommitted(version, s, i, j)
      BY <2>2, <2>3, <3>2 DEF Sound
    <3>4. version[s[i]].committed_prev = s[j] /\ version[s[j]].status = "committed"
      BY <3>3 DEF NextCommitted
    <3>5. Under(version, s, i, version[s[i]].cstamp)
      BY <2>2, <2>3, <2>5 DEF Sound
    <3>6. version[s[j]].cstamp <= version[s[i]].cstamp /\ version[s[j]].cstamp # version[s[i]].cstamp
      BY <3>3, <3>4, <3>5 DEF Under
    <3>7. version[s[j]].cstamp \in Nat /\ version[s[i]].cstamp \in Nat
      BY <2>2, <2>3, <3>2, <3>3
    <3>8. version[s[j]].cstamp < version[s[i]].cstamp
      BY <3>6, <3>7
    <3> QED
      BY <3>4, <3>8
  <2> QED
    BY <2>3, <2>4, <2>5
<1> QED
  BY <1>1, <1>2, <1>3 DEF ListsInOrder

LEMMA Invariance == Spec => []Inv
<1>1. Init => Inv
  BY InitInv
<1>2. Inv /\ [Next]_vars => Inv'
  BY NextKeepsInv
<1> QED
  BY <1>1, <1>2, PTL DEF Spec

\* In every build, with any workers, keys, transactions and number of versions,
\* the version lists of si/ stay in order: a version in flight is the head of its
\* list until its transaction ends, and of the committed ones each is newer than
\* the one it has overwritten, whatever twrite, commit, abort and gcVersion of
\* the workers do in between.
THEOREM ListsStayInOrder == Spec => []ListsInOrder
<1>1. Inv => ListsInOrder
  BY InvOrders
<1> QED
  BY <1>1, Invariance, PTL

\* gcVersion never puts by a version that a list still leads to, nor one that is
\* put by already: a version is in at most one list or in one reserve, at one
\* place, although two workers may have queued versions of the same record and
\* each cuts the list without a lock.
THEOREM ReclaimedAreApart == Spec => []Apart
<1>1. Inv => Apart
  BY DEF Inv
<1> QED
  BY <1>1, Invariance, PTL

\* A version in flight is the lock of its record: no two transactions that are
\* still undecided have written the same record, from twrite's compare-exchange
\* until the version's status is stored.
THEOREM WritersAreAlone == Spec => []Owners
<1>1. Inv => Owners
  BY DEF Inv
<1> QED
  BY <1>1, Invariance, PTL

=============================================================================
