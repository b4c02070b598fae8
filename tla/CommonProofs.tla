---------------------------- MODULE CommonProofs ----------------------------
(***************************************************************************)
(* Lemmas the proofs of several programs share.  About histories: a        *)
(* ranking of the committed transactions that agrees with what must        *)
(* precede what makes them serializable.  About locks: the operations of   *)
(* RWLock keep the counters in agreement with the lists, which a program   *)
(* keeps besides, of the locks each worker holds.                          *)
(***************************************************************************)
EXTENDS History, RWLock, FiniteSets, FiniteSetTheorems, WellFoundedInduction, TLAPS

-----------------------------------------------------------------------------
(* Histories *)

\* A set of naturals has a least element.
LEMMA HasMinimum ==
    ASSUME NEW S, S \subseteq Nat, S # {}
    PROVE  \E x \in S : \A y \in S : x <= y
<1> DEFINE R == {ss \in Nat \X Nat : ss[1] < ss[2]}
<1>1. IsWellFoundedOn(R, Nat)
  BY NatLessThanWellFounded DEF OpToRel
<1>2. PICK x \in S : \A y \in S : ~ (<< y, x >> \in R)
  <2> HIDE DEF R
  <2> QED
    BY <1>1, WFMin
<1>3. ASSUME NEW y \in S
      PROVE  x <= y
  <2>1. x \in Nat /\ y \in Nat
    BY <1>2, <1>3
  <2>2. ASSUME y < x
        PROVE  FALSE
    <3> DEFINE yx == << y, x >>
    <3>1. yx \in Nat \X Nat /\ yx[1] = y /\ yx[2] = x
      BY <2>1
    <3>2. yx \in R
      BY <2>2, <3>1
    <3> QED
      BY <1>2, <1>3, <3>2
  <2> QED
    BY <2>1, <2>2
<1> QED
  BY <1>2, <1>3

\* The place of a version among those of a record.
LEMMA PlaceFound ==
    ASSUME NEW V, NEW s \in Seq(V), NEW v
    PROVE  /\ Place(s, v) \in Nat
           /\ Place(s, v) > 0 => Place(s, v) \in DOMAIN s /\ s[Place(s, v)] = v
           /\ \A i \in DOMAIN s : s[i] = v => Place(s, v) > 0
<1>1. \A i \in DOMAIN s : i \in Nat /\ i > 0
  OBVIOUS
<1>2. CASE \E i \in DOMAIN s : s[i] = v
  <2>1. Place(s, v) \in DOMAIN s /\ s[Place(s, v)] = v
    BY <1>2 DEF Place
  <2> QED
    BY <1>1, <2>1
<1>3. CASE ~ \E i \in DOMAIN s : s[i] = v
  BY <1>3 DEF Place
<1> QED
  BY <1>2, <1>3

\* Without duplicates an element is where it is found, and one more element
\* leaves the places of the others as they were.
LEMMA PlaceIs ==
    ASSUME NEW V, NEW s \in Seq(V), \A i, j \in DOMAIN s : s[i] = s[j] => i = j,
           NEW i \in DOMAIN s
    PROVE  Place(s, s[i]) = i
<1>1. Place(s, s[i]) > 0 /\ Place(s, s[i]) \in DOMAIN s /\ s[Place(s, s[i])] = s[i]
  BY PlaceFound
<1> QED
  BY <1>1

LEMMA PlaceAppended ==
    ASSUME NEW V, NEW s \in Seq(V), \A i, j \in DOMAIN s : s[i] = s[j] => i = j,
           NEW v \in V, \A i \in DOMAIN s : s[i] # v
    PROVE  /\ Place(Append(s, v), v) = Len(s) + 1
           /\ \A w : /\ Place(s, w) \in Nat /\ Place(s, w) <= Len(s)
                     /\ w # v => Place(Append(s, v), w) = Place(s, w)
<1> DEFINE r == Append(s, v)
<1>1. /\ r \in Seq(V) /\ Len(s) \in Nat /\ DOMAIN s = 1 .. Len(s) /\ DOMAIN r = 1 .. Len(s) + 1
      /\ r[Len(s) + 1] = v /\ \A i \in 1 .. Len(s) : r[i] = s[i]
  OBVIOUS
<1> HIDE DEF r
<1>2. \A i \in DOMAIN r : i \in DOMAIN s \/ i = Len(s) + 1
  BY <1>1
<1>3. \A w : /\ Place(s, w) \in Nat
             /\ Place(s, w) > 0 => Place(s, w) \in DOMAIN s /\ s[Place(s, w)] = w
             /\ \A i \in DOMAIN s : s[i] = w => Place(s, w) > 0
  BY PlaceFound
<1>4. \A w : /\ Place(r, w) \in Nat
             /\ Place(r, w) > 0 => Place(r, w) \in DOMAIN r /\ r[Place(r, w)] = w
             /\ \A i \in DOMAIN r : r[i] = w => Place(r, w) > 0
  BY <1>1, PlaceFound
<1>5. Place(r, v) = Len(s) + 1
  BY <1>1, <1>2, <1>4
<1>6. ASSUME NEW w
      PROVE  Place(s, w) \in Nat /\ Place(s, w) <= Len(s)
  BY <1>1, <1>3
<1>7. ASSUME NEW w, w # v
      PROVE  Place(r, w) = Place(s, w)
  <2>1. CASE Place(r, w) > 0
    <3>1. Place(r, w) \in DOMAIN s /\ s[Place(r, w)] = w
      BY <1>1, <1>2, <1>4, <1>7, <2>1
    <3>2. Place(s, w) \in DOMAIN s /\ s[Place(s, w)] = w
      BY <1>3, <3>1
    <3> QED
      BY <3>1, <3>2
  <2>2. CASE Place(r, w) = 0
    <3>1. ~(Place(s, w) > 0)
      <4>1. \A i \in DOMAIN s : i \in DOMAIN r /\ r[i] = s[i]
        BY <1>1
      <4>2. \A i \in DOMAIN r : r[i] # w
        BY <1>4, <2>2
      <4> QED
        BY <1>3, <4>1, <4>2
    <3> QED
      BY <1>3, <2>2, <3>1
  <2> QED
    BY <1>4, <2>1, <2>2
<1> QED
  BY <1>5, <1>6, <1>7 DEF r

\* What is serializable stays so if less must precede less, and with one more
\* transaction that need not precede any.
LEMMA StaysSerializable ==
    ASSUME NEW C, NEW o, NEW r, Serializable(C, o),
           \A a, b \in C : MustPrecede(r, a, b) => MustPrecede(o, a, b)
    PROVE  Serializable(C, r)
<1> SUFFICES ASSUME NEW S \in SUBSET C, S # {}
             PROVE  \E a \in S : \A b \in S : ~MustPrecede(r, b, a)
  BY DEF Serializable
<1>1. PICK a \in S : \A b \in S : ~MustPrecede(o, b, a)
  BY DEF Serializable
<1> QED
  BY <1>1

LEMMA LastSerializable ==
    ASSUME NEW C, NEW o, NEW r, NEW c, Serializable(C, o),
           \A a, b \in C : MustPrecede(r, a, b) => MustPrecede(o, a, b),
           \A a \in C : ~MustPrecede(r, c, a)
    PROVE  Serializable(C \cup {c}, r)
<1> SUFFICES ASSUME NEW S \in SUBSET (C \cup {c}), S # {}
             PROVE  \E a \in S : \A b \in S : ~MustPrecede(r, b, a)
  BY DEF Serializable
<1>1. CASE S \cap C = {}
  <2>1. S = {c} /\ ~MustPrecede(r, c, c)
    BY <1>1 DEF MustPrecede
  <2> QED
    BY <2>1
<1>2. CASE S \cap C # {}
  <2>1. Serializable(C, r)
    BY StaysSerializable
  <2>2. PICK a \in S \cap C : \A b \in S \cap C : ~MustPrecede(r, b, a)
    BY <1>2, <2>1 DEF Serializable
  <2> QED
    BY <2>2
<1> QED
  BY <1>1, <1>2

\* Transactions ordered by f, and among equals by g, are serializable if that is
\* the order of all that must precede one another.
LEMMA RankedSerializable ==
    ASSUME NEW C, NEW order, NEW f \in [C -> Nat], NEW g \in [C -> Nat],
           \A a, b \in C : MustPrecede(order, a, b) =>
               f[a] < f[b] \/ (f[a] = f[b] /\ g[a] < g[b])
    PROVE  Serializable(C, order)
<1> SUFFICES ASSUME NEW S \in SUBSET C, S # {}
             PROVE  \E a \in S : \A b \in S : ~MustPrecede(order, b, a)
  BY DEF Serializable
<1>1. PICK x \in Nat : /\ \E a \in S : f[a] = x
                       /\ \A a \in S : x <= f[a]
  <2> DEFINE R == {f[a] : a \in S}
  <2>1. R \subseteq Nat /\ R # {}
    OBVIOUS
  <2>2. \E y \in R : \A z \in R : y <= z
    <3> HIDE DEF R
    <3> QED
      BY <2>1, HasMinimum
  <2> QED
    BY <2>1, <2>2
<1> DEFINE T == {a \in S : f[a] = x}
<1>2. PICK y \in Nat : /\ \E a \in T : g[a] = y
                       /\ \A a \in T : y <= g[a]
  <2> DEFINE R == {g[a] : a \in T}
  <2>1. R \subseteq Nat /\ R # {}
    BY <1>1
  <2>2. \E z \in R : \A w \in R : z <= w
    <3> HIDE DEF R
    <3> QED
      BY <2>1, HasMinimum
  <2> QED
    BY <2>1, <2>2
<1>3. PICK a \in T : g[a] = y
  BY <1>2
<1>4. ASSUME NEW b \in S, MustPrecede(order, b, a)
      PROVE  FALSE
  <2>1. f[b] < f[a] \/ (f[b] = f[a] /\ g[b] < g[a])
    BY <1>4
  <2>2. f[a] = x /\ x <= f[b] /\ f[b] \in Nat /\ g[b] \in Nat
    BY <1>1
  <2>3. b \in T
    BY <2>1, <2>2
  <2>4. y <= g[b]
    BY <1>2, <2>3
  <2> QED
    BY <1>3, <2>1, <2>2, <2>4
<1> QED
  BY <1>3, <1>4

\* Finitely many naturals have a greatest one.
LEMMA HasMaximum ==
    ASSUME NEW n \in Nat, NEW f \in [1 .. n -> Nat], NEW c \in Nat
    PROVE  \E x \in {c} \cup {f[i] : i \in 1 .. n} :
              \A y \in {c} \cup {f[i] : i \in 1 .. n} : y <= x
<1> DEFINE Upto(m) == {c} \cup {f[i] : i \in 1 .. m}
           Bad == {m \in 0 .. n : ~ \E x \in Upto(m) : \A y \in Upto(m) : y <= x}
<1>1. Bad = {}
  <2> SUFFICES ASSUME Bad # {} PROVE FALSE
    OBVIOUS
  <2>1. PICK m \in Bad : \A y \in Bad : m <= y
    <3>1. Bad \subseteq Nat
      OBVIOUS
    <3> HIDE DEF Bad
    <3> QED
      BY <3>1, HasMinimum
  <2>2. m # 0
    <3>1. \A y \in Upto(0) : y <= c
      OBVIOUS
    <3> QED
      BY <3>1
  <2>3. m \in 1 .. n /\ m - 1 \in 0 .. n /\ m - 1 \notin Bad
    <3>1. m \in 0 .. n
      BY <2>1
    <3>2. m - 1 \notin Bad
      <4>1. ~(m <= m - 1)
        BY <3>1
      <4> HIDE DEF Bad
      <4> QED
        BY <2>1, <4>1
    <3> QED
      BY <2>2, <3>1, <3>2
  <2>4. PICK x \in Upto(m - 1) : \A y \in Upto(m - 1) : y <= x
    BY <2>3
  <2>5. /\ x \in Nat /\ f[m] \in Nat
        /\ \A y \in Upto(m) : y \in Upto(m - 1) \/ y = f[m]
        /\ x \in Upto(m) /\ f[m] \in Upto(m)
    <3>1. \A i \in 1 .. m : i \in 1 .. m - 1 \/ i = m
      BY <2>3
    <3>2. \A i \in 1 .. m - 1 : i \in 1 .. m /\ i \in 1 .. n
      BY <2>3
    <3> QED
      BY <2>3, <3>1, <3>2
  <2>6. CASE f[m] <= x
    <3>1. \A y \in Upto(m) : y <= x
      BY <2>4, <2>5, <2>6
    <3> QED
      BY <2>1, <2>5, <3>1
  <2>7. CASE x <= f[m]
    <3>1. \A y \in Upto(m - 1) : y \in Nat
      BY <2>3
    <3>2. ASSUME NEW y \in Upto(m)
          PROVE  y <= f[m]
      <4>1. CASE y \in Upto(m - 1)
        <5>1. y \in Nat /\ y <= x
          BY <2>4, <3>1, <4>1
        <5> QED
          BY <2>5, <2>7, <5>1
      <4>2. CASE y = f[m]
        BY <2>5, <4>2
      <4> QED
        BY <2>5, <4>1, <4>2
    <3> QED
      BY <2>1, <2>5, <3>2
  <2> QED
    BY <2>5, <2>6, <2>7
<1>2. n \notin Bad
  BY <1>1
<1> QED
  BY <1>2

\* Of finitely many things one has the greatest weight.
LEMMA HasHeaviest ==
    ASSUME NEW S, IsFiniteSet(S), S # {}, NEW f \in [S -> Nat]
    PROVE  \E x \in S : \A y \in S : f[y] <= f[x]
<1>1. PICK n \in Nat : \E h : h \in Surjection(1 .. n, S)
  BY FS_NatSurjection DEF ExistsSurjection
<1>2. PICK h : h \in [1 .. n -> S] /\ \A s \in S : \E i \in 1 .. n : h[i] = s
  BY <1>1 DEF Surjection
<1> DEFINE g == [i \in 1 .. n |-> f[h[i]]]
<1>3. g \in [1 .. n -> Nat] /\ \A i \in 1 .. n : g[i] = f[h[i]] /\ h[i] \in S
  BY <1>2
<1> HIDE DEF g
<1>4. PICK x \in {0} \cup {g[i] : i \in 1 .. n} :
          \A y \in {0} \cup {g[i] : i \in 1 .. n} : y <= x
  BY <1>3, HasMaximum
<1>5. \A s \in S : f[s] <= x /\ f[s] \in Nat
  BY <1>2, <1>3, <1>4
<1>6. CASE \E i \in 1 .. n : x = g[i]
  BY <1>3, <1>5, <1>6
<1>7. CASE x = 0
  <2>1. \A s, r \in S : f[s] <= f[r]
    BY <1>5, <1>7
  <2> QED
    BY <2>1
<1> QED
  BY <1>4, <1>6, <1>7

-----------------------------------------------------------------------------
(* Reader/writer locks: of the workers T and the locks K, lock is the counter *)
(* of each lock, and rl and wl are the locks each worker has in its lists.    *)

HoldersOf(T, list, k) == {t \in T : k \in list[t]}

LockTypes(T, K, lock, rl, wl) ==
    /\ IsFiniteSet(T)
    /\ lock \in [K -> Int]
    /\ rl \in [T -> SUBSET K]
    /\ wl \in [T -> SUBSET K]

\* A lock has one writer and no reader, or as many readers as it counts.
Agree(T, lock, rl, wl, k) ==
    \/ HoldersOf(T, wl, k) = {} /\ lock[k] = Cardinality(HoldersOf(T, rl, k))
    \/ /\ \E t \in T : HoldersOf(T, wl, k) = {t}
       /\ HoldersOf(T, rl, k) = {} /\ lock[k] = WriteLocked

LocksAgree(T, K, lock, rl, wl) == \A k \in K : Agree(T, lock, rl, wl, k)

LEMMA HoldersFinite ==
    ASSUME NEW T, IsFiniteSet(T), NEW list, NEW k
    PROVE  /\ IsFiniteSet(HoldersOf(T, list, k))
           /\ Cardinality(HoldersOf(T, list, k)) \in Nat
BY FS_Subset, FS_CardinalityType DEF HoldersOf

\* At first every lock is free, and no one holds any.
LEMMA FreeAgrees ==
    ASSUME NEW T, NEW K, NEW lock, NEW rl, NEW wl,
           \A k \in K : lock[k] = Free,
           \A t \in T : rl[t] = {} /\ wl[t] = {}
    PROVE  LocksAgree(T, K, lock, rl, wl)
<1>1. \A k \in K : HoldersOf(T, rl, k) = {} /\ HoldersOf(T, wl, k) = {}
  BY DEF HoldersOf
<1> QED
  BY <1>1, FS_EmptySet DEF LocksAgree, Agree, Free

\* A writer is the only one to hold the lock.
LEMMA WriterAlone ==
    ASSUME NEW T, NEW K, NEW lock, NEW rl, NEW wl,
           LockTypes(T, K, lock, rl, wl), LocksAgree(T, K, lock, rl, wl),
           NEW t \in T, NEW k \in wl[t]
    PROVE  /\ k \in K /\ lock[k] = WriteLocked
           /\ HoldersOf(T, wl, k) = {t} /\ HoldersOf(T, rl, k) = {}
           /\ \A u \in T : k \notin rl[u] /\ (u # t => k \notin wl[u])
<1>1. k \in K /\ t \in HoldersOf(T, wl, k)
  BY DEF HoldersOf, LockTypes
<1>2. lock[k] = WriteLocked /\ HoldersOf(T, wl, k) = {t} /\ HoldersOf(T, rl, k) = {}
  BY <1>1 DEF LocksAgree, Agree
<1> QED
  BY <1>1, <1>2 DEF HoldersOf

\* A reader is counted and keeps writers out.
LEMMA ReaderCounted ==
    ASSUME NEW T, NEW K, NEW lock, NEW rl, NEW wl,
           LockTypes(T, K, lock, rl, wl), LocksAgree(T, K, lock, rl, wl),
           NEW t \in T, NEW k \in rl[t]
    PROVE  /\ k \in K /\ HoldersOf(T, wl, k) = {}
           /\ lock[k] = Cardinality(HoldersOf(T, rl, k))
           /\ t \in HoldersOf(T, rl, k) /\ lock[k] \in Nat \ {0}
           /\ \A u \in T : k \notin wl[u]
<1>1. k \in K /\ t \in HoldersOf(T, rl, k)
  BY DEF HoldersOf, LockTypes
<1>2. HoldersOf(T, wl, k) = {} /\ lock[k] = Cardinality(HoldersOf(T, rl, k))
  BY <1>1 DEF LocksAgree, Agree
<1>3. Cardinality(HoldersOf(T, rl, k)) \in Nat \ {0}
  BY <1>1, HoldersFinite, FS_EmptySet DEF LockTypes
<1>4. \A u \in T : k \notin wl[u]
  BY <1>2 DEF HoldersOf
<1> QED
  BY <1>1, <1>2, <1>3, <1>4

\* A change of one lock keeps the agreement if it does for that lock.
LEMMA OneChanges ==
    ASSUME NEW T, NEW K, NEW lock, NEW rl, NEW wl, NEW lock2, NEW rl2, NEW wl2,
           LocksAgree(T, K, lock, rl, wl), NEW k \in K,
           \A j \in K \ {k} : lock2[j] = lock[j],
           \A u \in T : \A j \in K \ {k} :
               (j \in rl2[u] <=> j \in rl[u]) /\ (j \in wl2[u] <=> j \in wl[u]),
           Agree(T, lock2, rl2, wl2, k)
    PROVE  LocksAgree(T, K, lock2, rl2, wl2)
<1> SUFFICES ASSUME NEW j \in K, j # k
             PROVE  /\ HoldersOf(T, rl2, j) = HoldersOf(T, rl, j)
                    /\ HoldersOf(T, wl2, j) = HoldersOf(T, wl, j)
                    /\ lock2[j] = lock[j]
  BY DEF LocksAgree, Agree
<1> QED
  BY DEF HoldersOf

LEMMA ReadLockAgrees ==
    ASSUME NEW T, NEW K, NEW lock, NEW rl, NEW wl,
           LockTypes(T, K, lock, rl, wl), LocksAgree(T, K, lock, rl, wl),
           NEW t \in T, NEW k \in K, k \notin rl[t], CanReadLock(lock[k])
    PROVE  LocksAgree(T, K, [lock EXCEPT ![k] = ReadLock(@)],
                      [rl EXCEPT ![t] = @ \cup {k}], wl)
<1> DEFINE lock2 == [lock EXCEPT ![k] = ReadLock(@)]
           rl2 == [rl EXCEPT ![t] = @ \cup {k}]
<1>1. HoldersOf(T, wl, k) = {} /\ lock[k] = Cardinality(HoldersOf(T, rl, k))
  BY DEF LocksAgree, Agree, CanReadLock
<1>2. /\ HoldersOf(T, rl2, k) = HoldersOf(T, rl, k) \cup {t}
      /\ t \notin HoldersOf(T, rl, k)
  BY DEF HoldersOf, LockTypes
<1>3. lock2[k] = lock[k] + 1 /\ \A j \in K \ {k} : lock2[j] = lock[j]
  BY DEF ReadLock, LockTypes
<1>4. \A u \in T : \A j \in K \ {k} : j \in rl2[u] <=> j \in rl[u]
  BY DEF LockTypes
<1> HIDE DEF lock2, rl2
<1>5. Cardinality(HoldersOf(T, rl2, k)) = Cardinality(HoldersOf(T, rl, k)) + 1
  BY <1>2, HoldersFinite, FS_AddElement DEF LockTypes
<1>6. Agree(T, lock2, rl2, wl, k)
  BY <1>1, <1>3, <1>5 DEF Agree
<1>7. LocksAgree(T, K, lock2, rl2, wl)
  BY <1>3, <1>4, <1>6, OneChanges
<1> QED
  BY <1>7 DEF lock2, rl2

LEMMA UpgradeAgrees ==
    ASSUME NEW T, NEW K, NEW lock, NEW rl, NEW wl,
           LockTypes(T, K, lock, rl, wl), LocksAgree(T, K, lock, rl, wl),
           NEW t \in T, NEW k \in rl[t], CanUpgrade(lock[k])
    PROVE  LocksAgree(T, K, [lock EXCEPT ![k] = Upgrade(@)],
                      [rl EXCEPT ![t] = @ \ {k}], [wl EXCEPT ![t] = @ \cup {k}])
<1> DEFINE lock2 == [lock EXCEPT ![k] = Upgrade(@)]
           rl2 == [rl EXCEPT ![t] = @ \ {k}]
           wl2 == [wl EXCEPT ![t] = @ \cup {k}]
<1>1. /\ k \in K /\ HoldersOf(T, wl, k) = {} /\ t \in HoldersOf(T, rl, k)
      /\ Cardinality(HoldersOf(T, rl, k)) = 1
  BY ReaderCounted DEF CanUpgrade
<1>2. HoldersOf(T, rl, k) = {t}
  BY <1>1, HoldersFinite, FS_Singleton DEF LockTypes
<1>3. HoldersOf(T, rl2, k) = {} /\ HoldersOf(T, wl2, k) = {t}
  BY <1>1, <1>2 DEF HoldersOf, LockTypes
<1>4. lock2[k] = WriteLocked /\ \A j \in K \ {k} : lock2[j] = lock[j]
  BY <1>1 DEF Upgrade, LockTypes
<1>5. \A u \in T : \A j \in K \ {k} :
          (j \in rl2[u] <=> j \in rl[u]) /\ (j \in wl2[u] <=> j \in wl[u])
  BY DEF LockTypes
<1> HIDE DEF lock2, rl2, wl2
<1>6. Agree(T, lock2, rl2, wl2, k)
  BY <1>3, <1>4 DEF Agree
<1>7. LocksAgree(T, K, lock2, rl2, wl2)
  BY <1>1, <1>4, <1>5, <1>6, OneChanges
<1> QED
  BY <1>7 DEF lock2, rl2, wl2

LEMMA WriteLockAgrees ==
    ASSUME NEW T, NEW K, NEW lock, NEW rl, NEW wl,
           LockTypes(T, K, lock, rl, wl), LocksAgree(T, K, lock, rl, wl),
           NEW t \in T, NEW k \in K, CanWriteLock(lock[k])
    PROVE  LocksAgree(T, K, [lock EXCEPT ![k] = WriteLock(@)],
                      rl, [wl EXCEPT ![t] = @ \cup {k}])
<1> DEFINE lock2 == [lock EXCEPT ![k] = WriteLock(@)]
           wl2 == [wl EXCEPT ![t] = @ \cup {k}]
<1>1. HoldersOf(T, wl, k) = {} /\ HoldersOf(T, rl, k) = {}
  BY HoldersFinite, FS_EmptySet
     DEF LocksAgree, Agree, LockTypes, CanWriteLock, Free, WriteLocked
<1>2. HoldersOf(T, wl2, k) = {t}
  BY <1>1 DEF HoldersOf, LockTypes
<1>3. lock2[k] = WriteLocked /\ \A j \in K \ {k} : lock2[j] = lock[j]
  BY DEF WriteLock, LockTypes
<1>4. \A u \in T : \A j \in K \ {k} : j \in wl2[u] <=> j \in wl[u]
  BY DEF LockTypes
<1> HIDE DEF lock2, wl2
<1>5. Agree(T, lock2, rl, wl2, k)
  BY <1>1, <1>2, <1>3 DEF Agree
<1>6. LocksAgree(T, K, lock2, rl, wl2)
  BY <1>3, <1>4, <1>5, OneChanges
<1> QED
  BY <1>6 DEF lock2, wl2

LEMMA ReadUnlockAgrees ==
    ASSUME NEW T, NEW K, NEW lock, NEW rl, NEW wl,
           LockTypes(T, K, lock, rl, wl), LocksAgree(T, K, lock, rl, wl),
           NEW t \in T, NEW k \in rl[t]
    PROVE  LocksAgree(T, K, [lock EXCEPT ![k] = ReadUnlock(@)],
                      [rl EXCEPT ![t] = @ \ {k}], wl)
<1> DEFINE lock2 == [lock EXCEPT ![k] = ReadUnlock(@)]
           rl2 == [rl EXCEPT ![t] = @ \ {k}]
<1>1. /\ k \in K /\ HoldersOf(T, wl, k) = {} /\ t \in HoldersOf(T, rl, k)
      /\ lock[k] = Cardinality(HoldersOf(T, rl, k))
  BY ReaderCounted
<1>2. HoldersOf(T, rl2, k) = HoldersOf(T, rl, k) \ {t}
  BY DEF HoldersOf, LockTypes
<1>3. lock2[k] = lock[k] - 1 /\ \A j \in K \ {k} : lock2[j] = lock[j]
  BY <1>1 DEF ReadUnlock, LockTypes
<1>4. \A u \in T : \A j \in K \ {k} : j \in rl2[u] <=> j \in rl[u]
  BY DEF LockTypes
<1> HIDE DEF lock2, rl2
<1>5. Cardinality(HoldersOf(T, rl2, k)) = Cardinality(HoldersOf(T, rl, k)) - 1
  <2> DEFINE S == HoldersOf(T, rl, k)
  <2>1. IsFiniteSet(S) /\ t \in S
    BY <1>1, HoldersFinite DEF LockTypes
  <2> HIDE DEF S
  <2>2. Cardinality(S \ {t}) = Cardinality(S) - 1
    BY <2>1, FS_RemoveElement
  <2> QED
    BY <1>2, <2>2 DEF S
<1>6. Agree(T, lock2, rl2, wl, k)
  BY <1>1, <1>3, <1>5 DEF Agree
<1>7. LocksAgree(T, K, lock2, rl2, wl)
  BY <1>1, <1>3, <1>4, <1>6, OneChanges
<1> QED
  BY <1>7 DEF lock2, rl2

LEMMA WriteUnlockAgrees ==
    ASSUME NEW T, NEW K, NEW lock, NEW rl, NEW wl,
           LockTypes(T, K, lock, rl, wl), LocksAgree(T, K, lock, rl, wl),
           NEW t \in T, NEW k \in wl[t]
    PROVE  LocksAgree(T, K, [lock EXCEPT ![k] = WriteUnlock(@)],
                      rl, [wl EXCEPT ![t] = @ \ {k}])
<1> DEFINE lock2 == [lock EXCEPT ![k] = WriteUnlock(@)]
           wl2 == [wl EXCEPT ![t] = @ \ {k}]
<1>1. /\ k \in K /\ lock[k] = WriteLocked
      /\ HoldersOf(T, wl, k) = {t} /\ HoldersOf(T, rl, k) = {}
  BY WriterAlone
<1>2. HoldersOf(T, wl2, k) = {}
  BY <1>1 DEF HoldersOf, LockTypes
<1>3. lock2[k] = 0 /\ \A j \in K \ {k} : lock2[j] = lock[j]
  BY <1>1 DEF WriteUnlock, WriteLocked, LockTypes
<1>4. \A u \in T : \A j \in K \ {k} : j \in wl2[u] <=> j \in wl[u]
  BY DEF LockTypes
<1> HIDE DEF lock2, wl2
<1>5. Agree(T, lock2, rl, wl2, k)
  BY <1>1, <1>2, <1>3, FS_EmptySet DEF Agree
<1>6. LocksAgree(T, K, lock2, rl, wl2)
  BY <1>1, <1>3, <1>4, <1>5, OneChanges
<1> QED
  BY <1>6 DEF lock2, wl2
=============================================================================
