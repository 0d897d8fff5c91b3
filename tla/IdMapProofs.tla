----------------------------- MODULE IdMapProofs -----------------------------
(***************************************************************************)
(* What the operations of the cache return and keep, for any cap, any TTL  *)
(* and any bubbles.                                                        *)
(*                                                                         *)
(* Facts about Only, which is recursive, are proved by least               *)
(* counterexample: a set of numbers that is not empty has a least member.  *)
(***************************************************************************)
EXTENDS IdMap, FiniteSetTheorems, SequenceTheorems, WellFoundedInduction, TLAPS

\* The maps from some of X to Y.
Map(X, Y) == UNION {[D -> Y] : D \in SUBSET X}

\* A cache whose members are of U and whose ids are of I.
CacheOf(U, I) ==
  [views : [Bubbles -> Map(U, I)], expires : [Bubbles -> Nat],
   index : Map(I, Bubbles), lru : Seq(Bubbles)]

\* Every key belongs to a bubble that is on the list and has the key as a view.
Anchored(c) ==
  \A id \in DOMAIN c.index :
    c.index[id] \in Range(c.lru) /\ id \in Range(c.views[c.index[id]])

\* The keys are within the cap.
Bounded(c) ==
  /\ IsFiniteSet(DOMAIN c.index)
  /\ MaxKeys > 0 => Cardinality(DOMAIN c.index) <= MaxKeys

\* d is c after some of its keys have gone.
Fewer(d, c) ==
  /\ d.views = c.views
  /\ d.expires = c.expires
  /\ DOMAIN d.index \subseteq DOMAIN c.index
  /\ \A id \in DOMAIN d.index : d.index[id] = c.index[id]

-----------------------------------------------------------------------------
(* Sequences *)

\* A set of natural numbers that is not empty has a least member.
LEMMA LeastNat ==
  ASSUME NEW T \in SUBSET Nat, T # {}
  PROVE  \E n \in T : \A m \in T : n <= m
<1>1. \E n \in T : \A m \in T : ~ (<<m, n>> \in OpToRel(<, Nat))
  BY WFMin, NatLessThanWellFounded
<1>2. PICK n \in T : \A m \in T : ~ (<<m, n>> \in OpToRel(<, Nat))
  BY <1>1
<1>3. \A m \in T : ~ (m < n)
  BY <1>2 DEF OpToRel
<1> QED
  BY <1>3

\* The equation of the function in Only, at i.
OnlyAt(s, keep, F, i) ==
  IF i = 0 THEN <<>>
  ELSE IF s[i] \in keep THEN Append(F[i - 1], s[i]) ELSE F[i - 1]

\* The equation has a solution.
LEMMA OnlyExists ==
  ASSUME NEW s, NEW keep, NEW n \in Nat
  PROVE  \E F : F = [i \in 0 .. n |-> OnlyAt(s, keep, F, i)]
<1> DEFINE Bad == {m \in Nat : ~ \E F : F = [i \in 0 .. m |-> OnlyAt(s, keep, F, i)]}
<1>1. SUFFICES Bad = {}
  OBVIOUS
<1>2. SUFFICES ASSUME Bad # {} PROVE FALSE
  OBVIOUS
<1>3. PICK m \in Bad : \A k \in Bad : m <= k
  BY <1>2, LeastNat
<1>4. CASE m = 0
  <2> DEFINE G == [i \in 0 .. 0 |-> <<>>]
  <2>1. G = [i \in 0 .. 0 |-> OnlyAt(s, keep, G, i)]
    BY DEF OnlyAt
  <2> QED
    BY <1>4, <2>1
<1>5. CASE m # 0
  <2>1. m - 1 \in Nat /\ m - 1 \notin Bad
    BY <1>3, <1>5
  <2>2. PICK F : F = [i \in 0 .. (m - 1) |-> OnlyAt(s, keep, F, i)]
    BY <2>1
  <2> DEFINE G == [i \in 0 .. m |-> IF i < m THEN F[i] ELSE OnlyAt(s, keep, F, m)]
  <2>3. \A i \in 0 .. m : G[i] = OnlyAt(s, keep, G, i)
    <3> TAKE i \in 0 .. m
    <3>1. CASE i = 0
      BY <3>1, <1>5, <2>1, <2>2 DEF OnlyAt
    <3>2. CASE i \in 1 .. (m - 1)
      <4>0. i \in 0 .. (m - 1)
        BY <3>2, <2>1
      <4>1. F[i] = OnlyAt(s, keep, F, i)
        BY <4>0, <2>2, Zenon
      <4>2. F[i] = G[i] /\ F[i - 1] = G[i - 1]
        BY <3>2, <2>1
      <4> QED
        BY <3>2, <4>1, <4>2 DEF OnlyAt
    <3>3. CASE i = m
      BY <3>3, <1>5, <2>1, <2>2 DEF OnlyAt
    <3> QED
      BY <2>1, <3>1, <3>2, <3>3
  <2>4. G = [i \in 0 .. m |-> OnlyAt(s, keep, G, i)]
    BY <2>3
  <2> QED
    BY <2>4
<1> QED
  BY <1>4, <1>5

\* Only is the last value of the solution.
LEMMA OnlyDef ==
  ASSUME NEW S, NEW s \in Seq(S), NEW keep
  PROVE  \E F : /\ F = [i \in 0 .. Len(s) |-> OnlyAt(s, keep, F, i)]
                /\ Only(s, keep) = F[Len(s)]
<1>0. Len(s) \in Nat
  OBVIOUS
<1>1. \E F : F = [i \in 0 .. Len(s) |-> OnlyAt(s, keep, F, i)]
  BY <1>0, OnlyExists, Zenon
<1> DEFINE F0 == CHOOSE F : F = [i \in 0 .. Len(s) |-> OnlyAt(s, keep, F, i)]
<1>2. F0 = [i \in 0 .. Len(s) |-> OnlyAt(s, keep, F0, i)]
  BY <1>1
<1>3. Only(s, keep) = F0[Len(s)]
  BY DEF Only, OnlyAt
<1> QED
  BY <1>2, <1>3

\* Append adds its element to the range, and nothing else.
LEMMA AppendRange ==
  ASSUME NEW S, NEW t \in Seq(S), NEW e \in S
  PROVE  /\ Append(t, e) \in Seq(S)
         /\ Range(Append(t, e)) = Range(t) \cup {e}
<1> DEFINE a == Append(t, e)
<1>1. a \in Seq(S) /\ Len(a) = Len(t) + 1 /\ a[Len(t) + 1] = e
      /\ \A i \in 1 .. Len(t) : a[i] = t[i]
  BY AppendProperties
<1>2. Len(t) \in Nat /\ DOMAIN t = 1 .. Len(t)
  OBVIOUS
<1> HIDE DEF a
<1>3. DOMAIN a = 1 .. (Len(t) + 1)
  BY <1>1
<1>4. 1 .. (Len(t) + 1) = (1 .. Len(t)) \cup {Len(t) + 1}
  BY <1>2
<1>5. Range(a) = {a[i] : i \in 1 .. Len(t)} \cup {a[Len(t) + 1]}
  BY <1>3, <1>4, Zenon DEF Range
<1>6. {a[i] : i \in 1 .. Len(t)} = {t[i] : i \in 1 .. Len(t)}
  BY <1>1
<1>7. Range(t) = {t[i] : i \in 1 .. Len(t)}
  BY <1>2, Zenon DEF Range
<1>8. a \in Seq(S) /\ Range(a) = Range(t) \cup {e}
  BY <1>1, <1>5, <1>6, <1>7
<1> QED
  BY <1>8 DEF a

\* Only keeps the elements of a sequence that are in the set, and no others.
LEMMA OnlyRange ==
  ASSUME NEW S, NEW s \in Seq(S), NEW keep
  PROVE  /\ Only(s, keep) \in Seq(S)
         /\ Range(Only(s, keep)) = Range(s) \cap keep
<1>0. Len(s) \in Nat /\ \A i \in 1 .. Len(s) : s[i] \in S
  OBVIOUS
<1>1. PICK F : /\ F = [i \in 0 .. Len(s) |-> OnlyAt(s, keep, F, i)]
               /\ Only(s, keep) = F[Len(s)]
  BY OnlyDef
<1> DEFINE Upto(k) == {s[i] : i \in 1 .. k}
           Good(k) == F[k] \in Seq(S) /\ Range(F[k]) = Upto(k) \cap keep
           Bad == {k \in 0 .. Len(s) : ~ Good(k)}
<1>2. Bad = {}
  <2> HIDE DEF Good
  <2> SUFFICES ASSUME Bad # {} PROVE FALSE
    OBVIOUS
  <2>1. PICK k \in Bad : \A j \in Bad : k <= j
    <3>1. Bad \in SUBSET Nat
      BY <1>0
    <3> QED
      BY <3>1, LeastNat, Zenon
  <2>2. CASE k = 0
    <3>1. F[0] = <<>>
      BY <1>0, <1>1 DEF OnlyAt
    <3>2. <<>> \in Seq(S) /\ Range(<<>>) = {} /\ Upto(0) = {}
      BY DEF Range
    <3> QED
      BY <2>1, <2>2, <3>1, <3>2, Zenon DEF Good
  <2>3. CASE k # 0
    <3>1. k \in 1 .. Len(s) /\ k - 1 \in 0 .. Len(s) /\ k - 1 \notin Bad
      <4>1. k \in 0 .. Len(s)
        BY <2>1, Zenon
      <4>2. k \in 1 .. Len(s) /\ k - 1 \in 0 .. Len(s) /\ ~ (k <= k - 1)
        BY <1>0, <2>3, <4>1
      <4> QED
        BY <2>1, <4>2, Zenon
    <3>2. Good(k - 1)
      BY <3>1, Zenon
    <3>3. F[k] = IF s[k] \in keep THEN Append(F[k - 1], s[k]) ELSE F[k - 1]
      <4>1. k \in 0 .. Len(s) /\ k # 0
        BY <1>0, <3>1
      <4>2. F[k] = OnlyAt(s, keep, F, k)
        BY <1>1, <4>1, Zenon
      <4> QED
        BY <4>1, <4>2, Zenon DEF OnlyAt
    <3>4. Upto(k) = Upto(k - 1) \cup {s[k]} /\ s[k] \in S
      <4>1. 1 .. k = (1 .. (k - 1)) \cup {k}
        BY <3>1, <1>0
      <4> QED
        BY <4>1, <3>1, <1>0
    <3>5. Append(F[k - 1], s[k]) \in Seq(S) /\ Range(Append(F[k - 1], s[k])) = Range(F[k - 1]) \cup {s[k]}
      <4> DEFINE t == F[k - 1]
                 e == s[k]
      <4>1. t \in Seq(S) /\ e \in S
        BY <3>2, <3>4 DEF Good
      <4> HIDE DEF t, e
      <4>2. Append(t, e) \in Seq(S) /\ Range(Append(t, e)) = Range(t) \cup {e}
        BY <4>1, AppendRange, Zenon
      <4> QED
        BY <4>2 DEF t, e
    <3> HIDE DEF Upto
    <3>6. Good(k)
      <4>1. CASE s[k] \in keep
        BY <4>1, <3>2, <3>3, <3>4, <3>5 DEF Good
      <4>2. CASE s[k] \notin keep
        BY <4>2, <3>2, <3>3, <3>4 DEF Good
      <4> QED
        BY <4>1, <4>2
    <3> QED
      BY <2>1, <3>6, Zenon
  <2> QED
    BY <2>2, <2>3
<1>3. Good(Len(s))
  <2>1. Len(s) \in 0 .. Len(s)
    BY <1>0
  <2> HIDE DEF Good
  <2> QED
    BY <1>2, <2>1
<1>4. Upto(Len(s)) = Range(s)
  BY DEF Range
<1> QED
  BY <1>1, <1>3, <1>4

-----------------------------------------------------------------------------
(* The cache *)

\* A map has its domain and its values in the sets.
LEMMA MapFacts ==
  ASSUME NEW X, NEW Y, NEW f \in Map(X, Y)
  PROVE  /\ DOMAIN f \subseteq X
         /\ \A x \in DOMAIN f : f[x] \in Y
         /\ f = [x \in DOMAIN f |-> f[x]]
BY DEF Map

\* A function with arguments of X and values of Y is a map.
LEMMA IsMap ==
  ASSUME NEW X, NEW Y, NEW D, D \subseteq X, NEW f, f \in [D -> Y]
  PROVE  f \in Map(X, Y)
BY DEF Map

\* The fields of a cache.
LEMMA CacheFields ==
  ASSUME NEW U, NEW I, NEW c \in CacheOf(U, I)
  PROVE  /\ c.views \in [Bubbles -> Map(U, I)]
         /\ c.expires \in [Bubbles -> Nat]
         /\ c.index \in Map(I, Bubbles)
         /\ c.lru \in Seq(Bubbles)
BY DEF CacheOf

\* Contains says that the element is in the range.
LEMMA ContainsRange ==
  ASSUME NEW S, NEW s \in Seq(S), NEW e
  PROVE  Contains(s, e) <=> e \in Range(s)
BY DEF Contains, Range

\* With adds or replaces one value.
LEMMA WithMap ==
  ASSUME NEW X, NEW Y, NEW f \in Map(X, Y), NEW x \in X, NEW y \in Y
  PROVE  With(f, x, y) \in Map(X, Y)
<1>1. /\ DOMAIN f \cup {x} \subseteq X
      /\ With(f, x, y) \in [DOMAIN f \cup {x} -> Y]
  BY MapFacts DEF With
<1> QED
  BY <1>1, IsMap

\* Removing bubbles takes their keys and their places on the list.
LEMMA RemovedFacts ==
  ASSUME NEW U, NEW I, NEW c \in CacheOf(U, I), NEW bs
  PROVE  /\ Removed(c, bs) \in CacheOf(U, I)
         /\ Fewer(Removed(c, bs), c)
         /\ DOMAIN Removed(c, bs).index = DOMAIN c.index \ UNION {Range(c.views[b]) : b \in bs}
         /\ Range(Removed(c, bs).lru) = Range(c.lru) \ bs
<1> DEFINE keys == UNION {Range(c.views[b]) : b \in bs}
           ix == Restrict(c.index, DOMAIN c.index \ keys)
           lr == Only(c.lru, Bubbles \ bs)
<1>1. /\ c.views \in [Bubbles -> Map(U, I)]
      /\ c.expires \in [Bubbles -> Nat]
      /\ c.index \in Map(I, Bubbles)
      /\ c.lru \in Seq(Bubbles)
  BY CacheFields
<1>3. lr \in Seq(Bubbles) /\ Range(lr) = Range(c.lru) \ bs
  <2>1. Range(c.lru) \subseteq Bubbles
    BY <1>1 DEF Range
  <2>2. lr \in Seq(Bubbles) /\ Range(lr) = Range(c.lru) \cap (Bubbles \ bs)
    BY <1>1, OnlyRange
  <2> QED
    BY <2>1, <2>2
<1>4. /\ DOMAIN ix = DOMAIN c.index \ keys
      /\ \A id \in DOMAIN ix : ix[id] = c.index[id]
      /\ ix \in Map(I, Bubbles)
  <2>1. DOMAIN c.index \subseteq I /\ \A id \in DOMAIN c.index : c.index[id] \in Bubbles
    BY <1>1, MapFacts
  <2>2. /\ DOMAIN ix = DOMAIN c.index \ keys
        /\ \A id \in DOMAIN ix : ix[id] = c.index[id]
        /\ ix \in [DOMAIN c.index \ keys -> Bubbles]
    BY <2>1 DEF Restrict
  <2>3. DOMAIN c.index \ keys \subseteq I
    BY <2>1
  <2> HIDE DEF ix, keys
  <2> QED
    BY <2>2, <2>3, IsMap
<1>5. Removed(c, bs) = [c EXCEPT !.index = ix, !.lru = lr]
  BY Zenon DEF Removed
<1> HIDE DEF ix, lr
<1>6. /\ Removed(c, bs) \in CacheOf(U, I)
      /\ Removed(c, bs).views = c.views /\ Removed(c, bs).expires = c.expires
      /\ Removed(c, bs).index = ix /\ Removed(c, bs).lru = lr
  BY <1>3, <1>4, <1>5 DEF CacheOf
<1>7. Fewer(Removed(c, bs), c)
  BY <1>4, <1>6 DEF Fewer
<1> QED
  BY <1>3, <1>4, <1>6, <1>7

\* Removing bubbles leaves no key without its bubble.
LEMMA RemovedAnchored ==
  ASSUME NEW U, NEW I, NEW c \in CacheOf(U, I), NEW bs, Anchored(c)
  PROVE  Anchored(Removed(c, bs))
<1>1. /\ Fewer(Removed(c, bs), c)
      /\ DOMAIN Removed(c, bs).index = DOMAIN c.index \ UNION {Range(c.views[b]) : b \in bs}
      /\ Range(Removed(c, bs).lru) = Range(c.lru) \ bs
  BY RemovedFacts
<1> SUFFICES ASSUME NEW id \in DOMAIN Removed(c, bs).index
             PROVE  /\ Removed(c, bs).index[id] \in Range(Removed(c, bs).lru)
                    /\ id \in Range(Removed(c, bs).views[Removed(c, bs).index[id]])
  BY Zenon DEF Anchored
<1>2. /\ id \in DOMAIN c.index
      /\ Removed(c, bs).index[id] = c.index[id]
      /\ Removed(c, bs).views = c.views
  BY <1>1 DEF Fewer
<1>3. c.index[id] \in Range(c.lru) /\ id \in Range(c.views[c.index[id]])
  BY <1>2 DEF Anchored
<1>4. c.index[id] \notin bs
  BY <1>1, <1>3
<1> QED
  BY <1>1, <1>2, <1>3, <1>4

\* Fewer keys are still within the cap.
LEMMA FewerBounded ==
  ASSUME NEW c, NEW d, Fewer(d, c), Bounded(c)
  PROVE  Bounded(d)
<1>1. /\ IsFiniteSet(DOMAIN d.index)
      /\ Cardinality(DOMAIN d.index) <= Cardinality(DOMAIN c.index)
  BY FS_Subset DEF Fewer, Bounded
<1>2. Cardinality(DOMAIN d.index) \in Nat /\ Cardinality(DOMAIN c.index) \in Nat
  BY <1>1, FS_CardinalityType DEF Bounded
<1> QED
  BY <1>1, <1>2, CacheAssumption DEF Bounded

\* Fewer is transitive.
LEMMA FewerTrans ==
  ASSUME NEW c, NEW d, NEW e, Fewer(d, c), Fewer(e, d)
  PROVE  Fewer(e, c)
BY DEF Fewer

\* Enforcing the cap brings the keys within it, because in the end every bubble that
\* has one is gone.
LEMMA EnforceCapFacts ==
  ASSUME NEW U, NEW I, NEW c \in CacheOf(U, I), Anchored(c), IsFiniteSet(DOMAIN c.index)
  PROVE  /\ EnforceCap(c) \in CacheOf(U, I)
         /\ Fewer(EnforceCap(c), c)
         /\ Anchored(EnforceCap(c))
         /\ Bounded(EnforceCap(c))
<1>1. CASE MaxKeys = 0
  BY <1>1 DEF EnforceCap, Fewer, Bounded
<1>2. CASE MaxKeys # 0
  <2> DEFINE Fits(k) == Cardinality(DOMAIN Removed(c, Oldest(c, k)).index) <= MaxKeys
             Ok(n) == /\ Fits(n) \/ n = Len(c.lru)
                      /\ \A j \in 0 .. (n - 1) : ~ Fits(j)
             k == CHOOSE n \in 0 .. Len(c.lru) : Ok(n)
             Fit == {n \in 0 .. Len(c.lru) : Fits(n) \/ n = Len(c.lru)}
  <2>1. EnforceCap(c) = Removed(c, Oldest(c, k))
    BY <1>2 DEF EnforceCap
  <2>2. Len(c.lru) \in Nat /\ c.lru \in Seq(Bubbles)
    BY CacheFields
  <2> HIDE DEF Fits
  <2>3. \E n \in 0 .. Len(c.lru) : Ok(n)
    <3>1. Fit \in SUBSET Nat /\ Fit # {}
      <4>1. Len(c.lru) \in Fit
        BY <2>2
      <4> QED
        BY <2>2, <4>1
    <3>2. PICK n \in Fit : \A m \in Fit : n <= m
      BY <3>1, LeastNat
    <3>3. \A j \in 0 .. (n - 1) : j \in 0 .. Len(c.lru) /\ ~ (n <= j)
      BY <2>2, <3>2
    <3> QED
      BY <3>2, <3>3
  <2>4. k \in 0 .. Len(c.lru) /\ Ok(k)
    BY <2>3
  <2> HIDE DEF k
  <2>5. Fits(k)
    <3>1. CASE k = Len(c.lru)
      <4>1. Oldest(c, k) = Range(c.lru)
        BY <2>2, <3>1 DEF Oldest, Range
      <4>2. DOMAIN Removed(c, Oldest(c, k)).index = {}
        BY <4>1, RemovedFacts DEF Anchored
      <4> QED
        BY <4>2, FS_EmptySet, CacheAssumption DEF Fits
    <3> QED
      BY <2>4, <3>1
  <2>6. /\ EnforceCap(c) \in CacheOf(U, I)
        /\ Fewer(EnforceCap(c), c)
        /\ Anchored(EnforceCap(c))
    BY <2>1, RemovedFacts, RemovedAnchored
  <2>7. IsFiniteSet(DOMAIN EnforceCap(c).index)
    BY <2>6, FS_Subset DEF Fewer
  <2> QED
    BY <2>1, <2>5, <2>6, <2>7 DEF Bounded, Fits
<1> QED
  BY <1>1, <1>2

\* Evicting the expired bubbles takes keys away and leaves none without its bubble.
LEMMA EvictExpiredFacts ==
  ASSUME NEW U, NEW I, NEW c \in CacheOf(U, I), NEW now, Anchored(c)
  PROVE  /\ EvictExpired(c, now) \in CacheOf(U, I)
         /\ Fewer(EvictExpired(c, now), c)
         /\ Anchored(EvictExpired(c, now))
<1>1. PICK bs : EvictExpired(c, now) = Removed(c, bs)
  BY DEF EvictExpired
<1> QED
  BY <1>1, RemovedFacts, RemovedAnchored

\* Moving a bubble to the front keeps the others.
LEMMA MoveToFrontFacts ==
  ASSUME NEW U, NEW I, NEW c \in CacheOf(U, I), NEW b \in Bubbles
  PROVE  /\ MoveToFront(c, b) \in CacheOf(U, I)
         /\ MoveToFront(c, b).index = c.index
         /\ Fewer(MoveToFront(c, b), c)
         /\ Range(MoveToFront(c, b).lru) = Range(c.lru) \cup {b}
<1> DEFINE rest == Only(c.lru, Bubbles \ {b})
<1>1. /\ c.views \in [Bubbles -> Map(U, I)]
      /\ c.expires \in [Bubbles -> Nat]
      /\ c.index \in Map(I, Bubbles)
      /\ c.lru \in Seq(Bubbles)
  BY CacheFields
<1>2. rest \in Seq(Bubbles) /\ Range(rest) = Range(c.lru) \cap (Bubbles \ {b})
  BY <1>1, OnlyRange
<1>3. Range(c.lru) \subseteq Bubbles
  BY <1>1 DEF Range
<1> HIDE DEF rest
<1>5. <<b>> \o rest \in Seq(Bubbles) /\ Range(<<b>> \o rest) = {b} \cup Range(rest)
  <2>1. /\ <<b>> \o rest \in Seq(Bubbles)
        /\ DOMAIN (<<b>> \o rest) = 1 .. (1 + Len(rest))
        /\ (<<b>> \o rest)[1] = b
        /\ \A i \in 1 .. Len(rest) : (<<b>> \o rest)[i + 1] = rest[i]
        /\ DOMAIN rest = 1 .. Len(rest) /\ Len(rest) \in Nat
    BY <1>2
  <2>2. \A i \in 2 .. (1 + Len(rest)) : i - 1 \in 1 .. Len(rest) /\ (i - 1) + 1 = i
    BY <2>1
  <2>3. 1 .. (1 + Len(rest)) = {1} \cup 2 .. (1 + Len(rest))
    BY <2>1
  <2>4. \A x \in Range(<<b>> \o rest) : x = b \/ x \in Range(rest)
    BY <2>1, <2>2, <2>3 DEF Range
  <2>5. \A x \in Range(rest) : x \in Range(<<b>> \o rest)
    <3> SUFFICES ASSUME NEW i \in 1 .. Len(rest)
                 PROVE  rest[i] \in Range(<<b>> \o rest)
      BY <2>1 DEF Range
    <3>1. i + 1 \in DOMAIN (<<b>> \o rest) /\ (<<b>> \o rest)[i + 1] = rest[i]
      BY <2>1
    <3> QED
      BY <3>1, Zenon DEF Range
  <2>6. b \in Range(<<b>> \o rest)
    BY <2>1 DEF Range
  <2> QED
    BY <2>1, <2>4, <2>5, <2>6
<1>6. Range(<<b>> \o rest) = Range(c.lru) \cup {b}
  BY <1>2, <1>3, <1>5
<1> DEFINE lr == <<b>> \o rest
<1> HIDE DEF lr
<1>7. lr \in Seq(Bubbles) /\ Range(lr) = Range(c.lru) \cup {b}
  BY <1>5, <1>6 DEF lr
<1>8. MoveToFront(c, b) = [c EXCEPT !.lru = lr]
  BY DEF MoveToFront, lr, rest
<1>9. /\ MoveToFront(c, b) \in CacheOf(U, I)
      /\ MoveToFront(c, b).views = c.views /\ MoveToFront(c, b).expires = c.expires
      /\ MoveToFront(c, b).index = c.index /\ MoveToFront(c, b).lru = lr
  BY <1>1, <1>7, <1>8 DEF CacheOf
<1> QED
  BY <1>7, <1>9 DEF Fewer

\* RegisterView records the id as the member's view and as a key of the bubble; of
\* the other keys some may go.  If the member had no other view of the bubble, no key
\* is left without its bubble and the keys are within the cap.
LEMMA RegisterViewFacts ==
  ASSUME NEW U, NEW I, NEW c \in CacheOf(U, I), Anchored(c), Bounded(c),
         NEW b \in Bubbles, NEW u \in U, NEW id \in I, NEW now,
         u \in DOMAIN c.views[b] => c.views[b][u] = id
  PROVE  LET d == RegisterView(c, b, u, id, now)
         IN  /\ d \in CacheOf(U, I)
             /\ Anchored(d)
             /\ Bounded(d)
             /\ d.expires = c.expires
             /\ d.views = [c.views EXCEPT ![b] = With(c.views[b], u, id)]
             /\ DOMAIN d.index \subseteq DOMAIN c.index \cup {id}
             /\ \A x \in DOMAIN d.index : d.index[x] = IF x = id THEN b ELSE c.index[x]
<1> DEFINE e == EvictExpired(c, now)
           vs == [c.views EXCEPT ![b] = With(c.views[b], u, id)]
           v == [e EXCEPT !.views[b] = With(@, u, id), !.index = With(@, id, b)]
           f == MoveToFront(v, b)
           d == EnforceCap(f)
<1>1. RegisterView(c, b, u, id, now) = d
  BY DEF RegisterView
<1>2. e \in CacheOf(U, I) /\ Fewer(e, c) /\ Anchored(e) /\ Bounded(e)
  BY EvictExpiredFacts, FewerBounded
<1> HIDE DEF e
<1>3. /\ c.views \in [Bubbles -> Map(U, I)] /\ e.views = c.views
      /\ e.expires \in [Bubbles -> Nat] /\ e.expires = c.expires
      /\ e.index \in Map(I, Bubbles)
      /\ e.lru \in Seq(Bubbles)
  BY <1>2, CacheFields DEF Fewer
<1>4. c.views[b] \in Map(U, I)
  BY <1>3
<1>5. /\ With(c.views[b], u, id) \in Map(U, I)
      /\ DOMAIN With(c.views[b], u, id) = DOMAIN c.views[b] \cup {u}
      /\ With(c.views[b], u, id)[u] = id
      /\ \A z \in DOMAIN c.views[b] : z # u => With(c.views[b], u, id)[z] = c.views[b][z]
  <2>1. With(c.views[b], u, id) \in Map(U, I)
    BY <1>4, WithMap
  <2> QED
    BY <2>1 DEF With
<1>6. /\ With(e.index, id, b) \in Map(I, Bubbles)
      /\ DOMAIN With(e.index, id, b) = DOMAIN e.index \cup {id}
      /\ With(e.index, id, b)[id] = b
      /\ \A z \in DOMAIN e.index : z # id => With(e.index, id, b)[z] = e.index[z]
  <2>1. With(e.index, id, b) \in Map(I, Bubbles)
    BY <1>3, WithMap
  <2> QED
    BY <2>1 DEF With
<1>7. vs \in [Bubbles -> Map(U, I)]
  BY <1>3, <1>5
<1>8. \A x \in Bubbles : Range(c.views[x]) \subseteq Range(vs[x])
  <2>1. Range(c.views[b]) \subseteq Range(With(c.views[b], u, id))
    BY <1>5 DEF Range
  <2> QED
    BY <1>3, <2>1
<1>9. id \in Range(vs[b])
  <2>1. id \in Range(With(c.views[b], u, id))
    BY <1>5 DEF Range
  <2> QED
    BY <1>3, <2>1
<1> DEFINE w == With(c.views[b], u, id)
           ix == With(e.index, id, b)
<1>10. v = [e EXCEPT !.views[b] = w, !.index = ix] /\ vs = [c.views EXCEPT ![b] = w]
  BY <1>3, Zenon
<1>11. v \in CacheOf(U, I) /\ v.index = ix /\ v.views = vs /\ v.expires = c.expires /\ v.lru = e.lru
  <2> HIDE DEF w, ix, v, vs
  <2>1. w \in Map(U, I) /\ ix \in Map(I, Bubbles)
    BY <1>5, <1>6 DEF w, ix
  <2> QED
    BY <1>2, <1>3, <1>10, <2>1 DEF CacheOf
<1> HIDE DEF vs
<1> HIDE DEF v
<1>12. /\ f \in CacheOf(U, I) /\ f.index = v.index /\ Fewer(f, v)
       /\ Range(f.lru) = Range(v.lru) \cup {b}
  BY <1>11, MoveToFrontFacts
<1> HIDE DEF f
<1>13. Anchored(f)
  <2> SUFFICES ASSUME NEW x \in DOMAIN f.index
               PROVE  f.index[x] \in Range(f.lru) /\ x \in Range(f.views[f.index[x]])
    BY Zenon DEF Anchored
  <2>1. f.views = vs /\ f.index = With(e.index, id, b) /\ Range(f.lru) = Range(e.lru) \cup {b}
    BY <1>11, <1>12 DEF Fewer
  <2>2. CASE x = id
    BY <1>6, <1>9, <2>1, <2>2
  <2>3. CASE x # id
    <3>1. x \in DOMAIN e.index /\ f.index[x] = e.index[x]
      BY <1>6, <2>1, <2>3
    <3>2. e.index[x] \in Range(e.lru) /\ x \in Range(c.views[e.index[x]])
      BY <1>2, <1>3, <3>1 DEF Anchored
    <3>3. e.index[x] \in Bubbles
      BY <1>3, <3>1, MapFacts
    <3> QED
      BY <1>8, <2>1, <3>1, <3>2, <3>3
  <2> QED
    BY <2>2, <2>3
<1>14. IsFiniteSet(DOMAIN f.index)
  BY <1>2, <1>6, <1>11, <1>12, FS_AddElement DEF Bounded
<1>15. d \in CacheOf(U, I) /\ Fewer(d, f) /\ Anchored(d) /\ Bounded(d)
  BY <1>12, <1>13, <1>14, EnforceCapFacts
<1> HIDE DEF d
<1>16. d.expires = c.expires /\ d.views = vs
  BY <1>11, <1>12, <1>15 DEF Fewer
<1>17. /\ DOMAIN d.index \subseteq DOMAIN c.index \cup {id}
       /\ \A x \in DOMAIN d.index : d.index[x] = IF x = id THEN b ELSE c.index[x]
  BY <1>2, <1>6, <1>11, <1>12, <1>15 DEF Fewer
<1> QED
  BY <1>1, <1>15, <1>16, <1>17 DEF vs

\* Lookup takes at most keys away.
LEMMA LookedUpFacts ==
  ASSUME NEW U, NEW I, NEW c \in CacheOf(U, I), Anchored(c), Bounded(c), NEW id, NEW now
  PROVE  /\ LookedUp(c, id, now) \in CacheOf(U, I)
         /\ Fewer(LookedUp(c, id, now), c)
         /\ Anchored(LookedUp(c, id, now))
         /\ Bounded(LookedUp(c, id, now))
<1> DEFINE d == LookedUp(c, id, now)
<1>1. \/ d = c
      \/ d = Removed(c, {c.index[id]})
      \/ id \in DOMAIN c.index /\ d = MoveToFront(c, c.index[id])
  BY DEF LookedUp
<1> HIDE DEF d
<1>2. CASE d = c
  BY <1>2 DEF Fewer, d
<1>3. CASE d = Removed(c, {c.index[id]})
  BY <1>3, RemovedFacts, RemovedAnchored, FewerBounded DEF d
<1>4. CASE id \in DOMAIN c.index /\ d = MoveToFront(c, c.index[id])
  <2>1. c.index[id] \in Bubbles
    BY <1>4, CacheFields, MapFacts
  <2>2. /\ d \in CacheOf(U, I) /\ Fewer(d, c) /\ d.index = c.index
        /\ Range(d.lru) = Range(c.lru) \cup {c.index[id]}
    BY <1>4, <2>1, MoveToFrontFacts
  <2>3. Anchored(d)
    BY <2>2 DEF Anchored, Fewer
  <2> QED
    BY <2>2, <2>3, FewerBounded DEF d
<1> QED
  BY <1>1, <1>2, <1>3, <1>4

\* NewBubble sets the expiry and nothing else.
LEMMA NewBubbleFacts ==
  ASSUME NEW U, NEW I, NEW c \in CacheOf(U, I), Anchored(c), Bounded(c),
         NEW b, NEW now \in Nat
  PROVE  /\ NewBubble(c, b, now) \in CacheOf(U, I)
         /\ Anchored(NewBubble(c, b, now))
         /\ Bounded(NewBubble(c, b, now))
         /\ NewBubble(c, b, now).views = c.views
         /\ NewBubble(c, b, now).index = c.index
<1> DEFINE d == NewBubble(c, b, now)
<1>1. now + TTL \in Nat
  BY CacheAssumption
<1>2. d \in CacheOf(U, I) /\ d.views = c.views /\ d.index = c.index /\ d.lru = c.lru
  BY <1>1 DEF CacheOf, NewBubble
<1> HIDE DEF d
<1>3. Anchored(d) /\ Bounded(d)
  BY <1>2 DEF Anchored, Bounded
<1> QED
  BY <1>2, <1>3 DEF d

\* The empty cache is a cache.
LEMMA EmptyCacheFacts ==
  ASSUME NEW U, NEW I
  PROVE  /\ EmptyCache \in CacheOf(U, I)
         /\ Anchored(EmptyCache)
         /\ Bounded(EmptyCache)
         /\ \A b \in Bubbles : DOMAIN EmptyCache.views[b] = {}
         /\ DOMAIN EmptyCache.index = {}
<1>1. /\ Nothing \in [{} -> I] /\ Nothing \in [{} -> Bubbles]
      /\ DOMAIN Nothing = {}
  BY DEF Nothing
<1>2. Nothing \in Map(U, I) /\ Nothing \in Map(I, Bubbles)
  BY <1>1, IsMap
<1>3. EmptyCache \in CacheOf(U, I)
  BY <1>2 DEF EmptyCache, CacheOf
<1>4. DOMAIN EmptyCache.index = {} /\ \A b \in Bubbles : DOMAIN EmptyCache.views[b] = {}
  BY <1>1 DEF EmptyCache
<1> QED
  BY <1>3, <1>4, FS_EmptySet, CacheAssumption DEF Anchored, Bounded

=============================================================================
