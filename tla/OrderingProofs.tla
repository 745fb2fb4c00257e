---------------------------- MODULE OrderingProofs ----------------------------
(***************************************************************************)
(* Machine-checked facts about Ordering: sorting by keys that differ lists *)
(* each element of a finite set once.                                      *)
(***************************************************************************)
EXTENDS Ordering, FiniteSetTheorems, FunctionTheorems, SequenceTheorems, WellFoundedInduction, TLAPS

LEMMA TableIs == ASSUME NEW f PROVE Table(f) = f
  BY DEF Table

LEMMA PairsCompare ==
    ASSUME NEW a \in Int, NEW b \in Int, NEW c \in Int, NEW d \in Int
    PROVE  Less(<<a, b>>, <<c, d>>) <=> a < c \/ (a = c /\ b < d)
<1>1. Less(<<a, b>>, <<c, d>>) => a < c \/ (a = c /\ b < d)
  BY DEF Less
<1>2. ASSUME a < c PROVE Less(<<a, b>>, <<c, d>>)
  BY <1>2 DEF Less
<1>3. ASSUME a = c, b < d PROVE Less(<<a, b>>, <<c, d>>)
  BY <1>3 DEF Less
<1> QED BY <1>1, <1>2, <1>3

LEMMA TriplesCompare ==
    ASSUME NEW a \in Int, NEW b \in Int, NEW c \in Int, NEW d \in Int, NEW e \in Int, NEW f \in Int
    PROVE  Less(<<a, b, c>>, <<d, e, f>>) <=> a < d \/ (a = d /\ b < e) \/ (a = d /\ b = e /\ c < f)
<1> DEFINE s == <<a, b, c>>
           t == <<d, e, f>>
<1>1. /\ DOMAIN s = 1..3 /\ DOMAIN t = 1..3 /\ Len(s) = 3 /\ Len(t) = 3
      /\ s[1] = a /\ s[2] = b /\ s[3] = c /\ t[1] = d /\ t[2] = e /\ t[3] = f
  OBVIOUS
<1> HIDE DEF s, t
<1>2. Less(s, t) <=> \E i \in 1..3 : s[i] < t[i] /\ \A j \in 1..i - 1 : s[j] = t[j]
  BY <1>1 DEF Less
<1>3. ASSUME Less(s, t) PROVE a < d \/ (a = d /\ b < e) \/ (a = d /\ b = e /\ c < f)
  <2>1. PICK i \in 1..3 : s[i] < t[i] /\ \A j \in 1..i - 1 : s[j] = t[j]
    BY <1>2, <1>3
  <2>2. CASE i = 1
    BY <1>1, <2>1, <2>2
  <2>3. CASE i = 2
    <3>1. 1 \in 1..i - 1
      BY <2>3
    <3> QED BY <1>1, <2>1, <2>3, <3>1
  <2>4. CASE i = 3
    <3>1. 1 \in 1..i - 1 /\ 2 \in 1..i - 1
      BY <2>4
    <3> QED BY <1>1, <2>1, <2>4, <3>1
  <2> QED BY <2>1, <2>2, <2>3, <2>4
<1>4. ASSUME a < d PROVE Less(s, t)
  BY <1>1, <1>2, <1>4
<1>5. ASSUME a = d, b < e PROVE Less(s, t)
  <2>1. s[2] < t[2] /\ \A j \in 1..2 - 1 : s[j] = t[j]
    BY <1>1, <1>5
  <2> QED BY <1>2, <2>1
<1>6. ASSUME a = d, b = e, c < f PROVE Less(s, t)
  <2>1. s[3] < t[3] /\ \A j \in 1..3 - 1 : s[j] = t[j]
    <3>1. \A j \in 1..3 - 1 : j = 1 \/ j = 2
      OBVIOUS
    <3> QED BY <1>1, <1>6, <3>1
  <2> QED BY <1>2, <2>1
<1>7. Less(<<a, b, c>>, <<d, e, f>>) <=> Less(s, t)
  BY DEF s, t
<1> QED BY <1>3, <1>4, <1>5, <1>6, <1>7

----------------------------------------------------------------------------
(* The place of an element is the number of those before it.               *)
KeysDiffer(S, key) ==
    /\ \A x, y \in S : x # y => Less(key[x], key[y]) \/ Less(key[y], key[x])
    /\ \A x \in S : ~Less(key[x], key[x])
    /\ \A x, y, z \in S : Less(key[x], key[y]) /\ Less(key[y], key[z]) => Less(key[x], key[z])

Below(S, key, x) == {y \in S : Less(key[y], key[x])}
Place(S, key) == [x \in S |-> Cardinality(Below(S, key, x))]
InOrder(S, key) == [i \in 1..Cardinality(S) |-> CHOOSE x \in S : Place(S, key)[x] = i - 1]

LEMMA PairsDiffer ==
    ASSUME NEW S, NEW key, NEW f, NEW g,
           \A x \in S : key[x] = <<f[x], g[x]>> /\ f[x] \in Int /\ g[x] \in Int,
           \A x, y \in S : f[x] = f[y] /\ g[x] = g[y] => x = y
    PROVE  KeysDiffer(S, key)
<1>1. \A x, y \in S : Less(key[x], key[y]) <=> f[x] < f[y] \/ (f[x] = f[y] /\ g[x] < g[y])
  BY PairsCompare
<1>2. \A x, y \in S : x # y => Less(key[x], key[y]) \/ Less(key[y], key[x])
  BY <1>1
<1>3. \A x, y, z \in S : Less(key[x], key[y]) /\ Less(key[y], key[z]) => Less(key[x], key[z])
  BY <1>1
<1>4. \A x \in S : ~Less(key[x], key[x])
  BY <1>1
<1> QED BY <1>2, <1>3, <1>4 DEF KeysDiffer

LEMMA TriplesDiffer ==
    ASSUME NEW S, NEW key, NEW f, NEW g, NEW h,
           \A x \in S : key[x] = <<f[x], g[x], h[x]>> /\ f[x] \in Int /\ g[x] \in Int /\ h[x] \in Int,
           \A x, y \in S : h[x] = h[y] => x = y
    PROVE  KeysDiffer(S, key)
<1>1. \A x, y \in S : Less(key[x], key[y]) <=>
          f[x] < f[y] \/ (f[x] = f[y] /\ g[x] < g[y]) \/ (f[x] = f[y] /\ g[x] = g[y] /\ h[x] < h[y])
  <2> SUFFICES ASSUME NEW x \in S, NEW y \in S
               PROVE  Less(key[x], key[y]) <=>
                          f[x] < f[y] \/ (f[x] = f[y] /\ g[x] < g[y]) \/ (f[x] = f[y] /\ g[x] = g[y] /\ h[x] < h[y])
    OBVIOUS
  <2>1. /\ f[x] \in Int /\ g[x] \in Int /\ h[x] \in Int /\ key[x] = <<f[x], g[x], h[x]>>
        /\ f[y] \in Int /\ g[y] \in Int /\ h[y] \in Int /\ key[y] = <<f[y], g[y], h[y]>>
    OBVIOUS
  <2> QED BY ONLY <2>1, TriplesCompare
<1>2. \A x, y \in S : x # y => Less(key[x], key[y]) \/ Less(key[y], key[x])
  BY <1>1
<1>3. \A x, y, z \in S : Less(key[x], key[y]) /\ Less(key[y], key[z]) => Less(key[x], key[z])
  BY <1>1
<1>4. \A x \in S : ~Less(key[x], key[x])
  BY <1>1
<1> QED BY <1>2, <1>3, <1>4 DEF KeysDiffer

LEMMA PlacesAreTaken ==
    ASSUME NEW S, NEW key, IsFiniteSet(S), KeysDiffer(S, key)
    PROVE  Place(S, key) \in Bijection(S, 0..(Cardinality(S) - 1))
<1> DEFINE n == Cardinality(S)
           B(x) == Below(S, key, x)
<1>1. n \in Nat
  BY FS_CardinalityType
<1>2. \A x \in S : IsFiniteSet(B(x)) /\ Cardinality(B(x)) \in 0..(n - 1)
  <2> SUFFICES ASSUME NEW x \in S PROVE IsFiniteSet(B(x)) /\ Cardinality(B(x)) \in 0..(n - 1)
    OBVIOUS
  <2>1. B(x) \in SUBSET S /\ B(x) # S
    BY DEF Below, KeysDiffer
  <2>2. IsFiniteSet(B(x)) /\ Cardinality(B(x)) <= n /\ (n = Cardinality(B(x)) => S = B(x))
    BY <2>1, FS_Subset
  <2>3. Cardinality(B(x)) \in Nat
    BY <2>2, FS_CardinalityType
  <2> QED BY <1>1, <2>1, <2>2, <2>3
<1>3. \A x, y \in S : Less(key[x], key[y]) => Cardinality(B(x)) < Cardinality(B(y))
  <2> SUFFICES ASSUME NEW x \in S, NEW y \in S, Less(key[x], key[y])
               PROVE  Cardinality(B(x)) < Cardinality(B(y))
    OBVIOUS
  <2>1. B(x) \in SUBSET B(y) /\ x \in B(y) /\ x \notin B(x)
    BY DEF Below, KeysDiffer
  <2>2. Cardinality(B(x)) <= Cardinality(B(y)) /\ (Cardinality(B(y)) = Cardinality(B(x)) => B(y) = B(x))
    BY <1>2, <2>1, FS_Subset
  <2> QED BY <1>2, <2>1, <2>2
<1>4. Place(S, key) \in [S -> 0..(n - 1)]
  BY <1>2 DEF Place
<1>5. \A x, y \in S : Place(S, key)[x] = Place(S, key)[y] => x = y
  <2> SUFFICES ASSUME NEW x \in S, NEW y \in S, x # y PROVE Place(S, key)[x] # Place(S, key)[y]
    OBVIOUS
  <2>1. Less(key[x], key[y]) \/ Less(key[y], key[x])
    BY DEF KeysDiffer
  <2>2. Place(S, key)[x] = Cardinality(B(x)) /\ Place(S, key)[y] = Cardinality(B(y))
    BY DEF Place
  <2>3. Cardinality(B(x)) \in Int /\ Cardinality(B(y)) \in Int
    BY <1>1, <1>2
  <2> QED BY <1>3, <2>1, <2>2, <2>3
<1>6. Place(S, key) \in Injection(S, 0..(n - 1))
  BY <1>4, <1>5 DEF Injection, IsInjective
<1>7. IsFiniteSet(0..(n - 1)) /\ Cardinality(0..(n - 1)) = n
  BY <1>1, FS_Interval
<1>8. Place(S, key) \in Surjection(S, 0..(n - 1))
  BY <1>6, <1>7, FS_Injection
<1> QED BY <1>6, <1>8 DEF Bijection

LEMMA SortedOnce ==
    ASSUME NEW S, NEW key, IsFiniteSet(S), KeysDiffer(S, key)
    PROVE  /\ <<>> \o InOrder(S, key) = InOrder(S, key)
           /\ InOrder(S, key) \in Seq(S) /\ Len(InOrder(S, key)) = Cardinality(S)
           /\ \A x \in S : \E i \in 1..Len(InOrder(S, key)) : InOrder(S, key)[i] = x
           /\ ToSet(InOrder(S, key)) = S
<1> DEFINE n == Cardinality(S)
           s == InOrder(S, key)
           place == Place(S, key)
<1>1. n \in Nat
  BY FS_CardinalityType
<1>2. \A i \in 1..n : \E x \in S : place[x] = i - 1
  BY <1>1, PlacesAreTaken DEF Bijection, Surjection
<1>3. s \in [1..n -> S]
  BY <1>2 DEF InOrder
<1>4. \A x \in S : place[x] \in 0..(n - 1)
  BY PlacesAreTaken DEF Bijection, Injection
<1>5. \A x \in S : s[place[x] + 1] = x
  <2> SUFFICES ASSUME NEW x \in S PROVE s[place[x] + 1] = x
    OBVIOUS
  <2>1. place[x] + 1 \in 1..n /\ (place[x] + 1) - 1 = place[x]
    BY <1>1, <1>4
  <2>2. \A y, z \in S : place[y] = place[z] => y = z
    BY PlacesAreTaken DEF Bijection, Injection, IsInjective
  <2>3. s[place[x] + 1] = CHOOSE y \in S : place[y] = place[x]
    BY <2>1 DEF InOrder
  <2> QED BY <2>2, <2>3
<1> HIDE DEF s
<1>6. s \in Seq(S) /\ Len(s) = n
  BY <1>1, <1>3
<1>7. <<>> \o s = s
  BY <1>6
<1>8. \A x \in S : \E i \in 1..Len(s) : s[i] = x
  BY <1>1, <1>4, <1>5, <1>6
<1>9. ToSet(s) = S
  BY <1>3, <1>6, <1>8 DEF ToSet
<1> QED BY <1>6, <1>7, <1>8, <1>9 DEF s

LEMMA TopIs ==
    ASSUME NEW A, NEW s \in Seq(A), NEW n \in Nat
    PROVE  /\ Top(s, n) \in Seq(A)
           /\ Len(Top(s, n)) = IF n < Len(s) THEN n ELSE Len(s)
           /\ \A i \in 1..Len(Top(s, n)) : i \in 1..Len(s) /\ Top(s, n)[i] = s[i]
           /\ ToSet(Top(s, n)) \subseteq ToSet(s)
<1> DEFINE m == IF n < Len(s) THEN n ELSE Len(s)
<1>1. m \in Nat /\ m <= Len(s) /\ \A i \in 1..m : i \in 1..Len(s) /\ s[i] \in A
  OBVIOUS
<1>2. Top(s, n) = SubSeq(s, 1, m)
  BY DEF Top
<1> HIDE DEF m
<1>3. /\ Top(s, n) \in Seq(A) /\ Len(Top(s, n)) = m
      /\ \A i \in 1..m : Top(s, n)[i] = s[i]
  BY <1>1, <1>2, SubSeqProperties
<1>4. ToSet(Top(s, n)) \subseteq ToSet(s)
  BY <1>1, <1>3 DEF ToSet
<1> QED BY <1>1, <1>3, <1>4 DEF m

(* A finite set of numbers that has one has a greatest.                    *)
LEMMA GreatestIs ==
    ASSUME NEW n \in Nat, NEW S, S \subseteq 0..n, S # {}
    PROVE  \E m \in S : \A k \in S : k <= m
<1> DEFINE down == {i \in Nat : n - i \in S}
           lower == {pair \in Nat \X Nat : pair[1] < pair[2]}
<1>1. down # {} /\ down \subseteq Nat
  <2>1. PICK k \in S : k \in 0..n
    OBVIOUS
  <2>2. n - k \in Nat /\ n - (n - k) = k
    BY <2>1
  <2> QED BY <2>1, <2>2
<1>2. PICK i \in down : \A j \in down : i <= j
  <2>1. IsWellFoundedOn(lower, Nat)
    BY NatLessThanWellFounded DEF OpToRel
  <2>2. \A i, j \in Nat : i <= j \/ <<j, i>> \in lower
    OBVIOUS
  <2> HIDE DEF down, lower
  <2>3. PICK i \in down : \A j \in down : ~(<<j, i>> \in lower)
    BY <1>1, <2>1, WFMin
  <2> QED BY <1>1, <2>2, <2>3
<1>3. n - i \in S /\ \A k \in S : n - k \in down /\ k \in Int
  OBVIOUS
<1>4. \A k \in S : i <= n - k /\ k <= n - i
  BY <1>2, <1>3
<1> QED BY <1>3, <1>4

(* A set of numbers that has one has a least.                              *)
LEMMA LeastIs ==
    ASSUME NEW S, S \subseteq Nat, S # {}
    PROVE  \E x \in S : \A y \in S : x <= y
<1> DEFINE lower == OpToRel(<, Nat)
<1>1. IsWellFoundedOn(lower, Nat)
  BY NatLessThanWellFounded
<1>2. PICK x \in S : \A y \in S : <<y, x>> \notin lower
  BY <1>1, WFMin
<1>3. \A y, z \in Nat : y < z => <<y, z>> \in lower
  BY DEF OpToRel
<1> HIDE DEF lower
<1>4. \A y \in S : ~(y < x)
  BY <1>2, <1>3
<1> QED BY <1>4

(* Different tuples of numbers, of one length, are in order.               *)
LEMMA TuplesDiffer ==
    ASSUME NEW n \in Nat, NEW S, NEW key,
           \A x \in S : key[x] \in [1..n -> Int],
           \A x, y \in S : key[x] = key[y] => x = y
    PROVE  KeysDiffer(S, key)
<1> DEFINE First(s, t, i) == s[i] < t[i] /\ \A j \in 1..i - 1 : s[j] = t[j]
<1>1. ASSUME NEW s \in [1..n -> Int], NEW t \in [1..n -> Int]
      PROVE  Less(s, t) <=> \E i \in 1..n : First(s, t, i)
  <2>1. DOMAIN s = 1..n /\ DOMAIN t = 1..n /\ Len(s) = n /\ Len(t) = n
    BY <1>1
  <2> QED BY <2>1 DEF Less
<1>2. ASSUME NEW s \in [1..n -> Int], NEW t \in [1..n -> Int], s # t
      PROVE  Less(s, t) \/ Less(t, s)
  <2> DEFINE differ == {i \in 1..n : s[i] # t[i]}
  <2>1. differ # {} /\ differ \subseteq Nat
    BY <1>2
  <2>2. PICK i \in differ : \A j \in differ : i <= j
    BY <2>1, LeastIs
  <2>3. i \in 1..n /\ s[i] # t[i] /\ s[i] \in Int /\ t[i] \in Int
    OBVIOUS
  <2>4. \A j \in 1..i - 1 : s[j] = t[j]
    BY <2>2, <2>3
  <2>5. First(s, t, i) \/ First(t, s, i)
    BY <2>3, <2>4
  <2> QED BY <1>1, <2>3, <2>5
<1>3. ASSUME NEW s \in [1..n -> Int] PROVE ~Less(s, s)
  <2>1. \A i \in 1..n : ~First(s, s, i)
    OBVIOUS
  <2> QED BY <1>1, <2>1
<1>4. ASSUME NEW s \in [1..n -> Int], NEW t \in [1..n -> Int], NEW u \in [1..n -> Int], Less(s, t), Less(t, u)
      PROVE  Less(s, u)
  <2>1. PICK i \in 1..n : First(s, t, i)
    BY <1>1, <1>4
  <2>2. PICK k \in 1..n : First(t, u, k)
    BY <1>1, <1>4
  <2>3. CASE i <= k
    <3>1. First(s, u, i)
      BY <2>1, <2>2, <2>3
    <3> QED BY <1>1, <3>1
  <2>4. CASE k < i
    <3>1. First(s, u, k)
      BY <2>1, <2>2, <2>4
    <3> QED BY <1>1, <3>1
  <2> QED BY <2>3, <2>4
<1> QED BY <1>2, <1>3, <1>4 DEF KeysDiffer

(* What Sorted makes of a set and the keys of its elements.                *)
LEMMA SortedByIs ==
    ASSUME NEW S, NEW key, IsFiniteSet(S), KeysDiffer(S, key)
    PROVE  SortedBy(S, Table(key)) = InOrder(S, key)
<1> DEFINE below == [x \in S |-> Cardinality({y \in S : Less(key[y], key[x])})]
           place == Table(below)
<1>0. Table(key) = key
  BY TableIs
<1>1. SortedBy(S, key) = <<>> \o [i \in 1..Cardinality(S) |-> CHOOSE x \in S : place[x] = i - 1]
  BY DEF SortedBy
<1>2. below = Place(S, key)
  BY DEF Place, Below
<1>3. place = Place(S, key)
  BY <1>2, TableIs
<1> HIDE DEF place
<1>4. SortedBy(S, key) = <<>> \o InOrder(S, key)
  BY <1>1, <1>3 DEF InOrder
<1> QED BY <1>0, <1>4, SortedOnce

LEMMA OrderedOnce ==
    ASSUME NEW S, NEW key, IsFiniteSet(S), KeysDiffer(S, key)
    PROVE  \A i, j \in 1..Len(InOrder(S, key)) : InOrder(S, key)[i] = InOrder(S, key)[j] => i = j
<1> DEFINE n == Cardinality(S)
           s == InOrder(S, key)
           place == Place(S, key)
<1>1. n \in Nat /\ Len(s) = n
  BY FS_CardinalityType, SortedOnce
<1>2. \A i \in 1..n : \E x \in S : place[x] = i - 1
  BY <1>1, PlacesAreTaken DEF Bijection, Surjection
<1>3. \A i \in 1..n : place[s[i]] = i - 1
  BY <1>2 DEF InOrder
<1> HIDE DEF s, place
<1>4. \A i, j \in 1..n : s[i] = s[j] => i = j
  BY <1>1, <1>3
<1> QED BY <1>1, <1>4 DEF s

----------------------------------------------------------------------------
(* Sequences of numbers of any length.                                     *)

(* Less by the lengths of the tuples.                                      *)
Ahead(s, m, t, n) ==
    \/ \E i \in 1..m : i <= n /\ s[i] < t[i] /\ \A j \in 1..i - 1 : s[j] = t[j]
    \/ m < n /\ \A j \in 1..m : s[j] = t[j]

LEMMA LessIsAhead ==
    ASSUME NEW s \in Seq(Int), NEW t \in Seq(Int) PROVE Less(s, t) <=> Ahead(s, Len(s), t, Len(t))
<1>1. DOMAIN s = 1..Len(s) /\ DOMAIN t = 1..Len(t) /\ Len(s) \in Nat /\ Len(t) \in Nat
  OBVIOUS
<1>2. \A i \in 1..Len(s) : i \in 1..Len(t) <=> i <= Len(t)
  BY <1>1
<1> QED BY <1>1, <1>2 DEF Less, Ahead

LEMMA AheadTransitive ==
    ASSUME NEW m \in Nat, NEW n \in Nat, NEW l \in Nat, NEW s, NEW t, NEW u,
           \A i \in 1..m : s[i] \in Int, \A i \in 1..n : t[i] \in Int, \A i \in 1..l : u[i] \in Int,
           Ahead(s, m, t, n), Ahead(t, n, u, l)
    PROVE  Ahead(s, m, u, l)
<1>1. ASSUME m < n, \A j \in 1..m : s[j] = t[j], n < l, \A j \in 1..n : t[j] = u[j] PROVE Ahead(s, m, u, l)
  <2>1. m < l /\ \A j \in 1..m : j \in 1..n
    BY <1>1
  <2> QED BY <1>1, <2>1 DEF Ahead
<1>2. ASSUME m < n, \A j \in 1..m : s[j] = t[j],
             NEW k \in 1..n, k <= l, t[k] < u[k], \A j \in 1..k - 1 : t[j] = u[j]
      PROVE  Ahead(s, m, u, l)
  <2>1. CASE k <= m
    <3>1. k \in 1..m /\ \A j \in 1..k - 1 : j \in 1..m
      BY <2>1
    <3>2. s[k] < u[k] /\ \A j \in 1..k - 1 : s[j] = u[j]
      BY <1>2, <3>1
    <3> QED BY <1>2, <3>1, <3>2 DEF Ahead
  <2>2. CASE m < k
    <3>1. m < l /\ \A j \in 1..m : j \in 1..k - 1
      BY <1>2, <2>2
    <3> QED BY <1>2, <3>1 DEF Ahead
  <2> QED BY <2>1, <2>2
<1>3. ASSUME n < l, \A j \in 1..n : t[j] = u[j],
             NEW i \in 1..m, i <= n, s[i] < t[i], \A j \in 1..i - 1 : s[j] = t[j]
      PROVE  Ahead(s, m, u, l)
  <2>1. i \in 1..n /\ i <= l /\ \A j \in 1..i - 1 : j \in 1..n
    BY <1>3
  <2>2. s[i] < u[i] /\ \A j \in 1..i - 1 : s[j] = u[j]
    BY <1>3, <2>1
  <2> QED BY <2>1, <2>2 DEF Ahead
<1>4. ASSUME NEW i \in 1..m, i <= n, s[i] < t[i], \A j \in 1..i - 1 : s[j] = t[j],
             NEW k \in 1..n, k <= l, t[k] < u[k], \A j \in 1..k - 1 : t[j] = u[j]
      PROVE  Ahead(s, m, u, l)
  <2>1. CASE i < k
    <3>1. i <= l /\ i \in 1..k - 1 /\ \A j \in 1..i - 1 : j \in 1..k - 1
      BY <1>4, <2>1
    <3>2. s[i] < u[i] /\ \A j \in 1..i - 1 : s[j] = u[j]
      BY <1>4, <3>1
    <3> QED BY <3>1, <3>2 DEF Ahead
  <2>2. CASE k < i
    <3>1. k \in 1..m /\ k \in 1..i - 1 /\ \A j \in 1..k - 1 : j \in 1..i - 1
      BY <1>4, <2>2
    <3>2. s[k] < u[k] /\ \A j \in 1..k - 1 : s[j] = u[j]
      BY <1>4, <3>1
    <3> QED BY <1>4, <3>1, <3>2 DEF Ahead
  <2>3. CASE i = k
    <3>1. s[i] \in Int /\ t[i] \in Int /\ u[i] \in Int
      <4>1. i \in 1..n /\ i \in 1..l
        BY <1>4, <2>3
      <4> QED BY <4>1
    <3>2. s[i] < u[i] /\ \A j \in 1..i - 1 : s[j] = u[j]
      BY <1>4, <2>3, <3>1
    <3> QED BY <1>4, <2>3, <3>2 DEF Ahead
  <2> QED BY <2>1, <2>2, <2>3
<1> QED BY <1>1, <1>2, <1>3, <1>4 DEF Ahead

LEMMA AheadTotal ==
    ASSUME NEW m \in Nat, NEW n \in Nat, NEW s, NEW t,
           \A i \in 1..m : s[i] \in Int, \A i \in 1..n : t[i] \in Int,
           ~(m = n /\ \A i \in 1..m : s[i] = t[i])
    PROVE  Ahead(s, m, t, n) \/ Ahead(t, n, s, m)
<1> DEFINE differ == {i \in 1..m : i <= n /\ s[i] # t[i]}
<1>1. CASE differ # {}
  <2>0. differ \subseteq Nat
    OBVIOUS
  <2>1. PICK i \in differ : \A j \in differ : i <= j
    <3> HIDE DEF differ
    <3> QED BY <1>1, <2>0, LeastIs
  <2>2. i \in 1..m /\ i \in 1..n /\ i <= n /\ i <= m /\ s[i] # t[i] /\ s[i] \in Int /\ t[i] \in Int
    OBVIOUS
  <2>3. ASSUME NEW j \in 1..i - 1 PROVE s[j] = t[j]
    <3>1. j \in 1..m /\ j <= n /\ ~(i <= j)
      BY <2>2
    <3> QED BY <2>1, <3>1
  <2>4. s[i] < t[i] \/ t[i] < s[i]
    BY <2>2
  <2> QED BY <2>2, <2>3, <2>4 DEF Ahead
<1>2. CASE differ = {}
  <2>1. \A i \in 1..m : i <= n => s[i] = t[i]
    BY <1>2
  <2>2. CASE m < n
    BY <2>1, <2>2 DEF Ahead
  <2>3. CASE n < m
    <3>1. \A i \in 1..n : i \in 1..m
      BY <2>3
    <3> QED BY <2>1, <2>3, <3>1 DEF Ahead
  <2>4. CASE n = m
    BY <2>1, <2>4
  <2> QED BY <2>2, <2>3, <2>4
<1> QED BY <1>1, <1>2

(* Different sequences of numbers are in order.                            *)
LEMMA SequencesDiffer ==
    ASSUME NEW S, NEW key,
           \A x \in S : key[x] \in Seq(Int),
           \A x, y \in S : key[x] = key[y] => x = y
    PROVE  KeysDiffer(S, key)
<1>0. \A s \in Seq(Int) : Len(s) \in Nat /\ \A i \in 1..Len(s) : s[i] \in Int
  OBVIOUS
<1>1. ASSUME NEW x \in S, NEW y \in S, x # y PROVE Less(key[x], key[y]) \/ Less(key[y], key[x])
  <2> DEFINE s == key[x]
             t == key[y]
  <2>1. s \in Seq(Int) /\ t \in Seq(Int) /\ s # t
    BY <1>1
  <2> HIDE DEF s, t
  <2>2. ~(Len(s) = Len(t) /\ \A i \in 1..Len(s) : s[i] = t[i])
    BY <2>1
  <2>3. Ahead(s, Len(s), t, Len(t)) \/ Ahead(t, Len(t), s, Len(s))
    BY <1>0, <2>1, <2>2, AheadTotal
  <2> QED BY <2>1, <2>3, LessIsAhead DEF s, t
<1>2. ASSUME NEW x \in S PROVE ~Less(key[x], key[x])
  <2> DEFINE s == key[x]
  <2>1. s \in Seq(Int)
    OBVIOUS
  <2> HIDE DEF s
  <2>2. ~Ahead(s, Len(s), s, Len(s))
    BY <1>0, <2>1 DEF Ahead
  <2> QED BY <2>1, <2>2, LessIsAhead DEF s
<1>3. ASSUME NEW x \in S, NEW y \in S, NEW z \in S, Less(key[x], key[y]), Less(key[y], key[z])
      PROVE  Less(key[x], key[z])
  <2> DEFINE s == key[x]
             t == key[y]
             u == key[z]
  <2>1. s \in Seq(Int) /\ t \in Seq(Int) /\ u \in Seq(Int) /\ Less(s, t) /\ Less(t, u)
    BY <1>3
  <2> HIDE DEF s, t, u
  <2>2. Ahead(s, Len(s), t, Len(t)) /\ Ahead(t, Len(t), u, Len(u))
    BY <2>1, LessIsAhead
  <2>3. Ahead(s, Len(s), u, Len(u))
    BY <1>0, <2>1, <2>2, AheadTransitive
  <2> QED BY <2>1, <2>3, LessIsAhead DEF s, u
<1> QED BY <1>1, <1>2, <1>3 DEF KeysDiffer

LEMMA AheadConcat ==
    ASSUME NEW n \in Nat, NEW p \in Nat, NEW q \in Nat,
           NEW s, NEW t, NEW a, NEW b, NEW u, NEW v,
           \A i \in 1..n : s[i] \in Int /\ t[i] \in Int /\ u[i] = s[i] /\ v[i] = t[i],
           \A i \in 1..p : u[n + i] = a[i],
           \A i \in 1..q : v[n + i] = b[i]
    PROVE  Ahead(u, n + p, v, n + q) <=> Ahead(s, n, t, n) \/ ((\A i \in 1..n : s[i] = t[i]) /\ Ahead(a, p, b, q))
<1>1. ASSUME Ahead(s, n, t, n) PROVE Ahead(u, n + p, v, n + q)
  <2>1. PICK i \in 1..n : s[i] < t[i] /\ \A j \in 1..i - 1 : s[j] = t[j]
    BY <1>1 DEF Ahead
  <2>2. i \in 1..n + p /\ i <= n + q /\ u[i] < v[i]
    BY <2>1
  <2>3. \A j \in 1..i - 1 : j \in 1..n
    OBVIOUS
  <2>4. \A j \in 1..i - 1 : u[j] = v[j]
    BY <2>1, <2>3
  <2> QED BY <2>2, <2>4 DEF Ahead
<1>2. ASSUME \A i \in 1..n : s[i] = t[i], Ahead(a, p, b, q) PROVE Ahead(u, n + p, v, n + q)
  <2>1. ASSUME NEW i \in 1..p, i <= q, a[i] < b[i], \A j \in 1..i - 1 : a[j] = b[j] PROVE Ahead(u, n + p, v, n + q)
    <3>1. i \in 1..q /\ n + i \in 1..n + p /\ n + i <= n + q
      BY <2>1
    <3>2. u[n + i] = a[i] /\ v[n + i] = b[i]
      BY <3>1
    <3>3. ASSUME NEW j \in 1..(n + i) - 1 PROVE u[j] = v[j]
      <4>1. CASE j <= n
        <5>1. j \in 1..n
          BY <4>1
        <5> QED BY <1>2, <5>1
      <4>2. CASE n < j
        <5>1. j - n \in 1..i - 1 /\ j - n \in 1..p /\ j - n \in 1..q /\ n + (j - n) = j
          BY <2>1, <4>2
        <5>2. u[n + (j - n)] = a[j - n] /\ v[n + (j - n)] = b[j - n] /\ a[j - n] = b[j - n]
          BY <2>1, <5>1
        <5> QED BY <5>1, <5>2
      <4> QED BY <4>1, <4>2
    <3>4. u[n + i] < v[n + i]
      BY <2>1, <3>2
    <3> QED BY <3>1, <3>3, <3>4 DEF Ahead
  <2>2. ASSUME p < q, \A j \in 1..p : a[j] = b[j] PROVE Ahead(u, n + p, v, n + q)
    <3>1. ASSUME NEW j \in 1..n + p PROVE u[j] = v[j]
      <4>1. CASE j <= n
        <5>1. j \in 1..n
          BY <4>1
        <5> QED BY <1>2, <5>1
      <4>2. CASE n < j
        <5>1. j - n \in 1..p /\ j - n \in 1..q /\ n + (j - n) = j
          BY <2>2, <4>2
        <5>2. u[n + (j - n)] = a[j - n] /\ v[n + (j - n)] = b[j - n] /\ a[j - n] = b[j - n]
          BY <2>2, <5>1
        <5> QED BY <5>1, <5>2
      <4> QED BY <4>1, <4>2
    <3>2. n + p < n + q
      BY <2>2
    <3> QED BY <3>1, <3>2 DEF Ahead
  <2> QED BY <1>2, <2>1, <2>2 DEF Ahead
<1>3. ASSUME Ahead(u, n + p, v, n + q), NEW k \in 1..n, s[k] # t[k] PROVE Ahead(s, n, t, n)
  <2> DEFINE differ == {i \in 1..n : s[i] # t[i]}
  <2>1. differ # {} /\ differ \subseteq Nat
    BY <1>3
  <2> HIDE DEF differ
  <2>2. PICK i \in differ : \A j \in differ : i <= j
    BY <2>1, LeastIs
  <2>3. i \in 1..n /\ s[i] # t[i]
    BY DEF differ
  <2>4. ASSUME NEW j \in 1..i - 1 PROVE s[j] = t[j]
    <3>1. j \in 1..n /\ ~(i <= j)
      BY <2>3
    <3> QED BY <2>2, <3>1 DEF differ
  <2>5. s[i] < t[i]
    <3>1. ASSUME NEW l \in 1..n + p, l <= n + q, u[l] < v[l], \A j \in 1..l - 1 : u[j] = v[j] PROVE s[i] < t[i]
      <4>1. ~(i < l)
        <5>1. i < l => i \in 1..l - 1
          BY <2>3
        <5> QED BY <2>3, <3>1, <5>1
      <4>2. ~(l < i)
        <5>1. l < i => l \in 1..i - 1 /\ l \in 1..n
          BY <2>3
        <5>2. l < i => s[l] = t[l] /\ u[l] = s[l] /\ v[l] = t[l] /\ s[l] \in Int
          BY <2>4, <5>1
        <5> QED BY <3>1, <5>2
      <4>3. l = i
        BY <2>3, <4>1, <4>2
      <4> QED BY <2>3, <3>1, <4>3
    <3>2. ~(\A j \in 1..n + p : u[j] = v[j])
      <4>1. i \in 1..n + p
        BY <2>3
      <4> QED BY <2>3, <4>1
    <3> QED BY <1>3, <3>1, <3>2 DEF Ahead
  <2> QED BY <2>3, <2>4, <2>5 DEF Ahead
<1>4. ASSUME Ahead(u, n + p, v, n + q), \A i \in 1..n : s[i] = t[i] PROVE Ahead(a, p, b, q)
  <2>1. ASSUME NEW l \in 1..n + p, l <= n + q, u[l] < v[l], \A j \in 1..l - 1 : u[j] = v[j] PROVE Ahead(a, p, b, q)
    <3>1. n < l
      <4>1. ~(n < l) => l \in 1..n
        OBVIOUS
      <4>2. ~(n < l) => u[l] = v[l] /\ u[l] \in Int
        BY <1>4, <4>1
      <4> QED BY <2>1, <4>2
    <3>2. l - n \in 1..p /\ l - n \in 1..q /\ n + (l - n) = l /\ l - n <= q
      BY <2>1, <3>1
    <3>3. u[n + (l - n)] = a[l - n] /\ v[n + (l - n)] = b[l - n]
      BY <3>2
    <3>4. a[l - n] < b[l - n]
      BY <2>1, <3>2, <3>3
    <3>5. ASSUME NEW j \in 1..(l - n) - 1 PROVE a[j] = b[j]
      <4>1. n + j \in 1..l - 1 /\ j \in 1..p /\ j \in 1..q
        BY <2>1, <3>1
      <4> QED BY <2>1, <4>1
    <3> QED BY <3>2, <3>4, <3>5 DEF Ahead
  <2>2. ASSUME n + p < n + q, \A j \in 1..n + p : u[j] = v[j] PROVE Ahead(a, p, b, q)
    <3>1. p < q
      BY <2>2
    <3>2. ASSUME NEW j \in 1..p PROVE a[j] = b[j]
      <4>1. n + j \in 1..n + p /\ j \in 1..q
        BY <3>1
      <4> QED BY <2>2, <4>1
    <3> QED BY <3>1, <3>2 DEF Ahead
  <2> QED BY <1>4, <2>1, <2>2 DEF Ahead
<1> QED BY <1>1, <1>2, <1>3, <1>4

LEMMA ConcatIs ==
    ASSUME NEW s \in Seq(Int), NEW t \in Seq(Int)
    PROVE  /\ s \o t \in Seq(Int) /\ Len(s \o t) = Len(s) + Len(t)
           /\ \A i \in 1..Len(s) : (s \o t)[i] = s[i]
           /\ \A i \in 1..Len(t) : (s \o t)[Len(s) + i] = t[i]
<1> DEFINE m == Len(s)
           n == Len(t)
           u == s \o t
<1>1. m \in Nat /\ n \in Nat
  OBVIOUS
<1>2. u \in Seq(Int) /\ Len(u) = m + n /\ \A i \in 1..m + n : u[i] = IF i <= m THEN s[i] ELSE t[i - m]
  BY ConcatProperties
<1> HIDE DEF m, n, u
<1>3. \A i \in 1..m : i \in 1..m + n /\ i <= m
  BY <1>1
<1>4. \A i \in 1..n : m + i \in 1..m + n /\ ~(m + i <= m) /\ (m + i) - m = i
  BY <1>1
<1> QED BY <1>2, <1>3, <1>4 DEF m, n, u

(* Tuples of one length decide before what follows them.                   *)
LEMMA LessConcat ==
    ASSUME NEW s \in Seq(Int), NEW t \in Seq(Int), Len(s) = Len(t), NEW a \in Seq(Int), NEW b \in Seq(Int)
    PROVE  Less(s \o a, t \o b) <=> Less(s, t) \/ (s = t /\ Less(a, b))
<1> DEFINE n == Len(s)
           p == Len(a)
           q == Len(b)
           u == s \o a
           v == t \o b
<1>1. n \in Nat /\ p \in Nat /\ q \in Nat
  OBVIOUS
<1>2. \A i \in 1..n : s[i] \in Int /\ t[i] \in Int
  OBVIOUS
<1>3. /\ u \in Seq(Int) /\ v \in Seq(Int) /\ Len(u) = n + p /\ Len(v) = n + q
      /\ \A i \in 1..n + p : u[i] = IF i <= n THEN s[i] ELSE a[i - n]
      /\ \A i \in 1..n + q : v[i] = IF i <= n THEN t[i] ELSE b[i - n]
  <2>1. /\ u \in Seq(Int) /\ Len(u) = n + p
        /\ \A i \in 1..n + p : u[i] = IF i <= n THEN s[i] ELSE a[i - n]
    BY ConcatProperties
  <2>2. /\ v \in Seq(Int) /\ Len(v) = Len(t) + q
        /\ \A i \in 1..Len(t) + q : v[i] = IF i <= Len(t) THEN t[i] ELSE b[i - Len(t)]
    BY ConcatProperties
  <2> QED BY <2>1, <2>2
<1>4. Less(s, t) <=> Ahead(s, n, t, n)
  BY LessIsAhead
<1>5. Less(a, b) <=> Ahead(a, p, b, q)
  BY LessIsAhead
<1>6. s = t <=> \A i \in 1..n : s[i] = t[i]
  <2>1. s = t => \A i \in 1..n : s[i] = t[i]
    OBVIOUS
  <2>2. ASSUME \A i \in 1..n : s[i] = t[i] PROVE s = t
    <3>1. s = [i \in 1..n |-> s[i]] /\ t = [i \in 1..n |-> t[i]]
      OBVIOUS
    <3>2. [i \in 1..n |-> s[i]] = [i \in 1..n |-> t[i]]
      BY <2>2
    <3> QED BY <3>1, <3>2
  <2> QED BY <2>1, <2>2
<1> HIDE DEF u, v
<1>7. Less(u, v) <=> Ahead(u, n + p, v, n + q)
  BY <1>3, LessIsAhead
<1> HIDE DEF n, p, q
<1>8. \A i \in 1..n : u[i] = s[i] /\ v[i] = t[i]
  BY <1>1, <1>3
<1>9. \A i \in 1..p : n + i \in 1..n + p /\ ~(n + i <= n) /\ (n + i) - n = i
  BY <1>1
<1>10. \A i \in 1..q : n + i \in 1..n + q /\ ~(n + i <= n) /\ (n + i) - n = i
  BY <1>1
<1>11. (\A i \in 1..p : u[n + i] = a[i]) /\ (\A i \in 1..q : v[n + i] = b[i])
  BY <1>3, <1>9, <1>10
<1>12. Ahead(u, n + p, v, n + q) <=> Ahead(s, n, t, n) \/ ((\A i \in 1..n : s[i] = t[i]) /\ Ahead(a, p, b, q))
  BY <1>1, <1>2, <1>8, <1>11, AheadConcat
<1> QED BY <1>4, <1>5, <1>6, <1>7, <1>12 DEF u, v

LEMMA ShortTuplesCompare ==
    ASSUME NEW a \in Int, NEW b \in Int, NEW c \in Int
    PROVE  /\ Less(<<a>>, <<b>>) <=> a < b
           /\ Less(<<a>>, <<b, c>>) <=> a < b \/ a = b
           /\ Less(<<a, c>>, <<b>>) <=> a < b
<1> DEFINE s == <<a>>
           t == <<b>>
           u == <<b, c>>
           v == <<a, c>>
<1>1. /\ s \in Seq(Int) /\ t \in Seq(Int) /\ u \in Seq(Int) /\ v \in Seq(Int)
      /\ Len(s) = 1 /\ Len(t) = 1 /\ Len(u) = 2 /\ Len(v) = 2 /\ s[1] = a /\ t[1] = b /\ u[1] = b /\ v[1] = a
  OBVIOUS
<1> HIDE DEF s, t, u, v
<1>2. /\ Less(s, t) <=> Ahead(s, 1, t, 1)
      /\ Less(s, u) <=> Ahead(s, 1, u, 2)
      /\ Less(v, t) <=> Ahead(v, 2, t, 1)
  BY <1>1, LessIsAhead
<1>3. Less(s, t) <=> a < b
  BY <1>1, <1>2 DEF Ahead
<1>4. Less(s, u) <=> a < b \/ a = b
  BY <1>1, <1>2 DEF Ahead
<1>5. Less(v, t) <=> a < b
  BY <1>1, <1>2 DEF Ahead
<1> QED BY <1>3, <1>4, <1>5 DEF s, t, u, v

LEMMA TailsEqual ==
    ASSUME NEW a \in Seq(Int), NEW b \in Seq(Int), NEW s \in Seq(Int), NEW t \in Seq(Int),
           Len(a) = Len(b), a \o s = b \o t
    PROVE  s = t
<1> DEFINE u == a \o s
           v == b \o t
<1>1. Len(u) = Len(a) + Len(s) /\ \A i \in 1..Len(s) : u[Len(a) + i] = s[i]
  BY ConcatIs
<1>2. Len(v) = Len(b) + Len(t) /\ \A i \in 1..Len(t) : v[Len(b) + i] = t[i]
  BY ConcatIs
<1>3. u = v
  OBVIOUS
<1>4. Len(a) \in Nat /\ Len(s) \in Nat /\ Len(t) \in Nat
  OBVIOUS
<1> HIDE DEF u, v
<1>5. Len(s) = Len(t)
  BY <1>1, <1>2, <1>3, <1>4
<1>6. \A i \in 1..Len(s) : s[i] = t[i]
  BY <1>1, <1>2, <1>3, <1>5
<1> QED BY <1>5, <1>6, SeqEqual

----------------------------------------------------------------------------
(* Where the elements of a set stand in its order.                         *)

(* The place of an element in the order, by its key.                       *)
LEMMA PositionsInOrder ==
    ASSUME NEW S, NEW key, IsFiniteSet(S), KeysDiffer(S, key)
    PROVE  /\ \A x \in S : Position(InOrder(S, key), x) = Place(S, key)[x] + 1
           /\ \A x \in S : Position(InOrder(S, key), x) \in 1..Cardinality(S)
           /\ \A x \in S : InOrder(S, key)[Position(InOrder(S, key), x)] = x
           /\ \A x, y \in S : Position(InOrder(S, key), x) < Position(InOrder(S, key), y) <=> Less(key[x], key[y])
<1> DEFINE n == Cardinality(S)
           s == InOrder(S, key)
           place == Place(S, key)
<1>1. n \in Nat
  BY FS_CardinalityType
<1>2. /\ \A x \in S : place[x] \in 0..(n - 1)
      /\ \A x, y \in S : place[x] = place[y] => x = y
      /\ \A i \in 0..(n - 1) : \E x \in S : place[x] = i
  BY PlacesAreTaken DEF Bijection, Injection, Surjection, IsInjective
<1>3. ASSUME NEW x \in S, NEW y \in S, Less(key[x], key[y]) PROVE place[x] < place[y]
  <2>1. /\ Below(S, key, x) \subseteq Below(S, key, y)
        /\ x \in Below(S, key, y) /\ x \notin Below(S, key, x) /\ Below(S, key, y) \subseteq S
    BY <1>3 DEF Below, KeysDiffer
  <2>2. IsFiniteSet(Below(S, key, y))
    BY <2>1, FS_Subset
  <2>3. /\ Cardinality(Below(S, key, x)) <= Cardinality(Below(S, key, y))
        /\ Cardinality(Below(S, key, y)) = Cardinality(Below(S, key, x)) => Below(S, key, y) = Below(S, key, x)
    BY <2>1, <2>2, FS_Subset
  <2>4. place[x] = Cardinality(Below(S, key, x)) /\ place[y] = Cardinality(Below(S, key, y))
    BY DEF Place
  <2>5. place[x] \in Int /\ place[y] \in Int /\ place[x] # place[y] /\ place[x] <= place[y]
    <3>1. place[x] \in 0..(n - 1) /\ place[y] \in 0..(n - 1)
      BY <1>2
    <3> QED BY <1>1, <2>1, <2>3, <2>4, <3>1
  <2> QED BY <2>5
<1>4. ASSUME NEW x \in S, NEW y \in S, place[x] < place[y] PROVE Less(key[x], key[y])
  <2>1. place[x] \in Int /\ place[y] \in Int
    BY <1>1, <1>2
  <2>2. x # y /\ ~(place[y] < place[x])
    BY <1>4, <2>1
  <2> QED BY <1>3, <2>2 DEF KeysDiffer
<1>5. DOMAIN s = 1..n /\ \A i \in 1..n : s[i] \in S /\ place[s[i]] = i - 1
  <2>1. \A i \in 1..n : s[i] = CHOOSE x \in S : place[x] = i - 1
    BY DEF InOrder
  <2>2. \A i \in 1..n : \E x \in S : place[x] = i - 1
    BY <1>1, <1>2
  <2> QED BY <2>1, <2>2 DEF InOrder
<1> HIDE DEF s, place
<1>6. ASSUME NEW x \in S PROVE Position(s, x) = place[x] + 1 /\ place[x] + 1 \in 1..n /\ s[Position(s, x)] = x
  <2>1. place[x] + 1 \in 1..n /\ (place[x] + 1) - 1 = place[x]
    BY <1>1, <1>2
  <2>2. s[place[x] + 1] = x
    BY <1>2, <1>5, <2>1
  <2>3. \A i \in 1..n : s[i] = x => i = place[x] + 1
    BY <1>5, <2>1
  <2>4. Position(s, x) \in DOMAIN s /\ s[Position(s, x)] = x
    BY <1>5, <2>1, <2>2 DEF Position
  <2> QED BY <1>5, <2>1, <2>3, <2>4
<1>7. ASSUME NEW x \in S, NEW y \in S PROVE Position(s, x) < Position(s, y) <=> Less(key[x], key[y])
  <2>1. place[x] \in Int /\ place[y] \in Int
    BY <1>1, <1>2
  <2>2. Position(s, x) < Position(s, y) <=> place[x] < place[y]
    BY <1>6, <2>1
  <2> QED BY <1>3, <1>4, <2>2
<1> QED BY <1>6, <1>7 DEF s, place

(* Two sets whose elements correspond, in corresponding orders.            *)
Corresponding(S, key, T, other, f) ==
    /\ f \in [S -> T]
    /\ \A x, y \in S : f[x] = f[y] => x = y
    /\ \A t \in T : \E x \in S : f[x] = t
    /\ \A x, y \in S : Less(other[f[x]], other[f[y]]) <=> Less(key[x], key[y])

LEMMA SortedAlike ==
    ASSUME NEW S, NEW T, NEW key, NEW other, NEW f, IsFiniteSet(S), KeysDiffer(S, key), Corresponding(S, key, T, other, f)
    PROVE  /\ IsFiniteSet(T) /\ KeysDiffer(T, other) /\ Cardinality(T) = Cardinality(S)
           /\ \A i \in 1..Cardinality(S) : InOrder(T, other)[i] = f[InOrder(S, key)[i]]
<1>0. /\ f \in [S -> T] /\ \A x, y \in S : f[x] = f[y] => x = y
      /\ \A t \in T : \E x \in S : f[x] = t
      /\ \A x, y \in S : Less(other[f[x]], other[f[y]]) <=> Less(key[x], key[y])
  BY DEF Corresponding
<1>1. f \in Bijection(S, T)
  BY <1>0 DEF Bijection, Injection, Surjection, IsInjective
<1>2. IsFiniteSet(T) /\ Cardinality(T) = Cardinality(S)
  BY <1>1, FS_Bijection DEF ExistsBijection
<1>3. KeysDiffer(T, other)
  <2>1. ASSUME NEW a \in T, NEW b \in T, a # b PROVE Less(other[a], other[b]) \/ Less(other[b], other[a])
    <3>1. PICK x \in S : f[x] = a
      BY <1>0
    <3>2. PICK y \in S : f[y] = b
      BY <1>0
    <3>3. x # y
      BY <1>0, <2>1, <3>1, <3>2
    <3> QED BY <1>0, <3>1, <3>2, <3>3 DEF KeysDiffer
  <2>2. ASSUME NEW a \in T PROVE ~Less(other[a], other[a])
    <3>1. PICK x \in S : f[x] = a
      BY <1>0
    <3> QED BY <1>0, <3>1 DEF KeysDiffer
  <2>3. ASSUME NEW a \in T, NEW b \in T, NEW c \in T, Less(other[a], other[b]), Less(other[b], other[c])
        PROVE  Less(other[a], other[c])
    <3>1. PICK x \in S : f[x] = a
      BY <1>0
    <3>2. PICK y \in S : f[y] = b
      BY <1>0
    <3>3. PICK z \in S : f[z] = c
      BY <1>0
    <3>4. Less(key[x], key[y]) /\ Less(key[y], key[z])
      BY <1>0, <2>3, <3>1, <3>2, <3>3
    <3>5. Less(key[x], key[z])
      BY <3>4 DEF KeysDiffer
    <3> QED BY <1>0, <3>1, <3>3, <3>5
  <2> QED BY <2>1, <2>2, <2>3 DEF KeysDiffer
<1>4. ASSUME NEW x \in S PROVE Place(T, other)[f[x]] = Place(S, key)[x]
  <2> DEFINE B == Below(S, key, x)
             C == Below(T, other, f[x])
             g == [y \in B |-> f[y]]
  <2>1. IsFiniteSet(B)
    BY FS_Subset DEF Below
  <2>2. \A y \in B : y \in S /\ g[y] = f[y] /\ f[y] \in C
    BY <1>0 DEF Below
  <2>3. g \in [B -> C]
    BY <1>0, <2>2
  <2>4. \A t \in C : \E y \in B : g[y] = t
    BY <1>0 DEF Below
  <2>5. \A y, z \in B : g[y] = g[z] => y = z
    BY <1>0, <2>2
  <2> HIDE DEF g, B, C
  <2>6. g \in Bijection(B, C)
    BY <2>3, <2>4, <2>5 DEF Bijection, Injection, Surjection, IsInjective
  <2>7. Cardinality(B) = Cardinality(C)
    BY <2>1, <2>6, FS_Bijection DEF ExistsBijection
  <2> QED BY <1>0, <2>7 DEF Place, B, C
<1>5. ASSUME NEW i \in 1..Cardinality(S) PROVE InOrder(T, other)[i] = f[InOrder(S, key)[i]]
  <2> DEFINE x == InOrder(S, key)[i]
             t == InOrder(T, other)[i]
  <2>1. x \in S /\ Place(S, key)[x] = i - 1
    <3>1. x = CHOOSE y \in S : Place(S, key)[y] = i - 1
      BY DEF InOrder
    <3>2. \E y \in S : Place(S, key)[y] = i - 1
      <4>1. i - 1 \in 0..(Cardinality(S) - 1)
        BY FS_CardinalityType
      <4> QED BY <4>1, PlacesAreTaken DEF Bijection, Surjection
    <3> QED BY <3>1, <3>2
  <2>2. t = CHOOSE y \in T : Place(T, other)[y] = i - 1
    BY <1>2 DEF InOrder
  <2>3. f[x] \in T /\ Place(T, other)[f[x]] = i - 1
    BY <1>0, <1>4, <2>1
  <2>4. \A a, b \in T : Place(T, other)[a] = Place(T, other)[b] => a = b
    BY <1>2, <1>3, PlacesAreTaken DEF Bijection, Injection, IsInjective
  <2> QED BY <2>2, <2>3, <2>4
<1> QED BY <1>2, <1>3, <1>5

(* The first n of a set in its order: all of it if there are no more.      *)
LEMMA TopInOrder ==
    ASSUME NEW C, NEW key, IsFiniteSet(C), KeysDiffer(C, key), NEW n \in Nat
    PROVE  LET s == Top(InOrder(C, key), n)
           IN  /\ s \in Seq(C) /\ Len(s) = IF n < Cardinality(C) THEN n ELSE Cardinality(C)
               /\ Cardinality(C) \in Nat
               /\ \A i \in 1..Len(s) : s[i] = InOrder(C, key)[i]
               /\ Cardinality(C) <= n => \A x \in C : \E i \in 1..Len(s) : s[i] = x
<1> DEFINE o == InOrder(C, key)
           s == Top(o, n)
<1>1. o \in Seq(C) /\ Len(o) = Cardinality(C) /\ \A x \in C : \E i \in 1..Len(o) : o[i] = x
  BY SortedOnce
<1>2. Cardinality(C) \in Nat
  BY FS_CardinalityType
<1> HIDE DEF o
<1>3. /\ s \in Seq(C) /\ Len(s) = IF n < Len(o) THEN n ELSE Len(o)
      /\ \A i \in 1..Len(s) : i \in 1..Len(o) /\ s[i] = o[i]
  BY <1>1, TopIs
<1> HIDE DEF s
<1>4. Cardinality(C) <= n => Len(s) = Len(o)
  BY <1>1, <1>2, <1>3
<1>5. Cardinality(C) <= n => \A x \in C : \E i \in 1..Len(s) : s[i] = x
  BY <1>1, <1>3, <1>4
<1> QED BY <1>1, <1>2, <1>3, <1>5 DEF s, o
===============================================================================
