----------------------- MODULE DriftComparisonProofs ------------------------
(***************************************************************************)
(* Proofs about DriftComparison: two lists have the same normal form exactly *)
(* if they hold the same values equally often.                              *)
(***************************************************************************)
EXTENDS DriftComparison, FiniteSetTheorems, FunctionTheorems, TLAPS

\* R is a strict total order of S.
TotalOrder(R, S) ==
    /\ \A x \in S : <<x, x>> \notin R
    /\ \A x, y, z \in S : <<x, y>> \in R /\ <<y, z>> \in R => <<x, z>> \in R
    /\ \A x, y \in S : <<x, y>> \in R \/ <<y, x>> \in R \/ x = y

\* The items of a list at some places are elements of S.
Holds(list, places, S) ==
    /\ IsFiniteSet(places) /\ places \subseteq Nat
    /\ \A i \in places : list[i] \in S

\* p arranges places of a list as sort.Slice does.
Arranges(p, list, places, less) ==
    /\ p \in Bijection(1..Cardinality(places), places)
    /\ \A i, j \in 1..Cardinality(places) :
          i < j => <<list[p[j]], list[p[i]]>> \notin less

Arranged(p, list, places) == [i \in 1..Cardinality(places) |-> list[p[i]]]

\* The items of two lists at some of their places are the same but for order.
Rearranged(l1, places1, l2, places2) ==
    \E q \in Bijection(places1, places2) : \A i \in places1 : l2[q[i]] = l1[i]

-----------------------------------------------------------------------------
\* Sorting.

LEMMA BijectionInverse ==
    ASSUME NEW S, NEW T, NEW f \in Bijection(S, T)
    PROVE  /\ Inverse(f, S, T) \in Bijection(T, S)
           /\ \A t \in T : Inverse(f, S, T)[t] \in S /\ f[Inverse(f, S, T)[t]] = t
           /\ \A s \in S : f[s] \in T /\ Inverse(f, S, T)[f[s]] = s
<1> DEFINE g == Inverse(f, S, T)
<1>1. g \in Bijection(T, S) /\ \A s \in S : g[f[s]] = s
  BY Fun_BijInverse
<1>2. f \in [S -> T] /\ \A t \in T : \E s \in S : f[s] = t
  BY Fun_BijectionProperties
<1>3. g \in [T -> S]
  BY <1>1, Fun_BijectionProperties
<1> HIDE DEF g
<1>4. \A t \in T : f[g[t]] = t
  BY <1>1, <1>2
<1> QED BY <1>1, <1>2, <1>3, <1>4 DEF g

\* Places in the order of their items, and of themselves where items are equal,
\* are arranged by how many come before.
LEMMA ArrangementExists ==
    ASSUME NEW S, NEW R, TotalOrder(R, S),
           NEW list, NEW places, Holds(list, places, S)
    PROVE  \E p : Arranges(p, list, places, R)
<1>0. IsFiniteSet(places) /\ places \subseteq Nat /\ \A i \in places : list[i] \in S
  BY DEF Holds
<1> DEFINE n == Cardinality(places)
           Before(i, j) == <<list[i], list[j]>> \in R \/ (list[i] = list[j] /\ i < j)
           Below(j) == {i \in places : Before(i, j)}
           rank == [j \in places |-> Cardinality(Below(j)) + 1]
           p == Inverse(rank, places, 1..n)
<1>1. n \in Nat
  BY <1>0, FS_CardinalityType
<1>2. \A i \in places : ~Before(i, i)
  BY <1>0 DEF TotalOrder
<1>3. \A i, j \in places : i = j \/ Before(i, j) \/ Before(j, i)
  BY <1>0 DEF TotalOrder
<1>4. \A i, j, k \in places : Before(i, j) /\ Before(j, k) => Before(i, k)
  BY <1>0 DEF TotalOrder
<1> HIDE DEF Before
<1>5. ASSUME NEW j \in places
      PROVE  /\ IsFiniteSet(Below(j))
             /\ Cardinality(Below(j)) \in Nat
             /\ Cardinality(Below(j)) + 1 \in 1..n
  <2>1. Below(j) \subseteq places \ {j}
    BY <1>2
  <2>2. IsFiniteSet(places \ {j}) /\ Cardinality(places \ {j}) = n - 1
    BY <1>0, FS_RemoveElement
  <2>3. IsFiniteSet(Below(j)) /\ Cardinality(Below(j)) <= n - 1
    BY <2>1, <2>2, FS_Subset
  <2>4. Cardinality(Below(j)) \in Nat
    BY <2>3, FS_CardinalityType
  <2> HIDE DEF Below, n
  <2> QED BY <1>1, <2>3, <2>4
<1>6. ASSUME NEW i \in places, NEW j \in places, Before(i, j)
      PROVE  rank[i] < rank[j]
  <2>1. Below(i) \cup {i} \subseteq Below(j) /\ i \notin Below(i)
    BY <1>2, <1>4, <1>6
  <2> HIDE DEF Below
  <2>2. Cardinality(Below(i) \cup {i}) = Cardinality(Below(i)) + 1
    BY <1>5, <2>1, FS_AddElement
  <2>3. Cardinality(Below(i) \cup {i}) <= Cardinality(Below(j))
    BY <1>5, <2>1, FS_Subset
  <2> QED BY <1>5, <2>2, <2>3
<1>7. rank \in [places -> 1..n]
  BY <1>5
<1>8. \A i \in places : rank[i] \in Nat
  BY <1>5
<1> HIDE DEF rank, n
<1>9. rank \in Injection(places, 1..n)
  <2>1. ASSUME NEW i \in places, NEW j \in places, rank[i] = rank[j]
        PROVE  i = j
    BY <1>3, <1>6, <1>8, <2>1
  <2> QED BY <1>7, <2>1, Fun_IsInj
<1>10. IsFiniteSet(1..n) /\ Cardinality(1..n) = n
  BY <1>1, FS_Interval
<1>11. rank \in Surjection(places, 1..n)
  BY <1>9, <1>10, FS_Injection DEF n
<1>12. rank \in Bijection(places, 1..n)
  BY <1>9, <1>11, Fun_IsBij
<1>13. /\ p \in Bijection(1..n, places)
       /\ \A i \in 1..n : p[i] \in places /\ rank[p[i]] = i
  <2> DEFINE T == 1..n
  <2>1. rank \in Bijection(places, T)
    BY <1>12
  <2> HIDE DEF T
  <2>2. /\ Inverse(rank, places, T) \in Bijection(T, places)
        /\ \A t \in T : /\ Inverse(rank, places, T)[t] \in places
                        /\ rank[Inverse(rank, places, T)[t]] = t
    BY <2>1, BijectionInverse
  <2> QED BY <2>2 DEF T
<1> HIDE DEF p
<1>14. ASSUME NEW i \in 1..n, NEW j \in 1..n, i < j
       PROVE  <<list[p[j]], list[p[i]]>> \notin R
  <2> SUFFICES ASSUME <<list[p[j]], list[p[i]]>> \in R PROVE FALSE
    OBVIOUS
  <2>1. rank[p[j]] < rank[p[i]]
    BY <1>6, <1>13 DEF Before
  <2> QED BY <1>1, <1>13, <1>14, <2>1
<1> QED BY <1>13, <1>14 DEF Arranges, n

\* Sequences in order that hold the same items: the lesser of two items at the
\* same place would be in its sequence more often than in the other.
LEMMA NoneLess ==
    ASSUME NEW S, NEW R, TotalOrder(R, S), NEW n \in Nat,
           NEW a \in [1..n -> S], NEW b \in [1..n -> S],
           \A i, j \in 1..n : i < j => <<a[j], a[i]>> \notin R,
           \A i, j \in 1..n : i < j => <<b[j], b[i]>> \notin R,
           NEW q \in Bijection(1..n, 1..n), \A i \in 1..n : b[q[i]] = a[i],
           NEW i \in 1..n
    PROVE  <<a[i], b[i]>> \notin R
<1> SUFFICES ASSUME <<a[i], b[i]>> \in R PROVE FALSE
  OBVIOUS
<1> DEFINE UpTo(s) == {j \in 1..n : <<s[j], a[i]>> \in R \/ s[j] = a[i]}
           g == [j \in UpTo(a) |-> q[j]]
<1>1. 1..i \subseteq UpTo(a)
  <2> SUFFICES ASSUME NEW j \in 1..i PROVE j \in UpTo(a)
    OBVIOUS
  <2>1. j \in 1..n /\ (j < i \/ j = i) /\ a[j] \in S /\ a[i] \in S
    OBVIOUS
  <2>2. j < i => <<a[j], a[i]>> \in R \/ a[j] = a[i]
    BY <2>1 DEF TotalOrder
  <2> QED BY <2>1, <2>2
<1>2. UpTo(b) \subseteq 1..(i - 1)
  <2> SUFFICES ASSUME NEW j \in i..n, <<b[j], a[i]>> \in R \/ b[j] = a[i] PROVE FALSE
    OBVIOUS
  <2>1. j \in 1..n /\ (i < j \/ i = j)
    OBVIOUS
  <2>2. a[i] \in S /\ b[i] \in S /\ b[j] \in S
    BY <2>1
  <2>3. <<b[j], b[i]>> \in R
    BY <2>2 DEF TotalOrder
  <2> QED BY <2>1, <2>2, <2>3 DEF TotalOrder
<1>3. q \in [1..n -> 1..n] /\ \A j, k \in 1..n : q[j] = q[k] => j = k
  BY DEF Bijection, Injection, IsInjective
<1>4. g \in Injection(UpTo(a), UpTo(b))
  <2>1. g \in [UpTo(a) -> UpTo(b)]
    BY <1>3
  <2>2. \A j, k \in UpTo(a) : g[j] = g[k] => j = k
    BY <1>3
  <2> HIDE DEF g, UpTo
  <2> QED BY <2>1, <2>2, Fun_IsInj
<1>5. UpTo(a) \subseteq 1..n /\ UpTo(b) \subseteq 1..n
  OBVIOUS
<1> HIDE DEF UpTo, g
<1>6. IsFiniteSet(1..n) /\ IsFiniteSet(1..(i - 1))
      /\ Cardinality(1..i) = i /\ Cardinality(1..(i - 1)) = i - 1
  <2>1. 1 \in Int /\ n \in Int /\ i \in Int /\ i - 1 \in Int
    OBVIOUS
  <2>2. /\ IsFiniteSet(1..n) /\ IsFiniteSet(1..(i - 1))
        /\ Cardinality(1..i) = IF 1 > i THEN 0 ELSE i - 1 + 1
        /\ Cardinality(1..(i - 1)) = IF 1 > i - 1 THEN 0 ELSE (i - 1) - 1 + 1
    BY <2>1, FS_Interval, Zenon
  <2> QED BY <2>2
<1>7. IsFiniteSet(UpTo(a)) /\ IsFiniteSet(UpTo(b))
  BY <1>5, <1>6, FS_Subset
<1>8. i <= Cardinality(UpTo(a)) /\ Cardinality(UpTo(b)) <= i - 1
  BY <1>1, <1>2, <1>6, <1>7, FS_Subset
<1>9. Cardinality(UpTo(a)) <= Cardinality(UpTo(b))
  BY <1>4, <1>7, FS_Injection
<1>10. Cardinality(UpTo(a)) \in Nat /\ Cardinality(UpTo(b)) \in Nat
  BY <1>7, FS_CardinalityType
<1> QED BY <1>8, <1>9, <1>10

LEMMA OneOrder ==
    ASSUME NEW S, NEW R, TotalOrder(R, S), NEW n \in Nat,
           NEW a \in [1..n -> S], NEW b \in [1..n -> S],
           \A i, j \in 1..n : i < j => <<a[j], a[i]>> \notin R,
           \A i, j \in 1..n : i < j => <<b[j], b[i]>> \notin R,
           NEW q \in Bijection(1..n, 1..n), \A i \in 1..n : b[q[i]] = a[i]
    PROVE  a = b
<1> DEFINE r == Inverse(q, 1..n, 1..n)
<1>1. r \in Bijection(1..n, 1..n) /\ \A i \in 1..n : r[i] \in 1..n /\ q[r[i]] = i
  BY BijectionInverse
<1> HIDE DEF r
<1>2. \A i \in 1..n : a[r[i]] = b[i]
  BY <1>1
<1>3. \A i \in 1..n : <<a[i], b[i]>> \notin R
  BY NoneLess
<1>4. \A i \in 1..n : <<b[i], a[i]>> \notin R
  BY <1>1, <1>2, NoneLess
<1>5. \A i \in 1..n : a[i] = b[i]
  BY <1>3, <1>4 DEF TotalOrder
<1> QED BY <1>5

LEMMA InOrderArranged ==
    ASSUME NEW list, NEW places, NEW less, \E p : Arranges(p, list, places, less)
    PROVE  \E p : /\ Arranges(p, list, places, less)
                  /\ InOrder(list, places, less) = Arranged(p, list, places)
<1> DEFINE n == Cardinality(places)
           Sorts(p) == \A i, j \in 1..n : i < j => <<list[p[j]], list[p[i]]>> \notin less
           c == CHOOSE p \in Bijection(1..n, places) : Sorts(p)
<1>1. \E p \in Bijection(1..n, places) : Sorts(p)
  BY DEF Arranges
<1>2. InOrder(list, places, less) = [i \in 1..n |-> list[c[i]]]
  BY DEF InOrder
<1> HIDE DEF Sorts
<1>3. c \in Bijection(1..n, places) /\ Sorts(c)
  BY <1>1
<1> HIDE DEF c
<1> QED BY <1>2, <1>3 DEF Arranges, Arranged, Sorts

\* Two arrangements are equal if and only if one list is the other rearranged.
LEMMA SameArrangement ==
    ASSUME NEW S, NEW R, TotalOrder(R, S),
           NEW l1, NEW P1, Holds(l1, P1, S), NEW l2, NEW P2, Holds(l2, P2, S),
           NEW p1, Arranges(p1, l1, P1, R), NEW p2, Arranges(p2, l2, P2, R)
    PROVE  Arranged(p1, l1, P1) = Arranged(p2, l2, P2) <=> Rearranged(l1, P1, l2, P2)
<1> DEFINE n1 == Cardinality(P1)
           n2 == Cardinality(P2)
           I1 == 1..n1
           I2 == 1..n2
           r1 == Inverse(p1, I1, P1)
           r2 == Inverse(p2, I2, P2)
           a == Arranged(p1, l1, P1)
           b == Arranged(p2, l2, P2)
<1>0. /\ IsFiniteSet(P1) /\ \A i \in P1 : l1[i] \in S
      /\ IsFiniteSet(P2) /\ \A i \in P2 : l2[i] \in S
  BY DEF Holds
<1>1. n1 \in Nat /\ n2 \in Nat
  BY <1>0, FS_CardinalityType
<1>2. p1 \in Bijection(I1, P1) /\ p2 \in Bijection(I2, P2)
  BY DEF Arranges
<1>3. a = [i \in I1 |-> l1[p1[i]]] /\ b = [i \in I2 |-> l2[p2[i]]]
  BY DEF Arranged
<1>4. Cardinality(I1) = n1 /\ Cardinality(I2) = n2
  <2>1. 1 \in Int /\ n1 \in Int /\ n2 \in Int
    BY <1>1
  <2>2. /\ Cardinality(1..n1) = IF 1 > n1 THEN 0 ELSE n1 - 1 + 1
        /\ Cardinality(1..n2) = IF 1 > n2 THEN 0 ELSE n2 - 1 + 1
    BY <2>1, FS_Interval, Zenon
  <2> HIDE DEF n1, n2
  <2> QED BY <1>1, <2>2
<1>5. /\ \A i, j \in I1 : i < j => <<a[j], a[i]>> \notin R
      /\ \A i, j \in I2 : i < j => <<b[j], b[i]>> \notin R
  BY <1>3 DEF Arranges
<1> HIDE DEF I1, I2, a, b
<1>6. /\ r1 \in Bijection(P1, I1)
      /\ \A i \in P1 : r1[i] \in I1 /\ p1[r1[i]] = i
      /\ \A i \in I1 : p1[i] \in P1 /\ r1[p1[i]] = i
  BY <1>2, BijectionInverse
<1>7. /\ r2 \in Bijection(P2, I2)
      /\ \A i \in P2 : r2[i] \in I2 /\ p2[r2[i]] = i
      /\ \A i \in I2 : p2[i] \in P2 /\ r2[p2[i]] = i
  BY <1>2, BijectionInverse
<1> HIDE DEF r1, r2
<1>8. ASSUME a = b PROVE Rearranged(l1, P1, l2, P2)
  <2>1. I1 = I2
    BY <1>3, <1>8
  <2> DEFINE q == [i \in P1 |-> p2[r1[i]]]
  <2>2. q \in Bijection(P1, P2)
    BY <1>2, <1>6, <2>1, Fun_BijTransitive
  <2>3. ASSUME NEW i \in P1 PROVE l2[q[i]] = l1[i]
    <3>1. r1[i] \in I1 /\ p1[r1[i]] = i
      BY <1>6
    <3>2. a[r1[i]] = l1[i] /\ b[r1[i]] = l2[p2[r1[i]]]
      BY <1>3, <2>1, <3>1
    <3> QED BY <1>8, <3>2
  <2> HIDE DEF q
  <2> QED BY <2>2, <2>3 DEF Rearranged
<1>9. ASSUME Rearranged(l1, P1, l2, P2) PROVE a = b
  <2>1. PICK q \in Bijection(P1, P2) : \A i \in P1 : l2[q[i]] = l1[i]
    BY <1>9 DEF Rearranged
  <2>2. n1 = n2 /\ I1 = I2
    <3>1. ExistsBijection(P1, P2)
      BY Fun_ExistsBij
    <3>2. n1 = n2
      BY <1>0, <3>1, FS_Bijection
    <3> QED BY <3>2 DEF I1, I2
  <2> DEFINE h == [i \in I1 |-> q[p1[i]]]
             g == [i \in I1 |-> r2[h[i]]]
  <2>3. h \in Bijection(I1, P2)
    BY <1>2, Fun_BijTransitive
  <2>4. \A i \in I1 : h[i] \in P2 /\ h[i] = q[p1[i]]
    BY <2>3, Fun_BijectionProperties
  <2> HIDE DEF h
  <2>5. g \in Bijection(I1, I2)
    BY <1>7, <2>3, Fun_BijTransitive
  <2>6. ASSUME NEW i \in I1 PROVE g[i] \in I2 /\ b[g[i]] = a[i]
    <3>1. g[i] = r2[h[i]]
      OBVIOUS
    <3>2. r2[h[i]] \in I2 /\ p2[r2[h[i]]] = h[i]
      BY <1>7, <2>4
    <3>3. l2[h[i]] = l1[p1[i]]
      BY <1>6, <2>1, <2>4
    <3> QED BY <1>3, <3>1, <3>2, <3>3
  <2> HIDE DEF g
  <2>7. a \in [1..n1 -> S] /\ b \in [1..n1 -> S]
    BY <1>0, <1>3, <1>6, <1>7, <2>2 DEF I1
  <2>8. /\ \A i, j \in 1..n1 : i < j => <<a[j], a[i]>> \notin R
        /\ \A i, j \in 1..n1 : i < j => <<b[j], b[i]>> \notin R
        /\ g \in Bijection(1..n1, 1..n1)
        /\ \A i \in 1..n1 : b[g[i]] = a[i]
    BY <1>5, <2>2, <2>5, <2>6 DEF I1
  <2> HIDE DEF n1, n2
  <2> QED BY <1>1, <2>7, <2>8, OneOrder
<1> QED BY <1>8, <1>9 DEF a, b

LEMMA SameInOrder ==
    ASSUME NEW S, NEW R, TotalOrder(R, S),
           NEW l1, NEW P1, Holds(l1, P1, S), NEW l2, NEW P2, Holds(l2, P2, S)
    PROVE  InOrder(l1, P1, R) = InOrder(l2, P2, R) <=> Rearranged(l1, P1, l2, P2)
<1>1. PICK p1 : Arranges(p1, l1, P1, R) /\ InOrder(l1, P1, R) = Arranged(p1, l1, P1)
  BY ArrangementExists, InOrderArranged
<1>2. PICK p2 : Arranges(p2, l2, P2, R) /\ InOrder(l2, P2, R) = Arranged(p2, l2, P2)
  BY ArrangementExists, InOrderArranged
<1>3. Arranged(p1, l1, P1) = Arranged(p2, l2, P2) <=> Rearranged(l1, P1, l2, P2)
  BY <1>1, <1>2, SameArrangement
<1> QED BY <1>1, <1>2, <1>3

-----------------------------------------------------------------------------
\* Counting.

Times(list, places) ==
    [v \in {list[i] : i \in places} |-> Cardinality({i \in places : list[i] = v})]

\* Each value is in both lists equally often if and only if one list is the other
\* rearranged.
LEMMA SameTimes ==
    ASSUME NEW l1, NEW P1, IsFiniteSet(P1), NEW l2, NEW P2, IsFiniteSet(P2)
    PROVE  Times(l1, P1) = Times(l2, P2) <=> Rearranged(l1, P1, l2, P2)
<1> DEFINE V1 == {l1[i] : i \in P1}
           V2 == {l2[i] : i \in P2}
           F1(v) == {i \in P1 : l1[i] = v}
           F2(v) == {i \in P2 : l2[i] = v}
<1>1. \A v : IsFiniteSet(F1(v)) /\ IsFiniteSet(F2(v))
  <2> TAKE v
  <2>1. F1(v) \in SUBSET P1 /\ F2(v) \in SUBSET P2
    OBVIOUS
  <2> HIDE DEF F1, F2
  <2> QED BY <2>1, FS_Subset
<1>2. /\ Times(l1, P1) = [v \in V1 |-> Cardinality(F1(v))]
      /\ Times(l2, P2) = [v \in V2 |-> Cardinality(F2(v))]
  BY DEF Times
<1>3. /\ \A i \in P1 : l1[i] \in V1 /\ i \in F1(l1[i])
      /\ \A i \in P2 : l2[i] \in V2 /\ i \in F2(l2[i])
      /\ \A v, i : i \in F1(v) <=> i \in P1 /\ l1[i] = v
      /\ \A v, i : i \in F2(v) <=> i \in P2 /\ l2[i] = v
  OBVIOUS
<1>4. ASSUME Times(l1, P1) = Times(l2, P2) PROVE Rearranged(l1, P1, l2, P2)
  <2>1. V1 = V2
    <3>1. DOMAIN Times(l1, P1) = V1 /\ DOMAIN Times(l2, P2) = V2
      BY <1>2
    <3> QED BY <1>4, <3>1
  <2>2. \A v \in V1 : Cardinality(F1(v)) = Cardinality(F2(v))
    <3> HIDE DEF V1, V2, F1, F2
    <3> TAKE v \in V1
    <3>1. Times(l1, P1)[v] = Cardinality(F1(v)) /\ Times(l2, P2)[v] = Cardinality(F2(v))
      BY <1>2, <2>1
    <3> QED BY <1>4, <3>1
  <2> HIDE DEF V1, V2, F1, F2
  <2>3. \A v \in V1 : Bijection(F1(v), F2(v)) # {}
    BY <1>1, <2>2, FS_SameCardinalityBij, Fun_ExistsBij
  <2> DEFINE f == [v \in V1 |-> CHOOSE h \in Bijection(F1(v), F2(v)) : TRUE]
             q == [i \in P1 |-> f[l1[i]][i]]
  <2>4. \A v \in V1 : f[v] \in Bijection(F1(v), F2(v))
    BY <2>3
  <2> HIDE DEF f
  <2>5. ASSUME NEW v \in V1
        PROVE  /\ \A i \in F1(v) : f[v][i] \in F2(v)
               /\ \A i, j \in F1(v) : f[v][i] = f[v][j] => i = j
               /\ \A k \in F2(v) : \E i \in F1(v) : f[v][i] = k
    <3>1. f[v] \in Bijection(F1(v), F2(v))
      BY <2>4
    <3> QED BY <3>1, Fun_BijectionProperties
  <2>6. \A i \in P1 : q[i] = f[l1[i]][i] /\ q[i] \in P2 /\ l2[q[i]] = l1[i]
    BY <1>3, <2>5
  <2>7. q \in [P1 -> P2]
    BY <2>6
  <2> HIDE DEF q
  <2>8. ASSUME NEW i \in P1, NEW j \in P1, q[i] = q[j] PROVE i = j
    <3>1. l1[i] = l1[j]
      BY <2>6, <2>8
    <3> QED BY <1>3, <2>5, <2>6, <2>8, <3>1
  <2>9. ASSUME NEW k \in P2 PROVE \E i \in P1 : q[i] = k
    <3>1. l2[k] \in V1 /\ k \in F2(l2[k])
      BY <1>3, <2>1
    <3>2. PICK i \in F1(l2[k]) : f[l2[k]][i] = k
      BY <2>5, <3>1
    <3>3. i \in P1 /\ l1[i] = l2[k]
      BY <1>3, <3>2
    <3> QED BY <2>6, <3>2, <3>3
  <2>10. q \in Bijection(P1, P2)
    BY <2>7, <2>8, <2>9, Fun_IsBij
  <2> QED BY <2>6, <2>10 DEF Rearranged
<1>5. ASSUME Rearranged(l1, P1, l2, P2) PROVE Times(l1, P1) = Times(l2, P2)
  <2>1. PICK q \in Bijection(P1, P2) : \A i \in P1 : l2[q[i]] = l1[i]
    BY <1>5 DEF Rearranged
  <2>2. /\ q \in [P1 -> P2]
        /\ \A i, j \in P1 : q[i] = q[j] => i = j
        /\ \A k \in P2 : \E i \in P1 : q[i] = k
    BY Fun_BijectionProperties
  <2>3. V1 = V2
    BY <2>1, <2>2
  <2>4. ASSUME NEW v PROVE Cardinality(F1(v)) = Cardinality(F2(v))
    <3> DEFINE g == [i \in F1(v) |-> q[i]]
    <3>1. g \in [F1(v) -> F2(v)]
      BY <2>1, <2>2
    <3>2. \A i, j \in F1(v) : g[i] = g[j] => i = j
      BY <2>2
    <3>3. \A k \in F2(v) : \E i \in F1(v) : g[i] = k
      BY <2>1, <2>2
    <3> HIDE DEF g, F1, F2
    <3>4. g \in Bijection(F1(v), F2(v))
      BY <3>1, <3>2, <3>3, Fun_IsBij
    <3>5. ExistsBijection(F1(v), F2(v))
      BY <3>4, Fun_ExistsBij
    <3> QED BY <1>1, <3>5, FS_Bijection
  <2> HIDE DEF V1, V2, F1, F2
  <2> QED BY <1>2, <2>3, <2>4
<1> QED BY <1>4, <1>5

-----------------------------------------------------------------------------
\* Lists of a kind.

LEMMA OrdersAreTotal == TotalOrder(Less, Nat) /\ TotalOrder(ItemLess, Compared)
<1>1. TotalOrder(Less, Nat)
  BY DEF TotalOrder, Less
<1>2. \A x, y \in Compared :
        <<x, y>> \in ItemLess <=> x[1] < y[1] \/ (x[1] = y[1] /\ x[2] < y[2])
  BY DEF ItemLess
<1>3. \A x \in Compared : x[1] \in Nat /\ x[2] \in Nat /\ x = <<x[1], x[2]>>
  BY DEF Compared
<1>4. \A x \in Compared : <<x, x>> \notin ItemLess
  BY <1>2, <1>3
<1>5. \A x, y, z \in Compared :
        <<x, y>> \in ItemLess /\ <<y, z>> \in ItemLess => <<x, z>> \in ItemLess
  BY <1>2, <1>3
<1>6. \A x, y \in Compared : <<x, y>> \in ItemLess \/ <<y, x>> \in ItemLess \/ x = y
  <2> TAKE x, y \in Compared
  <2>1. CASE x[1] = y[1] /\ x[2] = y[2]
    BY <1>3, <2>1
  <2>2. CASE ~(x[1] = y[1] /\ x[2] = y[2])
    BY <1>2, <1>3, <2>2
  <2> QED BY <2>1, <2>2
<1> QED BY <1>1, <1>4, <1>5, <1>6 DEF TotalOrder

LEMMA PlacesFinite ==
    ASSUME NEW S, NEW list \in Seq(S), NEW places \in SUBSET DOMAIN list
    PROVE  IsFiniteSet(places) /\ places \subseteq Nat
<1>1. DOMAIN list = 1..Len(list) /\ Len(list) \in Nat /\ Len(list) \in Int /\ 1 \in Int
  OBVIOUS
<1>2. IsFiniteSet(1..Len(list))
  BY <1>1, FS_Interval
<1> QED BY <1>1, <1>2, FS_Subset

LEMMA NumbersHeld ==
    ASSUME NEW list \in Seq(Nat), NEW places \in SUBSET DOMAIN list
    PROVE  Holds(list, places, Nat)
<1>1. \A i \in DOMAIN list : list[i] \in Nat
  OBVIOUS
<1> QED BY <1>1, PlacesFinite DEF Holds

LEMMA ItemsHeld ==
    ASSUME NEW list \in Seq(Nat \X Nat \X Nat)
    PROVE  /\ Holds(Projected(list), DOMAIN list, Compared)
           /\ \A i \in DOMAIN list : Projected(list)[i] = <<list[i][1], list[i][2]>>
           /\ \A i \in DOMAIN list : list[i] \in Nat \X Nat \X Nat
<1>1. \A i \in DOMAIN list : list[i] \in Nat \X Nat \X Nat
  OBVIOUS
<1>2. \A i \in DOMAIN list : Projected(list)[i] = <<list[i][1], list[i][2]>>
  BY DEF Projected
<1>3. \A i \in DOMAIN list : Projected(list)[i] \in Compared
  <2> SUFFICES ASSUME NEW i \in DOMAIN list PROVE <<list[i][1], list[i][2]>> \in Nat \X Nat
    BY <1>2 DEF Compared
  <2>1. list[i] \in Nat \X Nat \X Nat
    BY <1>1
  <2> QED BY <2>1
<1>4. IsFiniteSet(DOMAIN list) /\ DOMAIN list \subseteq Nat
  BY PlacesFinite
<1> QED BY <1>1, <1>2, <1>3, <1>4 DEF Holds

LEMMA SameNumbers ==
    ASSUME NEW a \in Seq(Nat), NEW P1 \in SUBSET DOMAIN a,
           NEW b \in Seq(Nat), NEW P2 \in SUBSET DOMAIN b
    PROVE  InOrder(a, P1, Less) = InOrder(b, P2, Less) <=> Times(a, P1) = Times(b, P2)
<1>1. Holds(a, P1, Nat) /\ Holds(b, P2, Nat)
  BY NumbersHeld
<1>2. InOrder(a, P1, Less) = InOrder(b, P2, Less) <=> Rearranged(a, P1, b, P2)
  BY <1>1, OrdersAreTotal, SameInOrder
<1>3. Times(a, P1) = Times(b, P2) <=> Rearranged(a, P1, b, P2)
  BY <1>1, SameTimes DEF Holds
<1> QED BY <1>2, <1>3

LEMMA SameItems ==
    ASSUME NEW a \in Seq(Nat \X Nat \X Nat), NEW b \in Seq(Nat \X Nat \X Nat)
    PROVE  InOrder(Projected(a), DOMAIN a, ItemLess) = InOrder(Projected(b), DOMAIN b, ItemLess)
           <=> Times(Projected(a), DOMAIN a) = Times(Projected(b), DOMAIN b)
<1> DEFINE pa == Projected(a)
           pb == Projected(b)
           P1 == DOMAIN a
           P2 == DOMAIN b
<1>1. Holds(pa, P1, Compared) /\ Holds(pb, P2, Compared)
  BY ItemsHeld
<1> HIDE DEF pa, pb, P1, P2
<1>2. InOrder(pa, P1, ItemLess) = InOrder(pb, P2, ItemLess) <=> Rearranged(pa, P1, pb, P2)
  BY <1>1, OrdersAreTotal, SameInOrder
<1>3. Times(pa, P1) = Times(pb, P2) <=> Rearranged(pa, P1, pb, P2)
  BY <1>1, SameTimes DEF Holds
<1> QED BY <1>2, <1>3 DEF pa, pb, P1, P2

UniqueKeys(list) == \A i, j \in DOMAIN list : list[i][1] = list[j][1] => i = j

\* Where no key comes twice, the order of the keys decides as the order of the
\* whole items would.
LEMMA ArrangedByKey ==
    ASSUME NEW list \in Seq(Nat \X Nat \X Nat), UniqueKeys(list)
    PROVE  \E p : /\ Arranges(p, Projected(list), DOMAIN list, ItemLess)
                  /\ NormalizedByKey(list) = Arranged(p, Projected(list), DOMAIN list)
<1> DEFINE pl == Projected(list)
           P == DOMAIN list
<1>1. /\ Holds(pl, P, Compared)
      /\ \A i, j \in P : pl[i][1] = pl[j][1] => i = j
  BY ItemsHeld DEF UniqueKeys
<1>2. NormalizedByKey(list) = InOrder(pl, P, KeyLess)
  BY DEF NormalizedByKey
<1> HIDE DEF pl, P
<1>3. \A i \in P : pl[i] \in Compared
  BY <1>1 DEF Holds
<1>4. \A i, j \in P : <<pl[i], pl[j]>> \in KeyLess => <<pl[i], pl[j]>> \in ItemLess
  BY <1>3 DEF KeyLess, ItemLess
<1>5. \A i, j \in P : i # j /\ <<pl[i], pl[j]>> \in ItemLess => <<pl[i], pl[j]>> \in KeyLess
  BY <1>1, <1>3 DEF KeyLess, ItemLess
<1>6. ASSUME NEW p, p \in Bijection(1..Cardinality(P), P)
      PROVE  /\ \A i \in 1..Cardinality(P) : p[i] \in P
             /\ \A i, j \in 1..Cardinality(P) : p[i] = p[j] => i = j
  BY <1>6 DEF Bijection, Injection, IsInjective
<1>7. PICK p0 : Arranges(p0, pl, P, ItemLess)
  BY <1>1, OrdersAreTotal, ArrangementExists
<1>8. Arranges(p0, pl, P, KeyLess)
  BY <1>4, <1>6, <1>7 DEF Arranges
<1>9. PICK p : /\ Arranges(p, pl, P, KeyLess)
               /\ InOrder(pl, P, KeyLess) = Arranged(p, pl, P)
  BY <1>8, InOrderArranged
<1>10. Cardinality(P) \in Nat
  BY <1>1, FS_CardinalityType DEF Holds
<1>11. Arranges(p, pl, P, ItemLess)
  <2>1. p \in Bijection(1..Cardinality(P), P)
    BY <1>9 DEF Arranges
  <2>2. ASSUME NEW i \in 1..Cardinality(P), NEW j \in 1..Cardinality(P), i < j
        PROVE  <<pl[p[j]], pl[p[i]]>> \notin ItemLess
    <3>1. <<pl[p[j]], pl[p[i]]>> \notin KeyLess
      BY <1>9, <2>2 DEF Arranges
    <3>2. p[i] \in P /\ p[j] \in P /\ p[i] # p[j]
      BY <1>6, <1>10, <2>1, <2>2
    <3> QED BY <1>5, <3>1, <3>2
  <2> QED BY <2>1, <2>2 DEF Arranges
<1> QED BY <1>2, <1>9, <1>11 DEF pl, P

LEMMA SameKeyed ==
    ASSUME NEW a \in Seq(Nat \X Nat \X Nat), UniqueKeys(a),
           NEW b \in Seq(Nat \X Nat \X Nat), UniqueKeys(b)
    PROVE  NormalizedByKey(a) = NormalizedByKey(b)
           <=> Times(Projected(a), DOMAIN a) = Times(Projected(b), DOMAIN b)
<1> DEFINE pa == Projected(a)
           pb == Projected(b)
           P1 == DOMAIN a
           P2 == DOMAIN b
<1>1. Holds(pa, P1, Compared) /\ Holds(pb, P2, Compared)
  BY ItemsHeld
<1>2. PICK p1 : Arranges(p1, pa, P1, ItemLess) /\ NormalizedByKey(a) = Arranged(p1, pa, P1)
  BY ArrangedByKey
<1>3. PICK p2 : Arranges(p2, pb, P2, ItemLess) /\ NormalizedByKey(b) = Arranged(p2, pb, P2)
  BY ArrangedByKey
<1> HIDE DEF pa, pb, P1, P2
<1>4. Arranged(p1, pa, P1) = Arranged(p2, pb, P2) <=> Rearranged(pa, P1, pb, P2)
  BY <1>1, <1>2, <1>3, OrdersAreTotal, SameArrangement
<1>5. Times(pa, P1) = Times(pb, P2) <=> Rearranged(pa, P1, pb, P2)
  BY <1>1, SameTimes DEF Holds
<1> QED BY <1>2, <1>3, <1>4, <1>5 DEF pa, pb, P1, P2

\* What is counted of a list.
LEMMA OccurrencesCounted ==
    ASSUME NEW f, NEW list
    PROVE  Occurrences(f, list) =
              CASE f \in NamedRefs -> Times(list, Named(list))
                [] f \in ItemLists -> Times(Projected(list), DOMAIN list)
                [] OTHER -> Times(list, DOMAIN list)
<1>1. CASE f \in NamedRefs
  <2>1. f \notin ItemLists
    BY <1>1 DEF NamedRefs, ItemLists
  <2> QED BY <1>1, <2>1 DEF Occurrences, Times, Named
<1>2. CASE f \in ItemLists
  <2>1. f \notin NamedRefs
    BY <1>2 DEF NamedRefs, ItemLists
  <2>2. \A i \in DOMAIN list : Projected(list)[i] = <<list[i][1], list[i][2]>>
    BY DEF Projected
  <2> QED BY <1>2, <2>1, <2>2 DEF Occurrences, Times
<1>3. CASE f \notin NamedRefs /\ f \notin ItemLists
  BY <1>3 DEF Occurrences, Times
<1> QED BY <1>1, <1>2, <1>3

\* The normal form of a list is that of another if and only if both hold the same
\* values equally often.
LEMMA NormalizedExact ==
    ASSUME NEW f \in Unordered, NEW a \in ListsOf(f), NEW b \in ListsOf(f)
    PROVE  Normalized(f, a) = Normalized(f, b) <=> Occurrences(f, a) = Occurrences(f, b)
<1>1. CASE f \in NamedRefs
  <2>1. /\ a \in Seq(Nat) /\ b \in Seq(Nat)
        /\ f \notin ItemLists \cup {"rules", "webhooks", "limits"}
    BY <1>1 DEF ListsOf, NamedRefs, ItemLists
  <2>2. /\ Normalized(f, a) = InOrder(a, Named(a), Less)
        /\ Normalized(f, b) = InOrder(b, Named(b), Less)
    BY <1>1, <2>1 DEF Normalized, NormalizedNamedRefs
  <2>3. /\ Occurrences(f, a) = Times(a, Named(a))
        /\ Occurrences(f, b) = Times(b, Named(b))
    BY <1>1, <2>1, OccurrencesCounted
  <2>4. Named(a) \in SUBSET DOMAIN a /\ Named(b) \in SUBSET DOMAIN b
    BY DEF Named
  <2> QED BY <2>1, <2>2, <2>3, <2>4, SameNumbers
<1>2. CASE f \in ItemLists
  <2>1. /\ a \in Seq(Nat \X Nat \X Nat) /\ b \in Seq(Nat \X Nat \X Nat)
        /\ f # "rules" => UniqueKeys(a) /\ UniqueKeys(b)
        /\ f \notin NamedRefs
    BY <1>2 DEF ListsOf, UniqueKeys, NamedRefs, ItemLists
  <2>2. /\ Occurrences(f, a) = Times(Projected(a), DOMAIN a)
        /\ Occurrences(f, b) = Times(Projected(b), DOMAIN b)
    BY <1>2, <2>1, OccurrencesCounted
  <2>3. CASE f = "rules"
    <3>1. /\ Normalized(f, a) = InOrder(Projected(a), DOMAIN a, ItemLess)
          /\ Normalized(f, b) = InOrder(Projected(b), DOMAIN b, ItemLess)
      BY <2>1, <2>3 DEF Normalized, NormalizedRules
    <3> QED BY <2>1, <2>2, <3>1, SameItems
  <2>4. CASE f # "rules"
    <3>1. Normalized(f, a) = NormalizedByKey(a) /\ Normalized(f, b) = NormalizedByKey(b)
      BY <1>2, <2>1, <2>4 DEF Normalized, ItemLists
    <3> QED BY <2>1, <2>2, <2>4, <3>1, SameKeyed
  <2> QED BY <2>3, <2>4
<1>3. CASE f \notin NamedRefs /\ f \notin ItemLists
  <2>1. a \in Seq(Nat) /\ b \in Seq(Nat)
    BY <1>3 DEF ListsOf
  <2>2. /\ Normalized(f, a) = InOrder(a, DOMAIN a, Less)
        /\ Normalized(f, b) = InOrder(b, DOMAIN b, Less)
    BY <1>3 DEF Normalized, NormalizedValues, ItemLists
  <2>3. Occurrences(f, a) = Times(a, DOMAIN a) /\ Occurrences(f, b) = Times(b, DOMAIN b)
    BY <1>3, OccurrencesCounted
  <2> QED BY <2>1, <2>2, <2>3, SameNumbers
<1> QED BY <1>1, <1>2, <1>3

-----------------------------------------------------------------------------
\* What is compared.

Fillable == NamedRefs \cup ItemLists

\* The strategy of a kind compares the fields the documents name for it, and of
\* them sorts the lists whose order does not matter.
LEMMA StrategyDocumented ==
    ASSUME NEW k \in DOMAIN FieldsOf
    PROVE  /\ StrategyForKind(k).fields = Documented(k)
           /\ StrategyForKind(k).sorted = Documented(k) \cap Unordered
           /\ StrategyForKind(k).filled = Documented(k) \cap Fillable
<1> USE DEF StrategyForKind, Strategy, Documented, Unordered, Fillable, NamedRefs, ItemLists
<1>1. CASE k \in {"ConfigMap", "Secret"}
  BY <1>1 DEF DataField
<1>2. CASE k = "NetworkPolicy"
  BY <1>2 DEF NetworkPolicySpec
<1>3. CASE k \in {"Role", "ClusterRole"}
  BY <1>3 DEF RulesField
<1>4. CASE k \in {"MutatingWebhookConfiguration", "ValidatingWebhookConfiguration"}
  BY <1>4 DEF WebhooksField
<1>5. CASE k = "ServiceAccount"
  BY <1>5 DEF ServiceAccountFields
<1>6. CASE k = "ResourceQuota"
  BY <1>6 DEF ResourceQuotaFields
<1>7. CASE k = "LimitRange"
  BY <1>7 DEF LimitRangeFields
<1>8. CASE k \notin KindsWithStrategy
  <2>1. FieldsOf[k] \cap Unordered = {}
    BY <1>8, ComparisonAssumption
  <2>2. StrategyForKind(k) = SpecField(k) /\ Documented(k) = FieldsOf[k]
    BY <1>8 DEF KindsWithStrategy
  <2> QED BY <2>1, <2>2 DEF SpecField
<1> QED BY <1>1, <1>2, <1>3, <1>4, <1>5, <1>6, <1>7, <1>8 DEF KindsWithStrategy

LEMMA EmptyList ==
    ASSUME NEW f \in Unordered
    PROVE  /\ <<>> \in ListsOf(f)
           /\ Normalized(f, <<>>) = <<>>
           /\ Occurrences(f, <<>>) = <<>>
<1>1. <<>> \in ListsOf(f)
  BY DEF ListsOf
<1>2. ASSUME NEW list, NEW less PROVE InOrder(list, {}, less) = <<>>
  <2>1. Cardinality({}) = 0
    BY FS_EmptySet
  <2>2. 1..0 = {}
    OBVIOUS
  <2> QED BY <2>1, <2>2 DEF InOrder
<1>3. DOMAIN <<>> = {} /\ Named(<<>>) = {} /\ Projected(<<>>) = <<>>
  BY DEF Named, Projected
<1>4. Normalized(f, <<>>) = <<>>
  BY <1>2, <1>3 DEF Normalized, NormalizedNamedRefs, NormalizedRules, NormalizedByKey,
     NormalizedValues, NamedRefs
<1>5. Occurrences(f, <<>>) = <<>>
  BY <1>3 DEF Occurrences
<1> QED BY <1>1, <1>4, <1>5

\* The extracts of two bodies agree in a field.
SameExtract(k, f, t, o) ==
    LET Has(x) == f \in DOMAIN Extracted(k, x)
    IN  /\ Has(t) <=> Has(o)
        /\ Has(t) => Extracted(k, t)[f] = Extracted(k, o)[f]

LEMMA ExtractedFields ==
    ASSUME NEW k \in DOMAIN FieldsOf, NEW x
    PROVE  /\ DOMAIN Extracted(k, x) = Documented(k) \cap (DOMAIN x \cup Fillable)
           /\ \A f \in DOMAIN Extracted(k, x) :
                 Extracted(k, x)[f] =
                    IF f \notin Unordered THEN x[f]
                    ELSE IF f \in DOMAIN x THEN Normalized(f, x[f]) ELSE <<>>
<1> DEFINE s == StrategyForKind(k)
           D == (DOMAIN x \cap s.fields) \cup s.filled
<1>1. /\ s.fields = Documented(k)
      /\ s.sorted = Documented(k) \cap Unordered
      /\ s.filled = Documented(k) \cap Fillable
  BY StrategyDocumented
<1>2. Extracted(k, x) = [f \in D |->
            IF f \notin s.sorted THEN x[f]
            ELSE IF f \in DOMAIN x THEN Normalized(f, x[f]) ELSE <<>>]
  BY DEF Extracted
<1> HIDE DEF s
<1>3. D = Documented(k) \cap (DOMAIN x \cup Fillable)
  BY <1>1
<1>4. \A f \in D : f \in s.sorted <=> f \in Unordered
  BY <1>1, <1>3
<1> HIDE DEF D
<1> QED BY <1>2, <1>3, <1>4

LEMMA SameFieldExtracted ==
    ASSUME NEW k \in DOMAIN FieldsOf, NEW t, IsBody(k, t), NEW o, IsBody(k, o),
           NEW f \in Documented(k)
    PROVE  SameExtract(k, f, t, o) <=> SameField(f, t, o)
<1> DEFINE et == Extracted(k, t)
           eo == Extracted(k, o)
<1>1. /\ f \in DOMAIN et <=> f \in DOMAIN t \/ f \in Fillable
      /\ f \in DOMAIN eo <=> f \in DOMAIN o \/ f \in Fillable
  <2>1. /\ DOMAIN et = Documented(k) \cap (DOMAIN t \cup Fillable)
        /\ DOMAIN eo = Documented(k) \cap (DOMAIN o \cup Fillable)
    BY ExtractedFields, Zenon
  <2> HIDE DEF et, eo
  <2> QED BY <2>1
<1>2. /\ f \in DOMAIN et => et[f] = IF f \notin Unordered THEN t[f]
                    ELSE IF f \in DOMAIN t THEN Normalized(f, t[f]) ELSE <<>>
      /\ f \in DOMAIN eo => eo[f] = IF f \notin Unordered THEN o[f]
                    ELSE IF f \in DOMAIN o THEN Normalized(f, o[f]) ELSE <<>>
  BY ExtractedFields
<1>3. /\ f \in DOMAIN t \cap Unordered => t[f] \in ListsOf(f)
      /\ f \in DOMAIN o \cap Unordered => o[f] \in ListsOf(f)
  BY DEF IsBody
<1>4. Fillable \subseteq Unordered
  BY DEF Fillable, Unordered
<1>5. SameExtract(k, f, t, o) <=>
        (f \in DOMAIN et <=> f \in DOMAIN eo) /\ (f \in DOMAIN et => et[f] = eo[f])
  BY DEF SameExtract
<1> HIDE DEF et, eo
<1>6. CASE f \in DOMAIN t /\ f \in DOMAIN o
  <2>1. CASE f \in Unordered
    BY <1>1, <1>2, <1>3, <1>5, <1>6, <2>1, NormalizedExact DEF SameField
  <2>2. CASE f \notin Unordered
    BY <1>1, <1>2, <1>5, <1>6, <2>2 DEF SameField
  <2> QED BY <2>1, <2>2
<1>7. CASE f \in DOMAIN t /\ f \notin DOMAIN o
  <2>1. SameField(f, t, o) <=> f \in Fillable /\ Occurrences(f, t[f]) = <<>>
    BY <1>7 DEF SameField, Fillable
  <2>2. f \in Fillable => (Normalized(f, t[f]) = <<>> <=> Occurrences(f, t[f]) = <<>>)
    BY <1>3, <1>4, <1>7, EmptyList, NormalizedExact
  <2> QED BY <1>1, <1>2, <1>4, <1>5, <1>7, <2>1, <2>2
<1>8. CASE f \notin DOMAIN t /\ f \in DOMAIN o
  <2>1. SameField(f, t, o) <=> f \in Fillable /\ Occurrences(f, o[f]) = <<>>
    BY <1>8 DEF SameField, Fillable
  <2>2. f \in Fillable => (Normalized(f, o[f]) = <<>> <=> Occurrences(f, o[f]) = <<>>)
    BY <1>3, <1>4, <1>8, EmptyList, NormalizedExact
  <2> QED BY <1>1, <1>2, <1>4, <1>5, <1>8, <2>1, <2>2
<1>9. CASE f \notin DOMAIN t /\ f \notin DOMAIN o
  BY <1>1, <1>2, <1>4, <1>5, <1>9 DEF SameField
<1> QED BY <1>6, <1>7, <1>8, <1>9

LEMMA ExtractedExact ==
    ASSUME NEW k \in DOMAIN FieldsOf, NEW t, IsBody(k, t), NEW o, IsBody(k, o)
    PROVE  Extracted(k, t) = Extracted(k, o) <=>
              \A f \in Documented(k) : SameField(f, t, o)
<1> DEFINE et == Extracted(k, t)
           eo == Extracted(k, o)
<1>1. et = [f \in DOMAIN et |-> et[f]] /\ eo = [f \in DOMAIN eo |-> eo[f]]
  BY DEF Extracted
<1>2. DOMAIN et \subseteq Documented(k) /\ DOMAIN eo \subseteq Documented(k)
  <2>1. /\ DOMAIN et = Documented(k) \cap (DOMAIN t \cup Fillable)
        /\ DOMAIN eo = Documented(k) \cap (DOMAIN o \cup Fillable)
    BY ExtractedFields, Zenon
  <2> HIDE DEF et, eo
  <2> QED BY <2>1
<1>3. (\A f \in Documented(k) : SameExtract(k, f, t, o)) <=>
        (\A f \in Documented(k) : /\ f \in DOMAIN et <=> f \in DOMAIN eo
                                  /\ f \in DOMAIN et => et[f] = eo[f])
  BY DEF SameExtract
<1> HIDE DEF et, eo
<1>4. et = eo <=>
        (\A f \in Documented(k) : /\ f \in DOMAIN et <=> f \in DOMAIN eo
                                  /\ f \in DOMAIN et => et[f] = eo[f])
  <2>1. ASSUME \A f \in Documented(k) : /\ f \in DOMAIN et <=> f \in DOMAIN eo
                                        /\ f \in DOMAIN et => et[f] = eo[f]
        PROVE  et = eo
    <3>1. DOMAIN et = DOMAIN eo
      BY <1>2, <2>1
    <3>2. \A f \in DOMAIN et : et[f] = eo[f]
      BY <1>2, <2>1
    <3> QED BY <1>1, <3>1, <3>2
  <2> QED BY <2>1
<1> QED BY <1>3, <1>4, SameFieldExtracted DEF et, eo

-----------------------------------------------------------------------------
\* Well-formed objects.

LEMMA StoredIsBody ==
    ASSUME NEW k \in DOMAIN FieldsOf, NEW x, IsBody(k, x)
    PROVE  IsBody(k, Stored(k, x))
<1> DEFINE kept == {f \in DOMAIN x : f \notin OmitEmpty \/ x[f] # <<>>}
           always == IF k = "NetworkPolicy" THEN {"policyTypes"} ELSE {}
           types == IF "egress" \in kept THEN <<Ingress, Egress>> ELSE <<Ingress>>
           y == Stored(k, x)
<1>1. y = [f \in kept \cup always |->
            IF f \notin kept THEN types
            ELSE IF f = "limits" THEN [i \in DOMAIN x[f] |-> Defaulted(x[f][i])]
            ELSE x[f]]
  BY DEF Stored
<1>2. kept \subseteq DOMAIN x /\ DOMAIN x \subseteq FieldsOf[k]
  BY DEF IsBody
<1>3. always \subseteq FieldsOf[k] \cap {"policyTypes"}
  BY ComparisonAssumption
<1>4. types \in Seq(Nat)
  BY DEF Ingress, Egress
<1> HIDE DEF kept, always, types, y
<1>5. DOMAIN y \subseteq FieldsOf[k] /\ y = [f \in DOMAIN y |-> y[f]]
  BY <1>1, <1>2, <1>3
<1>6. ASSUME NEW f \in DOMAIN y \cap Unordered
      PROVE  y[f] \in ListsOf(f)
  <2>1. CASE f \notin kept
    BY <1>1, <1>3, <1>4, <2>1 DEF ListsOf, ItemLists
  <2>2. CASE f \in kept /\ f # "limits"
    BY <1>1, <1>2, <2>2 DEF IsBody
  <2>3. CASE f \in kept /\ f = "limits"
    <3> DEFINE a == x[f]
               b == [i \in DOMAIN a |-> Defaulted(a[i])]
    <3>1. y[f] = b
      BY <1>1, <2>3
    <3>2. a \in Seq(Nat \X Nat \X Nat) /\ UniqueKeys(a)
      BY <1>2, <2>3 DEF IsBody, ListsOf, ItemLists, UniqueKeys
    <3> HIDE DEF a
    <3>3. ASSUME NEW item \in Nat \X Nat \X Nat
          PROVE  Defaulted(item) \in Nat \X Nat \X Nat /\ Defaulted(item)[1] = item[1]
      BY DEF Defaulted, NoDefaults, ServerDefaults
    <3>4. \A i \in DOMAIN a : a[i] \in Nat \X Nat \X Nat
      BY <3>2
    <3>5. b \in Seq(Nat \X Nat \X Nat) /\ DOMAIN b = DOMAIN a
      <4>1. DOMAIN a = 1..Len(a) /\ Len(a) \in Nat
        BY <3>2
      <4>2. b \in [1..Len(a) -> Nat \X Nat \X Nat]
        BY <3>3, <3>4, <4>1
      <4> QED BY <4>1, <4>2
    <3>6. \A i \in DOMAIN b : b[i][1] = a[i][1]
      BY <3>3, <3>4
    <3> HIDE DEF b
    <3>7. UniqueKeys(b)
      BY <3>2, <3>5, <3>6 DEF UniqueKeys
    <3> QED BY <2>3, <3>1, <3>5, <3>7 DEF ListsOf, ItemLists, UniqueKeys
  <2> QED BY <2>1, <2>2, <2>3
<1> QED BY <1>5, <1>6 DEF IsBody, y

LEMMA ComparisonTypeStep == TypeOK /\ [Next]_vars => TypeOK'
<1> SUFFICES ASSUME TypeOK, [Next]_vars PROVE TypeOK'
  OBVIOUS
<1> USE DEF TypeOK
<1>1. CASE ApplyClassResource
  BY <1>1, StoredIsBody DEF ApplyClassResource
<1>2. MaxEdits \in Nat
  BY ComparisonAssumption
<1>3. ASSUME NEW f \in FieldsOf[kind], RemoveField(f)
      PROVE  TypeOK'
  <2> DEFINE x == [g \in DOMAIN object \ {f} |-> object[g]]
  <2>1. IsBody(kind, x)
    BY <1>3 DEF RemoveField, IsBody
  <2> HIDE DEF x
  <2>2. IsBody(kind, Stored(kind, x))
    BY <2>1, StoredIsBody
  <2> QED BY <1>2, <1>3, <2>2 DEF RemoveField, Edit, x
<1>4. ASSUME NEW f \in FieldsOf[kind], NEW v \in ValuesOf[f], SetField(f, v)
      PROVE  TypeOK'
  <2> DEFINE x == WithField(object, f, v)
  <2>1. f \in Unordered => v \in ListsOf(f)
    BY ComparisonAssumption
  <2>2. IsBody(kind, x)
    BY <1>4, <2>1 DEF SetField, WithField, IsBody
  <2> HIDE DEF x
  <2>3. IsBody(kind, Stored(kind, x))
    BY <2>2, StoredIsBody
  <2> QED BY <1>2, <1>4, <2>3 DEF SetField, Edit, x
<1>5. CASE DeleteObject
  BY <1>2, <1>5 DEF DeleteObject, Edit
<1>6. ASSUME NEW x \in Templates, x.kind = kind, Upgrade(x.body)
      PROVE  TypeOK'
  BY <1>2, <1>6, ComparisonAssumption DEF Upgrade, Edit
<1>7. CASE UNCHANGED vars
  BY <1>7 DEF vars
<1> QED BY <1>1, <1>3, <1>4, <1>5, <1>6, <1>7 DEF Next

\* Objects stay well formed, whatever the server fills in.
LEMMA ComparisonTypeCorrect == Spec => []TypeOK
<1>1. Init => TypeOK
  BY ComparisonAssumption DEF Init, TypeOK
<1> QED BY <1>1, ComparisonTypeStep, PTL DEF Spec

\* For lists of any length and any numbers of edits: the watcher reports drift if
\* the object is gone or means something else in a documented field, and else not.
THEOREM DriftExactCorrect == Spec => []DriftExact
<1>1. TypeOK => DriftExact
  <2> SUFFICES ASSUME TypeOK, object # Absent
               PROVE  Extracted(kind, template) = Extracted(kind, object) <=>
                         \A f \in Documented(kind) : SameField(f, template, object)
    BY DEF DriftExact, WatcherSeesDrift
  <2> QED BY ExtractedExact DEF TypeOK
<1> QED BY <1>1, ComparisonTypeCorrect, PTL
=============================================================================
