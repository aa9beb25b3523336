------------------------- MODULE LevelUpdatesProofs -------------------------
(***************************************************************************)
(* Proofs about update_level and the three batch strategies, for any       *)
(* prices, quantities and batches, and that the strategies agree.          *)
(***************************************************************************)
EXTENDS StrategyAgreement, TLAPS, FiniteSetTheorems, FunctionTheorems,
        SequenceTheorems, WellFoundedInduction

U == INSTANCE FoldProofs WITH op <- UpdateLevel
V == INSTANCE FoldProofs WITH op <- ApplyEvent

-----------------------------------------------------------------------------
(* Ascending lists.                                                        *)

\* A set of naturals with 0 and every successor of its elements has them all.
LEMMA InductionOnPlaces ==
    ASSUME NEW S \in SUBSET Nat, 0 \in S, \A k \in S : k + 1 \in S
    PROVE  S = Nat
  BY U!NaturalsByInduction

\* A list of numbers is strictly ascending.
Increasing(q) == \A i, j \in DOMAIN q : i < j => q[i] < q[j]

\* How many elements of S are below x.
Rank(S, x) == Cardinality({y \in S : y < x})

\* Ranks are counted from zero, and a greater element has a greater rank.
LEMMA RankProperties ==
    ASSUME NEW S \in SUBSET Int, IsFiniteSet(S)
    PROVE  /\ Cardinality(S) \in Nat
           /\ \A x \in S : Rank(S, x) \in 0 .. Cardinality(S) - 1
           /\ \A x, z \in S : x < z => Rank(S, x) < Rank(S, z)
           /\ \A x, z \in S : Rank(S, x) = Rank(S, z) => x = z
  <1> DEFINE B(x) == {y \in S : y < x}
  <1>0. \A x \in S : x \in Int
    OBVIOUS
  <1>1. Cardinality(S) \in Nat
    BY FS_CardinalityType
  <1>2. \A x \in S : IsFiniteSet(B(x)) /\ Cardinality(B(x)) \in Nat
    BY FS_Subset, FS_CardinalityType
  <1>3. ASSUME NEW x \in S PROVE Rank(S, x) \in 0 .. Cardinality(S) - 1
    <2>1. B(x) \in SUBSET S /\ x \notin B(x)
      OBVIOUS
    <2>2. Cardinality(B(x)) <= Cardinality(S) /\ Cardinality(B(x)) # Cardinality(S)
      <3> HIDE DEF B
      <3> QED
        BY <2>1, FS_Subset
    <2> QED
      BY <1>1, <1>2, <2>2 DEF Rank
  <1>4. ASSUME NEW x \in S, NEW z \in S, x < z PROVE Rank(S, x) < Rank(S, z)
    <2>1. B(x) \in SUBSET B(z) /\ x \in B(z) /\ x \notin B(x)
      <3>1. x \in B(z) /\ ~ (x < x)
        BY <1>0, <1>4
      <3>2. \A y \in S : y < x => y < z
        BY <1>0, <1>4
      <3> QED
        BY <3>1, <3>2
    <2>2. Cardinality(B(x)) <= Cardinality(B(z)) /\ Cardinality(B(x)) # Cardinality(B(z))
      <3>1. IsFiniteSet(B(z))
        BY <1>2
      <3> HIDE DEF B
      <3> QED
        BY <2>1, <3>1, FS_Subset
    <2> QED
      BY <1>2, <2>2 DEF Rank
  <1>5. ASSUME NEW x \in S, NEW z \in S, Rank(S, x) = Rank(S, z) PROVE x = z
    <2>1. ~ (x < z) /\ ~ (z < x)
      <3>1. Rank(S, x) \in Int
        BY <1>3
      <3> QED
        BY <1>4, <1>5, <3>1
    <2> QED
      BY <1>0, <2>1
  <1> QED
    BY <1>1, <1>3, <1>4, <1>5

\* Ascending sorts: its result is ascending and has exactly the elements.
LEMMA AscendingSorts ==
    ASSUME NEW S \in SUBSET Int, IsFiniteSet(S)
    PROVE  /\ Cardinality(S) \in Nat
           /\ Ascending(S) \in [1 .. Cardinality(S) -> S]
           /\ Increasing(Ascending(S))
           /\ \A x \in S : \E k \in 1 .. Cardinality(S) : Ascending(S)[k] = x
  <1> DEFINE n == Cardinality(S)
             f == [x \in S |-> Rank(S, x) + 1]
             q == [k \in 1 .. n |-> CHOOSE x \in S : f[x] = k]
  <1>0. \A x \in S : x \in Int
    OBVIOUS
  <1>1. /\ n \in Nat
        /\ \A x \in S : Rank(S, x) \in 0 .. n - 1
        /\ \A x, z \in S : x < z => Rank(S, x) < Rank(S, z)
        /\ \A x, z \in S : Rank(S, x) = Rank(S, z) => x = z
    BY RankProperties
  <1> HIDE DEF n
  <1>2. IsFiniteSet(1 .. n) /\ Cardinality(1 .. n) = n
    BY <1>1, FS_Interval
  <1>3. f \in Injection(S, 1 .. n)
    <2>1. f \in [S -> 1 .. n]
      BY <1>1
    <2>2. ASSUME NEW x \in S, NEW z \in S, f[x] = f[z] PROVE x = z
      BY <1>1, <2>2
    <2> QED
      BY <2>1, <2>2, Fun_IsInj
  <1>4. f \in Surjection(S, 1 .. n)
    BY <1>2, <1>3, FS_Injection DEF n
  <1>5. \A k \in 1 .. n : \E x \in S : f[x] = k
    BY <1>4 DEF Surjection
  <1>6. \A k \in 1 .. n : q[k] \in S /\ f[q[k]] = k
    BY <1>5
  <1>7. q \in [1 .. n -> S]
    BY <1>6
  <1>8. \A i, j \in DOMAIN q : i < j => q[i] < q[j]
    <2> SUFFICES ASSUME NEW i \in 1 .. n, NEW j \in 1 .. n, i < j, ~ (q[i] < q[j])
                 PROVE  FALSE
      OBVIOUS
    <2>1. /\ q[i] \in S /\ q[j] \in S /\ Rank(S, q[i]) + 1 = i /\ Rank(S, q[j]) + 1 = j
      BY <1>6
    <2> DEFINE x == q[i]
               z == q[j]
               R(y) == Rank(S, y)
    <2>2. x \in S /\ z \in S /\ x \in Int /\ z \in Int /\ ~ (x < z)
      BY <1>0, <2>1
    <2>3. R(x) \in Int /\ R(z) \in Int /\ R(x) < R(z)
      <3>1. R(x) \in Int /\ R(z) \in Int
        <4>1. \A y \in S : Rank(S, y) \in Int
          BY <1>1
        <4> HIDE DEF x, z
        <4> QED
          BY <2>2, <4>1
      <3>2. R(x) + 1 = i /\ R(z) + 1 = j
        BY <2>1
      <3> HIDE DEF x, z, R
      <3> QED
        BY <3>1, <3>2
    <2>4. z < x \/ z = x
      <3> HIDE DEF x, z
      <3> QED
        BY <2>2
    <2>5. z < x => R(z) < R(x)
      BY <1>1, <2>2
    <2> HIDE DEF x, z, R
    <2> QED
      BY <2>3, <2>4, <2>5
  <1> DEFINE a == Ascending(S)
  <1>9. a \in [1 .. n -> S] /\ \A i, j \in DOMAIN a : i < j => a[i] < a[j]
    <2> HIDE DEF q
    <2> QED
      BY <1>7, <1>8 DEF Ascending, n
  <1> HIDE DEF a
  <1>10. \A x \in S : \E k \in 1 .. n : a[k] = x
    <2>1. a \in Injection(1 .. n, S)
      <3>1. ASSUME NEW i \in 1 .. n, NEW j \in 1 .. n, a[i] = a[j] PROVE i = j
        <4>1. a[i] \in Int /\ a[j] \in Int /\ DOMAIN a = 1 .. n
          BY <1>0, <1>9
        <4>2. ~ (a[i] < a[j]) /\ ~ (a[j] < a[i])
          BY <3>1, <4>1
        <4>3. ~ (i < j) /\ ~ (j < i)
          BY <1>9, <4>1, <4>2
        <4> QED
          BY <4>3
      <3> QED
        BY <1>9, <3>1, Fun_IsInj
    <2>2. a \in Surjection(1 .. n, S)
      BY <1>2, <2>1, FS_Injection DEF n
    <2> QED
      BY <2>2 DEF Surjection
  <1> QED
    BY <1>1, <1>9, <1>10 DEF a, n, Increasing

\* In an ascending list of all elements of S, as many elements are below an
\* element as stand before it.
LEMMA PlaceIsRank ==
    ASSUME NEW S \in SUBSET Int, NEW n \in Nat, NEW q \in [1 .. n -> S], Increasing(q),
           \A x \in S : \E k \in 1 .. n : q[k] = x, NEW i \in 1 .. n
    PROVE  Rank(S, q[i]) = i - 1
  <1> DEFINE T == {y \in S : y < q[i]}
             f == [k \in 1 .. i - 1 |-> q[k]]
  <1>1. /\ \A k \in 1 .. n : q[k] \in Int /\ q[k] \in S
        /\ \A k, m \in 1 .. n : k < m => q[k] < q[m]
    BY DEF Increasing
  <1>2. f \in [1 .. i - 1 -> T]
    <2>1. ASSUME NEW k \in 1 .. i - 1 PROVE q[k] \in T
      <3>1. k \in 1 .. n /\ k < i
        OBVIOUS
      <3> QED
        BY <1>1, <3>1
    <2> QED
      BY <2>1
  <1>3. f \in Injection(1 .. i - 1, T)
    <2>1. ASSUME NEW k \in 1 .. i - 1, NEW m \in 1 .. i - 1, f[k] = f[m] PROVE k = m
      <3>1. k \in 1 .. n /\ m \in 1 .. n /\ q[k] = q[m]
        BY <2>1
      <3>2. ~ (q[k] < q[m]) /\ ~ (q[m] < q[k])
        BY <1>1, <3>1
      <3>3. ~ (k < m) /\ ~ (m < k)
        BY <1>1, <3>1, <3>2
      <3> QED
        BY <3>3
    <2> HIDE DEF f, T
    <2> QED
      BY <1>2, <2>1, Fun_IsInj
  <1>4. f \in Surjection(1 .. i - 1, T)
    <2>1. ASSUME NEW x \in T PROVE \E k \in 1 .. i - 1 : f[k] = x
      <3>1. PICK k \in 1 .. n : q[k] = x
        OBVIOUS
      <3>2. q[k] < q[i]
        BY <3>1
      <3>3. k # i /\ ~ (i < k)
        <4>1. q[k] \in Int /\ q[i] \in Int
          BY <1>1
        <4>2. ~ (q[i] < q[k]) /\ q[k] # q[i]
          BY <3>2, <4>1
        <4> QED
          BY <1>1, <4>2
      <3>4. k \in 1 .. i - 1
        BY <3>3
      <3> QED
        BY <3>1, <3>4
    <2> HIDE DEF f, T
    <2> QED
      BY <1>2, <2>1, Fun_IsSurj
  <1>5. IsFiniteSet(1 .. i - 1) /\ Cardinality(1 .. i - 1) = i - 1
    <2>1. i - 1 \in Int /\ i - 1 >= 0
      OBVIOUS
    <2>2. Cardinality(1 .. i - 1) = IF 1 > i - 1 THEN 0 ELSE (i - 1) - 1 + 1
      BY <2>1, FS_Interval
    <2> QED
      BY <2>1, <2>2, FS_Interval
  <1>6. ExistsBijection(1 .. i - 1, T)
    BY <1>3, <1>4 DEF ExistsBijection, Bijection
  <1> HIDE DEF T
  <1>7. Cardinality(T) = i - 1
    BY <1>5, <1>6, FS_Bijection
  <1> QED
    BY <1>7 DEF T, Rank

\* There is only one ascending list of the elements of a set.
LEMMA AscendingIsUnique ==
    ASSUME NEW S \in SUBSET Int, NEW n \in Nat, NEW q \in [1 .. n -> S], Increasing(q),
           \A x \in S : \E k \in 1 .. n : q[k] = x
    PROVE  /\ IsFiniteSet(S)
           /\ Cardinality(S) = n
           /\ q = Ascending(S)
  <1>1. q \in Injection(1 .. n, S)
    <2>1. ASSUME NEW k \in 1 .. n, NEW m \in 1 .. n, q[k] = q[m] PROVE k = m
      <3>1. q[k] \in Int /\ q[m] \in Int /\ DOMAIN q = 1 .. n
        OBVIOUS
      <3>2. ~ (q[k] < q[m]) /\ ~ (q[m] < q[k])
        BY <2>1, <3>1
      <3>3. ~ (k < m) /\ ~ (m < k)
        BY <3>1, <3>2 DEF Increasing
      <3> QED
        BY <3>3
    <2> QED
      BY <2>1, Fun_IsInj
  <1>2. q \in Surjection(1 .. n, S)
    BY Fun_IsSurj
  <1>3. IsFiniteSet(1 .. n) /\ Cardinality(1 .. n) = n
    BY FS_Interval
  <1>4. IsFiniteSet(S) /\ Cardinality(S) = n
    <2>1. ExistsBijection(1 .. n, S)
      BY <1>1, <1>2 DEF ExistsBijection, Bijection
    <2> QED
      BY <1>3, <2>1, FS_Bijection
  <1> DEFINE a == Ascending(S)
  <1>5. a \in [1 .. n -> S] /\ Increasing(a) /\ \A x \in S : \E k \in 1 .. n : a[k] = x
    BY <1>4, AscendingSorts
  <1> HIDE DEF a
  <1>6. \A x, z \in S : Rank(S, x) = Rank(S, z) => x = z
    BY <1>4, RankProperties
  <1>7. ASSUME NEW i \in 1 .. n PROVE a[i] = q[i]
    <2>1. Rank(S, a[i]) = i - 1
      BY <1>5, PlaceIsRank
    <2>2. Rank(S, q[i]) = i - 1
      BY PlaceIsRank
    <2>3. a[i] \in S /\ q[i] \in S
      BY <1>5
    <2> DEFINE x == a[i]
               z == q[i]
    <2>4. x \in S /\ z \in S /\ Rank(S, x) = Rank(S, z)
      BY <2>1, <2>2, <2>3
    <2> HIDE DEF x, z
    <2>5. x = z
      BY <1>6, <2>4
    <2> QED
      BY <2>5 DEF x, z
  <1>8. q = a
    BY <1>5, <1>7
  <1> QED
    BY <1>4, <1>8 DEF a

-----------------------------------------------------------------------------
(* One place of a list.                                                    *)

\* Inserting an element at a place of a list, or at its end.
LEMMA InsertedAt ==
    ASSUME NEW S, NEW q \in Seq(S), NEW k \in 1 .. Len(q) + 1, NEW x \in S
    PROVE  /\ InsertAt(q, k, x) \in Seq(S)
           /\ Len(InsertAt(q, k, x)) = Len(q) + 1
           /\ \A i \in 1 .. Len(q) + 1 :
                 InsertAt(q, k, x)[i] =
                     IF i < k THEN q[i] ELSE IF i = k THEN x ELSE q[i - 1]
  <1> DEFINE front == SubSeq(q, 1, k - 1)
             back == SubSeq(q, k, Len(q))
             head == front \o <<x>>
  <1>0. Len(q) \in Nat /\ k \in Int /\ 1 <= k /\ k <= Len(q) + 1 /\ \A i \in 1 .. Len(q) : q[i] \in S
    OBVIOUS
  <1>1. /\ front \in Seq(S)
        /\ Len(front) = k - 1
        /\ \A i \in 1 .. k - 1 : front[i] = q[i]
    <2>1. \A i \in 1 .. k - 1 : q[i] \in S
      OBVIOUS
    <2>2. k - 1 \in Int /\ Len(front) = IF 1 <= k - 1 THEN k - 1 - 1 + 1 ELSE 0
      BY <2>1, SubSeqProperties
    <2> QED
      BY <2>1, <2>2, SubSeqProperties
  <1>2. /\ back \in Seq(S)
        /\ Len(back) = Len(q) - k + 1
        /\ \A i \in 1 .. Len(q) - k + 1 : back[i] = q[k + i - 1]
    <2>1. \A i \in k .. Len(q) : q[i] \in S
      OBVIOUS
    <2>2. Len(q) \in Int /\ Len(back) = IF k <= Len(q) THEN Len(q) - k + 1 ELSE 0
      BY <2>1, SubSeqProperties
    <2> QED
      BY <2>1, <2>2, SubSeqProperties
  <1>3. InsertAt(q, k, x) = head \o back
    BY DEF InsertAt
  <1> HIDE DEF front, back
  <1>4. /\ head \in Seq(S)
        /\ Len(head) = k
        /\ \A i \in 1 .. k : head[i] = IF i < k THEN q[i] ELSE x
    <2>1. <<x>> \in Seq(S) /\ Len(<<x>>) = 1 /\ <<x>>[1] = x
      OBVIOUS
    <2> DEFINE one == <<x>>
    <2>2. one \in Seq(S) /\ Len(one) = 1 /\ one[1] = x
      BY <2>1
    <2> HIDE DEF one
    <2>3. /\ front \o one \in Seq(S)
          /\ Len(front \o one) = Len(front) + Len(one)
          /\ \A i \in 1 .. Len(front) + Len(one) :
                (front \o one)[i] = IF i <= Len(front) THEN front[i]
                                    ELSE one[i - Len(front)]
      BY <1>1, <2>2, ConcatProperties
    <2>4. head = front \o one
      BY DEF one
    <2> HIDE DEF head
    <2>5. head \in Seq(S) /\ Len(head) = k
      BY <1>0, <1>1, <2>2, <2>3, <2>4
    <2>6. ASSUME NEW i \in 1 .. k PROVE head[i] = IF i < k THEN q[i] ELSE x
      <3>1. head[i] = IF i <= k - 1 THEN front[i] ELSE one[i - (k - 1)]
        BY <1>1, <2>2, <2>3, <2>4
      <3>2. CASE i < k
        BY <1>1, <3>1, <3>2
      <3>3. CASE i = k
        <4>1. ~ (i <= k - 1) /\ i - (k - 1) = 1
          BY <1>0, <3>3
        <4> QED
          BY <2>2, <3>1, <3>3, <4>1
      <3> QED
        BY <3>2, <3>3
    <2> QED
      BY <2>5, <2>6
  <1> HIDE DEF head
  <1>5. /\ head \o back \in Seq(S)
        /\ Len(head \o back) = Len(head) + Len(back)
        /\ \A i \in 1 .. Len(head) + Len(back) :
              (head \o back)[i] = IF i <= Len(head) THEN head[i] ELSE back[i - Len(head)]
    BY <1>2, <1>4, ConcatProperties
  <1>6. ASSUME NEW i \in 1 .. Len(q) + 1
        PROVE  (head \o back)[i] = IF i < k THEN q[i] ELSE IF i = k THEN x ELSE q[i - 1]
    <2>1. (head \o back)[i] = IF i <= k THEN head[i] ELSE back[i - k]
      BY <1>0, <1>2, <1>4, <1>5
    <2>2. CASE i <= k
      BY <1>4, <2>1, <2>2
    <2>3. CASE ~ (i <= k)
      <3>1. i - k \in 1 .. Len(q) - k + 1 /\ k + (i - k) - 1 = i - 1
        BY <1>0, <2>3
      <3>2. back[i - k] = q[k + (i - k) - 1]
        BY <1>2, <3>1
      <3> QED
        BY <1>0, <2>1, <2>3, <3>1, <3>2
    <2> QED
      BY <2>2, <2>3
  <1> QED
    BY <1>0, <1>2, <1>3, <1>4, <1>5, <1>6

\* Removing the element at a place of a list.
LEMMA RemovedAt ==
    ASSUME NEW S, NEW q \in Seq(S), NEW k \in 1 .. Len(q)
    PROVE  /\ RemoveAt(q, k) \in Seq(S)
           /\ Len(RemoveAt(q, k)) = Len(q) - 1
           /\ \A i \in 1 .. Len(q) - 1 :
                 RemoveAt(q, k)[i] = IF i < k THEN q[i] ELSE q[i + 1]
  <1> DEFINE front == SubSeq(q, 1, k - 1)
             back == SubSeq(q, k + 1, Len(q))
  <1>0. Len(q) \in Nat /\ k \in Int /\ 1 <= k /\ k <= Len(q)
    OBVIOUS
  <1>1. /\ front \in Seq(S)
        /\ Len(front) = k - 1
        /\ \A i \in 1 .. k - 1 : front[i] = q[i]
    <2>1. \A i \in 1 .. k - 1 : q[i] \in S
      OBVIOUS
    <2>2. k - 1 \in Int /\ Len(front) = IF 1 <= k - 1 THEN k - 1 - 1 + 1 ELSE 0
      BY <2>1, SubSeqProperties
    <2> QED
      BY <2>1, <2>2, SubSeqProperties
  <1>2. /\ back \in Seq(S)
        /\ Len(back) = Len(q) - k
        /\ \A i \in 1 .. Len(q) - k : back[i] = q[k + i]
    <2>1. \A i \in k + 1 .. Len(q) : q[i] \in S
      OBVIOUS
    <2> QED
      BY <2>1, SubSeqProperties
  <1>3. RemoveAt(q, k) = front \o back
    BY DEF RemoveAt
  <1> HIDE DEF front, back
  <1>4. /\ front \o back \in Seq(S)
        /\ Len(front \o back) = Len(front) + Len(back)
        /\ \A i \in 1 .. Len(front) + Len(back) :
              (front \o back)[i] = IF i <= Len(front) THEN front[i]
                                   ELSE back[i - Len(front)]
    BY <1>1, <1>2, ConcatProperties
  <1>5. ASSUME NEW i \in 1 .. Len(q) - 1
        PROVE  (front \o back)[i] = IF i < k THEN q[i] ELSE q[i + 1]
    <2>1. (front \o back)[i] = IF i <= k - 1 THEN front[i] ELSE back[i - (k - 1)]
      BY <1>0, <1>1, <1>2, <1>4
    <2>2. CASE i < k
      BY <1>1, <2>1, <2>2
    <2>3. CASE ~ (i < k)
      <3>1. i - (k - 1) \in 1 .. Len(q) - k /\ k + (i - (k - 1)) = i + 1
        BY <1>0, <2>3
      <3>2. back[i - (k - 1)] = q[k + (i - (k - 1))]
        BY <1>2, <3>1
      <3> QED
        BY <1>0, <2>1, <2>3, <3>1, <3>2
    <2> QED
      BY <2>2, <2>3
  <1> QED
    BY <1>0, <1>1, <1>2, <1>3, <1>4, <1>5

-----------------------------------------------------------------------------
(* One level event.                                                        *)

\* The sides of a snapshot: levels with ascending prices of P, and with sizes
\* of Z and order counts of C.
Ladders(P, Z, C) ==
    {l \in Seq([price : P, size : Z, count : C]) :
        \A i, j \in 1 .. Len(l) : i < j => l[i].price < l[j].price}

\* The sizes a side shows at a price: one at most, if its prices ascend.
SizesAt(l, p) == {l[i].size : i \in {k \in 1 .. Len(l) : l[k].price = p}}

\* What an event leaves at its price.
Leaves(e) == IF e.quantity = 0 THEN {} ELSE {SizeShown(e.quantity)}

\* An event that can be shown.
Showable(e, P, Z, C) ==
    e.price \in P /\ SizeShown(e.quantity) \in Z /\ CountShown(e) \in C

\* What a list must be to be the side of a snapshot.
LEMMA LadderIsAscending ==
    ASSUME NEW P \in SUBSET Int, NEW Z, NEW C, NEW l \in Ladders(P, Z, C)
    PROVE  /\ l \in Seq([price : P, size : Z, count : C])
           /\ Len(l) \in Nat
           /\ DOMAIN l = 1 .. Len(l)
           /\ \A i \in 1 .. Len(l) :
                 /\ l[i] \in [price : P, size : Z, count : C]
                 /\ l[i].price \in P /\ l[i].price \in Int
                 /\ l[i].size \in Z
                 /\ l[i].count \in C
           /\ \A i, j \in 1 .. Len(l) : i < j => l[i].price < l[j].price
           /\ \A i, j \in 1 .. Len(l) : l[i].price = l[j].price => i = j
  <1>1. /\ l \in Seq([price : P, size : Z, count : C])
        /\ \A i, j \in 1 .. Len(l) : i < j => l[i].price < l[j].price
    BY DEF Ladders
  <1>2. Len(l) \in Nat /\ DOMAIN l = 1 .. Len(l)
    BY <1>1
  <1>3. \A i \in 1 .. Len(l) : l[i] \in [price : P, size : Z, count : C]
    BY <1>1, ElementOfSeq
  <1>4. ASSUME NEW i \in 1 .. Len(l)
        PROVE  l[i].price \in P /\ l[i].price \in Int /\ l[i].size \in Z /\ l[i].count \in C
    <2>1. l[i] \in [price : P, size : Z, count : C]
      BY <1>3
    <2>2. l[i].price \in P /\ l[i].size \in Z /\ l[i].count \in C
      BY <2>1
    <2> QED
      BY <2>2
  <1>5. ASSUME NEW i \in 1 .. Len(l), NEW j \in 1 .. Len(l), l[i].price = l[j].price
        PROVE  i = j
    <2>1. l[i].price \in Int
      BY <1>4
    <2>2. ~ (i < j) /\ ~ (j < i)
      BY <1>1, <1>5, <2>1
    <2> QED
      BY <2>2
  <1> QED
    BY <1>1, <1>2, <1>3, <1>4, <1>5

\* The search finds the first level whose price is not below.
LEMMA LowerBoundFinds ==
    ASSUME NEW P \in SUBSET Int, NEW Z, NEW C, NEW l \in Ladders(P, Z, C), NEW p \in Int
    PROVE  /\ LowerBound(l, p) \in 1 .. Len(l) + 1
           /\ \A i \in 1 .. Len(l) : i < LowerBound(l, p) <=> l[i].price < p
  <1> DEFINE n == Len(l)
             B == {i \in DOMAIN l : l[i].price < p}
  <1>1. /\ n \in Nat
        /\ DOMAIN l = 1 .. n
        /\ \A i \in 1 .. n : l[i].price \in Int
        /\ \A i, j \in 1 .. n : i < j => l[i].price < l[j].price
    BY LadderIsAscending
  <1>2. B \subseteq 1 .. n /\ \A i \in 1 .. n : i \in B <=> l[i].price < p
    BY <1>1
  <1>3. ASSUME NEW i \in 1 .. n, NEW j \in B, i < j PROVE i \in B
    <2>1. l[i].price \in Int /\ l[j].price \in Int /\ l[i].price < l[j].price /\ l[j].price < p
      BY <1>1, <1>2, <1>3
    <2> QED
      BY <1>2, <2>1
  <1>4. LowerBound(l, p) = 1 + Cardinality(B)
    BY DEF LowerBound
  <1> HIDE DEF B, n
  <1>5. \E k \in 0 .. n : B = 1 .. k
    <2> DEFINE S == {m \in Nat : \E k \in 0 .. m : B \cap 1 .. m = 1 .. k}
    <2>1. 0 \in S
      <3>1. B \cap 1 .. 0 = 1 .. 0 /\ 0 \in 0 .. 0
        OBVIOUS
      <3> QED
        BY <3>1
    <2>2. ASSUME NEW m \in S PROVE m + 1 \in S
      <3>1. PICK k \in 0 .. m : B \cap 1 .. m = 1 .. k
        OBVIOUS
      <3>2. CASE m + 1 \in B
        <4>1. m + 1 \in 1 .. n
          BY <1>2, <3>2
        <4>2. \A i \in 1 .. m : i \in B
          <5> SUFFICES ASSUME NEW i \in 1 .. m PROVE i \in B
            OBVIOUS
          <5>1. i \in 1 .. n /\ i < m + 1
            BY <1>1, <4>1
          <5> QED
            BY <1>3, <3>2, <5>1
        <4>3. B \cap 1 .. m + 1 = 1 .. m + 1
          <5>1. \A i \in 1 .. m + 1 : i \in 1 .. m \/ i = m + 1
            OBVIOUS
          <5> QED
            BY <3>2, <4>2, <5>1
        <4> QED
          BY <4>3
      <3>3. CASE m + 1 \notin B
        <4>1. B \cap 1 .. m + 1 = B \cap 1 .. m
          <5>1. \A i \in 1 .. m + 1 : i \in 1 .. m \/ i = m + 1
            OBVIOUS
          <5> QED
            BY <3>3, <5>1
        <4> QED
          BY <3>1, <4>1
      <3> QED
        BY <3>2, <3>3
    <2>3. S = Nat
      <3> HIDE DEF S
      <3>1. S \in SUBSET Nat
        BY DEF S
      <3> QED
        BY <2>1, <2>2, <3>1, InductionOnPlaces
    <2>4. n \in S
      BY <1>1, <2>3
    <2>5. B \cap 1 .. n = B
      BY <1>2
    <2> QED
      BY <2>4, <2>5
  <1>6. PICK k \in 0 .. n : B = 1 .. k
    BY <1>5
  <1>7. Cardinality(B) = k
    <2>1. Cardinality(1 .. k) = k
      BY <1>1, FS_Interval
    <2> QED
      BY <1>6, <2>1
  <1>8. LowerBound(l, p) = k + 1
    BY <1>1, <1>4, <1>7
  <1>9. \A i \in 1 .. n : i < k + 1 <=> l[i].price < p
    BY <1>1, <1>2, <1>6
  <1> QED
    BY <1>1, <1>8, <1>9 DEF n

\* update_level keeps the prices ascending, and changes what is shown at the
\* price of the event and nowhere else.
LEMMA UpdateLevelSets ==
    ASSUME NEW P \in SUBSET Int, NEW Z, NEW C, NEW l \in Ladders(P, Z, C),
           NEW e, Showable(e, P, Z, C)
    PROVE  /\ UpdateLevel(l, e) \in Ladders(P, Z, C)
           /\ SizesAt(UpdateLevel(l, e), e.price) = Leaves(e)
           /\ \A p : p # e.price => SizesAt(UpdateLevel(l, e), p) = SizesAt(l, p)
  <1> DEFINE n == Len(l)
             R == [price : P, size : Z, count : C]
             it == LowerBound(l, e.price)
             x == e.price
             u == UpdateLevel(l, e)
             fresh == it > n \/ l[it].price # x
             row == [price |-> x, size |-> SizeShown(e.quantity), count |-> CountShown(e)]
  <1>1. /\ l \in Seq(R)
        /\ n \in Nat
        /\ \A i \in 1 .. n : /\ l[i] \in R
                             /\ l[i].price \in Int
                             /\ l[i].size \in Z
        /\ \A i, j \in 1 .. n : i < j => l[i].price < l[j].price
        /\ \A i, j \in 1 .. n : l[i].price = l[j].price => i = j
    BY LadderIsAscending
  <1>2. x \in P /\ x \in Int /\ SizeShown(e.quantity) \in Z /\ row \in R
    BY DEF Showable
  <1>3. it \in 1 .. n + 1 /\ \A i \in 1 .. n : i < it <=> l[i].price < x
    BY <1>2, LowerBoundFinds
  <1>4. u = IF fresh
            THEN IF e.quantity = 0 THEN l ELSE InsertAt(l, it, row)
            ELSE IF e.quantity = 0 THEN RemoveAt(l, it)
                 ELSE [l EXCEPT ![it].size = SizeShown(e.quantity)]
    BY DEF UpdateLevel
  <1>5. ASSUME fresh, NEW i \in 1 .. n PROVE l[i].price # x
    <2> SUFFICES ASSUME l[i].price = x PROVE FALSE
      OBVIOUS
    <2>1. ~ (i < it)
      BY <1>1, <1>2, <1>3
    <2>2. it \in 1 .. n /\ it <= i
      BY <1>1, <1>3, <2>1
    <2>3. l[it].price # x /\ ~ (l[it].price < x) /\ l[it].price \in Int
      BY <1>1, <1>3, <1>5, <2>2
    <2>4. it # i
      BY <2>3
    <2>5. l[it].price < l[i].price
      BY <1>1, <2>2, <2>4
    <2> QED
      BY <1>2, <2>3, <2>5
  <1>6. row.price = x /\ row.size = SizeShown(e.quantity)
    OBVIOUS
  <1> HIDE DEF n, it, x, u, R, row
  <1>7. CASE fresh /\ e.quantity = 0
    <2>1. u = l
      BY <1>4, <1>7
    <2>2. SizesAt(l, x) = {}
      BY <1>5, <1>7 DEF SizesAt, n
    <2> QED
      BY <2>1, <2>2, <1>7 DEF u, x, Leaves
  <1>8. CASE fresh /\ e.quantity # 0
    <2>1. u = InsertAt(l, it, row)
      BY <1>4, <1>8
    <2>2. /\ u \in Seq(R)
          /\ Len(u) = n + 1
          /\ \A i \in 1 .. n + 1 :
                u[i] = IF i < it THEN l[i] ELSE IF i = it THEN row ELSE l[i - 1]
      <3>1. l \in Seq(R) /\ it \in 1 .. Len(l) + 1 /\ row \in R
        BY <1>1, <1>2, <1>3 DEF n
      <3>2. /\ InsertAt(l, it, row) \in Seq(R)
            /\ Len(InsertAt(l, it, row)) = Len(l) + 1
            /\ \A i \in 1 .. Len(l) + 1 :
                  InsertAt(l, it, row)[i] =
                      IF i < it THEN l[i] ELSE IF i = it THEN row ELSE l[i - 1]
        BY <3>1, InsertedAt
      <3> QED
        BY <2>1, <3>2 DEF n
    <2>3. \A i \in 1 .. n : l[i].price # x
      BY <1>5, <1>8
    <2>4. ASSUME NEW i \in 1 .. n + 1, NEW j \in 1 .. n + 1, i < j
          PROVE  u[i].price < u[j].price
      <3>1. CASE j < it
        <4>1. u[i] = l[i] /\ u[j] = l[j] /\ i \in 1 .. n /\ j \in 1 .. n
          BY <1>1, <1>3, <2>2, <2>4, <3>1
        <4> QED
          BY <1>1, <2>4, <4>1
      <3>2. CASE j = it
        <4>1. u[i] = l[i] /\ u[j] = row /\ i \in 1 .. n /\ i < it
          BY <1>1, <1>3, <2>2, <2>4, <3>2
        <4> QED
          BY <1>3, <1>6, <4>1
      <3>3. CASE j > it /\ i = it
        <4>1. u[i] = row /\ u[j] = l[j - 1] /\ j - 1 \in 1 .. n /\ ~ (j - 1 < it)
          BY <1>1, <1>3, <2>2, <2>4, <3>3
        <4>2. ~ (l[j - 1].price < x) /\ l[j - 1].price # x /\ l[j - 1].price \in Int
          BY <1>1, <1>3, <2>3, <4>1
        <4> QED
          BY <1>2, <1>6, <4>1, <4>2
      <3>4. CASE j > it /\ i < it
        <4>1. u[i] = l[i] /\ u[j] = l[j - 1] /\ i \in 1 .. n /\ j - 1 \in 1 .. n /\ i < it /\ ~ (j - 1 < it)
          BY <1>1, <1>3, <2>2, <2>4, <3>4
        <4>2. i < j - 1
          BY <1>1, <1>3, <4>1
        <4> QED
          BY <1>1, <4>1, <4>2
      <3>5. CASE j > it /\ i > it
        <4>1. u[i] = l[i - 1] /\ u[j] = l[j - 1] /\ i - 1 \in 1 .. n /\ j - 1 \in 1 .. n
          BY <1>1, <1>3, <2>2, <2>4, <3>5
        <4>2. i - 1 < j - 1
          BY <2>4
        <4> QED
          BY <1>1, <4>1, <4>2
      <3> QED
        BY <1>3, <1>1, <3>1, <3>2, <3>3, <3>4, <3>5
    <2>5. u \in Ladders(P, Z, C)
      BY <2>2, <2>4 DEF Ladders, R
    <2>6. SizesAt(u, x) = {SizeShown(e.quantity)}
      <3>1. ASSUME NEW i \in 1 .. n + 1 PROVE u[i].price = x <=> i = it
        <4>1. CASE i < it
          <5>1. u[i] = l[i] /\ i \in 1 .. n
            BY <1>1, <1>3, <2>2, <4>1
          <5> QED
            BY <1>1, <1>3, <2>3, <4>1, <5>1
        <4>2. CASE i = it
          BY <1>6, <2>2, <4>2
        <4>3. CASE i > it
          <5>1. u[i] = l[i - 1] /\ i - 1 \in 1 .. n
            BY <1>1, <1>3, <2>2, <4>3
          <5> QED
            BY <1>1, <1>3, <2>3, <4>3, <5>1
        <4> QED
          BY <1>1, <1>3, <4>1, <4>2, <4>3
      <3>2. {k \in 1 .. Len(u) : u[k].price = x} = {it}
        BY <1>3, <2>2, <3>1
      <3>3. u[it].size = SizeShown(e.quantity)
        <4>1. u[it] = row
          BY <1>3, <1>1, <2>2
        <4> QED
          BY <4>1, <1>6
      <3> QED
        BY <3>2, <3>3 DEF SizesAt
    <2>7. ASSUME NEW p, p # x PROVE SizesAt(u, p) = SizesAt(l, p)
      <3>1. ASSUME NEW i \in 1 .. n, l[i].price = p
            PROVE  \E k \in 1 .. n + 1 : u[k].price = p /\ u[k].size = l[i].size
        <4>1. CASE i < it
          <5>1. u[i] = l[i] /\ i \in 1 .. n + 1
            BY <1>1, <2>2, <4>1
          <5> QED
            BY <3>1, <5>1
        <4>2. CASE ~ (i < it)
          <5>1. i + 1 \in 1 .. n + 1 /\ ~ (i + 1 < it) /\ i + 1 # it /\ (i + 1) - 1 = i
            BY <1>1, <1>3, <4>2
          <5>2. u[i + 1] = l[i]
            BY <2>2, <5>1
          <5> QED
            BY <3>1, <5>1, <5>2
        <4> QED
          BY <4>1, <4>2
      <3>2. ASSUME NEW k \in 1 .. n + 1, u[k].price = p
            PROVE  \E i \in 1 .. n : l[i].price = p /\ u[k].size = l[i].size
        <4>1. CASE k < it
          <5>1. u[k] = l[k] /\ k \in 1 .. n
            BY <1>1, <1>3, <2>2, <4>1
          <5> QED
            BY <3>2, <5>1
        <4>2. CASE k = it
          <5>1. u[k] = row
            BY <2>2, <4>2, <1>1, <1>3
          <5> QED
            BY <5>1, <1>6, <2>7, <3>2
        <4>3. CASE k > it
          <5>1. u[k] = l[k - 1] /\ k - 1 \in 1 .. n
            BY <1>1, <1>3, <2>2, <4>3
          <5> QED
            BY <3>2, <5>1
        <4> QED
          BY <1>1, <1>3, <4>1, <4>2, <4>3
      <3>3. SizesAt(l, p) \subseteq SizesAt(u, p)
        BY <2>2, <3>1 DEF SizesAt, n
      <3>4. SizesAt(u, p) \subseteq SizesAt(l, p)
        BY <2>2, <3>2 DEF SizesAt, n
      <3> QED
        BY <3>3, <3>4
    <2> QED
      BY <2>5, <2>6, <2>7, <1>8 DEF u, x, Leaves
  <1>9. CASE ~ fresh /\ e.quantity = 0
    <2>1. it \in 1 .. n /\ l[it].price = x
      BY <1>1, <1>3, <1>9
    <2>2. u = RemoveAt(l, it)
      BY <1>4, <1>9
    <2>3. /\ u \in Seq(R)
          /\ Len(u) = n - 1
          /\ \A i \in 1 .. n - 1 : u[i] = IF i < it THEN l[i] ELSE l[i + 1]
      BY <1>1, <2>1, <2>2, RemovedAt DEF n
    <2>4. ASSUME NEW i \in 1 .. n - 1, NEW j \in 1 .. n - 1, i < j
          PROVE  u[i].price < u[j].price
      <3> DEFINE a == IF i < it THEN i ELSE i + 1
                 b == IF j < it THEN j ELSE j + 1
      <3>1. u[i] = l[a] /\ u[j] = l[b]
        BY <2>3
      <3>2. a \in 1 .. n /\ b \in 1 .. n /\ a < b
        BY <1>1, <2>1, <2>4
      <3> HIDE DEF a, b
      <3> QED
        BY <1>1, <3>1, <3>2
    <2>5. u \in Ladders(P, Z, C)
      BY <2>3, <2>4 DEF Ladders, R
    <2>6. ASSUME NEW i \in 1 .. n - 1
          PROVE  \E k \in 1 .. n : k # it /\ u[i] = l[k]
      <3> DEFINE a == IF i < it THEN i ELSE i + 1
      <3>1. u[i] = l[a]
        BY <2>3
      <3>2. a \in 1 .. n /\ a # it
        BY <1>1, <2>1
      <3> QED
        BY <3>1, <3>2
    <2>7. ASSUME NEW k \in 1 .. n, k # it
          PROVE  \E i \in 1 .. n - 1 : u[i] = l[k]
      <3>1. CASE k < it
        <4>1. k \in 1 .. n - 1
          BY <1>1, <2>1, <3>1
        <4> QED
          BY <2>3, <3>1, <4>1
      <3>2. CASE k > it
        <4>1. k - 1 \in 1 .. n - 1 /\ ~ (k - 1 < it) /\ (k - 1) + 1 = k
          BY <1>1, <2>1, <3>2
        <4> QED
          BY <2>3, <4>1
      <3> QED
        BY <1>1, <2>1, <2>7, <3>1, <3>2
    <2>8. SizesAt(u, x) = {}
      <3>1. \A i \in 1 .. n - 1 : u[i].price # x
        BY <1>1, <2>1, <2>6
      <3> QED
        BY <2>3, <3>1 DEF SizesAt
    <2>9. ASSUME NEW p, p # x PROVE SizesAt(u, p) = SizesAt(l, p)
      <3>1. SizesAt(u, p) \subseteq SizesAt(l, p)
        BY <2>3, <2>6 DEF SizesAt, n
      <3>2. SizesAt(l, p) \subseteq SizesAt(u, p)
        <4>1. \A k \in 1 .. n : l[k].price = p => k # it
          BY <2>1, <2>9
        <4>2. ASSUME NEW k \in 1 .. n, l[k].price = p PROVE l[k].size \in SizesAt(u, p)
          <5>1. PICK i \in 1 .. n - 1 : u[i] = l[k]
            BY <2>7, <4>1, <4>2
          <5>2. i \in 1 .. Len(u) /\ u[i].price = p /\ u[i].size = l[k].size
            BY <2>3, <4>2, <5>1
          <5> QED
            BY <5>2 DEF SizesAt
        <4> QED
          BY <4>2 DEF SizesAt, n
      <3> QED
        BY <3>1, <3>2
    <2> QED
      BY <2>5, <2>8, <2>9, <1>9 DEF u, x, Leaves
  <1>10. CASE ~ fresh /\ e.quantity # 0
    <2> DEFINE z == SizeShown(e.quantity)
               r == [l[it] EXCEPT !.size = z]
    <2>1. it \in 1 .. n /\ l[it].price = x
      BY <1>1, <1>3, <1>10
    <2>2. u = [l EXCEPT ![it] = r]
      BY <1>4, <1>10
    <2>3. r \in R /\ r.price = x /\ r.size = z
      <3>1. l[it] \in R /\ z \in Z
        BY <1>1, <1>2, <2>1
      <3> QED
        BY <2>1, <3>1 DEF R
    <2> HIDE DEF r, z
    <2>4. /\ u \in Seq(R)
          /\ Len(u) = n
          /\ \A i \in 1 .. n : u[i] = IF i = it THEN r ELSE l[i]
      BY <1>1, <2>1, <2>2, <2>3, ExceptSeq DEF n
    <2>5. \A i \in 1 .. n : u[i].price = l[i].price
      BY <2>1, <2>3, <2>4
    <2>6. u \in Ladders(P, Z, C)
      <3>1. \A i, j \in 1 .. Len(u) : i < j => u[i].price < u[j].price
        BY <1>1, <2>4, <2>5
      <3> QED
        BY <2>4, <3>1 DEF Ladders, R
    <2>7. SizesAt(u, x) = {z}
      <3>1. {k \in 1 .. Len(u) : u[k].price = x} = {it}
        BY <1>1, <2>1, <2>4, <2>5
      <3>2. u[it].size = z
        BY <2>1, <2>3, <2>4
      <3> QED
        BY <3>1, <3>2 DEF SizesAt
    <2>8. ASSUME NEW p, p # x PROVE SizesAt(u, p) = SizesAt(l, p)
      <3>1. \A i \in 1 .. n : u[i].price = p => u[i] = l[i]
        BY <2>1, <2>4, <2>5, <2>8
      <3> QED
        BY <2>4, <2>5, <3>1 DEF SizesAt, n
    <2> QED
      BY <2>6, <2>7, <2>8, <1>10 DEF u, x, Leaves, z
  <1> QED
    BY <1>7, <1>8, <1>9, <1>10

-----------------------------------------------------------------------------
(* Batches of events.                                                      *)

Sides == {"BID", "ASK"}

Snapshots(P, Z, C) == [Sides -> Ladders(P, Z, C)]

\* Sets of events that can all be shown.
AllShowable(E, P, Z, C) == \A e \in E : e.side \in Sides /\ Showable(e, P, Z, C)

\* The places of a batch where an event is at a price, or at one of a side.
At(evs, p) == {i \in DOMAIN evs : evs[i].price = p}
On(evs, s, p) == {i \in DOMAIN evs : evs[i].side = s /\ evs[i].price = p}

\* What is shown is what the last event of the places H leaves, or what was
\* shown before the batch if there is none.
LastShows(shows, before, evs, H) ==
    /\ H = {} => shows = before
    /\ \A m \in H : (\A j \in H : j <= m) => shows = Leaves(evs[m])

\* One after the other, the values w are overwritten with those of x at the
\* places H and kept at the others.
Overwrites(w, x, H, n) ==
    \A k \in 0 .. n - 1 : w[k + 1] = IF k + 1 \in H THEN x[k + 1] ELSE w[k]

\* An event that is shown alone changes its price of its side.
ShowsOnly(before, after, e) ==
    \A s \in Sides : \A p :
        SizesAt(after[s], p) = IF s = e.side /\ p = e.price THEN Leaves(e)
                               ELSE SizesAt(before[s], p)

\* A value that is overwritten at the places H only is the last one written.
LEMMA LastWrites ==
    ASSUME NEW n \in Nat, NEW H \in SUBSET (1 .. n), NEW w, NEW x,
           Overwrites(w, x, H, n)
    PROVE  /\ H = {} => w[n] = w[0]
           /\ \A m \in H : (\A j \in H : j <= m) => w[n] = x[m]
  <1>0. \A k \in 0 .. n - 1 : w[k + 1] = IF k + 1 \in H THEN x[k + 1] ELSE w[k]
    BY DEF Overwrites
  <1>1. ASSUME H = {} PROVE w[n] = w[0]
    <2> DEFINE S == {k \in Nat : k <= n => w[k] = w[0]}
    <2>1. 0 \in S
      OBVIOUS
    <2>2. ASSUME NEW k \in S PROVE k + 1 \in S
      BY <1>0, <1>1
    <2>3. S = Nat
      <3> HIDE DEF S
      <3>1. S \in SUBSET Nat
        BY DEF S
      <3> QED
        BY <2>1, <2>2, <3>1, InductionOnPlaces
    <2> QED
      BY <2>3
  <1>2. ASSUME NEW m \in H, \A j \in H : j <= m PROVE w[n] = x[m]
    <2> DEFINE S == {k \in Nat : m <= k /\ k <= n => w[k] = x[m]}
    <2>1. 0 \in S
      OBVIOUS
    <2>2. ASSUME NEW k \in S PROVE k + 1 \in S
      <3> SUFFICES ASSUME m <= k + 1, k + 1 <= n PROVE w[k + 1] = x[m]
        OBVIOUS
      <3>1. k \in 0 .. n - 1 /\ m \in 1 .. n
        <4>1. k \in Nat
          OBVIOUS
        <4>2. k \in 0 .. n - 1
          BY <4>1
        <4>3. m \in 1 .. n
          OBVIOUS
        <4> QED
          BY <4>2, <4>3
      <3>2. CASE m = k + 1
        BY <1>0, <3>1, <3>2
      <3>3. CASE m <= k
        <4>1. k + 1 \notin H
          BY <1>2, <3>1, <3>3
        <4>2. w[k] = x[m]
          BY <3>1, <3>3
        <4> QED
          BY <1>0, <3>1, <4>1, <4>2
      <3> QED
        BY <3>1, <3>2, <3>3
    <2>3. S = Nat
      <3> HIDE DEF S
      <3>1. S \in SUBSET Nat
        BY DEF S
      <3> QED
        BY <2>1, <2>2, <3>1, InductionOnPlaces
    <2> QED
      BY <2>3
  <1> QED
    BY <1>1, <1>2

\* A set of places has a last one.
LEMMA LastPlace ==
    ASSUME NEW n \in Nat, NEW H \in SUBSET (1 .. n), H # {}
    PROVE  \E m \in H : \A j \in H : j <= m
  <1> SUFFICES ASSUME \A m \in H : \E j \in H : ~ (j <= m) PROVE FALSE
    OBVIOUS
  <1> DEFINE S == {k \in Nat : \E m \in H : k <= m}
  <1>1. 0 \in S
    <2>1. PICK m \in H : TRUE
      OBVIOUS
    <2>2. m \in Nat /\ 0 <= m
      OBVIOUS
    <2> QED
      BY <2>2
  <1>2. ASSUME NEW k \in S PROVE k + 1 \in S
    <2>1. PICK m \in H : k <= m
      OBVIOUS
    <2>2. PICK j \in H : ~ (j <= m)
      OBVIOUS
    <2>3. k + 1 <= j
      BY <2>1, <2>2
    <2> QED
      BY <2>3
  <1>3. S = Nat
    <2> HIDE DEF S
    <2>1. S \in SUBSET Nat
      BY DEF S
    <2> QED
      BY <1>1, <1>2, <2>1, InductionOnPlaces
  <1>4. n + 1 \in S
    BY <1>3
  <1> QED
    BY <1>4

\* What is shown is determined.
LEMMA LastShowsOne ==
    ASSUME NEW n \in Nat, NEW H \in SUBSET (1 .. n), NEW evs, NEW before, NEW a, NEW b,
           LastShows(a, before, evs, H), LastShows(b, before, evs, H)
    PROVE  a = b
  <1>1. CASE H = {}
    BY <1>1 DEF LastShows
  <1>2. CASE H # {}
    <2>1. PICK m \in H : \A j \in H : j <= m
      BY <1>2, LastPlace
    <2> QED
      BY <2>1 DEF LastShows
  <1> QED
    BY <1>1, <1>2

\* A batch that is applied event after event to one side.
LEMMA ApplyAllShowsLast ==
    ASSUME NEW P \in SUBSET Int, NEW Z, NEW C, NEW l \in Ladders(P, Z, C),
           NEW E, AllShowable(E, P, Z, C), NEW evs \in Seq(E)
    PROVE  /\ ApplyAll(l, evs) \in Ladders(P, Z, C)
           /\ \A p : LastShows(SizesAt(ApplyAll(l, evs), p), SizesAt(l, p),
                               evs, At(evs, p))
  <1> DEFINE n == Len(evs)
             L == Ladders(P, Z, C)
  <1>1. /\ n \in Nat
        /\ DOMAIN evs = 1 .. n
        /\ \A i \in 1 .. n : Showable(evs[i], P, Z, C)
    <2>1. n \in Nat /\ DOMAIN evs = 1 .. n /\ \A i \in 1 .. n : evs[i] \in E
      BY LenProperties, ElementOfSeq
    <2> QED
      BY <2>1 DEF AllShowable
  <1>2. ApplyAll(l, evs) = U!Fold(l, evs)
    BY DEF ApplyAll, U!Fold, U!FoldLeft, FoldLeft, MapThenFoldSet, U!MapThenFoldSet, Max, U!Max
  <1> HIDE DEF n, L
  <1>3. PICK v : U!Iterates(v, l, evs, n) /\ U!Fold(l, evs) = v[n]
    BY <1>1, U!FoldIterates
  <1>4. v[0] = l /\ \A k \in 0 .. n - 1 : v[k + 1] = UpdateLevel(v[k], evs[k + 1])
    BY <1>3 DEF U!Iterates
  <1>5. \A k \in 0 .. n : v[k] \in L
    <2> DEFINE S == {k \in Nat : k <= n => v[k] \in L}
    <2>1. 0 \in S
      BY <1>4 DEF L
    <2>2. ASSUME NEW k \in S PROVE k + 1 \in S
      <3> SUFFICES ASSUME k + 1 <= n PROVE v[k + 1] \in L
        OBVIOUS
      <3>1. k \in 0 .. n - 1 /\ k + 1 \in 1 .. n /\ v[k] \in L
        BY <1>1
      <3> DEFINE e == evs[k + 1]
      <3>2. Showable(e, P, Z, C) /\ v[k + 1] = UpdateLevel(v[k], e)
        BY <1>1, <1>4, <3>1
      <3> HIDE DEF e
      <3>3. UpdateLevel(v[k], e) \in L
        BY <3>1, <3>2, UpdateLevelSets DEF L
      <3> QED
        BY <3>2, <3>3
    <2>3. S = Nat
      <3> HIDE DEF S
      <3>1. S \in SUBSET Nat
        BY DEF S
      <3> QED
        BY <2>1, <2>2, <3>1, InductionOnPlaces
    <2> QED
      BY <1>1, <2>3
  <1>6. ASSUME NEW p
        PROVE  LastShows(SizesAt(v[n], p), SizesAt(l, p), evs, At(evs, p))
    <2> DEFINE H == At(evs, p)
               w == [k \in 0 .. n |-> SizesAt(v[k], p)]
               x == [k \in 1 .. n |-> Leaves(evs[k])]
    <2>1. H \in SUBSET (1 .. n) /\ \A k \in 1 .. n : k \in H <=> evs[k].price = p
      BY <1>1 DEF At
    <2>2. ASSUME NEW k \in 0 .. n - 1
          PROVE  w[k + 1] = IF k + 1 \in H THEN x[k + 1] ELSE w[k]
      <3> DEFINE e == evs[k + 1]
      <3>1. k \in 0 .. n /\ k + 1 \in 0 .. n /\ k + 1 \in 1 .. n
        BY <1>1
      <3>2. v[k] \in L /\ v[k + 1] = UpdateLevel(v[k], e) /\ Showable(e, P, Z, C)
        BY <1>1, <1>4, <1>5, <3>1
      <3> HIDE DEF e
      <3>3. /\ SizesAt(UpdateLevel(v[k], e), e.price) = Leaves(e)
            /\ p # e.price => SizesAt(UpdateLevel(v[k], e), p) = SizesAt(v[k], p)
        BY <3>2, UpdateLevelSets DEF L
      <3>4. w[k + 1] = SizesAt(v[k + 1], p) /\ w[k] = SizesAt(v[k], p) /\ x[k + 1] = Leaves(e)
        BY <3>1 DEF e
      <3>5. k + 1 \in H <=> e.price = p
        BY <2>1, <3>1 DEF e
      <3> HIDE DEF w, x, H
      <3> QED
        BY <3>2, <3>3, <3>4, <3>5
    <2>3. w[n] = SizesAt(v[n], p) /\ w[0] = SizesAt(l, p)
      BY <1>1, <1>4
    <2>4. \A m \in H : x[m] = Leaves(evs[m])
      BY <2>1
    <2>5. Overwrites(w, x, H, n)
      BY <2>2 DEF Overwrites
    <2>6. n \in Nat /\ H \in SUBSET (1 .. n)
      BY <1>1, <2>1
    <2> HIDE DEF w, x, H
    <2>7. /\ H = {} => w[n] = w[0]
          /\ \A m \in H : (\A j \in H : j <= m) => w[n] = x[m]
      BY <2>5, <2>6, LastWrites
    <2>8. LastShows(SizesAt(v[n], p), SizesAt(l, p), evs, H)
      BY <2>3, <2>4, <2>7 DEF LastShows
    <2> QED
      BY <2>8 DEF H
  <1>7. v[n] \in L
    BY <1>1, <1>5
  <1> QED
    BY <1>2, <1>3, <1>6, <1>7 DEF L

\* One event on the side it names.
LEMMA ApplyEventSets ==
    ASSUME NEW P \in SUBSET Int, NEW Z, NEW C, NEW snap \in Snapshots(P, Z, C),
           NEW e, e.side \in Sides, Showable(e, P, Z, C)
    PROVE  /\ ApplyEvent(snap, e) \in Snapshots(P, Z, C)
           /\ ShowsOnly(snap, ApplyEvent(snap, e), e)
  <1> DEFINE t == e.side
             l == snap[t]
             u == UpdateLevel(l, e)
             r == ApplyEvent(snap, e)
  <1>1. l \in Ladders(P, Z, C) /\ \A s \in Sides : snap[s] \in Ladders(P, Z, C)
    BY DEF Snapshots
  <1>2. r = [snap EXCEPT ![t] = u]
    BY DEF ApplyEvent
  <1> HIDE DEF l
  <1>3. /\ u \in Ladders(P, Z, C)
        /\ SizesAt(u, e.price) = Leaves(e)
        /\ \A p : p # e.price => SizesAt(u, p) = SizesAt(l, p)
    BY <1>1, UpdateLevelSets
  <1> HIDE DEF u, r
  <1>4. r \in Snapshots(P, Z, C) /\ r[t] = u /\ \A s \in Sides : s # t => r[s] = snap[s]
    BY <1>2, <1>3 DEF Snapshots
  <1>5. ShowsOnly(snap, r, e)
    BY <1>3, <1>4 DEF ShowsOnly, l
  <1> QED
    BY <1>4, <1>5 DEF r

\* FullySequential shows at each price what the last event of that price and
\* side leaves.
LEMMA FullySequentialShowsLast ==
    ASSUME NEW P \in SUBSET Int, NEW Z, NEW C, NEW snap \in Snapshots(P, Z, C),
           NEW E, AllShowable(E, P, Z, C), NEW evs \in Seq(E)
    PROVE  /\ FullySequential(snap, evs) \in Snapshots(P, Z, C)
           /\ \A s \in Sides : \A p :
                 LastShows(SizesAt(FullySequential(snap, evs)[s], p), SizesAt(snap[s], p),
                           evs, On(evs, s, p))
  <1> DEFINE n == Len(evs)
             L == Snapshots(P, Z, C)
  <1>1. /\ n \in Nat
        /\ DOMAIN evs = 1 .. n
        /\ \A i \in 1 .. n : evs[i].side \in Sides /\ Showable(evs[i], P, Z, C)
    <2>1. n \in Nat /\ DOMAIN evs = 1 .. n /\ \A i \in 1 .. n : evs[i] \in E
      BY LenProperties, ElementOfSeq
    <2> QED
      BY <2>1 DEF AllShowable
  <1>2. FullySequential(snap, evs) = V!Fold(snap, evs)
    BY DEF FullySequential, V!Fold, V!FoldLeft, FoldLeft, MapThenFoldSet, V!MapThenFoldSet, Max, V!Max
  <1> HIDE DEF n, L
  <1>3. PICK v : V!Iterates(v, snap, evs, n) /\ V!Fold(snap, evs) = v[n]
    BY <1>1, V!FoldIterates
  <1>4. v[0] = snap /\ \A k \in 0 .. n - 1 : v[k + 1] = ApplyEvent(v[k], evs[k + 1])
    BY <1>3 DEF V!Iterates
  <1>5. \A k \in 0 .. n : v[k] \in L
    <2> DEFINE S == {k \in Nat : k <= n => v[k] \in L}
    <2>1. 0 \in S
      BY <1>4 DEF L
    <2>2. ASSUME NEW k \in S PROVE k + 1 \in S
      <3> SUFFICES ASSUME k + 1 <= n PROVE v[k + 1] \in L
        OBVIOUS
      <3>1. k \in 0 .. n - 1 /\ k + 1 \in 1 .. n /\ v[k] \in L
        BY <1>1
      <3> DEFINE e == evs[k + 1]
      <3>2. e.side \in Sides /\ Showable(e, P, Z, C) /\ v[k + 1] = ApplyEvent(v[k], e)
        BY <1>1, <1>4, <3>1
      <3> HIDE DEF e
      <3>3. ApplyEvent(v[k], e) \in L
        BY <3>1, <3>2, ApplyEventSets DEF L
      <3> QED
        BY <3>2, <3>3
    <2>3. S = Nat
      <3> HIDE DEF S
      <3>1. S \in SUBSET Nat
        BY DEF S
      <3> QED
        BY <2>1, <2>2, <3>1, InductionOnPlaces
    <2> QED
      BY <1>1, <2>3
  <1>6. ASSUME NEW s \in Sides, NEW p
        PROVE  LastShows(SizesAt(v[n][s], p), SizesAt(snap[s], p), evs, On(evs, s, p))
    <2> DEFINE H == On(evs, s, p)
               w == [k \in 0 .. n |-> SizesAt(v[k][s], p)]
               x == [k \in 1 .. n |-> Leaves(evs[k])]
    <2>1. /\ H \in SUBSET (1 .. n)
          /\ \A k \in 1 .. n : k \in H <=> evs[k].side = s /\ evs[k].price = p
      BY <1>1 DEF On
    <2>2. ASSUME NEW k \in 0 .. n - 1
          PROVE  w[k + 1] = IF k + 1 \in H THEN x[k + 1] ELSE w[k]
      <3> DEFINE e == evs[k + 1]
      <3>1. k \in 0 .. n /\ k + 1 \in 0 .. n /\ k + 1 \in 1 .. n
        BY <1>1
      <3>2. /\ v[k] \in L /\ v[k + 1] = ApplyEvent(v[k], e)
            /\ e.side \in Sides /\ Showable(e, P, Z, C)
        BY <1>1, <1>4, <1>5, <3>1
      <3> HIDE DEF e
      <3>3. ShowsOnly(v[k], ApplyEvent(v[k], e), e)
        <4> DEFINE now == v[k]
        <4>1. now \in Snapshots(P, Z, C)
          BY <3>2 DEF L
        <4> HIDE DEF now
        <4>2. ShowsOnly(now, ApplyEvent(now, e), e)
          BY <3>2, <4>1, ApplyEventSets
        <4> QED
          BY <4>2 DEF now
      <3>4. /\ w[k + 1] = SizesAt(v[k + 1][s], p)
            /\ w[k] = SizesAt(v[k][s], p)
            /\ x[k + 1] = Leaves(e)
        BY <3>1 DEF e
      <3>5. k + 1 \in H <=> e.side = s /\ e.price = p
        BY <2>1, <3>1 DEF e
      <3> HIDE DEF w, x, H
      <3> QED
        BY <3>2, <3>3, <3>4, <3>5 DEF ShowsOnly
    <2>3. w[n] = SizesAt(v[n][s], p) /\ w[0] = SizesAt(snap[s], p)
      BY <1>1, <1>4
    <2>4. \A m \in H : x[m] = Leaves(evs[m])
      BY <2>1
    <2>5. Overwrites(w, x, H, n)
      BY <2>2 DEF Overwrites
    <2>6. n \in Nat /\ H \in SUBSET (1 .. n)
      BY <1>1, <2>1
    <2> HIDE DEF w, x, H
    <2>7. /\ H = {} => w[n] = w[0]
          /\ \A m \in H : (\A j \in H : j <= m) => w[n] = x[m]
      BY <2>5, <2>6, LastWrites
    <2>8. LastShows(SizesAt(v[n][s], p), SizesAt(snap[s], p), evs, H)
      BY <2>3, <2>4, <2>7 DEF LastShows
    <2> QED
      BY <2>8 DEF H
  <1>7. v[n] \in L
    BY <1>1, <1>5
  <1> QED
    BY <1>2, <1>3, <1>6, <1>7 DEF L

-----------------------------------------------------------------------------
(* Batches one after the other.                                            *)

\* FullySequential is a loop over the batch.
LEMMA FullySequentialFolds ==
    ASSUME NEW snap, NEW evs
    PROVE  FullySequential(snap, evs) = V!Fold(snap, evs)
  BY DEF FullySequential, V!Fold, V!FoldLeft, FoldLeft, MapThenFoldSet, V!MapThenFoldSet, Max, V!Max

\* A batch without events shows what was shown.
LEMMA NoEvents == ASSUME NEW snap PROVE FullySequential(snap, <<>>) = snap
  BY FullySequentialFolds, V!FoldEmpty

\* One more event is one more update of the snapshot.
LEMMA OneMoreEvent ==
    ASSUME NEW snap, NEW E, NEW evs \in Seq(E), NEW e \in E
    PROVE  FullySequential(snap, Append(evs, e)) = ApplyEvent(FullySequential(snap, evs), e)
  <1> DEFINE more == Append(evs, e)
  <1>1. V!Fold(snap, more) = ApplyEvent(V!Fold(snap, evs), e)
    BY V!FoldAppend
  <1>2. FullySequential(snap, more) = V!Fold(snap, more)
    BY FullySequentialFolds
  <1>3. FullySequential(snap, evs) = V!Fold(snap, evs)
    BY FullySequentialFolds
  <1> QED
    BY <1>1, <1>2, <1>3

\* Two batches one after the other are one batch.
LEMMA TwoBatches ==
    ASSUME NEW snap, NEW E, NEW first \in Seq(E), NEW second \in Seq(E)
    PROVE  FullySequential(snap, first \o second) =
               FullySequential(FullySequential(snap, first), second)
  <1> DEFINE both == first \o second
             mid == V!Fold(snap, first)
  <1>1. V!Fold(snap, both) = V!Fold(mid, second)
    BY V!FoldConcat
  <1>2. FullySequential(snap, both) = V!Fold(snap, both)
    BY FullySequentialFolds
  <1>3. FullySequential(snap, first) = mid
    BY FullySequentialFolds
  <1> HIDE DEF mid
  <1>4. FullySequential(mid, second) = V!Fold(mid, second)
    BY FullySequentialFolds
  <1> QED
    BY <1>1, <1>2, <1>3, <1>4

\* Two snapshots show the same sizes at the prices of P.
ShowSame(a, b, P) == \A s \in Sides, p \in P : SizesAt(a[s], p) = SizesAt(b[s], p)

\* Snapshots that show the same show the same after the same batch.
LEMMA SameAfterBatch ==
    ASSUME NEW P \in SUBSET Int, NEW Z, NEW C,
           NEW a \in Snapshots(P, Z, C), NEW b \in Snapshots(P, Z, C), ShowSame(a, b, P),
           NEW E, AllShowable(E, P, Z, C), NEW evs \in Seq(E)
    PROVE  ShowSame(FullySequential(a, evs), FullySequential(b, evs), P)
  <1> DEFINE n == Len(evs)
             fa == FullySequential(a, evs)
             fb == FullySequential(b, evs)
  <1>1. n \in Nat /\ \A s, p : On(evs, s, p) \in SUBSET (1 .. n)
    BY LenProperties DEF On
  <1>2. \A s \in Sides : \A p :
          LastShows(SizesAt(fa[s], p), SizesAt(a[s], p), evs, On(evs, s, p))
    BY FullySequentialShowsLast
  <1>3. \A s \in Sides : \A p :
          LastShows(SizesAt(fb[s], p), SizesAt(b[s], p), evs, On(evs, s, p))
    BY FullySequentialShowsLast
  <1> HIDE DEF n, fa, fb
  <1>4. ASSUME NEW s \in Sides, NEW p \in P
        PROVE  SizesAt(fa[s], p) = SizesAt(fb[s], p)
    <2>1. LastShows(SizesAt(fa[s], p), SizesAt(a[s], p), evs, On(evs, s, p))
      BY <1>2
    <2>2. LastShows(SizesAt(fb[s], p), SizesAt(a[s], p), evs, On(evs, s, p))
      BY <1>3 DEF ShowSame
    <2> QED
      BY <1>1, <2>1, <2>2, LastShowsOne
  <1> QED
    BY <1>4 DEF ShowSame, fa, fb

-----------------------------------------------------------------------------
(* Batches that are reordered.                                             *)

\* The batch of one side keeps the events of that side in their order: for
\* each price the last of them stays the last.
LEMMA OfSideKeepsLast ==
    ASSUME NEW P \in SUBSET Int, NEW Z, NEW C, NEW E, AllShowable(E, P, Z, C),
           NEW evs \in Seq(E), NEW s
    PROVE  /\ OfSide(evs, s) \in Seq(E)
           /\ \A p, shows, before :
                 LastShows(shows, before, OfSide(evs, s), At(OfSide(evs, s), p)) =>
                     LastShows(shows, before, evs, On(evs, s, p))
  <1> DEFINE n == Len(evs)
             I == {i \in DOMAIN evs : evs[i].side = s}
             m == Cardinality(I)
             a == Ascending(I)
             r == OfSide(evs, s)
  <1>1. n \in Nat /\ DOMAIN evs = 1 .. n /\ \A i \in 1 .. n : evs[i] \in E
    BY LenProperties, ElementOfSeq
  <1>2. I \in SUBSET (1 .. n) /\ \A i \in 1 .. n : i \in I <=> evs[i].side = s
    BY <1>1
  <1>3. I \in SUBSET Int /\ IsFiniteSet(I)
    <2>1. I \in SUBSET Int
      BY <1>2
    <2>2. IsFiniteSet(1 .. n)
      BY <1>1, FS_Interval
    <2> HIDE DEF I
    <2> QED
      BY <1>2, <2>1, <2>2, FS_Subset
  <1>4. r = [k \in DOMAIN a |-> evs[a[k]]]
    BY DEF OfSide
  <1> HIDE DEF n, I, m, a, r
  <1>5. /\ m \in Nat
        /\ a \in [1 .. m -> I]
        /\ \A i, j \in 1 .. m : i < j => a[i] < a[j]
        /\ \A x \in I : \E k \in 1 .. m : a[k] = x
    <2>1. /\ m \in Nat /\ a \in [1 .. m -> I] /\ Increasing(a)
          /\ \A x \in I : \E k \in 1 .. m : a[k] = x
      BY <1>3, AscendingSorts DEF a, m
    <2>2. DOMAIN a = 1 .. m
      BY <2>1
    <2> QED
      BY <2>1, <2>2 DEF Increasing
  <1>6. /\ DOMAIN r = 1 .. m
        /\ \A k \in 1 .. m : /\ a[k] \in I
                             /\ a[k] \in 1 .. n
                             /\ r[k] = evs[a[k]]
                             /\ r[k] \in E
    BY <1>1, <1>2, <1>4, <1>5
  <1>7. r \in Seq(E)
    <2>1. r \in [1 .. m -> E]
      BY <1>4, <1>5, <1>6
    <2> QED
      BY <1>5, <2>1, SeqDef
  <1>8. ASSUME NEW p, NEW shows, NEW before, LastShows(shows, before, r, At(r, p))
        PROVE  LastShows(shows, before, evs, On(evs, s, p))
    <2>1. ASSUME On(evs, s, p) = {} PROVE shows = before
      <3>1. ASSUME NEW k \in At(r, p) PROVE FALSE
        <4>1. k \in 1 .. m /\ r[k].price = p
          BY <1>6, <3>1 DEF At
        <4>2. a[k] \in On(evs, s, p)
          BY <1>1, <1>2, <1>6, <4>1 DEF On
        <4> QED
          BY <2>1, <4>2
      <3>2. At(r, p) = {}
        BY <3>1
      <3> QED
        BY <1>8, <3>2 DEF LastShows
    <2>2. ASSUME NEW x \in On(evs, s, p), \A j \in On(evs, s, p) : j <= x
          PROVE  shows = Leaves(evs[x])
      <3>1. x \in I /\ evs[x].price = p
        BY <1>1, <1>2 DEF On
      <3>2. PICK k \in 1 .. m : a[k] = x
        BY <1>5, <3>1
      <3>3. k \in At(r, p)
        BY <1>6, <3>1, <3>2 DEF At
      <3>4. ASSUME NEW j \in At(r, p) PROVE j <= k
        <4>1. j \in 1 .. m /\ r[j].price = p
          BY <1>6, <3>4 DEF At
        <4>2. a[j] \in On(evs, s, p)
          BY <1>1, <1>2, <1>6, <4>1 DEF On
        <4>3. a[j] <= a[k] /\ a[j] \in Int /\ a[k] \in Int
          BY <1>6, <2>2, <3>2, <4>1, <4>2
        <4>4. ~ (k < j)
          BY <1>5, <4>1, <4>3
        <4> QED
          BY <4>1, <4>4
      <3>5. shows = Leaves(r[k])
        BY <1>8, <3>3, <3>4 DEF LastShows
      <3> QED
        BY <1>6, <3>2, <3>5
    <2> QED
      BY <2>1, <2>2 DEF LastShows
  <1> QED
    BY <1>7, <1>8 DEF r

\* The greatest of a nonempty set of places, as SelectLastInSeq takes it.
LEMMA GreatestPlace ==
    ASSUME NEW n \in Nat, NEW I \in SUBSET (1 .. n), I # {}
    PROVE  Max(I) \in I /\ \A j \in I : j <= Max(I)
  <1>1. PICK m \in I : \A j \in I : j <= m
    BY LastPlace
  <1>2. \A j \in I : m >= j
    BY <1>1
  <1>3. Max(I) \in I /\ \A j \in I : Max(I) >= j
    BY <1>2 DEF Max
  <1> DEFINE x == Max(I)
  <1>4. x \in I /\ \A j \in I : x >= j
    BY <1>3
  <1> HIDE DEF x
  <1>5. x \in I /\ \A j \in I : j <= x
    BY <1>4
  <1> QED
    BY <1>5 DEF x

\* MergeEvents drops every event but the last of its price.
LEMMA LastPerPriceKeepsLast ==
    ASSUME NEW P \in SUBSET Int, NEW Z, NEW C, NEW E, AllShowable(E, P, Z, C),
           NEW evs \in Seq(E)
    PROVE  /\ LastPerPrice(evs) \in Seq(E)
           /\ \A p, shows, before :
                 LastShows(shows, before, LastPerPrice(evs), At(LastPerPrice(evs), p)) =>
                     LastShows(shows, before, evs, At(evs, p))
  <1> DEFINE n == Len(evs)
             S == {evs[i].price : i \in DOMAIN evs}
             last(p) == SelectLastInSeq(evs, LAMBDA e : e.price = p)
             m == Cardinality(S)
             a == Ascending(S)
             r == LastPerPrice(evs)
  <1>1. n \in Nat /\ DOMAIN evs = 1 .. n /\ \A i \in 1 .. n : evs[i] \in E
    BY LenProperties, ElementOfSeq
  <1>2. \A i \in 1 .. n : evs[i].price \in P /\ evs[i].price \in Int
    <2>1. \A i \in 1 .. n : evs[i].price \in P
      BY <1>1 DEF AllShowable, Showable
    <2> QED
      BY <2>1
  <1>3. S \in SUBSET Int /\ IsFiniteSet(S)
    <2>1. S \in SUBSET Int
      BY <1>1, <1>2
    <2>2. IsFiniteSet(1 .. n)
      BY <1>1, FS_Interval
    <2> DEFINE f == [i \in 1 .. n |-> evs[i].price]
    <2>3. f \in Surjection(1 .. n, S)
      <3>1. f \in [1 .. n -> S]
        BY <1>1
      <3>2. \A x \in S : \E i \in 1 .. n : f[i] = x
        BY <1>1
      <3> QED
        BY <3>1, <3>2, Fun_IsSurj
    <2> HIDE DEF S, f
    <2>4. IsFiniteSet(S)
      BY <2>2, <2>3, FS_Surjection
    <2> QED
      BY <2>1, <2>4
  <1>4. ASSUME NEW p \in S
        PROVE  last(p) \in At(evs, p) /\ \A j \in At(evs, p) : j <= last(p)
    <2> DEFINE I == {i \in 1 .. n : evs[i].price = p}
    <2>1. I = At(evs, p) /\ I \in SUBSET (1 .. n) /\ I # {}
      BY <1>1 DEF At
    <2>2. last(p) = Max(I)
      <3>1. last(p) = IF I # {} THEN Max(I) ELSE 0
        BY DEF SelectLastInSeq
      <3> QED
        BY <2>1, <3>1
    <2> HIDE DEF I, last
    <2> QED
      BY <1>1, <2>1, <2>2, GreatestPlace
  <1>5. r = [k \in DOMAIN a |-> evs[last(a[k])]]
    BY DEF LastPerPrice
  <1> HIDE DEF n, S, m, a, r, last
  <1>6. /\ m \in Nat
        /\ a \in [1 .. m -> S]
        /\ \A i, j \in 1 .. m : i < j => a[i] < a[j]
        /\ \A x \in S : \E k \in 1 .. m : a[k] = x
    <2>1. /\ m \in Nat /\ a \in [1 .. m -> S] /\ Increasing(a)
          /\ \A x \in S : \E k \in 1 .. m : a[k] = x
      BY <1>3, AscendingSorts DEF a, m
    <2>2. DOMAIN a = 1 .. m
      BY <2>1
    <2> QED
      BY <2>1, <2>2 DEF Increasing
  <1>7. /\ DOMAIN r = 1 .. m
        /\ \A k \in 1 .. m : a[k] \in S /\ r[k] = evs[last(a[k])]
    BY <1>5, <1>6
  <1>8. ASSUME NEW k \in 1 .. m
        PROVE  /\ last(a[k]) \in 1 .. n
               /\ r[k] \in E
               /\ r[k].price = a[k]
    <2> DEFINE p == a[k]
    <2>1. p \in S /\ r[k] = evs[last(p)]
      BY <1>7
    <2> HIDE DEF p
    <2>2. last(p) \in At(evs, p)
      BY <1>4, <2>1
    <2>3. last(p) \in 1 .. n /\ evs[last(p)].price = p
      BY <1>1, <2>2 DEF At
    <2> QED
      BY <1>1, <2>1, <2>3 DEF p
  <1>9. r \in Seq(E)
    <2>1. r \in [1 .. m -> E]
      BY <1>5, <1>6, <1>8
    <2> QED
      BY <1>6, <2>1, SeqDef
  <1>10. ASSUME NEW p, NEW shows, NEW before, LastShows(shows, before, r, At(r, p))
         PROVE  LastShows(shows, before, evs, At(evs, p))
    <2>1. ASSUME At(evs, p) = {} PROVE shows = before
      <3>1. ASSUME NEW k \in At(r, p) PROVE FALSE
        <4>1. k \in 1 .. m /\ r[k].price = p
          BY <1>7, <3>1 DEF At
        <4>2. p \in S
          BY <1>7, <1>8, <4>1
        <4> QED
          BY <1>4, <2>1, <4>2
      <3>2. At(r, p) = {}
        BY <3>1
      <3> QED
        BY <1>10, <3>2 DEF LastShows
    <2>2. ASSUME NEW x \in At(evs, p), \A j \in At(evs, p) : j <= x
          PROVE  shows = Leaves(evs[x])
      <3>1. x \in 1 .. n /\ evs[x].price = p
        BY <1>1 DEF At
      <3>2. p \in S
        BY <1>1, <3>1 DEF S
      <3>3. PICK k \in 1 .. m : a[k] = p
        BY <1>6, <3>2
      <3>4. k \in At(r, p)
        BY <1>7, <1>8, <3>3 DEF At
      <3>5. ASSUME NEW j \in At(r, p) PROVE j <= k
        <4>1. j \in 1 .. m /\ r[j].price = p
          BY <1>7, <3>5 DEF At
        <4>2. a[j] = a[k] /\ a[k] \in Int
          BY <1>3, <1>7, <1>8, <3>3, <4>1
        <4>3. ~ (k < j)
          BY <1>6, <4>1, <4>2
        <4> QED
          BY <4>1, <4>3
      <3>6. shows = Leaves(r[k])
        BY <1>10, <3>4, <3>5 DEF LastShows
      <3>7. last(p) = x
        <4> DEFINE y == last(p)
        <4>1. y \in At(evs, p) /\ \A j \in At(evs, p) : j <= y
          BY <1>4, <3>2
        <4> HIDE DEF y
        <4>2. y <= x /\ x <= y /\ y \in 1 .. n
          BY <1>1, <2>2, <4>1 DEF At
        <4>3. y = x
          BY <3>1, <4>2
        <4> QED
          BY <4>3 DEF y
      <3> QED
        BY <1>7, <3>3, <3>6, <3>7
    <2> QED
      BY <2>1, <2>2 DEF LastShows
  <1> QED
    BY <1>9, <1>10 DEF r

\* SideSequential and MergeEvents show the same sizes as FullySequential.
LEMMA StrategiesShowTheSame ==
    ASSUME NEW P \in SUBSET Int, NEW Z, NEW C, NEW snap \in Snapshots(P, Z, C),
           NEW E, AllShowable(E, P, Z, C), NEW evs \in Seq(E)
    PROVE  /\ FullySequential(snap, evs) \in Snapshots(P, Z, C)
           /\ SideSequential(snap, evs) \in Snapshots(P, Z, C)
           /\ MergeEvents(snap, evs) \in Snapshots(P, Z, C)
           /\ ShowSame(SideSequential(snap, evs), FullySequential(snap, evs), P)
           /\ ShowSame(MergeEvents(snap, evs), FullySequential(snap, evs), P)
  <1> DEFINE n == Len(evs)
             L == Ladders(P, Z, C)
             full == FullySequential(snap, evs)
             sided == SideSequential(snap, evs)
             merged == MergeEvents(snap, evs)
  <1>1. n \in Nat /\ \A s, p : On(evs, s, p) \in SUBSET (1 .. n)
    BY LenProperties DEF On
  <1>2. /\ full \in Snapshots(P, Z, C)
        /\ \A s \in Sides : \A p :
              LastShows(SizesAt(full[s], p), SizesAt(snap[s], p), evs, On(evs, s, p))
    BY FullySequentialShowsLast
  <1>3. \A s \in Sides : snap[s] \in L
    BY DEF Snapshots
  <1> HIDE DEF n, L, full
  <1>4. ASSUME NEW s \in Sides
        PROVE  /\ ApplyAll(snap[s], OfSide(evs, s)) \in L
               /\ \A p : LastShows(SizesAt(ApplyAll(snap[s], OfSide(evs, s)), p),
                                   SizesAt(snap[s], p), evs, On(evs, s, p))
    <2> DEFINE l == snap[s]
               side == OfSide(evs, s)
               u == ApplyAll(l, side)
    <2>1. /\ side \in Seq(E)
          /\ \A p, shows, before :
                LastShows(shows, before, side, At(side, p)) =>
                    LastShows(shows, before, evs, On(evs, s, p))
      BY OfSideKeepsLast
    <2>2. l \in L
      BY <1>3
    <2> HIDE DEF l, side
    <2>3. /\ u \in L
          /\ \A p : LastShows(SizesAt(u, p), SizesAt(l, p), side, At(side, p))
      BY <2>1, <2>2, ApplyAllShowsLast DEF L
    <2> HIDE DEF u
    <2>4. \A p : LastShows(SizesAt(u, p), SizesAt(l, p), evs, On(evs, s, p))
      BY <2>1, <2>3
    <2> QED
      BY <2>3, <2>4 DEF u, l, side
  <1>5. ASSUME NEW s \in Sides
        PROVE  /\ ApplyAll(snap[s], LastPerPrice(OfSide(evs, s))) \in L
               /\ \A p : LastShows(SizesAt(ApplyAll(snap[s], LastPerPrice(OfSide(evs, s))), p),
                                   SizesAt(snap[s], p), evs, On(evs, s, p))
    <2> DEFINE l == snap[s]
               side == OfSide(evs, s)
               last == LastPerPrice(side)
               u == ApplyAll(l, last)
    <2>1. /\ side \in Seq(E)
          /\ \A p, shows, before :
                LastShows(shows, before, side, At(side, p)) =>
                    LastShows(shows, before, evs, On(evs, s, p))
      BY OfSideKeepsLast
    <2>2. l \in L
      BY <1>3
    <2> HIDE DEF l, side
    <2>3. /\ last \in Seq(E)
          /\ \A p, shows, before :
                LastShows(shows, before, last, At(last, p)) =>
                    LastShows(shows, before, side, At(side, p))
      BY <2>1, LastPerPriceKeepsLast
    <2> HIDE DEF last
    <2>4. /\ u \in L
          /\ \A p : LastShows(SizesAt(u, p), SizesAt(l, p), last, At(last, p))
      BY <2>2, <2>3, ApplyAllShowsLast DEF L
    <2> HIDE DEF u
    <2>5. \A p : LastShows(SizesAt(u, p), SizesAt(l, p), evs, On(evs, s, p))
      BY <2>1, <2>3, <2>4
    <2> QED
      BY <2>4, <2>5 DEF u, l, side, last
  <1>6. /\ sided = [s \in Sides |-> ApplyAll(snap[s], OfSide(evs, s))]
        /\ merged = [s \in Sides |-> ApplyAll(snap[s], LastPerPrice(OfSide(evs, s)))]
    BY DEF SideSequential, MergeEvents, Sides
  <1> HIDE DEF sided, merged
  <1>7. sided \in Snapshots(P, Z, C) /\ merged \in Snapshots(P, Z, C)
    BY <1>4, <1>5, <1>6 DEF Snapshots, L
  <1>8. ASSUME NEW s \in Sides, NEW p
        PROVE  SizesAt(sided[s], p) = SizesAt(full[s], p)
    <2>1. LastShows(SizesAt(sided[s], p), SizesAt(snap[s], p), evs, On(evs, s, p))
      BY <1>4, <1>6
    <2>2. LastShows(SizesAt(full[s], p), SizesAt(snap[s], p), evs, On(evs, s, p))
      BY <1>2
    <2> QED
      BY <1>1, <2>1, <2>2, LastShowsOne
  <1>9. ASSUME NEW s \in Sides, NEW p
        PROVE  SizesAt(merged[s], p) = SizesAt(full[s], p)
    <2>1. LastShows(SizesAt(merged[s], p), SizesAt(snap[s], p), evs, On(evs, s, p))
      BY <1>5, <1>6
    <2>2. LastShows(SizesAt(full[s], p), SizesAt(snap[s], p), evs, On(evs, s, p))
      BY <1>2
    <2> QED
      BY <1>1, <2>1, <2>2, LastShowsOne
  <1> QED
    BY <1>2, <1>7, <1>8, <1>9 DEF full, sided, merged, ShowSame

-----------------------------------------------------------------------------
(* Reading a snapshot.                                                     *)

\* The prices a side shows.
PricesShown(l, P) == {p \in P : SizesAt(l, p) # {}}

\* A side lists the prices of S in ascending order, each with its size.
Lists(l, S) ==
    /\ Len(l) = Cardinality(S)
    /\ DOMAIN Ascending(S) = 1 .. Len(l)
    /\ \A i \in 1 .. Len(l) :
          /\ l[i].price = Ascending(S)[i]
          /\ SizesAt(l, l[i].price) = {l[i].size}

\* A side lists the prices it shows.
LEMMA LevelsByPrice ==
    ASSUME NEW P \in SUBSET Int, NEW Z, NEW C, NEW l \in Ladders(P, Z, C)
    PROVE  Lists(l, PricesShown(l, P))
  <1> DEFINE n == Len(l)
             S == PricesShown(l, P)
             q == [i \in 1 .. n |-> l[i].price]
  <1>1. /\ n \in Nat
        /\ \A i \in 1 .. n : l[i].price \in P
        /\ \A i, j \in 1 .. n : i < j => l[i].price < l[j].price
        /\ \A i, j \in 1 .. n : l[i].price = l[j].price => i = j
    BY LadderIsAscending
  <1>2. \A i \in 1 .. n : SizesAt(l, l[i].price) = {l[i].size}
    <2> SUFFICES ASSUME NEW i \in 1 .. n PROVE SizesAt(l, l[i].price) = {l[i].size}
      OBVIOUS
    <2>1. {k \in 1 .. Len(l) : l[k].price = l[i].price} = {i}
      BY <1>1
    <2> QED
      BY <2>1 DEF SizesAt
  <1>3. \A i \in 1 .. n : l[i].price \in S
    BY <1>1, <1>2 DEF PricesShown
  <1>4. \A p \in S : \E i \in 1 .. n : l[i].price = p
    BY DEF PricesShown, SizesAt
  <1>5. S \in SUBSET Int
    BY DEF PricesShown
  <1> HIDE DEF n, S
  <1>6. q \in [1 .. n -> S]
    BY <1>3
  <1>7. Increasing(q)
    BY <1>1 DEF Increasing
  <1>8. \A x \in S : \E k \in 1 .. n : q[k] = x
    BY <1>4
  <1>9. DOMAIN q = 1 .. n /\ \A i \in 1 .. n : q[i] = l[i].price
    OBVIOUS
  <1> HIDE DEF q
  <1>10. Cardinality(S) = n /\ q = Ascending(S)
    BY <1>1, <1>5, <1>6, <1>7, <1>8, AscendingIsUnique
  <1> QED
    BY <1>2, <1>9, <1>10 DEF n, S, Lists

\* Two snapshots that show the same size at every price differ at most in
\* their order counts.
LEMMA SameSizes ==
    ASSUME NEW P \in SUBSET Int, NEW Z, NEW C,
           NEW a \in Snapshots(P, Z, C), NEW b \in Snapshots(P, Z, C),
           ShowSame(a, b, P)
    PROVE  Sizes(a) = Sizes(b)
  <1>1. ASSUME NEW s \in Sides
        PROVE  [i \in DOMAIN a[s] |-> <<a[s][i].price, a[s][i].size>>] =
                   [i \in DOMAIN b[s] |-> <<b[s][i].price, b[s][i].size>>]
    <2> DEFINE x == a[s]
               y == b[s]
               S == PricesShown(x, P)
    <2>1. x \in Ladders(P, Z, C) /\ y \in Ladders(P, Z, C)
      BY DEF Snapshots
    <2>2. \A p \in P : SizesAt(x, p) = SizesAt(y, p)
      BY DEF ShowSame
    <2> HIDE DEF x, y
    <2>3. S = PricesShown(x, P) /\ S = PricesShown(y, P)
      BY <2>2 DEF PricesShown
    <2> HIDE DEF S
    <2>4. Lists(x, S) /\ Lists(y, S)
      <3>1. Lists(x, PricesShown(x, P))
        BY <2>1, LevelsByPrice
      <3>2. Lists(y, PricesShown(y, P))
        BY <2>1, LevelsByPrice
      <3> QED
        BY <2>3, <3>1, <3>2
    <2>5. /\ Len(x) = Cardinality(S)
          /\ Len(y) = Cardinality(S)
          /\ \A i \in 1 .. Len(x) : /\ x[i].price = Ascending(S)[i]
                                    /\ SizesAt(x, x[i].price) = {x[i].size}
          /\ \A i \in 1 .. Len(y) : /\ y[i].price = Ascending(S)[i]
                                    /\ SizesAt(y, y[i].price) = {y[i].size}
      BY <2>4 DEF Lists
    <2>6. /\ DOMAIN x = 1 .. Len(x) /\ DOMAIN y = 1 .. Len(y)
          /\ \A i \in 1 .. Len(x) : x[i].price \in P
      BY <2>1, LadderIsAscending
    <2>7. DOMAIN x = DOMAIN y
      BY <2>5, <2>6
    <2>8. ASSUME NEW i \in DOMAIN x PROVE x[i].price = y[i].price /\ x[i].size = y[i].size
      <3>1. x[i].price = y[i].price /\ x[i].price \in P
        BY <2>5, <2>6, <2>7
      <3>2. {x[i].size} = {y[i].size}
        BY <2>2, <2>5, <2>6, <2>7, <3>1
      <3> QED
        BY <3>1, <3>2
    <2>9. [i \in DOMAIN x |-> <<x[i].price, x[i].size>>] =
              [i \in DOMAIN y |-> <<y[i].price, y[i].size>>]
      BY <2>7, <2>8
    <2> QED
      BY <2>9 DEF x, y
  <1> QED
    BY <1>1 DEF Sizes, Sides

-----------------------------------------------------------------------------
(* The three strategies on the same batches.                               *)

\* The sizes and order counts that events can leave.
BatchSizes == {SizeShown(q) : q \in EventQuantities}
BatchCounts == {CountShown(e) : e \in Events}

\* The inductive invariant: the screen is a pair of ascending lists and the
\* batch a sequence of events.
BatchInvariant ==
    /\ display \in Snapshots(EventPrices, BatchSizes, BatchCounts)
    /\ collected \in Seq(Events)

\* Every event of a batch can be shown.
LEMMA EventsAreShowable == AllShowable(Events, EventPrices, BatchSizes, BatchCounts)
  <1> SUFFICES ASSUME NEW e \in Events
               PROVE  e.side \in Sides /\ Showable(e, EventPrices, BatchSizes, BatchCounts)
    BY DEF AllShowable
  <1>1. e.side \in Sides /\ e.price \in EventPrices /\ e.quantity \in EventQuantities
    BY DEF Events, Sides
  <1> QED
    BY <1>1 DEF Showable, BatchSizes, BatchCounts

\* The dashboard starts with two empty lists.
LEMMA InitBatch == AgreementInit => BatchInvariant
  <1> SUFFICES ASSUME AgreementInit PROVE BatchInvariant
    OBVIOUS
  <1> DEFINE none == <<>>
  <1>1. none \in Seq([price : EventPrices, size : BatchSizes, count : BatchCounts]) /\ Len(none) = 0
    OBVIOUS
  <1>2. none \in Ladders(EventPrices, BatchSizes, BatchCounts)
    <2> HIDE DEF none
    <2>1. \A i \in 1 .. Len(none) : FALSE
      BY <1>1
    <2> QED
      BY <1>1, <2>1 DEF Ladders
  <1>3. display = [s \in Sides |-> none] /\ collected = none
    BY DEF AgreementInit, EmptySnapshot, Sides
  <1>4. none \in Seq(Events)
    OBVIOUS
  <1> HIDE DEF none
  <1> QED
    BY <1>2, <1>3, <1>4 DEF BatchInvariant, Snapshots

\* Collecting an event and showing a batch keep the invariant.
LEMMA NextBatch == BatchInvariant /\ [AgreementNext]_agreementVars => BatchInvariant'
  <1> SUFFICES ASSUME BatchInvariant, [AgreementNext]_agreementVars PROVE BatchInvariant'
    OBVIOUS
  <1>1. CASE Collect
    <2>1. PICK e \in Events : collected' = Append(collected, e)
      BY <1>1 DEF Collect
    <2>2. collected' \in Seq(Events)
      BY <2>1 DEF BatchInvariant
    <2>3. UNCHANGED display
      BY <1>1 DEF Collect
    <2> QED
      BY <2>2, <2>3 DEF BatchInvariant
  <1>2. CASE Show
    <2>1. display' \in Snapshots(EventPrices, BatchSizes, BatchCounts)
      <3>1. display' = FullySequential(display, collected)
        BY <1>2 DEF Show
      <3>2. FullySequential(display, collected) \in Snapshots(EventPrices, BatchSizes, BatchCounts)
        BY EventsAreShowable, PricesAreNumbers, FullySequentialShowsLast DEF BatchInvariant
      <3> QED
        BY <3>1, <3>2
    <2>2. collected' \in Seq(Events)
      BY <1>2 DEF Show
    <2> QED
      BY <2>1, <2>2 DEF BatchInvariant
  <1>3. CASE UNCHANGED agreementVars
    BY <1>3 DEF agreementVars, BatchInvariant
  <1> QED
    BY <1>1, <1>2, <1>3 DEF AgreementNext

\* The invariant holds in every reachable state.
LEMMA BatchInvariantHolds == AgreementSpec => []BatchInvariant
  BY InitBatch, NextBatch, PTL DEF AgreementSpec

\* The precondition of lower_bound holds at every update: insertions, removals
\* and merged batches keep each side of the screen strictly ascending.
THEOREM SidesAlwaysAscend == AgreementSpec => []SidesAscending
  <1>1. BatchInvariant => SidesAscending
    <2> SUFFICES ASSUME BatchInvariant, NEW s \in Sides,
                        NEW i \in DOMAIN display[s], NEW j \in DOMAIN display[s], i < j
                 PROVE  display[s][i].price < display[s][j].price
      BY DEF SidesAscending, Sides
    <2> DEFINE l == display[s]
    <2>1. l \in Ladders(EventPrices, BatchSizes, BatchCounts)
      BY DEF BatchInvariant, Snapshots
    <2>2. i \in DOMAIN l /\ j \in DOMAIN l
      OBVIOUS
    <2> HIDE DEF l
    <2>3. l[i].price < l[j].price
      BY <2>1, <2>2, PricesAreNumbers, LadderIsAscending
    <2> QED
      BY <2>3 DEF l
  <1> QED
    BY <1>1, BatchInvariantHolds, PTL

\* Whatever screen earlier batches have left, the three strategies make the
\* same levels and sizes of any batch: to apply the asks before the bids, or
\* only the last event of each price, loses nothing.
THEOREM StrategiesAlwaysAgree == AgreementSpec => []StrategiesAgree
  <1>1. BatchInvariant => StrategiesAgree
    <2> SUFFICES ASSUME BatchInvariant PROVE StrategiesAgree
      OBVIOUS
    <2> DEFINE Z == BatchSizes
               C == BatchCounts
               full == FullySequential(display, collected)
               sided == SideSequential(display, collected)
               merged == MergeEvents(display, collected)
    <2>1. /\ full \in Snapshots(EventPrices, Z, C)
          /\ sided \in Snapshots(EventPrices, Z, C)
          /\ merged \in Snapshots(EventPrices, Z, C)
          /\ ShowSame(sided, full, EventPrices)
          /\ ShowSame(merged, full, EventPrices)
      BY EventsAreShowable, PricesAreNumbers, StrategiesShowTheSame DEF BatchInvariant
    <2> HIDE DEF full, sided, merged, Z, C
    <2>2. Sizes(sided) = Sizes(full)
      BY <2>1, PricesAreNumbers, SameSizes
    <2>3. Sizes(merged) = Sizes(full)
      BY <2>1, PricesAreNumbers, SameSizes
    <2> QED
      BY <2>2, <2>3 DEF StrategiesAgree, full, sided, merged
  <1> QED
    BY <1>1, BatchInvariantHolds, PTL

=============================================================================
