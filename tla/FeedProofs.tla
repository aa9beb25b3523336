----------------------------- MODULE FeedProofs -----------------------------
(***************************************************************************)
(* What FeedReplay promises, for every file: the books hold what the       *)
(* writer of the file may have left in them, and exactly that as long as   *)
(* the file has done nothing the replay cannot follow.  The invariant      *)
(* behind it, ReplayOK, says that the books are sorted lists of orders     *)
(* with ids of their own, that an exchange gives an id once, and that a    *)
(* market followed so far is not crossed.                                  *)
(***************************************************************************)
EXTENDS FeedReplay, TLAPS, SequenceTheorems, FiniteSetTheorems

\* The facts on numbers, sums and sequences; nothing is folded here.
INSTANCE FoldProofs WITH op <- +

-----------------------------------------------------------------------------
(* Lists of orders.                                                        *)

\* An order of a book as the rules see it.
Entry == [id : OrderIDs, price : Prices, quantity : Nat]

\* A list of orders of side s as a book keeps it: best first, none empty, none
\* there twice.
IsList(s, list) ==
    /\ list \in Seq(Entry)
    /\ \A i \in 1 .. Len(list) : list[i].quantity > 0
    /\ \A i, j \in 1 .. Len(list) : i < j => ~ Better(s, list[j].price, list[i].price)
    /\ \A i, j \in 1 .. Len(list) : list[i].id = list[j].id => i = j

\* What the orders of such a list are.
LEMMA ListOrders ==
    ASSUME NEW s, NEW list, IsList(s, list)
    PROVE  /\ list \in Seq(Entry) /\ Len(list) \in Nat /\ DOMAIN list = 1 .. Len(list)
           /\ \A i \in 1 .. Len(list) :
                 /\ list[i] \in Entry /\ list[i].id \in OrderIDs /\ list[i].price \in Int
                 /\ list[i].price \in Prices /\ list[i].quantity \in Nat /\ list[i].quantity > 0
  <1>1. list \in Seq(Entry) /\ Len(list) \in Nat /\ DOMAIN list = 1 .. Len(list)
    BY DEF IsList
  <1>2. \A i \in 1 .. Len(list) : list[i] \in Entry /\ list[i].quantity > 0
    BY <1>1 DEF IsList
  <1> QED
    BY <1>1, <1>2 DEF Entry, Prices

\* The quantities of the first orders of a list, one order more at a time.
Sums(v, list, n) ==
    /\ v[0] = 0
    /\ \A k \in 0 .. n : v[k] \in Nat
    /\ \A k \in 0 .. n - 1 : v[k + 1] = v[k] + list[k + 1].quantity

\* QuantityOf adds them up.
LEMMA QuantityIsSum ==
    ASSUME NEW list \in Seq(Entry), NEW n \in 0 .. Len(list)
    PROVE  \E v : Sums(v, list, n) /\ QuantityOf(list, n) = v[n]
  <1> DEFINE S == 1 .. n
             f == [i \in S |-> list[i].quantity]
             Choice(g) == g = [t \in SUBSET S |->
                                IF t = {} THEN 0
                                ELSE list[CHOOSE x \in t : TRUE].quantity
                                     + g[t \ {CHOOSE x \in t : TRUE}]]
             h == CHOOSE g : Choice(g)
             v == [k \in 0 .. n |-> h[1 .. k]]
  <1>1. n \in Nat /\ f \in [S -> Nat] /\ IsFiniteSet(S)
    <2>1. n \in Nat /\ n <= Len(list) /\ Len(list) \in Nat
      OBVIOUS
    <2>2. \A i \in 1 .. n : list[i] \in Entry
      BY <2>1
    <2>3. f \in [S -> Nat]
      BY <2>2 DEF Entry
    <2>4. IsFiniteSet(S)
      BY <2>1, FS_Interval
    <2> QED
      BY <2>1, <2>3, <2>4
  <1>2. \A g : Choice(g) <=> SumUnfolds(g, f, SUBSET S)
    <2>1. ASSUME NEW t \in SUBSET S, t # {}
          PROVE  f[CHOOSE x \in t : TRUE] = list[CHOOSE x \in t : TRUE].quantity
      BY <2>1
    <2> HIDE DEF f, S
    <2> QED
      BY <2>1 DEF SumUnfolds
  <1>3. QuantityOf(list, n) = h[S]
    BY DEF QuantityOf, MapThenSumSet, MapThenFoldSet
  <1>4. SumUnfolds(h, f, SUBSET S)
    <2> HIDE DEF f, S, Choice
    <2>1. \E g : Choice(g)
      BY <1>1, <1>2, SumExists
    <2> QED
      BY <1>2, <2>1
  <1> HIDE DEF h, Choice
  <1>5. Summands(Nat, h, f, SUBSET S)
    <2> HIDE DEF S, f
    <2> DEFINE V == Nat
    <2>1. V \in {Nat, Int} /\ f \in [S -> V]
      BY <1>1
    <2> HIDE DEF V
    <2>2. Summands(V, h, f, SUBSET S)
      BY <1>1, <1>4, <2>1, SumSummand
    <2> QED
      BY <2>2 DEF V
  <1>6. v[0] = 0
    <2>1. 1 .. 0 = {} /\ {} \in SUBSET S /\ 0 \in 0 .. n
      BY <1>1
    <2>2. h[{}] = 0
      BY <1>4, <2>1 DEF SumUnfolds
    <2> QED
      BY <2>1, <2>2
  <1>7. ASSUME NEW k \in 0 .. n PROVE v[k] \in Nat
    <2>1. 1 .. k \in SUBSET S
      BY <1>1
    <2> QED
      BY <1>5, <2>1 DEF Summands
  <1>8. ASSUME NEW k \in 0 .. n - 1 PROVE v[k + 1] = v[k] + list[k + 1].quantity
    <2>1. /\ k \in Nat /\ k \in 0 .. n /\ k + 1 \in 0 .. n /\ k + 1 \in S
          /\ 1 .. k + 1 \in SUBSET S /\ k + 1 \in 1 .. k + 1
      <3>1. k \in Nat /\ k + 1 <= n
        BY <1>1
      <3> QED
        BY <1>1, <3>1
    <2>2. (1 .. k + 1) \ {k + 1} = 1 .. k
      BY <2>1
    <2>3. h[1 .. k + 1] = f[k + 1] + h[(1 .. k + 1) \ {k + 1}]
      <3> DEFINE t == 1 .. k + 1
                 x == k + 1
      <3>1. t \in SUBSET S /\ x \in t
        BY <2>1
      <3> HIDE DEF t, x, f, S
      <3>2. h[t] = f[x] + h[t \ {x}]
        BY <1>5, <3>1 DEF Summands
      <3> QED
        BY <3>2 DEF t, x
    <2>4. v[k] = h[1 .. k] /\ v[k + 1] = h[1 .. k + 1] /\ f[k + 1] = list[k + 1].quantity
      BY <2>1
    <2>5. v[k] \in Nat /\ f[k + 1] \in Nat
      BY <1>1, <1>7, <2>1
    <2>6. h[1 .. k + 1] = f[k + 1] + h[1 .. k]
      BY <2>2, <2>3
    <2> HIDE DEF v, f
    <2> QED
      BY <2>4, <2>5, <2>6
  <1>9. v[n] = h[S]
    BY <1>1
  <1> HIDE DEF v
  <1>10. Sums(v, list, n)
    BY <1>6, <1>7, <1>8 DEF Sums
  <1> QED
    BY <1>3, <1>9, <1>10

\* There is one way to add them up.
LEMMA SumsAreUnique ==
    ASSUME NEW list, NEW n \in Nat, NEW v, NEW w, Sums(v, list, n), Sums(w, list, n)
    PROVE  v[n] = w[n]
  <1> DEFINE N == {k \in Nat : k <= n => v[k] = w[k]}
  <1>1. 0 \in N
    BY DEF Sums
  <1>2. ASSUME NEW k \in N PROVE k + 1 \in N
    <2> SUFFICES ASSUME k + 1 <= n PROVE v[k + 1] = w[k + 1]
      OBVIOUS
    <2>1. k \in 0 .. n - 1 /\ v[k] = w[k]
      OBVIOUS
    <2> QED
      BY <2>1 DEF Sums
  <1>3. N = Nat
    <2> HIDE DEF N
    <2>1. N \in SUBSET Nat
      BY DEF N
    <2> QED
      BY <1>1, <1>2, <2>1, NaturalsByInduction
  <1> QED
    BY <1>3

\* One order more adds its quantity.
LEMMA QuantityOfMore ==
    ASSUME NEW list \in Seq(Entry), NEW n \in 0 .. Len(list)
    PROVE  /\ QuantityOf(list, n) \in Nat
           /\ n = 0 => QuantityOf(list, n) = 0
           /\ n < Len(list) =>
                QuantityOf(list, n + 1) = QuantityOf(list, n) + list[n + 1].quantity
  <1>1. n \in Nat /\ Len(list) \in Nat
    OBVIOUS
  <1>2. PICK v : Sums(v, list, n) /\ QuantityOf(list, n) = v[n]
    BY QuantityIsSum
  <1>3. QuantityOf(list, n) \in Nat /\ (n = 0 => QuantityOf(list, n) = 0)
    BY <1>1, <1>2 DEF Sums
  <1>4. ASSUME n < Len(list)
        PROVE  QuantityOf(list, n + 1) = QuantityOf(list, n) + list[n + 1].quantity
    <2>1. n + 1 \in 0 .. Len(list)
      BY <1>1, <1>4
    <2>2. PICK w : Sums(w, list, n + 1) /\ QuantityOf(list, n + 1) = w[n + 1]
      BY <2>1, QuantityIsSum
    <2>3. Sums(w, list, n) /\ w[n + 1] = w[n] + list[n + 1].quantity
      BY <1>1, <2>2 DEF Sums
    <2>4. v[n] = w[n]
      BY <1>1, <1>2, <2>3, SumsAreUnique
    <2> QED
      BY <1>2, <2>2, <2>3, <2>4
  <1> QED
    BY <1>3, <1>4

-----------------------------------------------------------------------------
(* Matching on one list.                                                   *)

\* Where a price comes in such a list: behind the orders that are not worse.
LEMMA ReachedSplits ==
    ASSUME NEW s \in Side, NEW list, IsList(s, list), NEW price \in Prices
    PROVE  /\ Reached(s, list, price) \in 0 .. Len(list)
           /\ \A i \in 1 .. Len(list) :
                i <= Reached(s, list, price) <=> ~ Better(s, price, list[i].price)
  <1> DEFINE Splits(n) == \A i \in 1 .. Len(list) : i <= n <=> ~ Better(s, price, list[i].price)
             Worse == {i \in 1 .. Len(list) : Better(s, price, list[i].price)}
  <1>1. Len(list) \in Nat /\ DOMAIN list = 1 .. Len(list)
        /\ price \in Int /\ \A i \in 1 .. Len(list) : list[i].price \in Int
    BY ListOrders, BoundAssumption DEF Prices
  <1>2. \E n \in 0 .. Len(list) : Splits(n)
    <2>1. CASE Worse = {}
      <3>1. Len(list) \in 0 .. Len(list)
        BY <1>1
      <3>2. Splits(Len(list))
        BY <1>1, <2>1
      <3> QED
        BY <3>1, <3>2
    <2>2. CASE Worse # {}
      <3>1. Worse \in SUBSET Nat
        BY <1>1
      <3>2. PICK w \in Worse : \A y \in Worse : w <= y
        <4> HIDE DEF Worse
        <4> QED
          BY <2>2, <3>1, LeastNatural
      <3>3. w - 1 \in 0 .. Len(list) /\ w \in 1 .. Len(list)
        BY <1>1
      <3>4. ASSUME NEW i \in 1 .. Len(list)
            PROVE  i <= w - 1 <=> ~ Better(s, price, list[i].price)
        <4>1. i <= w - 1 => ~ Better(s, price, list[i].price)
          BY <3>2, <3>3
        <4>2. ASSUME w < i PROVE Better(s, price, list[i].price)
          <5>1. ~ Better(s, list[i].price, list[w].price)
            BY <1>1, <3>3, <4>2 DEF IsList
          <5>2. Better(s, price, list[w].price)
            BY <3>2
          <5>3. list[i].price \in Int /\ list[w].price \in Int /\ price \in Int
            BY <1>1, <3>3
          <5> QED
            BY <5>1, <5>2, <5>3 DEF Better
        <4>3. Better(s, price, list[w].price)
          BY <3>2
        <4> QED
          BY <3>3, <4>1, <4>2, <4>3
      <3>5. Splits(w - 1)
        BY <3>4
      <3> QED
        BY <3>3, <3>5
    <2> QED
      BY <2>1, <2>2
  <1>3. Reached(s, list, price) = CHOOSE n \in 0 .. Len(list) : Splits(n)
    BY <1>1 DEF Reached
  <1> HIDE DEF Splits
  <1>4. Reached(s, list, price) \in 0 .. Len(list) /\ Splits(Reached(s, list, price))
    BY <1>2, <1>3
  <1> QED
    BY <1>4 DEF Splits

\* How many orders a quantity fills: it lasts for them, and not for the next.
LEMMA FilledSplits ==
    ASSUME NEW s \in Side, NEW list, IsList(s, list), NEW price \in Prices, NEW q \in Nat
    PROVE  /\ Filled(s, list, price, q) \in 0 .. Reached(s, list, price)
           /\ QuantityOf(list, Filled(s, list, price, q)) <= q
           /\ Filled(s, list, price, q) < Reached(s, list, price) =>
                QuantityOf(list, Filled(s, list, price, q) + 1) > q
  <1> DEFINE r == Reached(s, list, price)
             Sum(m) == QuantityOf(list, m)
             Enough(n) == Sum(n) <= q /\ (n < r => Sum(n + 1) > q)
             M == {m \in Nat : m <= r /\ (m < r => Sum(m + 1) > q)}
  <1>1. r \in Nat /\ r \in 0 .. Len(list) /\ list \in Seq(Entry) /\ Len(list) \in Nat
    BY ReachedSplits, ListOrders
  <1>2. \A m \in 0 .. r : Sum(m) \in Nat /\ (m = 0 => Sum(m) = 0)
    BY <1>1, QuantityOfMore
  <1>3. Filled(s, list, price, q) = CHOOSE n \in 0 .. r : Enough(n)
    BY DEF Filled
  <1> HIDE DEF r, Sum
  <1>4. r \in M
    BY <1>1
  <1>5. PICK n \in M : \A m \in M : n <= m
    <2> HIDE DEF M
    <2>1. M \in SUBSET Nat
      BY DEF M
    <2> QED
      BY <1>4, <2>1, LeastNatural
  <1>6. n \in 0 .. r /\ (n < r => Sum(n + 1) > q)
    BY <1>1, <1>5
  <1>7. Sum(n) <= q
    <2>1. CASE n = 0
      BY <1>2, <1>6, <2>1
    <2>2. CASE n # 0
      <3> DEFINE k == n - 1
      <3>1. k \in Nat /\ k < r /\ k < n /\ n \in Nat /\ k + 1 = n
        BY <1>1, <1>6, <2>2
      <3> HIDE DEF k, M
      <3>2. k \notin M
        BY <1>5, <3>1
      <3>3. ~ (Sum(k + 1) > q)
        BY <1>1, <3>1, <3>2 DEF M
      <3>4. ~ (Sum(n) > q)
        BY <3>1, <3>3
      <3> QED
        BY <1>2, <1>6, <3>4
    <2> QED
      BY <2>1, <2>2
  <1>8. \E m \in 0 .. r : Enough(m)
    BY <1>6, <1>7
  <1> HIDE DEF Enough
  <1>9. Filled(s, list, price, q) \in 0 .. r /\ Enough(Filled(s, list, price, q))
    BY <1>3, <1>8
  <1> QED
    BY <1>9 DEF Enough, r, Sum

\* Order x is order y with perhaps less of its quantity.
IsPartOf(x, y) == x.id = y.id /\ x.price = y.price /\ x.quantity <= y.quantity

\* What a match leaves and what it takes.
LEMMA Leftover ==
    ASSUME NEW s \in Side, NEW list, IsList(s, list), NEW price \in Prices, NEW q \in Nat,
           NEW n, n = Filled(s, list, price, q), NEW r, r = Reached(s, list, price),
           NEW left, left = q - QuantityOf(list, n)
    PROVE  /\ n \in 0 .. Len(list) /\ r \in 0 .. Len(list) /\ n <= r
           /\ left \in Nat /\ left <= q
           /\ n < r => n + 1 \in 1 .. Len(list) /\ left < list[n + 1].quantity
           /\ n = 0 => left = q
           /\ q = 0 => n = 0
  <1>1. /\ list \in Seq(Entry) /\ Len(list) \in Nat
        /\ \A i \in 1 .. Len(list) : list[i].quantity \in Nat /\ list[i].quantity > 0
    BY ListOrders
  <1>2. r \in 0 .. Len(list)
    BY ReachedSplits
  <1>3. n \in 0 .. r /\ QuantityOf(list, n) <= q /\ (n < r => QuantityOf(list, n + 1) > q)
    BY FilledSplits
  <1>4. n \in 0 .. Len(list) /\ n <= r
    BY <1>1, <1>2, <1>3
  <1>5. /\ QuantityOf(list, n) \in Nat /\ (n = 0 => QuantityOf(list, n) = 0)
        /\ n < Len(list) => QuantityOf(list, n + 1) = QuantityOf(list, n) + list[n + 1].quantity
    BY <1>1, <1>4, QuantityOfMore
  <1>6. left \in Nat /\ left <= q /\ (n = 0 => left = q)
    BY <1>3, <1>5
  <1>7. ASSUME n < r PROVE n + 1 \in 1 .. Len(list) /\ left < list[n + 1].quantity
    <2>1. n < Len(list) /\ n + 1 \in 1 .. Len(list)
      BY <1>1, <1>2, <1>3, <1>7
    <2>2. list[n + 1].quantity \in Nat
      BY <1>1, <2>1
    <2> QED
      BY <1>3, <1>5, <1>7, <2>1, <2>2
  <1>8. ASSUME q = 0, n # 0 PROVE FALSE
    <2>1. n - 1 \in 0 .. Len(list) /\ n - 1 < Len(list) /\ (n - 1) + 1 = n /\ n \in 1 .. Len(list)
      BY <1>1, <1>4, <1>8
    <2>2. QuantityOf(list, n - 1) \in Nat
          /\ QuantityOf(list, n) = QuantityOf(list, n - 1) + list[n].quantity
      BY <1>1, <2>1, QuantityOfMore
    <2>3. list[n].quantity \in Nat /\ list[n].quantity > 0
      BY <1>1, <2>1
    <2> QED
      BY <1>3, <1>8, <2>2, <2>3
  <1> QED
    BY <1>2, <1>4, <1>6, <1>7, <1>8

\* The orders that stay after a match are a list again, and parts of orders
\* that were there.
LEMMA StayIsList ==
    ASSUME NEW s \in Side, NEW list, IsList(s, list), NEW price \in Prices, NEW q \in Nat
    PROVE  /\ IsList(s, StayOf(s, list, price, q))
           /\ \A i \in 1 .. Len(StayOf(s, list, price, q)) :
                \E j \in 1 .. Len(list) : IsPartOf(StayOf(s, list, price, q)[i], list[j])
           /\ RestOf(s, list, price, q) \in 0 .. q
  <1> DEFINE n == Filled(s, list, price, q)
             r == Reached(s, list, price)
             left == q - QuantityOf(list, n)
             stay == StayOf(s, list, price, q)
             m == Len(list) - n
  <1>1. /\ n \in 0 .. Len(list) /\ r \in 0 .. Len(list) /\ n <= r
        /\ left \in Nat /\ left <= q
        /\ n < r => n + 1 \in 1 .. Len(list) /\ left < list[n + 1].quantity
    BY Leftover
  <1>2. /\ list \in Seq(Entry) /\ Len(list) \in Nat
        /\ \A i \in 1 .. Len(list) : list[i] \in Entry /\ list[i].quantity \in Nat
                                     /\ list[i].quantity > 0
    BY ListOrders
  <1>3. stay = [i \in 1 .. m |-> IF i = 1 /\ n < r
                                 THEN [list[n + 1] EXCEPT !.quantity = @ - left]
                                 ELSE list[n + i]]
    BY DEF StayOf
  <1>4. RestOf(s, list, price, q) \in 0 .. q
    BY <1>1 DEF RestOf
  <1> HIDE DEF n, r, left, stay
  <1>5. m \in Nat /\ \A i \in 1 .. m : n + i \in 1 .. Len(list)
    BY <1>1, <1>2
  <1>6. ASSUME NEW i \in 1 .. m
        PROVE  /\ stay[i] \in Entry /\ stay[i].quantity > 0
               /\ stay[i].id = list[n + i].id /\ stay[i].price = list[n + i].price
               /\ stay[i].quantity <= list[n + i].quantity
    <2>1. list[n + i] \in Entry /\ list[n + i].quantity \in Nat /\ list[n + i].quantity > 0
      BY <1>2, <1>5
    <2>2. CASE i = 1 /\ n < r
      <3>1. stay[i] = [list[n + i] EXCEPT !.quantity = @ - left]
        BY <1>3, <2>2
      <3>2. left < list[n + i].quantity
        BY <1>1, <2>2
      <3>3. /\ stay[i].quantity = list[n + i].quantity - left
            /\ stay[i].id = list[n + i].id /\ stay[i].price = list[n + i].price
        BY <2>1, <3>1 DEF Entry
      <3>4. list[n + i].quantity - left \in Nat
        BY <1>1, <2>1, <3>2
      <3>5. stay[i] \in Entry
        BY <2>1, <3>1, <3>4 DEF Entry
      <3> QED
        BY <1>1, <2>1, <3>2, <3>3, <3>5
    <2>3. CASE ~ (i = 1 /\ n < r)
      BY <1>3, <2>1, <2>3
    <2> QED
      BY <2>2, <2>3
  <1>7. stay \in Seq(Entry) /\ Len(stay) = m
    <2>1. stay = [i \in 1 .. m |-> stay[i]]
      BY <1>3
    <2>2. stay \in [1 .. m -> Entry]
      BY <1>6, <2>1
    <2> QED
      BY <1>5, <2>2
  <1>8. ASSUME NEW i \in 1 .. m, NEW j \in 1 .. m
        PROVE  /\ i < j => ~ Better(s, stay[j].price, stay[i].price)
               /\ stay[i].id = stay[j].id => i = j
    <2>1. n + i \in 1 .. Len(list) /\ n + j \in 1 .. Len(list)
      BY <1>5
    <2>2. (i < j => n + i < n + j) /\ (n + i = n + j => i = j)
      BY <1>1
    <2>3. (n + i < n + j => ~ Better(s, list[n + j].price, list[n + i].price))
          /\ (list[n + i].id = list[n + j].id => n + i = n + j)
      BY <2>1 DEF IsList
    <2> QED
      BY <1>6, <2>2, <2>3
  <1>9. IsList(s, stay)
    BY <1>6, <1>7, <1>8 DEF IsList
  <1>10. \A i \in 1 .. Len(stay) : \E j \in 1 .. Len(list) : IsPartOf(stay[i], list[j])
    BY <1>5, <1>6, <1>7 DEF IsPartOf
  <1> QED
    BY <1>4, <1>9, <1>10 DEF stay

\* A quantity that is zero or reaches no order trades with none.
LEMMA NothingMatches ==
    ASSUME NEW s \in Side, NEW list, IsList(s, list), NEW price \in Prices, NEW q \in Nat,
           q = 0 \/ \A i \in 1 .. Len(list) : Better(s, price, list[i].price)
    PROVE  /\ StayOf(s, list, price, q) = list
           /\ TradesOf(s, list, price, q) = <<>>
           /\ RestOf(s, list, price, q) = q
  <1> DEFINE n == Filled(s, list, price, q)
             r == Reached(s, list, price)
             left == q - QuantityOf(list, n)
  <1>1. /\ n \in 0 .. Len(list) /\ r \in 0 .. Len(list) /\ n <= r
        /\ n = 0 => left = q
        /\ q = 0 => n = 0
    BY Leftover
  <1>2. /\ list \in Seq(Entry) /\ Len(list) \in Nat
        /\ \A i \in 1 .. Len(list) : list[i] \in Entry /\ list[i].quantity \in Nat
    BY ListOrders
  <1>3. \A i \in 1 .. Len(list) : i <= r <=> ~ Better(s, price, list[i].price)
    BY ReachedSplits
  <1>4. ASSUME q # 0 PROVE r = 0
    <2>1. \A i \in 1 .. Len(list) : ~ (i <= r)
      BY <1>3, <1>4
    <2>2. r # 0 => r \in 1 .. Len(list)
      BY <1>1
    <2> HIDE DEF r
    <2> QED
      BY <1>1, <2>1, <2>2
  <1>5. n = 0 /\ left = q /\ (r = 0 \/ left = 0)
    <2> HIDE DEF n, r, left
    <2> QED
      BY <1>1, <1>4
  <1>6. RestOf(s, list, price, q) = q
    BY <1>5 DEF RestOf
  <1>7. TradesOf(s, list, price, q) = <<>>
    <2>1. [i \in 1 .. 0 |-> TradeWith(list[i], list[i].quantity)] = <<>>
      OBVIOUS
    <2>2. ~ (n < r /\ left > 0)
      BY <1>5
    <2>3. TradesOf(s, list, price, q) = [i \in 1 .. n |-> TradeWith(list[i], list[i].quantity)]
      BY <2>2 DEF TradesOf
    <2> HIDE DEF n
    <2> QED
      BY <1>5, <2>1, <2>3
  <1>8. StayOf(s, list, price, q) = list
    <2>1. StayOf(s, list, price, q)
            = [i \in 1 .. Len(list) - n |-> IF i = 1 /\ n < r
                  THEN [list[n + 1] EXCEPT !.quantity = @ - left] ELSE list[n + i]]
      BY DEF StayOf
    <2> HIDE DEF n, r, left
    <2>2. ASSUME NEW i \in 1 .. Len(list)
          PROVE  (IF i = 1 /\ n < r
                  THEN [list[n + 1] EXCEPT !.quantity = @ - left] ELSE list[n + i]) = list[i]
      <3>1. CASE i = 1 /\ n < r
        <4>1. left = 0 /\ n = 0
          BY <1>5, <3>1
        <4>2. list[1] \in Entry
          BY <1>2, <3>1
        <4>3. [list[1] EXCEPT !.quantity = @ - 0] = list[1]
          BY <4>2 DEF Entry
        <4> QED
          BY <3>1, <4>1, <4>3
      <3>2. CASE ~ (i = 1 /\ n < r)
        BY <1>2, <1>5, <3>2
      <3> QED
        BY <3>1, <3>2
    <2>3. Len(list) - n = Len(list)
      BY <1>2, <1>5
    <2>4. StayOf(s, list, price, q) = [i \in 1 .. Len(list) |-> list[i]]
      BY <2>1, <2>2, <2>3
    <2>5. list = [i \in 1 .. Len(list) |-> list[i]]
      BY <1>2
    <2> QED
      BY <2>4, <2>5
  <1> QED
    BY <1>6, <1>7, <1>8

-----------------------------------------------------------------------------
(* Joining and leaving a list.                                             *)

\* Putting an element at one position of a sequence.
LEMMA InsertAtProperties ==
    ASSUME NEW S, NEW q \in Seq(S), NEW k \in 1 .. Len(q) + 1, NEW e \in S
    PROVE  /\ InsertAt(q, k, e) \in Seq(S)
           /\ Len(InsertAt(q, k, e)) = Len(q) + 1
           /\ \A i \in 1 .. Len(q) + 1 :
                 InsertAt(q, k, e)[i] = IF i < k THEN q[i] ELSE IF i = k THEN e ELSE q[i - 1]
  <1> DEFINE front == SubSeq(q, 1, k - 1)
             back == SubSeq(q, k, Len(q))
             head == front \o <<e>>
             all == head \o back
  <1>0. k \in Nat /\ k >= 1 /\ Len(q) \in Nat /\ k <= Len(q) + 1
    OBVIOUS
  <1>1. /\ front \in Seq(S)
        /\ Len(front) = k - 1
        /\ \A i \in 1 .. k - 1 : front[i] = q[i]
    <2>1. \A i \in 1 .. k - 1 : q[i] \in S
      BY <1>0
    <2>2. k - 1 \in Int /\ Len(front) = IF 1 <= k - 1 THEN k - 1 - 1 + 1 ELSE 0
      BY <1>0, <2>1, SubSeqProperties
    <2> QED
      BY <1>0, <2>1, <2>2, SubSeqProperties
  <1>2. /\ back \in Seq(S)
        /\ Len(back) = Len(q) - k + 1
        /\ \A i \in 1 .. Len(q) - k + 1 : back[i] = q[k + i - 1]
    <2>1. \A i \in k .. Len(q) : q[i] \in S
      BY <1>0
    <2>2. Len(back) = IF k <= Len(q) THEN Len(q) - k + 1 ELSE 0
      BY <1>0, <2>1, SubSeqProperties
    <2> QED
      BY <1>0, <2>1, <2>2, SubSeqProperties
  <1>3. InsertAt(q, k, e) = all
    BY DEF InsertAt
  <1>4. <<e>> \in Seq(S) /\ Len(<<e>>) = 1 /\ <<e>>[1] = e
    OBVIOUS
  <1> DEFINE single == <<e>>
  <1> HIDE DEF front, back, single
  <1>5. /\ head \in Seq(S) /\ Len(head) = k
        /\ \A i \in 1 .. k : head[i] = IF i < k THEN q[i] ELSE e
    <2>1. /\ front \o single \in Seq(S)
          /\ Len(front \o single) = Len(front) + Len(single)
          /\ \A i \in 1 .. Len(front) + Len(single) :
                (front \o single)[i] = IF i <= Len(front) THEN front[i]
                                       ELSE single[i - Len(front)]
      BY <1>1, <1>4, ConcatProperties DEF single
    <2>2. head = front \o single /\ Len(front) + Len(single) = k
      BY <1>0, <1>1, <1>4 DEF single
    <2>3. ASSUME NEW i \in 1 .. k PROVE head[i] = IF i < k THEN q[i] ELSE e
      <3>1. head[i] = IF i <= k - 1 THEN front[i] ELSE single[i - (k - 1)]
        BY <1>1, <2>1, <2>2
      <3>2. CASE i < k
        <4>1. i <= k - 1 /\ i \in 1 .. k - 1
          BY <1>0, <3>2
        <4> QED
          BY <1>1, <3>1, <3>2, <4>1
      <3>3. CASE ~ (i < k)
        <4>1. ~ (i <= k - 1) /\ i - (k - 1) = 1
          BY <1>0, <3>3
        <4> QED
          BY <1>4, <3>1, <3>3, <4>1 DEF single
      <3> QED
        BY <3>2, <3>3
    <2> QED
      BY <2>1, <2>2, <2>3
  <1> HIDE DEF head
  <1>6. /\ all \in Seq(S) /\ Len(all) = k + (Len(q) - k + 1)
        /\ \A i \in 1 .. k + (Len(q) - k + 1) :
              all[i] = IF i <= k THEN head[i] ELSE back[i - k]
    <2>1. /\ head \o back \in Seq(S)
          /\ Len(head \o back) = Len(head) + Len(back)
          /\ \A i \in 1 .. Len(head) + Len(back) :
                (head \o back)[i] = IF i <= Len(head) THEN head[i] ELSE back[i - Len(head)]
      BY <1>2, <1>5, ConcatProperties
    <2>2. Len(head) = k /\ Len(back) = Len(q) - k + 1
      BY <1>2, <1>5
    <2> QED
      BY <2>1, <2>2
  <1>7. k + (Len(q) - k + 1) = Len(q) + 1
    BY <1>0
  <1> HIDE DEF all
  <1>8. ASSUME NEW i \in 1 .. Len(q) + 1
        PROVE  all[i] = IF i < k THEN q[i] ELSE IF i = k THEN e ELSE q[i - 1]
    <2>1. all[i] = IF i <= k THEN head[i] ELSE back[i - k]
      BY <1>6, <1>7
    <2>2. CASE i <= k
      <3>1. i \in 1 .. k
        BY <1>0, <2>2
      <3>2. all[i] = IF i < k THEN q[i] ELSE e
        BY <1>5, <2>1, <2>2, <3>1
      <3>3. ~ (i < k) => i = k
        BY <1>0, <2>2
      <3> QED
        BY <3>2, <3>3
    <2>3. CASE ~ (i <= k)
      <3>1. i - k \in 1 .. Len(q) - k + 1 /\ k + (i - k) - 1 = i - 1 /\ ~ (i < k) /\ i # k
        BY <1>0, <2>3
      <3>2. back[i - k] = q[k + (i - k) - 1]
        BY <1>2, <3>1
      <3> QED
        BY <2>1, <2>3, <3>1, <3>2
    <2> QED
      BY <2>2, <2>3
  <1> QED
    BY <1>3, <1>6, <1>7, <1>8

\* An order that joins a list where it is not known leaves it a list, with the
\* order in it unless it is empty.
LEMMA JoinIsList ==
    ASSUME NEW s \in Side, NEW list, IsList(s, list), NEW e \in Entry,
           \A i \in 1 .. Len(list) : list[i].id # e.id
    PROVE  /\ IsList(s, Join(s, list, e))
           /\ Range(Join(s, list, e)) = Range(list) \cup {x \in {e} : x.quantity > 0}
  <1>1. /\ list \in Seq(Entry) /\ Len(list) \in Nat /\ DOMAIN list = 1 .. Len(list)
        /\ \A i \in 1 .. Len(list) : list[i].quantity > 0 /\ list[i].price \in Int
    BY ListOrders
  <1>2. e.quantity \in Nat /\ e.price \in Prices /\ e.price \in Int
    BY DEF Entry, Prices
  <1>3. CASE e.quantity = 0
    BY <1>1, <1>3 DEF Join, Range
  <1>4. CASE e.quantity # 0
    <2> DEFINE r == Reached(s, list, e.price)
               k == r + 1
               n == Len(list)
               new == InsertAt(list, k, e)
    <2>1. r \in 0 .. n /\ \A i \in 1 .. n : i <= r <=> ~ Better(s, e.price, list[i].price)
      BY <1>2, ReachedSplits
    <2>2. Join(s, list, e) = new
      BY <1>4 DEF Join
    <2>3. k \in 1 .. n + 1 /\ n \in Nat /\ k \in Nat /\ r = k - 1
      BY <1>1, <2>1
    <2>4. \A i \in 1 .. n : i < k <=> ~ Better(s, e.price, list[i].price)
      <3> HIDE DEF r, k
      <3> QED
        BY <2>1, <2>3
    <2> HIDE DEF r, k
    <2>5. /\ new \in Seq(Entry) /\ Len(new) = n + 1 /\ DOMAIN new = 1 .. n + 1
          /\ \A i \in 1 .. n + 1 :
                new[i] = IF i < k THEN list[i] ELSE IF i = k THEN e ELSE list[i - 1]
      <3>1. /\ new \in Seq(Entry) /\ Len(new) = n + 1
            /\ \A i \in 1 .. n + 1 :
                new[i] = IF i < k THEN list[i] ELSE IF i = k THEN e ELSE list[i - 1]
        BY <1>1, <2>3, InsertAtProperties
      <3> QED
        BY <3>1
    <2> HIDE DEF new
    <2>6. \A i \in 1 .. n + 1 :
             /\ i < k => i \in 1 .. n /\ new[i] = list[i]
             /\ i = k => new[i] = e
             /\ i > k => i - 1 \in 1 .. n /\ new[i] = list[i - 1] /\ ~ (i - 1 < k)
      <3> HIDE DEF n
      <3> QED
        BY <2>3, <2>5
    <2> HIDE DEF n
    <2>7. \A i \in 1 .. n + 1 : new[i].quantity > 0
      <3> TAKE i \in 1 .. n + 1
      <3>1. CASE i < k
        BY <1>1, <2>6, <3>1 DEF n
      <3>2. CASE i = k
        BY <1>2, <1>4, <2>6, <3>2
      <3>3. CASE i > k
        BY <1>1, <2>6, <3>3 DEF n
      <3> QED
        BY <2>3, <3>1, <3>2, <3>3
    <2>8. ASSUME NEW i \in 1 .. n + 1, NEW j \in 1 .. n + 1, i < j
          PROVE  ~ Better(s, new[j].price, new[i].price) /\ new[i].id # new[j].id
      <3>1. \A x, y \in 1 .. n : x < y =>
               ~ Better(s, list[y].price, list[x].price) /\ list[x].id # list[y].id
        BY <1>1 DEF IsList, n
      <3>2. CASE j < k
        BY <2>3, <2>6, <2>8, <3>1, <3>2
      <3>3. CASE j = k
        BY <2>3, <2>4, <2>6, <2>8, <3>3 DEF n
      <3>4. CASE j > k /\ i < k
        <4>1. i < j - 1 /\ j - 1 \in 1 .. n /\ i \in 1 .. n
          BY <2>3, <2>6, <3>4
        <4> QED
          BY <2>6, <3>1, <3>4, <4>1
      <3>5. CASE j > k /\ i = k
        <4>1. j - 1 \in 1 .. n /\ ~ (j - 1 < k) /\ new[j] = list[j - 1] /\ new[i] = e
          BY <2>6, <3>5
        <4>2. Better(s, e.price, list[j - 1].price)
          BY <2>4, <4>1
        <4>3. list[j - 1].price \in Int /\ list[j - 1].id # e.id
          BY <1>1, <4>1 DEF n
        <4> QED
          BY <1>2, <4>1, <4>2, <4>3 DEF Better
      <3>6. CASE j > k /\ i > k
        <4>1. i - 1 < j - 1 /\ i - 1 \in 1 .. n /\ j - 1 \in 1 .. n
          BY <2>3, <2>6, <2>8, <3>6
        <4> QED
          BY <2>6, <3>1, <3>6, <4>1
      <3> QED
        BY <2>3, <3>2, <3>3, <3>4, <3>5, <3>6
    <2>9. \A i, j \in 1 .. n + 1 : new[i].id = new[j].id => i = j
      BY <2>3, <2>8
    <2>10. IsList(s, new)
      BY <2>5, <2>7, <2>8, <2>9 DEF IsList
    <2>11. ASSUME NEW x PROVE x \in Range(new) <=> x \in Range(list) \/ x = e
      <3>1. Range(new) = {new[i] : i \in 1 .. n + 1} /\ Range(list) = {list[i] : i \in 1 .. n}
        BY <1>1, <2>5 DEF Range, n
      <3>2. ASSUME NEW i \in 1 .. n + 1 PROVE new[i] \in Range(list) \/ new[i] = e
        BY <2>3, <2>6, <3>1
      <3>3. e \in Range(new)
        BY <2>3, <2>6, <3>1
      <3>4. ASSUME NEW i \in 1 .. n PROVE list[i] \in Range(new)
        <4>1. CASE i < k
          <5>1. i \in 1 .. n + 1
            BY <2>3
          <5> QED
            BY <2>6, <3>1, <4>1, <5>1
        <4>2. CASE ~ (i < k)
          <5>1. i + 1 \in 1 .. n + 1 /\ i + 1 > k /\ (i + 1) - 1 = i
            BY <2>3, <4>2
          <5>2. new[i + 1] = list[i]
            BY <2>6, <5>1
          <5> QED
            BY <3>1, <5>1, <5>2
        <4> QED
          BY <4>1, <4>2
      <3> QED
        BY <3>1, <3>2, <3>3, <3>4
    <2>12. Range(new) = Range(list) \cup {x \in {e} : x.quantity > 0}
      BY <1>2, <1>4, <2>11
    <2> QED
      BY <2>2, <2>10, <2>12
  <1> QED
    BY <1>3, <1>4

-----------------------------------------------------------------------------
(* Books.                                                                  *)

\* A book: a list per side, and no order on both.
IsBook(b) ==
    /\ b \in [Side -> Seq(Entry)]
    /\ \A s \in Side : IsList(s, b[s])
    /\ \A x \in Range(b["BID"]), y \in Range(b["ASK"]) : x.id # y.id

\* An order of a list of side s as OrdersIn shows it.
Seen(s, o) == [id |-> o.id, side |-> s, price |-> o.price, quantity |-> o.quantity]

\* The orders that OrdersIn shows.
Listed == [id : OrderIDs, side : Side, price : Prices, quantity : Nat]

\* A list as the set of its orders.
LEMMA ListRange ==
    ASSUME NEW s, NEW list, IsList(s, list)
    PROVE  /\ Range(list) = {list[i] : i \in 1 .. Len(list)}
           /\ IDsOf(list) = {o.id : o \in Range(list)}
           /\ \A o \in Range(list) : /\ o \in Entry /\ o.id \in OrderIDs /\ o.price \in Prices
                                     /\ o.quantity \in Nat /\ o.quantity > 0
           /\ \A o, p \in Range(list) : o.id = p.id => o = p
  <1>1. DOMAIN list = 1 .. Len(list)
        /\ \A i \in 1 .. Len(list) : /\ list[i] \in Entry /\ list[i].id \in OrderIDs
                                     /\ list[i].price \in Prices
                                     /\ list[i].quantity \in Nat /\ list[i].quantity > 0
    BY ListOrders
  <1>2. Range(list) = {list[i] : i \in 1 .. Len(list)}
    BY <1>1 DEF Range
  <1>3. IDsOf(list) = {o.id : o \in Range(list)}
    BY <1>1, <1>2 DEF IDsOf
  <1>4. \A i, j \in 1 .. Len(list) : list[i].id = list[j].id => i = j
    BY DEF IsList
  <1>5. \A o, p \in Range(list) : o.id = p.id => o = p
    BY <1>2, <1>4
  <1> QED
    BY <1>1, <1>2, <1>3, <1>5

\* The orders of a book are those of its lists.
LEMMA InBook ==
    ASSUME NEW b, NEW x
    PROVE  x \in OrdersIn(b) <=> \E s \in Side : \E o \in Range(b[s]) : x = Seen(s, o)
  BY DEF OrdersIn, Seen

\* They have their types, and their ids tell them apart.
LEMMA BookOrders ==
    ASSUME NEW b, IsBook(b)
    PROVE  /\ \A x \in OrdersIn(b) : /\ x \in Listed /\ x.id \in OrderIDs /\ x.side \in Side
                                     /\ x.price \in Prices /\ x.quantity \in Nat /\ x.quantity > 0
           /\ \A x, y \in OrdersIn(b) : x.id = y.id => x = y
  <1>1. ASSUME NEW x \in OrdersIn(b)
        PROVE  /\ x \in Listed /\ x.id \in OrderIDs /\ x.side \in Side
               /\ x.price \in Prices /\ x.quantity \in Nat /\ x.quantity > 0
    <2>1. PICK s \in Side : \E o \in Range(b[s]) : x = Seen(s, o)
      BY InBook
    <2>2. PICK o \in Range(b[s]) : x = Seen(s, o)
      BY <2>1
    <2>3. o.id \in OrderIDs /\ o.price \in Prices /\ o.quantity \in Nat /\ o.quantity > 0
      BY <2>2, ListRange DEF IsBook
    <2> QED
      BY <2>2, <2>3 DEF Seen, Listed
  <1>2. ASSUME NEW x \in OrdersIn(b), NEW y \in OrdersIn(b), x.id = y.id PROVE x = y
    <2>1. PICK s \in Side : \E o \in Range(b[s]) : x = Seen(s, o)
      BY InBook
    <2>2. PICK o \in Range(b[s]) : x = Seen(s, o)
      BY <2>1
    <2>3. PICK t \in Side : \E p \in Range(b[t]) : y = Seen(t, p)
      BY InBook
    <2>4. PICK p \in Range(b[t]) : y = Seen(t, p)
      BY <2>3
    <2>5. o.id = p.id
      BY <1>2, <2>2, <2>4 DEF Seen
    <2>6. s = t
      BY <2>2, <2>4, <2>5 DEF IsBook, Side
    <2>7. o = p
      <3>1. IsList(s, b[s]) /\ p \in Range(b[s])
        BY <2>4, <2>6 DEF IsBook
      <3> QED
        BY <2>2, <2>5, <3>1, ListRange
    <2> QED
      BY <2>2, <2>4, <2>6, <2>7
  <1> QED
    BY <1>1, <1>2

\* An id is known when an order of the book has it.
LEMMA KnownMeans ==
    ASSUME NEW b, IsBook(b), NEW id
    PROVE  Known(b, id) <=> \E x \in OrdersIn(b) : x.id = id
  <1>1. \A s \in Side : IDsOf(b[s]) = {o.id : o \in Range(b[s])}
    BY ListRange DEF IsBook
  <1>2. ASSUME Known(b, id) PROVE \E x \in OrdersIn(b) : x.id = id
    <2>1. PICK s \in Side : id \in IDsOf(b[s])
      BY <1>2 DEF Known
    <2>2. PICK o \in Range(b[s]) : o.id = id
      BY <1>1, <2>1
    <2>3. Seen(s, o) \in OrdersIn(b) /\ Seen(s, o).id = id
      BY <2>2, InBook DEF Seen
    <2> QED
      BY <2>3
  <1>3. ASSUME NEW x \in OrdersIn(b), x.id = id PROVE Known(b, id)
    <2>1. PICK s \in Side : \E o \in Range(b[s]) : x = Seen(s, o)
      BY InBook
    <2>2. PICK o \in Range(b[s]) : x = Seen(s, o)
      BY <2>1
    <2> QED
      BY <1>1, <1>3, <2>2 DEF Known, Seen
  <1> QED
    BY <1>2, <1>3

\* Where a list holds an id.
LEMMA PlaceIs ==
    ASSUME NEW s, NEW list, IsList(s, list), NEW id, id \in IDsOf(list)
    PROVE  /\ PlaceOf(list, id) \in 1 .. Len(list)
           /\ list[PlaceOf(list, id)].id = id
  <1>1. DOMAIN list = 1 .. Len(list)
    BY ListOrders
  <1>2. \E i \in DOMAIN list : list[i].id = id
    BY DEF IDsOf
  <1> QED
    BY <1>1, <1>2 DEF PlaceOf

\* Looking an order up finds it.
LEMMA FoundIs ==
    ASSUME NEW b, IsBook(b), NEW x \in OrdersIn(b)
    PROVE  /\ Known(b, x.id)
           /\ SideOf(b, x.id) = x.side
           /\ Found(b, x.id).price = x.price
           /\ Found(b, x.id).quantity = x.quantity
  <1> DEFINE s == SideOf(b, x.id)
             k == PlaceOf(b[s], x.id)
             o == b[s][k]
  <1>1. Known(b, x.id)
    BY KnownMeans
  <1>2. s \in Side /\ x.id \in IDsOf(b[s])
    BY <1>1 DEF Known, SideOf
  <1>3. IsList(s, b[s])
    BY <1>2 DEF IsBook
  <1> HIDE DEF s
  <1>4. k \in 1 .. Len(b[s]) /\ o.id = x.id
    BY <1>2, <1>3, PlaceIs
  <1> HIDE DEF k
  <1>5. o \in Range(b[s])
    BY <1>3, <1>4, ListRange
  <1>6. Seen(s, o) \in OrdersIn(b)
    BY <1>2, <1>5, InBook
  <1>7. Seen(s, o).id = x.id
    BY <1>4 DEF Seen
  <1>8. Seen(s, o) = x
    BY <1>6, <1>7, BookOrders
  <1>9. Found(b, x.id) = o
    BY DEF Found, s, k
  <1> QED
    BY <1>1, <1>8, <1>9 DEF Seen, s

\* A list without one of its orders.
LEMMA RemoveAtIsList ==
    ASSUME NEW s, NEW list, IsList(s, list), NEW k \in 1 .. Len(list)
    PROVE  /\ IsList(s, RemoveAt(list, k))
           /\ Range(RemoveAt(list, k)) = {o \in Range(list) : o.id # list[k].id}
  <1> DEFINE n == Len(list)
             new == RemoveAt(list, k)
  <1>1. list \in Seq(Entry) /\ n \in Nat /\ k \in 1 .. n /\ k \in Nat
        /\ \A i \in 1 .. n : list[i].quantity > 0
    BY ListOrders
  <1>2. new \in Seq(Entry) /\ Len(new) = n - 1
        /\ \A i \in 1 .. n - 1 : new[i] = IF i < k THEN list[i] ELSE list[i + 1]
    BY <1>1, RemoveAtProperties
  <1>3. /\ \A i, j \in 1 .. n : i < j => ~ Better(s, list[j].price, list[i].price)
        /\ \A i, j \in 1 .. n : list[i].id = list[j].id => i = j
    BY DEF IsList
  <1>4. Range(list) = {list[i] : i \in 1 .. n}
    BY ListRange
  <1> HIDE DEF new, n
  <1> DEFINE at(i) == IF i < k THEN i ELSE i + 1
  <1>5. \A i \in 1 .. n - 1 : at(i) \in 1 .. n /\ at(i) # k /\ new[i] = list[at(i)]
    BY <1>1, <1>2
  <1>6. \A i, j \in 1 .. n - 1 : (i < j => at(i) < at(j)) /\ (at(i) = at(j) => i = j)
    BY <1>1
  <1>7. ASSUME NEW j \in 1 .. n, j # k PROVE \E i \in 1 .. n - 1 : at(i) = j
    <2>1. CASE j < k
      <3>1. j \in 1 .. n - 1 /\ at(j) = j
        BY <1>1, <2>1
      <3> QED
        BY <3>1
    <2>2. CASE j > k
      <3>1. j - 1 \in 1 .. n - 1 /\ at(j - 1) = j
        BY <1>1, <2>2
      <3> QED
        BY <3>1
    <2> QED
      BY <1>1, <1>7, <2>1, <2>2
  <1> HIDE DEF at
  <1>8. IsList(s, new)
    <2>1. \A i \in 1 .. n - 1 : new[i].quantity > 0
      BY <1>1, <1>5
    <2>2. \A i, j \in 1 .. n - 1 : i < j => ~ Better(s, new[j].price, new[i].price)
      BY <1>3, <1>5, <1>6
    <2>3. \A i, j \in 1 .. n - 1 : new[i].id = new[j].id => i = j
      BY <1>3, <1>5, <1>6
    <2> QED
      BY <1>2, <2>1, <2>2, <2>3 DEF IsList
  <1>9. Range(new) = {new[i] : i \in 1 .. n - 1}
    BY <1>2, <1>8, ListRange
  <1>10. ASSUME NEW o PROVE o \in Range(new) <=> o \in Range(list) /\ o.id # list[k].id
    <2>1. ASSUME NEW i \in 1 .. n - 1
          PROVE  new[i] \in Range(list) /\ new[i].id # list[k].id
      BY <1>1, <1>3, <1>4, <1>5
    <2>2. ASSUME NEW j \in 1 .. n, list[j].id # list[k].id PROVE list[j] \in Range(new)
      <3>1. PICK i \in 1 .. n - 1 : at(i) = j
        BY <1>7, <2>2
      <3> QED
        BY <1>5, <1>9, <3>1
    <2> QED
      BY <1>4, <1>9, <2>1, <2>2
  <1>11. Range(new) = {o \in Range(list) : o.id # list[k].id}
    BY <1>10
  <1> QED
    BY <1>8, <1>11 DEF new

\* A book without the order of one id.
LEMMA RemovedIs ==
    ASSUME NEW b, IsBook(b), NEW id
    PROVE  /\ IsBook(Removed(b, id))
           /\ OrdersIn(Removed(b, id)) = {x \in OrdersIn(b) : x.id # id}
           /\ ~ Known(Removed(b, id), id)
  <1> DEFINE r == Removed(b, id)
  <1>1. ASSUME NEW s \in Side
        PROVE  IsList(s, r[s]) /\ Range(r[s]) = {o \in Range(b[s]) : o.id # id}
    <2>1. IsList(s, b[s])
      BY DEF IsBook
    <2>2. IDsOf(b[s]) = {o.id : o \in Range(b[s])}
      BY <2>1, ListRange
    <2>3. CASE id \in IDsOf(b[s])
      <3> DEFINE k == PlaceOf(b[s], id)
      <3>1. k \in 1 .. Len(b[s]) /\ b[s][k].id = id
        BY <2>1, <2>3, PlaceIs
      <3>2. r[s] = RemoveAt(b[s], k)
        BY <2>3 DEF Removed
      <3> HIDE DEF k, r
      <3> QED
        BY <2>1, <3>1, <3>2, RemoveAtIsList
    <2>4. CASE id \notin IDsOf(b[s])
      <3>1. r[s] = b[s]
        BY <2>4 DEF Removed
      <3>2. \A o \in Range(b[s]) : o.id # id
        BY <2>2, <2>4
      <3> QED
        BY <2>1, <3>1, <3>2
    <2> QED
      BY <2>3, <2>4
  <1>2. r = [s \in Side |-> r[s]]
    BY DEF Removed
  <1> HIDE DEF r
  <1>3. IsBook(r)
    <2>1. \A s \in Side : r[s] \in Seq(Entry)
      BY <1>1 DEF IsList
    <2>2. r \in [Side -> Seq(Entry)]
      BY <1>2, <2>1
    <2>3. \A x \in Range(r["BID"]), y \in Range(r["ASK"]) : x.id # y.id
      <3>1. "BID" \in Side /\ "ASK" \in Side
        BY DEF Side
      <3> QED
        BY <1>1, <3>1 DEF IsBook
    <2> QED
      BY <1>1, <2>2, <2>3 DEF IsBook
  <1>4. ASSUME NEW x PROVE x \in OrdersIn(r) <=> x \in OrdersIn(b) /\ x.id # id
    <2>1. \A s \in Side : \A o : Seen(s, o).id = o.id
      BY DEF Seen
    <2> QED
      BY <1>1, <2>1, InBook
  <1>5. OrdersIn(r) = {x \in OrdersIn(b) : x.id # id}
    BY <1>4
  <1>6. ~ Known(r, id)
    BY <1>3, <1>5, KnownMeans
  <1> QED
    BY <1>3, <1>5, <1>6 DEF r

\* A book with nothing in it.
LEMMA EmptyIsBook == IsBook(EmptyBook) /\ OrdersIn(EmptyBook) = {}
  <1>1. \A s \in Side : EmptyBook[s] = <<>>
    BY DEF EmptyBook
  <1>2. IsList("BID", <<>>) /\ IsList("ASK", <<>>)
    BY DEF IsList
  <1>3. Range(<<>>) = {}
    BY DEF Range
  <1>4. EmptyBook \in [Side -> Seq(Entry)]
    BY DEF EmptyBook
  <1>5. IsBook(EmptyBook)
    <2>1. EmptyBook["BID"] = <<>> /\ EmptyBook["ASK"] = <<>>
      BY <1>1 DEF Side
    <2> QED
      BY <1>1, <1>2, <1>3, <1>4, <2>1 DEF IsBook, Side
  <1> QED
    BY <1>1, <1>3, <1>5, InBook

-----------------------------------------------------------------------------
(* What the calls do to the orders of a book.                              *)

\* Order x of a book comes from an order of the set Y: it is that order, with
\* perhaps less of its quantity.
ComesFrom(x, Y) ==
    \E y \in Y : /\ x.id = y.id
                 /\ x.side = y.side
                 /\ x.price = y.price
                 /\ x.quantity <= y.quantity

\* Order x is what is left of quantity q that came in for id.
IsRestOf(x, id, s, p, q) == x.id = id /\ x.side = s /\ x.price = p /\ x.quantity <= q

\* The order of id when all of quantity q rests.
Rests(id, s, p, q) ==
    {x \in {[id |-> id, side |-> s, price |-> p, quantity |-> q]} : x.quantity > 0}

\* Quantity q for side s meets no order of the book at its price.
Meets(b, s, p, q) ==
    q # 0 /\ \E x \in OrdersIn(b) : x.side = Opposite(s) /\ ~ Better(Opposite(s), p, x.price)

\* The opposite of a side is the other one.
LEMMA OppositeSide ==
    ASSUME NEW s \in Side
    PROVE  Opposite(s) \in Side /\ Opposite(s) # s /\ Side = {s, Opposite(s)}
  BY DEF Side, Opposite

\* Each list of the outcome: the rest joins its own side, and the other side
\* keeps parts of its orders.
LEMMA ExecutedLists ==
    ASSUME NEW b, IsBook(b), NEW id \in OrderIDs, ~ Known(b, id),
           NEW s \in Side, NEW p \in Prices, NEW q \in Nat,
           NEW new, new = Executed(b, id, s, p, q).book,
           NEW other, other = Opposite(s),
           NEW rest, rest = RestOf(other, b[other], p, q)
    PROVE  /\ rest \in 0 .. q
           /\ new = [t \in Side |-> new[t]]
           /\ IsList(s, new[s])
           /\ Range(new[s]) = Range(b[s]) \cup
                {x \in {[id |-> id, price |-> p, quantity |-> rest]} : x.quantity > 0}
           /\ new[other] = StayOf(other, b[other], p, q)
  <1> DEFINE order == [id |-> id, price |-> p, quantity |-> rest]
  <1>1. other \in Side /\ other # s /\ s \in Side
    BY OppositeSide
  <1>2. IsList(s, b[s]) /\ IsList(other, b[other]) /\ b \in [Side -> Seq(Entry)]
    BY <1>1 DEF IsBook
  <1>3. rest \in 0 .. q /\ rest \in Nat
    BY <1>1, <1>2, StayIsList
  <1>4. order \in Entry /\ order.id = id
    BY <1>3 DEF Entry
  <1>5. \A i \in 1 .. Len(b[s]) : b[s][i].id # id
    <2>1. IDsOf(b[s]) = {o.id : o \in Range(b[s])} /\ Range(b[s]) = {b[s][i] : i \in 1 .. Len(b[s])}
      BY <1>2, ListRange
    <2>2. id \notin IDsOf(b[s])
      BY <1>1 DEF Known
    <2> QED
      BY <2>1, <2>2
  <1> HIDE DEF order
  <1>6. /\ IsList(s, Join(s, b[s], order))
        /\ Range(Join(s, b[s], order)) = Range(b[s]) \cup {x \in {order} : x.quantity > 0}
    BY <1>1, <1>2, <1>4, <1>5, JoinIsList
  <1>7. new = [b EXCEPT ![s] = Join(s, @, order), ![other] = StayOf(other, @, p, q)]
    BY DEF Executed, order
  <1>8. new[s] = Join(s, b[s], order) /\ new[other] = StayOf(other, b[other], p, q)
        /\ new = [t \in Side |-> new[t]]
    BY <1>1, <1>2, <1>7
  <1> QED
    BY <1>3, <1>6, <1>8 DEF order

\* An incoming quantity leaves a book in which every order was there before or
\* is the rest of the quantity.
LEMMA ExecutedIs ==
    ASSUME NEW b, IsBook(b), NEW id \in OrderIDs, ~ Known(b, id),
           NEW s \in Side, NEW p \in Prices, NEW q \in Nat,
           NEW out, out = Executed(b, id, s, p, q)
    PROVE  /\ out.answer = "true"
           /\ IsBook(out.book)
           /\ \A x \in OrdersIn(out.book) :
                 ComesFrom(x, OrdersIn(b)) \/ IsRestOf(x, id, s, p, q)
  <1> DEFINE other == Opposite(s)
             new == out.book
             rest == RestOf(other, b[other], p, q)
             order == [id |-> id, price |-> p, quantity |-> rest]
  <1>1. other \in Side /\ other # s /\ Side = {s, other}
    BY OppositeSide
  <1>2. /\ rest \in 0 .. q
        /\ new = [t \in Side |-> new[t]]
        /\ IsList(s, new[s])
        /\ Range(new[s]) = Range(b[s]) \cup {x \in {order} : x.quantity > 0}
        /\ new[other] = StayOf(other, b[other], p, q)
    BY ExecutedLists
  <1>3. IsList(s, b[s]) /\ IsList(other, b[other])
    BY <1>1 DEF IsBook
  <1>4. order.id = id /\ order.price = p /\ order.quantity = rest
    OBVIOUS
  <1>5. out.answer = "true"
    BY DEF Executed
  <1> HIDE DEF other, new, rest, order
  <1>6. IsList(other, new[other])
        /\ \A i \in 1 .. Len(new[other]) :
              \E j \in 1 .. Len(b[other]) : IsPartOf(new[other][i], b[other][j])
    BY <1>1, <1>2, <1>3, StayIsList
  <1>7. ASSUME NEW x \in Range(new[other])
        PROVE  \E y \in Range(b[other]) : IsPartOf(x, y)
    <2>1. PICK i \in 1 .. Len(new[other]) : x = new[other][i]
      BY <1>6, ListRange
    <2>2. PICK j \in 1 .. Len(b[other]) : IsPartOf(x, b[other][j])
      BY <1>6, <2>1
    <2>3. b[other][j] \in Range(b[other])
      BY <1>3, ListRange
    <2> QED
      BY <2>2, <2>3
  <1>8. IsBook(new)
    <2>1. \A t \in Side : IsList(t, new[t])
      BY <1>1, <1>2, <1>6
    <2>2. new \in [Side -> Seq(Entry)]
      <3>1. \A t \in Side : new[t] \in Seq(Entry)
        BY <2>1 DEF IsList
      <3> QED
        BY <1>2, <3>1
    <2>3. ASSUME NEW x \in Range(new[s]), NEW y \in Range(new[other]) PROVE x.id # y.id
      <3>1. PICK z \in Range(b[other]) : IsPartOf(y, z)
        BY <1>7
      <3>2. y.id = z.id
        BY <3>1 DEF IsPartOf
      <3>3. \A w \in Range(b[s]) : w.id # z.id
        BY <1>1 DEF IsBook, Side
      <3>4. z.id # id
        <4>1. IDsOf(b[other]) = {o.id : o \in Range(b[other])}
          BY <1>3, ListRange
        <4> QED
          BY <1>1, <4>1 DEF Known
      <3> QED
        BY <1>2, <1>4, <3>2, <3>3, <3>4
    <2>4. \A x \in Range(new["BID"]), y \in Range(new["ASK"]) : x.id # y.id
      BY <1>1, <2>3 DEF Side
    <2> QED
      BY <2>1, <2>2, <2>4 DEF IsBook
  <1>9. ASSUME NEW x \in OrdersIn(new)
        PROVE  ComesFrom(x, OrdersIn(b)) \/ IsRestOf(x, id, s, p, q)
    <2>1. PICK t \in Side : \E o \in Range(new[t]) : x = Seen(t, o)
      BY InBook
    <2>2. PICK o \in Range(new[t]) : x = Seen(t, o)
      BY <2>1
    <2>3. x.id = o.id /\ x.side = t /\ x.price = o.price /\ x.quantity = o.quantity
      BY <2>2 DEF Seen
    <2>4. ASSUME NEW y \in Range(b[t]), IsPartOf(o, y) PROVE ComesFrom(x, OrdersIn(b))
      <3>1. Seen(t, y) \in OrdersIn(b)
        BY InBook
      <3>2. /\ x.id = Seen(t, y).id /\ x.side = Seen(t, y).side
            /\ x.price = Seen(t, y).price /\ x.quantity <= Seen(t, y).quantity
        BY <2>3, <2>4 DEF IsPartOf, Seen
      <3> QED
        BY <3>1, <3>2 DEF ComesFrom
    <2>5. CASE t = other
      BY <1>7, <2>2, <2>4, <2>5
    <2>6. CASE t = s /\ o \in Range(b[s])
      <3>1. o.quantity \in Nat
        BY <1>3, <2>6, ListRange
      <3>2. IsPartOf(o, o)
        BY <3>1 DEF IsPartOf
      <3> QED
        BY <2>4, <2>6, <3>2
    <2>7. CASE t = s /\ o = order
      BY <1>2, <1>4, <2>3, <2>7 DEF IsRestOf
    <2> QED
      BY <1>1, <1>2, <2>2, <2>5, <2>6, <2>7
  <1> QED
    BY <1>5, <1>8, <1>9 DEF new

\* An incoming quantity that meets no order trades with none and rests.
LEMMA ExecutedQuietly ==
    ASSUME NEW b, IsBook(b), NEW id \in OrderIDs, ~ Known(b, id),
           NEW s \in Side, NEW p \in Prices, NEW q \in Nat, ~ Meets(b, s, p, q),
           NEW out, out = Executed(b, id, s, p, q)
    PROVE  /\ out.trades = <<>>
           /\ OrdersIn(out.book) = OrdersIn(b) \cup Rests(id, s, p, q)
  <1> DEFINE other == Opposite(s)
             new == out.book
             rest == RestOf(other, b[other], p, q)
             order == [id |-> id, price |-> p, quantity |-> q]
  <1>1. other \in Side /\ other # s /\ Side = {s, other}
    BY OppositeSide
  <1>2. IsList(other, b[other])
    BY <1>1 DEF IsBook
  <1>3. q = 0 \/ \A i \in 1 .. Len(b[other]) : Better(other, p, b[other][i].price)
    <2> SUFFICES ASSUME q # 0, NEW i \in 1 .. Len(b[other])
                 PROVE  Better(other, p, b[other][i].price)
      OBVIOUS
    <2>1. b[other][i] \in Range(b[other])
      BY <1>2, ListRange
    <2>2. Seen(other, b[other][i]) \in OrdersIn(b)
      BY <1>1, <2>1, InBook
    <2> QED
      BY <2>2 DEF Meets, Seen
  <1>4. /\ StayOf(other, b[other], p, q) = b[other]
        /\ TradesOf(other, b[other], p, q) = <<>>
        /\ rest = q
    BY <1>1, <1>2, <1>3, NothingMatches
  <1>5. /\ Range(new[s]) = Range(b[s]) \cup
             {x \in {[id |-> id, price |-> p, quantity |-> rest]} : x.quantity > 0}
        /\ new[other] = StayOf(other, b[other], p, q)
    BY ExecutedLists
  <1>6. out.trades = <<>>
    BY <1>4 DEF Executed
  <1>7. Range(new[s]) = Range(b[s]) \cup {x \in {order} : x.quantity > 0}
        /\ new[other] = b[other]
    BY <1>4, <1>5
  <1> HIDE DEF other, new, rest
  <1>8. ASSUME NEW x PROVE x \in OrdersIn(new) <=> x \in OrdersIn(b) \/ x \in Rests(id, s, p, q)
    <2>1. x \in OrdersIn(new) <=> \/ \E o \in Range(new[s]) : x = Seen(s, o)
                                  \/ \E o \in Range(new[other]) : x = Seen(other, o)
      BY <1>1, InBook
    <2>2. x \in OrdersIn(b) <=> \/ \E o \in Range(b[s]) : x = Seen(s, o)
                                \/ \E o \in Range(b[other]) : x = Seen(other, o)
      BY <1>1, InBook
    <2>3. x \in Rests(id, s, p, q) <=> order.quantity > 0 /\ x = Seen(s, order)
      BY DEF Rests, Seen
    <2> HIDE DEF order
    <2>4. (\E o \in Range(new[s]) : x = Seen(s, o))
            <=> \/ \E o \in Range(b[s]) : x = Seen(s, o)
                \/ order.quantity > 0 /\ x = Seen(s, order)
      BY <1>7
    <2> QED
      BY <1>7, <2>1, <2>2, <2>3, <2>4
  <1>9. OrdersIn(new) = OrdersIn(b) \cup Rests(id, s, p, q)
    BY <1>8
  <1> QED
    BY <1>6, <1>9 DEF new

\* Outcome "out" when quantity q arrives for id at a book b without that id.
Arrives(out, b, id, s, p, q) ==
    /\ out.answer = "true"
    /\ IsBook(out.book)
    /\ \A x \in OrdersIn(out.book) : ComesFrom(x, OrdersIn(b)) \/ IsRestOf(x, id, s, p, q)
    /\ ~ Meets(b, s, p, q) => /\ out.trades = <<>>
                              /\ OrdersIn(out.book) = OrdersIn(b) \cup Rests(id, s, p, q)

\* The outcome of a new order.
LEMMA NewOrderIs ==
    ASSUME NEW b, IsBook(b), NEW id \in OrderIDs, NEW s \in Side, NEW p \in Prices, NEW q \in Nat
    PROVE  /\ Known(b, id) => NewOrderOn(b, id, s, p, q) = Refused(b)
           /\ ~ Known(b, id) => Arrives(NewOrderOn(b, id, s, p, q), b, id, s, p, q)
  <1> DEFINE out == Executed(b, id, s, p, q)
  <1>1. ASSUME ~ Known(b, id) PROVE Arrives(out, b, id, s, p, q)
    <2>1. out.answer = "true" /\ IsBook(out.book)
          /\ \A x \in OrdersIn(out.book) : ComesFrom(x, OrdersIn(b)) \/ IsRestOf(x, id, s, p, q)
      BY <1>1, ExecutedIs
    <2>2. ~ Meets(b, s, p, q) => /\ out.trades = <<>>
                                 /\ OrdersIn(out.book) = OrdersIn(b) \cup Rests(id, s, p, q)
      BY <1>1, ExecutedQuietly
    <2> QED
      BY <2>1, <2>2 DEF Arrives
  <1> QED
    BY <1>1 DEF NewOrderOn

\* The outcome of an amend of an order that is there.
LEMMA AmendIs ==
    ASSUME NEW b, IsBook(b), NEW x \in OrdersIn(b), NEW p \in Prices, NEW q \in Nat
    PROVE  /\ AmendOn(b, x.id, p, q) = AmendSideOn(b, x.id, x.side, p, q)
           /\ Arrives(AmendOn(b, x.id, p, q), Removed(b, x.id), x.id, x.side, p, q)
  <1>1. Known(b, x.id) /\ SideOf(b, x.id) = x.side
    BY FoundIs
  <1>2. x.id \in OrderIDs /\ x.side \in Side
    BY BookOrders
  <1>3. IsBook(Removed(b, x.id)) /\ ~ Known(Removed(b, x.id), x.id)
    BY RemovedIs
  <1>4. AmendOn(b, x.id, p, q) = AmendSideOn(b, x.id, x.side, p, q)
    BY <1>1 DEF AmendOn
  <1>5. AmendOn(b, x.id, p, q) = NewOrderOn(Removed(b, x.id), x.id, x.side, p, q)
    BY <1>1, <1>3, <1>4 DEF AmendSideOn, NewOrderOn
  <1> QED
    BY <1>2, <1>3, <1>4, <1>5, NewOrderIs

\* The outcome of taking a quantity off an order that is there.
LEMMA AmendDeltaIs ==
    ASSUME NEW b, IsBook(b), NEW x \in OrdersIn(b), NEW q \in Nat
    PROVE  Arrives(AmendDeltaOn(b, x.id, q), Removed(b, x.id), x.id, x.side, x.price,
                   IF q >= x.quantity THEN 0 ELSE x.quantity - q)
  <1> DEFINE left == IF q >= x.quantity THEN 0 ELSE x.quantity - q
  <1>1. Known(b, x.id) /\ Found(b, x.id).price = x.price /\ Found(b, x.id).quantity = x.quantity
    BY FoundIs
  <1>2. x.price \in Prices /\ x.quantity \in Nat
    BY BookOrders
  <1>3. left \in Nat
    BY <1>2
  <1>4. AmendDeltaOn(b, x.id, q) = AmendOn(b, x.id, x.price, left)
    BY <1>1 DEF AmendDeltaOn
  <1> HIDE DEF left
  <1>5. Arrives(AmendDeltaOn(b, x.id, q), Removed(b, x.id), x.id, x.side, x.price, left)
    BY <1>2, <1>3, <1>4, AmendIs
  <1> QED
    BY <1>5 DEF left

\* Calls on an order that is not there.
LEMMA UnknownIsRefused ==
    ASSUME NEW b, NEW id, ~ Known(b, id), NEW s, NEW p, NEW q
    PROVE  /\ AmendOn(b, id, p, q) = Refused(b)
           /\ AmendSideOn(b, id, s, p, q) = Refused(b)
           /\ AmendDeltaOn(b, id, q) = Refused(b)
           /\ ReplaceOn(b, id, p, q) = {Refused(b)}
  BY DEF AmendOn, AmendSideOn, AmendDeltaOn, ReplaceOn

\* The outcome of a cancel.
LEMMA CancelIs ==
    ASSUME NEW b, IsBook(b), NEW id
    PROVE  /\ IsBook(CancelOn(b, id).book)
           /\ OrdersIn(CancelOn(b, id).book) = {x \in OrdersIn(b) : x.id # id}
           /\ CancelOn(b, id).trades = <<>>
           /\ Known(b, id) => CancelOn(b, id).answer = "true"
  <1>1. CASE Known(b, id)
    BY <1>1, RemovedIs DEF CancelOn
  <1>2. CASE ~ Known(b, id)
    <2>1. \A x \in OrdersIn(b) : x.id # id
      BY <1>2, KnownMeans
    <2> QED
      BY <1>2, <2>1 DEF CancelOn, Refused
  <1> QED
    BY <1>1, <1>2

-----------------------------------------------------------------------------
(* The inductive invariant.                                                *)

\* Orders as a writer keeps them.
Records(known) ==
    /\ DOMAIN known \subseteq Stocks \X OrderIDs
    /\ \A o \in DOMAIN known : known[o] \in [side : Side, price : Prices, quantity : Quantities]

\* An exchange gives an id once, so no two orders, of whatever stock, share
\* one, and no order that it still has shares one with an order that left.
IdsGivenOnce ==
    /\ \A o \in DOMAIN market : o[2] \in used
    /\ \A o \in DOMAIN stale : o[2] \in used
    /\ \A o, x \in DOMAIN market : o[2] = x[2] => o = x
    /\ \A o \in DOMAIN market, x \in DOMAIN stale : o[2] # x[2]

\* What the writer of the file keeps to.
WriterOK ==
    /\ source \in {"CSV", "NASDAQ", "Databento"}
    /\ exact \in BOOLEAN
    /\ Records(market)
    /\ Records(stale)
    /\ source = "CSV" => DOMAIN stale = {} /\ ~ exact
    /\ source # "CSV" => IdsGivenOnce

\* What the program keeps to: its books stay books.
BooksOK == \A key \in DOMAIN books : IsBook(books[key])

\* While the replay can follow, what it shows is uncrossed.
FollowedQuietly == exact => Quiet(market)

\* The inductive invariant.
ReplayOK ==
    /\ WriterOK
    /\ BooksOK
    /\ NoPhantomLiquidity
    /\ FollowedQuietly
    /\ MirrorsWhileExact
    /\ QuietWhileExact

\* An order is one that the writer has, or had.
Accounted(known, gone, key, x) == Backs(known, key, x) \/ Backs(gone, key, x)

\* The book of a key, seen already or not.
LEMMA BookOfKey ==
    ASSUME BooksOK, NoPhantomLiquidity, NEW key
    PROVE  /\ IsBook(BookOf(key))
           /\ \A x \in OrdersIn(BookOf(key)) : Accounted(market, stale, key, x)
  BY EmptyIsBook DEF BookOf, BooksOK, NoPhantomLiquidity, Accounted

\* A message replaces the book of its key.
LEMMA UpdatedBooks ==
    ASSUME NEW key, NEW out, Update(key, out)
    PROVE  /\ DOMAIN books' = DOMAIN books \cup {key}
           /\ books'[key] = out.book
           /\ \A k \in DOMAIN books : k # key => books'[k] = books[k]
           /\ BookOf(key)' = out.book
           /\ \A k : k # key => BookOf(k)' = BookOf(k)
           /\ answer' = out.answer /\ trades' = out.trades
  BY DEF Update, BookOf

\* What a message must keep for the books to stay books of the writer's orders.
LEMMA UpdateKeeps ==
    ASSUME BooksOK, NEW key, NEW out, Update(key, out), IsBook(out.book), UNCHANGED source,
           \A x \in OrdersIn(out.book) : Accounted(market', stale', key, x),
           \A k \in DOMAIN books \ {key} : \A x \in OrdersIn(books[k]) :
               Accounted(market', stale', k, x)
    PROVE  BooksOK' /\ NoPhantomLiquidity'
  <1>1. /\ DOMAIN books' = DOMAIN books \cup {key}
        /\ books'[key] = out.book
        /\ \A k \in DOMAIN books : k # key => books'[k] = books[k]
    BY UpdatedBooks
  <1>2. BooksOK'
    BY <1>1 DEF BooksOK
  <1>3. ASSUME NEW k \in DOMAIN books', NEW x \in OrdersIn(books'[k])
        PROVE  Backs(market, k, x)' \/ Backs(stale, k, x)'
    <2>1. Accounted(market', stale', k, x)
      BY <1>1
    <2> QED
      BY <2>1 DEF Accounted, Backs, Key
  <1>4. NoPhantomLiquidity'
    BY <1>3 DEF NoPhantomLiquidity, OrdersIn
  <1> QED
    BY <1>2, <1>4

-----------------------------------------------------------------------------
(* What a message does to the writer's orders.                             *)

\* "after" is "before" with this order for o.
Changed(after, before, o, order) ==
    /\ DOMAIN after = DOMAIN before \cup {o}
    /\ after[o] = order
    /\ \A x \in DOMAIN before : x # o => after[x] = before[x]

\* "after" is "before" without the orders of a set.
Dropped(after, before, gone) ==
    /\ DOMAIN after = DOMAIN before \ gone
    /\ \A x \in DOMAIN after : after[x] = before[x]

\* The orders as the writer keeps them.
Kept == [side : Side, price : Prices, quantity : Quantities]

\* Telling of an order changes it, and one that is gone is dropped.
LEMMA ToldAndGone ==
    ASSUME NEW stock, NEW id, NEW order, NEW o
    PROVE  /\ Changed(Told(stock, id, order), market, <<stock, id>>, order)
           /\ Dropped(Gone(o), market, {o})
  BY DEF Told, Gone, Changed, Dropped

\* A new price and quantity, or a smaller quantity, change an order.
LEMMA AmendedRecord ==
    ASSUME Records(market), NEW o \in DOMAIN market, NEW p \in Prices, NEW q \in Quantities
    PROVE  /\ Changed([market EXCEPT ![o].price = p, ![o].quantity = q], market, o,
                      [side |-> market[o].side, price |-> p, quantity |-> q])
           /\ Changed([market EXCEPT ![o].quantity = @ - q], market, o,
                      [side |-> market[o].side, price |-> market[o].price,
                       quantity |-> market[o].quantity - q])
  <1>1. market[o] \in Kept
    BY DEF Records, Kept
  <1>2. PICK s \in Side, r \in Prices, n \in Quantities :
              market[o] = [side |-> s, price |-> r, quantity |-> n]
    BY <1>1 DEF Kept
  <1>3. /\ [market[o] EXCEPT !.price = p, !.quantity = q]
              = [side |-> market[o].side, price |-> p, quantity |-> q]
        /\ [market[o] EXCEPT !.quantity = @ - q]
              = [side |-> market[o].side, price |-> market[o].price,
                 quantity |-> market[o].quantity - q]
    <2> DEFINE r0 == [side |-> s, price |-> r, quantity |-> n]
    <2>1. [r0 EXCEPT !.price = p] = [side |-> s, price |-> p, quantity |-> n]
      OBVIOUS
    <2>2. [[side |-> s, price |-> p, quantity |-> n] EXCEPT !.quantity = q]
            = [side |-> s, price |-> p, quantity |-> q]
      OBVIOUS
    <2>3. [[r0 EXCEPT !.price = p] EXCEPT !.quantity = q]
            = [side |-> s, price |-> p, quantity |-> q]
      BY <2>1, <2>2
    <2>4. [r0 EXCEPT !.quantity = @ - q] = [side |-> s, price |-> r, quantity |-> n - q]
      OBVIOUS
    <2>5. /\ [r0 EXCEPT !.price = p, !.quantity = q] = [side |-> s, price |-> p, quantity |-> q]
          /\ [r0 EXCEPT !.quantity = @ - q] = [side |-> s, price |-> r, quantity |-> n - q]
          /\ r0.side = s /\ r0.price = r /\ r0.quantity = n
      BY <2>3, <2>4
    <2>6. market[o] = r0
      BY <1>2
    <2> HIDE DEF r0
    <2> QED
      BY <2>5, <2>6
  <1>4. Changed([market EXCEPT ![o].price = p, ![o].quantity = q], market, o,
                [market[o] EXCEPT !.price = p, !.quantity = q])
    BY DEF Changed
  <1>5. Changed([market EXCEPT ![o].quantity = @ - q], market, o,
                [market[o] EXCEPT !.quantity = @ - q])
    BY DEF Changed
  <1> QED
    BY <1>3, <1>4, <1>5

\* Both keep the records of the writer.
LEMMA RecordsKept ==
    ASSUME NEW before, Records(before), NEW after
    PROVE  /\ \A stock \in Stocks, id \in OrderIDs : \A order \in Kept :
                 Changed(after, before, <<stock, id>>, order) => Records(after)
           /\ \A gone : Dropped(after, before, gone) => Records(after)
  BY DEF Records, Changed, Dropped, Kept

\* The ids stay given once when a new or an old order changes.
LEMMA ChangeKeepsIds ==
    ASSUME IdsGivenOnce, NEW o, NEW order, Changed(market', market, o, order), UNCHANGED stale,
           \/ o \in DOMAIN market /\ used' = used
           \/ o[2] \notin used /\ used' = used \cup {o[2]}
    PROVE  IdsGivenOnce'
  BY DEF IdsGivenOnce, Changed

\* They stay so when orders leave.
LEMMA DropKeepsIds ==
    ASSUME IdsGivenOnce, NEW gone, Dropped(market', market, gone), UNCHANGED <<stale, used>>
    PROVE  IdsGivenOnce'
  BY DEF IdsGivenOnce, Dropped

\* A part of an order that is accounted for is accounted for.
LEMMA PartsAreAccounted ==
    ASSUME NEW known, Records(known), NEW gone, Records(gone), NEW key, NEW Y,
           \A y \in Y : y.quantity \in Nat /\ Accounted(known, gone, key, y),
           NEW x, x.quantity \in Nat, ComesFrom(x, Y)
    PROVE  Accounted(known, gone, key, x)
  <1>1. PICK y \in Y : /\ x.id = y.id /\ x.side = y.side /\ x.price = y.price
                       /\ x.quantity <= y.quantity
    BY DEF ComesFrom
  <1>2. ASSUME NEW orders, Records(orders), Backs(orders, key, y) PROVE Backs(orders, key, x)
    <2>1. PICK o \in DOMAIN orders : /\ o[2] = y.id /\ Key(o[1]) = key
                                     /\ orders[o].side = y.side /\ orders[o].price = y.price
                                     /\ y.quantity <= orders[o].quantity
      BY <1>2 DEF Backs
    <2>2. orders[o].quantity \in Nat
      BY <1>2, BoundAssumption DEF Records, Quantities
    <2>3. x.quantity <= orders[o].quantity
      BY <1>1, <2>1, <2>2
    <2> QED
      BY <1>1, <2>1, <2>3 DEF Backs
  <1> QED
    BY <1>1, <1>2 DEF Accounted

-----------------------------------------------------------------------------
(* What a message must keep.                                               *)

\* After the message every order of the books is still accounted for, the one
\* of this id in the book of this key aside.
Holds(key, id) ==
    /\ \A x \in OrdersIn(BookOf(key)) : x.id # id => Accounted(market', stale', key, x)
    /\ \A k \in DOMAIN books \ {key} : \A x \in OrdersIn(books[k]) :
          Accounted(market', stale', k, x)

\* A client's request touches the order of one id and stock.
LEMMA ClientHolds ==
    ASSUME source = "CSV", WriterOK, BooksOK, NoPhantomLiquidity, NEW stock, NEW id, UNCHANGED stale,
           \A o \in DOMAIN market : o # <<stock, id>> => o \in DOMAIN market' /\ market'[o] = market[o]
    PROVE  Holds(stock, id)
  <1>1. \A known, key, x : ~ Backs(stale, key, x)
    BY DEF WriterOK, Backs
  <1>2. ASSUME NEW k, NEW x, Backs(market, k, x), k # stock \/ x.id # id
        PROVE  Backs(market', k, x)
    <2>1. PICK o \in DOMAIN market : /\ o[2] = x.id /\ Key(o[1]) = k
                                     /\ market[o].side = x.side /\ market[o].price = x.price
                                     /\ x.quantity <= market[o].quantity
      BY <1>2 DEF Backs
    <2>2. Key(o[1]) = o[1]
      BY DEF Key
    <2>3. o # <<stock, id>>
      BY <1>2, <2>1, <2>2
    <2> QED
      BY <2>1, <2>3 DEF Backs
  <1>3. \A x \in OrdersIn(BookOf(stock)) : Accounted(market, stale, stock, x)
    BY BookOfKey
  <1>4. \A k \in DOMAIN books : \A x \in OrdersIn(books[k]) : Accounted(market, stale, k, x)
    BY DEF NoPhantomLiquidity, Accounted
  <1> QED
    BY <1>1, <1>2, <1>3, <1>4 DEF Holds, Accounted

\* A message of an exchange touches the order of one id, or of none.
LEMMA ExchangeHolds ==
    ASSUME source # "CSV", BooksOK, NoPhantomLiquidity, NEW id,
           \A o \in DOMAIN market : o[2] # id =>
               \/ o \in DOMAIN market' /\ market'[o] = market[o]
               \/ o \in DOMAIN stale' /\ stale'[o] = market[o],
           \A o \in DOMAIN stale : o \in DOMAIN stale' /\ stale'[o] = stale[o]
    PROVE  Holds(NoSymbol, id)
  <1>1. \A stock : Key(stock) = NoSymbol
    BY DEF Key
  <1>2. ASSUME NEW x, x.id # id, Accounted(market, stale, NoSymbol, x)
        PROVE  Accounted(market', stale', NoSymbol, x)
    <2>1. CASE Backs(market, NoSymbol, x)
      BY <1>1, <1>2, <2>1 DEF Backs, Accounted
    <2>2. CASE Backs(stale, NoSymbol, x)
      BY <1>1, <2>2 DEF Backs, Accounted
    <2> QED
      BY <1>2, <2>1, <2>2 DEF Accounted
  <1>3. \A k, x : k # NoSymbol => ~ Accounted(market, stale, k, x)
    BY <1>1 DEF Accounted, Backs
  <1>4. \A x \in OrdersIn(BookOf(NoSymbol)) : Accounted(market, stale, NoSymbol, x)
    BY BookOfKey
  <1>5. \A k \in DOMAIN books : \A x \in OrdersIn(books[k]) : Accounted(market, stale, k, x)
    BY DEF NoPhantomLiquidity, Accounted
  <1> QED
    BY <1>2, <1>3, <1>4, <1>5 DEF Holds

\* A message that at most removes the order of its id from the book.
LEMMA RemovalKeeps ==
    ASSUME BooksOK, NEW key, NEW id, Holds(key, id), NEW out, Update(key, out), UNCHANGED source,
           IsBook(out.book), \A x \in OrdersIn(out.book) : x \in OrdersIn(BookOf(key)) /\ x.id # id
    PROVE  BooksOK' /\ NoPhantomLiquidity'
  BY UpdateKeeps DEF Holds

\* A message that changes no book and no order of the writer.
LEMMA NothingKeeps ==
    ASSUME BooksOK, NoPhantomLiquidity, NEW key, NEW out, Update(key, out),
           UNCHANGED <<source, market, stale>>, out.book = BookOf(key)
    PROVE  BooksOK' /\ NoPhantomLiquidity'
  <1>1. IsBook(out.book) /\ \A x \in OrdersIn(out.book) : Accounted(market', stale', key, x)
    BY BookOfKey
  <1>2. \A k \in DOMAIN books \ {key} : \A x \in OrdersIn(books[k]) :
            Accounted(market', stale', k, x)
    BY DEF NoPhantomLiquidity, Accounted
  <1> QED
    BY <1>1, <1>2, UpdateKeeps

\* A message that brings a quantity for an order as the writer then has it.
LEMMA ArrivalKeeps ==
    ASSUME BooksOK, NEW key, NEW id, Holds(key, id), NEW out, Update(key, out), UNCHANGED source,
           NoPhantomLiquidity, Records(market'), Records(stale'),
           NEW b, IsBook(b), \A x \in OrdersIn(b) : x \in OrdersIn(BookOf(key)) /\ x.id # id,
           NEW s, NEW p, NEW q \in Nat, Arrives(out, b, id, s, p, q),
           q > 0 => \E o \in DOMAIN market' :
                       /\ o[2] = id /\ Key(o[1]) = key /\ market'[o].side = s
                       /\ market'[o].price = p /\ q <= market'[o].quantity
    PROVE  BooksOK' /\ NoPhantomLiquidity'
  <1>1. IsBook(out.book)
        /\ \A x \in OrdersIn(out.book) : ComesFrom(x, OrdersIn(b)) \/ IsRestOf(x, id, s, p, q)
    BY DEF Arrives
  <1>2. ASSUME NEW x \in OrdersIn(out.book) PROVE Accounted(market', stale', key, x)
    <2>1. x.quantity \in Nat /\ x.quantity > 0
      BY <1>1, BookOrders
    <2>2. CASE ComesFrom(x, OrdersIn(b))
      <3>1. \A y \in OrdersIn(b) : y.quantity \in Nat /\ Accounted(market', stale', key, y)
        BY BookOrders DEF Holds
      <3> QED
        BY <2>1, <2>2, <3>1, PartsAreAccounted
    <2>3. CASE IsRestOf(x, id, s, p, q)
      <3>1. x.id = id /\ x.side = s /\ x.price = p /\ x.quantity <= q
        BY <2>3 DEF IsRestOf
      <3>2. q > 0
        BY <2>1, <3>1
      <3>3. PICK o \in DOMAIN market' :
                       /\ o[2] = id /\ Key(o[1]) = key /\ market'[o].side = s
                       /\ market'[o].price = p /\ q <= market'[o].quantity
        BY <3>2
      <3>4. market'[o].quantity \in Nat
        BY BoundAssumption DEF Records, Quantities
      <3>5. x.quantity <= market'[o].quantity
        BY <2>1, <3>1, <3>3, <3>4
      <3>6. Backs(market', key, x)
        BY <3>1, <3>3, <3>5 DEF Backs
      <3> QED
        BY <3>6 DEF Accounted
    <2> QED
      BY <1>1, <2>2, <2>3
  <1> QED
    BY <1>1, <1>2, UpdateKeeps DEF Holds

-----------------------------------------------------------------------------
(* While the replay follows.                                               *)

\* An order of the writer as it looks in a book.
ShownAs(o, order) ==
    [id |-> o[2], side |-> order.side, price |-> order.price, quantity |-> order.quantity]

\* The orders shown are those of the records.
LEMMA InShown ==
    ASSUME NEW known, NEW x
    PROVE  x \in Shown(known) <=> \E o \in DOMAIN known : x = ShownAs(o, known[o])
  BY DEF Shown, ShownAs

\* A changed order is shown in place of the one it was.
LEMMA ShownChanged ==
    ASSUME NEW before, NEW after, NEW o, NEW order, Changed(after, before, o, order),
           \A x \in DOMAIN before : x[2] = o[2] => x = o
    PROVE  Shown(after) = {x \in Shown(before) : x.id # o[2]} \cup {ShownAs(o, order)}
  <1>1. \A x, r : ShownAs(x, r).id = x[2]
    BY DEF ShownAs
  <1>2. ASSUME NEW x
        PROVE  x \in Shown(after) <=>
                 \/ x \in Shown(before) /\ x.id # o[2]
                 \/ x = ShownAs(o, order)
    <2>1. ASSUME NEW y \in DOMAIN after, x = ShownAs(y, after[y]), y # o
          PROVE  x \in Shown(before) /\ x.id # o[2]
      <3>1. y \in DOMAIN before /\ after[y] = before[y] /\ y[2] # o[2]
        BY <2>1 DEF Changed
      <3> QED
        BY <1>1, <2>1, <3>1, InShown
    <2>2. ASSUME NEW y \in DOMAIN before, x = ShownAs(y, before[y]), x.id # o[2]
          PROVE  x \in Shown(after)
      <3>1. y # o /\ y \in DOMAIN after /\ after[y] = before[y]
        BY <1>1, <2>2 DEF Changed
      <3> QED
        BY <2>2, <3>1, InShown
    <2>3. o \in DOMAIN after /\ after[o] = order
      BY DEF Changed
    <2> QED
      BY <2>1, <2>2, <2>3, InShown
  <1> QED
    BY <1>2

\* An order that is gone is shown no more.
LEMMA ShownDropped ==
    ASSUME NEW before, NEW after, NEW o, Dropped(after, before, {o}), o \in DOMAIN before,
           \A x \in DOMAIN before : x[2] = o[2] => x = o
    PROVE  Shown(after) = {x \in Shown(before) : x.id # o[2]}
  <1>1. \A x, r : ShownAs(x, r).id = x[2]
    BY DEF ShownAs
  <1>2. ASSUME NEW x
        PROVE  x \in Shown(after) <=> x \in Shown(before) /\ x.id # o[2]
    <2>1. ASSUME NEW y \in DOMAIN after, x = ShownAs(y, after[y])
          PROVE  x \in Shown(before) /\ x.id # o[2]
      <3>1. y \in DOMAIN before /\ after[y] = before[y] /\ y[2] # o[2]
        BY <2>1 DEF Dropped
      <3> QED
        BY <1>1, <2>1, <3>1, InShown
    <2>2. ASSUME NEW y \in DOMAIN before, x = ShownAs(y, before[y]), x.id # o[2]
          PROVE  x \in Shown(after)
      <3>1. y # o /\ y \in DOMAIN after /\ after[y] = before[y]
        BY <1>1, <2>2 DEF Dropped
      <3> QED
        BY <2>2, <3>1, InShown
    <2> QED
      BY <2>1, <2>2, InShown
  <1> QED
    BY <1>2

\* In an uncrossed market an order meets none of the others.
LEMMA QuietMeetsNone ==
    ASSUME NEW before, NEW after, NEW o, NEW order, Changed(after, before, o, order),
           Records(after), Quiet(after),
           NEW b, \A x \in OrdersIn(b) : x \in Shown(before) /\ x.id # o[2],
           NEW q
    PROVE  ~ Meets(b, order.side, order.price, q)
  <1> SUFFICES ASSUME NEW x \in OrdersIn(b), x.side = Opposite(order.side)
               PROVE  Better(Opposite(order.side), order.price, x.price)
    BY DEF Meets
  <1>1. PICK y \in DOMAIN before : x = ShownAs(y, before[y])
    BY InShown
  <1>2. y # o
    BY <1>1 DEF ShownAs
  <1>3. /\ o \in DOMAIN after /\ after[o] = order
        /\ y \in DOMAIN after /\ after[y] = before[y]
    BY <1>1, <1>2 DEF Changed
  <1>4. x.side = after[y].side /\ x.price = after[y].price
    BY <1>1, <1>3 DEF ShownAs
  <1>5. /\ order.side \in Side /\ order.price \in Int
        /\ after[y].side \in Side /\ after[y].price \in Int
    BY <1>3, BoundAssumption DEF Records, Prices
  <1>6. CASE order.side = "BID"
    <2>1. after[y].side = "ASK"
      BY <1>4, <1>6 DEF Opposite
    <2>2. order.price < after[y].price
      BY <1>3, <1>6, <2>1 DEF Quiet
    <2> QED
      BY <1>4, <1>6, <2>2 DEF Better, Opposite
  <1>7. CASE order.side = "ASK"
    <2>1. after[y].side = "BID"
      BY <1>4, <1>7 DEF Opposite
    <2>2. after[y].price < order.price
      BY <1>3, <1>7, <2>1 DEF Quiet
    <2> QED
      BY <1>4, <1>7, <2>2 DEF Better, Opposite
  <1> QED
    BY <1>5, <1>6, <1>7 DEF Side

\* What a message that the replay can follow must do.
LEMMA ExactKeeps ==
    ASSUME NEW out, Update(NoSymbol, out), UNCHANGED source,
           exact' => /\ Quiet(market')
                     /\ OrdersIn(out.book) = Shown(market')
                     /\ out.trades = <<>>
                     /\ out.answer # "false"
    PROVE  FollowedQuietly' /\ MirrorsWhileExact' /\ QuietWhileExact'
  <1>1. BookOf(NoSymbol)' = out.book /\ answer' = out.answer /\ trades' = out.trades
    BY UpdatedBooks
  <1>2. OrdersIn(BookOf(NoSymbol))' = OrdersIn(out.book)
    BY <1>1 DEF OrdersIn
  <1>3. Shown(market)' = Shown(market')
    BY DEF Shown
  <1>4. Quiet(market)' = Quiet(market')
    BY DEF Quiet
  <1> QED
    BY <1>1, <1>2, <1>3, <1>4 DEF FollowedQuietly, MirrorsWhileExact, QuietWhileExact

\* A quantity that arrives for the order that changed, while the replay follows.
LEMMA ArrivalFollowed ==
    ASSUME NEW o, NEW order, Changed(market', market, o, order), Records(market'), Quiet(market'),
           \A x \in DOMAIN market : x[2] = o[2] => x = o,
           NEW b, IsBook(b), OrdersIn(b) = {x \in Shown(market) : x.id # o[2]},
           NEW out, Arrives(out, b, o[2], order.side, order.price, order.quantity)
    PROVE  /\ OrdersIn(out.book) = Shown(market')
           /\ out.trades = <<>> /\ out.answer # "false"
  <1>1. ~ Meets(b, order.side, order.price, order.quantity)
    BY QuietMeetsNone
  <1>2. /\ out.trades = <<>> /\ out.answer = "true"
        /\ OrdersIn(out.book) = OrdersIn(b)
             \cup Rests(o[2], order.side, order.price, order.quantity)
    BY <1>1 DEF Arrives
  <1>3. Shown(market') = {x \in Shown(market) : x.id # o[2]} \cup {ShownAs(o, order)}
    BY ShownChanged
  <1>4. order.quantity > 0
    BY BoundAssumption DEF Records, Changed, Quantities
  <1>5. Rests(o[2], order.side, order.price, order.quantity) = {ShownAs(o, order)}
    BY <1>4 DEF Rests, ShownAs
  <1> QED
    BY <1>2, <1>3, <1>5

-----------------------------------------------------------------------------
(* The requests of clients.                                                *)

\* What a client's request leaves to show: the replay of a CSV file never
\* claims to follow an exchange.
LEMMA ClientKeeps ==
    ASSUME source = "CSV", WriterOK, UNCHANGED <<source, stale, exact>>, Records(market')
    PROVE  WriterOK' /\ FollowedQuietly' /\ MirrorsWhileExact' /\ QuietWhileExact'
  <1>1. ~ exact' /\ exact' \in BOOLEAN /\ source' = "CSV" /\ stale' = stale
    BY DEF WriterOK
  <1>2. WriterOK'
    BY <1>1 DEF WriterOK, Records
  <1> QED
    BY <1>1, <1>2 DEF FollowedQuietly, MirrorsWhileExact, QuietWhileExact

\* A message of a CSV file goes to the book of its symbol.
LEMMA ClientDispatch ==
    ASSUME source = "CSV", NEW stock, NEW msg, Replay(stock, msg)
    PROVE  Key(stock) = stock /\ Update(stock, ProcessCSV(BookOf(stock), msg))
  BY DEF Replay, Key

\* CsvNew keeps the invariant.
LEMMA CsvNewKeeps ==
    ASSUME ReplayOK, NEW stock \in Stocks, NEW id \in OrderIDs, NEW s \in Side,
           NEW p \in Prices, NEW q \in Quantities, CsvNew(stock, id, s, p, q)
    PROVE  ReplayOK'
  <1> DEFINE b == BookOf(stock)
             out == NewOrderOn(b, id, s, p, q)
             order == [side |-> s, price |-> p, quantity |-> q]
             o == <<stock, id>>
             msg == [type |-> "New", id |-> id, side |-> s, price |-> p, quantity |-> q]
  <1>1. /\ source = "CSV" /\ UNCHANGED <<source, used, stale, exact>>
        /\ Replay(stock, msg)
        /\ market' = IF answer' = "true" THEN Told(stock, id, order) ELSE market
    BY DEF CsvNew
  <1>2. WriterOK /\ BooksOK /\ NoPhantomLiquidity /\ Records(market) /\ Records(stale)
    BY DEF ReplayOK, WriterOK
  <1>3. ProcessCSV(b, msg) = out
    BY DEF ProcessCSV
  <1> HIDE DEF msg
  <1>4. Key(stock) = stock /\ Update(stock, out) /\ answer' = out.answer
    <2> HIDE DEF out
    <2>1. Key(stock) = stock /\ Update(stock, out)
      BY <1>1, <1>3, ClientDispatch
    <2> QED
      BY <2>1, UpdatedBooks
  <1>5. IsBook(b) /\ q \in Nat /\ q > 0
    BY <1>2, BookOfKey, BoundAssumption DEF Quantities
  <1> HIDE DEF out
  <1>6. CASE Known(b, id)
    <2>1. out = Refused(b)
      BY <1>5, <1>6, NewOrderIs DEF out
    <2>2. out.book = b /\ out.answer = "false"
      BY <2>1 DEF Refused
    <2>3. UNCHANGED <<source, market, stale>>
      BY <1>1, <1>4, <2>2
    <2>4. BooksOK' /\ NoPhantomLiquidity'
      BY <1>2, <1>4, <2>2, <2>3, NothingKeeps
    <2> QED
      BY <1>1, <1>2, <2>3, <2>4, ClientKeeps DEF ReplayOK
  <1>7. CASE ~ Known(b, id)
    <2>1. Arrives(out, b, id, s, p, q)
      BY <1>5, <1>7, NewOrderIs DEF out
    <2>2. Changed(market', market, o, order)
      BY <1>1, <1>4, <2>1, ToldAndGone DEF Arrives
    <2>3. Records(market') /\ Records(stale')
      <3>1. order \in Kept
        BY DEF Kept
      <3> HIDE DEF order
      <3> QED
        BY <1>1, <1>2, <2>2, <3>1, RecordsKept
    <2>4. Holds(stock, id)
      BY <1>1, <1>2, <2>2, ClientHolds DEF Changed
    <2>5. \A x \in OrdersIn(b) : x \in OrdersIn(BookOf(stock)) /\ x.id # id
      BY <1>5, <1>7, KnownMeans
    <2>6. o \in DOMAIN market' /\ o[2] = id /\ Key(o[1]) = stock /\ market'[o] = order
      BY <1>4, <2>2 DEF Changed
    <2>7. market'[o].side = s /\ market'[o].price = p /\ q <= market'[o].quantity
      BY <1>5, <2>6
    <2> HIDE DEF b, o, order
    <2>8. BooksOK' /\ NoPhantomLiquidity'
      BY <1>1, <1>2, <1>4, <1>5, <2>1, <2>3, <2>4, <2>5, <2>6, <2>7, ArrivalKeeps
    <2> QED
      BY <1>1, <1>2, <2>3, <2>8, ClientKeeps DEF ReplayOK
  <1> QED
    BY <1>6, <1>7

\* CsvCancel keeps the invariant.
LEMMA CsvCancelKeeps ==
    ASSUME ReplayOK, NEW stock \in Stocks, NEW id \in OrderIDs, CsvCancel(stock, id)
    PROVE  ReplayOK'
  <1> DEFINE b == BookOf(stock)
             out == CancelOn(b, id)
             o == <<stock, id>>
             msg == [type |-> "Cancel", id |-> id]
  <1>1. /\ source = "CSV" /\ UNCHANGED <<source, used, stale, exact>>
        /\ Replay(stock, msg)
        /\ market' = Gone(o)
    BY DEF CsvCancel
  <1>2. WriterOK /\ BooksOK /\ NoPhantomLiquidity /\ Records(market) /\ Records(stale)
    BY DEF ReplayOK, WriterOK
  <1>3. ProcessCSV(b, msg) = out
    BY DEF ProcessCSV
  <1> HIDE DEF msg
  <1>4. Update(stock, out)
    BY <1>1, <1>3, ClientDispatch
  <1>5. Dropped(market', market, {o})
    BY <1>1, ToldAndGone
  <1>6. Records(market')
    BY <1>2, <1>5, RecordsKept
  <1>7. Holds(stock, id)
    BY <1>1, <1>2, <1>5, ClientHolds DEF Dropped
  <1>8. IsBook(out.book) /\ \A x \in OrdersIn(out.book) : x \in OrdersIn(b) /\ x.id # id
    <2>1. IsBook(b)
      BY <1>2, BookOfKey
    <2> QED
      BY <2>1, CancelIs
  <1> HIDE DEF out, o
  <1>9. BooksOK' /\ NoPhantomLiquidity'
    BY <1>1, <1>2, <1>4, <1>7, <1>8, RemovalKeeps
  <1> QED
    BY <1>1, <1>2, <1>6, <1>9, ClientKeeps DEF ReplayOK

\* CsvAmend keeps the invariant.
LEMMA CsvAmendKeeps ==
    ASSUME ReplayOK, NEW stock \in Stocks, NEW id \in OrderIDs, NEW s \in Side,
           NEW p \in Prices, NEW q \in Quantities, CsvAmend(stock, id, s, p, q)
    PROVE  ReplayOK'
  <1> DEFINE b == BookOf(stock)
             out == AmendOn(b, id, p, q)
             o == <<stock, id>>
             msg == [type |-> "AmendPriceQuantity", id |-> id, side |-> s,
                     price |-> p, quantity |-> q]
  <1>1. /\ source = "CSV" /\ UNCHANGED <<source, used, stale, exact>>
        /\ Replay(stock, msg)
        /\ market' = IF answer' = "true"
                     THEN [market EXCEPT ![o].price = p, ![o].quantity = q]
                     ELSE market
    BY DEF CsvAmend
  <1>2. WriterOK /\ BooksOK /\ NoPhantomLiquidity /\ Records(market) /\ Records(stale)
    BY DEF ReplayOK, WriterOK
  <1>3. ProcessCSV(b, msg) = out
    BY DEF ProcessCSV
  <1> HIDE DEF msg
  <1>4. Key(stock) = stock /\ Update(stock, out) /\ answer' = out.answer
    <2> HIDE DEF out
    <2>1. Key(stock) = stock /\ Update(stock, out)
      BY <1>1, <1>3, ClientDispatch
    <2> QED
      BY <2>1, UpdatedBooks
  <1>5. IsBook(b) /\ q \in Nat
    BY <1>2, BookOfKey, BoundAssumption DEF Quantities
  <1>6. CASE ~ Known(b, id)
    <2>1. out = Refused(b)
      BY <1>6, UnknownIsRefused
    <2>2. out.book = b /\ out.answer = "false"
      BY <2>1 DEF Refused
    <2> HIDE DEF out
    <2>3. UNCHANGED <<source, market, stale>>
      BY <1>1, <1>4, <2>2
    <2>4. BooksOK' /\ NoPhantomLiquidity'
      BY <1>2, <1>4, <2>2, <2>3, NothingKeeps
    <2> QED
      BY <1>1, <1>2, <2>3, <2>4, ClientKeeps DEF ReplayOK
  <1>7. CASE Known(b, id)
    <2>1. PICK x \in OrdersIn(b) : x.id = id
      BY <1>5, <1>7, KnownMeans
    <2>2. o \in DOMAIN market /\ market[o].side = x.side
      <3>1. Accounted(market, stale, stock, x) /\ ~ Backs(stale, stock, x)
        BY <1>1, <1>2, <2>1, BookOfKey DEF WriterOK, Backs
      <3>2. PICK r \in DOMAIN market : r[2] = x.id /\ Key(r[1]) = stock /\ market[r].side = x.side
        BY <3>1 DEF Accounted, Backs
      <3>3. Key(r[1]) = r[1] /\ r \in Stocks \X OrderIDs
        BY <1>1, <1>2 DEF Key, Records
      <3>4. r = <<r[1], r[2]>>
        BY <3>3
      <3>5. r = o
        BY <2>1, <3>2, <3>3, <3>4
      <3> QED
        BY <3>2, <3>5
    <2> DEFINE order == [side |-> x.side, price |-> p, quantity |-> q]
               rest == Removed(b, id)
    <2>3. Arrives(out, rest, id, x.side, p, q)
      BY <1>5, <2>1, AmendIs
    <2>4. x.side \in Side
      BY <1>5, <2>1, BookOrders
    <2> HIDE DEF out
    <2>5. Changed(market', market, o, order)
      <3>1. Changed([market EXCEPT ![o].price = p, ![o].quantity = q], market, o, order)
        BY <1>2, <2>2, AmendedRecord
      <3>2. market' = [market EXCEPT ![o].price = p, ![o].quantity = q]
        BY <1>1, <1>4, <2>3 DEF Arrives
      <3> QED
        BY <3>1, <3>2
    <2>6. Records(market') /\ Records(stale')
      <3>1. order \in Kept
        BY <2>4 DEF Kept
      <3> HIDE DEF order
      <3> QED
        BY <1>1, <1>2, <2>5, <3>1, RecordsKept
    <2>7. Holds(stock, id)
      BY <1>1, <1>2, <2>5, ClientHolds DEF Changed
    <2>8. IsBook(rest) /\ \A y \in OrdersIn(rest) : y \in OrdersIn(b) /\ y.id # id
      BY <1>5, RemovedIs
    <2>9. o \in DOMAIN market' /\ o[2] = id /\ Key(o[1]) = stock /\ market'[o] = order
      BY <1>4, <2>5 DEF Changed
    <2>10. market'[o].side = x.side /\ market'[o].price = p /\ q <= market'[o].quantity
      BY <1>5, <2>9
    <2> HIDE DEF o, order, rest
    <2>11. BooksOK' /\ NoPhantomLiquidity'
      BY <1>1, <1>2, <1>4, <1>5, <2>3, <2>6, <2>7, <2>8, <2>9, <2>10, ArrivalKeeps
    <2> QED
      BY <1>1, <1>2, <2>6, <2>11, ClientKeeps DEF ReplayOK
  <1> QED
    BY <1>6, <1>7

-----------------------------------------------------------------------------
(* The messages of exchanges.                                              *)

\* The one book of a NASDAQ or a Databento file.
TheBook == BookOf(NoSymbol)

\* The invariant as the messages of an exchange need it.
LEMMA ExchangeState ==
    ASSUME ReplayOK, source # "CSV"
    PROVE  /\ IdsGivenOnce /\ Records(market) /\ Records(stale) /\ BooksOK /\ NoPhantomLiquidity
           /\ \A stock : Key(stock) = NoSymbol
           /\ IsBook(TheBook)
           /\ exact => OrdersIn(TheBook) = Shown(market) /\ Quiet(market)
           /\ \A o, x \in DOMAIN market : o[2] = x[2] => o = x
           /\ \A x \in OrdersIn(TheBook) : x.id \in used
           /\ \A o \in DOMAIN market : \A x \in OrdersIn(TheBook) :
                 x.id = o[2] => /\ x.side = market[o].side
                                /\ x.price = market[o].price
                                /\ x.quantity <= market[o].quantity
  <1>1. IdsGivenOnce /\ Records(market) /\ Records(stale) /\ BooksOK /\ NoPhantomLiquidity
    BY DEF ReplayOK, WriterOK
  <1>2. \A stock : Key(stock) = NoSymbol
    BY DEF Key
  <1>3. IsBook(TheBook) /\ \A x \in OrdersIn(TheBook) : Accounted(market, stale, NoSymbol, x)
    BY <1>1, BookOfKey DEF TheBook
  <1>4. exact => OrdersIn(TheBook) = Shown(market) /\ Quiet(market)
    BY DEF ReplayOK, FollowedQuietly, MirrorsWhileExact, TheBook
  <1>5. ASSUME NEW x \in OrdersIn(TheBook) PROVE x.id \in used
    BY <1>1, <1>3 DEF Accounted, Backs, IdsGivenOnce
  <1>6. ASSUME NEW o \in DOMAIN market, NEW x \in OrdersIn(TheBook), x.id = o[2]
        PROVE  /\ x.side = market[o].side
               /\ x.price = market[o].price
               /\ x.quantity <= market[o].quantity
    <2>1. ~ Backs(stale, NoSymbol, x)
      BY <1>1, <1>6 DEF Backs, IdsGivenOnce
    <2>2. Backs(market, NoSymbol, x)
      BY <1>3, <2>1 DEF Accounted
    <2>3. PICK r \in DOMAIN market : /\ r[2] = x.id /\ market[r].side = x.side
                                     /\ market[r].price = x.price
                                     /\ x.quantity <= market[r].quantity
      BY <2>2 DEF Backs
    <2>4. r = o
      BY <1>1, <1>6, <2>3 DEF IdsGivenOnce
    <2> QED
      BY <2>3, <2>4
  <1>7. \A o, x \in DOMAIN market : o[2] = x[2] => o = x
    BY <1>1 DEF IdsGivenOnce
  <1> QED
    BY <1>1, <1>2, <1>3, <1>4, <1>5, <1>6, <1>7

\* What the writer must keep for the invariant to be kept.
LEMMA ExchangeKeeps ==
    ASSUME source # "CSV", source \in {"NASDAQ", "Databento"}, UNCHANGED source,
           exact' \in BOOLEAN, Records(market'), Records(stale'), IdsGivenOnce',
           BooksOK', NoPhantomLiquidity',
           FollowedQuietly', MirrorsWhileExact', QuietWhileExact'
    PROVE  ReplayOK'
  BY DEF ReplayOK, WriterOK, Records

\* An order that the exchange reports, under an id that it has not given yet.
LEMMA AddKeeps ==
    ASSUME ReplayOK, source \in {"NASDAQ", "Databento"},
           NEW stock \in Stocks, NEW id \in OrderIDs, id \notin used, NEW s \in Side,
           NEW p \in Prices, NEW q \in Quantities,
           Update(NoSymbol, NewOrderOn(TheBook, id, s, p, q)),
           Reports(Told(stock, id, [side |-> s, price |-> p, quantity |-> q])),
           used' = used \cup {id}, UNCHANGED <<source, stale>>
    PROVE  ReplayOK'
  <1> DEFINE out == NewOrderOn(TheBook, id, s, p, q)
             order == [side |-> s, price |-> p, quantity |-> q]
             o == <<stock, id>>
  <1>1. /\ IdsGivenOnce /\ Records(market) /\ Records(stale) /\ BooksOK /\ NoPhantomLiquidity
        /\ \A stk : Key(stk) = NoSymbol
        /\ IsBook(TheBook)
        /\ exact => OrdersIn(TheBook) = Shown(market) /\ Quiet(market)
        /\ \A x \in OrdersIn(TheBook) : x.id \in used
    BY ExchangeState
  <1>2. q \in Nat /\ q > 0
    BY BoundAssumption DEF Quantities
  <1>3. \A x \in OrdersIn(TheBook) : x.id # id
    BY <1>1
  <1>4. ~ Known(TheBook, id)
    BY <1>1, <1>3, KnownMeans
  <1>5. Arrives(out, TheBook, id, s, p, q)
    BY <1>1, <1>2, <1>4, NewOrderIs
  <1>6. Changed(market', market, o, order) /\ o[2] = id
        /\ exact' = (exact /\ Quiet(market'))
    BY ToldAndGone DEF Reports
  <1>7. order \in Kept /\ order.side = s /\ order.price = p /\ order.quantity = q
    BY DEF Kept
  <1>8. \A x \in DOMAIN market : x[2] # id
    BY <1>1 DEF IdsGivenOnce
  <1>9. Update(NoSymbol, out)
    OBVIOUS
  <1> HIDE DEF out, order
  <1>10. Records(market') /\ Records(stale')
    BY <1>1, <1>6, <1>7, RecordsKept
  <1>11. o \in DOMAIN market' /\ market'[o] = order /\ Key(o[1]) = NoSymbol
    BY <1>1, <1>6 DEF Changed
  <1>12. IdsGivenOnce'
    BY <1>1, <1>6, ChangeKeepsIds
  <1>13. Holds(NoSymbol, id)
    BY <1>1, <1>6, ExchangeHolds DEF Changed
  <1> HIDE DEF o
  <1>14. BooksOK' /\ NoPhantomLiquidity'
    <2>1. \A x \in OrdersIn(TheBook) : x \in OrdersIn(BookOf(NoSymbol)) /\ x.id # id
      BY <1>3 DEF TheBook
    <2>2. market'[o].side = s /\ market'[o].price = p /\ q <= market'[o].quantity
      BY <1>2, <1>7, <1>11
    <2> QED
      BY <1>1, <1>2, <1>5, <1>6, <1>9, <1>10, <1>11, <1>13, <2>1, <2>2, ArrivalKeeps
  <1>15. ASSUME exact'
         PROVE  /\ Quiet(market') /\ OrdersIn(out.book) = Shown(market')
                /\ out.trades = <<>> /\ out.answer # "false"
    <2>1. exact /\ Quiet(market')
      BY <1>6, <1>15
    <2>2. OrdersIn(TheBook) = {x \in Shown(market) : x.id # o[2]}
      BY <1>1, <1>3, <1>6, <2>1
    <2>3. \A x \in DOMAIN market : x[2] = o[2] => x = o
      BY <1>6, <1>8
    <2>4. Arrives(out, TheBook, o[2], order.side, order.price, order.quantity)
      BY <1>5, <1>6, <1>7
    <2> QED
      BY <1>1, <1>6, <1>10, <2>1, <2>2, <2>3, <2>4, ArrivalFollowed
  <1>16. FollowedQuietly' /\ MirrorsWhileExact' /\ QuietWhileExact'
    BY <1>9, <1>15, ExactKeeps
  <1>17. exact' \in BOOLEAN
    BY <1>6 DEF ReplayOK, WriterOK, Quiet
  <1> QED
    BY <1>10, <1>12, <1>14, <1>16, <1>17, ExchangeKeeps

\* An order that the exchange reports as gone, from a book that takes it out.
LEMMA GoneKeeps ==
    ASSUME ReplayOK, source \in {"NASDAQ", "Databento"}, NEW o \in DOMAIN market,
           NEW out, Update(NoSymbol, out), IsBook(out.book),
           OrdersIn(out.book) = {x \in OrdersIn(TheBook) : x.id # o[2]},
           out.trades = <<>>, Known(TheBook, o[2]) => out.answer = "true",
           Reports(Gone(o)), UNCHANGED <<source, used, stale>>
    PROVE  ReplayOK'
  <1>1. /\ IdsGivenOnce /\ Records(market) /\ Records(stale) /\ BooksOK /\ NoPhantomLiquidity
        /\ IsBook(TheBook)
        /\ exact => OrdersIn(TheBook) = Shown(market) /\ Quiet(market)
        /\ \A r, x \in DOMAIN market : r[2] = x[2] => r = x
    BY ExchangeState
  <1>2. Dropped(market', market, {o}) /\ exact' = (exact /\ Quiet(market'))
    BY ToldAndGone DEF Reports
  <1>3. Records(market') /\ Records(stale')
    BY <1>1, <1>2, RecordsKept
  <1>4. IdsGivenOnce'
    BY <1>1, <1>2, DropKeepsIds
  <1>5. Holds(NoSymbol, o[2])
    BY <1>1, <1>2, ExchangeHolds DEF Dropped
  <1>6. BooksOK' /\ NoPhantomLiquidity'
    BY <1>1, <1>5, RemovalKeeps DEF TheBook
  <1>7. ASSUME exact'
        PROVE  /\ Quiet(market') /\ OrdersIn(out.book) = Shown(market')
               /\ out.trades = <<>> /\ out.answer # "false"
    <2>1. exact /\ Quiet(market')
      BY <1>2, <1>7
    <2>2. Shown(market') = {x \in Shown(market) : x.id # o[2]}
      BY <1>1, <1>2, ShownDropped
    <2>3. ShownAs(o, market[o]) \in OrdersIn(TheBook) /\ ShownAs(o, market[o]).id = o[2]
      BY <1>1, <2>1, InShown DEF ShownAs
    <2>4. Known(TheBook, o[2])
      BY <1>1, <2>3, KnownMeans
    <2> QED
      BY <1>1, <2>1, <2>2, <2>4
  <1>8. FollowedQuietly' /\ MirrorsWhileExact' /\ QuietWhileExact'
    BY <1>7, ExactKeeps
  <1>9. exact' \in BOOLEAN
    BY <1>2 DEF ReplayOK, WriterOK, Quiet
  <1> QED
    BY <1>3, <1>4, <1>6, <1>8, <1>9, ExchangeKeeps

\* An order that the exchange changes: the book takes the order out, and what
\* it then has arrives.
LEMMA ChangeKeeps ==
    ASSUME ReplayOK, source \in {"NASDAQ", "Databento"}, NEW o \in DOMAIN market,
           NEW p \in Prices, NEW q \in Quantities, NEW order,
           order = [side |-> market[o].side, price |-> p, quantity |-> q],
           Changed(market', market, o, order), exact' = (exact /\ Quiet(market')),
           UNCHANGED <<source, used, stale>>,
           NEW out, Update(NoSymbol, out),
           ~ Known(TheBook, o[2]) => out = Refused(TheBook),
           \A x \in OrdersIn(TheBook) : x.id = o[2] =>
               \E n \in Nat : /\ n <= q
                              /\ exact => n = q
                              /\ Arrives(out, Removed(TheBook, o[2]), o[2], x.side, p, n)
    PROVE  ReplayOK'
  <1>1. /\ IdsGivenOnce /\ Records(market) /\ Records(stale) /\ BooksOK /\ NoPhantomLiquidity
        /\ \A stock : Key(stock) = NoSymbol
        /\ IsBook(TheBook)
        /\ exact => OrdersIn(TheBook) = Shown(market) /\ Quiet(market)
        /\ \A r, x \in DOMAIN market : r[2] = x[2] => r = x
        /\ \A x \in OrdersIn(TheBook) : x.id = o[2] => x.side = market[o].side
    BY ExchangeState
  <1>2. order \in Kept /\ order.side = market[o].side /\ order.price = p /\ order.quantity = q
        /\ q \in Nat
    BY <1>1, BoundAssumption DEF Kept, Records, Quantities
  <1>3. o \in Stocks \X OrderIDs
    BY <1>1 DEF Records
  <1>4. Records(market') /\ Records(stale')
    <2>1. o = <<o[1], o[2]>> /\ o[1] \in Stocks /\ o[2] \in OrderIDs
      BY <1>3
    <2>2. Changed(market', market, <<o[1], o[2]>>, order)
      BY <2>1
    <2> QED
      BY <1>1, <1>2, <2>1, <2>2, RecordsKept
  <1>5. IdsGivenOnce'
    BY <1>1, ChangeKeepsIds
  <1>6. Holds(NoSymbol, o[2])
    BY <1>1, ExchangeHolds DEF Changed
  <1>7. o \in DOMAIN market' /\ market'[o] = order /\ Key(o[1]) = NoSymbol
    BY <1>1 DEF Changed
  <1> DEFINE rest == Removed(TheBook, o[2])
  <1>8. /\ IsBook(rest) /\ OrdersIn(rest) = {x \in OrdersIn(TheBook) : x.id # o[2]}
        /\ \A x \in OrdersIn(rest) : x \in OrdersIn(BookOf(NoSymbol)) /\ x.id # o[2]
    BY <1>1, RemovedIs DEF TheBook
  <1> HIDE DEF rest
  <1>9. CASE ~ Known(TheBook, o[2])
    <2>1. out.book = TheBook
      BY <1>9 DEF Refused
    <2>2. \A x \in OrdersIn(TheBook) : x.id # o[2]
      BY <1>1, <1>9, KnownMeans
    <2>3. BooksOK' /\ NoPhantomLiquidity'
      BY <1>1, <1>6, <2>1, <2>2, RemovalKeeps DEF TheBook
    <2>4. ~ exact
      <3>1. exact => ShownAs(o, market[o]) \in OrdersIn(TheBook)
        BY <1>1, InShown
      <3>2. ShownAs(o, market[o]).id = o[2]
        BY DEF ShownAs
      <3> QED
        BY <2>2, <3>1, <3>2
    <2>5. ~ exact' /\ exact' \in BOOLEAN
      BY <2>4
    <2>6. FollowedQuietly' /\ MirrorsWhileExact' /\ QuietWhileExact'
      BY <2>5 DEF FollowedQuietly, MirrorsWhileExact, QuietWhileExact
    <2> QED
      BY <1>4, <1>5, <2>3, <2>5, <2>6, ExchangeKeeps
  <1>10. CASE Known(TheBook, o[2])
    <2>1. PICK x \in OrdersIn(TheBook) : x.id = o[2]
      BY <1>1, <1>10, KnownMeans
    <2>2. PICK n \in Nat : /\ n <= q
                           /\ exact => n = q
                           /\ Arrives(out, rest, o[2], x.side, p, n)
      BY <2>1 DEF rest
    <2>3. x.side = order.side
      BY <1>1, <1>2, <2>1
    <2>4. BooksOK' /\ NoPhantomLiquidity'
      <3>1. market'[o].side = x.side /\ market'[o].price = p /\ n <= market'[o].quantity
        BY <1>2, <1>7, <2>2, <2>3
      <3> QED
        BY <1>1, <1>4, <1>6, <1>7, <1>8, <2>2, <3>1, ArrivalKeeps
    <2>5. ASSUME exact'
          PROVE  /\ Quiet(market') /\ OrdersIn(out.book) = Shown(market')
                 /\ out.trades = <<>> /\ out.answer # "false"
      <3>1. exact /\ Quiet(market')
        BY <2>5
      <3>2. Arrives(out, rest, o[2], order.side, order.price, order.quantity)
        BY <1>2, <2>2, <2>3, <3>1
      <3>3. OrdersIn(rest) = {y \in Shown(market) : y.id # o[2]}
        BY <1>1, <1>8, <3>1
      <3>4. \A y \in DOMAIN market : y[2] = o[2] => y = o
        BY <1>1
      <3> QED
        BY <1>4, <1>8, <3>1, <3>2, <3>3, <3>4, ArrivalFollowed
    <2>6. FollowedQuietly' /\ MirrorsWhileExact' /\ QuietWhileExact'
      BY <2>5, ExactKeeps
    <2>7. exact' \in BOOLEAN
      BY DEF ReplayOK, WriterOK, Quiet
    <2> QED
      BY <1>4, <1>5, <2>4, <2>6, <2>7, ExchangeKeeps
  <1> QED
    BY <1>9, <1>10

\* What the messages of a NASDAQ file call.
LEMMA NasdaqDispatch ==
    ASSUME source = "NASDAQ", NEW stock, NEW msg, Replay(stock, msg)
    PROVE  \E outcome \in ProcessNasdaq(TheBook, msg) : Update(NoSymbol, outcome)
  BY DEF Replay, Key, TheBook

\* What the records of a Databento file call.
LEMMA DatabentoDispatch ==
    ASSUME source = "Databento", NEW stock, NEW msg, Replay(stock, msg)
    PROVE  Update(NoSymbol, UpdateOrderBook(TheBook, msg))
  BY DEF Replay, Key, TheBook

\* NasdaqAdd keeps the invariant.
LEMMA NasdaqAddKeeps ==
    ASSUME ReplayOK, NEW stock \in Stocks, NEW id \in OrderIDs, NEW s \in Side,
           NEW p \in Prices, NEW q \in Quantities, NasdaqAdd(stock, id, s, p, q)
    PROVE  ReplayOK'
  <1> DEFINE msg(type) == [type |-> type, id |-> id, side |-> s, price |-> p, quantity |-> q]
             out == NewOrderOn(TheBook, id, s, p, q)
  <1>1. /\ source = "NASDAQ" /\ id \notin used
        /\ Reports(Told(stock, id, [side |-> s, price |-> p, quantity |-> q]))
        /\ used' = used \cup {id} /\ UNCHANGED <<source, stale>>
    BY DEF NasdaqAdd
  <1>2. PICK type \in {"OrderAdd", "OrderAddWithMPID"} : Replay(stock, msg(type))
    BY DEF NasdaqAdd
  <1>3. ProcessNasdaq(TheBook, msg(type)) = {out}
    <2>1. /\ msg(type).type = type /\ msg(type).id = id /\ msg(type).side = s
          /\ msg(type).price = p /\ msg(type).quantity = q
      OBVIOUS
    <2> HIDE DEF msg
    <2> QED
      BY <2>1 DEF ProcessNasdaq
  <1> HIDE DEF msg, out
  <1>4. Update(NoSymbol, out)
    BY <1>1, <1>2, <1>3, NasdaqDispatch
  <1> QED
    BY <1>1, <1>4, AddKeeps DEF out

\* NasdaqReduce keeps the invariant: the quantity comes off the same order.
LEMMA NasdaqReduceKeeps ==
    ASSUME ReplayOK, NEW o \in DOMAIN market, NEW d \in Quantities, NasdaqReduce(o, d)
    PROVE  ReplayOK'
  <1> DEFINE msg(type) == [type |-> type, id |-> o[2], quantity |-> d]
             out == AmendDeltaOn(TheBook, o[2], d)
             left == market[o].quantity - d
             order == [side |-> market[o].side, price |-> market[o].price, quantity |-> left]
  <1>1. /\ source = "NASDAQ" /\ d <= market[o].quantity /\ UNCHANGED <<source, used, stale>>
        /\ Reports(IF d = market[o].quantity THEN Gone(o)
                   ELSE [market EXCEPT ![o].quantity = @ - d])
    BY DEF NasdaqReduce
  <1>2. PICK type \in {"OrderCancel", "OrderExecute", "OrderExecuteWithPrice"} :
            Replay(o[1], msg(type))
    BY DEF NasdaqReduce
  <1>3. ProcessNasdaq(TheBook, msg(type)) = {out}
    <2>1. msg(type).type = type /\ msg(type).id = o[2] /\ msg(type).quantity = d
      OBVIOUS
    <2> HIDE DEF msg
    <2> QED
      BY <2>1 DEF ProcessNasdaq, ReduceOrder
  <1> HIDE DEF msg
  <1>4. Update(NoSymbol, out)
    <2> HIDE DEF out
    <2> QED
      BY <1>1, <1>2, <1>3, NasdaqDispatch
  <1>5. /\ Records(market) /\ IsBook(TheBook)
        /\ exact => OrdersIn(TheBook) = Shown(market)
        /\ \A r, x \in DOMAIN market : r[2] = x[2] => r = x
        /\ \A x \in OrdersIn(TheBook) : x.id = o[2] => /\ x.side = market[o].side
                                                       /\ x.price = market[o].price
                                                       /\ x.quantity <= market[o].quantity
    BY <1>1, ExchangeState
  <1>6. /\ d \in Nat /\ d > 0 /\ market[o].quantity \in Quantities /\ market[o].quantity \in Nat
        /\ market[o].price \in Prices
    BY <1>5, BoundAssumption DEF Records, Quantities
  <1>7. ~ Known(TheBook, o[2]) => out = Refused(TheBook)
    BY UnknownIsRefused
  <1>8. ASSUME NEW x \in OrdersIn(TheBook), x.id = o[2]
        PROVE  Arrives(out, Removed(TheBook, o[2]), o[2], x.side, x.price,
                       IF d >= x.quantity THEN 0 ELSE x.quantity - d)
    BY <1>5, <1>6, <1>8, AmendDeltaIs
  <1>9. \A x \in OrdersIn(TheBook) : x.quantity \in Nat
    BY <1>5, BookOrders
  <1> HIDE DEF out
  <1>10. CASE d = market[o].quantity
    <2>1. Reports(Gone(o))
      BY <1>1, <1>10
    <2>2. /\ IsBook(out.book) /\ OrdersIn(out.book) = {x \in OrdersIn(TheBook) : x.id # o[2]}
          /\ out.trades = <<>>
          /\ Known(TheBook, o[2]) => out.answer = "true"
      <3>1. CASE ~ Known(TheBook, o[2])
        <4>1. \A x \in OrdersIn(TheBook) : x.id # o[2]
          BY <1>5, <3>1, KnownMeans
        <4>2. out.book = TheBook /\ out.trades = <<>>
          BY <1>7, <3>1 DEF Refused
        <4> QED
          BY <1>5, <3>1, <4>1, <4>2
      <3>2. CASE Known(TheBook, o[2])
        <4>1. PICK x \in OrdersIn(TheBook) : x.id = o[2]
          BY <1>5, <3>2, KnownMeans
        <4>2. d >= x.quantity
          BY <1>5, <1>6, <1>9, <1>10, <4>1
        <4>3. Arrives(out, Removed(TheBook, o[2]), o[2], x.side, x.price, 0)
          BY <1>8, <4>1, <4>2
        <4>4. ~ Meets(Removed(TheBook, o[2]), x.side, x.price, 0)
          BY DEF Meets
        <4>5. Rests(o[2], x.side, x.price, 0) = {}
          BY DEF Rests
        <4>6. OrdersIn(Removed(TheBook, o[2])) = {y \in OrdersIn(TheBook) : y.id # o[2]}
          BY <1>5, RemovedIs
        <4> QED
          BY <4>3, <4>4, <4>5, <4>6 DEF Arrives
      <3> QED
        BY <3>1, <3>2
    <2>3. source \in {"NASDAQ", "Databento"} /\ UNCHANGED <<source, used, stale>>
      BY <1>1
    <2> HIDE DEF order, left
    <2> QED
      BY <1>4, <2>1, <2>2, <2>3, GoneKeeps
  <1>11. CASE d # market[o].quantity
    <2>1. left \in Quantities
      <3> DEFINE n == market[o].quantity
      <3>1. n \in 1 .. MaxQuantity /\ d \in 1 .. MaxQuantity /\ d <= n /\ d # n
        BY <1>1, <1>6, <1>11 DEF Quantities
      <3> HIDE DEF n
      <3>2. n - d \in 1 .. MaxQuantity
        BY <3>1, BoundAssumption
      <3> QED
        BY <3>2 DEF n, Quantities
    <2>2. Reports([market EXCEPT ![o].quantity = @ - d])
      BY <1>1, <1>11
    <2>3. Changed(market', market, o, order) /\ exact' = (exact /\ Quiet(market'))
      <3>1. Changed([market EXCEPT ![o].quantity = @ - d], market, o, order)
        BY <1>5, <1>6, AmendedRecord
      <3> HIDE DEF order
      <3> QED
        BY <2>2, <3>1 DEF Reports
    <2>4. ASSUME NEW x \in OrdersIn(TheBook), x.id = o[2]
          PROVE  \E n \in Nat : /\ n <= left
                                /\ exact => n = left
                                /\ Arrives(out, Removed(TheBook, o[2]), o[2], x.side,
                                           market[o].price, n)
      <3> DEFINE n == IF d >= x.quantity THEN 0 ELSE x.quantity - d
      <3>1. /\ x.price = market[o].price /\ x.quantity <= market[o].quantity
            /\ x.quantity \in Nat
        BY <1>5, <1>9, <2>4
      <3>2. n \in Nat /\ n <= left
        BY <1>1, <1>6, <3>1
      <3>3. ASSUME exact PROVE n = left
        <4>1. PICK r \in DOMAIN market : x = ShownAs(r, market[r])
          BY <1>5, <3>3, InShown
        <4>2. r = o
          BY <1>5, <2>4, <4>1 DEF ShownAs
        <4>3. x.quantity = market[o].quantity
          BY <4>1, <4>2 DEF ShownAs
        <4> QED
          BY <1>1, <1>6, <1>11, <4>3
      <3>4. Arrives(out, Removed(TheBook, o[2]), o[2], x.side, market[o].price, n)
        BY <1>8, <2>4, <3>1
      <3> HIDE DEF n, left
      <3> QED
        BY <3>2, <3>3, <3>4
    <2>5. order = [side |-> market[o].side, price |-> market[o].price, quantity |-> left]
      OBVIOUS
    <2> HIDE DEF order, left
    <2> QED
      BY <1>1, <1>4, <1>6, <1>7, <2>1, <2>3, <2>4, <2>5, ChangeKeeps
  <1> QED
    BY <1>10, <1>11

\* NasdaqDelete keeps the invariant.
LEMMA NasdaqDeleteKeeps ==
    ASSUME ReplayOK, NEW o \in DOMAIN market, NasdaqDelete(o)
    PROVE  ReplayOK'
  <1> DEFINE msg == [type |-> "OrderDelete", id |-> o[2]]
             out == CancelOn(TheBook, o[2])
  <1>1. /\ source = "NASDAQ" /\ Replay(o[1], msg) /\ Reports(Gone(o))
        /\ UNCHANGED <<source, used, stale>>
    BY DEF NasdaqDelete
  <1>2. ProcessNasdaq(TheBook, msg) = {out}
    <2>1. msg.type = "OrderDelete" /\ msg.id = o[2]
      OBVIOUS
    <2> HIDE DEF msg
    <2> QED
      BY <2>1 DEF ProcessNasdaq
  <1> HIDE DEF msg
  <1>3. /\ IsBook(out.book) /\ OrdersIn(out.book) = {x \in OrdersIn(TheBook) : x.id # o[2]}
        /\ out.trades = <<>>
        /\ Known(TheBook, o[2]) => out.answer = "true"
    BY <1>1, ExchangeState, CancelIs
  <1> HIDE DEF out
  <1>4. Update(NoSymbol, out)
    BY <1>1, <1>2, NasdaqDispatch
  <1> QED
    BY <1>1, <1>3, <1>4, GoneKeeps

\* MboCancel keeps the invariant.
LEMMA MboCancelKeeps ==
    ASSUME ReplayOK, NEW o \in DOMAIN market, MboCancel(o)
    PROVE  ReplayOK'
  <1> DEFINE msg == [action |-> "C", id |-> o[2]]
             out == CancelOn(TheBook, o[2])
  <1>1. /\ source = "Databento" /\ Replay(o[1], msg) /\ Reports(Gone(o))
        /\ UNCHANGED <<source, used, stale>>
    BY DEF MboCancel
  <1>2. UpdateOrderBook(TheBook, msg) = out
    <2>1. msg.action = "C" /\ msg.id = o[2]
      OBVIOUS
    <2> HIDE DEF msg
    <2> QED
      BY <2>1 DEF UpdateOrderBook
  <1> HIDE DEF msg
  <1>3. /\ IsBook(out.book) /\ OrdersIn(out.book) = {x \in OrdersIn(TheBook) : x.id # o[2]}
        /\ out.trades = <<>>
        /\ Known(TheBook, o[2]) => out.answer = "true"
    BY <1>1, ExchangeState, CancelIs
  <1> HIDE DEF out
  <1>4. Update(NoSymbol, out)
    BY <1>1, <1>2, DatabentoDispatch
  <1> QED
    BY <1>1, <1>3, <1>4, GoneKeeps

\* MboAdd keeps the invariant.
LEMMA MboAddKeeps ==
    ASSUME ReplayOK, NEW stock \in Stocks, NEW id \in OrderIDs, NEW s \in Side,
           NEW p \in Prices, NEW q \in Quantities, MboAdd(stock, id, s, p, q)
    PROVE  ReplayOK'
  <1> DEFINE msg == [action |-> "A", id |-> id, side |-> s, price |-> p, quantity |-> q]
             out == NewOrderOn(TheBook, id, s, p, q)
  <1>1. /\ source = "Databento" /\ id \notin used /\ Replay(stock, msg)
        /\ Reports(Told(stock, id, [side |-> s, price |-> p, quantity |-> q]))
        /\ used' = used \cup {id} /\ UNCHANGED <<source, stale>>
    BY DEF MboAdd
  <1>2. UpdateOrderBook(TheBook, msg) = out
    <2>1. msg.action = "A" /\ msg.id = id /\ msg.side = s /\ msg.price = p /\ msg.quantity = q
      OBVIOUS
    <2> HIDE DEF msg
    <2> QED
      BY <2>1 DEF UpdateOrderBook
  <1> HIDE DEF msg, out
  <1>3. Update(NoSymbol, out)
    BY <1>1, <1>2, DatabentoDispatch
  <1> QED
    BY <1>1, <1>3, AddKeeps DEF out

\* MboModify keeps the invariant: the order joins the book again.
LEMMA MboModifyKeeps ==
    ASSUME ReplayOK, NEW o \in DOMAIN market, NEW p \in Prices, NEW q \in Quantities,
           MboModify(o, p, q)
    PROVE  ReplayOK'
  <1> DEFINE msg == [action |-> "M", id |-> o[2], side |-> market[o].side,
                     price |-> p, quantity |-> q]
             out == AmendSideOn(TheBook, o[2], market[o].side, p, q)
             order == [side |-> market[o].side, price |-> p, quantity |-> q]
  <1>1. /\ source = "Databento" /\ Replay(o[1], msg) /\ UNCHANGED <<source, used, stale>>
        /\ Reports([market EXCEPT ![o].price = p, ![o].quantity = q])
    BY DEF MboModify
  <1>2. UpdateOrderBook(TheBook, msg) = out
    <2>1. /\ msg.action = "M" /\ msg.id = o[2] /\ msg.side = market[o].side
          /\ msg.price = p /\ msg.quantity = q
      OBVIOUS
    <2> HIDE DEF msg
    <2> QED
      BY <2>1 DEF UpdateOrderBook
  <1> HIDE DEF msg
  <1>3. Update(NoSymbol, out)
    <2> HIDE DEF out
    <2> QED
      BY <1>1, <1>2, DatabentoDispatch
  <1>4. /\ Records(market) /\ IsBook(TheBook)
        /\ \A x \in OrdersIn(TheBook) : x.id = o[2] => x.side = market[o].side
    BY <1>1, ExchangeState
  <1>5. q \in Nat
    BY BoundAssumption DEF Quantities
  <1>6. ~ Known(TheBook, o[2]) => out = Refused(TheBook)
    BY UnknownIsRefused
  <1>7. ASSUME NEW x \in OrdersIn(TheBook), x.id = o[2]
        PROVE  Arrives(out, Removed(TheBook, o[2]), o[2], x.side, p, q)
    BY <1>4, <1>5, <1>7, AmendIs
  <1>8. Changed(market', market, o, order) /\ exact' = (exact /\ Quiet(market'))
    <2>1. Changed([market EXCEPT ![o].price = p, ![o].quantity = q], market, o, order)
      BY <1>4, AmendedRecord
    <2> HIDE DEF order
    <2> QED
      BY <1>1, <2>1 DEF Reports
  <1>9. order = [side |-> market[o].side, price |-> p, quantity |-> q]
    OBVIOUS
  <1> HIDE DEF out, order
  <1>10. \A x \in OrdersIn(TheBook) : x.id = o[2] =>
             \E n \in Nat : /\ n <= q
                            /\ exact => n = q
                            /\ Arrives(out, Removed(TheBook, o[2]), o[2], x.side, p, n)
    BY <1>5, <1>7
  <1> QED
    BY <1>1, <1>3, <1>6, <1>8, <1>9, <1>10, ChangeKeeps

\* Orders that leave the exchange unnoticed stay accounted for.
LEMMA LeftKeeps ==
    ASSUME NEW gone, gone \subseteq DOMAIN market, stale' = Left(gone), Records(market), Records(stale)
    PROVE  /\ Records(stale')
           /\ DOMAIN stale' = DOMAIN stale \cup gone
           /\ \A o \in gone : stale'[o] = market[o]
           /\ IdsGivenOnce => \A o \in DOMAIN stale : stale'[o] = stale[o]
  <1>1. /\ DOMAIN stale' = DOMAIN stale \cup gone
        /\ \A o \in DOMAIN stale' : stale'[o] = IF o \in gone THEN market[o] ELSE stale[o]
    BY DEF Left
  <1>2. Records(stale')
    BY <1>1 DEF Records
  <1>3. ASSUME IdsGivenOnce, NEW o \in DOMAIN stale PROVE o \notin gone
    BY <1>3 DEF IdsGivenOnce
  <1> QED
    BY <1>1, <1>2, <1>3

\* A message that the book does not follow although the writer's orders change:
\* the replay is no longer exact.  What the book keeps is what the writer has
\* left alone, or it is stale.
LEMMA UnfollowedKeeps ==
    ASSUME ReplayOK, source \in {"NASDAQ", "Databento"},
           NEW out, Update(NoSymbol, out), IsBook(out.book),
           OrdersIn(out.book) \subseteq OrdersIn(TheBook),
           UNCHANGED source, exact' = FALSE, Records(market'), Records(stale'), IdsGivenOnce',
           \A x \in OrdersIn(out.book), o \in DOMAIN market :
               o[2] = x.id => \/ o \in DOMAIN market' /\ market'[o] = market[o]
                              \/ o \in DOMAIN stale' /\ stale'[o] = market[o],
           \A o \in DOMAIN stale : o \in DOMAIN stale' /\ stale'[o] = stale[o]
    PROVE  ReplayOK'
  <1>1. BooksOK /\ NoPhantomLiquidity /\ IsBook(TheBook)
        /\ \A stock : Key(stock) = NoSymbol
    BY ExchangeState
  <1>2. \A known, x : Backs(known, NoSymbol, x) <=>
            \E o \in DOMAIN known : /\ o[2] = x.id /\ known[o].side = x.side
                                    /\ known[o].price = x.price
                                    /\ x.quantity <= known[o].quantity
    BY <1>1 DEF Backs
  <1>3. ASSUME NEW x \in OrdersIn(out.book), Accounted(market, stale, NoSymbol, x)
        PROVE  Accounted(market', stale', NoSymbol, x)
    BY <1>2, <1>3 DEF Accounted
  <1>4. \A x \in OrdersIn(out.book) : Accounted(market', stale', NoSymbol, x)
    BY <1>1, <1>3, BookOfKey DEF TheBook
  <1>5. \A k \in DOMAIN books \ {NoSymbol} : \A x \in OrdersIn(books[k]) :
            Accounted(market', stale', k, x)
    BY <1>1 DEF NoPhantomLiquidity, Backs
  <1>6. BooksOK' /\ NoPhantomLiquidity'
    BY <1>1, <1>4, <1>5, UpdateKeeps
  <1>7. FollowedQuietly' /\ MirrorsWhileExact' /\ QuietWhileExact' /\ exact' \in BOOLEAN
    BY DEF FollowedQuietly, MirrorsWhileExact, QuietWhileExact
  <1> QED
    BY <1>6, <1>7, ExchangeKeeps

\* NasdaqReplace keeps the invariant: the book looks for the new id, does not
\* know it, and keeps the order under the old one.
LEMMA NasdaqReplaceKeeps ==
    ASSUME ReplayOK, NEW o \in DOMAIN market, NEW id \in OrderIDs, NEW p \in Prices,
           NEW q \in Quantities, NasdaqReplace(o, id, p, q)
    PROVE  ReplayOK'
  <1> DEFINE msg == [type |-> "OrderReplace", prev |-> o[2], id |-> id,
                     price |-> p, quantity |-> q]
             out == Refused(TheBook)
             new == <<o[1], id>>
             order == [side |-> market[o].side, price |-> p, quantity |-> q]
             without == Gone(o)
  <1>1. /\ source = "NASDAQ" /\ id \notin used /\ Replay(o[1], msg)
        /\ exact' = FALSE /\ used' = used \cup {id} /\ stale' = Left({o}) /\ UNCHANGED source
        /\ market' = [x \in DOMAIN without \cup {new} |-> IF x = new THEN order ELSE without[x]]
    BY DEF NasdaqReplace
  <1>2. /\ IdsGivenOnce /\ Records(market) /\ Records(stale) /\ IsBook(TheBook)
        /\ \A x \in OrdersIn(TheBook) : x.id \in used
    BY <1>1, ExchangeState
  <1>3. ReplaceOn(TheBook, id, p, q) = {out}
    <2>1. \A x \in OrdersIn(TheBook) : x.id # id
      BY <1>1, <1>2
    <2>2. ~ Known(TheBook, id)
      BY <1>2, <2>1, KnownMeans
    <2> QED
      BY <2>2, UnknownIsRefused
  <1>4. ProcessNasdaq(TheBook, msg) = ReplaceOn(TheBook, id, p, q)
    <2>1. msg.type = "OrderReplace" /\ msg.id = id /\ msg.price = p /\ msg.quantity = q
      OBVIOUS
    <2> HIDE DEF msg
    <2> QED
      BY <2>1 DEF ProcessNasdaq
  <1>5. out.book = TheBook
    BY DEF Refused
  <1> HIDE DEF msg, out
  <1>6. Update(NoSymbol, out)
    BY <1>1, <1>3, <1>4, NasdaqDispatch
  <1>7. Dropped(without, market, {o}) /\ Changed(market', without, new, order)
    BY <1>1, ToldAndGone DEF Changed
  <1> HIDE DEF without
  <1>8. /\ DOMAIN market' = (DOMAIN market \ {o}) \cup {new} /\ market'[new] = order
        /\ \A x \in DOMAIN market : x # o /\ x # new => market'[x] = market[x]
    BY <1>7 DEF Dropped, Changed
  <1>9. /\ Records(stale') /\ DOMAIN stale' = DOMAIN stale \cup {o}
        /\ stale'[o] = market[o] /\ \A x \in DOMAIN stale : stale'[x] = stale[x]
    BY <1>1, <1>2, LeftKeeps
  <1>10. new \in Stocks \X OrderIDs /\ new[2] = id /\ order \in Kept
    BY <1>2 DEF Records, Kept
  <1>11. Records(market')
    BY <1>2, <1>8, <1>10 DEF Records, Kept
  <1>12. \A x \in DOMAIN market : x # new
    BY <1>1, <1>2, <1>10 DEF IdsGivenOnce
  <1> HIDE DEF new, order
  <1>13. IdsGivenOnce'
    <2>1. \A x \in DOMAIN market' : x[2] \in used'
      BY <1>1, <1>2, <1>8, <1>10 DEF IdsGivenOnce
    <2>2. \A x \in DOMAIN stale' : x[2] \in used'
      BY <1>1, <1>2, <1>9 DEF IdsGivenOnce
    <2>3. \A x, y \in DOMAIN market' : x[2] = y[2] => x = y
      BY <1>1, <1>2, <1>8, <1>10 DEF IdsGivenOnce
    <2>4. \A x \in DOMAIN market', y \in DOMAIN stale' : x[2] # y[2]
      BY <1>1, <1>2, <1>8, <1>9, <1>10 DEF IdsGivenOnce
    <2> QED
      BY <2>1, <2>2, <2>3, <2>4 DEF IdsGivenOnce
  <1>14. \A x \in DOMAIN market : \/ x \in DOMAIN market' /\ market'[x] = market[x]
                                  \/ x \in DOMAIN stale' /\ stale'[x] = market[x]
    BY <1>8, <1>9, <1>12
  <1>15. \A x \in DOMAIN stale : x \in DOMAIN stale' /\ stale'[x] = stale[x]
    BY <1>9
  <1>16. source \in {"NASDAQ", "Databento"} /\ UNCHANGED source /\ exact' = FALSE
    BY <1>1
  <1> QED
    BY <1>2, <1>5, <1>6, <1>9, <1>11, <1>13, <1>14, <1>15, <1>16, UnfollowedKeeps

\* MboReset keeps the invariant: the book keeps what the exchange threw away.
LEMMA MboResetKeeps ==
    ASSUME ReplayOK, NEW stock \in Stocks, MboReset(stock)
    PROVE  ReplayOK'
  <1> DEFINE msg == [action |-> "R"]
             out == Ignored(TheBook)
             gone == {o \in DOMAIN market : o[1] = stock}
  <1>1. /\ source = "Databento" /\ Replay(stock, msg)
        /\ market' = [o \in DOMAIN market \ gone |-> market[o]]
        /\ stale' = Left(gone) /\ exact' = FALSE /\ UNCHANGED <<source, used>>
    BY DEF MboReset
  <1>2. IdsGivenOnce /\ Records(market) /\ Records(stale) /\ IsBook(TheBook)
    BY <1>1, ExchangeState
  <1>3. UpdateOrderBook(TheBook, msg) = out
    <2>1. msg.action = "R"
      OBVIOUS
    <2> HIDE DEF msg
    <2> QED
      BY <2>1 DEF UpdateOrderBook
  <1>4. out.book = TheBook
    BY DEF Ignored
  <1> HIDE DEF msg, out
  <1>5. Update(NoSymbol, out)
    BY <1>1, <1>3, DatabentoDispatch
  <1>6. gone \subseteq DOMAIN market
    OBVIOUS
  <1> HIDE DEF gone
  <1>7. Dropped(market', market, gone)
    BY <1>1 DEF Dropped
  <1>8. Records(market')
    BY <1>2, <1>7, RecordsKept
  <1>9. /\ Records(stale') /\ DOMAIN stale' = DOMAIN stale \cup gone
        /\ \A o \in gone : stale'[o] = market[o]
        /\ \A o \in DOMAIN stale : stale'[o] = stale[o]
    BY <1>1, <1>2, <1>6, LeftKeeps
  <1>10. IdsGivenOnce'
    BY <1>1, <1>2, <1>6, <1>7, <1>9 DEF IdsGivenOnce, Dropped
  <1>11. \A o \in DOMAIN market : \/ o \in DOMAIN market' /\ market'[o] = market[o]
                                  \/ o \in DOMAIN stale' /\ stale'[o] = market[o]
    BY <1>7, <1>9 DEF Dropped
  <1>12. source \in {"NASDAQ", "Databento"} /\ UNCHANGED source /\ exact' = FALSE
    BY <1>1
  <1> QED
    BY <1>2, <1>4, <1>5, <1>8, <1>9, <1>10, <1>11, <1>12, UnfollowedKeeps

\* MboCancelPart keeps the invariant: the book drops the order, of which the
\* exchange keeps a part.
LEMMA MboCancelPartKeeps ==
    ASSUME ReplayOK, NEW o \in DOMAIN market, NEW d \in Quantities, MboCancelPart(o, d)
    PROVE  ReplayOK'
  <1> DEFINE msg == [action |-> "C", id |-> o[2]]
             out == CancelOn(TheBook, o[2])
             left == market[o].quantity - d
             order == [side |-> market[o].side, price |-> market[o].price, quantity |-> left]
  <1>1. /\ source = "Databento" /\ d < market[o].quantity /\ Replay(o[1], msg)
        /\ market' = [market EXCEPT ![o].quantity = @ - d]
        /\ exact' = FALSE /\ UNCHANGED <<source, used, stale>>
    BY DEF MboCancelPart
  <1>2. UpdateOrderBook(TheBook, msg) = out
    <2>1. msg.action = "C" /\ msg.id = o[2]
      OBVIOUS
    <2> HIDE DEF msg
    <2> QED
      BY <2>1 DEF UpdateOrderBook
  <1> HIDE DEF msg
  <1>3. IsBook(out.book) /\ OrdersIn(out.book) = {x \in OrdersIn(TheBook) : x.id # o[2]}
    BY <1>1, ExchangeState, CancelIs
  <1> HIDE DEF out
  <1>4. Update(NoSymbol, out)
    BY <1>1, <1>2, DatabentoDispatch
  <1>5. IdsGivenOnce /\ Records(market) /\ Records(stale)
    BY <1>1, ExchangeState
  <1>6. Changed(market', market, o, order) /\ DOMAIN market' = DOMAIN market
    <2>1. Changed([market EXCEPT ![o].quantity = @ - d], market, o, order)
      <3>1. market[o].price \in Prices
        BY <1>5 DEF Records
      <3> QED
        BY <1>5, <3>1, AmendedRecord
    <2> HIDE DEF order
    <2> QED
      BY <1>1, <2>1
  <1>7. order \in Kept
    <2> DEFINE n == market[o].quantity
    <2>1. n \in 1 .. MaxQuantity /\ d \in 1 .. MaxQuantity /\ d < n /\ market[o] \in Kept
      BY <1>1, <1>5 DEF Quantities, Records, Kept
    <2> HIDE DEF n
    <2>2. n - d \in 1 .. MaxQuantity
      BY <2>1, BoundAssumption
    <2> QED
      BY <2>1, <2>2 DEF n, Kept, Quantities
  <1> HIDE DEF order, left
  <1>8. Records(market')
    <2>1. \A x \in DOMAIN market : market'[x] \in Kept
      BY <1>5, <1>6, <1>7 DEF Records, Changed, Kept
    <2> QED
      BY <1>5, <1>6, <2>1 DEF Records, Kept
  <1>9. Records(stale') /\ IdsGivenOnce'
    BY <1>1, <1>5, <1>6 DEF IdsGivenOnce
  <1>10. \A x \in OrdersIn(out.book), y \in DOMAIN market :
             y[2] = x.id => y \in DOMAIN market' /\ market'[y] = market[y]
    BY <1>3, <1>6 DEF Changed
  <1>11. \A y \in DOMAIN stale : y \in DOMAIN stale' /\ stale'[y] = stale[y]
    BY <1>1
  <1>12. source \in {"NASDAQ", "Databento"} /\ UNCHANGED source /\ exact' = FALSE
    BY <1>1
  <1> QED
    BY <1>3, <1>4, <1>8, <1>9, <1>10, <1>11, <1>12, UnfollowedKeeps

\* A message of an exchange that says nothing of an order.
LEMMA OtherKeeps ==
    ASSUME ReplayOK, source \in {"NASDAQ", "Databento"}, NEW key,
           Update(key, Ignored(BookOf(key))), UNCHANGED <<source, market, used, stale, exact>>
    PROVE  ReplayOK'
  <1> DEFINE out == Ignored(BookOf(key))
  <1>1. BooksOK /\ NoPhantomLiquidity /\ IdsGivenOnce /\ Records(market) /\ Records(stale)
    BY ExchangeState
  <1>2. out.book = BookOf(key) /\ out.trades = <<>> /\ out.answer = "none"
    BY DEF Ignored
  <1>3. Update(key, out)
    OBVIOUS
  <1> HIDE DEF out
  <1>4. BooksOK' /\ NoPhantomLiquidity'
    BY <1>1, <1>2, <1>3, NothingKeeps
  <1>5. /\ BookOf(key)' = out.book /\ (key # NoSymbol => BookOf(NoSymbol)' = BookOf(NoSymbol))
        /\ answer' = out.answer /\ trades' = out.trades
    BY <1>3, UpdatedBooks
  <1>6. BookOf(NoSymbol)' = BookOf(NoSymbol)
    BY <1>2, <1>5
  <1>7. OrdersIn(BookOf(NoSymbol))' = OrdersIn(BookOf(NoSymbol))
    BY <1>6 DEF OrdersIn
  <1>8. FollowedQuietly' /\ MirrorsWhileExact' /\ QuietWhileExact'
    <2>1. Shown(market)' = Shown(market) /\ Quiet(market)' = Quiet(market)
      BY DEF Shown, Quiet
    <2> QED
      BY <1>2, <1>5, <1>7, <2>1
         DEF ReplayOK, FollowedQuietly, MirrorsWhileExact, QuietWhileExact
  <1>9. Records(market') /\ Records(stale') /\ IdsGivenOnce' /\ exact' \in BOOLEAN
    BY <1>1 DEF ReplayOK, WriterOK, IdsGivenOnce
  <1> QED
    BY <1>4, <1>8, <1>9, ExchangeKeeps

-----------------------------------------------------------------------------
(* The theorems.                                                           *)

\* The invariant holds before the first message.
LEMMA ReplayStarts == Init => ReplayOK
  <1> SUFFICES ASSUME Init PROVE ReplayOK
    OBVIOUS
  <1>1. /\ source \in Sources /\ DOMAIN books = {} /\ answer = "none" /\ trades = <<>>
        /\ DOMAIN market = {} /\ DOMAIN stale = {} /\ used = {} /\ exact = (source # "CSV")
    BY DEF Init
  <1>2. WriterOK
    BY <1>1, SourceAssumption DEF WriterOK, Records, IdsGivenOnce
  <1>3. BooksOK /\ NoPhantomLiquidity /\ FollowedQuietly /\ QuietWhileExact
    BY <1>1 DEF BooksOK, NoPhantomLiquidity, FollowedQuietly, QuietWhileExact, Quiet
  <1>4. MirrorsWhileExact
    <2>1. BookOf(NoSymbol) = EmptyBook
      BY <1>1 DEF BookOf
    <2>2. Shown(market) = {}
      BY <1>1 DEF Shown
    <2> QED
      BY <2>1, <2>2, EmptyIsBook DEF MirrorsWhileExact
  <1> QED
    BY <1>2, <1>3, <1>4 DEF ReplayOK

\* Every message keeps the invariant.
LEMMA ReplaySteps == ReplayOK /\ [Next]_vars => ReplayOK'
  <1> SUFFICES ASSUME ReplayOK, [Next]_vars PROVE ReplayOK'
    OBVIOUS
  <1>1. ASSUME NEW stock \in Stocks, NEW id \in OrderIDs, CsvCancel(stock, id) PROVE ReplayOK'
    BY <1>1, CsvCancelKeeps
  <1>2. ASSUME NEW stock \in Stocks, NEW id \in OrderIDs, NEW s \in Side,
               NEW p \in Prices, NEW q \in Quantities,
               \/ CsvNew(stock, id, s, p, q) \/ CsvAmend(stock, id, s, p, q)
               \/ NasdaqAdd(stock, id, s, p, q) \/ MboAdd(stock, id, s, p, q)
        PROVE  ReplayOK'
    BY <1>2, CsvNewKeeps, CsvAmendKeeps, NasdaqAddKeeps, MboAddKeeps
  <1>3. ASSUME NEW o \in DOMAIN market, NasdaqDelete(o) \/ MboCancel(o) PROVE ReplayOK'
    BY <1>3, NasdaqDeleteKeeps, MboCancelKeeps
  <1>4. ASSUME NEW o \in DOMAIN market, NEW p \in Prices, NEW q \in Quantities,
               MboModify(o, p, q)
        PROVE  ReplayOK'
    BY <1>4, MboModifyKeeps
  <1>5. ASSUME NEW o \in DOMAIN market, NEW q \in Quantities,
               NasdaqReduce(o, q) \/ MboCancelPart(o, q)
        PROVE  ReplayOK'
    BY <1>5, NasdaqReduceKeeps, MboCancelPartKeeps
  <1>6. ASSUME NEW o \in DOMAIN market, NEW id \in OrderIDs, NEW p \in Prices,
               NEW q \in Quantities, NasdaqReplace(o, id, p, q)
        PROVE  ReplayOK'
    BY <1>6, NasdaqReplaceKeeps
  <1>7. ASSUME NEW stock \in Stocks, NasdaqOther(stock) PROVE ReplayOK'
    <2>1. source = "NASDAQ" /\ UNCHANGED <<source, market, used, stale, exact>>
      BY <1>7 DEF NasdaqOther
    <2>2. PICK key \in {stock, NoSymbol} : Update(key, Ignored(BookOf(key)))
      BY <1>7 DEF NasdaqOther
    <2> QED
      BY <2>1, <2>2, OtherKeeps
  <1>8. ASSUME NEW stock \in Stocks, MboReset(stock) PROVE ReplayOK'
    BY <1>8, MboResetKeeps
  <1>9. ASSUME NEW stock \in Stocks, MboOther(stock) PROVE ReplayOK'
    <2>1. source = "Databento" /\ UNCHANGED <<source, market, used, stale, exact>>
      BY <1>9 DEF MboOther
    <2> DEFINE msg(action) == [action |-> action]
    <2>2. PICK action \in {"T", "F", "N"} : Replay(stock, msg(action))
      BY <1>9 DEF MboOther
    <2>3. UpdateOrderBook(TheBook, msg(action)) = Ignored(TheBook)
      <3>1. msg(action).action = action
        OBVIOUS
      <3> HIDE DEF msg
      <3> QED
        BY <3>1 DEF UpdateOrderBook
    <2> HIDE DEF msg
    <2>4. Update(NoSymbol, Ignored(BookOf(NoSymbol)))
      BY <2>1, <2>2, <2>3, DatabentoDispatch DEF TheBook
    <2> QED
      BY <2>1, <2>4, OtherKeeps
  <1>10. CASE UNCHANGED vars
    BY <1>10 DEF vars, ReplayOK, WriterOK, BooksOK, NoPhantomLiquidity, FollowedQuietly,
                 MirrorsWhileExact, QuietWhileExact, IdsGivenOnce, Records, BookOf, Backs,
                 Key, Quiet, Shown, OrdersIn
  <1> QED
    BY <1>1, <1>2, <1>3, <1>4, <1>5, <1>6, <1>7, <1>8, <1>9, <1>10 DEF Next

\* The invariant holds throughout the replay of a file.
THEOREM ReplayStaysOK == Spec => []ReplayOK
  BY ReplayStarts, ReplaySteps, PTL DEF Spec

\* NoPhantomLiquidity holds throughout the replay of every file, from each of
\* the three sources, however many instruments and orders it has.
THEOREM LiquidityIsBacked == Spec => []NoPhantomLiquidity
  <1>1. ReplayOK => NoPhantomLiquidity
    BY DEF ReplayOK
  <1> QED
    BY <1>1, ReplayStaysOK, PTL

\* Until a file does what the replay cannot follow, the book has exactly the
\* orders of the exchange.
THEOREM ExactReplayMirrors == Spec => []MirrorsWhileExact
  <1>1. ReplayOK => MirrorsWhileExact
    BY DEF ReplayOK
  <1> QED
    BY <1>1, ReplayStaysOK, PTL

\* Until then no message makes the replay trade or report an error.
THEOREM ExactReplayIsQuiet == Spec => []QuietWhileExact
  <1>1. ReplayOK => QuietWhileExact
    BY DEF ReplayOK
  <1> QED
    BY <1>1, ReplayStaysOK, PTL

=============================================================================
