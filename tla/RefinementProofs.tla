------------------------- MODULE RefinementProofs -------------------------
(***************************************************************************)
(* Proofs that the order book implements the matching engine, for every    *)
(* set of ids, price range, quantity bound and width of the totals.        *)
(*                                                                         *)
(* The engine's list of a side is the queues of its levels, joined.  While *)
(* a call matches, the other side's list is what is left of the list it    *)
(* began with after some orders of it were filled and perhaps one traded   *)
(* in part, and when the match ends these are the orders the rules of      *)
(* MatchingRules fill.  The lemmas go from one list of orders, over lists  *)
(* joined from levels, to the steps of the order book.                     *)
(***************************************************************************)
EXTENDS OrderBookRefinement, OrderBookProofs

-----------------------------------------------------------------------------
(* The rules on one list of orders.                                        *)

\* An order as a caller sees it.
Entry == [id : OrderIDs, price : Prices, quantity : Quantities]

\* The quantity of the first orders of a list, one more order at a time.
LEMMA QuantityIsSum ==
    ASSUME NEW list \in Seq(Entry), NEW n \in 0 .. Len(list)
    PROVE  Engine!QuantityOf(list, n) = LevelSum([e \in Entry |-> e], SubSeq(list, 1, n))
  <1> DEFINE S == 1 .. n
             o == [e \in Entry |-> e]
             q == SubSeq(list, 1, n)
             First(g) == g = [t \in SUBSET S |->
                               IF t = {} THEN 0
                               ELSE list[CHOOSE x \in t : TRUE].quantity
                                    + g[t \ {CHOOSE x \in t : TRUE}]]
             Second(g) == g = [t \in SUBSET S |->
                                IF t = {} THEN 0
                                ELSE o[q[CHOOSE x \in t : TRUE]].quantity
                                     + g[t \ {CHOOSE x \in t : TRUE}]]
  <1>1. n \in Nat /\ Len(q) = n /\ \A x \in S : q[x] = list[x] /\ list[x] \in Entry
    OBVIOUS
  <1> HIDE DEF q
  <1>2. \A x \in S : o[q[x]].quantity = list[x].quantity
    BY <1>1
  <1> HIDE DEF o
  <1>3. \A g : First(g) <=> Second(g)
    <2> HIDE DEF S
    <2>1. ASSUME NEW t \in SUBSET S, t # {}
          PROVE  list[CHOOSE x \in t : TRUE].quantity = o[q[CHOOSE x \in t : TRUE]].quantity
      BY <1>2, <2>1
    <2> QED
      BY SMTT(30), <2>1
  <1>4. Engine!QuantityOf(list, n) = (CHOOSE g : First(g))[S]
    BY DEF Engine!QuantityOf, Engine!MapThenSumSet, Engine!MapThenFoldSet
  <1>5. LevelSum(o, q) = (CHOOSE g : Second(g))[S]
    BY <1>1 DEF LevelSum, MapThenSumSet, MapThenFoldSet
  <1>6. (CHOOSE g : First(g)) = (CHOOSE g : Second(g))
    <2> HIDE DEF First, Second
    <2> QED
      BY <1>3
  <1> QED
    BY <1>4, <1>5, <1>6 DEF o, q

\* The quantity of the first orders, order by order.
LEMMA QuantityOfMore ==
    ASSUME NEW list \in Seq(Entry), NEW n \in 0 .. Len(list)
    PROVE  /\ Engine!QuantityOf(list, n) \in Nat
           /\ n = 0 => Engine!QuantityOf(list, n) = 0
           /\ n < Len(list) => Engine!QuantityOf(list, n + 1)
                                 = Engine!QuantityOf(list, n) + list[n + 1].quantity
  <1> DEFINE o == [e \in Entry |-> e]
             q == SubSeq(list, 1, n)
  <1>1. q \in Seq(Entry) /\ Counted(o, q) /\ Engine!QuantityOf(list, n) = LevelSum(o, q)
    <2>1. q \in Seq(Entry) /\ Engine!QuantityOf(list, n) = LevelSum(o, q)
      BY QuantityIsSum
    <2>2. \A i \in 1 .. Len(q) : q[i] \in Entry
      BY <2>1
    <2>3. \A e \in Entry : o[e].quantity \in Nat
      BY DEF Entry, Quantities
    <2> HIDE DEF o, q
    <2> QED
      BY <2>1, <2>2, <2>3 DEF Counted
  <1>2. Engine!QuantityOf(list, n) \in Nat
    <2> HIDE DEF o, q
    <2> QED BY <1>1, LevelSumSame
  <1>3. ASSUME n = 0 PROVE Engine!QuantityOf(list, n) = 0
    <2>1. SubSeq(list, 1, 0) = <<>>
      OBVIOUS
    <2>2. LevelSum(o, <<>>) = 0
      BY LevelSumEmpty
    <2> HIDE DEF o
    <2> QED
      BY <1>1, <1>3, <2>1, <2>2
  <1>4. ASSUME n < Len(list)
        PROVE  Engine!QuantityOf(list, n + 1) = Engine!QuantityOf(list, n) + list[n + 1].quantity
    <2>1. n + 1 \in 0 .. Len(list) /\ list[n + 1] \in Entry
      BY <1>4
    <2>2. SubSeq(list, 1, n + 1) = Append(q, list[n + 1])
      BY <1>4
    <2>3. Engine!QuantityOf(list, n + 1) = LevelSum(o, SubSeq(list, 1, n + 1))
      BY <2>1, QuantityIsSum
    <2>4. o[list[n + 1]].quantity = list[n + 1].quantity /\ list[n + 1].quantity \in Nat
      BY <2>1 DEF Entry, Quantities
    <2> HIDE DEF o, q
    <2>5. LevelSum(o, Append(q, list[n + 1])) = LevelSum(o, q) + o[list[n + 1]].quantity
      BY <1>1, <2>1, <2>4, LevelSumAppend
    <2> QED
      BY <1>1, <2>2, <2>3, <2>4, <2>5
  <1> QED
    BY <1>2, <1>3, <1>4

\* More orders have no less quantity.
LEMMA QuantityGrows ==
    ASSUME NEW list \in Seq(Entry), NEW n \in 0 .. Len(list), NEW m \in n .. Len(list)
    PROVE  Engine!QuantityOf(list, n) <= Engine!QuantityOf(list, m)
  <1> DEFINE N == {k \in Nat : n + k <= Len(list) =>
                      Engine!QuantityOf(list, n) <= Engine!QuantityOf(list, n + k)}
  <1>1. 0 \in N
    BY QuantityOfMore
  <1>2. ASSUME NEW k \in N PROVE k + 1 \in N
    <2> SUFFICES ASSUME n + (k + 1) <= Len(list)
                 PROVE  Engine!QuantityOf(list, n) <= Engine!QuantityOf(list, n + (k + 1))
      OBVIOUS
    <2>1. n + k \in 0 .. Len(list) /\ n + k < Len(list) /\ n + (k + 1) = (n + k) + 1
          /\ (n + k) + 1 \in 1 .. Len(list)
      OBVIOUS
    <2>2. Engine!QuantityOf(list, n) <= Engine!QuantityOf(list, n + k)
      BY <2>1
    <2>3. Engine!QuantityOf(list, (n + k) + 1)
            = Engine!QuantityOf(list, n + k) + list[(n + k) + 1].quantity
      BY <2>1, QuantityOfMore
    <2>4. Engine!QuantityOf(list, n) \in Nat /\ Engine!QuantityOf(list, n + k) \in Nat
      BY <2>1, QuantityOfMore
    <2>5. list[(n + k) + 1].quantity \in Nat
      <3>1. list[(n + k) + 1] \in Entry
        BY <2>1
      <3> QED
        BY <3>1 DEF Entry, Quantities
    <2> QED
      BY <2>1, <2>2, <2>3, <2>4, <2>5
  <1>3. N = Nat
    <2>1. N \in SUBSET Nat
      OBVIOUS
    <2> HIDE DEF N
    <2> QED
      BY <1>1, <1>2, <2>1, NaturalsByInduction
  <1>4. m - n \in Nat /\ n + (m - n) = m /\ m <= Len(list)
    OBVIOUS
  <1>5. m - n \in N
    BY <1>3, <1>4
  <1>6. Engine!QuantityOf(list, n) <= Engine!QuantityOf(list, n + (m - n))
    BY <1>4, <1>5
  <1> QED
    BY <1>4, <1>6

\* A list of orders of side s that the rules can work on: best first, none empty.
IsList(s, list) ==
    /\ list \in Seq(Entry)
    /\ \A i \in DOMAIN list : list[i].quantity > 0
    /\ \A i, j \in DOMAIN list : i < j => ~ Ahead(s, list[j].price, list[i].price)

\* The rules and the order book mean the same by a better price.
LEMMA BetterIsAhead == \A s, p, q : Engine!Better(s, p, q) <=> Ahead(s, p, q)
  BY DEF Engine!Better, Ahead

\* The rules reach the orders that are not behind the price, if they are the first ones ...
LEMMA ReachedIs ==
    ASSUME NEW s \in Side, NEW list \in Seq(Entry), NEW price, NEW n \in 0 .. Len(list),
           \A i \in 1 .. Len(list) : i <= n <=> ~ Ahead(s, price, list[i].price)
    PROVE  Engine!Reached(s, list, price) = n
  <1> DEFINE Is(m) == \A i \in DOMAIN list : i <= m <=> ~ Engine!Better(s, price, list[i].price)
  <1>1. DOMAIN list = 1 .. Len(list) /\ Len(list) \in Nat
    OBVIOUS
  <1>2. Is(n)
    BY <1>1, BetterIsAhead
  <1>3. ASSUME NEW m \in 0 .. Len(list), Is(m) PROVE m = n
    <2>1. ~ (m < n)
      <3> SUFFICES ASSUME m < n PROVE FALSE
        OBVIOUS
      <3>1. n \in DOMAIN list
        BY <1>1
      <3> QED
        BY <1>2, <1>3, <3>1
    <2>2. ~ (n < m)
      <3> SUFFICES ASSUME n < m PROVE FALSE
        OBVIOUS
      <3>1. m \in DOMAIN list
        BY <1>1
      <3> QED
        BY <1>2, <1>3, <3>1
    <2> QED
      BY <2>1, <2>2
  <1>4. Engine!Reached(s, list, price) = CHOOSE m \in 0 .. Len(list) : Is(m)
    BY DEF Engine!Reached
  <1> HIDE DEF Is
  <1> QED
    BY <1>2, <1>3, <1>4

\* ... which they are in a list that is sorted.
LEMMA ReachedExists ==
    ASSUME NEW s \in Side, NEW list, IsList(s, list), NEW price \in Prices
    PROVE  \E n \in 0 .. Len(list) :
              \A i \in 1 .. Len(list) : i <= n <=> ~ Ahead(s, price, list[i].price)
  <1> DEFINE Worse == {i \in 1 .. Len(list) : Ahead(s, price, list[i].price)}
  <1>1. /\ list \in Seq(Entry) /\ Len(list) \in Nat /\ DOMAIN list = 1 .. Len(list)
        /\ \A i \in 1 .. Len(list) : list[i] \in Entry
    BY DEF IsList
  <1>2. CASE Worse = {}
    <2>1. Len(list) \in 0 .. Len(list)
      BY <1>1
    <2>2. \A i \in 1 .. Len(list) : i <= Len(list) /\ ~ Ahead(s, price, list[i].price)
      BY <1>1, <1>2
    <2> QED
      BY <2>1, <2>2
  <1>3. CASE Worse # {}
    <2>1. Worse \in SUBSET Nat
      BY <1>1
    <2>2. PICK w \in Worse : \A y \in Worse : w <= y
      <3> HIDE DEF Worse
      <3> QED
        BY <1>3, <2>1, LeastNatural
    <2>3. w - 1 \in 0 .. Len(list) /\ w \in 1 .. Len(list)
      BY <1>1
    <2>4. ASSUME NEW i \in 1 .. Len(list)
          PROVE  i <= w - 1 <=> ~ Ahead(s, price, list[i].price)
      <3>1. i <= w - 1 => ~ Ahead(s, price, list[i].price)
        BY <2>2, <2>3
      <3>2. ASSUME w < i PROVE Ahead(s, price, list[i].price)
        <4>1. ~ Ahead(s, list[i].price, list[w].price)
          BY <1>1, <2>3, <3>2 DEF IsList
        <4>2. Ahead(s, price, list[w].price)
          BY <2>2
        <4>3. list[i].price \in Int /\ list[w].price \in Int /\ price \in Int
          BY <1>1, <2>3 DEF Entry, Prices
        <4> QED
          BY <4>1, <4>2, <4>3 DEF Ahead
      <3>3. Ahead(s, price, list[w].price)
        BY <2>2
      <3> QED
        BY <2>3, <3>1, <3>2, <3>3
    <2> QED
      BY <2>3, <2>4
  <1> QED
    BY <1>2, <1>3

\* There is one way to fill as many orders as the quantity lasts for.
LEMMA FilledIs ==
    ASSUME NEW s \in Side, NEW list, IsList(s, list), NEW price, NEW q \in Nat,
           NEW r \in 0 .. Len(list), Engine!Reached(s, list, price) = r,
           NEW n \in 0 .. r, Engine!QuantityOf(list, n) <= q,
           n < r => Engine!QuantityOf(list, n + 1) > q
    PROVE  Engine!Filled(s, list, price, q) = n
  <1> DEFINE Sum(m) == Engine!QuantityOf(list, m)
             Is(m) == Sum(m) <= q /\ (m < r => Sum(m + 1) > q)
  <1>1. list \in Seq(Entry) /\ Len(list) \in Nat
    BY DEF IsList
  <1>2. \A m \in 0 .. r : Sum(m) \in Nat
    BY <1>1, QuantityOfMore
  <1>3. \A k, m \in 0 .. r : k < m => Sum(k + 1) <= Sum(m) /\ k + 1 \in 0 .. r
    <2> SUFFICES ASSUME NEW k \in 0 .. r, NEW m \in 0 .. r, k < m
                 PROVE  Sum(k + 1) <= Sum(m) /\ k + 1 \in 0 .. r
      OBVIOUS
    <2>1. k + 1 \in 0 .. Len(list) /\ m \in (k + 1) .. Len(list)
      BY <1>1
    <2> QED
      BY <1>1, <2>1, QuantityGrows
  <1>4. Is(n)
    OBVIOUS
  <1>5. Engine!Filled(s, list, price, q) = CHOOSE m \in 0 .. r : Is(m)
    BY DEF Engine!Filled
  <1>6. ASSUME NEW m \in 0 .. r, Is(m) PROVE m = n
    <2> HIDE DEF Sum
    <2>1. ~ (m < n)
      BY <1>2, <1>3, <1>4, <1>6
    <2>2. ~ (n < m)
      BY <1>2, <1>3, <1>4, <1>6
    <2> QED
      BY <2>1, <2>2
  <1> HIDE DEF Is
  <1> QED
    BY <1>4, <1>5, <1>6

-----------------------------------------------------------------------------
(* A match in progress on one list.                                        *)

\* What is left of list c when its first n orders are filled and the next one
\* has traded "part", and the trades that this took.
Eaten(c, n, part) ==
    [i \in 1 .. Len(c) - n |->
        IF i = 1 THEN [c[n + 1] EXCEPT !.quantity = @ - part] ELSE c[n + i]]

FullTrades(c, n) == [i \in 1 .. n |-> Engine!TradeWith(c[i], c[i].quantity)]

Eating(c, n, part) ==
    IF part > 0 THEN Append(FullTrades(c, n), Engine!TradeWith(c[n + 1], part))
    ELSE FullTrades(c, n)

\* So far a quantity q with a limit has traded with list c of side s like
\* that, and "left" of it is left.
Progress(s, c, limit, q, n, part, left) ==
    /\ n \in 0 .. Len(c) /\ part \in Nat /\ left \in Nat
    /\ q = Engine!QuantityOf(c, n) + part + left
    /\ part > 0 => /\ n < Len(c) /\ part < c[n + 1].quantity /\ left = 0
                   /\ ~ Ahead(s, limit, c[n + 1].price)
    /\ \A i \in 1 .. n : ~ Ahead(s, limit, c[i].price)

\* What the orders of such a list are.
LEMMA ListOrders ==
    ASSUME NEW s, NEW c, IsList(s, c)
    PROVE  /\ c \in Seq(Entry) /\ Len(c) \in Nat /\ DOMAIN c = 1 .. Len(c)
           /\ \A i \in 1 .. Len(c) : /\ c[i] \in Entry /\ c[i].quantity \in Nat
                                     /\ c[i].quantity > 0 /\ c[i].price \in Prices
  <1>1. c \in Seq(Entry) /\ Len(c) \in Nat /\ DOMAIN c = 1 .. Len(c)
    BY DEF IsList
  <1>2. \A i \in 1 .. Len(c) : c[i] \in Entry /\ c[i].quantity > 0
    BY <1>1 DEF IsList
  <1> QED
    BY <1>1, <1>2 DEF Entry, Quantities

\* A list of which nothing has traded.
LEMMA NothingEaten ==
    ASSUME NEW c \in Seq(Entry)
    PROVE  Eaten(c, 0, 0) = c
  <1>1. Len(c) \in Nat /\ Len(c) - 0 = Len(c) /\ c = [i \in 1 .. Len(c) |-> c[i]]
    OBVIOUS
  <1>2. ASSUME NEW i \in 1 .. Len(c)
        PROVE  (IF i = 1 THEN [c[0 + 1] EXCEPT !.quantity = @ - 0] ELSE c[0 + i]) = c[i]
    <2>1. CASE i = 1
      <3>1. c[1] \in Entry
        BY <2>1
      <3>2. [c[1] EXCEPT !.quantity = @ - 0] = c[1]
        BY <3>1 DEF Entry, Quantities
      <3> QED
        BY <2>1, <3>2
    <2>2. CASE i # 1
      BY <2>2
    <2> QED
      BY <2>1, <2>2
  <1> QED
    BY <1>1, <1>2 DEF Eaten

\* No trades.
LEMMA NothingTraded == ASSUME NEW c PROVE Eating(c, 0, 0) = <<>>
  <1>1. FullTrades(c, 0) = <<>>
    BY DEF FullTrades
  <1> QED
    BY <1>1 DEF Eating

\* The match starts with nothing traded.
LEMMA ProgressStarts ==
    ASSUME NEW s, NEW c, IsList(s, c), NEW limit, NEW q \in Nat
    PROVE  Progress(s, c, limit, q, 0, 0, q)
  <1>1. c \in Seq(Entry) /\ Len(c) \in Nat
    BY ListOrders
  <1>2. 0 \in 0 .. Len(c) /\ Engine!QuantityOf(c, 0) = 0
    BY <1>1, QuantityOfMore
  <1> QED
    BY <1>2 DEF Progress

\* An order is filled.
LEMMA ProgressFills ==
    ASSUME NEW s, NEW c, IsList(s, c), NEW limit, NEW q, NEW n, NEW left,
           Progress(s, c, limit, q, n, 0, left),
           n < Len(c), ~ Ahead(s, limit, c[n + 1].price), c[n + 1].quantity <= left
    PROVE  /\ Progress(s, c, limit, q, n + 1, 0, left - c[n + 1].quantity)
           /\ Eating(c, n + 1, 0)
                = Append(Eating(c, n, 0), Engine!TradeWith(c[n + 1], c[n + 1].quantity))
           /\ Eaten(c, n + 1, 0) = Tail(Eaten(c, n, 0))
  <1>1. /\ n \in 0 .. Len(c) /\ Len(c) \in Nat /\ n + 1 \in 1 .. Len(c) /\ left \in Nat
        /\ c[n + 1].quantity \in Nat /\ c \in Seq(Entry)
        /\ q = Engine!QuantityOf(c, n) + left
    <2>1. n \in 0 .. Len(c) /\ Len(c) \in Nat /\ left \in Nat
      BY ListOrders DEF Progress
    <2>2. n + 1 \in 1 .. Len(c)
      BY <2>1
    <2>3. Engine!QuantityOf(c, n) \in Nat
      BY <2>1, ListOrders, QuantityOfMore
    <2> QED
      BY <2>1, <2>2, <2>3, ListOrders DEF Progress
  <1>2. Progress(s, c, limit, q, n + 1, 0, left - c[n + 1].quantity)
    <2>1. Engine!QuantityOf(c, n + 1) = Engine!QuantityOf(c, n) + c[n + 1].quantity
      BY <1>1, QuantityOfMore
    <2>2. Engine!QuantityOf(c, n) \in Nat
      BY <1>1, QuantityOfMore
    <2>3. \A i \in 1 .. n + 1 : i \in 1 .. n \/ i = n + 1
      BY <1>1
    <2> QED
      BY <1>1, <2>1, <2>2, <2>3 DEF Progress
  <1>3. Eating(c, n + 1, 0)
          = Append(Eating(c, n, 0), Engine!TradeWith(c[n + 1], c[n + 1].quantity))
    <2> DEFINE T == [i \in 1 .. n |-> Engine!TradeWith(c[i], c[i].quantity)]
               x == Engine!TradeWith(c[n + 1], c[n + 1].quantity)
               U == [i \in 1 .. n + 1 |-> Engine!TradeWith(c[i], c[i].quantity)]
    <2>1. n \in Nat /\ T \in Seq({Engine!TradeWith(c[i], c[i].quantity) : i \in 1 .. n})
          /\ Len(T) = n
      BY <1>1
    <2>2. Append(T, x) = [i \in 1 .. n + 1 |-> IF i <= n THEN T[i] ELSE x]
      BY <2>1
    <2>3. \A i \in 1 .. n + 1 : (IF i <= n THEN T[i] ELSE x) = U[i]
      BY <2>1
    <2>4. Append(T, x) = U
      BY <2>2, <2>3
    <2>5. Eating(c, n + 1, 0) = FullTrades(c, n + 1) /\ Eating(c, n, 0) = FullTrades(c, n)
      BY DEF Eating
    <2>6. FullTrades(c, n + 1) = U /\ FullTrades(c, n) = T
      BY DEF FullTrades
    <2> HIDE DEF T, U, x
    <2>7. Eating(c, n + 1, 0) = Append(Eating(c, n, 0), x)
      BY <2>4, <2>5, <2>6
    <2> QED
      BY <2>7 DEF x
  <1>4. Eaten(c, n + 1, 0) = Tail(Eaten(c, n, 0))
    <2> DEFINE a == Eaten(c, n, 0)
               b == Eaten(c, n + 1, 0)
               m == Len(c) - n
    <2>1. m \in Nat /\ m > 0 /\ Len(c) - (n + 1) = m - 1
      BY <1>1
    <2>2. DOMAIN a = 1 .. m /\ DOMAIN b = 1 .. m - 1
      BY <2>1 DEF Eaten
    <2>3. a \in Seq({a[i] : i \in 1 .. m}) /\ Len(a) = m
      BY <2>1, <2>2 DEF Eaten
    <2>4. Tail(a) = [i \in 1 .. m - 1 |-> a[i + 1]]
      <3> HIDE DEF a, m
      <3>1. a # <<>>
        BY <2>1, <2>3
      <3>2. Tail(a) \in Seq({a[i] : i \in 1 .. m}) /\ Len(Tail(a)) = m - 1
        BY <2>1, <2>3, <3>1
      <3>3. \A i \in 1 .. m - 1 : Tail(a)[i] = a[i + 1]
        BY <2>1, <2>3, <3>1
      <3>4. Tail(a) = [i \in 1 .. m - 1 |-> Tail(a)[i]]
        <4> DEFINE d == Tail(a)
                   X == {a[i] : i \in 1 .. m}
        <4>1. d \in Seq(X) /\ Len(d) = m - 1
          BY <3>2
        <4> HIDE DEF d, X
        <4>2. d = [i \in 1 .. Len(d) |-> d[i]]
          BY <4>1
        <4>3. d = [i \in 1 .. m - 1 |-> d[i]]
          BY <4>1, <4>2
        <4> QED
          BY <4>3 DEF d
      <3> QED
        BY <3>3, <3>4
    <2>5. ASSUME NEW i \in 1 .. m - 1 PROVE b[i] = a[i + 1]
      <3>1. i + 1 \in 1 .. m /\ i + 1 # 1 /\ n + 1 + i = n + (i + 1)
        BY <1>1, <2>1
      <3>2. a[i + 1] = c[n + (i + 1)]
        BY <2>1, <3>1 DEF Eaten
      <3>3. b[i] = IF i = 1 THEN [c[n + 1 + 1] EXCEPT !.quantity = @ - 0] ELSE c[n + 1 + i]
        BY <2>1 DEF Eaten
      <3>4. n + 1 + 1 \in 1 .. Len(c) /\ n + 1 + i \in 1 .. Len(c)
        BY <1>1, <2>1
      <3>5. c[n + 1 + 1] \in Entry
        BY <1>1, <3>4
      <3>6. [c[n + 1 + 1] EXCEPT !.quantity = @ - 0] = c[n + 1 + 1]
        BY <3>5 DEF Entry, Quantities
      <3> QED
        BY <1>1, <3>1, <3>2, <3>3, <3>6
    <2>6. b = [i \in 1 .. m - 1 |-> b[i]]
      BY <2>2 DEF Eaten
    <2> HIDE DEF a, b, m
    <2>7. b = Tail(a)
      BY <2>4, <2>5, <2>6
    <2> QED
      BY <2>7 DEF a, b
  <1> QED
    BY <1>2, <1>3, <1>4

\* An order trades the last of the quantity and stays.
LEMMA ProgressEnds ==
    ASSUME NEW s, NEW c, IsList(s, c), NEW limit, NEW q, NEW n, NEW left,
           Progress(s, c, limit, q, n, 0, left), left > 0,
           n < Len(c), ~ Ahead(s, limit, c[n + 1].price), left < c[n + 1].quantity
    PROVE  /\ Progress(s, c, limit, q, n, left, 0)
           /\ Eating(c, n, left) = Append(Eating(c, n, 0), Engine!TradeWith(c[n + 1], left))
           /\ Eaten(c, n, left) = [Eaten(c, n, 0) EXCEPT ![1].quantity = @ - left]
  <1>1. n \in 0 .. Len(c) /\ Len(c) \in Nat /\ left \in Nat /\ c \in Seq(Entry)
        /\ n + 1 \in 1 .. Len(c)
    <2>1. n \in 0 .. Len(c) /\ Len(c) \in Nat /\ left \in Nat
      BY ListOrders DEF Progress
    <2> QED
      BY <2>1, ListOrders
  <1>2. Engine!QuantityOf(c, n) \in Nat
    BY <1>1, QuantityOfMore
  <1>3. Progress(s, c, limit, q, n, left, 0)
    BY <1>1, <1>2 DEF Progress
  <1>4. Eating(c, n, left) = Append(Eating(c, n, 0), Engine!TradeWith(c[n + 1], left))
    BY <1>1 DEF Eating
  <1>5. Eaten(c, n, left) = [Eaten(c, n, 0) EXCEPT ![1].quantity = @ - left]
    <2>1. c[n + 1] \in Entry
      BY <1>1
    <2>2. [c[n + 1] EXCEPT !.quantity = @ - 0] = c[n + 1]
      BY <2>1 DEF Entry, Quantities
    <2>3. /\ Eaten(c, n, 0) = [i \in 1 .. Len(c) - n |-> IF i = 1 THEN c[n + 1] ELSE c[n + i]]
          /\ Eaten(c, n, left) = [i \in 1 .. Len(c) - n |->
                IF i = 1 THEN [c[n + 1] EXCEPT !.quantity = @ - left] ELSE c[n + i]]
      BY <2>2 DEF Eaten
    <2>4. 1 \in 1 .. Len(c) - n
      BY <1>1
    <2> QED
      BY <2>3, <2>4
  <1> QED
    BY <1>3, <1>4, <1>5

\* When nothing is left, or nothing that is left reaches the next order, this
\* is the outcome of the rules.
LEMMA ProgressIsOutcome ==
    ASSUME NEW s \in Side, NEW c, IsList(s, c), NEW limit \in Prices, NEW q \in Nat,
           NEW n, NEW part, NEW left, Progress(s, c, limit, q, n, part, left),
           left > 0 /\ n < Len(c) => Ahead(s, limit, c[n + 1].price)
    PROVE  /\ Engine!TradesOf(s, c, limit, q) = Eating(c, n, part)
           /\ Engine!StayOf(s, c, limit, q) = Eaten(c, n, part)
           /\ Engine!RestOf(s, c, limit, q) = left
  <1>1. /\ n \in 0 .. Len(c) /\ part \in Nat /\ left \in Nat
        /\ q = Engine!QuantityOf(c, n) + part + left
        /\ part > 0 => /\ n < Len(c) /\ part < c[n + 1].quantity /\ left = 0
                       /\ ~ Ahead(s, limit, c[n + 1].price)
        /\ \A i \in 1 .. n : ~ Ahead(s, limit, c[i].price)
    BY DEF Progress
  <1>2. /\ c \in Seq(Entry) /\ Len(c) \in Nat
        /\ \A i \in 1 .. Len(c) : c[i] \in Entry /\ c[i].quantity \in Nat /\ c[i].quantity > 0
    BY ListOrders
  <1>3. PICK r \in 0 .. Len(c) :
           \A i \in 1 .. Len(c) : i <= r <=> ~ Ahead(s, limit, c[i].price)
    BY ReachedExists
  <1>4. Engine!Reached(s, c, limit) = r
    BY <1>2, <1>3, ReachedIs
  <1>5. n <= r /\ (n < r <=> n < Len(c) /\ ~ Ahead(s, limit, c[n + 1].price))
    <2>1. n <= r
      <3>1. CASE n = 0
        BY <1>3, <3>1
      <3>2. CASE n # 0
        <4>1. n \in 1 .. Len(c) /\ n \in 1 .. n
          BY <1>1, <3>2
        <4> QED
          BY <1>1, <1>3, <4>1
      <3> QED
        BY <3>1, <3>2
    <2>2. CASE n < Len(c)
      <3>1. n + 1 \in 1 .. Len(c)
        BY <1>1, <2>2
      <3> QED
        BY <1>1, <1>3, <2>1, <2>2, <3>1
    <2>3. CASE ~ (n < Len(c))
      BY <1>1, <1>3, <2>1, <2>3
    <2> QED
      BY <2>2, <2>3
  <1>6. Engine!QuantityOf(c, n) \in Nat
    BY <1>1, <1>2, QuantityOfMore
  <1>7. ASSUME n < r PROVE Engine!QuantityOf(c, n + 1) > q
    <2>1. n < Len(c) /\ n + 1 \in 1 .. Len(c) /\ left = 0
      BY <1>1, <1>3, <1>5, <1>7
    <2>2. Engine!QuantityOf(c, n + 1) = Engine!QuantityOf(c, n) + c[n + 1].quantity
      BY <1>1, <1>2, <2>1, QuantityOfMore
    <2> QED
      BY <1>1, <1>2, <1>6, <2>1, <2>2
  <1>8. Engine!Filled(s, c, limit, q) = n
    <2>1. n \in 0 .. r /\ Engine!QuantityOf(c, n) <= q
      BY <1>1, <1>3, <1>5, <1>6
    <2> QED
      BY <1>3, <1>4, <1>7, <2>1, FilledIs
  <1>9. q - Engine!QuantityOf(c, n) = part + left
    BY <1>1, <1>6
  <1>10. (n < r => left = 0) /\ (n = r => part = 0)
    BY <1>1, <1>3, <1>5
  <1>11. Engine!TradesOf(s, c, limit, q) = Eating(c, n, part)
    <2>1. n < r /\ part + left > 0 <=> part > 0
      BY <1>1, <1>3, <1>5, <1>10
    <2>2. n < r => part + left = part
      BY <1>1, <1>10
    <2> QED
      BY <1>4, <1>8, <1>9, <2>1, <2>2 DEF Engine!TradesOf, Eating, FullTrades
  <1>12. Engine!StayOf(s, c, limit, q) = Eaten(c, n, part)
    <2>1. ASSUME NEW i \in 1 .. Len(c) - n
          PROVE  (IF i = 1 /\ n < r THEN [c[n + 1] EXCEPT !.quantity = @ - (part + left)] ELSE c[n + i])
                   = IF i = 1 THEN [c[n + 1] EXCEPT !.quantity = @ - part] ELSE c[n + i]
      <3>1. CASE i = 1 /\ n < r
        BY <1>1, <1>10, <3>1
      <3>2. CASE i = 1 /\ ~ (n < r)
        <4>1. part = 0 /\ n + 1 \in 1 .. Len(c)
          BY <1>1, <1>2, <1>3, <1>5, <1>10, <3>2
        <4>2. c[n + 1] \in Entry
          BY <1>2, <4>1
        <4>3. [c[n + 1] EXCEPT !.quantity = @ - 0] = c[n + 1]
          BY <4>2 DEF Entry, Quantities
        <4> QED
          BY <3>2, <4>1, <4>3
      <3>3. CASE i # 1
        BY <3>3
      <3> QED
        BY <3>1, <3>2, <3>3
    <2> QED
      BY <1>4, <1>8, <1>9, <2>1 DEF Engine!StayOf, Eaten
  <1>13. Engine!RestOf(s, c, limit, q) = left
    BY <1>1, <1>3, <1>4, <1>5, <1>8, <1>9, <1>10 DEF Engine!RestOf
  <1> QED
    BY <1>11, <1>12, <1>13

-----------------------------------------------------------------------------
(* Joining lists.                                                          *)

\* Joining lists is associative.
Associates(S) == \A x, y, z \in S : (x \o y) \o z = x \o (y \o z)

\* Sequences over one set join associatively.
LEMMA Reassociate == ASSUME NEW E PROVE Associates(Seq(E))
  BY ConcatAssociative DEF Associates

\* v has the lists of L joined up to each of them.
Joins(v, L, n) ==
    v[0] = <<>> /\ \A k \in 0 .. n - 1 : v[k + 1] = v[k] \o L[k + 1]

\* FlattenSeq joins one list after the other.
LEMMA FlattenJoins ==
    ASSUME NEW E, NEW L \in Seq(Seq(E)), L # <<>>
    PROVE  \E v : /\ Joins(v, L, Len(L)) /\ FlattenSeq(L) = v[Len(L)]
                  /\ \A k \in 0 .. Len(L) : v[k] \in Seq(E)
  <1> DEFINE n == Len(L)
             Joined(f, m) == f = [i \in 1 .. m |-> IF i = 1 THEN L[i] ELSE f[i - 1] \o L[i]]
             S == {m \in Nat : \E f : Joined(f, m)}
             f == CHOOSE g : Joined(g, n)
             v == [k \in 0 .. n |-> IF k = 0 THEN <<>> ELSE f[k]]
  <1>1. n \in Nat /\ n >= 1 /\ \A k \in 1 .. n : L[k] \in Seq(E)
    OBVIOUS
  <1> HIDE DEF n
  <1>2. 0 \in S
    <2> DEFINE g == [i \in 1 .. 0 |-> <<>>]
    <2>1. Joined(g, 0)
      OBVIOUS
    <2> QED
      BY <2>1
  <1>3. ASSUME NEW m \in S PROVE m + 1 \in S
    <2>1. PICK g : Joined(g, m)
      OBVIOUS
    <2> DEFINE h == [i \in 1 .. m + 1 |->
                       IF i = m + 1 THEN IF i = 1 THEN L[i] ELSE g[m] \o L[i] ELSE g[i]]
    <2>2. m \in Nat
      OBVIOUS
    <2>3. ASSUME NEW i \in 1 .. m + 1
          PROVE  h[i] = IF i = 1 THEN L[i] ELSE h[i - 1] \o L[i]
      <3>1. CASE i = m + 1
        <4>1. i # 1 => i - 1 = m /\ m \in 1 .. m /\ m # m + 1
          BY <2>2, <3>1
        <4> QED
          BY <3>1, <4>1
      <3>2. CASE i # m + 1
        <4>1. i \in 1 .. m
          BY <2>2, <3>2
        <4>2. i # 1 => i - 1 \in 1 .. m /\ i - 1 # m + 1 /\ i - 1 \in 1 .. m + 1
          BY <2>2, <4>1
        <4>3. g[i] = IF i = 1 THEN L[i] ELSE g[i - 1] \o L[i]
          BY <2>1, <4>1
        <4> QED
          BY <3>2, <4>2, <4>3
      <3> QED
        BY <3>1, <3>2
    <2>4. Joined(h, m + 1)
      <3>1. h = [i \in 1 .. m + 1 |-> h[i]]
        OBVIOUS
      <3> HIDE DEF h
      <3> QED
        BY <2>3, <3>1
    <2> HIDE DEF Joined
    <2> QED
      BY <2>2, <2>4
  <1>4. S = Nat
    <2>1. S \in SUBSET Nat
      OBVIOUS
    <2> HIDE DEF S
    <2> QED
      BY <1>2, <1>3, <2>1, NaturalsByInduction
  <1>5. Joined(f, n)
    <2>1. n \in S
      BY <1>1, <1>4
    <2>2. \E g : Joined(g, n)
      BY <2>1
    <2> HIDE DEF Joined
    <2> QED
      BY <2>2
  <1>6. FlattenSeq(L) = f[n]
    BY <1>1 DEF FlattenSeq, n
  <1> HIDE DEF f
  <1>7. Joins(v, L, n)
    <2>1. v[0] = <<>>
      BY <1>1
    <2>2. ASSUME NEW k \in 0 .. n - 1 PROVE v[k + 1] = v[k] \o L[k + 1]
      <3>1. k + 1 \in 1 .. n /\ k \in 0 .. n /\ k + 1 \in 0 .. n
        BY <1>1
      <3>2. f[k + 1] = IF k + 1 = 1 THEN L[k + 1] ELSE f[k + 1 - 1] \o L[k + 1]
        <4>1. \A i \in 1 .. n : f[i] = IF i = 1 THEN L[i] ELSE f[i - 1] \o L[i]
          <5> HIDE DEF v
          <5> QED
            BY <1>5
        <4> HIDE DEF Joined, S, v
        <4> QED
          BY <3>1, <4>1
      <3>3. CASE k = 0
        <4>1. L[1] \in Seq(E)
          BY <1>1
        <4>2. <<>> \o L[1] = L[1]
          BY <4>1, ConcatEmptySeq
        <4> QED
          BY <1>1, <3>1, <3>2, <3>3, <4>2
      <3>4. CASE k # 0
        <4>1. k + 1 - 1 = k /\ k + 1 # 1 /\ k + 1 # 0
          BY <1>1, <3>4
        <4> QED
          BY <3>1, <3>2, <3>4, <4>1
      <3> QED
        BY <3>3, <3>4
    <2> QED
      BY <2>1, <2>2 DEF Joins
  <1>8. v[n] = f[n]
    BY <1>1
  <1> HIDE DEF v
  <1> DEFINE T == {k \in Nat : k <= n => v[k] \in Seq(E)}
  <1>9. T = Nat
    <2>1. 0 \in T
      <3>1. v[0] = <<>> /\ <<>> \in Seq(E)
        BY <1>7 DEF Joins
      <3> QED
        BY <3>1
    <2>2. ASSUME NEW k \in T PROVE k + 1 \in T
      <3> SUFFICES ASSUME k + 1 <= n PROVE v[k + 1] \in Seq(E)
        OBVIOUS
      <3>1. k \in 0 .. n - 1 /\ k + 1 \in 1 .. n /\ v[k] \in Seq(E)
        BY <1>1
      <3>2. v[k] \o L[k + 1] \in Seq(E)
        BY <1>1, <3>1
      <3> QED
        BY <1>7, <3>1, <3>2 DEF Joins
    <2>3. T \in SUBSET Nat
      OBVIOUS
    <2> HIDE DEF T
    <2> QED
      BY <2>1, <2>2, <2>3, NaturalsByInduction
  <1>10. \A k \in 0 .. n : v[k] \in Seq(E)
    BY <1>1, <1>9
  <1> QED
    BY <1>6, <1>7, <1>8, <1>10 DEF n

\* x is an element of one of the lists a .. b of L.
From(x, L, a, b) == \E k \in a .. b : \E j \in DOMAIN L[k] : x = L[k][j]

\* Two families of lists that differ in one of them ...
Alike(L, M, m) ==
    Len(M) = Len(L) /\ \A k \in 1 .. Len(L) : k # m => L[k] = M[k]

\* ... are the same before it and behind it when they are joined.
SplitAt(E, L, M, m) ==
    \E pre, post \in Seq(E) :
        /\ FlattenSeq(L) = pre \o L[m] \o post
        /\ FlattenSeq(M) = pre \o M[m] \o post
        /\ \A i \in 1 .. Len(pre) : From(pre[i], L, 1, m - 1)
        /\ \A i \in 1 .. Len(post) : From(post[i], L, m + 1, Len(L))

\* Two families of lists that differ in one place give two lists that differ in one part.
LEMMA FlattenSplit ==
    ASSUME NEW E, NEW L \in Seq(Seq(E)), NEW M \in Seq(Seq(E)),
           NEW m \in 1 .. Len(L), Alike(L, M, m)
    PROVE  SplitAt(E, L, M, m)
  <1> USE DEF Alike
  <1> DEFINE n == Len(L)
  <1>1. /\ n \in Nat /\ m \in Nat /\ m >= 1 /\ m <= n /\ m - 1 \in Nat
        /\ L # <<>> /\ M # <<>>
        /\ \A k \in 1 .. n : L[k] \in Seq(E) /\ M[k] \in Seq(E)
    OBVIOUS
  <1>2. PICK v : /\ Joins(v, L, n) /\ FlattenSeq(L) = v[n]
                 /\ \A k \in 0 .. n : v[k] \in Seq(E)
    BY <1>1, FlattenJoins
  <1>3. PICK w : /\ Joins(w, M, n) /\ FlattenSeq(M) = w[n]
                 /\ \A k \in 0 .. n : w[k] \in Seq(E)
    BY <1>1, FlattenJoins
  <1>4. \A k \in 1 .. n : k # m => L[k] = M[k]
    OBVIOUS
  <1> HIDE DEF n
  <1> DEFINE pre == v[m - 1]
             A == {k \in Nat : k <= m - 1 =>
                      v[k] = w[k] /\ \A i \in 1 .. Len(v[k]) : From(v[k][i], L, 1, k)}
  <1>5. 0 \in A
    BY <1>2, <1>3 DEF Joins
  <1>6. ASSUME NEW k \in A PROVE k + 1 \in A
    <2> SUFFICES ASSUME k + 1 <= m - 1
                 PROVE  /\ v[k + 1] = w[k + 1]
                        /\ \A i \in 1 .. Len(v[k + 1]) : From(v[k + 1][i], L, 1, k + 1)
      OBVIOUS
    <2>1. /\ k \in Nat /\ k \in 0 .. n /\ k \in 0 .. n - 1 /\ k + 1 \in 1 .. n /\ k + 1 # m
          /\ v[k] = w[k] /\ \A i \in 1 .. Len(v[k]) : From(v[k][i], L, 1, k)
      BY <1>1
    <2>2. v[k + 1] = v[k] \o L[k + 1] /\ w[k + 1] = w[k] \o M[k + 1]
      BY <1>2, <1>3, <2>1 DEF Joins
    <2>3. v[k + 1] = w[k + 1]
      BY <1>4, <2>1, <2>2
    <2>4. v[k] \in Seq(E) /\ L[k + 1] \in Seq(E)
      BY <1>1, <1>2, <2>1
    <2>5. ASSUME NEW i \in 1 .. Len(v[k + 1]) PROVE From(v[k + 1][i], L, 1, k + 1)
      <3> DEFINE a == v[k]
                 b == L[k + 1]
      <3>4. /\ Len(a) \in Nat /\ DOMAIN b = 1 .. Len(b) /\ Len(b) \in Nat
            /\ i \in 1 .. Len(a) + Len(b)
            /\ (a \o b)[i] = IF i <= Len(a) THEN a[i] ELSE b[i - Len(a)]
        <4>1. a \in Seq(E) /\ b \in Seq(E) /\ v[k + 1] = a \o b
          BY <2>2, <2>4
        <4>2. i \in 1 .. Len(v[k + 1])
          OBVIOUS
        <4> HIDE DEF a, b
        <4> QED
          BY <4>1, <4>2, ConcatProperties
      <3>1. CASE i <= Len(a)
        <4>1. (a \o b)[i] = a[i] /\ i \in 1 .. Len(a)
          BY <3>1, <3>4
        <4>2. From(a[i], L, 1, k)
          BY <2>1, <4>1
        <4>3. From(a[i], L, 1, k + 1)
          BY <2>1, <4>2 DEF From
        <4> QED
          BY <2>2, <4>1, <4>3
      <3>2. CASE i > Len(a)
        <4>1. (a \o b)[i] = b[i - Len(a)] /\ i - Len(a) \in DOMAIN b
          <5> HIDE DEF a, b
          <5> QED
            BY <3>2, <3>4
        <4>2. k + 1 \in 1 .. k + 1
          BY <2>1
        <4> QED
          BY <2>2, <4>1, <4>2 DEF From
      <3>3. i \in Nat /\ Len(a) \in Nat
        BY <2>2, <2>4
      <3> QED
        BY <3>1, <3>2, <3>3
    <2> QED
      BY <2>3, <2>5
  <1>7. A = Nat
    <2>1. A \in SUBSET Nat
      OBVIOUS
    <2> HIDE DEF A
    <2> QED
      BY <1>5, <1>6, <2>1, NaturalsByInduction
  <1>8. /\ pre = w[m - 1] /\ pre \in Seq(E)
        /\ \A i \in 1 .. Len(pre) : From(pre[i], L, 1, m - 1)
    <2>1. m - 1 \in A /\ m - 1 \in 0 .. n
      <3> HIDE DEF A
      <3> QED
        BY <1>1, <1>7
    <2> QED
      BY <1>2, <2>1
  <1>9. v[m] = pre \o L[m] /\ w[m] = pre \o M[m]
    <2>1. m - 1 \in 0 .. n - 1 /\ (m - 1) + 1 = m
      BY <1>1
    <2> QED
      BY <1>2, <1>3, <1>8, <2>1 DEF Joins
  <1> HIDE DEF pre, A
  <1> DEFINE Tailed(k) == \E post \in Seq(E) :
                 /\ v[k] = (pre \o L[m]) \o post
                 /\ w[k] = (pre \o M[m]) \o post
                 /\ \A i \in 1 .. Len(post) : From(post[i], L, m + 1, k)
             B == {k \in Nat : m + k <= n => Tailed(m + k)}
  <1>10. 0 \in B
    <2>1. pre \o L[m] \in Seq(E) /\ pre \o M[m] \in Seq(E) /\ <<>> \in Seq(E)
      BY <1>1, <1>8
    <2>2. (pre \o L[m]) \o <<>> = pre \o L[m] /\ (pre \o M[m]) \o <<>> = pre \o M[m]
      BY <2>1
    <2>3. \A i \in 1 .. Len(<<>>) : From(<<>>[i], L, m + 1, m)
      OBVIOUS
    <2>4. Tailed(m)
      BY <1>9, <2>1, <2>2, <2>3
    <2>5. m + 0 = m
      BY <1>1
    <2> QED
      BY <2>4, <2>5
  <1>11. ASSUME NEW k \in B PROVE k + 1 \in B
    <2> SUFFICES ASSUME m + (k + 1) <= n PROVE Tailed(m + (k + 1))
      <3> HIDE DEF Tailed
      <3> QED
        OBVIOUS
    <2> DEFINE j == m + k
    <2>a. Tailed(j)
      <3> HIDE DEF Tailed
      <3>1. k \in Nat /\ (m + k <= n => Tailed(m + k))
        OBVIOUS
      <3> QED
        BY <1>1, <3>1
    <2>1. /\ j \in Nat /\ j \in 0 .. n - 1 /\ j + 1 \in 1 .. n /\ j + 1 # m /\ m + (k + 1) = j + 1
          /\ j + 1 \in m + 1 .. j + 1
      <3> HIDE DEF Tailed
      <3> QED
        BY <1>1
    <2> HIDE DEF j
    <2>2. PICK post \in Seq(E) :
                 /\ v[j] = (pre \o L[m]) \o post
                 /\ w[j] = (pre \o M[m]) \o post
                 /\ \A i \in 1 .. Len(post) : From(post[i], L, m + 1, j)
      BY <2>a
    <2>3. L[j + 1] \in Seq(E) /\ M[j + 1] = L[j + 1]
      BY <1>1, <1>4, <2>1
    <2> DEFINE b == L[j + 1]
               more == post \o b
    <2>4. more \in Seq(E) /\ pre \o L[m] \in Seq(E) /\ pre \o M[m] \in Seq(E)
          /\ b \in Seq(E) /\ post \in Seq(E)
      BY <1>1, <1>8, <2>3
    <2>b. \A x \in Seq(E) : (x \o post) \o b = x \o more
      <3> DEFINE d == L[j + 1]
      <3>1. d \in Seq(E) /\ post \in Seq(E)
        BY <2>4
      <3> HIDE DEF d, b, Tailed, B
      <3>2. ASSUME NEW x \in Seq(E) PROVE (x \o post) \o d = x \o (post \o d)
        <4>1. x \in Seq(E) /\ post \in Seq(E) /\ d \in Seq(E)
          BY <3>1
        <4>2. Associates(Seq(E))
          BY Reassociate
        <4> QED
          BY <4>1, <4>2, Zenon DEF Associates
      <3> QED
        BY <3>2 DEF d, b
    <2>5. v[j + 1] = (pre \o L[m]) \o more
      <3>1. v[j + 1] = v[j] \o L[j + 1]
        BY <1>2, <2>1 DEF Joins
      <3>2. ((pre \o L[m]) \o post) \o b = (pre \o L[m]) \o more
        BY <2>4, <2>b
      <3> QED
        BY <2>2, <3>1, <3>2
    <2>6. w[j + 1] = (pre \o M[m]) \o more
      <3>1. w[j + 1] = w[j] \o M[j + 1]
        BY <1>3, <2>1 DEF Joins
      <3>2. ((pre \o M[m]) \o post) \o b = (pre \o M[m]) \o more
        BY <2>4, <2>b
      <3> QED
        BY <2>2, <2>3, <3>1, <3>2
    <2>7. ASSUME NEW i \in 1 .. Len(more) PROVE From(more[i], L, m + 1, j + 1)
      <3>1. i \in Nat /\ Len(post) \in Nat
        BY <2>2, <2>4
      <3>2. CASE i <= Len(post)
        <4>1. more[i] = post[i] /\ i \in 1 .. Len(post)
          BY <2>2, <2>3, <3>2
        <4>2. From(post[i], L, m + 1, j)
          BY <2>2, <4>1
        <4>3. From(post[i], L, m + 1, j + 1)
          BY <1>1, <2>1, <4>2 DEF From
        <4> QED
          BY <4>1, <4>3
      <3>3. CASE i > Len(post)
        <4>1. more[i] = b[i - Len(post)] /\ i - Len(post) \in DOMAIN b
          BY SMTT(30), <2>2, <2>3, <3>3
        <4> QED
          BY <2>1, <4>1 DEF From
      <3> HIDE DEF more, b
      <3> QED
        BY <3>1, <3>2, <3>3
    <2> HIDE DEF more
    <2>8. Tailed(j + 1)
      BY <2>4, <2>5, <2>6, <2>7
    <2> HIDE DEF Tailed
    <2> QED
      BY <2>1, <2>8
  <1>12. B = Nat
    <2>1. B \in SUBSET Nat
      OBVIOUS
    <2> HIDE DEF B
    <2> QED
      BY <1>10, <1>11, <2>1, NaturalsByInduction
  <1>13. Tailed(n)
    <2>1. n - m \in Nat /\ m + (n - m) = n /\ m + (n - m) <= n
      BY <1>1
    <2>2. n - m \in B
      BY <1>12, <2>1
    <2>3. Tailed(m + (n - m))
      BY <2>1, <2>2
    <2> HIDE DEF Tailed
    <2> QED
      BY <2>1, <2>3
  <1> QED
    BY <1>2, <1>3, <1>8, <1>13 DEF n, SplitAt

\* Lists whose elements have the rank of the list, joined, are sorted by rank.
Ranked(L, rank) ==
    \A k \in 1 .. Len(L) : \A j \in 1 .. Len(L[k]) : rank[L[k][j]] = k

\* list joins L and is sorted by the rank of its elements.
SortedFrom(E, list, L, rank) ==
    /\ list \in Seq(E)
    /\ \A i, j \in 1 .. Len(list) : i < j => rank[list[i]] <= rank[list[j]]
    /\ \A i \in 1 .. Len(list) : From(list[i], L, 1, Len(L))

\* Lists of increasing rank give a sorted list.
LEMMA FlattenSorted ==
    ASSUME NEW E, NEW L \in Seq(Seq(E)), L # <<>>, NEW rank \in [E -> Int], Ranked(L, rank)
    PROVE  SortedFrom(E, FlattenSeq(L), L, rank)
  <1> USE DEF Ranked
  <1> DEFINE n == Len(L)
  <1>1. /\ n \in Nat /\ \A k \in 1 .. n : L[k] \in Seq(E)
        /\ \A k \in 1 .. n : \A j \in 1 .. Len(L[k]) : rank[L[k][j]] = k
    OBVIOUS
  <1>2. PICK v : /\ Joins(v, L, n) /\ FlattenSeq(L) = v[n]
                 /\ \A k \in 0 .. n : v[k] \in Seq(E)
    BY FlattenJoins
  <1> HIDE DEF n
  <1> DEFINE Sorted(k) ==
                /\ \A i \in 1 .. Len(v[k]) : rank[v[k][i]] <= k /\ From(v[k][i], L, 1, k)
                /\ \A i, j \in 1 .. Len(v[k]) : i < j => rank[v[k][i]] <= rank[v[k][j]]
             A == {k \in Nat : k <= n => Sorted(k)}
  <1>3. 0 \in A
    BY <1>2 DEF Joins
  <1>4. ASSUME NEW k \in A PROVE k + 1 \in A
    <2> SUFFICES ASSUME k + 1 <= n PROVE Sorted(k + 1)
      OBVIOUS
    <2> DEFINE a == v[k]
               b == L[k + 1]
               c == v[k + 1]
    <2>1. k \in Nat /\ k \in 0 .. n /\ k \in 0 .. n - 1 /\ k + 1 \in 1 .. n /\ Sorted(k)
          /\ k + 1 \in 1 .. k + 1
      BY <1>1
    <2>2. a \in Seq(E) /\ b \in Seq(E) /\ c = a \o b
      BY <1>1, <1>2, <2>1 DEF Joins
    <2>3. /\ \A i \in 1 .. Len(a) : rank[a[i]] <= k /\ From(a[i], L, 1, k)
          /\ \A i, j \in 1 .. Len(a) : i < j => rank[a[i]] <= rank[a[j]]
          /\ \A j \in 1 .. Len(b) : rank[b[j]] = k + 1 /\ From(b[j], L, 1, k + 1)
      <3>1. \A j \in 1 .. Len(b) : rank[b[j]] = k + 1
        BY <1>1, <2>1
      <3>2. \A j \in 1 .. Len(b) : From(b[j], L, 1, k + 1)
        <4>1. DOMAIN L[k + 1] = 1 .. Len(L[k + 1])
          BY <2>2
        <4> QED
          BY <2>1, <4>1 DEF From
      <3> QED
        BY <2>1, <3>1, <3>2
    <2>4. \A i \in 1 .. Len(a) : From(a[i], L, 1, k + 1)
      <3> SUFFICES ASSUME NEW i \in 1 .. Len(a) PROVE From(a[i], L, 1, k + 1)
        OBVIOUS
      <3> HIDE DEF a
      <3>1. From(a[i], L, 1, k)
        BY <2>3
      <3>2. PICK h \in 1 .. k : \E j \in DOMAIN L[h] : a[i] = L[h][j]
        BY <3>1 DEF From
      <3>3. h \in 1 .. k + 1
        BY <2>1
      <3> QED
        BY <3>2, <3>3 DEF From
    <2>5. /\ Len(a) \in Nat /\ Len(b) \in Nat /\ Len(c) = Len(a) + Len(b)
          /\ \A i \in 1 .. Len(c) : IF i <= Len(a) THEN c[i] = a[i] /\ i \in 1 .. Len(a)
                                    ELSE c[i] = b[i - Len(a)] /\ i - Len(a) \in 1 .. Len(b)
      <3> HIDE DEF a, b, c
      <3>1. Len(a) \in Nat /\ Len(b) \in Nat
        BY <2>2
      <3>2. /\ Len(c) = Len(a) + Len(b)
            /\ \A i \in 1 .. Len(a) + Len(b) :
                  c[i] = IF i <= Len(a) THEN a[i] ELSE b[i - Len(a)]
        BY <2>2, ConcatProperties
      <3>3. \A i \in 1 .. Len(a) + Len(b) :
               /\ i <= Len(a) => i \in 1 .. Len(a)
               /\ ~ (i <= Len(a)) => i - Len(a) \in 1 .. Len(b)
        BY <3>1
      <3> QED
        BY <3>1, <3>2, <3>3
    <2>6. \A i \in 1 .. Len(a) : rank[a[i]] \in Int
      BY <2>2
    <2> HIDE DEF a, b, c
    <2>7. \A i \in 1 .. Len(c) : rank[c[i]] <= k + 1 /\ From(c[i], L, 1, k + 1)
      <3> TAKE i \in 1 .. Len(c)
      <3>1. CASE i <= Len(a)
        <4>1. c[i] = a[i] /\ i \in 1 .. Len(a)
          BY <2>5, <3>1
        <4>2. rank[a[i]] <= k /\ rank[a[i]] \in Int /\ From(a[i], L, 1, k + 1)
          BY <2>3, <2>4, <2>6, <4>1
        <4> QED
          BY <2>1, <4>1, <4>2
      <3>2. CASE ~ (i <= Len(a))
        <4>1. c[i] = b[i - Len(a)] /\ i - Len(a) \in 1 .. Len(b)
          BY <2>5, <3>2
        <4> QED
          BY <2>1, <2>3, <4>1
      <3> QED
        BY <3>1, <3>2
    <2>8. \A i, j \in 1 .. Len(c) : i < j => rank[c[i]] <= rank[c[j]]
      <3> SUFFICES ASSUME NEW i \in 1 .. Len(c), NEW j \in 1 .. Len(c), i < j
                   PROVE  rank[c[i]] <= rank[c[j]]
        OBVIOUS
      <3>1. CASE j <= Len(a)
        <4>1. i <= Len(a)
          BY <2>5, <3>1
        <4> QED
          BY <2>3, <2>5, <3>1, <4>1
      <3>2. CASE ~ (j <= Len(a))
        <4>1. rank[c[j]] = k + 1
          BY <2>3, <2>5, <3>2
        <4> QED
          BY <2>7, <4>1
      <3> QED
        BY <3>1, <3>2
    <2> QED
      BY <2>7, <2>8 DEF c
  <1>5. A = Nat
    <2>1. A \in SUBSET Nat
      OBVIOUS
    <2> HIDE DEF A
    <2> QED
      BY <1>3, <1>4, <2>1, NaturalsByInduction
  <1>6. Sorted(n) /\ v[n] \in Seq(E)
    BY <1>1, <1>2, <1>5
  <1> QED
    BY <1>2, <1>6 DEF n, SortedFrom

-----------------------------------------------------------------------------
(* The list of a side, made of its levels.                                 *)

\* The entries of a queue, and of all queues of a side, for orders o.
EntriesOf(o, q) ==
    [i \in DOMAIN q |-> [id |-> q[i], price |-> o[q[i]].price,
                         quantity |-> o[q[i]].quantity]]

\* The list of side s: its levels joined, best first.
Joined(s, o, qs) ==
    FlattenSeq([k \in 1 .. MaxPrice + 1 |-> EntriesOf(o, qs[PriceAt(s, k)])])

\* The queues of side s link live orders of their price, each once.
Sound(s, o, qs) ==
    /\ qs \in [Prices -> Seq(OrderIDs)]
    /\ \A p \in Prices : IsInjective(qs[p])
    /\ \A p \in Prices : \A i \in DOMAIN qs[p] :
          /\ o[qs[p][i]] \in Order
          /\ o[qs[p][i]].price = p
          /\ o[qs[p][i]].side = s
          /\ o[qs[p][i]].quantity > 0

\* Both sides are.
SoundBook == \A s \in Side : Sound(s, orders, queue[s])

\* This is the list the mapping of OrderBookRefinement uses.
LEMMA JoinedIsByPriority ==
    \A s \in Side : /\ ByPriority(s) = Joined(s, orders, queue[s])
                    /\ ByPriority(s)' = Joined(s, orders', queue'[s])
  BY DEF ByPriority, OrdersAt, Joined, EntriesOf, PriceAt

\* The order book's invariant has what the lists need.
LEMMA ConsistentIsSound == Consistent => SoundBook
  <1> SUFFICES ASSUME Consistent, NEW s \in Side PROVE Sound(s, orders, queue[s])
    BY DEF SoundBook
  <1>1. queue[s] \in [Prices -> Seq(OrderIDs)]
    BY DEF Consistent, TypeOK
  <1>2. ASSUME NEW p \in Prices PROVE IsInjective(queue[s][p])
    BY DEF Consistent, RegistryMatchesLevels, LinksAreUnique
  <1>3. ASSUME NEW p \in Prices, NEW i \in DOMAIN queue[s][p]
        PROVE  /\ orders[queue[s][p][i]] \in Order
               /\ orders[queue[s][p][i]].price = p
               /\ orders[queue[s][p][i]].side = s
               /\ orders[queue[s][p][i]].quantity > 0
    <2> DEFINE id == queue[s][p][i]
    <2>1. id \in Range(queue[s][p])
      BY DEF Range
    <2> HIDE DEF id
    <2>2. id \in Live /\ ~ Detached(id) /\ orders[id].side = s /\ orders[id].price = p
      BY <2>1 DEF Consistent, RegistryMatchesLevels, LinksAreLive
    <2>3. orders[id].quantity > 0
      BY <2>2 DEF Consistent, RegistryMatchesLevels, OrdersAreLinked
    <2>4. orders[id] \in Order
      BY <2>2 DEF Consistent, TypeOK
    <2> QED
      BY <2>2, <2>3, <2>4 DEF id
  <1> QED
    BY <1>1, <1>2, <1>3 DEF Sound

\* The entries of a queue are orders with their level's price.
LEMMA EntriesTyped ==
    ASSUME NEW s \in Side, NEW o, NEW qs, Sound(s, o, qs), NEW p \in Prices
    PROVE  /\ EntriesOf(o, qs[p]) \in Seq(Entry)
           /\ Len(EntriesOf(o, qs[p])) = Len(qs[p])
           /\ DOMAIN EntriesOf(o, qs[p]) = 1 .. Len(qs[p])
           /\ \A i \in 1 .. Len(qs[p]) :
                 /\ EntriesOf(o, qs[p])[i].id = qs[p][i]
                 /\ EntriesOf(o, qs[p])[i].price = p
                 /\ EntriesOf(o, qs[p])[i].quantity = o[qs[p][i]].quantity
                 /\ EntriesOf(o, qs[p])[i].quantity > 0
  <1>1. /\ qs[p] \in Seq(OrderIDs) /\ DOMAIN qs[p] = 1 .. Len(qs[p]) /\ Len(qs[p]) \in Nat
        /\ \A i \in 1 .. Len(qs[p]) : qs[p][i] \in OrderIDs
    BY DEF Sound
  <1> DEFINE e == EntriesOf(o, qs[p])
  <1>2. ASSUME NEW i \in 1 .. Len(qs[p])
        PROVE  /\ o[qs[p][i]].price = p /\ o[qs[p][i]].quantity \in Quantities
               /\ o[qs[p][i]].quantity > 0
    BY <1>1 DEF Sound, Order
  <1>3. /\ DOMAIN e = 1 .. Len(qs[p])
        /\ \A i \in 1 .. Len(qs[p]) :
              e[i] = [id |-> qs[p][i], price |-> p, quantity |-> o[qs[p][i]].quantity]
    BY <1>1, <1>2 DEF EntriesOf
  <1>4. \A i \in 1 .. Len(qs[p]) : e[i] \in Entry
    <2> SUFFICES ASSUME NEW i \in 1 .. Len(qs[p]) PROVE e[i] \in Entry
      OBVIOUS
    <2> HIDE DEF e
    <2>1. e[i] = [id |-> qs[p][i], price |-> p, quantity |-> o[qs[p][i]].quantity]
      BY <1>3
    <2>2. qs[p][i] \in OrderIDs /\ o[qs[p][i]].quantity \in Quantities
      BY <1>1, <1>2
    <2> QED
      BY <2>1, <2>2 DEF Entry
  <1>5. e = [i \in 1 .. Len(qs[p]) |-> e[i]]
    BY <1>3 DEF EntriesOf
  <1> HIDE DEF e
  <1>6. e \in Seq(Entry) /\ Len(e) = Len(qs[p])
    BY <1>1, <1>3, <1>4, <1>5
  <1>7. \A i \in 1 .. Len(qs[p]) :
           /\ e[i].id = qs[p][i] /\ e[i].price = p
           /\ e[i].quantity = o[qs[p][i]].quantity /\ e[i].quantity > 0
    <2> SUFFICES ASSUME NEW i \in 1 .. Len(qs[p])
                 PROVE  /\ e[i].id = qs[p][i] /\ e[i].price = p
                        /\ e[i].quantity = o[qs[p][i]].quantity /\ e[i].quantity > 0
      OBVIOUS
    <2> HIDE DEF e
    <2>1. e[i] = [id |-> qs[p][i], price |-> p, quantity |-> o[qs[p][i]].quantity]
      BY <1>3
    <2>2. o[qs[p][i]].quantity > 0
      BY <1>2
    <2> QED
      BY <2>1, <2>2
  <1> QED
    BY <1>3, <1>6, <1>7 DEF e

\* The rank of price p on side s, best first.
RankOf(s, p) == IF s = "BID" THEN MaxPrice + 1 - p ELSE p + 1

\* Ranks and prices are inverse, and a price ahead has the smaller rank.
LEMMA RanksArePrices ==
    ASSUME NEW s \in Side
    PROVE  /\ \A p \in Prices : RankOf(s, p) \in 1 .. MaxPrice + 1 /\ PriceAt(s, RankOf(s, p)) = p
           /\ \A k \in 1 .. MaxPrice + 1 : PriceAt(s, k) \in Prices /\ RankOf(s, PriceAt(s, k)) = k
           /\ \A p, r \in Prices : RankOf(s, p) < RankOf(s, r) <=> Ahead(s, p, r)
           /\ MaxPrice + 1 \in Nat
  BY PriceAssumption DEF RankOf, PriceAt, Prices, Ahead

\* The lists of the levels of side s, best first.
Tiers(s, o, qs) == [k \in 1 .. MaxPrice + 1 |-> EntriesOf(o, qs[PriceAt(s, k)])]

\* They are lists of orders, each of its level's price.
LEMMA TiersTyped ==
    ASSUME NEW s \in Side, NEW o, NEW qs, Sound(s, o, qs)
    PROVE  /\ Tiers(s, o, qs) \in Seq(Seq(Entry)) /\ Len(Tiers(s, o, qs)) = MaxPrice + 1
           /\ Tiers(s, o, qs) # <<>>
           /\ Joined(s, o, qs) = FlattenSeq(Tiers(s, o, qs))
           /\ \A k \in 1 .. MaxPrice + 1 : Tiers(s, o, qs)[k] = EntriesOf(o, qs[PriceAt(s, k)])
           /\ \A p \in Prices : Tiers(s, o, qs)[RankOf(s, p)] = EntriesOf(o, qs[p])
  <1>1. \A k \in 1 .. MaxPrice + 1 : EntriesOf(o, qs[PriceAt(s, k)]) \in Seq(Entry)
    BY EntriesTyped, RanksArePrices
  <1>2. MaxPrice + 1 \in Nat /\ MaxPrice + 1 >= 1
    BY PriceAssumption
  <1>3. Tiers(s, o, qs) \in Seq(Seq(Entry)) /\ Len(Tiers(s, o, qs)) = MaxPrice + 1
    BY <1>1, <1>2 DEF Tiers
  <1>4. Tiers(s, o, qs) # <<>>
    BY <1>2, <1>3
  <1>5. \A k \in 1 .. MaxPrice + 1 : Tiers(s, o, qs)[k] = EntriesOf(o, qs[PriceAt(s, k)])
    BY DEF Tiers
  <1>6. Joined(s, o, qs) = FlattenSeq(Tiers(s, o, qs))
    BY DEF Joined, Tiers
  <1> QED
    BY <1>3, <1>4, <1>5, <1>6, RanksArePrices

\* x is the entry of an order on a level of qs that is ahead of p, or behind.
OnLevel(x, o, qs, r) == \E j \in DOMAIN qs[r] : x = EntriesOf(o, qs[r])[j]
\* x is the entry of an order in front of level p ...
InFront(s, x, o, qs, p) == \E r \in Prices : Ahead(s, r, p) /\ OnLevel(x, o, qs, r)
\* ... or behind it.
Behind(s, x, o, qs, p) == \E r \in Prices : Ahead(s, p, r) /\ OnLevel(x, o, qs, r)

\* pre and post are what is in front of level p of a list, and behind it.
Around(s, o, qs, p, pre, post) ==
    /\ pre \in Seq(Entry) /\ post \in Seq(Entry)
    /\ \A i \in 1 .. Len(pre) : InFront(s, pre[i], o, qs, p)
    /\ \A i \in 1 .. Len(post) : Behind(s, post[i], o, qs, p)

\* Two states of a side's levels that agree but at price p.
AlikeApart(p, o, qs, o2, qs2) ==
    \A r \in Prices \ {p} : EntriesOf(o, qs[r]) = EntriesOf(o2, qs2[r])

\* Such two states have lists that agree but in that level's part.
SplitBoth(s, p, o, qs, o2, qs2) ==
    \E pre, post :
        /\ Around(s, o, qs, p, pre, post)
        /\ Joined(s, o, qs) = pre \o EntriesOf(o, qs[p]) \o post
        /\ Joined(s, o2, qs2) = pre \o EntriesOf(o2, qs2[p]) \o post

\* One level of a side in the side's list.
LEMMA JoinedSplit ==
    ASSUME NEW s \in Side, NEW o, NEW qs, Sound(s, o, qs),
           NEW o2, NEW qs2, Sound(s, o2, qs2), NEW p \in Prices,
           AlikeApart(p, o, qs, o2, qs2)
    PROVE  SplitBoth(s, p, o, qs, o2, qs2)
  <1> DEFINE L == Tiers(s, o, qs)
             M == Tiers(s, o2, qs2)
             m == RankOf(s, p)
             n == MaxPrice + 1
  <1>1. /\ L \in Seq(Seq(Entry)) /\ M \in Seq(Seq(Entry)) /\ Len(L) = n /\ Len(M) = n
        /\ m \in 1 .. n /\ PriceAt(s, m) = p /\ n \in Nat
    BY TiersTyped, RanksArePrices
  <1>2. \A k \in 1 .. n : k # m => L[k] = M[k]
    <2> SUFFICES ASSUME NEW k \in 1 .. n, k # m PROVE L[k] = M[k]
      OBVIOUS
    <2>1. PriceAt(s, k) \in Prices \ {p}
      BY RanksArePrices
    <2>2. L[k] = EntriesOf(o, qs[PriceAt(s, k)]) /\ M[k] = EntriesOf(o2, qs2[PriceAt(s, k)])
      BY TiersTyped
    <2> QED
      BY <2>1, <2>2 DEF AlikeApart
  <1>3. /\ Joined(s, o, qs) = FlattenSeq(L) /\ Joined(s, o2, qs2) = FlattenSeq(M)
        /\ L[m] = EntriesOf(o, qs[p]) /\ M[m] = EntriesOf(o2, qs2[p])
    BY TiersTyped
  <1>4. ASSUME NEW x, NEW k \in 1 .. n, NEW j \in DOMAIN L[k], x = L[k][j]
        PROVE  OnLevel(x, o, qs, PriceAt(s, k))
    <2>1. PriceAt(s, k) \in Prices /\ L[k] = EntriesOf(o, qs[PriceAt(s, k)])
      BY TiersTyped, RanksArePrices
    <2>2. DOMAIN L[k] = DOMAIN qs[PriceAt(s, k)]
      BY <2>1 DEF EntriesOf
    <2> QED
      BY <1>4, <2>1, <2>2 DEF OnLevel
  <1>5. ASSUME NEW x, From(x, L, 1, m - 1) PROVE InFront(s, x, o, qs, p)
    <2>1. PICK k \in 1 .. m - 1 : \E j \in DOMAIN L[k] : x = L[k][j]
      BY <1>5 DEF From
    <2>2. k \in 1 .. n /\ k < m
      BY <1>1
    <2>3. OnLevel(x, o, qs, PriceAt(s, k))
      BY <1>4, <2>1, <2>2
    <2>4. PriceAt(s, k) \in Prices /\ RankOf(s, PriceAt(s, k)) = k
      BY <2>2, RanksArePrices
    <2>5. Ahead(s, PriceAt(s, k), p)
      BY <2>2, <2>4, RanksArePrices
    <2> QED
      BY <2>3, <2>4, <2>5 DEF InFront
  <1>6. ASSUME NEW x, From(x, L, m + 1, n) PROVE Behind(s, x, o, qs, p)
    <2>1. PICK k \in m + 1 .. n : \E j \in DOMAIN L[k] : x = L[k][j]
      BY <1>6 DEF From
    <2>2. k \in 1 .. n /\ m < k
      BY <1>1
    <2>3. OnLevel(x, o, qs, PriceAt(s, k))
      BY <1>4, <2>1, <2>2
    <2>4. PriceAt(s, k) \in Prices /\ RankOf(s, PriceAt(s, k)) = k
      BY <2>2, RanksArePrices
    <2>5. Ahead(s, p, PriceAt(s, k))
      BY <2>2, <2>4, RanksArePrices
    <2> QED
      BY <2>3, <2>4, <2>5 DEF Behind
  <1> HIDE DEF L, M, m, n
  <1>8. m \in 1 .. Len(L) /\ Alike(L, M, m)
    BY <1>1, <1>2 DEF Alike
  <1>9. L \in Seq(Seq(Entry)) /\ M \in Seq(Seq(Entry))
    BY <1>1
  <1>7. PICK pre, post \in Seq(Entry) :
              /\ FlattenSeq(L) = pre \o L[m] \o post
              /\ FlattenSeq(M) = pre \o M[m] \o post
              /\ \A i \in 1 .. Len(pre) : From(pre[i], L, 1, m - 1)
              /\ \A i \in 1 .. Len(post) : From(post[i], L, m + 1, Len(L))
    BY <1>8, <1>9, FlattenSplit DEF SplitAt
  <1>10. Around(s, o, qs, p, pre, post)
    BY <1>1, <1>5, <1>6, <1>7 DEF Around
  <1> QED
    BY <1>3, <1>7, <1>10 DEF SplitBoth

\* A side's list is one that the rules can work on.
LEMMA JoinedIsList ==
    ASSUME NEW s \in Side, NEW o, NEW qs, Sound(s, o, qs)
    PROVE  IsList(s, Joined(s, o, qs))
  <1> DEFINE L == Tiers(s, o, qs)
             n == MaxPrice + 1
             rank == [e \in Entry |-> RankOf(s, e.price)]
             list == FlattenSeq(L)
  <1>1. L \in Seq(Seq(Entry)) /\ Len(L) = n /\ L # <<>> /\ Joined(s, o, qs) = list /\ n \in Nat
    BY TiersTyped, RanksArePrices
  <1>2. rank \in [Entry -> Int] /\ \A e \in Entry : rank[e] = RankOf(s, e.price) /\ e.price \in Prices
    BY RanksArePrices DEF Entry
  <1>3. ASSUME NEW k \in 1 .. n, NEW j \in 1 .. Len(L[k])
        PROVE  L[k][j] \in Entry /\ rank[L[k][j]] = k /\ L[k][j].quantity > 0
    <2> HIDE DEF rank, L
    <2>1. PriceAt(s, k) \in Prices /\ RankOf(s, PriceAt(s, k)) = k
      BY RanksArePrices
    <2>2. L[k] = EntriesOf(o, qs[PriceAt(s, k)])
      BY TiersTyped DEF L
    <2>3. /\ L[k] \in Seq(Entry) /\ Len(L[k]) = Len(qs[PriceAt(s, k)])
          /\ \A i \in 1 .. Len(qs[PriceAt(s, k)]) :
                L[k][i].price = PriceAt(s, k) /\ L[k][i].quantity > 0
      BY <2>1, <2>2, EntriesTyped
    <2>4. L[k][j] \in Entry
      BY <2>3
    <2> QED
      BY <1>2, <2>1, <2>3, <2>4
  <1> HIDE DEF L, rank
  <1>4. Ranked(L, rank)
    BY <1>1, <1>3 DEF Ranked
  <1>5. /\ list \in Seq(Entry)
        /\ \A i, j \in 1 .. Len(list) : i < j => rank[list[i]] <= rank[list[j]]
        /\ \A i \in 1 .. Len(list) : From(list[i], L, 1, Len(L))
    BY <1>1, <1>2, <1>4, FlattenSorted DEF SortedFrom
  <1> HIDE DEF list
  <1>6. \A i \in 1 .. Len(list) : list[i].quantity > 0
    <2> SUFFICES ASSUME NEW i \in 1 .. Len(list) PROVE list[i].quantity > 0
      OBVIOUS
    <2>1. PICK k \in 1 .. n : \E j \in DOMAIN L[k] : list[i] = L[k][j]
      BY <1>1, <1>5 DEF From
    <2>2. L[k] \in Seq(Entry)
      BY <1>1, <2>1
    <2> QED
      BY <1>3, <2>1, <2>2
  <1>7. ASSUME NEW i \in 1 .. Len(list), NEW j \in 1 .. Len(list), i < j
        PROVE  ~ Ahead(s, list[j].price, list[i].price)
    <2>1. list[i] \in Entry /\ list[j] \in Entry
      BY <1>5
    <2>2. rank[list[i]] <= rank[list[j]]
      BY <1>5, <1>7
    <2>3. ~ (RankOf(s, list[j].price) < RankOf(s, list[i].price))
      BY <1>2, <2>1, <2>2, RanksArePrices
    <2> QED
      BY <1>2, <2>1, <2>3, RanksArePrices
  <1>8. DOMAIN list = 1 .. Len(list)
    BY <1>5
  <1>9. IsList(s, list)
    BY <1>5, <1>6, <1>7, <1>8 DEF IsList
  <1> QED
    BY <1>1, <1>9

-----------------------------------------------------------------------------
(* A list of three parts, of which the middle one changes.                 *)

\* Where the elements of the list come from.
LEMMA ThreeParts ==
    ASSUME NEW E, NEW a \in Seq(E), NEW m \in Seq(E), NEW b \in Seq(E)
    PROVE  /\ a \o m \o b \in Seq(E)
           /\ Len(a \o m \o b) = Len(a) + Len(m) + Len(b)
           /\ Len(a) \in Nat /\ Len(m) \in Nat /\ Len(b) \in Nat
           /\ \A i \in 1 .. Len(a) + Len(m) + Len(b) :
                 (a \o m \o b)[i] = IF i <= Len(a) THEN a[i]
                                    ELSE IF i <= Len(a) + Len(m) THEN m[i - Len(a)]
                                    ELSE b[i - (Len(a) + Len(m))]
  <1>1. /\ a \o m \in Seq(E) /\ Len(a \o m) = Len(a) + Len(m)
        /\ \A i \in 1 .. Len(a) + Len(m) :
              (a \o m)[i] = IF i <= Len(a) THEN a[i] ELSE m[i - Len(a)]
    BY ConcatProperties
  <1>2. Len(a) \in Nat /\ Len(m) \in Nat /\ Len(b) \in Nat
    OBVIOUS
  <1> DEFINE c == a \o m
  <1>3. c \in Seq(E) /\ Len(c) = Len(a) + Len(m)
    BY <1>1
  <1>4. \A i \in 1 .. Len(a) + Len(m) : c[i] = IF i <= Len(a) THEN a[i] ELSE m[i - Len(a)]
    BY <1>1
  <1> HIDE DEF c
  <1>5. /\ c \o b \in Seq(E) /\ Len(c \o b) = Len(c) + Len(b)
        /\ \A i \in 1 .. Len(c) + Len(b) :
              (c \o b)[i] = IF i <= Len(c) THEN c[i] ELSE b[i - Len(c)]
    <2>1. c \in Seq(E) /\ b \in Seq(E)
      BY <1>3
    <2> QED
      BY <2>1
  <1>6. \A i \in 1 .. Len(a) + Len(m) + Len(b) :
           (c \o b)[i] = IF i <= Len(a) THEN a[i]
                         ELSE IF i <= Len(a) + Len(m) THEN m[i - Len(a)]
                         ELSE b[i - (Len(a) + Len(m))]
    BY <1>2, <1>3, <1>4, <1>5
  <1> QED
    BY <1>2, <1>3, <1>5, <1>6 DEF c

\* Two sequences of one length with the same elements.
LEMMA SameElements ==
    ASSUME NEW E, NEW x \in Seq(E), NEW y \in Seq(E), Len(x) = Len(y),
           \A i \in 1 .. Len(x) : x[i] = y[i]
    PROVE  x = y
  BY SeqEqual

\* Taking out an element of the middle.
LEMMA RemoveInMiddle ==
    ASSUME NEW E, NEW a \in Seq(E), NEW m \in Seq(E), NEW b \in Seq(E),
           NEW j \in 1 .. Len(m)
    PROVE  RemoveAt(a \o m \o b, Len(a) + j) = a \o RemoveAt(m, j) \o b
  <1> DEFINE c == a \o m \o b
             r == RemoveAt(m, j)
             k == Len(a) + j
             d == RemoveAt(c, k)
             e == a \o r \o b
  <1>1. /\ c \in Seq(E) /\ Len(c) = Len(a) + Len(m) + Len(b)
        /\ Len(a) \in Nat /\ Len(m) \in Nat /\ Len(b) \in Nat
        /\ \A i \in 1 .. Len(a) + Len(m) + Len(b) :
              c[i] = IF i <= Len(a) THEN a[i]
                     ELSE IF i <= Len(a) + Len(m) THEN m[i - Len(a)]
                     ELSE b[i - (Len(a) + Len(m))]
    BY ThreeParts
  <1>2. /\ r \in Seq(E) /\ Len(r) = Len(m) - 1
        /\ \A i \in 1 .. Len(m) - 1 : r[i] = IF i < j THEN m[i] ELSE m[i + 1]
    BY RemoveAtProperties
  <1>3. k \in 1 .. Len(c) /\ j \in Nat /\ j <= Len(m) /\ 1 <= j
    BY <1>1
  <1> HIDE DEF c, r
  <1>4. /\ d \in Seq(E) /\ Len(d) = Len(c) - 1
        /\ \A i \in 1 .. Len(c) - 1 : d[i] = IF i < k THEN c[i] ELSE c[i + 1]
    <2> HIDE DEF k
    <2> QED
      BY <1>1, <1>3, RemoveAtProperties
  <1>5. /\ e \in Seq(E) /\ Len(e) = Len(a) + Len(r) + Len(b)
        /\ \A i \in 1 .. Len(a) + Len(r) + Len(b) :
              e[i] = IF i <= Len(a) THEN a[i]
                     ELSE IF i <= Len(a) + Len(r) THEN r[i - Len(a)]
                     ELSE b[i - (Len(a) + Len(r))]
    BY SMTT(30), <1>2, ThreeParts
  <1> HIDE DEF d, e
  <1>6. ASSUME NEW i \in 1 .. Len(d) PROVE d[i] = e[i]
    <2>1. i \in 1 .. Len(c) - 1 /\ i \in 1 .. Len(a) + Len(r) + Len(b) /\ i \in Nat
      BY <1>1, <1>2, <1>4
    <2>2. CASE i <= Len(a)
      <3>1. i < k /\ i \in 1 .. Len(a) + Len(m) + Len(b)
        BY <1>1, <1>3, <2>1, <2>2
      <3> QED
        BY <1>1, <1>4, <1>5, <2>1, <2>2, <3>1
    <2>3. CASE Len(a) < i /\ i < k
      <3>1. /\ i \in 1 .. Len(a) + Len(m) + Len(b) /\ i <= Len(a) + Len(m)
            /\ i <= Len(a) + Len(r) /\ ~ (i <= Len(a))
            /\ i - Len(a) \in 1 .. Len(m) - 1 /\ i - Len(a) < j
        BY <1>1, <1>2, <1>3, <2>1, <2>3
      <3>2. d[i] = m[i - Len(a)]
        BY <1>1, <1>4, <2>1, <2>3, <3>1
      <3>3. e[i] = r[i - Len(a)]
        BY <1>5, <2>1, <3>1
      <3> QED
        BY <1>2, <3>1, <3>2, <3>3
    <2>4. CASE k <= i /\ i <= Len(a) + Len(r)
      <3>1. /\ i + 1 \in 1 .. Len(a) + Len(m) + Len(b) /\ i + 1 <= Len(a) + Len(m)
            /\ ~ (i <= Len(a)) /\ ~ (i + 1 <= Len(a)) /\ ~ (i < k)
            /\ i - Len(a) \in 1 .. Len(m) - 1 /\ ~ (i - Len(a) < j)
            /\ (i - Len(a)) + 1 = (i + 1) - Len(a)
        BY <1>1, <1>2, <1>3, <2>1, <2>4
      <3>2. d[i] = m[(i + 1) - Len(a)]
        BY <1>1, <1>4, <2>1, <3>1
      <3>3. e[i] = r[i - Len(a)]
        BY <1>5, <2>1, <2>4, <3>1
      <3> QED
        BY <1>2, <3>1, <3>2, <3>3
    <2>5. CASE Len(a) + Len(r) < i
      <3>1. /\ i + 1 \in 1 .. Len(a) + Len(m) + Len(b) /\ ~ (i + 1 <= Len(a) + Len(m))
            /\ ~ (i <= Len(a)) /\ ~ (i + 1 <= Len(a)) /\ ~ (i < k) /\ ~ (i <= Len(a) + Len(r))
            /\ (i + 1) - (Len(a) + Len(m)) = i - (Len(a) + Len(r))
        BY <1>1, <1>2, <1>3, <2>1, <2>5
      <3>2. d[i] = b[(i + 1) - (Len(a) + Len(m))]
        BY <1>1, <1>4, <2>1, <3>1
      <3>3. e[i] = b[i - (Len(a) + Len(r))]
        BY <1>5, <2>1, <3>1
      <3> QED
        BY <3>1, <3>2, <3>3
    <2> QED
      BY <1>1, <1>2, <1>3, <2>1, <2>2, <2>3, <2>4, <2>5
  <1>7. Len(d) = Len(e)
    BY <1>1, <1>2, <1>4, <1>5
  <1>8. d = e
    BY <1>4, <1>5, <1>6, <1>7, SameElements
  <1> QED
    BY <1>8 DEF c, d, e, r

\* An element joins behind the middle.
InsertsBehind(E) ==
    \A a, m, b \in Seq(E) : \A x \in E :
        InsertAt(a \o m \o b, Len(a) + Len(m) + 1, x) = a \o Append(m, x) \o b

\* An element inserted behind the middle is appended to it.
LEMMA InsertBehindMiddle == ASSUME NEW E PROVE InsertsBehind(E)
  <1> SUFFICES ASSUME NEW a \in Seq(E), NEW m \in Seq(E), NEW b \in Seq(E), NEW x \in E
               PROVE  InsertAt(a \o m \o b, Len(a) + Len(m) + 1, x) = a \o Append(m, x) \o b
    BY DEF InsertsBehind
  <1> DEFINE f == a \o m
             c == f \o b
             n == Len(f)
  <1>1. f \in Seq(E) /\ Len(f) = Len(a) + Len(m) /\ n \in Nat
    BY ConcatProperties
  <1>2. InsertAt(c, n + 1, x) = SubSeq(c, 1, n) \o <<x>> \o SubSeq(c, n + 1, Len(c))
    <2>1. n \in Nat
      BY <1>1
    <2> HIDE DEF f, c, n
    <2>2. InsertAt(c, n + 1, x) = SubSeq(c, 1, (n + 1) - 1) \o <<x>> \o SubSeq(c, n + 1, Len(c))
      BY DEF InsertAt
    <2>3. (n + 1) - 1 = n
      BY <2>1
    <2> QED
      BY <2>2, <2>3
  <1>3. SubSeq(c, 1, n) = f
    <2> HIDE DEF f
    <2>1. CASE n = 0
      BY <1>1, <2>1
    <2>2. CASE n > 0
      <3>1. 1 \in 1 .. Len(f) /\ n \in 1 .. Len(f)
        BY <1>1, <2>2
      <3>2. SubSeq(f \o b, 1, n) = SubSeq(f, 1, n)
        BY <1>1, <3>1, SubSeqOfConcat1
      <3>3. SubSeq(f, 1, n) = f
        BY <1>1
      <3> QED
        BY <3>2, <3>3
    <2> QED
      BY <1>1, <2>1, <2>2
  <1>4. SubSeq(c, n + 1, Len(c)) = b
    <2> HIDE DEF f
    <2>1. Len(c) = n + Len(b) /\ Len(b) \in Nat
      <3>1. Len(f \o b) = Len(f) + Len(b) /\ Len(b) \in Nat
        <4>1. f \in Seq(E) /\ b \in Seq(E)
          BY <1>1
        <4> HIDE DEF c, n
        <4> QED
          BY <4>1, ConcatProperties
      <3> QED
        BY <3>1
    <2>2. CASE Len(b) = 0
      BY <1>1, <2>1, <2>2
    <2>3. CASE Len(b) > 0
      <3>1. n + 1 \in Len(f) + 1 .. Len(f) + Len(b) /\ Len(c) \in Len(f) + 1 .. Len(f) + Len(b)
            /\ n + 1 - Len(f) = 1 /\ Len(c) - Len(f) = Len(b)
        BY <1>1, <2>1, <2>3
      <3>2. SubSeq(f \o b, n + 1, Len(c)) = SubSeq(b, n + 1 - Len(f), Len(c) - Len(f))
        <4> DEFINE u == n + 1
                   w == Len(c)
        <4>1. u \in Len(f) + 1 .. Len(f) + Len(b) /\ w \in Len(f) + 1 .. Len(f) + Len(b)
          BY <3>1
        <4> HIDE DEF u, w
        <4>2. SubSeq(f \o b, u, w) = SubSeq(b, u - Len(f), w - Len(f))
          BY <1>1, <4>1, SubSeqOfConcat2
        <4> QED
          BY <4>2 DEF u, w
      <3>3. SubSeq(b, 1, Len(b)) = b
        OBVIOUS
      <3> QED
        BY <3>1, <3>2, <3>3
    <2> QED
      BY <2>1, <2>2, <2>3
  <1>5. f \o <<x>> = a \o Append(m, x)
    <2>1. <<x>> \in Seq(E) /\ Associates(Seq(E))
      BY Reassociate
    <2>2. (a \o m) \o <<x>> = a \o (m \o <<x>>)
      BY <2>1 DEF Associates
    <2>3. Append(m, x) = m \o <<x>>
      BY AppendIsConcat
    <2> QED
      BY <2>2, <2>3
  <1>6. InsertAt(c, n + 1, x) = (f \o <<x>>) \o b
    BY <1>2, <1>3, <1>4
  <1> QED
    BY <1>1, <1>5, <1>6

-----------------------------------------------------------------------------
(* The list of a side and the orders in it.                                *)

\* Every element of a side's list is the entry of an order on some level.
LEMMA JoinedElements ==
    ASSUME NEW s \in Side, NEW o, NEW qs, Sound(s, o, qs)
    PROVE  \A i \in 1 .. Len(Joined(s, o, qs)) :
              \E r \in Prices : OnLevel(Joined(s, o, qs)[i], o, qs, r)
  <1> DEFINE list == Joined(s, o, qs)
             p == 0
  <1>1. p \in Prices
    BY PriceAssumption DEF Prices
  <1> HIDE DEF p
  <1>a. PICK pre, post :
              /\ Around(s, o, qs, p, pre, post)
              /\ list = pre \o EntriesOf(o, qs[p]) \o post
    BY <1>1, JoinedSplit DEF SplitBoth, AlikeApart
  <1>2. /\ list = pre \o EntriesOf(o, qs[p]) \o post
        /\ pre \in Seq(Entry) /\ post \in Seq(Entry)
        /\ \A i \in 1 .. Len(pre) : InFront(s, pre[i], o, qs, p)
        /\ \A i \in 1 .. Len(post) : Behind(s, post[i], o, qs, p)
    BY <1>a DEF Around
  <1> DEFINE e == EntriesOf(o, qs[p])
  <1>3. e \in Seq(Entry) /\ DOMAIN e = DOMAIN qs[p] /\ DOMAIN e = 1 .. Len(e)
    <2>1. DOMAIN qs[p] = 1 .. Len(qs[p])
      BY <1>1 DEF Sound
    <2>2. e \in Seq(Entry) /\ Len(e) = Len(qs[p]) /\ DOMAIN e = 1 .. Len(qs[p])
      BY <1>1, EntriesTyped
    <2> QED
      BY <2>1, <2>2
  <1>4. \A i \in 1 .. Len(e) : OnLevel(e[i], o, qs, p)
    BY <1>3 DEF OnLevel
  <1> HIDE DEF e
  <1>5. /\ Len(pre \o e \o post) = Len(pre) + Len(e) + Len(post)
        /\ Len(pre) \in Nat /\ Len(e) \in Nat /\ Len(post) \in Nat
        /\ \A i \in 1 .. Len(pre) + Len(e) + Len(post) :
              (pre \o e \o post)[i] = IF i <= Len(pre) THEN pre[i]
                                      ELSE IF i <= Len(pre) + Len(e) THEN e[i - Len(pre)]
                                      ELSE post[i - (Len(pre) + Len(e))]
    BY <1>2, <1>3, ThreeParts
  <1>6. list = pre \o e \o post
    BY <1>2 DEF e
  <1> HIDE DEF list
  <1>7. ASSUME NEW i \in 1 .. Len(list) PROVE \E r \in Prices : OnLevel(list[i], o, qs, r)
    <2>1. i \in 1 .. Len(pre) + Len(e) + Len(post) /\ i \in Nat
      BY <1>5, <1>6
    <2>2. CASE i <= Len(pre)
      <3>1. list[i] = pre[i] /\ i \in 1 .. Len(pre)
        BY <1>5, <1>6, <2>1, <2>2
      <3> QED
        BY <1>2, <3>1 DEF InFront
    <2>3. CASE ~ (i <= Len(pre)) /\ i <= Len(pre) + Len(e)
      <3>1. list[i] = e[i - Len(pre)] /\ i - Len(pre) \in 1 .. Len(e)
        BY <1>5, <1>6, <2>1, <2>3
      <3> QED
        BY <1>1, <1>4, <3>1
    <2>4. CASE ~ (i <= Len(pre)) /\ ~ (i <= Len(pre) + Len(e))
      <3>1. list[i] = post[i - (Len(pre) + Len(e))] /\ i - (Len(pre) + Len(e)) \in 1 .. Len(post)
        BY <1>5, <1>6, <2>1, <2>4
      <3> QED
        BY <1>2, <3>1 DEF Behind
    <2> QED
      BY <2>2, <2>3, <2>4
  <1> QED
    BY <1>7 DEF list

\* What an entry on a level is.
LEMMA LevelEntry ==
    ASSUME NEW s \in Side, NEW o, NEW qs, Sound(s, o, qs), NEW r \in Prices,
           NEW x, OnLevel(x, o, qs, r)
    PROVE  \E j \in 1 .. Len(qs[r]) :
              /\ x.id = qs[r][j] /\ x.price = r /\ x.quantity = o[qs[r][j]].quantity
              /\ o[x.id].price = r /\ o[x.id].side = s /\ x.id \in OrderIDs
              /\ x = [id |-> x.id, price |-> r, quantity |-> o[x.id].quantity]
  <1>1. PICK j \in DOMAIN qs[r] : x = EntriesOf(o, qs[r])[j]
    BY DEF OnLevel
  <1>2. /\ DOMAIN qs[r] = 1 .. Len(qs[r]) /\ qs[r][j] \in OrderIDs
        /\ o[qs[r][j]].price = r /\ o[qs[r][j]].side = s
    BY <1>1 DEF Sound
  <1>3. x = [id |-> qs[r][j], price |-> r, quantity |-> o[qs[r][j]].quantity]
    BY <1>1, <1>2 DEF EntriesOf
  <1> QED
    BY <1>1, <1>2, <1>3

\* The orders of a side's list are of this side.
LEMMA JoinedOwn ==
    ASSUME NEW s \in Side, NEW o, NEW qs, Sound(s, o, qs),
           NEW id \in Engine!IDsOf(Joined(s, o, qs))
    PROVE  o[id].side = s /\ \E r \in Prices : id \in Range(qs[r])
  <1> DEFINE list == Joined(s, o, qs)
  <1>1. PICK i \in DOMAIN list : id = list[i].id
    BY DEF Engine!IDsOf
  <1>2. DOMAIN list = 1 .. Len(list)
    BY JoinedIsList DEF IsList
  <1>3. PICK r \in Prices : OnLevel(list[i], o, qs, r)
    BY <1>1, <1>2, JoinedElements
  <1> HIDE DEF list
  <1>4. PICK j \in 1 .. Len(qs[r]) : list[i].id = qs[r][j] /\ o[list[i].id].side = s
    BY <1>3, LevelEntry
  <1>5. DOMAIN qs[r] = 1 .. Len(qs[r])
    BY DEF Sound
  <1> QED
    BY <1>1, <1>4, <1>5 DEF Range

\* The place of an order in its side's list.
LEMMA PlaceInList ==
    ASSUME NEW s \in Side, NEW o, NEW qs, Sound(s, o, qs), NEW p \in Prices,
           NEW pre, NEW post, Around(s, o, qs, p, pre, post),
           NEW list, list = pre \o EntriesOf(o, qs[p]) \o post,
           NEW j \in 1 .. Len(qs[p])
    PROVE  /\ Engine!PlaceOf(list, qs[p][j]) = Len(pre) + j
           /\ qs[p][j] \in Engine!IDsOf(list)
  <1> DEFINE e == EntriesOf(o, qs[p])
             id == qs[p][j]
             k == Len(pre) + j
  <1>1. /\ e \in Seq(Entry) /\ Len(e) = Len(qs[p]) /\ Len(qs[p]) \in Nat
        /\ \A i \in 1 .. Len(qs[p]) : e[i].id = qs[p][i]
    <2>1. qs[p] \in Seq(OrderIDs)
      BY DEF Sound
    <2>2. Len(qs[p]) \in Nat
      BY <2>1
    <2>3. /\ EntriesOf(o, qs[p]) \in Seq(Entry) /\ Len(EntriesOf(o, qs[p])) = Len(qs[p])
          /\ \A i \in 1 .. Len(qs[p]) : EntriesOf(o, qs[p])[i].id = qs[p][i]
      BY EntriesTyped
    <2> QED
      BY <2>2, <2>3
  <1>2. o[id].price = p /\ \A i \in 1 .. Len(qs[p]) : qs[p][i] = id => i = j
    <2>1. IsInjective(qs[p]) /\ DOMAIN qs[p] = 1 .. Len(qs[p])
      BY DEF Sound
    <2> QED
      BY <2>1 DEF Sound, IsInjective
  <1>3. pre \in Seq(Entry) /\ post \in Seq(Entry) /\ list = pre \o e \o post
    BY DEF Around
  <1>4. ASSUME NEW x, NEW r \in Prices, OnLevel(x, o, qs, r), r # p PROVE x.id # id
    BY <1>2, <1>4, LevelEntry
  <1>5. \A r \in Prices : Ahead(s, r, p) \/ Ahead(s, p, r) => r # p
    BY DEF Ahead, Prices
  <1>6. /\ \A i \in 1 .. Len(pre) : pre[i].id # id
        /\ \A i \in 1 .. Len(post) : post[i].id # id
    <2> HIDE DEF id
    <2> QED
      BY <1>4, <1>5 DEF Around, InFront, Behind
  <1> HIDE DEF e
  <1>7. /\ list \in Seq(Entry)
        /\ Len(list) = Len(pre) + Len(e) + Len(post)
        /\ Len(pre) \in Nat /\ Len(e) \in Nat /\ Len(post) \in Nat
        /\ \A i \in 1 .. Len(pre) + Len(e) + Len(post) :
              list[i] = IF i <= Len(pre) THEN pre[i]
                        ELSE IF i <= Len(pre) + Len(e) THEN e[i - Len(pre)]
                        ELSE post[i - (Len(pre) + Len(e))]
    <2>1. e \in Seq(Entry) /\ pre \in Seq(Entry) /\ post \in Seq(Entry)
      BY <1>1, <1>3
    <2> HIDE DEF id, k
    <2> QED
      BY <1>3, <2>1, ThreeParts
  <1>8. DOMAIN list = 1 .. Len(list)
    BY <1>7
  <1>9. k \in 1 .. Len(list) /\ list[k].id = id
    <2>1. /\ k \in 1 .. Len(pre) + Len(e) + Len(post) /\ ~ (k <= Len(pre))
          /\ k <= Len(pre) + Len(e) /\ k - Len(pre) = j
      BY <1>1, <1>7
    <2>2. list[k] = e[j]
      <3> HIDE DEF k
      <3> QED
        BY <1>7, <2>1
    <2> QED
      BY <1>1, <1>7, <2>1, <2>2
  <1>10. ASSUME NEW i \in 1 .. Len(list), list[i].id = id PROVE i = k
    <2>1. i \in 1 .. Len(pre) + Len(e) + Len(post) /\ i \in Nat
      BY <1>7
    <2> HIDE DEF id
    <2>2. ~ (i <= Len(pre))
      <3> SUFFICES ASSUME i <= Len(pre) PROVE FALSE
        OBVIOUS
      <3>1. list[i] = pre[i] /\ i \in 1 .. Len(pre)
        BY <1>7, <2>1
      <3> QED
        BY <1>6, <1>10, <3>1
    <2>3. i <= Len(pre) + Len(e)
      <3> SUFFICES ASSUME ~ (i <= Len(pre) + Len(e)) PROVE FALSE
        OBVIOUS
      <3>1. list[i] = post[i - (Len(pre) + Len(e))] /\ i - (Len(pre) + Len(e)) \in 1 .. Len(post)
        BY <1>7, <2>1
      <3> QED
        BY <1>6, <1>10, <3>1
    <2>4. list[i] = e[i - Len(pre)] /\ i - Len(pre) \in 1 .. Len(qs[p])
      <3>1. list[i] = e[i - Len(pre)]
        BY <1>7, <2>1, <2>2, <2>3
      <3>2. i - Len(pre) \in 1 .. Len(e)
        BY <1>7, <2>1, <2>2, <2>3
      <3> QED
        BY <1>1, <3>1, <3>2
    <2>5. qs[p][i - Len(pre)] = id
      BY <1>1, <1>10, <2>4
    <2> QED
      <3>1. i - Len(pre) = j
        BY <1>2, <2>4, <2>5 DEF id
      <3>2. Len(pre) \in Nat /\ i \in Nat
        BY <1>7, <2>1
      <3> QED
        BY <3>1, <3>2
  <1> HIDE DEF id, k
  <1>11. Engine!PlaceOf(list, id) = k
    BY <1>8, <1>9, <1>10 DEF Engine!PlaceOf
  <1>12. id \in Engine!IDsOf(list)
    BY <1>8, <1>9 DEF Engine!IDsOf
  <1> QED
    BY <1>11, <1>12 DEF id, k

\* Every linked order is in the list of its side.
LEMMA LinkedIsJoined ==
    ASSUME NEW s \in Side, NEW o, NEW qs, Sound(s, o, qs), NEW p \in Prices,
           NEW id \in Range(qs[p])
    PROVE  id \in Engine!IDsOf(Joined(s, o, qs))
  <1>1. PICK pre, post :
              /\ Around(s, o, qs, p, pre, post)
              /\ Joined(s, o, qs) = pre \o EntriesOf(o, qs[p]) \o post
    BY JoinedSplit DEF SplitBoth, AlikeApart
  <1>2. PICK j \in 1 .. Len(qs[p]) : id = qs[p][j]
    BY DEF Range, Sound
  <1> QED
    BY <1>1, <1>2, PlaceInList

\* Nothing of a side's list changes with what it does not link.
LEMMA JoinedUntouched ==
    ASSUME NEW s \in Side, NEW o, NEW o2, NEW qs, Sound(s, o, qs),
           \A r \in Prices : \A i \in DOMAIN qs[r] : o2[qs[r][i]] = o[qs[r][i]]
    PROVE  Joined(s, o2, qs) = Joined(s, o, qs)
  <1>1. \A r \in Prices : EntriesOf(o2, qs[r]) = EntriesOf(o, qs[r])
    BY DEF EntriesOf
  <1>2. \A k \in 1 .. MaxPrice + 1 : EntriesOf(o2, qs[PriceAt(s, k)]) = EntriesOf(o, qs[PriceAt(s, k)])
    BY <1>1, RanksArePrices
  <1> QED
    BY <1>2 DEF Joined

-----------------------------------------------------------------------------
(* What a change of one queue does to the list of its side.                *)

\* The entry of order id.
EntryOf(o, id) == [id |-> id, price |-> o[id].price, quantity |-> o[id].quantity]

\* Each entry of a queue is its order's.
LEMMA EntriesAre ==
    ASSUME NEW o, NEW q, NEW i \in DOMAIN q
    PROVE  EntriesOf(o, q)[i] = EntryOf(o, q[i])
  BY DEF EntriesOf, EntryOf

\* The queues of a side.
LEMMA QueuesTyped ==
    ASSUME NEW s, NEW o, NEW qs, Sound(s, o, qs), NEW p \in Prices
    PROVE  /\ qs[p] \in Seq(OrderIDs) /\ Len(qs[p]) \in Nat
           /\ DOMAIN qs[p] = 1 .. Len(qs[p]) /\ DOMAIN qs = Prices
           /\ qs \in [Prices -> Seq(OrderIDs)]
  BY DEF Sound

\* The order at place j leaves a queue.
LeavesLevel(qs, qs2, p, j) == qs2 = [qs EXCEPT ![p] = RemoveAt(@, j)]

\* Taking out an element of the middle, as one formula.
RemovesMiddle(E) ==
    \A a, m, b \in Seq(E) : \A j \in 1 .. Len(m) :
        RemoveAt(a \o m \o b, Len(a) + j) = a \o RemoveAt(m, j) \o b

\* It holds for every set of elements.
LEMMA MiddleRemoved == ASSUME NEW E PROVE RemovesMiddle(E)
  <1>1. ASSUME NEW a \in Seq(E), NEW m \in Seq(E), NEW b \in Seq(E), NEW j \in 1 .. Len(m)
        PROVE  RemoveAt(a \o m \o b, Len(a) + j) = a \o RemoveAt(m, j) \o b
    BY RemoveInMiddle
  <1> QED
    BY <1>1 DEF RemovesMiddle

\* The entries of a queue from which one order is taken.
LEMMA EntriesRemoved ==
    ASSUME NEW s \in Side, NEW o, NEW qs, Sound(s, o, qs), NEW p \in Prices,
           NEW j \in 1 .. Len(qs[p]), NEW qs2, LeavesLevel(qs, qs2, p, j),
           Sound(s, o, qs2)
    PROVE  /\ EntriesOf(o, qs2[p]) = RemoveAt(EntriesOf(o, qs[p]), j)
           /\ AlikeApart(p, o, qs, o, qs2)
  <1> DEFINE q == qs[p]
             r == qs2[p]
             e == EntriesOf(o, q)
             f == EntriesOf(o, r)
             g == RemoveAt(e, j)
  <1>1. /\ qs \in [Prices -> Seq(OrderIDs)] /\ q \in Seq(OrderIDs) /\ Len(q) \in Nat
        /\ r = RemoveAt(q, j) /\ \A h \in Prices \ {p} : qs2[h] = qs[h]
        /\ r \in Seq(OrderIDs) /\ DOMAIN r = 1 .. Len(r) /\ DOMAIN q = 1 .. Len(q)
    BY QueuesTyped DEF LeavesLevel
  <1>2. AlikeApart(p, o, qs, o, qs2)
    BY <1>1 DEF AlikeApart
  <1>3. e \in Seq(Entry) /\ Len(e) = Len(q) /\ f \in Seq(Entry) /\ Len(f) = Len(r)
    BY EntriesTyped
  <1>4. j \in 1 .. Len(q)
    OBVIOUS
  <1> HIDE DEF q, r
  <1>5. /\ Len(r) = Len(q) - 1
        /\ \A i \in 1 .. Len(q) - 1 : r[i] = IF i < j THEN q[i] ELSE q[i + 1]
    BY <1>1, <1>4, RemoveAtProperties
  <1>6. /\ \A i \in 1 .. Len(q) : e[i] = EntryOf(o, q[i])
        /\ \A i \in 1 .. Len(r) : f[i] = EntryOf(o, r[i])
    BY <1>1, EntriesAre
  <1>7. j \in 1 .. Len(e)
    BY <1>3, <1>4
  <1> HIDE DEF e, f
  <1>8. /\ g \in Seq(Entry) /\ Len(g) = Len(e) - 1
        /\ \A i \in 1 .. Len(e) - 1 : g[i] = IF i < j THEN e[i] ELSE e[i + 1]
    BY <1>3, <1>7, RemoveAtProperties
  <1> HIDE DEF g
  <1>9. ASSUME NEW i \in 1 .. Len(f) PROVE f[i] = g[i]
    <2>1. /\ i \in 1 .. Len(r) /\ i \in 1 .. Len(q) - 1 /\ i \in 1 .. Len(e) - 1
          /\ i \in 1 .. Len(q) /\ i + 1 \in 1 .. Len(q)
      BY <1>1, <1>3, <1>5
    <2> QED
      BY <1>5, <1>6, <1>8, <2>1
  <1>10. Len(f) = Len(g)
    BY <1>3, <1>5, <1>8
  <1>11. f = g
    BY <1>3, <1>8, <1>9, <1>10, SameElements
  <1> QED
    BY <1>2, <1>11 DEF f, g, e, q, r

\* An order leaves its level.
LEMMA JoinedRemoved ==
    ASSUME NEW s \in Side, NEW o, NEW qs, Sound(s, o, qs), NEW p \in Prices,
           NEW j \in 1 .. Len(qs[p]), NEW qs2, LeavesLevel(qs, qs2, p, j),
           Sound(s, o, qs2)
    PROVE  /\ Joined(s, o, qs2) = RemoveAt(Joined(s, o, qs), Engine!PlaceOf(Joined(s, o, qs), qs[p][j]))
           /\ qs[p][j] \in Engine!IDsOf(Joined(s, o, qs))
  <1>1. /\ EntriesOf(o, qs2[p]) = RemoveAt(EntriesOf(o, qs[p]), j)
        /\ AlikeApart(p, o, qs, o, qs2)
    BY EntriesRemoved
  <1>2. PICK pre, post :
           /\ Around(s, o, qs, p, pre, post)
           /\ Joined(s, o, qs) = pre \o EntriesOf(o, qs[p]) \o post
           /\ Joined(s, o, qs2) = pre \o EntriesOf(o, qs2[p]) \o post
    <2>1. SplitBoth(s, p, o, qs, o, qs2)
      BY <1>1, JoinedSplit
    <2> QED
      BY <2>1 DEF SplitBoth
  <1> DEFINE e == EntriesOf(o, qs[p])
             list == Joined(s, o, qs)
  <1>3. Engine!PlaceOf(list, qs[p][j]) = Len(pre) + j /\ qs[p][j] \in Engine!IDsOf(list)
    BY <1>2, PlaceInList
  <1>4. e \in Seq(Entry) /\ j \in 1 .. Len(e)
    BY EntriesTyped
  <1>5. pre \in Seq(Entry) /\ post \in Seq(Entry)
    BY <1>2 DEF Around
  <1>6. RemoveAt(pre \o e \o post, Len(pre) + j) = pre \o RemoveAt(e, j) \o post
    <2>1. e \in Seq(Entry) /\ pre \in Seq(Entry) /\ post \in Seq(Entry)
      BY <1>4, <1>5
    <2>2. j \in 1 .. Len(e)
      BY <1>4
    <2>3. RemovesMiddle(Entry)
      BY MiddleRemoved
    <2> HIDE DEF e
    <2> QED
      BY <2>1, <2>2, <2>3 DEF RemovesMiddle
  <1> QED
    BY <1>1, <1>2, <1>3, <1>6

\* Order id joins the back of a queue, and the linked orders stay.
JoinsLevel(o, qs, o2, qs2, p, id) ==
    /\ qs2 = [qs EXCEPT ![p] = Append(@, id)]
    /\ \A r \in Prices : \A i \in DOMAIN qs[r] : o2[qs[r][i]] = o[qs[r][i]]

\* The entries of a queue which an order joins.
LEMMA EntriesAppended ==
    ASSUME NEW s \in Side, NEW o, NEW qs, Sound(s, o, qs), NEW p \in Prices,
           NEW id \in OrderIDs, NEW o2, NEW qs2, Sound(s, o2, qs2),
           JoinsLevel(o, qs, o2, qs2, p, id)
    PROVE  /\ EntriesOf(o2, qs2[p]) = Append(EntriesOf(o, qs[p]), EntryOf(o2, id))
           /\ AlikeApart(p, o, qs, o2, qs2)
           /\ EntryOf(o2, id) \in Entry /\ o2[id].price = p /\ o2[id].quantity > 0
  <1> DEFINE q == qs[p]
             r == qs2[p]
             n == Len(q)
             e == EntriesOf(o, q)
             f == EntriesOf(o2, r)
             x == EntryOf(o2, id)
             g == Append(e, x)
  <1>1. /\ q \in Seq(OrderIDs) /\ n \in Nat /\ r \in Seq(OrderIDs)
        /\ r = Append(q, id) /\ \A h \in Prices \ {p} : qs2[h] = qs[h]
        /\ DOMAIN q = 1 .. n /\ DOMAIN r = 1 .. Len(r)
    BY QueuesTyped DEF JoinsLevel
  <1>2. AlikeApart(p, o, qs, o2, qs2)
    BY <1>1 DEF AlikeApart, EntriesOf, JoinsLevel
  <1>3. e \in Seq(Entry) /\ Len(e) = n /\ f \in Seq(Entry) /\ Len(f) = Len(r)
    BY EntriesTyped
  <1>4. \A i \in 1 .. n : o2[q[i]] = o[q[i]]
    BY <1>1 DEF JoinsLevel
  <1>5. \A i \in 1 .. Len(r) : o2[r[i]] \in Order /\ o2[r[i]].price = p /\ o2[r[i]].quantity > 0
    BY <1>1 DEF Sound
  <1> HIDE DEF q, r, n
  <1>6. Len(r) = n + 1 /\ r[n + 1] = id /\ \A i \in 1 .. n : r[i] = q[i]
    BY <1>1 DEF n
  <1>7. o2[id] \in Order /\ o2[id].price = p /\ o2[id].quantity > 0
    BY <1>1, <1>5, <1>6
  <1>8. x \in Entry
    BY <1>7 DEF EntryOf, Entry, Order
  <1>9. /\ \A i \in 1 .. n : e[i] = EntryOf(o, q[i])
        /\ \A i \in 1 .. Len(r) : f[i] = EntryOf(o2, r[i])
    <2>1. \A i \in DOMAIN q : e[i] = EntryOf(o, q[i])
      BY EntriesAre
    <2>2. \A i \in DOMAIN r : f[i] = EntryOf(o2, r[i])
      BY EntriesAre
    <2> QED
      BY <1>1, <2>1, <2>2 DEF n
  <1> HIDE DEF e, f, x
  <1>10. /\ g \in Seq(Entry) /\ Len(g) = n + 1 /\ g[n + 1] = x
         /\ \A i \in 1 .. n : g[i] = e[i]
    BY <1>3, <1>8
  <1> HIDE DEF g
  <1>11. ASSUME NEW i \in 1 .. Len(f) PROVE f[i] = g[i]
    <2>1. i \in 1 .. Len(r) /\ (i \in 1 .. n \/ i = n + 1)
      BY <1>1, <1>3, <1>6
    <2>2. CASE i = n + 1
      BY <1>6, <1>9, <1>10, <2>1, <2>2 DEF x
    <2>3. CASE i \in 1 .. n
      <3>1. o2[q[i]] = o[q[i]] /\ r[i] = q[i]
        BY <1>4, <1>6, <2>3
      <3>2. EntryOf(o2, r[i]) = EntryOf(o, q[i])
        BY <3>1 DEF EntryOf
      <3> QED
        BY <1>9, <1>10, <2>1, <2>3, <3>2
    <2> QED
      BY <2>1, <2>2, <2>3
  <1>12. Len(f) = Len(g)
    BY <1>3, <1>6, <1>10
  <1>13. f = g
    BY <1>3, <1>10, <1>11, <1>12, SameElements
  <1> QED
    BY <1>2, <1>7, <1>8, <1>13 DEF f, g, e, q, r, x

\* An order joins a level: it joins the side's list where the rules say.
LEMMA JoinedAppended ==
    ASSUME NEW s \in Side, NEW o, NEW qs, Sound(s, o, qs), NEW p \in Prices,
           NEW id \in OrderIDs, NEW o2, NEW qs2, Sound(s, o2, qs2),
           JoinsLevel(o, qs, o2, qs2, p, id)
    PROVE  Joined(s, o2, qs2) = Engine!Join(s, Joined(s, o, qs), EntryOf(o2, id))
  <1>1. /\ EntriesOf(o2, qs2[p]) = Append(EntriesOf(o, qs[p]), EntryOf(o2, id))
        /\ AlikeApart(p, o, qs, o2, qs2)
        /\ EntryOf(o2, id) \in Entry /\ o2[id].price = p /\ o2[id].quantity > 0
    BY EntriesAppended
  <1>2. PICK pre, post :
           /\ Around(s, o, qs, p, pre, post)
           /\ Joined(s, o, qs) = pre \o EntriesOf(o, qs[p]) \o post
           /\ Joined(s, o2, qs2) = pre \o EntriesOf(o2, qs2[p]) \o post
    <2>1. SplitBoth(s, p, o, qs, o2, qs2)
      BY <1>1, JoinedSplit
    <2> QED
      BY <2>1 DEF SplitBoth
  <1> DEFINE e == EntriesOf(o, qs[p])
             list == Joined(s, o, qs)
             x == EntryOf(o2, id)
             n == Len(pre) + Len(e)
  <1>3. e \in Seq(Entry) /\ \A i \in 1 .. Len(e) : e[i].price = p
    BY EntriesTyped
  <1>4. /\ pre \in Seq(Entry) /\ post \in Seq(Entry)
        /\ \A i \in 1 .. Len(pre) : InFront(s, pre[i], o, qs, p)
        /\ \A i \in 1 .. Len(post) : Behind(s, post[i], o, qs, p)
    BY <1>2 DEF Around
  <1>5. /\ \A i \in 1 .. Len(pre) : Ahead(s, pre[i].price, p) /\ pre[i].price \in Prices
        /\ \A i \in 1 .. Len(post) : Ahead(s, p, post[i].price)
    BY <1>4, LevelEntry DEF InFront, Behind
  <1>6. x \in Entry /\ x.quantity # 0 /\ x.price = p
    BY <1>1 DEF EntryOf
  <1>7. list = pre \o e \o post /\ list \in Seq(Entry)
    BY <1>2, JoinedIsList DEF IsList
  <1> HIDE DEF e, list, x
  <1>8. /\ Len(list) = Len(pre) + Len(e) + Len(post)
        /\ Len(pre) \in Nat /\ Len(e) \in Nat /\ Len(post) \in Nat
        /\ \A i \in 1 .. Len(pre) + Len(e) + Len(post) :
              list[i] = IF i <= Len(pre) THEN pre[i]
                        ELSE IF i <= Len(pre) + Len(e) THEN e[i - Len(pre)]
                        ELSE post[i - (Len(pre) + Len(e))]
    BY <1>3, <1>4, <1>7, ThreeParts
  <1>9. n \in 0 .. Len(list)
    BY <1>8
  <1>10. ASSUME NEW i \in 1 .. Len(list)
         PROVE  i <= n <=> ~ Ahead(s, p, list[i].price)
    <2>1. i \in 1 .. Len(pre) + Len(e) + Len(post) /\ i \in Nat
      BY <1>8
    <2>2. CASE i <= Len(pre)
      <3>1. list[i] = pre[i] /\ i \in 1 .. Len(pre) /\ i <= n
        BY <1>8, <2>1, <2>2
      <3>2. pre[i].price \in Int /\ p \in Int /\ Ahead(s, pre[i].price, p)
        BY <1>5, <3>1, PriceAssumption DEF Prices
      <3>3. ~ Ahead(s, p, pre[i].price)
        BY <3>2 DEF Ahead
      <3> QED
        BY <3>1, <3>3
    <2>3. CASE ~ (i <= Len(pre)) /\ i <= Len(pre) + Len(e)
      <3>1. list[i] = e[i - Len(pre)] /\ i - Len(pre) \in 1 .. Len(e)
        BY <1>8, <2>1, <2>3
      <3>2. list[i].price = p
        BY <1>3, <3>1
      <3>3. ~ Ahead(s, p, p)
        BY DEF Ahead, Prices
      <3> QED
        BY <2>3, <3>2, <3>3
    <2>4. CASE ~ (i <= Len(pre)) /\ ~ (i <= Len(pre) + Len(e))
      <3>1. list[i] = post[i - (Len(pre) + Len(e))] /\ i - (Len(pre) + Len(e)) \in 1 .. Len(post)
        BY <1>8, <2>1, <2>4
      <3> QED
        BY <1>5, <2>4, <3>1
    <2> QED
      BY <2>2, <2>3, <2>4
  <1>11. Engine!Reached(s, list, p) = n
    <2> HIDE DEF n
    <2> QED
      BY <1>7, <1>9, <1>10, ReachedIs
  <1>12. Engine!Join(s, list, x) = InsertAt(list, n + 1, x)
    BY <1>6, <1>11 DEF Engine!Join, Engine!InsertAt, InsertAt
  <1>13. InsertAt(pre \o e \o post, Len(pre) + Len(e) + 1, x) = pre \o Append(e, x) \o post
    <2>1. InsertsBehind(Entry)
      BY InsertBehindMiddle
    <2> QED
      BY <1>3, <1>4, <1>6, <2>1 DEF InsertsBehind
  <1>14. Engine!Join(s, list, x) = pre \o Append(e, x) \o post
    BY <1>7, <1>12, <1>13
  <1> QED
    BY <1>1, <1>2, <1>14 DEF list, x, e

-----------------------------------------------------------------------------
(* Trading with the first order of a side.                                 *)

\* No level in front of p links an order.
BestLevel(s, qs, p) == \A r \in Prices : Ahead(s, r, p) => qs[r] = <<>>

\* Level p begins the list of the side in two states of it, and nothing else changed.
BeginsAt(s, p, o, qs, o2, qs2) ==
    \E post \in Seq(Entry) :
        /\ Joined(s, o, qs) = EntriesOf(o, qs[p]) \o post
        /\ Joined(s, o2, qs2) = EntriesOf(o2, qs2[p]) \o post

\* A side's list begins with its best level.
LEMMA BestSplit ==
    ASSUME NEW s \in Side, NEW o, NEW qs, Sound(s, o, qs),
           NEW o2, NEW qs2, Sound(s, o2, qs2), NEW p \in Prices,
           AlikeApart(p, o, qs, o2, qs2), BestLevel(s, qs, p)
    PROVE  BeginsAt(s, p, o, qs, o2, qs2)
  <1>1. SplitBoth(s, p, o, qs, o2, qs2)
    BY JoinedSplit
  <1>2. PICK pre, post :
           /\ Around(s, o, qs, p, pre, post)
           /\ Joined(s, o, qs) = pre \o EntriesOf(o, qs[p]) \o post
           /\ Joined(s, o2, qs2) = pre \o EntriesOf(o2, qs2[p]) \o post
    BY <1>1 DEF SplitBoth
  <1>3. /\ pre \in Seq(Entry) /\ post \in Seq(Entry)
        /\ \A i \in 1 .. Len(pre) : InFront(s, pre[i], o, qs, p)
    BY <1>2 DEF Around
  <1>4. \A i \in 1 .. Len(pre) : FALSE
    BY <1>3 DEF InFront, OnLevel, BestLevel
  <1>5. pre = <<>>
    BY <1>3, <1>4
  <1>6. EntriesOf(o, qs[p]) \in Seq(Entry) /\ EntriesOf(o2, qs2[p]) \in Seq(Entry)
    BY EntriesTyped
  <1>7. pre \o EntriesOf(o, qs[p]) = EntriesOf(o, qs[p])
        /\ pre \o EntriesOf(o2, qs2[p]) = EntriesOf(o2, qs2[p])
    <2> DEFINE e == EntriesOf(o, qs[p])
               f == EntriesOf(o2, qs2[p])
    <2>1. e \in Seq(Entry) /\ f \in Seq(Entry)
      BY <1>6
    <2> HIDE DEF e, f
    <2>2. <<>> \o e = e /\ <<>> \o f = f
      BY <2>1
    <2> QED
      BY <1>5, <2>2 DEF e, f
  <1> QED
    BY <1>2, <1>3, <1>7 DEF BeginsAt

\* A list behind another one: its first element, and what follows it.
LEMMA HeadOfConcat ==
    ASSUME NEW E, NEW e \in Seq(E), NEW b \in Seq(E), Len(e) > 0
    PROVE  /\ e \o b \in Seq(E) /\ Len(e \o b) = Len(e) + Len(b)
           /\ Len(e) \in Nat /\ Len(b) \in Nat
           /\ (e \o b)[1] = e[1]
           /\ Tail(e) \o b = Tail(e \o b)
           /\ \A x \in E : [e EXCEPT ![1] = x] \o b = [e \o b EXCEPT ![1] = x]
  <1>1. /\ e \o b \in Seq(E) /\ Len(e \o b) = Len(e) + Len(b) /\ Len(e) \in Nat /\ Len(b) \in Nat
        /\ \A i \in 1 .. Len(e) + Len(b) :
              (e \o b)[i] = IF i <= Len(e) THEN e[i] ELSE b[i - Len(e)]
    BY ConcatProperties
  <1> DEFINE c == e \o b
  <1>2. c \in Seq(E) /\ Len(c) = Len(e) + Len(b) /\ Len(c) > 0 /\ e # <<>> /\ c # <<>>
        /\ \A i \in 1 .. Len(e) + Len(b) : c[i] = IF i <= Len(e) THEN e[i] ELSE b[i - Len(e)]
    BY <1>1
  <1>3. c[1] = e[1]
    BY <1>1, <1>2
  <1> HIDE DEF c
  <1>4. Tail(e) \o b = Tail(c)
    <2> DEFINE t == Tail(e)
               u == Tail(c)
    <2>1. /\ t \in Seq(E) /\ Len(t) = Len(e) - 1 /\ \A i \in 1 .. Len(t) : t[i] = e[i + 1]
          /\ u \in Seq(E) /\ Len(u) = Len(c) - 1 /\ \A i \in 1 .. Len(u) : u[i] = c[i + 1]
      BY <1>2
    <2> HIDE DEF t, u
    <2> DEFINE w == t \o b
    <2>2. /\ w \in Seq(E) /\ Len(w) = Len(t) + Len(b)
          /\ \A i \in 1 .. Len(t) + Len(b) : w[i] = IF i <= Len(t) THEN t[i] ELSE b[i - Len(t)]
      BY <2>1, ConcatProperties
    <2> HIDE DEF w
    <2>3. ASSUME NEW i \in 1 .. Len(w) PROVE w[i] = u[i]
      <3>1. /\ i \in 1 .. Len(t) + Len(b) /\ i \in 1 .. Len(u) /\ i \in Nat
            /\ i + 1 \in 1 .. Len(e) + Len(b)
        BY <1>1, <1>2, <2>1, <2>2
      <3>2. CASE i <= Len(t)
        <4>1. i \in 1 .. Len(t) /\ i + 1 <= Len(e)
          BY <1>1, <2>1, <3>1, <3>2
        <4> QED
          BY <1>2, <2>1, <2>2, <3>1, <3>2, <4>1
      <3>3. CASE ~ (i <= Len(t))
        <4>1. ~ (i + 1 <= Len(e)) /\ i + 1 - Len(e) = i - Len(t)
          BY <1>1, <2>1, <3>1, <3>3
        <4> QED
          BY <1>2, <2>1, <2>2, <3>1, <3>3, <4>1
      <3> QED
        BY <3>2, <3>3
    <2>4. Len(w) = Len(u)
      BY <1>1, <1>2, <2>1, <2>2
    <2>5. w = u
      BY <2>1, <2>2, <2>3, <2>4, SameElements
    <2> QED
      BY <2>5 DEF w, t, u
  <1>5. ASSUME NEW x \in E PROVE [e EXCEPT ![1] = x] \o b = [c EXCEPT ![1] = x]
    <2> DEFINE f == [e EXCEPT ![1] = x]
               g == [c EXCEPT ![1] = x]
    <2>1. /\ f \in Seq(E) /\ Len(f) = Len(e)
          /\ \A i \in 1 .. Len(e) : f[i] = IF i = 1 THEN x ELSE e[i]
          /\ g \in Seq(E) /\ Len(g) = Len(c)
          /\ \A i \in 1 .. Len(c) : g[i] = IF i = 1 THEN x ELSE c[i]
      BY <1>2, ExceptSeq
    <2> HIDE DEF f, g
    <2> DEFINE w == f \o b
    <2>2. /\ w \in Seq(E) /\ Len(w) = Len(f) + Len(b)
          /\ \A i \in 1 .. Len(f) + Len(b) : w[i] = IF i <= Len(f) THEN f[i] ELSE b[i - Len(f)]
      <3>1. f \in Seq(E) /\ b \in Seq(E)
        BY <2>1
      <3> QED
        BY <3>1, ConcatProperties
    <2> HIDE DEF w
    <2>3. ASSUME NEW i \in 1 .. Len(w) PROVE w[i] = g[i]
      <3>1. i \in 1 .. Len(f) + Len(b) /\ i \in 1 .. Len(c) /\ i \in 1 .. Len(e) + Len(b)
        BY <1>2, <2>1, <2>2
      <3>2. CASE i <= Len(e)
        <4>1. i \in 1 .. Len(e)
          BY <3>1, <3>2
        <4> QED
          BY <1>2, <2>1, <2>2, <3>1, <3>2, <4>1
      <3>3. CASE ~ (i <= Len(e))
        <4>1. i # 1
          BY <1>1, <1>2, <3>1, <3>3
        <4> QED
          BY <1>2, <2>1, <2>2, <3>1, <3>3, <4>1
      <3> QED
        BY <3>2, <3>3
    <2>4. Len(w) = Len(g)
      BY <1>2, <2>1, <2>2
    <2>5. w = g
      BY <2>1, <2>2, <2>3, <2>4, SameElements
    <2> QED
      BY <2>5 DEF w, f, g
  <1> QED
    BY <1>1, <1>3, <1>4, <1>5 DEF c

\* Its first element changes.
ChangesHead(E) ==
    \A e, b \in Seq(E) : \A x \in E :
        Len(e) > 0 => [e EXCEPT ![1] = x] \o b = [e \o b EXCEPT ![1] = x]

\* It holds for every set of elements.
LEMMA HeadChanges == ASSUME NEW E PROVE ChangesHead(E)
  <1>1. ASSUME NEW e \in Seq(E), NEW b \in Seq(E), NEW x \in E, Len(e) > 0
        PROVE  [e EXCEPT ![1] = x] \o b = [e \o b EXCEPT ![1] = x]
    BY <1>1, HeadOfConcat
  <1> QED
    BY <1>1 DEF ChangesHead

\* The orders that are not the first of level p stay as they are.
OthersStay(o, qs, o2, p) ==
    \A r \in Prices : \A i \in DOMAIN qs[r] :
        r # p \/ i # 1 => o2[qs[r][i]] = o[qs[r][i]]

\* What the first order of the best level is in the list of its side.
LEMMA FirstEntry ==
    ASSUME NEW s \in Side, NEW o, NEW qs, Sound(s, o, qs), NEW p \in Prices,
           BestLevel(s, qs, p), qs[p] # <<>>
    PROVE  /\ Len(Joined(s, o, qs)) > 0 /\ Joined(s, o, qs) \in Seq(Entry)
           /\ Joined(s, o, qs)[1] = EntryOf(o, qs[p][1])
           /\ EntryOf(o, qs[p][1]) \in Entry
           /\ o[qs[p][1]].price = p /\ o[qs[p][1]].quantity \in Quantities
           /\ o[qs[p][1]].quantity > 0
  <1>1. BeginsAt(s, p, o, qs, o, qs)
    BY BestSplit DEF AlikeApart
  <1>2. PICK post \in Seq(Entry) : Joined(s, o, qs) = EntriesOf(o, qs[p]) \o post
    BY <1>1 DEF BeginsAt
  <1> DEFINE e == EntriesOf(o, qs[p])
  <1>3. /\ 1 \in DOMAIN qs[p] /\ Len(qs[p]) \in Nat /\ Len(qs[p]) > 0
        /\ DOMAIN qs[p] = 1 .. Len(qs[p])
    <2>1. qs[p] \in Seq(OrderIDs)
      BY QueuesTyped
    <2> QED
      BY <2>1
  <1>4. e[1] = EntryOf(o, qs[p][1])
    BY <1>3, EntriesAre
  <1>5. e \in Seq(Entry) /\ Len(e) > 0
    BY <1>3, EntriesTyped
  <1>6. EntryOf(o, qs[p][1]) \in Entry
    BY <1>4, <1>5
  <1>7. o[qs[p][1]] \in Order /\ o[qs[p][1]].price = p /\ o[qs[p][1]].quantity > 0
    BY <1>3 DEF Sound
  <1>8. o[qs[p][1]].quantity \in Quantities
    BY <1>7 DEF Order
  <1> HIDE DEF e
  <1>9. /\ e \o post \in Seq(Entry) /\ Len(e \o post) = Len(e) + Len(post)
        /\ Len(e) \in Nat /\ Len(post) \in Nat /\ (e \o post)[1] = e[1]
    BY <1>5, HeadOfConcat
  <1>10. Joined(s, o, qs) = e \o post
    BY <1>2 DEF e
  <1> QED
    BY <1>4, <1>5, <1>6, <1>7, <1>8, <1>9, <1>10

\* Order x with d less to trade.
Reduced(x, d) == [x EXCEPT !.quantity = @ - d]

\* It trades and stays.
LEMMA FirstPartly ==
    ASSUME NEW s \in Side, NEW o, NEW qs, Sound(s, o, qs), NEW o2, Sound(s, o2, qs),
           NEW p \in Prices, BestLevel(s, qs, p), qs[p] # <<>>, OthersStay(o, qs, o2, p),
           NEW d, EntryOf(o2, qs[p][1]) = Reduced(EntryOf(o, qs[p][1]), d)
    PROVE  Joined(s, o2, qs) = [Joined(s, o, qs) EXCEPT ![1].quantity = @ - d]
  <1> DEFINE e == EntriesOf(o, qs[p])
             f == EntriesOf(o2, qs[p])
             x == EntryOf(o2, qs[p][1])
             n == Len(qs[p])
  <1>1. AlikeApart(p, o, qs, o2, qs)
    BY DEF AlikeApart, EntriesOf, OthersStay
  <1>2. BeginsAt(s, p, o, qs, o2, qs)
    BY <1>1, BestSplit
  <1>3. PICK post \in Seq(Entry) : Joined(s, o, qs) = e \o post /\ Joined(s, o2, qs) = f \o post
    BY <1>2 DEF BeginsAt
  <1>4. n \in Nat /\ n > 0 /\ DOMAIN qs[p] = 1 .. n
    <2>1. qs[p] \in Seq(OrderIDs)
      BY QueuesTyped
    <2> QED
      BY <2>1
  <1>5. e \in Seq(Entry) /\ Len(e) = n /\ f \in Seq(Entry) /\ Len(f) = n
    BY EntriesTyped
  <1>6. \A i \in 1 .. n : e[i] = EntryOf(o, qs[p][i]) /\ f[i] = EntryOf(o2, qs[p][i])
    BY <1>4, EntriesAre
  <1>7. \A i \in 1 .. n : i # 1 => f[i] = e[i]
    <2>1. \A i \in 1 .. n : i # 1 => o2[qs[p][i]] = o[qs[p][i]]
      BY <1>4 DEF OthersStay
    <2>2. \A i \in 1 .. n : i # 1 => EntryOf(o2, qs[p][i]) = EntryOf(o, qs[p][i])
      BY <2>1 DEF EntryOf
    <2> HIDE DEF e, f, n
    <2> QED
      BY <1>6, <2>2
  <1>8. x = Reduced(e[1], d) /\ x = f[1] /\ x \in Entry
    BY <1>4, <1>5, <1>6
  <1> HIDE DEF e, f, x, n
  <1> DEFINE g == [e EXCEPT ![1] = x]
  <1>9. g \in Seq(Entry) /\ Len(g) = n /\ \A i \in 1 .. n : g[i] = IF i = 1 THEN x ELSE e[i]
    BY <1>4, <1>5, <1>8, ExceptSeq
  <1> HIDE DEF g
  <1>10. \A i \in 1 .. Len(f) : f[i] = g[i]
    BY <1>4, <1>5, <1>7, <1>8, <1>9
  <1>11. f = g
    BY <1>5, <1>9, <1>10, SameElements
  <1>12. g \o post = [e \o post EXCEPT ![1] = x] /\ (e \o post)[1] = e[1]
    <2>1. (e \o post)[1] = e[1]
      BY <1>4, <1>5, HeadOfConcat
    <2>2. ChangesHead(Entry)
      BY HeadChanges
    <2>3. [e EXCEPT ![1] = x] \o post = [e \o post EXCEPT ![1] = x]
      BY SMTT(30), <1>4, <1>5, <1>8, <2>2 DEF ChangesHead
    <2> QED
      BY <2>1, <2>3 DEF g
  <1>13. [e \o post EXCEPT ![1] = x] = [e \o post EXCEPT ![1].quantity = @ - d]
    BY <1>8, <1>12 DEF Reduced
  <1> QED
    BY <1>3, <1>11, <1>12, <1>13

\* It is filled and leaves its level.
LEMMA FirstFilled ==
    ASSUME NEW s \in Side, NEW o, NEW qs, Sound(s, o, qs), NEW o2, NEW qs2, Sound(s, o2, qs2),
           NEW p \in Prices, BestLevel(s, qs, p), qs[p] # <<>>, OthersStay(o, qs, o2, p),
           LeavesLevel(qs, qs2, p, 1)
    PROVE  Joined(s, o2, qs2) = Tail(Joined(s, o, qs))
  <1> DEFINE e == EntriesOf(o, qs[p])
             f == EntriesOf(o2, qs2[p])
             n == Len(qs[p])
             q == qs[p]
             r == qs2[p]
  <1>1. /\ q \in Seq(OrderIDs) /\ n \in Nat /\ n > 0 /\ DOMAIN q = 1 .. n
        /\ r = RemoveAt(q, 1) /\ \A h \in Prices \ {p} : qs2[h] = qs[h]
        /\ r \in Seq(OrderIDs) /\ DOMAIN r = 1 .. Len(r)
    <2>1. q \in Seq(OrderIDs) /\ r \in Seq(OrderIDs) /\ DOMAIN qs = Prices
      BY QueuesTyped
    <2>2. r = RemoveAt(q, 1) /\ \A h \in Prices \ {p} : qs2[h] = qs[h]
      BY <2>1 DEF LeavesLevel
    <2> QED
      BY <2>1, <2>2
  <1>2. AlikeApart(p, o, qs, o2, qs2)
    BY <1>1 DEF AlikeApart, EntriesOf, OthersStay
  <1>3. BeginsAt(s, p, o, qs, o2, qs2)
    BY <1>2, BestSplit
  <1>4. PICK post \in Seq(Entry) : Joined(s, o, qs) = e \o post /\ Joined(s, o2, qs2) = f \o post
    BY <1>3 DEF BeginsAt
  <1>5. e \in Seq(Entry) /\ Len(e) = n /\ f \in Seq(Entry) /\ Len(f) = Len(r)
    BY EntriesTyped
  <1>6. /\ \A i \in 1 .. n : e[i] = EntryOf(o, q[i])
        /\ \A i \in 1 .. Len(r) : f[i] = EntryOf(o2, r[i])
    BY <1>1, EntriesAre
  <1>7. \A i \in 1 .. n : i # 1 => o2[q[i]] = o[q[i]]
    BY <1>1 DEF OthersStay
  <1>8. Len(r) = n - 1 /\ \A i \in 1 .. n - 1 : r[i] = q[i + 1]
    <2>1. q \in Seq(OrderIDs) /\ 1 \in 1 .. Len(q) /\ r = RemoveAt(q, 1) /\ n = Len(q)
      BY <1>1
    <2> HIDE DEF q, r, n
    <2>2. /\ Len(RemoveAt(q, 1)) = Len(q) - 1
          /\ \A i \in 1 .. Len(q) - 1 : RemoveAt(q, 1)[i] = IF i < 1 THEN q[i] ELSE q[i + 1]
      BY <2>1, RemoveAtProperties
    <2> QED
      BY <2>1, <2>2
  <1> HIDE DEF e, f, q, r, n
  <1> DEFINE g == Tail(e)
  <1>9. /\ g \in Seq(Entry) /\ Len(g) = n - 1
        /\ \A i \in 1 .. n - 1 : g[i] = e[i + 1]
    BY <1>1, <1>5
  <1> HIDE DEF g
  <1>10. ASSUME NEW i \in 1 .. Len(f) PROVE f[i] = g[i]
    <2>1. i \in 1 .. n - 1 /\ i + 1 \in 1 .. n /\ i + 1 # 1 /\ i \in 1 .. Len(r)
      BY <1>1, <1>5, <1>8
    <2>2. f[i] = EntryOf(o2, q[i + 1]) /\ g[i] = EntryOf(o, q[i + 1])
      BY <1>6, <1>8, <1>9, <2>1
    <2> QED
      BY <1>7, <2>1, <2>2 DEF EntryOf
  <1>11. f = g
    <2>1. Len(f) = Len(g)
      BY <1>5, <1>8, <1>9
    <2> QED
      BY <1>5, <1>9, <1>10, <2>1, SameElements
  <1>12. g \o post = Tail(e \o post)
    BY <1>1, <1>5, HeadOfConcat DEF g
  <1> QED
    BY <1>4, <1>11, <1>12

-----------------------------------------------------------------------------
(* What the observing variables are while a call runs.  L is the book as   *)
(* it is, b the book before the call, c the call, t the trades so far.     *)

\* The book without the caller's order, which the outcome starts from.
BaseOf(b, c) == Engine!Removed(b, c.id)

\* What the rules say of the call.
OutcomeOf(b, c) == Engine!Executed(BaseOf(b, c), c.id, c.side, c.price, c.quantity)

\* A part of the outcome has happened on the other side.
PartlyDone(b, c, L, t, left) ==
    LET opp == Opposite(c.side)
    IN  /\ IsList(opp, BaseOf(b, c)[opp])
        /\ \E n, part :
              /\ Progress(opp, BaseOf(b, c)[opp], c.price, c.quantity, n, part, left)
              /\ L[opp] = Eaten(BaseOf(b, c)[opp], n, part)
              /\ t = Eating(BaseOf(b, c)[opp], n, part)

\* All of the outcome has happened on the other side.
AllTraded(b, c, L, t, left) ==
    LET opp == Opposite(c.side)
    IN  /\ L[opp] = Engine!StayOf(opp, BaseOf(b, c)[opp], c.price, c.quantity)
        /\ t = Engine!TradesOf(opp, BaseOf(b, c)[opp], c.price, c.quantity)
        /\ left = Engine!RestOf(opp, BaseOf(b, c)[opp], c.price, c.quantity)

\* A book of two lists that the rules can work on.
IsBook(b) == b = [s \in Side |-> b[s]] /\ \A s \in Side : IsList(s, b[s])

\* The caller's order was in the book, on the side of the call.
WasThere(b, c) ==
    /\ c.id \in Engine!IDsOf(b[c.side])
    /\ c.id \notin Engine!IDsOf(b[Opposite(c.side)])

\* The book at the last return is one.
CommittedIsBook == IsBook(committed)

\* An amend, a cancel or a replace is of an order that was there.
CallersPlace ==
    pc # "idle" /\ call.name # "newOrder" => WasThere(committed, call)

\* Between calls nothing is under way.
BetweenCalls == pc = "idle" => committed = Levels /\ tape = <<>>

\* In the match, the trades so far are a beginning of the outcome's.
MatchedSoFar ==
    pc \in Matching =>
        /\ PartlyDone(committed, call, Levels, tape, remaining)
        /\ Levels[call.side] = IF call.name = "amend" THEN committed[call.side]
                               ELSE BaseOf(committed, call)[call.side]

\* The level the match is at has a price within the limit.
LevelInReach ==
    pc \in {"fill", "filled", "levelMatched"}
        => ~ Ahead(Opposite(call.side), call.price, level)

\* Before removeOrder of a cancel or a replace nothing has changed.
StillThere == pc = "unlink" => Levels = committed /\ tape = <<>>

\* After it the book is the one without the order.
TakenOut ==
    pc \in {"unlinked", "erase"} /\ call.name # "amend"
        => Levels = BaseOf(committed, call) /\ tape = <<>>

\* An amend takes its order out when its trades are those of the outcome.
AmendTraded ==
    pc \in {"unlinked", "reinsert", "erase"} /\ call.name = "amend" =>
        /\ AllTraded(committed, call, Levels, tape, remaining)
        /\ Levels[call.side] = BaseOf(committed, call)[call.side]
        /\ pc = "erase" => remaining = 0

\* At the last event of a call the outcome is reached.
AllDone ==
    pc \in {"rested", "return"} =>
        /\ call.name \in {"newOrder", "amend"}
        /\ Levels = OutcomeOf(committed, call).book
        /\ tape = OutcomeOf(committed, call).trades

\* The invariant of the observed order book.
Observed ==
    /\ CommittedIsBook /\ CallersPlace /\ BetweenCalls /\ MatchedSoFar
    /\ LevelInReach /\ StillThere /\ TakenOut /\ AmendTraded /\ AllDone

-----------------------------------------------------------------------------

\* The levels, side by side, before and after a step.
LEMMA LevelsAre ==
    /\ Levels = [s \in Side |-> Levels[s]]
    /\ Levels' = [s \in Side |-> Levels'[s]]
    /\ \A s \in Side : /\ Levels[s] = Joined(s, orders, queue[s])
                       /\ Levels'[s] = Joined(s, orders', queue'[s])
  BY JoinedIsByPriority DEF Levels

\* The step changes no order and no queue.
LEMMA LevelsStand == UNCHANGED <<orders, queue>> => Levels' = Levels
  BY DEF Levels, ByPriority, OrdersAt

\* The loop test of matchPrice.
LEMMA EnterLevelObserved ==
    ASSUME Observed, EnterLevel, TapeStep, ReturnStep
    PROVE  Observed'
  <1>1. /\ pc = "match" /\ pc' = "fill" /\ UNCHANGED <<call, remaining, level>>
        /\ ~ Ahead(Opposite(call.side), call.price, level) /\ Levels' = Levels
    BY LevelsStand DEF EnterLevel, CanMatch
  <1>2. tape' = tape /\ committed' = committed
    BY <1>1 DEF TapeStep, ReturnStep
  <1>3. CommittedIsBook' /\ CallersPlace'
    BY <1>1, <1>2 DEF Observed, CommittedIsBook, CallersPlace
  <1>4. MatchedSoFar'
    BY <1>1, <1>2 DEF Observed, MatchedSoFar, Matching
  <1>5. LevelInReach'
    BY <1>1 DEF LevelInReach
  <1>6. (BetweenCalls /\ StillThere /\ TakenOut /\ AmendTraded /\ AllDone)'
    BY <1>1 DEF BetweenCalls, StillThere, TakenOut, AmendTraded, AllDone
  <1> QED
    BY <1>3, <1>4, <1>5, <1>6 DEF Observed

\* The level event of matchPrice.
LEMMA LevelMatchedObserved ==
    ASSUME Observed, LevelMatched, TapeStep, ReturnStep
    PROVE  Observed'
  <1>1. /\ pc = "fill" /\ pc' = "levelMatched" /\ UNCHANGED <<call, remaining, level>>
        /\ Levels' = Levels
    BY LevelsStand DEF LevelMatched
  <1>2. tape' = tape /\ committed' = committed
    BY <1>1 DEF TapeStep, ReturnStep
  <1>3. CommittedIsBook' /\ CallersPlace'
    BY <1>1, <1>2 DEF Observed, CommittedIsBook, CallersPlace
  <1>4. MatchedSoFar'
    BY <1>1, <1>2 DEF Observed, MatchedSoFar, Matching
  <1>5. LevelInReach'
    BY <1>1 DEF Observed, LevelInReach
  <1>6. (BetweenCalls /\ StillThere /\ TakenOut /\ AmendTraded /\ AllDone)'
    BY <1>1 DEF BetweenCalls, StillThere, TakenOut, AmendTraded, AllDone
  <1> QED
    BY <1>3, <1>4, <1>5, <1>6 DEF Observed

\* The erasure of an emptied level, or the step to the next one.
LEMMA NextLevelObserved ==
    ASSUME Observed, NextLevel, TapeStep, ReturnStep
    PROVE  Observed'
  <1>1. /\ pc = "levelMatched" /\ pc' = "match" /\ UNCHANGED <<call, remaining>>
        /\ Levels' = Levels
    BY LevelsStand DEF NextLevel
  <1>2. tape' = tape /\ committed' = committed
    BY <1>1 DEF TapeStep, ReturnStep
  <1>3. CommittedIsBook' /\ CallersPlace'
    BY <1>1, <1>2 DEF Observed, CommittedIsBook, CallersPlace
  <1>4. MatchedSoFar'
    BY <1>1, <1>2 DEF Observed, MatchedSoFar, Matching
  <1>5. (LevelInReach /\ BetweenCalls /\ StillThere /\ TakenOut /\ AmendTraded /\ AllDone)'
    BY <1>1 DEF LevelInReach, BetweenCalls, StillThere, TakenOut, AmendTraded, AllDone
  <1> QED
    BY <1>3, <1>4, <1>5 DEF Observed

\* The end of removeOrder.
LEMMA LeaveLevelObserved ==
    ASSUME Consistent, Observed, LeaveLevel, TapeStep, ReturnStep
    PROVE  Observed'
  <1>1. /\ pc = "unlinked" /\ pc' \in {"reinsert", "erase"} /\ UNCHANGED <<call, remaining>>
        /\ pc' = IF call.name = "amend" /\ remaining > 0 THEN "reinsert" ELSE "erase"
        /\ Levels' = Levels
    BY LevelsStand DEF LeaveLevel
  <1>2. tape' = tape /\ committed' = committed
    BY <1>1 DEF TapeStep, ReturnStep
  <1>3. CommittedIsBook' /\ CallersPlace'
    BY <1>1, <1>2 DEF Observed, CommittedIsBook, CallersPlace
  <1>4. TakenOut'
    BY <1>1, <1>2 DEF Observed, TakenOut
  <1>5. remaining \in Nat
    BY DEF Consistent, TypeOK, Quantities
  <1>6. AmendTraded'
    BY <1>1, <1>2, <1>5 DEF Observed, AmendTraded
  <1>7. (LevelInReach /\ BetweenCalls /\ StillThere /\ MatchedSoFar /\ AllDone)'
    BY <1>1 DEF LevelInReach, BetweenCalls, StillThere, MatchedSoFar, AllDone, Matching
  <1> QED
    BY <1>3, <1>4, <1>6, <1>7 DEF Observed

-----------------------------------------------------------------------------
(* Calls begin.                                                            *)

\* The two sides.
LEMMA OppositeSide ==
    \A s \in Side : /\ Opposite(s) \in Side /\ Opposite(s) # s /\ Opposite(Opposite(s)) = s
                    /\ \A r \in Side : r # s => r = Opposite(s)
                    /\ Engine!Opposite(s) = Opposite(s)
  BY DEF Side, Opposite, Engine!Opposite

\* The rules have the same two sides.
LEMMA SameSides == Engine!Side = Side
  BY DEF Engine!Side, Side

\* The lists of the book as it is.
LEMMA LevelsAreBook ==
    ASSUME SoundBook
    PROVE  IsBook(Levels)
  <1>1. \A s \in Side : IsList(s, Levels[s])
    BY LevelsAre, JoinedIsList DEF SoundBook
  <1> QED
    BY <1>1, LevelsAre DEF IsBook

\* A live order that no call took out is in the list of its side alone.
LEMMA LiveIsThere ==
    ASSUME Consistent, SoundBook, NEW id \in Live, ~ Detached(id)
    PROVE  /\ id \in Engine!IDsOf(Levels[orders[id].side])
           /\ id \notin Engine!IDsOf(Levels[Opposite(orders[id].side)])
  <1> DEFINE s == orders[id].side
             p == orders[id].price
  <1>1. s \in Side /\ p \in Prices
    BY DEF Consistent, TypeOK, Order
  <1>2. id \in Range(queue[s][p])
    BY DEF Consistent, RegistryMatchesLevels, OrdersAreLinked
  <1>3. Sound(s, orders, queue[s]) /\ Sound(Opposite(s), orders, queue[Opposite(s)])
    BY <1>1, OppositeSide DEF SoundBook
  <1>4. id \in Engine!IDsOf(Joined(s, orders, queue[s]))
    BY <1>1, <1>2, <1>3, LinkedIsJoined
  <1>5. id \notin Engine!IDsOf(Joined(Opposite(s), orders, queue[Opposite(s)]))
    BY <1>1, <1>3, OppositeSide, JoinedOwn
  <1> QED
    BY <1>1, <1>4, <1>5, LevelsAre, OppositeSide

\* An id that is not in the registry is in no list.
LEMMA UnknownIsNotThere ==
    ASSUME Consistent, SoundBook, NEW id, id \notin Live, NEW s \in Side
    PROVE  id \notin Engine!IDsOf(Levels[s])
  <1>1. SUFFICES ASSUME id \in Engine!IDsOf(Levels[s]) PROVE FALSE
    OBVIOUS
  <1>2. Sound(s, orders, queue[s]) /\ Levels[s] = Joined(s, orders, queue[s])
    BY LevelsAre DEF SoundBook
  <1>3. \E r \in Prices : id \in Range(queue[s][r])
    BY <1>1, <1>2, JoinedOwn
  <1> QED
    BY <1>3 DEF Consistent, RegistryMatchesLevels, LinksAreLive

\* Taking out an order that is in no list changes nothing.
LEMMA NothingRemoved ==
    ASSUME NEW b, IsBook(b), NEW c, \A s \in Side : c.id \notin Engine!IDsOf(b[s])
    PROVE  BaseOf(b, c) = b
  BY SameSides DEF BaseOf, Engine!Removed, IsBook

\* The other side's list is the same without the caller's order.
LEMMA OtherSideStands ==
    ASSUME NEW b, NEW c, c.side \in Side, WasThere(b, c)
    PROVE  BaseOf(b, c)[Opposite(c.side)] = b[Opposite(c.side)]
  BY SameSides, OppositeSide DEF BaseOf, Engine!Removed, WasThere

\* A match that begins has done nothing of the outcome.
LEMMA NothingDone ==
    ASSUME NEW b, NEW c, NEW L, c.quantity \in Nat,
           IsList(Opposite(c.side), BaseOf(b, c)[Opposite(c.side)]),
           L[Opposite(c.side)] = BaseOf(b, c)[Opposite(c.side)]
    PROVE  PartlyDone(b, c, L, <<>>, c.quantity)
  <1> DEFINE s == Opposite(c.side)
             l == BaseOf(b, c)[s]
  <1>1. Progress(s, l, c.price, c.quantity, 0, 0, c.quantity)
    BY ProgressStarts
  <1>2. l \in Seq(Entry)
    BY DEF IsList
  <1>3. L[s] = Eaten(l, 0, 0) /\ <<>> = Eating(l, 0, 0)
    <2> HIDE DEF l
    <2>1. Eaten(l, 0, 0) = l /\ Eating(l, 0, 0) = <<>>
      BY <1>2, NothingEaten, NothingTraded
    <2> QED
      BY <2>1 DEF l
  <1> QED
    BY <1>1, <1>3 DEF PartlyDone

\* newOrder begins.
LEMMA NewOrderObserved ==
    ASSUME Consistent, SoundBook, Observed,
           NEW id \in OrderIDs, NEW s \in Side, NEW p \in Prices, NEW q \in Quantities,
           NewOrder(id, s, p, q), TapeStep, ReturnStep
    PROVE  Observed'
  <1>1. /\ pc = "idle" /\ pc' = "match" /\ id \notin Live
        /\ call'.name = "newOrder" /\ call'.id = id /\ call'.side = s
        /\ call'.price = p /\ call'.quantity = q /\ remaining' = q
        /\ Levels' = Levels
    BY LevelsStand DEF NewOrder, StartMatch
  <1>2. committed' = committed /\ tape' = tape /\ committed = Levels /\ tape = <<>>
    BY <1>1 DEF TapeStep, ReturnStep, Observed, BetweenCalls
  <1>3. IsBook(committed') /\ q \in Nat
    BY <1>2 DEF Observed, CommittedIsBook, Quantities
  <1>4. \A r \in Side : call'.id \notin Engine!IDsOf(committed'[r])
    BY <1>1, <1>2, UnknownIsNotThere
  <1>5. BaseOf(committed', call') = committed'
    BY <1>3, <1>4, NothingRemoved
  <1>6. IsList(Opposite(call'.side), committed'[Opposite(call'.side)])
    BY <1>1, <1>3, OppositeSide DEF IsBook
  <1>7. PartlyDone(committed', call', Levels', tape', remaining')
    BY <1>1, <1>2, <1>3, <1>5, <1>6, NothingDone
  <1>8. MatchedSoFar'
    BY <1>1, <1>2, <1>5, <1>7 DEF MatchedSoFar
  <1>9. (CommittedIsBook /\ CallersPlace)'
    BY <1>1, <1>3 DEF CommittedIsBook, CallersPlace
  <1>10. (LevelInReach /\ BetweenCalls /\ StillThere /\ TakenOut /\ AmendTraded /\ AllDone)'
    BY <1>1 DEF LevelInReach, BetweenCalls, StillThere, TakenOut, AmendTraded, AllDone
  <1> QED
    BY <1>8, <1>9, <1>10 DEF Observed

\* amend and amendDelta begin.
LEMMA AmendObserved ==
    ASSUME Consistent, SoundBook, Observed,
           NEW id \in OrderIDs, NEW p, NEW q \in Nat,
           Amend(id, p, q), TapeStep, ReturnStep
    PROVE  Observed'
  <1>1. /\ pc = "idle" /\ pc' = "match" /\ id \in Live
        /\ call'.name = "amend" /\ call'.id = id /\ call'.side = orders[id].side
        /\ call'.price = p /\ call'.quantity = q /\ remaining' = q
        /\ Levels' = Levels
    BY LevelsStand DEF Amend, StartMatch
  <1>2. committed' = committed /\ tape' = tape /\ committed = Levels /\ tape = <<>>
    BY <1>1 DEF TapeStep, ReturnStep, Observed, BetweenCalls
  <1>3. IsBook(committed') /\ orders[id].side \in Side
    BY <1>1, <1>2 DEF Observed, CommittedIsBook, Consistent, TypeOK, Order
  <1>4. ~ Detached(id)
    BY <1>1 DEF Detached
  <1>5. WasThere(committed', call')
    BY <1>1, <1>2, <1>4, LiveIsThere DEF WasThere
  <1>6. BaseOf(committed', call')[Opposite(call'.side)] = committed'[Opposite(call'.side)]
    BY <1>1, <1>3, <1>5, OtherSideStands
  <1>7. IsList(Opposite(call'.side), committed'[Opposite(call'.side)])
    BY <1>1, <1>3, OppositeSide DEF IsBook
  <1>8. PartlyDone(committed', call', Levels', tape', remaining')
    BY <1>1, <1>2, <1>6, <1>7, NothingDone
  <1>9. MatchedSoFar'
    BY <1>1, <1>2, <1>8 DEF MatchedSoFar
  <1>10. (CommittedIsBook /\ CallersPlace)'
    BY <1>1, <1>3, <1>5 DEF CommittedIsBook, CallersPlace
  <1>11. (LevelInReach /\ BetweenCalls /\ StillThere /\ TakenOut /\ AmendTraded /\ AllDone)'
    BY <1>1 DEF LevelInReach, BetweenCalls, StillThere, TakenOut, AmendTraded, AllDone
  <1> QED
    BY <1>9, <1>10, <1>11 DEF Observed

\* cancel and replaceOrder.
LEMMA StartUnlinkObserved ==
    ASSUME Consistent, SoundBook, Observed, NEW id \in Live, pc = "idle",
           NEW c, c.id = id, c.side = orders[id].side, c.name \in {"cancel", "replaceOrder"},
           StartUnlink(c), TapeStep, ReturnStep
    PROVE  Observed'
  <1>1. pc' = "unlink" /\ call' = c /\ Levels' = Levels
    BY LevelsStand DEF StartUnlink
  <1>2. committed' = committed /\ tape' = tape /\ committed = Levels /\ tape = <<>>
    BY <1>1 DEF TapeStep, ReturnStep, Observed, BetweenCalls
  <1>3. ~ Detached(id)
    BY <1>1 DEF Detached
  <1>4. WasThere(committed', call')
    BY <1>1, <1>2, <1>3, LiveIsThere DEF WasThere
  <1>5. (CommittedIsBook /\ CallersPlace /\ StillThere)'
    BY <1>1, <1>2, <1>4 DEF Observed, CommittedIsBook, CallersPlace, StillThere
  <1>6. (LevelInReach /\ BetweenCalls /\ MatchedSoFar /\ TakenOut /\ AmendTraded /\ AllDone)'
    BY <1>1 DEF LevelInReach, BetweenCalls, MatchedSoFar, TakenOut, AmendTraded, AllDone, Matching
  <1> QED
    BY <1>5, <1>6 DEF Observed

\* A call is refused.
LEMMA RefuseObserved ==
    ASSUME Observed, Refuse, TapeStep, ReturnStep
    PROVE  Observed'
  <1>1. pc = "idle" /\ pc' = "idle" /\ call' = call /\ Levels' = Levels
    BY LevelsStand DEF Refuse
  <1>2. committed' = committed /\ tape' = <<>> /\ committed = Levels
    BY <1>1 DEF TapeStep, ReturnStep, Observed, BetweenCalls
  <1>3. (CommittedIsBook /\ CallersPlace /\ BetweenCalls)'
    BY <1>1, <1>2 DEF Observed, CommittedIsBook, CallersPlace, BetweenCalls
  <1>4. (LevelInReach /\ StillThere /\ MatchedSoFar /\ TakenOut /\ AmendTraded /\ AllDone)'
    BY <1>1 DEF LevelInReach, StillThere, MatchedSoFar, TakenOut, AmendTraded, AllDone, Matching
  <1> QED
    BY <1>3, <1>4 DEF Observed

\* Every request.
LEMMA RequestObserved ==
    ASSUME Consistent, SoundBook, Observed, Request, TapeStep, ReturnStep
    PROVE  Observed'
  <1>1. ASSUME NEW id \in OrderIDs, NEW s \in Side, NEW p \in Prices, NEW q \in Quantities,
               NewOrder(id, s, p, q)
        PROVE  Observed'
    BY <1>1, NewOrderObserved
  <1>2. ASSUME NEW id \in OrderIDs, NEW p \in Prices, NEW q \in Quantities, Amend(id, p, q)
        PROVE  Observed'
    BY <1>2, AmendObserved DEF Quantities
  <1>3. ASSUME NEW id \in OrderIDs, NEW q \in Quantities, AmendDelta(id, q)
        PROVE  Observed'
    <2>1. id \in Live
      BY <1>3 DEF AmendDelta, Amend
    <2>2. ReducedBy(id, q) \in Nat
      BY <2>1 DEF ReducedBy, Consistent, TypeOK, Order, Quantities
    <2> QED
      BY <1>3, <2>2, AmendObserved DEF AmendDelta
  <1>4. ASSUME NEW id \in OrderIDs, Cancel(id) PROVE Observed'
    <2> DEFINE c == [name |-> "cancel", id |-> id, side |-> orders[id].side,
                     price |-> 0, quantity |-> 0]
    <2>1. /\ pc = "idle" /\ id \in Live /\ StartUnlink(c)
          /\ c.id = id /\ c.side = orders[id].side /\ c.name \in {"cancel", "replaceOrder"}
      BY <1>4 DEF Cancel
    <2> HIDE DEF c
    <2> QED
      BY <2>1, StartUnlinkObserved
  <1>5. ASSUME NEW id \in OrderIDs, NEW p \in Prices, NEW q \in Quantities,
               ReplaceOrder(id, p, q)
        PROVE  Observed'
    <2> DEFINE c == [name |-> "replaceOrder", id |-> id,
                     side |-> orders[id].side, price |-> p, quantity |-> q]
    <2>1. /\ pc = "idle" /\ id \in Live /\ StartUnlink(c)
          /\ c.id = id /\ c.side = orders[id].side /\ c.name \in {"cancel", "replaceOrder"}
      BY <1>5 DEF ReplaceOrder
    <2> HIDE DEF c
    <2> QED
      BY <2>1, StartUnlinkObserved
  <1>6. ASSUME Refuse PROVE Observed'
    BY <1>6, RefuseObserved
  <1> QED
    BY <1>1, <1>2, <1>3, <1>4, <1>5, <1>6
    DEF Request, RefuseDuplicate, RefuseUnknown, RefuseSide

-----------------------------------------------------------------------------
(* What a step leaves alone.                                               *)

\* Order x is on no level of side s.
NotLinked(s, x) == \A r \in Prices : \A i \in DOMAIN queue[s][r] : queue[s][r][i] # x

\* The step keeps every live order other than x.
OthersKept(x) == \A i \in Live \ {x} : orders'[i] = orders[i]

\* Who is linked is live, of this side, and not detached.
LEMMA LinkedOrders ==
    ASSUME Consistent, NEW s \in Side, NEW r \in Prices, NEW i \in DOMAIN queue[s][r]
    PROVE  /\ queue[s][r][i] \in Live /\ ~ Detached(queue[s][r][i])
           /\ orders[queue[s][r][i]].side = s /\ orders[queue[s][r][i]].price = r
  <1>1. queue[s][r][i] \in Range(queue[s][r])
    BY DEF Range
  <1> QED
    BY <1>1 DEF Consistent, RegistryMatchesLevels, LinksAreLive

\* Neither of them is an order that is not linked.
LEMMA NotLinkedOrders ==
    ASSUME Consistent, NEW s \in Side, NEW x
    PROVE  /\ Detached(x) => NotLinked(s, x)
           /\ x \notin Live => NotLinked(s, x)
           /\ orders[x].side # s => NotLinked(s, x)
  BY LinkedOrders DEF NotLinked

\* A step that keeps a side's queues and its linked orders keeps its list.
LEMMA SideUntouched ==
    ASSUME Consistent, SoundBook, NEW s \in Side, NEW x,
           queue'[s] = queue[s], NotLinked(s, x), OthersKept(x)
    PROVE  Levels'[s] = Levels[s]
  <1>1. \A r \in Prices : \A i \in DOMAIN queue[s][r] :
           orders'[queue[s][r][i]] = orders[queue[s][r][i]]
    BY LinkedOrders DEF NotLinked, OthersKept
  <1>2. Sound(s, orders, queue[s])
    BY DEF SoundBook
  <1>3. Joined(s, orders', queue[s]) = Joined(s, orders, queue[s])
    <2> DEFINE o == orders
               o2 == orders'
               qs == queue[s]
    <2>1. Sound(s, o, qs) /\ \A r \in Prices : \A i \in DOMAIN qs[r] : o2[qs[r][i]] = o[qs[r][i]]
      BY <1>1, <1>2
    <2> HIDE DEF o, o2, qs
    <2>2. Joined(s, o2, qs) = Joined(s, o, qs)
      BY <2>1, JoinedUntouched
    <2> QED
      BY <2>2 DEF o, o2, qs
  <1> QED
    BY <1>3, LevelsAre

\* A step that keeps the queues and all but a detached order keeps both lists.
LEMMA LevelsUntouched ==
    ASSUME Consistent, SoundBook, NEW x, queue' = queue,
           \A s \in Side : NotLinked(s, x), OthersKept(x)
    PROVE  Levels' = Levels
  <1>1. \A s \in Side : Levels'[s] = Levels[s]
    BY SideUntouched
  <1> QED
    BY <1>1, LevelsAre

-----------------------------------------------------------------------------
(* The match.                                                              *)

\* The call and its sides while it runs.
LEMMA RunningCall ==
    ASSUME Consistent, pc # "idle"
    PROVE  /\ call \in Call /\ call.side \in Side /\ call.price \in Prices
           /\ call.quantity \in Quantities /\ call.quantity \in Nat /\ call.id \in OrderIDs
           /\ call.name \in CallNames
           /\ Opposite(call.side) \in Side /\ Opposite(call.side) # call.side
           /\ remaining \in Nat /\ remaining \in Quantities
  <1>1. call \in Call
    BY DEF Consistent, TypeOK
  <1> QED
    BY <1>1, OppositeSide DEF Call, Quantities, Consistent, TypeOK

\* matchPrice is at the best level of the other side.
LEMMA AtBestLevel ==
    ASSUME Consistent, pc \in {"fill", "filled", "levelMatched"}
    PROVE  /\ level \in Prices
           /\ BestLevel(Opposite(call.side), queue[Opposite(call.side)], level)
  <1> DEFINE s == Opposite(call.side)
  <1>1. s \in Side /\ listed[s] \in SUBSET Prices
    BY RunningCall DEF Consistent, TypeOK
  <1>2. level \in listed[s] /\ level = FirstOf(s, listed[s])
    BY DEF Consistent, InFlight, IteratorAtFirst, Begin
  <1>3. \A r \in listed[s] : ~ Ahead(s, r, level)
    BY <1>1, <1>2, FirstOfProperties
  <1>4. \A r \in Prices : r \notin listed[s] => queue[s][r] = <<>>
    BY <1>1 DEF Consistent, EmptyLevelsArePassing
  <1> QED
    BY <1>1, <1>2, <1>3, <1>4 DEF BestLevel

\* When the match is over nothing that is left meets the other side.
LEMMA MatchIsOver ==
    ASSUME Consistent, SoundBook, Observed, pc = "match", ~ CanMatch
    PROVE  AllTraded(committed, call, Levels, tape, remaining)
  <1> DEFINE s == Opposite(call.side)
             c == BaseOf(committed, call)[s]
  <1>1. IsList(s, c) /\ s \in Side /\ call.price \in Prices /\ call.quantity \in Nat /\ remaining \in Nat
    BY RunningCall DEF Observed, MatchedSoFar, PartlyDone, Matching
  <1>2. PICK n, part :
           /\ Progress(s, c, call.price, call.quantity, n, part, remaining)
           /\ Levels[s] = Eaten(c, n, part)
           /\ tape = Eating(c, n, part)
    BY DEF Observed, MatchedSoFar, PartlyDone, Matching
  <1> HIDE DEF c
  <1>3. ASSUME remaining > 0, n < Len(c)
        PROVE  Ahead(s, call.price, c[n + 1].price)
    <2>1. n \in 0 .. Len(c) /\ part = 0 /\ Len(c) \in Nat /\ n + 1 \in 1 .. Len(c)
      <3>1. n \in 0 .. Len(c) /\ part \in Nat /\ Len(c) \in Nat
        BY <1>1, <1>2, ListOrders DEF Progress
      <3>2. part = 0
        BY <1>2, <1>3, <3>1 DEF Progress
      <3> QED
        BY <1>3, <3>1, <3>2
    <2>2. c[n + 1] \in Entry
      BY <1>1, <2>1, ListOrders
    <2>3. Levels[s][1] = c[n + 1] /\ 1 \in 1 .. Len(Levels[s])
      <3>1. [c[n + 1] EXCEPT !.quantity = @ - 0] = c[n + 1]
        BY <2>2 DEF Entry, Quantities
      <3>2. Eaten(c, n, 0)[1] = c[n + 1] /\ DOMAIN Eaten(c, n, 0) = 1 .. Len(c) - n
        BY <1>3, <2>1, <3>1 DEF Eaten
      <3>3. Levels[s] = Eaten(c, n, 0)
        BY <1>2, <2>1
      <3>4. IsBook(Levels)
        BY LevelsAreBook
      <3>5. DOMAIN Levels[s] = 1 .. Len(Levels[s])
        BY <1>1, <3>4, ListOrders DEF IsBook
      <3>6. 1 \in 1 .. Len(c) - n
        BY <1>3, <2>1
      <3> QED
        BY <3>2, <3>3, <3>5, <3>6
    <2>4. Sound(s, orders, queue[s]) /\ Levels[s] = Joined(s, orders, queue[s])
      BY <1>1, LevelsAre DEF SoundBook
    <2>5. PICK r \in Prices : OnLevel(Levels[s][1], orders, queue[s], r)
      BY <1>1, <2>3, <2>4, JoinedElements
    <2>6. Levels[s][1].price = r /\ queue[s][r] # <<>>
      <3>1. Levels[s][1].price = r
        BY <1>1, <2>4, <2>5, LevelEntry
      <3>2. queue[s][r] # <<>>
        BY <2>5 DEF OnLevel
      <3> QED
        BY <3>1, <3>2
    <2>7. r \in listed[s]
      BY <1>1, <2>6 DEF Consistent, EmptyLevelsArePassing
    <2> QED
      BY <1>3, <2>3, <2>6, <2>7, MatchOverApart
  <1>4. /\ Engine!TradesOf(s, c, call.price, call.quantity) = Eating(c, n, part)
        /\ Engine!StayOf(s, c, call.price, call.quantity) = Eaten(c, n, part)
        /\ Engine!RestOf(s, c, call.price, call.quantity) = remaining
    BY <1>1, <1>2, <1>3, ProgressIsOutcome
  <1> QED
    BY <1>2, <1>4 DEF AllTraded, c

-----------------------------------------------------------------------------
(* One iteration of the match.                                             *)

\* The first order of a queue is found at the first place.
LEMMA FirstUnlinked ==
    ASSUME NEW S, NEW q \in Seq(S), q # <<>>, IsInjective(q)
    PROVE  Unlinked(q, q[1]) = RemoveAt(q, 1)
  <1>1. 1 \in 1 .. Len(q) /\ DOMAIN q = 1 .. Len(q)
    OBVIOUS
  <1>2. \A i \in 1 .. Len(q) : q[i] = q[1] => i = 1
    BY <1>1 DEF IsInjective
  <1>3. (CHOOSE i \in 1 .. Len(q) : q[i] = q[1]) = 1
    BY <1>1, <1>2
  <1> QED
    BY <1>3 DEF Unlinked

\* What one iteration of matchAgainst does to the list of the other side.
LEMMA FillTakesFirst ==
    ASSUME Consistent, SoundBook, SoundBook', Fill
    PROVE  LET s == Opposite(call.side)
               x == EntryOf(orders, Resting)
           IN  /\ Len(Levels[s]) > 0 /\ Levels[s][1] = x
               /\ x.price = level /\ x.id = Resting /\ x.quantity = orders[Resting].quantity
               /\ x.quantity \in Nat /\ x.quantity > 0 /\ x.price = orders[Resting].price
               /\ Delta = x.quantity => Levels'[s] = Tail(Levels[s])
               /\ Delta # x.quantity =>
                     Levels'[s] = [Levels[s] EXCEPT ![1].quantity = @ - Delta]
               /\ Levels'[call.side] = Levels[call.side]
  <1> DEFINE s == Opposite(call.side)
             id == Resting
             o == orders
             o2 == orders'
             qs == queue[s]
             qs2 == queue'[s]
             x == EntryOf(o, id)
             left == orders[id].quantity - Delta
             p == level
  <1>1. /\ s \in Side /\ p \in Prices /\ call.side \in Side /\ call.side # s
        /\ BestLevel(s, qs, p) /\ pc = "fill"
    BY AtBestLevel, RunningCall DEF Fill
  <1>2. Sound(s, o, qs) /\ Sound(s, o2, qs2) /\ qs[p] # <<>> /\ id = qs[p][1]
    BY <1>1 DEF SoundBook, Fill, Resting
  <1>3. /\ orders' = [orders EXCEPT ![id].quantity = left]
        /\ queue' = IF left = 0 THEN [queue EXCEPT ![s][p] = Unlinked(@, id)] ELSE queue
    BY DEF Fill
  <1>4. /\ id \in Live /\ orders[id] \in Order /\ orders[id].side = s /\ Delta \in Quantities
        /\ queue \in [Side -> [Prices -> Seq(OrderIDs)]]
    BY RestingOrder DEF Consistent, TypeOK
  <1>5. /\ o2[id] = [o[id] EXCEPT !.quantity = left]
        /\ \A i \in Live \ {id} : o2[i] = o[i]
    BY <1>3, <1>4 DEF Live
  <1>6. OthersStay(o, qs, o2, p)
    <2>1. ASSUME NEW r \in Prices, NEW i \in DOMAIN qs[r], r # p \/ i # 1
          PROVE  o2[qs[r][i]] = o[qs[r][i]]
      <3>1. qs[r][i] \in Live /\ orders[qs[r][i]].price = r
        BY <1>1, LinkedOrders
      <3>2. qs[r][i] # id
        <4>1. CASE r # p
          <5>1. orders[id].price = p
            BY RestingOrder
          <5> QED
            BY <3>1, <4>1, <5>1
        <4>2. CASE r = p
          <5>1. IsInjective(qs[p]) /\ 1 \in DOMAIN qs[p]
            <6>1. qs[p] \in Seq(OrderIDs)
              BY <1>1, <1>2, QueuesTyped
            <6> QED
              BY <1>1, <1>2, <6>1 DEF Sound
          <5> QED
            BY <1>2, <2>1, <4>2, <5>1 DEF IsInjective
        <4> QED
          BY <4>1, <4>2
      <3> QED
        BY <1>5, <3>1, <3>2
    <2> QED
      BY <2>1 DEF OthersStay
  <1>7. /\ Levels[s] = Joined(s, o, qs) /\ Levels'[s] = Joined(s, o2, qs2)
    BY <1>1, LevelsAre
  <1>8. Levels'[call.side] = Levels[call.side]
    <2>1. NotLinked(call.side, id)
      BY <1>1, <1>4, NotLinkedOrders
    <2>2. queue'[call.side] = queue[call.side]
      BY <1>1, <1>3, <1>4
    <2>3. OthersKept(id)
      BY <1>5 DEF OthersKept
    <2> QED
      BY <1>1, <2>1, <2>2, <2>3, SideUntouched
  <1>9. left = 0 => qs2 = [qs EXCEPT ![p] = RemoveAt(@, 1)]
    <2>1. qs[p] \in Seq(OrderIDs) /\ IsInjective(qs[p])
      BY <1>1, <1>2 DEF Sound
    <2>2. Unlinked(qs[p], id) = RemoveAt(qs[p], 1)
      BY <1>2, <2>1, FirstUnlinked
    <2> QED
      BY <1>1, <1>3, <1>4, <2>2
  <1>10. left # 0 => qs2 = qs
    BY <1>3
  <1>11. /\ x.price = o[id].price /\ x.id = id /\ x.quantity = o[id].quantity
    BY DEF EntryOf
  <1>12. left # 0 => EntryOf(o2, id) = Reduced(x, Delta)
    BY <1>4, <1>5 DEF EntryOf, Reduced, Order
  <1>13. left = 0 <=> Delta = o[id].quantity
    BY <1>4 DEF Order, Quantities
  <1> HIDE DEF o, o2, qs, qs2, s, id, left, p
  <1>14. /\ Len(Joined(s, o, qs)) > 0 /\ Joined(s, o, qs)[1] = x
         /\ o[id].price = p /\ o[id].quantity \in Quantities /\ o[id].quantity > 0
    BY <1>1, <1>2, FirstEntry
  <1>15. ASSUME left = 0 PROVE Joined(s, o2, qs2) = Tail(Joined(s, o, qs))
    <2>1. LeavesLevel(qs, qs2, p, 1)
      BY <1>9, <1>15 DEF LeavesLevel
    <2> QED
      BY <1>1, <1>2, <1>6, <2>1, FirstFilled
  <1>16. ASSUME left # 0
         PROVE  Joined(s, o2, qs2) = [Joined(s, o, qs) EXCEPT ![1].quantity = @ - Delta]
    <2>1. Sound(s, o2, qs) /\ qs2 = qs /\ EntryOf(o2, qs[p][1]) = Reduced(EntryOf(o, qs[p][1]), Delta)
      BY <1>2, <1>10, <1>12, <1>16
    <2> QED
      BY <1>1, <1>2, <1>6, <2>1, FirstPartly
  <1>17. o[id].quantity \in Nat
    BY <1>14 DEF Quantities
  <1> QED
    BY <1>7, <1>8, <1>11, <1>13, <1>14, <1>15, <1>16, <1>17 DEF o, o2, qs, qs2, s, id, p

\* What a fill puts on the tape.
LEMMA FillIsOnTape ==
    ASSUME Consistent, Fill, TapeStep
    PROVE  tape' = Append(tape, Engine!TradeWith(EntryOf(orders, Resting), Delta))
  <1>1. /\ pc' = "filled" /\ event'.id = Resting /\ event'.price = orders[Resting].price
        /\ event'.quantity = Delta
        /\ event'.fill = IF orders[Resting].quantity - Delta = 0 THEN "Full" ELSE "Partial"
    BY DEF Fill
  <1>2. tape' = Append(tape, [id |-> event'.id, price |-> event'.price,
                              quantity |-> event'.quantity, fill |-> event'.fill])
    BY <1>1 DEF TapeStep
  <1>3. orders[Resting].quantity - Delta = 0 <=> Delta = orders[Resting].quantity
    BY RestingOrder DEF Order, Quantities
  <1> QED
    BY <1>1, <1>2, <1>3 DEF Engine!TradeWith, EntryOf

\* One iteration of matchAgainst.
LEMMA FillObserved ==
    ASSUME Consistent, SoundBook, SoundBook', Observed, Fill, TapeStep, ReturnStep
    PROVE  Observed'
  <1> DEFINE s == Opposite(call.side)
             c == BaseOf(committed, call)[s]
             x == EntryOf(orders, Resting)
             q == call.quantity
             limit == call.price
  <1>1. /\ pc = "fill" /\ pc' = "filled" /\ UNCHANGED <<call, level>> /\ remaining > 0
        /\ remaining' = remaining - Delta
    BY DEF Fill
  <1>2. /\ committed' = committed
        /\ tape' = Append(tape, Engine!TradeWith(x, Delta))
    BY <1>1, FillIsOnTape DEF ReturnStep
  <1>3. /\ IsList(s, c) /\ s \in Side /\ limit \in Prices /\ q \in Nat
        /\ remaining \in Nat
    BY <1>1, RunningCall DEF Observed, MatchedSoFar, PartlyDone, Matching
  <1>4. PICK n, part :
           /\ Progress(s, c, limit, q, n, part, remaining)
           /\ Levels[s] = Eaten(c, n, part)
           /\ tape = Eating(c, n, part)
    BY <1>1 DEF Observed, MatchedSoFar, PartlyDone, Matching
  <1>5. /\ Len(Levels[s]) > 0 /\ Levels[s][1] = x /\ x.price = level
        /\ x.quantity \in Nat /\ x.quantity > 0 /\ x.quantity = orders[Resting].quantity
        /\ Delta = x.quantity => Levels'[s] = Tail(Levels[s])
        /\ Delta # x.quantity => Levels'[s] = [Levels[s] EXCEPT ![1].quantity = @ - Delta]
        /\ Levels'[call.side] = Levels[call.side]
    BY FillTakesFirst
  <1>6. ~ Ahead(s, limit, x.price)
    BY <1>1, <1>5 DEF Observed, LevelInReach
  <1>7. Delta = IF x.quantity < remaining THEN x.quantity ELSE remaining
    BY <1>5 DEF Delta
  <1>8. DOMAIN Levels[s] = 1 .. Len(Levels[s]) /\ Len(Levels[s]) \in Nat
    BY <1>3, LevelsAreBook, ListOrders DEF IsBook
  <1> HIDE DEF s, c, x, q, limit
  <1>9. n \in 0 .. Len(c) /\ part = 0 /\ Len(c) \in Nat /\ c \in Seq(Entry)
    <2>1. n \in 0 .. Len(c) /\ part \in Nat /\ Len(c) \in Nat /\ c \in Seq(Entry)
      BY <1>3, <1>4, ListOrders DEF Progress
    <2> QED
      BY <1>1, <1>4, <2>1 DEF Progress
  <1>10. n < Len(c) /\ c[n + 1] = x
    <2>1. DOMAIN Levels[s] = 1 .. Len(c) - n /\ 1 \in DOMAIN Levels[s]
      <3>1. DOMAIN Eaten(c, n, part) = 1 .. Len(c) - n
        BY DEF Eaten
      <3>2. 1 \in 1 .. Len(Levels[s])
        BY <1>5, <1>8
      <3> QED
        BY <1>4, <1>8, <3>1, <3>2
    <2>2. n < Len(c)
      BY <1>9, <2>1
    <2>3. c[n + 1] \in Entry
      BY <1>9, <2>2
    <2>4. [c[n + 1] EXCEPT !.quantity = @ - 0] = c[n + 1]
      BY <2>3 DEF Entry, Quantities
    <2>5. Levels[s] = Eaten(c, n, 0)
      BY <1>4, <1>9
    <2>6. Eaten(c, n, 0)[1] = c[n + 1]
      BY <1>9, <2>2, <2>4 DEF Eaten
    <2> QED
      BY <1>5, <2>2, <2>5, <2>6
  <1>11. \E n2, part2 :
            /\ Progress(s, c, limit, q, n2, part2, remaining')
            /\ Levels'[s] = Eaten(c, n2, part2)
            /\ tape' = Eating(c, n2, part2)
    <2>1. CASE x.quantity <= remaining
      <3>1. Delta = x.quantity
        BY <1>3, <1>5, <1>7, <2>1
      <3>2. Progress(s, c, limit, q, n, 0, remaining)
        BY <1>4, <1>9
      <3>3. /\ Progress(s, c, limit, q, n + 1, 0, remaining - c[n + 1].quantity)
            /\ Eating(c, n + 1, 0)
                 = Append(Eating(c, n, 0), Engine!TradeWith(c[n + 1], c[n + 1].quantity))
            /\ Eaten(c, n + 1, 0) = Tail(Eaten(c, n, 0))
        BY <1>3, <1>6, <1>10, <2>1, <3>2, ProgressFills
      <3>4. Levels'[s] = Eaten(c, n + 1, 0) /\ tape' = Eating(c, n + 1, 0)
        BY <1>2, <1>4, <1>5, <1>9, <1>10, <3>1, <3>3
      <3>5. Progress(s, c, limit, q, n + 1, 0, remaining')
        BY <1>1, <1>10, <3>1, <3>3
      <3> QED
        BY <3>4, <3>5
    <2>2. CASE ~ (x.quantity <= remaining)
      <3>1. Delta = remaining /\ Delta # x.quantity /\ remaining' = 0 /\ remaining < x.quantity
        BY <1>1, <1>3, <1>5, <1>7, <2>2
      <3>2. Progress(s, c, limit, q, n, 0, remaining)
        BY <1>4, <1>9
      <3>3. /\ Progress(s, c, limit, q, n, remaining, 0)
            /\ Eating(c, n, remaining)
                 = Append(Eating(c, n, 0), Engine!TradeWith(c[n + 1], remaining))
            /\ Eaten(c, n, remaining) = [Eaten(c, n, 0) EXCEPT ![1].quantity = @ - remaining]
        BY <1>1, <1>3, <1>6, <1>10, <3>1, <3>2, ProgressEnds
      <3>4. Levels'[s] = Eaten(c, n, remaining) /\ tape' = Eating(c, n, remaining)
        BY <1>2, <1>4, <1>5, <1>9, <1>10, <3>1, <3>3
      <3> QED
        BY <3>1, <3>3, <3>4
    <2> QED
      BY <2>1, <2>2
  <1>12. PartlyDone(committed', call', Levels', tape', remaining')
    BY <1>1, <1>2, <1>3, <1>11 DEF PartlyDone, s, c, q, limit
  <1>13. MatchedSoFar'
    BY <1>1, <1>2, <1>5, <1>12 DEF Observed, MatchedSoFar, Matching
  <1>14. (CommittedIsBook /\ CallersPlace /\ LevelInReach)'
    BY <1>1, <1>2 DEF Observed, CommittedIsBook, CallersPlace, LevelInReach
  <1>15. (BetweenCalls /\ StillThere /\ TakenOut /\ AmendTraded /\ AllDone)'
    BY <1>1 DEF BetweenCalls, StillThere, TakenOut, AmendTraded, AllDone
  <1> QED
    BY <1>13, <1>14, <1>15 DEF Observed

\* The end of on_filled, which destroys a filled order that is already unlinked.
LEMMA OnFilledObserved ==
    ASSUME Consistent, SoundBook, Observed, OnFilled, TapeStep, ReturnStep
    PROVE  Observed'
  <1>1. /\ pc = "filled" /\ pc' = "fill" /\ UNCHANGED <<call, level, remaining, queue>>
        /\ IF event.fill = "Full" THEN Erase(event.id) ELSE UNCHANGED orders
    BY DEF OnFilled
  <1>2. committed' = committed /\ tape' = tape
    BY <1>1 DEF TapeStep, ReturnStep
  <1>3. Levels' = Levels
    <2>1. CASE event.fill = "Full"
      <3>1. OthersKept(event.id)
        BY <1>1, <2>1 DEF OthersKept, Erase
      <3>2. Detached(event.id)
        BY <1>1, <2>1 DEF Detached
      <3> QED
        BY <1>1, <3>1, <3>2, NotLinkedOrders, LevelsUntouched
    <2>2. CASE event.fill # "Full"
      BY <1>1, <2>2, LevelsStand
    <2> QED
      BY <2>1, <2>2
  <1>4. MatchedSoFar'
    BY <1>1, <1>2, <1>3 DEF Observed, MatchedSoFar, Matching
  <1>5. (CommittedIsBook /\ CallersPlace /\ LevelInReach)'
    BY <1>1, <1>2 DEF Observed, CommittedIsBook, CallersPlace, LevelInReach
  <1>6. (BetweenCalls /\ StillThere /\ TakenOut /\ AmendTraded /\ AllDone)'
    BY <1>1 DEF BetweenCalls, StillThere, TakenOut, AmendTraded, AllDone
  <1> QED
    BY <1>4, <1>5, <1>6 DEF Observed

-----------------------------------------------------------------------------
(* What follows the match.                                                 *)

\* The lists after a step.
LEMMA LevelsAreBookNext ==
    ASSUME SoundBook'
    PROVE  IsBook(Levels')
  <1>1. \A s \in Side : IsList(s, Levels'[s])
    BY LevelsAre, JoinedIsList DEF SoundBook
  <1> QED
    BY <1>1, LevelsAre DEF IsBook

\* The order the rules make of what is left.
RestOrder(c, left) == [id |-> c.id, price |-> c.price, quantity |-> left]

\* The outcome of the rules, side by side.
LEMMA OutcomeReached ==
    ASSUME NEW b, NEW c, c.side \in Side, NEW L, NEW t, NEW left,
           AllTraded(b, c, L, t, left), L = [s \in Side |-> L[s]],
           L[c.side] = Engine!Join(c.side, BaseOf(b, c)[c.side], RestOrder(c, left))
    PROVE  L = OutcomeOf(b, c).book /\ t = OutcomeOf(b, c).trades
  <1> DEFINE s == c.side
             opp == Opposite(s)
             base == BaseOf(b, c)
             rest == Engine!RestOf(opp, base[opp], c.price, c.quantity)
             book == OutcomeOf(b, c).book
  <1>1. opp = Engine!Opposite(s) /\ opp # s /\ opp \in Side
    BY OppositeSide
  <1>2. base = [r \in Side |-> base[r]]
    BY SameSides DEF BaseOf, Engine!Removed
  <1>3. /\ L[opp] = Engine!StayOf(opp, base[opp], c.price, c.quantity)
        /\ t = Engine!TradesOf(opp, base[opp], c.price, c.quantity)
        /\ left = rest
    BY DEF AllTraded
  <1>4. /\ book = [base EXCEPT ![s] = Engine!Join(s, @, [id |-> c.id, price |-> c.price, quantity |-> rest]),
                              ![opp] = Engine!StayOf(opp, @, c.price, c.quantity)]
        /\ OutcomeOf(b, c).trades = Engine!TradesOf(opp, base[opp], c.price, c.quantity)
    BY <1>1 DEF OutcomeOf, Engine!Executed
  <1>5. [id |-> c.id, price |-> c.price, quantity |-> rest] = RestOrder(c, left)
    BY <1>3 DEF RestOrder
  <1> HIDE DEF base, rest, book, opp
  <1>6. /\ book = [r \in Side |-> book[r]]
        /\ book[opp] = Engine!StayOf(opp, base[opp], c.price, c.quantity)
        /\ book[s] = Engine!Join(s, base[s], RestOrder(c, left))
    BY <1>1, <1>2, <1>4, <1>5
  <1>7. \A r \in Side : L[r] = book[r]
    BY <1>3, <1>6, OppositeSide DEF opp, base
  <1>8. L = book
    BY <1>6, <1>7
  <1> QED
    BY <1>3, <1>4, <1>8 DEF book

\* An order with nothing left joins nowhere.
LEMMA JoinNothing ==
    ASSUME NEW s, NEW l, NEW c PROVE Engine!Join(s, l, RestOrder(c, 0)) = l
  BY DEF Engine!Join, RestOrder

\* insertOrder of the caller's order.
LEMMA InsertJoins ==
    ASSUME Consistent, SoundBook, SoundBook', pc # "idle",
           \A s \in Side : NotLinked(s, call.id), OthersKept(call.id),
           Insert(call.side, call.price, call.id, remaining),
           orders'[call.id].price = call.price, orders'[call.id].quantity = remaining
    PROVE  /\ Levels'[call.side]
                = Engine!Join(call.side, Levels[call.side], RestOrder(call, remaining))
           /\ Levels'[Opposite(call.side)] = Levels[Opposite(call.side)]
  <1> DEFINE s == call.side
             p == call.price
             id == call.id
             o == orders
             o2 == orders'
             qs == queue[s]
             qs2 == queue'[s]
  <1>1. /\ s \in Side /\ p \in Prices /\ id \in OrderIDs
        /\ Opposite(s) \in Side /\ Opposite(s) # s
        /\ queue \in [Side -> [Prices -> Seq(OrderIDs)]]
    BY RunningCall DEF Consistent, TypeOK
  <1>2. queue' = [queue EXCEPT ![s][p] = Append(queue[s][p], id)]
    BY DEF Insert
  <1>3. qs2 = [qs EXCEPT ![p] = Append(@, id)] /\ queue'[Opposite(s)] = queue[Opposite(s)]
    BY <1>1, <1>2
  <1>4. \A r \in Prices : \A i \in DOMAIN qs[r] : o2[qs[r][i]] = o[qs[r][i]]
    BY <1>1, LinkedOrders DEF NotLinked, OthersKept
  <1>5. EntryOf(o2, id) = RestOrder(call, remaining)
    BY DEF EntryOf, RestOrder
  <1>6. Levels'[Opposite(s)] = Levels[Opposite(s)]
    BY <1>1, <1>3, SideUntouched
  <1>7. /\ Levels[s] = Joined(s, o, qs) /\ Levels'[s] = Joined(s, o2, qs2)
        /\ Sound(s, o, qs) /\ Sound(s, o2, qs2)
    BY <1>1, LevelsAre DEF SoundBook
  <1> HIDE DEF s, p, id, o, o2, qs, qs2
  <1>8. JoinsLevel(o, qs, o2, qs2, p, id)
    BY <1>3, <1>4 DEF JoinsLevel
  <1>9. Joined(s, o2, qs2) = Engine!Join(s, Joined(s, o, qs), EntryOf(o2, id))
    BY <1>1, <1>7, <1>8, JoinedAppended
  <1> QED
    BY <1>5, <1>6, <1>7, <1>9 DEF s

\* emplaceOrder: what is left joins the book.
LEMMA RestObserved ==
    ASSUME Consistent, SoundBook, SoundBook', Observed, Rest, TapeStep, ReturnStep
    PROVE  Observed'
  <1>1. /\ pc = "match" /\ ~ CanMatch /\ call.name = "newOrder" /\ pc' = "rested"
        /\ UNCHANGED <<call, remaining>>
        /\ Insert(call.side, call.price, call.id, remaining)
        /\ Create(call.id, [side |-> call.side, price |-> call.price, quantity |-> remaining])
    BY DEF Rest, MatchOver
  <1>2. committed' = committed /\ tape' = tape
    BY <1>1 DEF TapeStep, ReturnStep
  <1>3. call.id \notin Live /\ call.side \in Side
    BY <1>1, RunningCall DEF Consistent, InFlight, CallersOrder, Matching
  <1>4. /\ OthersKept(call.id) /\ orders'[call.id].price = call.price
        /\ orders'[call.id].quantity = remaining
    BY <1>1, <1>3 DEF OthersKept, Create
  <1>5. \A s \in Side : NotLinked(s, call.id)
    BY <1>3, NotLinkedOrders
  <1>6. /\ Levels'[call.side]
             = Engine!Join(call.side, Levels[call.side], RestOrder(call, remaining))
        /\ Levels'[Opposite(call.side)] = Levels[Opposite(call.side)]
    BY <1>1, <1>4, <1>5, InsertJoins
  <1>7. AllTraded(committed, call, Levels', tape, remaining)
    BY <1>1, <1>6, MatchIsOver DEF AllTraded
  <1>8. Levels[call.side] = BaseOf(committed, call)[call.side]
    BY <1>1 DEF Observed, MatchedSoFar, Matching
  <1>9. Levels' = OutcomeOf(committed, call).book /\ tape = OutcomeOf(committed, call).trades
    BY <1>3, <1>6, <1>7, <1>8, LevelsAre, OutcomeReached
  <1>10. AllDone'
    BY <1>1, <1>2, <1>9 DEF AllDone
  <1>11. (CommittedIsBook /\ CallersPlace)'
    BY <1>1, <1>2 DEF Observed, CommittedIsBook, CallersPlace
  <1>12. (LevelInReach /\ BetweenCalls /\ StillThere /\ MatchedSoFar /\ TakenOut /\ AmendTraded)'
    BY <1>1 DEF LevelInReach, BetweenCalls, StillThere, MatchedSoFar, TakenOut, AmendTraded, Matching
  <1> QED
    BY <1>10, <1>11, <1>12 DEF Observed

\* The event after the match.
LEMMA NotifyObserved ==
    ASSUME Consistent, SoundBook, Observed, Notify, TapeStep, ReturnStep
    PROVE  Observed'
  <1>1. /\ pc' = "return" /\ UNCHANGED <<call, remaining>> /\ Levels' = Levels /\ pc # "idle"
        /\ \/ pc = "match" /\ ~ CanMatch /\ call.name = "newOrder" /\ remaining = 0
           \/ pc = "rested"
    BY LevelsStand DEF Notify, MatchOver
  <1>2. committed' = committed /\ tape' = tape
    BY <1>1 DEF TapeStep, ReturnStep
  <1>3. CASE pc = "rested"
    BY <1>1, <1>2, <1>3 DEF Observed, CommittedIsBook, CallersPlace, AllDone,
          LevelInReach, BetweenCalls, StillThere, MatchedSoFar, TakenOut, AmendTraded, Matching
  <1>4. CASE pc = "match"
    <2>1. ~ CanMatch /\ call.name = "newOrder" /\ remaining = 0 /\ call.side \in Side
      BY <1>1, <1>4, RunningCall
    <2>2. AllTraded(committed, call, Levels, tape, remaining)
      BY <1>4, <2>1, MatchIsOver
    <2>3. Levels[call.side] = BaseOf(committed, call)[call.side]
      BY <1>4, <2>1 DEF Observed, MatchedSoFar, Matching
    <2>4. Levels[call.side] = Engine!Join(call.side, BaseOf(committed, call)[call.side],
                                          RestOrder(call, remaining))
      BY <2>1, <2>3, JoinNothing
    <2>5. Levels = OutcomeOf(committed, call).book /\ tape = OutcomeOf(committed, call).trades
      BY <2>1, <2>2, <2>4, LevelsAre, OutcomeReached
    <2>6. AllDone'
      BY <1>1, <1>2, <2>1, <2>5 DEF AllDone
    <2>7. (CommittedIsBook /\ CallersPlace)'
      BY <1>1, <1>2 DEF Observed, CommittedIsBook, CallersPlace
    <2>8. (LevelInReach /\ BetweenCalls /\ StillThere /\ MatchedSoFar /\ TakenOut /\ AmendTraded)'
      BY <1>1 DEF LevelInReach, BetweenCalls, StillThere, MatchedSoFar, TakenOut, AmendTraded, Matching
    <2> QED
      BY <2>6, <2>7, <2>8 DEF Observed
  <1> QED
    BY <1>1, <1>3, <1>4

\* amend puts what is left of its order back.
LEMMA ReinsertObserved ==
    ASSUME Consistent, SoundBook, SoundBook', Observed, Reinsert, TapeStep, ReturnStep
    PROVE  Observed'
  <1>1. /\ pc = "reinsert" /\ pc' = "return" /\ UNCHANGED <<call, remaining>>
        /\ Insert(call.side, call.price, call.id, remaining)
        /\ orders' = [orders EXCEPT ![call.id] =
                         [side |-> @.side, price |-> call.price, quantity |-> remaining]]
    BY DEF Reinsert
  <1>2. committed' = committed /\ tape' = tape
    BY <1>1 DEF TapeStep, ReturnStep
  <1>3. /\ call.name = "amend" /\ call.side \in Side /\ call.id \in Live /\ Detached(call.id)
    BY <1>1, RunningCall DEF Consistent, InFlight, PlacesOfCalls, CallersOrder, Detached
  <1>4. /\ OthersKept(call.id) /\ orders'[call.id].price = call.price
        /\ orders'[call.id].quantity = remaining
    BY <1>1, <1>3 DEF OthersKept, Consistent, TypeOK
  <1>5. \A s \in Side : NotLinked(s, call.id)
    BY <1>3, NotLinkedOrders
  <1>6. /\ Levels'[call.side]
             = Engine!Join(call.side, Levels[call.side], RestOrder(call, remaining))
        /\ Levels'[Opposite(call.side)] = Levels[Opposite(call.side)]
    BY <1>1, <1>4, <1>5, InsertJoins
  <1>7. /\ AllTraded(committed, call, Levels', tape, remaining)
        /\ Levels[call.side] = BaseOf(committed, call)[call.side]
    BY <1>1, <1>3, <1>6 DEF Observed, AmendTraded, AllTraded
  <1>8. Levels' = OutcomeOf(committed, call).book /\ tape = OutcomeOf(committed, call).trades
    BY <1>3, <1>6, <1>7, LevelsAre, OutcomeReached
  <1>9. AllDone'
    BY <1>1, <1>2, <1>3, <1>8 DEF AllDone
  <1>10. (CommittedIsBook /\ CallersPlace)'
    BY <1>1, <1>2 DEF Observed, CommittedIsBook, CallersPlace
  <1>11. (LevelInReach /\ BetweenCalls /\ StillThere /\ MatchedSoFar /\ TakenOut /\ AmendTraded)'
    BY <1>1 DEF LevelInReach, BetweenCalls, StillThere, MatchedSoFar, TakenOut, AmendTraded, Matching
  <1> QED
    BY <1>9, <1>10, <1>11 DEF Observed

-----------------------------------------------------------------------------
(* The caller's order leaves, and the call ends.                           *)

\* removeOrder takes the caller's order out of the list of its side.
LEMMA UnlinkRemoves ==
    ASSUME Consistent, SoundBook, SoundBook', Unlink
    PROVE  /\ Levels'[call.side]
                = RemoveAt(Levels[call.side], Engine!PlaceOf(Levels[call.side], call.id))
           /\ Levels'[Opposite(call.side)] = Levels[Opposite(call.side)]
  <1> DEFINE s == call.side
             id == call.id
             p == orders[id].price
             o == orders
             qs == queue[s]
             qs2 == queue'[s]
             q == queue[s][p]
             j == CHOOSE i \in 1 .. Len(q) : q[i] = id
  <1>1. /\ pc \in {"match", "unlink"} /\ (pc = "match" => call.name = "amend")
        /\ queue' = [queue EXCEPT ![s][p] = Unlinked(q, id)] /\ orders' = orders
    BY DEF Unlink, MatchOver
  <1>2. /\ s \in Side /\ Opposite(s) \in Side /\ Opposite(s) # s
        /\ queue \in [Side -> [Prices -> Seq(OrderIDs)]]
    BY <1>1, RunningCall DEF Consistent, TypeOK
  <1>3. id \in Live /\ orders[id].side = s /\ ~ Detached(id)
    BY <1>1 DEF Consistent, InFlight, CallersOrder, Matching, Detached
  <1>4. p \in Prices /\ id \in Range(q)
    BY <1>3 DEF Consistent, TypeOK, Order, RegistryMatchesLevels, OrdersAreLinked
  <1>5. j \in 1 .. Len(q) /\ q[j] = id
    <2>1. q \in Seq(OrderIDs)
      BY <1>2, <1>4
    <2>2. id \in Range(q)
      BY <1>4
    <2> HIDE DEF q, id
    <2>3. DOMAIN q = 1 .. Len(q)
      BY <2>1
    <2>4. \E i \in 1 .. Len(q) : q[i] = id
      BY <2>2, <2>3 DEF Range
    <2> QED
      BY <2>4
  <1>6. qs2 = [qs EXCEPT ![p] = RemoveAt(@, j)] /\ queue'[Opposite(s)] = queue[Opposite(s)]
    <2>1. Unlinked(q, id) = RemoveAt(q, j)
      BY DEF Unlinked
    <2> HIDE DEF j, id
    <2> QED
      BY <1>1, <1>2, <1>4, <2>1
  <1>7. /\ Levels[s] = Joined(s, o, qs) /\ Levels'[s] = Joined(s, o, qs2)
        /\ Sound(s, o, qs) /\ Sound(s, o, qs2)
    BY <1>1, <1>2, LevelsAre DEF SoundBook
  <1>8. Levels'[Opposite(s)] = Levels[Opposite(s)]
    BY <1>1, <1>2, <1>6, LevelsAre
  <1>9. j \in 1 .. Len(qs[p]) /\ qs[p][j] = id
    BY <1>5
  <1> HIDE DEF s, p, id, o, qs, qs2, j, q
  <1>10. LeavesLevel(qs, qs2, p, j)
    BY <1>6 DEF LeavesLevel
  <1>11. Joined(s, o, qs2) = RemoveAt(Joined(s, o, qs), Engine!PlaceOf(Joined(s, o, qs), qs[p][j]))
    BY <1>2, <1>4, <1>7, <1>9, <1>10, JoinedRemoved
  <1> QED
    BY <1>7, <1>8, <1>9, <1>11 DEF s, id

\* The base of the outcome when the order was there.
LEMMA BaseIs ==
    ASSUME NEW b, NEW c, c.side \in Side, WasThere(b, c)
    PROVE  /\ BaseOf(b, c)[c.side] = RemoveAt(b[c.side], Engine!PlaceOf(b[c.side], c.id))
           /\ BaseOf(b, c)[Opposite(c.side)] = b[Opposite(c.side)]
           /\ BaseOf(b, c) = [s \in Side |-> BaseOf(b, c)[s]]
  BY SameSides, OtherSideStands
  DEF BaseOf, Engine!Removed, WasThere, RemoveAt, Engine!RemoveAt

\* removeOrder up to its event.
LEMMA UnlinkObserved ==
    ASSUME Consistent, SoundBook, SoundBook', Observed, Unlink, TapeStep, ReturnStep
    PROVE  Observed'
  <1>1. /\ pc' = "unlinked" /\ UNCHANGED <<call, remaining>> /\ pc # "idle"
        /\ \/ pc = "match" /\ ~ CanMatch /\ call.name = "amend"
           \/ pc = "unlink" /\ call.name # "amend" /\ call.name # "newOrder"
    BY DEF Unlink, MatchOver, Consistent, InFlight, PlacesOfCalls
  <1>2. committed' = committed /\ tape' = tape
    BY <1>1 DEF TapeStep, ReturnStep
  <1>3. call.side \in Side /\ WasThere(committed, call)
    BY <1>1, RunningCall DEF Observed, CallersPlace
  <1>4. /\ Levels'[call.side]
             = RemoveAt(Levels[call.side], Engine!PlaceOf(Levels[call.side], call.id))
        /\ Levels'[Opposite(call.side)] = Levels[Opposite(call.side)]
    BY UnlinkRemoves
  <1>5. /\ BaseOf(committed, call)[call.side]
             = RemoveAt(committed[call.side], Engine!PlaceOf(committed[call.side], call.id))
        /\ BaseOf(committed, call)[Opposite(call.side)] = committed[Opposite(call.side)]
        /\ BaseOf(committed, call) = [s \in Side |-> BaseOf(committed, call)[s]]
    BY <1>3, BaseIs
  <1>6. Levels[call.side] = committed[call.side]
    BY <1>1 DEF Observed, MatchedSoFar, StillThere, Matching
  <1>7. (CommittedIsBook /\ CallersPlace)'
    BY <1>1, <1>2 DEF Observed, CommittedIsBook, CallersPlace
  <1>8. (LevelInReach /\ BetweenCalls /\ StillThere /\ MatchedSoFar /\ AllDone)'
    BY <1>1 DEF LevelInReach, BetweenCalls, StillThere, MatchedSoFar, AllDone, Matching
  <1>9. CASE pc = "match"
    <2>1. AllTraded(committed, call, Levels', tape, remaining)
      BY <1>1, <1>4, <1>9, MatchIsOver DEF AllTraded
    <2>2. (AmendTraded /\ TakenOut)'
      BY <1>1, <1>2, <1>4, <1>5, <1>6, <1>9, <2>1 DEF AmendTraded, TakenOut
    <2> QED
      BY <1>7, <1>8, <2>2 DEF Observed
  <1>10. CASE pc = "unlink"
    <2>1. Levels = committed /\ tape = <<>>
      BY <1>10 DEF Observed, StillThere
    <2>2. \A s \in Side : Levels'[s] = BaseOf(committed, call)[s]
      BY <1>3, <1>4, <1>5, <2>1, OppositeSide
    <2>3. Levels' = BaseOf(committed, call)
      BY <1>5, <2>2, LevelsAre
    <2>4. (AmendTraded /\ TakenOut)'
      BY <1>1, <1>2, <1>10, <2>1, <2>3 DEF AmendTraded, TakenOut
    <2> QED
      BY <1>7, <1>8, <2>4 DEF Observed
  <1> QED
    BY <1>1, <1>9, <1>10

\* Destroying an order that is on no level changes no list.
LEMMA EraseKeepsLevels ==
    ASSUME Consistent, SoundBook, pc = "erase", Erase(call.id), queue' = queue
    PROVE  Levels' = Levels
  <1>1. Detached(call.id) /\ OthersKept(call.id)
    BY DEF Detached, Erase, OthersKept
  <1> QED
    BY <1>1, NotLinkedOrders, LevelsUntouched

\* replaceOrder's cancel has returned and its newOrder begins.
LEMMA ReplaceAfterCancelObserved ==
    ASSUME Consistent, SoundBook, Observed, ReplaceAfterCancel, TapeStep, ReturnStep
    PROVE  Observed'
  <1>1. /\ pc = "erase" /\ pc' = "match" /\ call.name = "replaceOrder" /\ Levels' = Levels
    BY EraseKeepsLevels DEF ReplaceAfterCancel, StartMatch
  <1>2. PICK s \in Side : /\ call' = [call EXCEPT !.name = "newOrder", !.side = s]
                          /\ remaining' = call'.quantity
    BY DEF ReplaceAfterCancel, StartMatch
  <1>3. call \in Call
    BY <1>1, RunningCall
  <1>4. /\ call'.name = "newOrder" /\ call'.side = s /\ call'.id = call.id
        /\ call'.quantity \in Nat
    BY <1>2, <1>3 DEF Call, Quantities
  <1>5. /\ committed' = committed /\ tape' = tape /\ tape = <<>>
        /\ Levels = BaseOf(committed, call)
    BY <1>1 DEF TapeStep, ReturnStep, Observed, TakenOut
  <1>6. BaseOf(committed', call') = Levels'
    BY <1>1, <1>4, <1>5 DEF BaseOf
  <1>7. IsList(Opposite(call'.side), BaseOf(committed', call')[Opposite(call'.side)])
    BY <1>1, <1>4, <1>6, OppositeSide, LevelsAreBook DEF IsBook
  <1>8. PartlyDone(committed', call', Levels', tape', remaining')
    BY <1>2, <1>4, <1>5, <1>6, <1>7, NothingDone
  <1>9. MatchedSoFar'
    BY <1>1, <1>4, <1>6, <1>8 DEF MatchedSoFar
  <1>10. (CommittedIsBook /\ CallersPlace)'
    BY <1>1, <1>4, <1>5 DEF Observed, CommittedIsBook, CallersPlace
  <1>11. (LevelInReach /\ BetweenCalls /\ StillThere /\ TakenOut /\ AmendTraded /\ AllDone)'
    BY <1>1 DEF LevelInReach, BetweenCalls, StillThere, TakenOut, AmendTraded, AllDone
  <1> QED
    BY <1>9, <1>10, <1>11 DEF Observed

-----------------------------------------------------------------------------
(* Calls return.                                                           *)

\* A call that returns leaves nothing under way.
LEMMA CallEnds ==
    ASSUME SoundBook', pc # "idle", pc' = "idle", TapeStep, ReturnStep
    PROVE  /\ committed' = Levels' /\ reported' = tape /\ answered' = result'
           /\ Observed'
  <1>1. committed' = Levels' /\ reported' = tape /\ answered' = result' /\ tape' = <<>>
    BY DEF TapeStep, ReturnStep
  <1>2. (CommittedIsBook /\ BetweenCalls)'
    BY <1>1, LevelsAreBookNext DEF CommittedIsBook, BetweenCalls
  <1>3. (CallersPlace /\ LevelInReach /\ StillThere /\ MatchedSoFar /\ TakenOut
           /\ AmendTraded /\ AllDone)'
    BY DEF CallersPlace, LevelInReach, StillThere, MatchedSoFar, TakenOut, AmendTraded,
           AllDone, Matching
  <1> QED
    BY <1>1, <1>2, <1>3 DEF Observed

\* The orders the rules know of are those of the lists.
LEMMA KnownIds ==
    ASSUME NEW b, NEW c, c.side \in Side, WasThere(b, c)
    PROVE  Engine!Known(b, c.id) /\ Engine!SideOf(b, c.id) = c.side
  <1>1. Engine!Known(b, c.id)
    BY SameSides DEF Engine!Known, WasThere
  <1>2. \A s \in Side : c.id \in Engine!IDsOf(b[s]) <=> s = c.side
    BY OppositeSide DEF WasThere
  <1>3. Engine!SideOf(b, c.id) = c.side
    BY <1>2, SameSides DEF Engine!SideOf
  <1> QED
    BY <1>1, <1>3

\* A return from the end of newOrder or amend gives the outcome asked for.
LEMMA ReturnDoesAsAsked ==
    ASSUME Consistent, SoundBook, SoundBook', Observed, Return, TapeStep, ReturnStep
    PROVE  AsAsked
  <1>1. /\ pc = "return" /\ pc' = "idle" /\ result' = "true" /\ Levels' = Levels
    BY LevelsStand DEF Return, Finish
  <1>2. /\ committed' = OutcomeOf(committed, call).book
        /\ reported' = OutcomeOf(committed, call).trades
        /\ answered' = "true" /\ call.name \in {"newOrder", "amend"}
    BY <1>1, CallEnds DEF Observed, AllDone
  <1>3. OutcomeOf(committed, call).answer = "true"
    BY DEF OutcomeOf, Engine!Executed
  <1>4. call.side \in Side
    BY <1>1, RunningCall
  <1>5. Engine!Accept(OutcomeOf(committed, call))
    BY <1>2, <1>3 DEF Engine!Accept
  <1>6. CASE call.name = "amend"
    <2>1. WasThere(committed, call)
      BY <1>1, <1>6 DEF Observed, CallersPlace
    <2>2. Engine!Known(committed, call.id) /\ Engine!SideOf(committed, call.id) = call.side
      BY <1>4, <2>1, KnownIds
    <2>3. Engine!AmendSideOn(committed, call.id, call.side, call.price, call.quantity)
             = OutcomeOf(committed, call)
      BY <2>2 DEF Engine!AmendSideOn, OutcomeOf, BaseOf
    <2>4. Engine!Amend(call.id, call.side, call.price, call.quantity)
      BY <1>5, <2>3 DEF Engine!Amend
    <2> QED
      BY <1>6, <2>4 DEF AsAsked
  <1>7. CASE call.name = "newOrder"
    <2>1. CASE Engine!Known(committed, call.id)
      <3>1. OutcomeOf(committed, call)
               \in Engine!ReplaceOn(committed, call.id, call.price, call.quantity)
        BY <1>4, <2>1, SameSides DEF Engine!ReplaceOn, OutcomeOf, BaseOf
      <3>2. Engine!Replace(call.id, call.price, call.quantity)
        BY <1>5, <3>1 DEF Engine!Replace
      <3> QED
        BY <1>7, <3>2 DEF AsAsked
    <2>2. CASE ~ Engine!Known(committed, call.id)
      <3>1. BaseOf(committed, call) = committed
        <4>1. \A s \in Side : call.id \notin Engine!IDsOf(committed[s])
          BY <2>2, SameSides DEF Engine!Known
        <4> QED
          BY <4>1, NothingRemoved DEF Observed, CommittedIsBook
      <3>2. Engine!NewOrderOn(committed, call.id, call.side, call.price, call.quantity)
               = OutcomeOf(committed, call)
        BY <2>2, <3>1 DEF Engine!NewOrderOn, OutcomeOf
      <3>3. Engine!NewOrder(call.id, call.side, call.price, call.quantity)
        BY <1>5, <3>2 DEF Engine!NewOrder
      <3> QED
        BY <1>7, <3>3 DEF AsAsked
    <2> QED
      BY <2>1, <2>2
  <1> QED
    BY <1>2, <1>6, <1>7

\* A return from the erasure of the caller's order gives the outcome asked for.
LEMMA EraseDoesAsAsked ==
    ASSUME Consistent, SoundBook, SoundBook', Observed, EraseOrder, TapeStep, ReturnStep
    PROVE  AsAsked
  <1>1. /\ pc = "erase" /\ pc' = "idle" /\ result' = "true" /\ Levels' = Levels
        /\ call.name # "replaceOrder"
    BY EraseKeepsLevels DEF EraseOrder, Finish
  <1>2. committed' = Levels /\ reported' = tape /\ answered' = "true"
    BY <1>1, CallEnds
  <1>3. call.side \in Side /\ call.name \in {"amend", "cancel"}
    BY <1>1, RunningCall DEF Consistent, InFlight, PlacesOfCalls, CallNames
  <1>4. WasThere(committed, call)
    BY <1>1, <1>3 DEF Observed, CallersPlace
  <1>5. Engine!Known(committed, call.id) /\ Engine!SideOf(committed, call.id) = call.side
    BY <1>3, <1>4, KnownIds
  <1>6. CASE call.name = "amend"
    <2>1. /\ AllTraded(committed, call, Levels, tape, remaining)
          /\ Levels[call.side] = BaseOf(committed, call)[call.side] /\ remaining = 0
      BY <1>1, <1>6 DEF Observed, AmendTraded
    <2>2. Levels[call.side] = Engine!Join(call.side, BaseOf(committed, call)[call.side],
                                          RestOrder(call, remaining))
      BY <2>1, JoinNothing
    <2>3. Levels = OutcomeOf(committed, call).book /\ tape = OutcomeOf(committed, call).trades
      BY <1>3, <2>1, <2>2, LevelsAre, OutcomeReached
    <2>4. OutcomeOf(committed, call).answer = "true"
      BY DEF OutcomeOf, Engine!Executed
    <2>5. Engine!AmendSideOn(committed, call.id, call.side, call.price, call.quantity)
             = OutcomeOf(committed, call)
      BY <1>5 DEF Engine!AmendSideOn, OutcomeOf, BaseOf
    <2>6. Engine!Amend(call.id, call.side, call.price, call.quantity)
      BY <1>2, <2>3, <2>4, <2>5 DEF Engine!Amend, Engine!Accept
    <2> QED
      BY <1>6, <2>6 DEF AsAsked
  <1>7. CASE call.name = "cancel"
    <2>1. Levels = BaseOf(committed, call) /\ tape = <<>>
      BY <1>1, <1>7 DEF Observed, TakenOut
    <2>2. Engine!CancelOn(committed, call.id)
             = [book |-> BaseOf(committed, call), trades |-> <<>>, answer |-> "true"]
      BY <1>5 DEF Engine!CancelOn, BaseOf
    <2>3. Engine!Cancel(call.id)
      BY <1>2, <2>1, <2>2 DEF Engine!Cancel, Engine!Accept
    <2> QED
      BY <1>7, <2>3 DEF AsAsked
  <1> QED
    BY <1>3, <1>6, <1>7

-----------------------------------------------------------------------------
(* The invariant, and the refinement.                                      *)

\* The invariant holds when the book is empty.
LEMMA InitObserved == ObservedInit => Observed
  <1> SUFFICES ASSUME ObservedInit PROVE Observed
    OBVIOUS
  <1>1. pc = "idle" /\ tape = <<>> /\ Init
    BY DEF ObservedInit, Init
  <1>2. \A s \in Side : committed[s] = <<>> /\ Levels[s] = <<>>
    <2>1. SUFFICES ASSUME NEW s \in Side PROVE committed[s] = <<>> /\ Levels[s] = <<>>
      OBVIOUS
    <2>2. committed[s] = <<>>
      BY DEF ObservedInit
    <2>3. Sound(s, orders, queue[s]) /\ Levels[s] = Joined(s, orders, queue[s])
      BY <1>1, InitConsistent, ConsistentIsSound, LevelsAre DEF SoundBook
    <2>4. \A r \in Prices : queue[s][r] = <<>>
      BY <1>1 DEF Init
    <2>5. \A i \in 1 .. Len(Levels[s]) : FALSE
      BY <2>3, <2>4, JoinedElements DEF OnLevel
    <2>6. Levels[s] \in Seq(Entry)
      BY <2>3, JoinedIsList DEF IsList
    <2>7. Levels[s] = <<>>
      <3> DEFINE l == Levels[s]
      <3>1. l \in Seq(Entry) /\ \A i \in 1 .. Len(l) : FALSE
        BY <2>5, <2>6
      <3> HIDE DEF l
      <3>2. l = <<>>
        BY <3>1
      <3> QED
        BY <3>2 DEF l
    <2> QED
      BY <2>2, <2>7
  <1>3. committed = Levels
    BY <1>2, LevelsAre DEF ObservedInit
  <1>4. IsBook(committed)
    BY <1>1, <1>3, InitConsistent, ConsistentIsSound, LevelsAreBook
  <1> QED
    BY <1>1, <1>3, <1>4
    DEF Observed, CommittedIsBook, CallersPlace, BetweenCalls, MatchedSoFar, LevelInReach,
        StillThere, TakenOut, AmendTraded, AllDone, Matching

\* Every step inside a call keeps it.
LEMMA StepObserved ==
    ASSUME Consistent, SoundBook, SoundBook', Observed, Step, TapeStep, ReturnStep
    PROVE  Observed'
  <1>1. CASE EnterLevel BY <1>1, EnterLevelObserved
  <1>2. CASE Fill BY <1>2, FillObserved
  <1>3. CASE OnFilled BY <1>3, OnFilledObserved
  <1>4. CASE LevelMatched BY <1>4, LevelMatchedObserved
  <1>5. CASE NextLevel BY <1>5, NextLevelObserved
  <1>6. CASE Rest BY <1>6, RestObserved
  <1>7. CASE Notify BY <1>7, NotifyObserved
  <1>8. CASE Unlink BY <1>8, UnlinkObserved
  <1>9. CASE LeaveLevel BY <1>9, LeaveLevelObserved
  <1>10. CASE Reinsert BY <1>10, ReinsertObserved
  <1>11. CASE Return
    <2>1. pc # "idle" /\ pc' = "idle"
      BY <1>11 DEF Return, Finish
    <2> QED
      BY <2>1, CallEnds
  <1>12. CASE EraseOrder
    <2>1. pc # "idle" /\ pc' = "idle"
      BY <1>12 DEF EraseOrder, Finish
    <2> QED
      BY <2>1, CallEnds
  <1>13. CASE ReplaceAfterCancel BY <1>13, ReplaceAfterCancelObserved
  <1> QED
    BY <1>1, <1>2, <1>3, <1>4, <1>5, <1>6, <1>7, <1>8, <1>9, <1>10, <1>11, <1>12, <1>13
    DEF Step

\* Every step keeps it.
LEMMA NextObserved ==
    Consistent /\ Consistent' /\ Observed /\ [ObservedNext]_allVars => Observed'
  <1> SUFFICES ASSUME Consistent, Consistent', Observed, [ObservedNext]_allVars PROVE Observed'
    OBVIOUS
  <1>1. SoundBook /\ SoundBook'
    <2>1. SoundBook
      BY ConsistentIsSound
    <2>2. (Consistent => SoundBook)'
      BY ConsistentIsSound, PTL
    <2> QED
      BY <2>1, <2>2
  <1>2. CASE ObservedNext
    BY <1>1, <1>2, RequestObserved, StepObserved DEF ObservedNext, Next
  <1>3. CASE UNCHANGED allVars
    <2>1. /\ UNCHANGED <<pc, call, remaining, level, committed, tape>> /\ Levels' = Levels
      BY <1>3, LevelsStand DEF allVars
    <2> QED
      BY <2>1 DEF Observed, CommittedIsBook, CallersPlace, BetweenCalls, MatchedSoFar, LevelInReach,
        StillThere, TakenOut, AmendTraded, AllDone, Matching
  <1> QED
    BY <1>2, <1>3

\* Observing an order book takes nothing from it.
LEMMA ObservedSpecIsSpec == ObservedSpec => Spec
  <1>1. ObservedInit => Init
    BY DEF ObservedInit
  <1>2. [ObservedNext]_allVars => [Next]_vars
    BY DEF ObservedNext, allVars, vars
  <1> QED
    BY <1>1, <1>2, PTL DEF ObservedSpec, Spec

\* While a call runs, the orders on the levels and the trades reported so far are a
\* beginning of the outcome that MatchingRules gives the call on the book as it was
\* when the call began; between calls they are the last outcome.
THEOREM AlwaysObserved == ObservedSpec => [](Consistent /\ Observed)
  <1>1. ObservedSpec => []Consistent
    BY ObservedSpecIsSpec, AlwaysConsistent
  <1> QED
    BY <1>1, InitObserved, NextObserved, PTL DEF ObservedSpec

\* A call that returns has the outcome it asked for.
LEMMA ReturnsAsAsked ==
    Consistent /\ Consistent' /\ Observed /\ [ObservedNext]_allVars => [AsAsked]_allVars
  <1> SUFFICES ASSUME Consistent, Consistent', Observed, ObservedNext,
                      pc # "idle", pc' = "idle"
               PROVE  AsAsked
    BY DEF AsAsked
  <1>1. SoundBook /\ SoundBook'
    <2>1. SoundBook
      BY ConsistentIsSound
    <2>2. (Consistent => SoundBook)'
      BY ConsistentIsSound, PTL
    <2> QED
      BY <2>1, <2>2
  <1>2. Return \/ EraseOrder
    BY DEF ObservedNext, Next, Request, NewOrder, Amend, AmendDelta, Cancel, ReplaceOrder,
           RefuseDuplicate, RefuseUnknown, RefuseSide, Refuse, Step, EnterLevel, Fill,
           OnFilled, LevelMatched, NextLevel, Rest, Notify, Unlink, LeaveLevel, Reinsert,
           ReplaceAfterCancel, StartMatch
  <1> QED
    BY <1>1, <1>2, ReturnDoesAsAsked, EraseDoesAsAsked DEF ObservedNext

\* newOrder, amend, cancel and replaceOrder do what their arguments ask for: when one
\* returns, the orders by price and time, the trades reported and the answer are the
\* outcome of that operation on the book before it, through all the loops, callbacks
\* and erasures it is made of.
THEOREM CallsAlwaysDoAsAsked == ObservedSpec => CallsDoAsAsked
  <1>1. ObservedSpec => [](Consistent /\ Observed)
    BY AlwaysObserved
  <1> QED
    BY <1>1, ReturnsAsAsked, PTL DEF ObservedSpec, CallsDoAsAsked

\* Every step is a step of the matching engine, or none that its caller sees.
LEMMA StepsAreEngineSteps ==
    Consistent /\ Consistent' /\ Observed /\ [ObservedNext]_allVars
        => [Engine!Next]_(Engine!vars)
  <1> SUFFICES ASSUME Consistent, Consistent', Observed, [ObservedNext]_allVars
               PROVE  [Engine!Next]_(Engine!vars)
    OBVIOUS
  <1>1. CASE UNCHANGED allVars
    BY <1>1 DEF allVars, Engine!vars
  <1>2. CASE ObservedNext /\ pc' # "idle"
    BY <1>2 DEF ObservedNext, ReturnStep, Engine!vars
  <1>3. CASE ObservedNext /\ pc # "idle" /\ pc' = "idle"
    <2>1. AsAsked
      BY <1>3, ReturnsAsAsked DEF AsAsked, allVars
    <2>2. call \in Call
      BY <1>3, RunningCall
    <2>3. /\ call.id \in OrderIDs /\ call.side \in Engine!Side
          /\ call.price \in Engine!Prices /\ call.quantity \in Engine!Quantities
      BY <2>2, SameSides DEF Call, Prices, Quantities, Engine!Prices, Engine!Quantities
    <2> QED
      BY <1>3, <2>1, <2>3 DEF AsAsked, Engine!Next
  <1>4. CASE ObservedNext /\ pc = "idle" /\ pc' = "idle"
    <2>1. result' = "false"
      BY <1>4 DEF ObservedNext, Next, Request, NewOrder, Amend, AmendDelta, Cancel, ReplaceOrder,
           RefuseDuplicate, RefuseUnknown, RefuseSide, Refuse, Step, EnterLevel, Fill,
           OnFilled, LevelMatched, NextLevel, Rest, Notify, Unlink, LeaveLevel, Reinsert,
           ReplaceAfterCancel, StartMatch, StartUnlink, Return, EraseOrder, MatchOver
    <2>2. Engine!Refuse
      BY <1>4, <2>1 DEF ObservedNext, ReturnStep, Engine!Refuse
    <2> QED
      BY <2>2 DEF Engine!Next
  <1> QED
    BY <1>1, <1>2, <1>3, <1>4

\* The order book implements the matching engine: seen from its returns every call is
\* one atomic step on two lists of orders, for any ids, prices, quantities and width
\* of the totals.
THEOREM BookImplementsEngine == ObservedSpec => ImplementsEngine
  <1>1. ObservedInit => Engine!Init
    BY SameSides DEF ObservedInit, Engine!Init, Engine!EmptyBook
  <1>2. ObservedSpec => [](Consistent /\ Observed)
    BY AlwaysObserved
  <1> QED
    BY <1>1, <1>2, StepsAreEngineSteps, PTL DEF ObservedSpec, ImplementsEngine, Engine!Spec

=============================================================================
