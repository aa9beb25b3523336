---------------------------- MODULE SignalProofs ----------------------------
(***************************************************************************)
(* Proofs about the signals, for any prices, quantities and length of the  *)
(* session.  What is proved of a signal is said of the sequence of trades  *)
(* it has processed, and one more trade keeps it; SessionOK and SeenIs say *)
(* which trades of the tape those are.  Sums of 64-bit values are exact in *)
(* the model, as signed overflow is undefined in the code; RoomForTrades   *)
(* says that the width holds the value and the quantity of one trade.      *)
(***************************************************************************)
EXTENDS SignalComposite, TLAPS, SequenceTheorems, FiniteSetTheorems

\* The folds over the listeners of a trade and over the buckets it fills.
INSTANCE FoldProofs WITH op <- Tell
P == INSTANCE FoldProofs WITH op <- FillPass

-----------------------------------------------------------------------------
(* Sums.                                                                   *)

\* The sum of a function over a set is one of the sums over its subsets, of
\* which each element of a subset is a summand.
LEMMA SumHasSummands ==
    ASSUME NEW S, IsFiniteSet(S), NEW f, \A x \in S : f[x] \in Int
    PROVE  \E h : /\ SumFunctionOnSet(f, S) = h[S]
                  /\ h[{}] = 0
                  /\ Summands(Int, h, f, SUBSET S)
  <1> DEFINE F == [x \in S |-> f[x]]
             Choice(g) == g = [t \in SUBSET S |->
                                IF t = {} THEN 0
                                ELSE f[CHOOSE x \in t : TRUE]
                                     + g[t \ {CHOOSE x \in t : TRUE}]]
             h == CHOOSE g : Choice(g)
  <1>1. F \in [S -> Int]
    OBVIOUS
  <1>2. \A g : Choice(g) <=> SumUnfolds(g, F, SUBSET S)
    <2>1. ASSUME NEW t \in SUBSET S, t # {}
          PROVE  F[CHOOSE x \in t : TRUE] = f[CHOOSE x \in t : TRUE]
      BY <2>1
    <2> HIDE DEF F
    <2> QED
      BY <2>1 DEF SumUnfolds
  <1>3. SumFunctionOnSet(f, S) = h[S]
    BY DEF SumFunctionOnSet, FoldFunctionOnSet, MapThenFoldSet
  <1>4. SumUnfolds(h, F, SUBSET S)
    <2>1. \E g : SumUnfolds(g, F, SUBSET S)
      <3> HIDE DEF F
      <3> QED
        BY SumExists
    <2> HIDE DEF F, Choice
    <2>2. \E g : Choice(g)
      BY <1>2, <2>1
    <2> QED
      BY <1>2, <2>2
  <1> HIDE DEF h, Choice
  <1>5. Summands(Int, h, F, SUBSET S)
    <2> HIDE DEF F
    <2>1. Int \in {Nat, Int}
      OBVIOUS
    <2> DEFINE V == Int
    <2>2. V \in {Nat, Int} /\ F \in [S -> V]
      BY <1>1, <2>1
    <2> HIDE DEF V
    <2>3. Summands(V, h, F, SUBSET S)
      BY <1>4, <2>2, SumSummand
    <2> QED
      BY <2>3 DEF V
  <1>6. Summands(Int, h, f, SUBSET S)
    BY <1>5 DEF Summands
  <1>7. h[{}] = 0
    <2>1. {} \in SUBSET S
      OBVIOUS
    <2> QED
      BY <1>4, <2>1 DEF SumUnfolds
  <1> QED
    BY <1>3, <1>6, <1>7

\* Two functions that have the same values have the same sums.
LEMMA SummandsDetermine ==
    ASSUME NEW S, IsFiniteSet(S), NEW f, NEW g, \A x \in S : f[x] = g[x],
           NEW h, h[{}] = 0, Summands(Int, h, f, SUBSET S),
           NEW T, S \in SUBSET T,
           NEW k, k[{}] = 0, Summands(Int, k, g, SUBSET T)
    PROVE  h[S] = k[S]
  <1> DEFINE Same(m) == \A t \in SUBSET S : Cardinality(t) = m => h[t] = k[t]
             N == {m \in Nat : Same(m)}
  <1>1. \A t \in SUBSET S : IsFiniteSet(t) /\ Cardinality(t) \in Nat
    BY FS_Subset, FS_CardinalityType
  <1>2. 0 \in N
    <2>1. \A t \in SUBSET S : Cardinality(t) = 0 => t = {}
      BY <1>1, FS_EmptySet
    <2> QED
      BY <2>1
  <1>3. ASSUME NEW m \in N PROVE m + 1 \in N
    <2>1. m \in Nat /\ Same(m)
      OBVIOUS
    <2>2. ASSUME NEW t \in SUBSET S, Cardinality(t) = m + 1 PROVE h[t] = k[t]
      <3>1. t # {}
        <4>1. Cardinality({}) = 0
          BY FS_EmptySet
        <4>2. m + 1 # 0
          BY <2>1
        <4> QED
          BY <2>2, <4>1, <4>2
      <3>2. PICK x \in t : TRUE
        BY <3>1
      <3>3. t \ {x} \in SUBSET S /\ Cardinality(t \ {x}) = m
        BY <1>1, <2>1, <2>2, <3>2, FS_RemoveElement
      <3>4. h[t \ {x}] = k[t \ {x}]
        BY <2>1, <3>3
      <3>5. h[t] = f[x] + h[t \ {x}] /\ k[t] = g[x] + k[t \ {x}]
        BY <3>2 DEF Summands
      <3> QED
        BY <3>2, <3>4, <3>5
    <2> QED
      BY <2>1, <2>2
  <1>4. N = Nat
    <2> HIDE DEF N
    <2>1. N \in SUBSET Nat
      BY DEF N
    <2> QED
      BY <1>2, <1>3, <2>1, NaturalsByInduction
  <1>5. Cardinality(S) \in N /\ S \in SUBSET S
    BY <1>1, <1>4
  <1> QED
    BY <1>5

\* A sum over nothing is zero.
LEMMA SumOfNone == ASSUME NEW f PROVE SumFunctionOnSet(f, {}) = 0
  <1>1. IsFiniteSet({}) /\ \A x \in {} : f[x] \in Int
    BY FS_EmptySet
  <1> QED
    BY <1>1, SumHasSummands

\* A sum is a number, and only the values on its set matter.
LEMMA SumSame ==
    ASSUME NEW S, IsFiniteSet(S), NEW f, NEW g, \A x \in S : f[x] \in Int /\ f[x] = g[x]
    PROVE  /\ SumFunctionOnSet(f, S) \in Int
           /\ SumFunctionOnSet(f, S) = SumFunctionOnSet(g, S)
  <1>1. PICK h : /\ SumFunctionOnSet(f, S) = h[S]
                 /\ h[{}] = 0
                 /\ Summands(Int, h, f, SUBSET S)
    BY SumHasSummands
  <1>2. PICK k : /\ SumFunctionOnSet(g, S) = k[S]
                 /\ k[{}] = 0
                 /\ Summands(Int, k, g, SUBSET S)
    BY SumHasSummands
  <1>3. h[S] = k[S]
    BY <1>1, <1>2, SummandsDetermine
  <1>4. h[S] \in Int
    BY <1>1 DEF Summands
  <1> QED
    BY <1>1, <1>2, <1>3, <1>4

\* One more element is one more summand.
LEMMA SumAdds ==
    ASSUME NEW S, IsFiniteSet(S), NEW x, x \notin S, NEW f,
           \A y \in S \cup {x} : f[y] \in Int
    PROVE  SumFunctionOnSet(f, S \cup {x}) = SumFunctionOnSet(f, S) + f[x]
  <1> DEFINE T == S \cup {x}
  <1>1. IsFiniteSet(T) /\ x \in T /\ T \ {x} = S /\ S \in SUBSET T
    BY FS_AddElement
  <1>2. PICK h : /\ SumFunctionOnSet(f, S) = h[S]
                 /\ h[{}] = 0
                 /\ Summands(Int, h, f, SUBSET S)
    BY SumHasSummands
  <1>3. \A y \in T : f[y] \in Int
    OBVIOUS
  <1> HIDE DEF T
  <1>4. PICK k : /\ SumFunctionOnSet(f, T) = k[T]
                 /\ k[{}] = 0
                 /\ Summands(Int, k, f, SUBSET T)
    BY <1>1, <1>3, SumHasSummands
  <1>5. h[S] = k[S]
    BY <1>1, <1>2, <1>4, SummandsDetermine
  <1>6. k[T] = f[x] + k[S] /\ k[S] \in Int /\ f[x] \in Int
    BY <1>1, <1>3, <1>4 DEF Summands
  <1>7. SumFunctionOnSet(f, T) = SumFunctionOnSet(f, S) + f[x]
    <2>1. SumFunctionOnSet(f, T) = k[T] /\ SumFunctionOnSet(f, S) = k[S]
      BY <1>2, <1>4, <1>5
    <2> HIDE DEF Summands
    <2> QED
      BY <1>6, <2>1
  <1> QED
    BY <1>7 DEF T

\* The sum of a sequence of numbers grows by the number that is appended.
LEMMA SumGrows ==
    ASSUME NEW n \in Nat, NEW f, NEW g, DOMAIN f = 1 .. n, DOMAIN g = 1 .. n + 1,
           \A i \in 1 .. n : f[i] = g[i], \A i \in 1 .. n + 1 : g[i] \in Int
    PROVE  /\ SumFunction(f) \in Int
           /\ SumFunction(g) = SumFunction(f) + g[n + 1]
  <1>1. IsFiniteSet(1 .. n) /\ n + 1 \notin 1 .. n /\ 1 .. n + 1 = (1 .. n) \cup {n + 1}
    <2>1. IsFiniteSet(1 .. n)
      BY FS_Interval
    <2> QED
      BY <2>1
  <1>2. \A i \in 1 .. n : f[i] \in Int /\ f[i] = g[i]
    BY <1>1
  <1>3. SumFunctionOnSet(f, 1 .. n) \in Int
        /\ SumFunctionOnSet(f, 1 .. n) = SumFunctionOnSet(g, 1 .. n)
    BY <1>1, <1>2, SumSame
  <1>4. SumFunctionOnSet(g, (1 .. n) \cup {n + 1}) = SumFunctionOnSet(g, 1 .. n) + g[n + 1]
    BY <1>1, SumAdds
  <1> QED
    BY <1>1, <1>3, <1>4 DEF SumFunction

-----------------------------------------------------------------------------
(* The trades that the signals have processed.                             *)

\* Types, and that only the z-score stops the program, at a trade.
SessionOK ==
    /\ composite \in {"static", "no z-score", "dynamic"}
    /\ tape \in Seq(Trades)
    /\ stopped \in BOOLEAN
    /\ stopped => composite = "static" /\ tape # <<>>

\* The price of the last trade of a sequence, which most signals remember.
LastOf(q) == IF Len(q) = 0 THEN None ELSE Some(q[Len(q)].price)

\* How trade i of a sequence moved the price.
MoveIn(q, i) ==
    IF i = 1 THEN 0
    ELSE IF q[i].price > q[i - 1].price THEN 1
    ELSE IF q[i].price < q[i - 1].price THEN -1
    ELSE 0

\* Prices and quantities are positive numbers.
LEMMA TradeType ==
    ASSUME NEW e \in Trades
    PROVE  /\ e.price \in Nat /\ e.price > 0
           /\ e.quantity \in Nat /\ e.quantity > 0
           /\ e.price \in TradePrices /\ e.quantity \in Lots
  <1>1. e.price \in TradePrices /\ e.quantity \in Lots
    BY DEF Trades
  <1>2. \A x \in Nat \ {0} : x \in Nat /\ x > 0
    OBVIOUS
  <1> QED
    BY <1>1, <1>2, CompositeAssumption

\* All but the last of a sequence that was just appended to.
LEMMA FrontOfAppend ==
    ASSUME NEW S, NEW q \in Seq(S), NEW e \in S
    PROVE  Front(Append(q, e)) = q
  <1> DEFINE r == Append(q, e)
             f == Front(r)
  <1>1. /\ r \in Seq(S) /\ Len(r) = Len(q) + 1 /\ Len(q) \in Nat
        /\ \A i \in 1 .. Len(q) : r[i] = q[i]
    OBVIOUS
  <1>2. f = SubSeq(r, 1, Len(q))
    <2> HIDE DEF r
    <2> QED
      BY <1>1 DEF Front
  <1>3. Len(f) = Len(q) /\ \A i \in 1 .. Len(q) : f[i] = q[i]
    <2> HIDE DEF r
    <2>1. SubSeq(r, 1, Len(q)) = [i \in 1 .. Len(q) |-> r[i]]
      BY <1>1
    <2> QED
      BY <1>1, <1>2, <2>1
  <1>4. f \in Seq(S)
    <2> HIDE DEF r
    <2>1. \A i \in 1 .. Len(q) : r[i] \in S
      BY <1>1
    <2> QED
      BY <1>1, <1>2, <2>1
  <1> HIDE DEF f, r
  <1>5. f = [i \in 1 .. Len(f) |-> f[i]] /\ q = [i \in 1 .. Len(q) |-> q[i]]
    BY <1>4
  <1>6. f = q
    BY <1>3, <1>5
  <1> QED
    BY <1>6 DEF f, r

\* What was processed is the tape, perhaps without its last trade.
LEMMA SeenIs ==
    ASSUME SessionOK
    PROVE  /\ Seen \in Seq(Trades)
           /\ Len(Seen) <= Len(tape)
           /\ \A i \in 1 .. Len(Seen) : Seen[i] = tape[i] /\ Move(i) = MoveIn(Seen, i)
  <1>1. tape \in Seq(Trades) /\ Len(tape) \in Nat
    <2>1. tape \in Seq(Trades)
      BY DEF SessionOK
    <2> QED
      BY <2>1
  <1>2. /\ Seen \in Seq(Trades)
        /\ Len(Seen) <= Len(tape)
        /\ \A i \in 1 .. Len(Seen) : Seen[i] = tape[i]
    <2>1. CASE composite = "dynamic"
      <3>1. Seen = <<>>
        BY <2>1 DEF Seen
      <3>2. <<>> \in Seq(Trades) /\ Len(<<>>) = 0
        OBVIOUS
      <3> QED
        BY <1>1, <3>1, <3>2
    <2>2. CASE composite # "dynamic" /\ ~ stopped
      <3>1. Seen = tape
        BY <2>2 DEF Seen
      <3> QED
        BY <1>1, <3>1
    <2>3. CASE composite # "dynamic" /\ stopped
      <3> DEFINE m == Len(tape) - 1
      <3>1. tape # <<>> /\ Seen = SubSeq(tape, 1, m)
        BY <2>3 DEF Seen, Front, SessionOK
      <3>2. m \in Nat /\ m <= Len(tape)
        BY <1>1, <3>1
      <3> HIDE DEF m
      <3>3. SubSeq(tape, 1, m) = [i \in 1 .. m |-> tape[i]]
        BY <1>1, <3>2
      <3>4. \A i \in 1 .. m : tape[i] \in Trades
        BY <1>1, <3>2
      <3> QED
        BY <3>1, <3>2, <3>3, <3>4
    <2> QED
      BY <2>1, <2>2, <2>3
  <1>3. ASSUME NEW i \in 1 .. Len(Seen) PROVE Move(i) = MoveIn(Seen, i)
    <2>1. Len(Seen) \in Nat /\ (i = 1 \/ i - 1 \in 1 .. Len(Seen))
      BY <1>2
    <2>2. Seen[i] = tape[i] /\ (i = 1 \/ Seen[i - 1] = tape[i - 1])
      BY <1>2, <2>1
    <2> QED
      BY <2>2 DEF Move, MoveIn
  <1> QED
    BY <1>2, <1>3

\* The session starts with no trade.
LEMMA SessionStarts == Init => SessionOK /\ Seen = <<>> /\ signals = Fresh
  <1> SUFFICES ASSUME Init PROVE SessionOK /\ Seen = <<>> /\ signals = Fresh
    OBVIOUS
  <1>1. <<>> \in Seq(Trades)
    OBVIOUS
  <1> QED
    BY <1>1 DEF Init, SessionOK, Seen

\* A step gives the signals one more trade, or changes nothing for them.
LEMMA SessionSteps ==
    ASSUME SessionOK, [Next]_vars
    PROVE  /\ SessionOK'
           /\ \/ Seen' = Seen /\ signals' = signals
              \/ \E e \in Trades : Seen' = Append(Seen, e) /\ signals' = Updated(signals, e)
  <1>1. CASE ~ stopped /\ \E e \in Trades : UpdateStatic(e)
    <2>1. PICK e \in Trades : UpdateStatic(e)
      BY <1>1
    <2>2. tape' = Append(tape, e) /\ tape' \in Seq(Trades) /\ tape' # <<>>
      <3>1. tape \in Seq(Trades)
        BY DEF SessionOK
      <3>2. tape' = Append(tape, e)
        BY <2>1 DEF UpdateStatic
      <3> QED
        BY <3>1, <3>2
    <2>3. Seen = tape /\ composite' = composite /\ composite # "dynamic"
      BY <1>1, <2>1 DEF UpdateStatic, Seen
    <2>4. CASE composite = "static" /\ ZScoreStops(signals.zscore, e)
      <3>1. stopped' /\ signals' = signals
        BY <2>1, <2>4 DEF UpdateStatic
      <3>2. Front(Append(tape, e)) = tape
        BY FrontOfAppend DEF SessionOK
      <3>3. Seen' = Seen
        BY <2>2, <2>3, <3>1, <3>2 DEF Seen
      <3>4. SessionOK'
        BY <2>1, <2>2, <2>4 DEF SessionOK, UpdateStatic
      <3> QED
        BY <3>1, <3>3, <3>4
    <2>5. CASE ~ (composite = "static" /\ ZScoreStops(signals.zscore, e))
      <3>1. signals' = Updated(signals, e) /\ stopped' = stopped
        BY <2>1, <2>5 DEF UpdateStatic
      <3>2. Seen' = Append(Seen, e)
        BY <1>1, <2>2, <2>3, <3>1 DEF Seen
      <3>3. SessionOK'
        BY <1>1, <2>2, <2>3, <3>1 DEF SessionOK
      <3> QED
        BY <3>1, <3>2, <3>3
    <2> QED
      BY <2>4, <2>5
  <1>2. CASE ~ stopped /\ \E e \in Trades : UpdateDynamic(e)
    <2>1. PICK e \in Trades : UpdateDynamic(e)
      BY <1>2
    <2>2. tape' = Append(tape, e) /\ tape' \in Seq(Trades)
      BY <2>1 DEF UpdateDynamic, SessionOK
    <2>3. /\ composite = "dynamic" /\ composite' = composite
          /\ signals' = signals /\ stopped' = stopped
      BY <2>1 DEF UpdateDynamic
    <2> QED
      BY <1>2, <2>2, <2>3 DEF SessionOK, Seen
  <1>3. CASE \E o \in Objects : AddSignal(o)
    BY <1>3 DEF AddSignal, SessionOK, Seen
  <1>4. CASE UNCHANGED vars
    BY <1>4 DEF vars, SessionOK, Seen
  <1> QED
    BY <1>1, <1>2, <1>3, <1>4 DEF Next, OtherEvent, Stopped

\* What one more trade is to the signals that compare it with the last price.
LEMMA TickMoves ==
    ASSUME NEW q \in Seq(Trades), NEW e \in Trades
    PROVE  LET r == Append(q, e)
               n == Len(q)
           IN  /\ n \in Nat /\ Len(r) = n + 1 /\ r[n + 1] = e
               /\ r \in Seq(Trades)
               /\ \A i \in 1 .. n : r[i] = q[i] /\ MoveIn(r, i) = MoveIn(q, i)
               /\ LastOf(r) = Some(e.price)
               /\ MoveIn(r, n + 1) \in {-1, 0, 1}
               /\ MovedUp(LastOf(q), e) <=> MoveIn(r, n + 1) = 1
               /\ MovedDown(LastOf(q), e) <=> MoveIn(r, n + 1) = -1
               /\ Has(LastOf(q)) <=> n # 0
               /\ n # 0 => Value(LastOf(q)) = r[n].price /\ r[n].price \in Nat
               /\ \A i \in 1 .. n + 1 : r[i] \in Trades
  <1> DEFINE r == Append(q, e)
             n == Len(q)
  <1>1. /\ n \in Nat /\ Len(r) = n + 1 /\ r[n + 1] = e /\ r \in Seq(Trades)
        /\ \A i \in 1 .. n : r[i] = q[i]
        /\ \A i \in 1 .. n + 1 : r[i] \in Trades
    OBVIOUS
  <1> HIDE DEF r
  <1>2. ASSUME NEW i \in 1 .. n PROVE MoveIn(r, i) = MoveIn(q, i)
    <2>1. i = 1 \/ i - 1 \in 1 .. n
      BY <1>1
    <2>2. r[i] = q[i] /\ (i = 1 \/ r[i - 1] = q[i - 1])
      BY <1>1, <2>1
    <2> QED
      BY <2>2 DEF MoveIn
  <1>3. LastOf(r) = Some(e.price)
    BY <1>1 DEF LastOf
  <1>4. e.price \in Nat
    BY TradeType
  <1>5. CASE n = 0
    <2>1. LastOf(q) = <<>> /\ MoveIn(r, n + 1) = 0
      BY <1>5 DEF LastOf, None, MoveIn
    <2>2. ~ Has(LastOf(q))
      BY <2>1 DEF Has, None
    <2> QED
      BY <1>1, <1>2, <1>3, <1>5, <2>1, <2>2 DEF MovedUp, MovedDown, r
  <1>6. CASE n # 0
    <2>1. n \in 1 .. n /\ n + 1 # 1 /\ (n + 1) - 1 = n
      BY <1>1, <1>6
    <2>2. r[n] = q[n] /\ r[n] \in Trades
      BY <1>1, <2>1
    <2>3. r[n].price \in Nat
      BY <2>2, TradeType
    <2>4. LastOf(q) = <<r[n].price>>
      BY <1>6, <2>2 DEF LastOf, Some
    <2>5. Has(LastOf(q)) /\ Value(LastOf(q)) = r[n].price
      BY <2>4 DEF Has, None, Value
    <2>6. MoveIn(r, n + 1) = IF e.price > r[n].price THEN 1
                             ELSE IF e.price < r[n].price THEN -1 ELSE 0
      BY <1>1, <2>1 DEF MoveIn
    <2>7. /\ MovedUp(LastOf(q), e) <=> e.price > r[n].price
          /\ MovedDown(LastOf(q), e) <=> e.price < r[n].price
      BY <2>5 DEF MovedUp, MovedDown
    <2>8. /\ MoveIn(r, n + 1) \in {-1, 0, 1}
          /\ MovedUp(LastOf(q), e) <=> MoveIn(r, n + 1) = 1
          /\ MovedDown(LastOf(q), e) <=> MoveIn(r, n + 1) = -1
      BY <1>4, <2>3, <2>6, <2>7
    <2> QED
      BY <1>1, <1>2, <1>3, <1>6, <2>3, <2>5, <2>8 DEF r
  <1> QED
    BY <1>5, <1>6

-----------------------------------------------------------------------------
(* Runs.                                                                   *)

\* How many trades at the end of a sequence moved the price the same way: all
\* the numbers for which that is so, and the greatest.
Runs(q) ==
    {k \in 0 .. Len(q) :
        \A i \in Len(q) - k + 1 .. Len(q) :
            MoveIn(q, i) # 0 /\ MoveIn(q, i) = MoveIn(q, Len(q))}
IsLastRun(q, k) == k \in Runs(q) /\ \A j \in Runs(q) : j <= k

\* The run that TickRunLength keeps.
RunFacts(q, s) ==
    /\ s.prev = LastOf(q)
    /\ \E k \in Nat :
        /\ IsLastRun(q, k)
        /\ s.run = IF Len(q) = 0 THEN 0 ELSE MoveIn(q, Len(q)) * k

\* After a flat trade there is no run.
LEMMA NoRunWhenFlat ==
    ASSUME NEW q, NEW n \in Nat, Len(q) = n, n = 0 \/ MoveIn(q, n) = 0
    PROVE  IsLastRun(q, 0)
  <1>1. 0 \in Runs(q)
    BY DEF Runs
  <1>2. ASSUME NEW j \in Runs(q) PROVE j <= 0
    <2>1. j \in 0 .. n /\ \A i \in n - j + 1 .. n : MoveIn(q, i) # 0
      BY DEF Runs
    <2>2. CASE j > 0
      <3>1. n \in n - j + 1 .. n /\ n # 0
        BY <2>1, <2>2
      <3> QED
        BY <2>1, <3>1
    <2> QED
      BY <2>1, <2>2
  <1> QED
    BY <1>1, <1>2 DEF IsLastRun

\* A trade that moves the price goes on with the run if it is of the same way,
\* and begins one otherwise.
LEMMA RunGoesOn ==
    ASSUME NEW q, NEW r, NEW n \in Nat, Len(q) = n, Len(r) = n + 1,
           \A i \in 1 .. n : MoveIn(r, i) = MoveIn(q, i),
           MoveIn(r, n + 1) # 0, NEW k \in Nat, IsLastRun(q, k)
    PROVE  IF n # 0 /\ MoveIn(q, n) = MoveIn(r, n + 1)
           THEN IsLastRun(r, k + 1) /\ k > 0
           ELSE IsLastRun(r, 1)
  <1> DEFINE a == MoveIn(r, n + 1)
             same(j) == \A i \in n - j + 1 .. n : MoveIn(q, i) = a
  <1>1. \A j \in Int : j \in Runs(r) <=>
            j = 0 \/ (j - 1 \in 0 .. n /\ \A i \in (n + 1) - j + 1 .. n : MoveIn(q, i) = a)
    <2> SUFFICES ASSUME NEW j \in Int
                 PROVE  j \in Runs(r) <=>
                            j = 0 \/ (j - 1 \in 0 .. n
                                      /\ \A i \in (n + 1) - j + 1 .. n : MoveIn(q, i) = a)
      OBVIOUS
    <2>1. j \in Runs(r) <=> /\ j \in 0 .. n + 1
                            /\ \A i \in (n + 1) - j + 1 .. n + 1 :
                                  MoveIn(r, i) # 0 /\ MoveIn(r, i) = a
      BY DEF Runs
    <2>2. CASE j = 0
      BY <2>1, <2>2
    <2>3. CASE j - 1 \in 0 .. n
      <3> DEFINE m == (n + 1) - j + 1
      <3>1. m \in 1 .. n + 1 /\ j \in 0 .. n + 1
        BY <2>3
      <3> HIDE DEF a
      <3>2. (\A i \in m .. n + 1 : MoveIn(r, i) # 0 /\ MoveIn(r, i) = a)
                <=> \A i \in m .. n : MoveIn(r, i) = a
        <4>1. \A i \in m .. n + 1 : i = n + 1 \/ i \in m .. n
          BY <3>1
        <4>2. \A i \in m .. n : i \in m .. n + 1
          BY <3>1
        <4> QED
          BY <4>1, <4>2 DEF a
      <3>3. \A i \in m .. n : MoveIn(r, i) = MoveIn(q, i)
        BY <3>1
      <3>4. j # 0
        BY <2>3
      <3> QED
        BY <2>1, <2>3, <3>1, <3>2, <3>3, <3>4
    <2>4. CASE j # 0 /\ j - 1 \notin 0 .. n
      <3>1. j \notin 0 .. n + 1
        BY <2>4
      <3> QED
        BY <2>1, <2>4, <3>1
    <2> QED
      BY <2>2, <2>3, <2>4
  <1>2. 1 \in Runs(r)
    <2>1. \A i \in (n + 1) - 1 + 1 .. n : FALSE
      OBVIOUS
    <2> QED
      BY <1>1, <2>1
  <1>3. \A j \in Runs(r) : j \in 0 .. n + 1
    BY DEF Runs
  <1> HIDE DEF a
  <1>4. CASE n # 0 /\ MoveIn(q, n) = a
    <2>1. \A j \in 0 .. n : j \in Runs(q) <=> j + 1 \in Runs(r)
      <3> SUFFICES ASSUME NEW j \in 0 .. n PROVE j \in Runs(q) <=> j + 1 \in Runs(r)
        OBVIOUS
      <3>1. j \in Runs(q) <=> \A i \in n - j + 1 .. n : MoveIn(q, i) # 0 /\ MoveIn(q, i) = a
        BY <1>4 DEF Runs
      <3>2. a # 0
        BY DEF a
      <3>3. j + 1 \in Int /\ j + 1 # 0 /\ (j + 1) - 1 = j /\ (n + 1) - (j + 1) + 1 = n - j + 1
        OBVIOUS
      <3>4. j + 1 \in Runs(r) <=> \A i \in n - j + 1 .. n : MoveIn(q, i) = a
        BY <1>1, <3>3
      <3> QED
        BY <3>1, <3>2, <3>4
    <2>2. k \in 0 .. n /\ k \in Runs(q)
      BY DEF IsLastRun, Runs
    <2>3. k + 1 \in Runs(r)
      BY <2>1, <2>2
    <2>4. ASSUME NEW j \in Runs(r) PROVE j <= k + 1
      <3>1. j \in 0 .. n + 1
        BY <1>3
      <3>2. CASE j = 0
        BY <3>2
      <3>3. CASE j # 0
        <4>1. j - 1 \in 0 .. n /\ (j - 1) + 1 = j
          BY <3>1, <3>3
        <4>2. j - 1 \in Runs(q)
          BY <2>1, <4>1
        <4>3. j - 1 <= k
          BY <4>2 DEF IsLastRun
        <4> QED
          BY <3>1, <4>3
      <3> QED
        BY <3>2, <3>3
    <2>5. 1 \in Runs(q)
      <3>1. n \in n - 1 + 1 .. n /\ \A i \in n - 1 + 1 .. n : i = n
        OBVIOUS
      <3>2. 1 \in 0 .. n /\ MoveIn(q, n) # 0
        BY <1>4 DEF a
      <3> QED
        BY <3>1, <3>2 DEF Runs
    <2>6. 1 <= k
      BY <2>5 DEF IsLastRun
    <2> QED
      BY <1>4, <2>3, <2>4, <2>6 DEF IsLastRun, a
  <1>5. CASE ~ (n # 0 /\ MoveIn(q, n) = a)
    <2>1. ASSUME NEW j \in Runs(r) PROVE j <= 1
      <3>1. j \in 0 .. n + 1
        BY <1>3
      <3>2. CASE j > 1
        <4>1. j # 0 /\ \A i \in (n + 1) - j + 1 .. n : MoveIn(q, i) = a
          BY <1>1, <3>1, <3>2
        <4>2. n \in (n + 1) - j + 1 .. n /\ n # 0
          BY <3>1, <3>2
        <4> QED
          BY <1>5, <4>1, <4>2
      <3> QED
        BY <3>1, <3>2
    <2> QED
      BY <1>2, <1>5, <2>1 DEF IsLastRun, a
  <1> QED
    BY <1>4, <1>5

\* TickRunLength::update follows the last run.
LEMMA RunStep ==
    ASSUME NEW q \in Seq(Trades), NEW e \in Trades, NEW s, RunFacts(q, s)
    PROVE  RunFacts(Append(q, e), TickRunLength(s, e))
  <1> DEFINE r == Append(q, e)
             n == Len(q)
             t == TickRunLength(s, e)
             a == MoveIn(r, n + 1)
             up == MovedUp(s.prev, e)
             down == MovedDown(s.prev, e)
  <1>1. PICK k \in Nat : /\ IsLastRun(q, k)
                         /\ s.run = IF n = 0 THEN 0 ELSE MoveIn(q, n) * k
    BY DEF RunFacts
  <1>2. /\ n \in Nat /\ Len(r) = n + 1
        /\ \A i \in 1 .. n : MoveIn(r, i) = MoveIn(q, i)
        /\ LastOf(r) = Some(e.price)
        /\ a \in {-1, 0, 1}
        /\ up <=> a = 1
        /\ down <=> a = -1
    BY TickMoves DEF RunFacts
  <1>3. t.prev = LastOf(r)
    BY <1>2 DEF TickRunLength
  <1>4. t.run = IF up THEN (IF s.run > 0 THEN s.run + 1 ELSE 1)
                ELSE IF down THEN (IF s.run < 0 THEN s.run - 1 ELSE -1)
                ELSE 0
    BY DEF TickRunLength
  <1>5. n # 0 => MoveIn(q, n) \in {-1, 0, 1}
    BY <1>2 DEF MoveIn
  <1> HIDE DEF r, n, t, up, down, a
  <1>6. CASE a = 0
    <2>1. IsLastRun(r, 0)
      BY <1>2, <1>6, NoRunWhenFlat DEF a
    <2>2. t.run = 0 /\ n + 1 # 0
      BY <1>2, <1>4, <1>6
    <2> QED
      BY <1>2, <1>3, <1>6, <2>1, <2>2 DEF RunFacts, a, r, t
  <1>7. CASE a # 0
    <2>1. IF n # 0 /\ MoveIn(q, n) = a
          THEN IsLastRun(r, k + 1) /\ k > 0
          ELSE IsLastRun(r, 1)
      BY <1>1, <1>2, <1>7, RunGoesOn DEF a, n
    <2>2. ASSUME NEW m \in Nat, IsLastRun(r, m), t.run = a * m
          PROVE  RunFacts(r, t)
      <3>1. n + 1 # 0
        BY <1>2
      <3> QED
        BY <1>2, <1>3, <2>2, <3>1 DEF RunFacts, a
    <2>3. CASE n # 0 /\ MoveIn(q, n) = a
      <3>1. s.run = a * k /\ k > 0 /\ IsLastRun(r, k + 1) /\ k + 1 \in Nat
        BY <1>1, <2>1, <2>3 DEF n
      <3>2. CASE a = 1
        <4>1. s.run = k
          BY <3>1, <3>2
        <4>2. t.run = a * (k + 1)
          BY <1>2, <1>4, <3>1, <3>2, <4>1
        <4> QED
          BY <2>2, <3>1, <4>2 DEF r, t
      <3>3. CASE a = -1
        <4>1. s.run = - k
          BY <3>1, <3>3
        <4>2. t.run = a * (k + 1)
          BY <1>2, <1>4, <3>1, <3>3, <4>1
        <4> QED
          BY <2>2, <3>1, <4>2 DEF r, t
      <3> QED
        BY <1>2, <1>7, <3>2, <3>3
    <2>4. CASE ~ (n # 0 /\ MoveIn(q, n) = a)
      <3>1. IsLastRun(r, 1)
        BY <2>1, <2>4
      <3>2. t.run = a * 1
        <4>1. n # 0 => MoveIn(q, n) # a
          BY <2>4
        <4>2. n # 0 => s.run = MoveIn(q, n) * k
          BY <1>1 DEF n
        <4>3. n = 0 => s.run = 0
          BY <1>1 DEF n
        <4>4. CASE a = 1
          <5>1. ~ (s.run > 0)
            BY <1>5, <4>1, <4>2, <4>3, <4>4
          <5> QED
            BY <1>2, <1>4, <4>4, <5>1
        <4>5. CASE a = -1
          <5>1. ~ (s.run < 0)
            BY <1>5, <4>1, <4>2, <4>3, <4>5
          <5> QED
            BY <1>2, <1>4, <4>5, <5>1
        <4> QED
          BY <1>2, <1>7, <4>4, <4>5
      <3> QED
        BY <2>2, <3>1, <3>2 DEF r, t
    <2> QED
      BY <2>3, <2>4
  <1> QED
    BY <1>6, <1>7

\* Before the first trade.
LEMMA RunStarts == RunFacts(<<>>, TickRunLengthInit)
  <1> DEFINE none == <<>>
  <1>1. Len(none) = 0
    OBVIOUS
  <1> HIDE DEF none
  <1>2. IsLastRun(none, 0)
    BY <1>1, NoRunWhenFlat
  <1>3. TickRunLengthInit.prev = None /\ TickRunLengthInit.run = 0
    BY DEF TickRunLengthInit
  <1> QED
    BY <1>1, <1>2, <1>3 DEF RunFacts, LastOf, none

\* What RunLengthIsLastRun says of the run.
LEMMA RunFactsSuffice ==
    ASSUME SessionOK, RunFacts(Seen, signals.runLength)
    PROVE  RunLengthIsLastRun
  <1> DEFINE n == Len(Seen)
             runs == {k \in 0 .. n : \A i \in n - k + 1 .. n : Move(i) # 0 /\ Move(i) = Move(n)}
             longest == CHOOSE k \in runs : \A j \in runs : j <= k
  <1>1. n \in Nat /\ \A i \in 1 .. n : Move(i) = MoveIn(Seen, i)
    BY SeenIs
  <1>2. runs = Runs(Seen)
    <2>1. ASSUME NEW k \in 0 .. n
          PROVE  (\A i \in n - k + 1 .. n : Move(i) # 0 /\ Move(i) = Move(n))
                 <=> \A i \in n - k + 1 .. n :
                        MoveIn(Seen, i) # 0 /\ MoveIn(Seen, i) = MoveIn(Seen, n)
      <3>1. \A i \in n - k + 1 .. n : i \in 1 .. n /\ n \in 1 .. n
        BY <1>1
      <3>2. \A i \in n - k + 1 .. n : Move(i) = MoveIn(Seen, i) /\ Move(n) = MoveIn(Seen, n)
        BY <1>1, <3>1
      <3> QED
        BY <3>2
    <2> QED
      BY <2>1 DEF Runs
  <1>3. PICK k \in Nat : /\ IsLastRun(Seen, k)
                         /\ signals.runLength.run =
                                IF n = 0 THEN 0 ELSE MoveIn(Seen, n) * k
    BY DEF RunFacts
  <1>4. longest = k
    <2>1. \A j \in runs : j \in Nat
      BY <1>1
    <2> HIDE DEF runs
    <2>2. k \in runs /\ \A j \in runs : j <= k
      BY <1>2, <1>3 DEF IsLastRun
    <2>3. longest \in runs /\ \A j \in runs : j <= longest
      BY <2>2
    <2>4. longest <= k /\ k <= longest /\ longest \in Nat
      BY <2>1, <2>2, <2>3
    <2> QED
      BY <2>4
  <1> HIDE DEF longest
  <1>5. n # 0 => Move(n) = MoveIn(Seen, n)
    BY <1>1
  <1>6. signals.runLength.run = IF n = 0 THEN 0 ELSE Move(n) * longest
    BY <1>3, <1>4, <1>5
  <1> QED
    BY <1>6 DEF RunLengthIsLastRun, longest

-----------------------------------------------------------------------------
(* The arithmetic of trades.                                               *)

\* The width has room for the value of a trade and for its quantity as a
\* fixed-point number.  That a power of ten is positive is said because the
\* provers know nothing of powers.
RoomForTrades ==
    /\ Scale > 0
    /\ \A p \in TradePrices, q \in Lots : p * q < Half /\ Scale * q < Half

\* A power of ten is a natural number, and so is the width.
LEMMA ScaleType ==
    ASSUME RoomForTrades
    PROVE  Scale \in Nat /\ Scale > 0 /\ Half \in Nat /\ Half > 0
  BY FixedPointAssumption DEF RoomForTrades, Scale

\* A conversion to 64 bits leaves what fits in them.
LEMMA WrappedSame ==
    ASSUME NEW x \in Int, -Half <= x, x < Half
    PROVE  Wrapped(x) = x
  BY FixedPointAssumption DEF Wrapped

\* The division that undoes a multiplication.
LEMMA TruncDivExact ==
    ASSUME NEW k \in Int, NEW d \in Nat, d > 0
    PROVE  TruncDiv(k * d, d) = k
  <1>1. Magnitude(d) = d
    BY DEF Magnitude
  <1>2. CASE k >= 0
    <2>1. k * d \in Nat /\ (k * d) \div d = k
      BY <1>2
    <2>2. Magnitude(k * d) = k * d
      BY <2>1 DEF Magnitude
    <2>3. ~ (k * d < 0) /\ ~ (d < 0)
      BY <2>1
    <2> QED
      BY <1>1, <2>1, <2>2, <2>3 DEF TruncDiv
  <1>3. CASE k < 0
    <2>1. (-k) * d \in Nat /\ (-k) * d > 0 /\ ((-k) * d) \div d = -k
      BY <1>3
    <2>2. k * d = -((-k) * d)
      OBVIOUS
    <2>3. k * d < 0 /\ ~ (d < 0)
      BY <2>1, <2>2
    <2>4. Magnitude(k * d) = (-k) * d
      BY <2>1, <2>2, <2>3 DEF Magnitude
    <2>5. TruncDiv(k * d, d) = -(-k)
      BY <1>1, <2>1, <2>3, <2>4 DEF TruncDiv
    <2> QED
      BY <2>5
  <1> QED
    BY <1>2, <1>3

\* A product with a whole number is exact.
LEMMA MulWhole ==
    ASSUME RoomForTrades, NEW x \in Int, NEW q \in Nat, -Half <= x * q, x * q < Half
    PROVE  Mul(x, FromInt(q)) = x * q
  <1>1. Scale \in Nat /\ Scale > 0
    BY ScaleType
  <1>2. x * q \in Int /\ x * FromInt(q) = (x * q) * Scale
    BY <1>1 DEF FromInt
  <1>3. TruncDiv((x * q) * Scale, Scale) = x * q
    BY <1>1, <1>2, TruncDivExact
  <1>4. Wrapped(x * q) = x * q
    BY <1>2, WrappedSame
  <1> QED
    BY <1>2, <1>3, <1>4 DEF Mul

\* The numbers of a trade.
LEMMA TradeNumbers ==
    ASSUME RoomForTrades, NEW e \in Trades
    PROVE  /\ Notional(e) = e.price * e.quantity
           /\ Qty(e) = Scale * e.quantity
           /\ e.price * e.quantity \in Nat /\ e.price * e.quantity < Half
           /\ Scale * e.quantity \in Nat /\ Scale * e.quantity < Half
           /\ Scale * e.quantity > 0 /\ e.price < Half
  <1>1. /\ e.price \in Nat /\ e.price > 0 /\ e.quantity \in Nat /\ e.quantity > 0
        /\ e.price \in TradePrices /\ e.quantity \in Lots
    BY TradeType
  <1>2. Scale \in Nat /\ Scale > 0 /\ Half \in Nat
    BY ScaleType
  <1>3. e.price * e.quantity < Half /\ Scale * e.quantity < Half
    BY <1>1 DEF RoomForTrades
  <1>4. e.price * e.quantity \in Nat /\ Scale * e.quantity \in Nat
    BY <1>1, <1>2
  <1>5. Qty(e) = Scale * e.quantity
    BY <1>1, <1>2 DEF Qty, FromInt
  <1>6. Notional(e) = e.price * e.quantity
    <2>1. -Half <= e.price * e.quantity
      BY <1>2, <1>4
    <2>2. Mul(e.price, FromInt(e.quantity)) = e.price * e.quantity
      BY <1>1, <1>3, <2>1, MulWhole
    <2> QED
      BY <2>2 DEF Notional, Qty
  <1>7. Scale * e.quantity > 0 /\ e.price <= e.price * e.quantity
    <2>1. \A x, y \in Nat : x > 0 /\ y > 0 => x * y > 0 /\ x <= x * y
      OBVIOUS
    <2> QED
      BY <1>1, <1>2, <2>1
  <1> QED
    BY <1>1, <1>2, <1>3, <1>4, <1>5, <1>6, <1>7

\* What an up-tick adds and a down-tick subtracts.
LEMMA ByTickIs ==
    ASSUME NEW q \in Seq(Trades), NEW e \in Trades, NEW sum \in Int, NEW x \in Int
    PROVE  ByTick(sum, LastOf(q), e, x) = sum + MoveIn(Append(q, e), Len(q) + 1) * x
  <1> DEFINE a == MoveIn(Append(q, e), Len(q) + 1)
  <1>1. /\ a \in {-1, 0, 1}
        /\ MovedUp(LastOf(q), e) <=> a = 1
        /\ MovedDown(LastOf(q), e) <=> a = -1
    BY TickMoves
  <1> HIDE DEF a
  <1>2. ByTick(sum, LastOf(q), e, x) = IF a = 1 THEN sum + x ELSE IF a = -1 THEN sum - x ELSE sum
    BY <1>1 DEF ByTick, Add, Sub
  <1>3. CASE a = 1
    BY <1>2, <1>3 DEF a
  <1>4. CASE a = -1
    BY <1>2, <1>4 DEF a
  <1>5. CASE a = 0
    BY <1>2, <1>5 DEF a
  <1> QED
    BY <1>1, <1>3, <1>4, <1>5

-----------------------------------------------------------------------------
(* The sums of a sequence of trades.                                       *)

\* The quantity and the value of trade i of a sequence.
LotsIn(q, i) == Scale * q[i].quantity
ValueIn(q, i) == q[i].price * q[i].quantity

\* The quantities and the values of all the trades, plain and by their moves.
VolumeOf(q) == SumFunction([i \in 1 .. Len(q) |-> LotsIn(q, i)])
WorthOf(q) == SumFunction([i \in 1 .. Len(q) |-> ValueIn(q, i)])
BalanceOf(q) == SumFunction([i \in 1 .. Len(q) |-> MoveIn(q, i) * LotsIn(q, i)])
FlowOf(q) == SumFunction([i \in 1 .. Len(q) |-> MoveIn(q, i) * ValueIn(q, i)])

\* How far trade i moved the price, by its quantity.
DriftIn(q, i) == (q[i].price - q[i - 1].price) * q[i].quantity
DriftOf(q) == SumFunction([i \in 2 .. Len(q) |-> DriftIn(q, i)])

\* How far trade i moved the price, relative to the price, by its quantity.
TrendIn(q, i) == MoveIn(q, i) * (Relative(q[i - 1].price, q[i].price) * q[i].quantity)
TrendOf(q) == SumFunction([i \in 2 .. Len(q) |-> TrendIn(q, i)])

\* The sums of no trades.
LEMMA SumsOfNone ==
    /\ VolumeOf(<<>>) = 0 /\ WorthOf(<<>>) = 0
    /\ BalanceOf(<<>>) = 0 /\ FlowOf(<<>>) = 0 /\ TrendOf(<<>>) = 0
  <1> DEFINE none == <<>>
  <1>1. 1 .. Len(none) = {} /\ 2 .. Len(none) = {}
    OBVIOUS
  <1> HIDE DEF none
  <1>2. \A f : DOMAIN f = {} => SumFunction(f) = 0
    BY SumOfNone DEF SumFunction
  <1>3. /\ DOMAIN [i \in 1 .. Len(none) |-> LotsIn(none, i)] = {}
        /\ DOMAIN [i \in 1 .. Len(none) |-> ValueIn(none, i)] = {}
        /\ DOMAIN [i \in 1 .. Len(none) |-> MoveIn(none, i) * LotsIn(none, i)] = {}
        /\ DOMAIN [i \in 1 .. Len(none) |-> MoveIn(none, i) * ValueIn(none, i)] = {}
        /\ DOMAIN [i \in 2 .. Len(none) |-> TrendIn(none, i)] = {}
    BY <1>1
  <1>4. /\ VolumeOf(none) = 0 /\ WorthOf(none) = 0 /\ BalanceOf(none) = 0
        /\ FlowOf(none) = 0 /\ TrendOf(none) = 0
    BY <1>2, <1>3 DEF VolumeOf, WorthOf, BalanceOf, FlowOf, TrendOf
  <1> QED
    BY <1>4 DEF none

\* The trades of a sequence in numbers.
LEMMA NumbersOf ==
    ASSUME RoomForTrades, NEW q \in Seq(Trades), NEW i \in 1 .. Len(q)
    PROVE  /\ LotsIn(q, i) \in Nat /\ LotsIn(q, i) > 0
           /\ ValueIn(q, i) \in Nat
           /\ MoveIn(q, i) \in {-1, 0, 1}
           /\ MoveIn(q, i) * LotsIn(q, i) \in Int
           /\ MoveIn(q, i) * ValueIn(q, i) \in Int
           /\ q[i] \in Trades
           /\ i # 1 => q[i - 1] \in Trades /\ DriftIn(q, i) \in Int
  <1>1. q[i] \in Trades
    OBVIOUS
  <1>2. /\ LotsIn(q, i) \in Nat /\ LotsIn(q, i) > 0 /\ ValueIn(q, i) \in Nat
    BY <1>1, TradeNumbers DEF LotsIn, ValueIn
  <1>3. MoveIn(q, i) \in {-1, 0, 1}
    BY DEF MoveIn
  <1>4. \A m \in {-1, 0, 1}, x \in Nat : m * x \in Int
    OBVIOUS
  <1>5. ASSUME i # 1 PROVE q[i - 1] \in Trades /\ DriftIn(q, i) \in Int
    <2>1. i - 1 \in 1 .. Len(q)
      BY <1>5
    <2>2. q[i - 1] \in Trades
      BY <2>1
    <2>3. q[i].price \in Nat /\ q[i].quantity \in Nat /\ q[i - 1].price \in Nat
      BY <1>1, <2>2, TradeType
    <2>4. \A x, y, z \in Nat : (x - y) * z \in Int
      OBVIOUS
    <2> QED
      BY <2>2, <2>3, <2>4 DEF DriftIn
  <1> QED
    BY <1>1, <1>2, <1>3, <1>4, <1>5

\* One more trade adds its summand to each of the sums.
LEMMA SumsGrow ==
    ASSUME RoomForTrades, NEW q \in Seq(Trades), NEW e \in Trades
    PROVE  LET r == Append(q, e)
               a == MoveIn(r, Len(q) + 1)
           IN  /\ VolumeOf(q) \in Int /\ VolumeOf(r) = VolumeOf(q) + Scale * e.quantity
               /\ WorthOf(q) \in Int /\ WorthOf(r) = WorthOf(q) + e.price * e.quantity
               /\ BalanceOf(q) \in Int
               /\ BalanceOf(r) = BalanceOf(q) + a * (Scale * e.quantity)
               /\ FlowOf(q) \in Int
               /\ FlowOf(r) = FlowOf(q) + a * (e.price * e.quantity)
  <1> DEFINE r == Append(q, e)
             n == Len(q)
             a == MoveIn(r, n + 1)
  <1>1. /\ n \in Nat /\ Len(r) = n + 1 /\ r[n + 1] = e /\ r \in Seq(Trades)
        /\ \A i \in 1 .. n : r[i] = q[i] /\ MoveIn(r, i) = MoveIn(q, i)
    BY TickMoves
  <1> HIDE DEF r, a
  <1>2. \A i \in 1 .. n + 1 :
            /\ LotsIn(r, i) \in Int /\ ValueIn(r, i) \in Int
            /\ MoveIn(r, i) * LotsIn(r, i) \in Int /\ MoveIn(r, i) * ValueIn(r, i) \in Int
    <2> SUFFICES ASSUME NEW i \in 1 .. n + 1
                 PROVE  /\ LotsIn(r, i) \in Int /\ ValueIn(r, i) \in Int
                        /\ MoveIn(r, i) * LotsIn(r, i) \in Int
                        /\ MoveIn(r, i) * ValueIn(r, i) \in Int
      OBVIOUS
    <2>1. i \in 1 .. Len(r)
      BY <1>1
    <2> QED
      BY <1>1, <2>1, NumbersOf
  <1>3. \A i \in 1 .. n : LotsIn(r, i) = LotsIn(q, i) /\ ValueIn(r, i) = ValueIn(q, i)
    BY <1>1 DEF LotsIn, ValueIn
  <1>4. LotsIn(r, n + 1) = Scale * e.quantity /\ ValueIn(r, n + 1) = e.price * e.quantity
    BY <1>1 DEF LotsIn, ValueIn
  <1>5. VolumeOf(q) \in Int /\ VolumeOf(r) = VolumeOf(q) + Scale * e.quantity
    <2> DEFINE f == [i \in 1 .. n |-> LotsIn(q, i)]
               g == [i \in 1 .. n + 1 |-> LotsIn(r, i)]
    <2>1. /\ DOMAIN f = 1 .. n /\ DOMAIN g = 1 .. n + 1
          /\ \A i \in 1 .. n : f[i] = g[i]
          /\ \A i \in 1 .. n + 1 : g[i] \in Int
          /\ g[n + 1] = Scale * e.quantity
      BY <1>1, <1>2, <1>3, <1>4
    <2>2. VolumeOf(q) = SumFunction(f) /\ VolumeOf(r) = SumFunction(g)
      BY <1>1 DEF VolumeOf
    <2> HIDE DEF f, g, n
    <2>3. SumFunction(f) \in Int /\ SumFunction(g) = SumFunction(f) + g[n + 1]
      BY <1>1, <2>1, SumGrows
    <2> QED
      BY <2>1, <2>2, <2>3
  <1>6. WorthOf(q) \in Int /\ WorthOf(r) = WorthOf(q) + e.price * e.quantity
    <2> DEFINE f == [i \in 1 .. n |-> ValueIn(q, i)]
               g == [i \in 1 .. n + 1 |-> ValueIn(r, i)]
    <2>1. /\ DOMAIN f = 1 .. n /\ DOMAIN g = 1 .. n + 1
          /\ \A i \in 1 .. n : f[i] = g[i]
          /\ \A i \in 1 .. n + 1 : g[i] \in Int
          /\ g[n + 1] = e.price * e.quantity
      BY <1>1, <1>2, <1>3, <1>4
    <2>2. WorthOf(q) = SumFunction(f) /\ WorthOf(r) = SumFunction(g)
      BY <1>1 DEF WorthOf
    <2> HIDE DEF f, g, n
    <2>3. SumFunction(f) \in Int /\ SumFunction(g) = SumFunction(f) + g[n + 1]
      BY <1>1, <2>1, SumGrows
    <2> QED
      BY <2>1, <2>2, <2>3
  <1>7. BalanceOf(q) \in Int /\ BalanceOf(r) = BalanceOf(q) + a * (Scale * e.quantity)
    <2> DEFINE f == [i \in 1 .. n |-> MoveIn(q, i) * LotsIn(q, i)]
               g == [i \in 1 .. n + 1 |-> MoveIn(r, i) * LotsIn(r, i)]
    <2>1. /\ DOMAIN f = 1 .. n /\ DOMAIN g = 1 .. n + 1
          /\ \A i \in 1 .. n : f[i] = g[i]
          /\ \A i \in 1 .. n + 1 : g[i] \in Int
          /\ g[n + 1] = a * (Scale * e.quantity)
      BY <1>1, <1>2, <1>3, <1>4 DEF a
    <2>2. BalanceOf(q) = SumFunction(f) /\ BalanceOf(r) = SumFunction(g)
      BY <1>1 DEF BalanceOf
    <2> HIDE DEF f, g, n
    <2>3. SumFunction(f) \in Int /\ SumFunction(g) = SumFunction(f) + g[n + 1]
      BY <1>1, <2>1, SumGrows
    <2> QED
      BY <2>1, <2>2, <2>3
  <1>8. FlowOf(q) \in Int /\ FlowOf(r) = FlowOf(q) + a * (e.price * e.quantity)
    <2> DEFINE f == [i \in 1 .. n |-> MoveIn(q, i) * ValueIn(q, i)]
               g == [i \in 1 .. n + 1 |-> MoveIn(r, i) * ValueIn(r, i)]
    <2>1. /\ DOMAIN f = 1 .. n /\ DOMAIN g = 1 .. n + 1
          /\ \A i \in 1 .. n : f[i] = g[i]
          /\ \A i \in 1 .. n + 1 : g[i] \in Int
          /\ g[n + 1] = a * (e.price * e.quantity)
      BY <1>1, <1>2, <1>3, <1>4 DEF a
    <2>2. FlowOf(q) = SumFunction(f) /\ FlowOf(r) = SumFunction(g)
      BY <1>1 DEF FlowOf
    <2> HIDE DEF f, g, n
    <2>3. SumFunction(f) \in Int /\ SumFunction(g) = SumFunction(f) + g[n + 1]
      BY <1>1, <2>1, SumGrows
    <2> QED
      BY <2>1, <2>2, <2>3
  <1> QED
    BY <1>5, <1>6, <1>7, <1>8 DEF r, a

\* One more trade adds the move of its price, by its quantity, to the drift.
LEMMA DriftGrows ==
    ASSUME RoomForTrades, NEW q \in Seq(Trades), NEW e \in Trades
    PROVE  LET r == Append(q, e)
               n == Len(q)
           IN  /\ n < 2 => DriftOf(q) = 0
               /\ n > 0 => /\ DriftOf(q) \in Int
                           /\ DriftOf(r) = DriftOf(q) + (e.price - r[n].price) * e.quantity
  <1> DEFINE r == Append(q, e)
             n == Len(q)
             f == [i \in 2 .. n |-> DriftIn(q, i)]
             g == [i \in 2 .. n + 1 |-> DriftIn(r, i)]
  <1>1. /\ n \in Nat /\ Len(r) = n + 1 /\ r[n + 1] = e /\ r \in Seq(Trades)
        /\ \A i \in 1 .. n : r[i] = q[i]
    BY TickMoves
  <1> HIDE DEF r
  <1>2. DriftOf(q) = SumFunctionOnSet(f, 2 .. n) /\ DriftOf(r) = SumFunctionOnSet(g, 2 .. n + 1)
    BY <1>1 DEF DriftOf, SumFunction
  <1>3. n < 2 => DriftOf(q) = 0
    <2>1. n < 2 => 2 .. n = {}
      BY <1>1
    <2> HIDE DEF f
    <2> QED
      BY <1>2, <2>1, SumOfNone
  <1>4. CASE n > 0
    <2>1. \A i \in 2 .. n : DriftIn(r, i) = DriftIn(q, i) /\ DriftIn(r, i) \in Int
      <3> SUFFICES ASSUME NEW i \in 2 .. n
                   PROVE  DriftIn(r, i) = DriftIn(q, i) /\ DriftIn(r, i) \in Int
        OBVIOUS
      <3>1. i \in 1 .. n /\ i - 1 \in 1 .. n /\ i \in 1 .. Len(r) /\ i # 1
        BY <1>1
      <3>2. r[i] = q[i] /\ r[i - 1] = q[i - 1]
        BY <1>1, <3>1
      <3>3. DriftIn(r, i) \in Int
        BY <1>1, <3>1, NumbersOf
      <3> QED
        BY <3>2, <3>3 DEF DriftIn
    <2>2. g[n + 1] = (e.price - r[n].price) * e.quantity /\ g[n + 1] \in Int
      <3>1. n + 1 \in 2 .. n + 1 /\ n + 1 \in 1 .. Len(r) /\ n + 1 # 1 /\ (n + 1) - 1 = n
        BY <1>1, <1>4
      <3>2. DriftIn(r, n + 1) \in Int
        BY <1>1, <3>1, NumbersOf
      <3> QED
        BY <1>1, <3>1, <3>2 DEF DriftIn
    <2>3. \A i \in 2 .. n : f[i] \in Int /\ f[i] = g[i]
      <3>1. \A i \in 2 .. n : i \in 2 .. n + 1
        BY <1>1
      <3> QED
        BY <2>1, <3>1
    <2>4. /\ IsFiniteSet(2 .. n) /\ n + 1 \notin 2 .. n
          /\ 2 .. n + 1 = (2 .. n) \cup {n + 1}
      <3>1. IsFiniteSet(2 .. n)
        BY <1>1, FS_Interval
      <3> QED
        BY <1>1, <1>4, <3>1
    <2>5. \A i \in (2 .. n) \cup {n + 1} : g[i] \in Int
      BY <2>2, <2>3
    <2> HIDE DEF f, g, n
    <2>6. SumFunctionOnSet(f, 2 .. n) \in Int
          /\ SumFunctionOnSet(f, 2 .. n) = SumFunctionOnSet(g, 2 .. n)
      BY <2>3, <2>4, SumSame
    <2>7. SumFunctionOnSet(g, (2 .. n) \cup {n + 1}) = SumFunctionOnSet(g, 2 .. n) + g[n + 1]
      BY <2>4, <2>5, SumAdds
    <2> QED
      BY <1>2, <1>3, <2>2, <2>4, <2>6, <2>7 DEF r, n
  <1> QED
    BY <1>3, <1>4 DEF r

-----------------------------------------------------------------------------
(* The signals that keep a sum.                                            *)

\* On-balance volume and its last price.
ObvFacts(q, s) == s.last = LastOf(q) /\ s.obv = BalanceOf(q)

\* Accumulation and distribution: the line, and how far the last trade moved it.
AdlFacts(q, s) ==
    /\ s.last = LastOf(q)
    /\ s.line = FlowOf(q)
    /\ Len(q) > 1 =>
        /\ Has(s.prev)
        /\ s.line - Value(s.prev) = MoveIn(q, Len(q)) * ValueIn(q, Len(q))

\* The same line under the Chaikin oscillator.
ChaikinFacts(q, s) == s.last = LastOf(q) /\ s.line = FlowOf(q)

\* The cumulative VWAP: value and volume of all trades, none before the first.
VwapFacts(q, s) ==
    s = IF Len(q) = 0 THEN CumulativeVwapInit
        ELSE [value |-> Some(WorthOf(q)), volume |-> Some(VolumeOf(q))]

\* The same sums under the price target.
TargetFacts(q, s) ==
    s.last = LastOf(q) /\ s.notional = WorthOf(q) /\ s.volume = VolumeOf(q)

\* The weighted drift, from the second trade on.
DriftFacts(q, s) ==
    /\ s.prev = LastOf(q)
    /\ s.drift = IF Len(q) < 2 THEN None ELSE Some(DriftOf(q))

\* The volume-price trend and its last price.
TrendFacts(q, s) == s.last = LastOf(q) /\ s.vpt = TrendOf(q)

\* The average price of the trades lies between two of their prices.
AverageInside(q) ==
    /\ VolumeOf(q) \in Nat /\ WorthOf(q) \in Nat
    /\ Len(q) # 0 =>
        /\ VolumeOf(q) > 0
        /\ \E i \in 1 .. Len(q) : q[i].price * VolumeOf(q) <= Scale * WorthOf(q)
        /\ \E i \in 1 .. Len(q) : Scale * WorthOf(q) <= q[i].price * VolumeOf(q)

\* OnBalanceVolume::update.
LEMMA ObvStep ==
    ASSUME RoomForTrades, NEW q \in Seq(Trades), NEW e \in Trades, NEW s, ObvFacts(q, s)
    PROVE  ObvFacts(Append(q, e), OnBalanceVolume(s, e))
  <1> DEFINE r == Append(q, e)
             a == MoveIn(r, Len(q) + 1)
  <1>1. /\ Qty(e) = Scale * e.quantity /\ Scale * e.quantity \in Int
        /\ LastOf(r) = Some(e.price)
    BY TradeNumbers, TickMoves
  <1>2. BalanceOf(q) \in Int /\ BalanceOf(r) = BalanceOf(q) + a * (Scale * e.quantity)
    BY SumsGrow
  <1>3. ByTick(BalanceOf(q), LastOf(q), e, Qty(e)) = BalanceOf(q) + a * (Scale * e.quantity)
    BY <1>1, <1>2, ByTickIs
  <1> HIDE DEF r, a
  <1>4. ObvFacts(r, OnBalanceVolume(s, e))
    BY <1>1, <1>2, <1>3 DEF ObvFacts, OnBalanceVolume
  <1> QED
    BY <1>4 DEF r

\* AccumulationDistribution::update.
LEMMA AdlStep ==
    ASSUME RoomForTrades, NEW q \in Seq(Trades), NEW e \in Trades, NEW s, AdlFacts(q, s)
    PROVE  AdlFacts(Append(q, e), AccumulationDistribution(s, e))
  <1> DEFINE r == Append(q, e)
             n == Len(q)
             a == MoveIn(r, n + 1)
             x == e.price * e.quantity
             t == AccumulationDistribution(s, e)
  <1>1. Notional(e) = x /\ x \in Int
    BY TradeNumbers
  <1>2. /\ n \in Nat /\ Len(r) = n + 1 /\ r[n + 1] = e
        /\ LastOf(r) = Some(e.price) /\ a \in {-1, 0, 1}
        /\ Has(LastOf(q)) <=> n # 0
    BY TickMoves
  <1>3. FlowOf(q) \in Int /\ FlowOf(r) = FlowOf(q) + a * x
    BY SumsGrow
  <1>4. ByTick(FlowOf(q), LastOf(q), e, Notional(e)) = FlowOf(q) + a * x
    BY <1>1, <1>3, ByTickIs
  <1>5. ValueIn(r, n + 1) = x
    BY <1>2 DEF ValueIn
  <1>6. a * x \in Int
    <2> HIDE DEF a, x
    <2> QED
      BY <1>1, <1>2
  <1> HIDE DEF r, a, x, n
  <1>7. /\ t.last = LastOf(r) /\ t.line = FlowOf(r)
        /\ t.prev = IF Has(LastOf(q)) THEN Some(FlowOf(q)) ELSE s.prev
    BY <1>2, <1>3, <1>4 DEF AdlFacts, AccumulationDistribution
  <1>8. ASSUME n + 1 > 1
        PROVE  Has(t.prev) /\ t.line - Value(t.prev) = a * x
    <2>1. t.prev = <<FlowOf(q)>>
      BY <1>2, <1>7, <1>8 DEF Some
    <2>2. Has(t.prev) /\ Value(t.prev) = FlowOf(q)
      BY <2>1 DEF Has, None, Value
    <2> QED
      BY <1>3, <1>6, <1>7, <2>2
  <1> HIDE DEF t
  <1>9. AdlFacts(r, t)
    BY <1>2, <1>5, <1>7, <1>8 DEF AdlFacts, a
  <1> QED
    BY <1>9 DEF r, t

\* ChaikinOscillator::update, its line.
LEMMA ChaikinStep ==
    ASSUME RoomForTrades, NEW q \in Seq(Trades), NEW e \in Trades, NEW s, ChaikinFacts(q, s)
    PROVE  ChaikinFacts(Append(q, e), ChaikinOscillator(s, e))
  <1> DEFINE r == Append(q, e)
             n == Len(q)
             a == MoveIn(r, n + 1)
             x == e.price * e.quantity
             t == ChaikinOscillator(s, e)
  <1>1. Notional(e) = x /\ x \in Int
    BY TradeNumbers
  <1>2. /\ n \in Nat /\ LastOf(r) = Some(e.price)
        /\ Has(LastOf(q)) <=> n # 0
    BY TickMoves
  <1>3. FlowOf(q) \in Int /\ FlowOf(r) = FlowOf(q) + a * x
    BY SumsGrow
  <1>4. ByTick(FlowOf(q), LastOf(q), e, Notional(e)) = FlowOf(q) + a * x
    BY <1>1, <1>3, ByTickIs
  <1>5. n = 0 => FlowOf(r) = FlowOf(q)
    <2>1. n = 0 => a = 0
      BY DEF MoveIn
    <2> HIDE DEF a, x
    <2> QED
      BY <1>1, <1>3, <2>1
  <1> HIDE DEF r, a, x, n
  <1>6. CASE n = 0
    <2>1. t = [s EXCEPT !.last = Some(e.price)]
      BY <1>2, <1>6 DEF ChaikinFacts, ChaikinOscillator
    <2>2. t.last = LastOf(r) /\ t.line = s.line
      BY <1>2, <2>1
    <2> QED
      BY <1>5, <1>6, <2>2 DEF ChaikinFacts, r
  <1>7. CASE n # 0
    <2>1. t.last = Some(e.price) /\ t.line = ByTick(s.line, s.last, e, Notional(e))
      BY <1>2, <1>7 DEF ChaikinFacts, ChaikinOscillator
    <2> HIDE DEF t
    <2> QED
      BY <1>2, <1>3, <1>4, <2>1 DEF ChaikinFacts, r, t
  <1> QED
    BY <1>6, <1>7

\* CumulativeVwap::update.
LEMMA VwapStep ==
    ASSUME RoomForTrades, NEW q \in Seq(Trades), NEW e \in Trades, NEW s, VwapFacts(q, s)
    PROVE  VwapFacts(Append(q, e), CumulativeVwap(s, e))
  <1> DEFINE r == Append(q, e)
             W == WorthOf(q)
             V == VolumeOf(q)
  <1>1. Notional(e) = e.price * e.quantity /\ Qty(e) = Scale * e.quantity
    BY TradeNumbers
  <1>2. Len(q) \in Nat /\ Len(r) = Len(q) + 1
    BY TickMoves
  <1>3. WorthOf(r) = W + Notional(e) /\ VolumeOf(r) = V + Qty(e)
    BY <1>1, SumsGrow
  <1>4. ValueOr(s.value, 0) = W /\ ValueOr(s.volume, 0) = V
    <2>1. CASE Len(q) = 0
      <3>1. q = <<>>
        BY <2>1
      <3>2. W = 0 /\ V = 0
        BY <3>1, SumsOfNone
      <3>3. s.value = None /\ s.volume = None
        BY <2>1 DEF VwapFacts, CumulativeVwapInit
      <3> QED
        BY <3>2, <3>3 DEF ValueOr, Has
    <2>2. CASE Len(q) # 0
      <3>1. s.value = <<W>> /\ s.volume = <<V>>
        BY <2>2 DEF VwapFacts, Some
      <3> QED
        BY <3>1 DEF ValueOr, Has, None, Value
    <2> QED
      BY <2>1, <2>2
  <1> HIDE DEF r, W, V
  <1>5. CumulativeVwap(s, e) = [value |-> Some(WorthOf(r)), volume |-> Some(VolumeOf(r))]
    BY <1>3, <1>4 DEF CumulativeVwap, Add
  <1>6. Len(r) # 0
    BY <1>2
  <1> QED
    BY <1>5, <1>6 DEF VwapFacts, r

\* PriceTarget::update.
LEMMA TargetStep ==
    ASSUME RoomForTrades, NEW q \in Seq(Trades), NEW e \in Trades, NEW s, TargetFacts(q, s)
    PROVE  TargetFacts(Append(q, e), PriceTarget(s, e))
  <1> DEFINE r == Append(q, e)
  <1>1. Notional(e) = e.price * e.quantity /\ Qty(e) = Scale * e.quantity
    BY TradeNumbers
  <1>2. WorthOf(r) = WorthOf(q) + Notional(e) /\ VolumeOf(r) = VolumeOf(q) + Qty(e)
    BY <1>1, SumsGrow
  <1>3. LastOf(r) = Some(e.price)
    BY TickMoves
  <1> HIDE DEF r
  <1> QED
    BY <1>2, <1>3 DEF TargetFacts, PriceTarget, Add, r

\* WeightedDrift::update.
LEMMA DriftStep ==
    ASSUME RoomForTrades, NEW q \in Seq(Trades), NEW e \in Trades, NEW s, DriftFacts(q, s)
    PROVE  DriftFacts(Append(q, e), WeightedDrift(s, e))
  <1> DEFINE r == Append(q, e)
             n == Len(q)
             t == WeightedDrift(s, e)
             d == e.price - r[n].price
  <1>1. /\ n \in Nat /\ Len(r) = n + 1 /\ LastOf(r) = Some(e.price)
        /\ Has(LastOf(q)) <=> n # 0
        /\ n # 0 => Value(LastOf(q)) = r[n].price /\ r[n].price \in Nat
        /\ \A i \in 1 .. n + 1 : r[i] \in Trades
    BY TickMoves
  <1>2. /\ n < 2 => DriftOf(q) = 0
        /\ n > 0 => DriftOf(q) \in Int /\ DriftOf(r) = DriftOf(q) + d * e.quantity
    BY DriftGrows
  <1> HIDE DEF r, n
  <1>3. t.prev = LastOf(r)
    BY <1>1 DEF WeightedDrift
  <1>4. CASE n = 0
    <2>1. t.drift = s.drift /\ s.drift = None
      BY <1>1, <1>4 DEF WeightedDrift, DriftFacts, n
    <2>2. n + 1 < 2
      BY <1>4
    <2> QED
      BY <1>1, <1>3, <2>1, <2>2 DEF DriftFacts, r
  <1>5. CASE n # 0
    <2>1. t.drift = Some(Add(ValueOr(s.drift, 0), Mul(d, Qty(e))))
      BY <1>1, <1>5 DEF WeightedDrift, DriftFacts, Sub
    <2>2. ValueOr(s.drift, 0) = DriftOf(q)
      <3>1. CASE n < 2
        <4>1. s.drift = None
          BY <3>1 DEF DriftFacts, n
        <4> QED
          BY <1>2, <3>1, <4>1 DEF ValueOr, Has
      <3>2. CASE ~ (n < 2)
        <4>1. s.drift = <<DriftOf(q)>>
          BY <3>2 DEF DriftFacts, Some, n
        <4> QED
          BY <4>1 DEF ValueOr, Has, None, Value
      <3> QED
        BY <3>1, <3>2
    <2>3. Mul(d, Qty(e)) = d * e.quantity
      <3> DEFINE k == e.quantity
                 p == e.price
                 p0 == r[n].price
      <3>1. r[n] \in Trades /\ [price |-> p0, quantity |-> k] \in Trades
        <4>1. n \in 1 .. n + 1
          BY <1>1, <1>5
        <4>2. r[n] \in Trades
          BY <1>1, <4>1
        <4> QED
          BY <4>2 DEF Trades
      <3>2. /\ p * k \in Nat /\ p * k < Half /\ p \in Nat /\ k \in Nat
            /\ p0 * k \in Nat /\ p0 * k < Half /\ p0 \in Nat
        <4>1. p * k \in Nat /\ p * k < Half /\ p \in Nat /\ k \in Nat
          BY TradeNumbers, TradeType
        <4>2. p0 \in Nat
          BY <3>1, TradeType
        <4>3. p0 \in TradePrices /\ k \in Lots
          BY <3>1, TradeType
        <4>4. p0 * k < Half
          BY <4>3 DEF RoomForTrades
        <4>5. p0 * k \in Nat
          BY <4>1, <4>2
        <4> QED
          BY <4>1, <4>2, <4>4, <4>5
      <3>3. d * k = p * k - p0 * k /\ d \in Int
        BY <3>2
      <3>4. -Half <= d * k /\ d * k < Half
        <4> HIDE DEF d, k, p, p0
        <4> QED
          BY <3>2, <3>3, ScaleType
      <3> QED
        BY <3>2, <3>3, <3>4, MulWhole DEF Qty
    <2>4. n > 0 /\ ~ (n + 1 < 2)
      BY <1>1, <1>5
    <2> HIDE DEF t, d
    <2>5. t.drift = Some(DriftOf(r))
      BY <1>2, <2>1, <2>2, <2>3, <2>4 DEF Add
    <2> QED
      BY <1>1, <1>3, <2>4, <2>5 DEF DriftFacts, r, t
  <1> QED
    BY <1>4, <1>5

\* The width has room for a relative move of the price by a quantity.
RoomForMoves ==
    \A p, r \in TradePrices, k \in Lots : Relative(p, r) * k < Half

\* What VolumePriceTrend::update adds: the division cuts towards zero, so a
\* fall counts as much as the rise of the same size.
LEMMA RelativeMove ==
    ASSUME RoomForTrades, RoomForMoves, NEW p \in TradePrices, NEW r \in TradePrices,
           NEW k \in Lots, NEW a, a = IF r > p THEN 1 ELSE IF r < p THEN -1 ELSE 0
    PROVE  /\ Relative(p, r) * k \in Nat /\ a * (Relative(p, r) * k) \in Int
           /\ Mul(FromInt(k), Div(r - p, p)) = a * (Relative(p, r) * k)
  <1> DEFINE m == Magnitude(r - p)
             x == Relative(p, r)
             y == IF r < p THEN -x ELSE x
  <1>1. /\ p \in Nat /\ p > 0 /\ r \in Nat /\ k \in Nat /\ k > 0
        /\ Scale \in Nat /\ Scale > 0 /\ Half \in Nat /\ Half > 0
    BY CompositeAssumption, ScaleType
  <1>2. m \in Nat /\ m = (IF r < p THEN p - r ELSE r - p)
    BY <1>1 DEF Magnitude
  <1>3. m * Scale \in Nat /\ (m = 0 => m * Scale = 0) /\ (m > 0 => m * Scale > 0)
    <2>1. \A u, v \in Nat : /\ u * v \in Nat /\ (u = 0 => u * v = 0)
                             /\ (u > 0 /\ v > 0 => u * v > 0)
      OBVIOUS
    <2> QED
      BY <1>1, <1>2, <2>1
  <1>4. x = (m * Scale) \div p
    BY DEF Relative
  <1> HIDE DEF m, x
  <1>5. x \in Nat /\ (r = p => x = 0)
    <2>1. r = p => m = 0
      BY <1>1, <1>2
    <2> QED
      BY <1>1, <1>3, <1>4, <2>1
  <1>6. x * k \in Nat /\ x <= x * k /\ x * k < Half
    <2>1. \A u, v \in Nat : v > 0 => u * v \in Nat /\ u <= u * v
      OBVIOUS
    <2> QED
      BY <1>1, <1>5, <2>1 DEF RoomForMoves, x
  <1>7. TruncDiv((r - p) * Scale, p) = y
    <2>1. (r - p) * Scale = IF r < p THEN -(m * Scale) ELSE m * Scale
      <3>1. \A u, v \in Int : (-u) * v = -(u * v)
        OBVIOUS
      <3>2. r - p = IF r < p THEN -m ELSE m
        BY <1>1, <1>2
      <3> QED
        BY <1>1, <1>2, <3>1, <3>2
    <2>2. Magnitude((r - p) * Scale) = m * Scale /\ Magnitude(p) = p
      BY <1>1, <1>3, <2>1 DEF Magnitude
    <2>3. (r - p) * Scale < 0 <=> r < p
      BY <1>1, <1>2, <1>3, <2>1
    <2> QED
      BY <1>1, <1>4, <2>2, <2>3 DEF TruncDiv
  <1>8. y \in Int /\ -Half <= y /\ y < Half
    BY <1>1, <1>5, <1>6
  <1>9. Div(r - p, p) = y
    BY <1>7, <1>8, WrappedSame DEF Div
  <1>10. y * k = a * (x * k) /\ y * k \in Int /\ -Half <= y * k /\ y * k < Half
    <2>1. CASE r > p
      BY <1>1, <1>5, <1>6, <2>1
    <2>2. CASE r < p
      <3>1. (-x) * k = -(x * k)
        BY <1>1, <1>5
      <3> QED
        BY <1>1, <1>6, <2>2, <3>1
    <2>3. CASE r = p
      BY <1>1, <1>5, <1>6, <2>3
    <2> QED
      BY <1>1, <2>1, <2>2, <2>3
  <1> HIDE DEF y
  <1>11. Mul(FromInt(k), y) = y * k
    <2>1. FromInt(k) * y = (y * k) * Scale
      BY <1>1, <1>8 DEF FromInt
    <2>2. TruncDiv((y * k) * Scale, Scale) = y * k
      BY <1>1, <1>10, TruncDivExact
    <2>3. Wrapped(y * k) = y * k
      BY <1>10, WrappedSame
    <2> QED
      BY <2>1, <2>2, <2>3 DEF Mul
  <1> QED
    BY <1>6, <1>9, <1>10, <1>11 DEF x

\* The summands of the trend are numbers.
LEMMA TrendNumber ==
    ASSUME RoomForTrades, RoomForMoves, NEW q \in Seq(Trades), NEW i \in 1 .. Len(q), i # 1
    PROVE  TrendIn(q, i) \in Int
  <1>1. q[i] \in Trades /\ q[i - 1] \in Trades
    BY NumbersOf
  <1>2. /\ q[i].price \in TradePrices /\ q[i - 1].price \in TradePrices
        /\ q[i].quantity \in Lots
    BY <1>1, TradeType
  <1>3. MoveIn(q, i) = IF q[i].price > q[i - 1].price THEN 1
                       ELSE IF q[i].price < q[i - 1].price THEN -1 ELSE 0
    BY DEF MoveIn
  <1> QED
    BY <1>2, <1>3, RelativeMove DEF TrendIn

\* One more trade adds its relative move, by its quantity, to the trend.
LEMMA TrendGrows ==
    ASSUME RoomForTrades, RoomForMoves, NEW q \in Seq(Trades), NEW e \in Trades
    PROVE  LET r == Append(q, e)
               n == Len(q)
           IN  /\ n < 2 => TrendOf(q) = 0
               /\ n > 0 => /\ TrendOf(q) \in Int
                           /\ TrendOf(r) = TrendOf(q) + TrendIn(r, n + 1)
  <1> DEFINE r == Append(q, e)
             n == Len(q)
             f == [i \in 2 .. n |-> TrendIn(q, i)]
             g == [i \in 2 .. n + 1 |-> TrendIn(r, i)]
  <1>1. /\ n \in Nat /\ Len(r) = n + 1 /\ r[n + 1] = e /\ r \in Seq(Trades)
        /\ \A i \in 1 .. n : r[i] = q[i] /\ MoveIn(r, i) = MoveIn(q, i)
    BY TickMoves
  <1> HIDE DEF r
  <1>2. TrendOf(q) = SumFunctionOnSet(f, 2 .. n) /\ TrendOf(r) = SumFunctionOnSet(g, 2 .. n + 1)
    BY <1>1 DEF TrendOf, SumFunction
  <1>3. n < 2 => TrendOf(q) = 0
    <2>1. n < 2 => 2 .. n = {}
      BY <1>1
    <2> HIDE DEF f
    <2> QED
      BY <1>2, <2>1, SumOfNone
  <1>4. CASE n > 0
    <2>1. \A i \in 2 .. n : TrendIn(r, i) = TrendIn(q, i) /\ TrendIn(r, i) \in Int
      <3> SUFFICES ASSUME NEW i \in 2 .. n
                   PROVE  TrendIn(r, i) = TrendIn(q, i) /\ TrendIn(r, i) \in Int
        OBVIOUS
      <3>1. i \in 1 .. n /\ i - 1 \in 1 .. n /\ i \in 1 .. Len(r) /\ i # 1
        BY <1>1
      <3>2. r[i] = q[i] /\ r[i - 1] = q[i - 1] /\ MoveIn(r, i) = MoveIn(q, i)
        BY <1>1, <3>1
      <3>3. TrendIn(r, i) \in Int
        BY <1>1, <3>1, TrendNumber
      <3> QED
        BY <3>2, <3>3 DEF TrendIn
    <2>2. g[n + 1] = TrendIn(r, n + 1) /\ g[n + 1] \in Int
      <3>1. n + 1 \in 2 .. n + 1 /\ n + 1 \in 1 .. Len(r) /\ n + 1 # 1
        BY <1>1, <1>4
      <3> QED
        BY <1>1, <3>1, TrendNumber
    <2>3. \A i \in 2 .. n : f[i] \in Int /\ f[i] = g[i]
      <3>1. \A i \in 2 .. n : i \in 2 .. n + 1
        BY <1>1
      <3> QED
        BY <2>1, <3>1
    <2>4. /\ IsFiniteSet(2 .. n) /\ n + 1 \notin 2 .. n
          /\ 2 .. n + 1 = (2 .. n) \cup {n + 1}
      <3>1. IsFiniteSet(2 .. n)
        BY <1>1, FS_Interval
      <3> QED
        BY <1>1, <1>4, <3>1
    <2>5. \A i \in (2 .. n) \cup {n + 1} : g[i] \in Int
      BY <2>2, <2>3
    <2> HIDE DEF f, g, n
    <2>6. SumFunctionOnSet(f, 2 .. n) \in Int
          /\ SumFunctionOnSet(f, 2 .. n) = SumFunctionOnSet(g, 2 .. n)
      BY <2>3, <2>4, SumSame
    <2>7. SumFunctionOnSet(g, (2 .. n) \cup {n + 1}) = SumFunctionOnSet(g, 2 .. n) + g[n + 1]
      BY <2>4, <2>5, SumAdds
    <2> QED
      BY <1>2, <1>3, <2>2, <2>4, <2>6, <2>7 DEF r, n
  <1> QED
    BY <1>3, <1>4 DEF r

\* VolumePriceTrend::update.
LEMMA TrendStep ==
    ASSUME RoomForTrades, RoomForMoves, NEW q \in Seq(Trades), NEW e \in Trades, NEW s,
           TrendFacts(q, s)
    PROVE  TrendFacts(Append(q, e), VolumePriceTrend(s, e))
  <1> DEFINE r == Append(q, e)
             n == Len(q)
             t == VolumePriceTrend(s, e)
             p == r[n].price
  <1>1. /\ n \in Nat /\ Len(r) = n + 1 /\ LastOf(r) = Some(e.price) /\ r[n + 1] = e
        /\ r \in Seq(Trades)
        /\ Has(LastOf(q)) <=> n # 0
        /\ n # 0 => Value(LastOf(q)) = p
        /\ \A i \in 1 .. n + 1 : r[i] \in Trades
    BY TickMoves
  <1>2. /\ n < 2 => TrendOf(q) = 0
        /\ n > 0 => TrendOf(q) \in Int /\ TrendOf(r) = TrendOf(q) + TrendIn(r, n + 1)
    BY TrendGrows
  <1>3. n + 1 < 2 => TrendOf(r) = 0
    BY <1>1, TrendGrows
  <1> HIDE DEF r, n
  <1>4. t.last = LastOf(r)
    BY <1>1 DEF VolumePriceTrend
  <1>5. CASE n = 0
    <2>1. t.vpt = s.vpt /\ s.vpt = 0
      BY <1>1, <1>2, <1>5 DEF VolumePriceTrend, TrendFacts, n
    <2>2. n + 1 < 2
      BY <1>5
    <2> QED
      BY <1>3, <1>4, <2>1, <2>2 DEF TrendFacts, r
  <1>6. CASE n # 0
    <2>1. n > 0 /\ n \in 1 .. n + 1 /\ n + 1 # 1 /\ (n + 1) - 1 = n
      BY <1>1, <1>6
    <2>2. p \in TradePrices /\ p > 0 /\ e.price \in TradePrices /\ e.quantity \in Lots
      BY <1>1, <2>1, TradeType
    <2>3. t.vpt = Add(s.vpt, Mul(FromInt(e.quantity), Div(e.price - p, p)))
      BY <1>1, <1>6, <2>2 DEF VolumePriceTrend, TrendFacts, Sub, Qty
    <2>4. MoveIn(r, n + 1) = IF e.price > p THEN 1 ELSE IF e.price < p THEN -1 ELSE 0
      BY <1>1, <2>1 DEF MoveIn
    <2>5. Mul(FromInt(e.quantity), Div(e.price - p, p)) = TrendIn(r, n + 1)
      <3>1. TrendIn(r, n + 1) = MoveIn(r, n + 1) * (Relative(p, e.price) * e.quantity)
        BY <1>1, <2>1 DEF TrendIn
      <3> QED
        BY <2>2, <2>4, <3>1, RelativeMove
    <2>6. s.vpt = TrendOf(q)
      BY DEF TrendFacts
    <2> HIDE DEF t, p
    <2>7. t.vpt = TrendOf(r)
      BY <1>2, <2>1, <2>3, <2>5, <2>6 DEF Add
    <2> QED
      BY <1>4, <2>7 DEF TrendFacts, r, t
  <1> QED
    BY <1>5, <1>6

\* A product grows with its factor.
LEMMA Larger ==
    ASSUME NEW x \in Int, NEW y \in Int, x <= y, NEW z \in Nat
    PROVE  x * z <= y * z
  <1>1. (y - x) * z \in Nat /\ (y - x) * z = y * z - x * z
    OBVIOUS
  <1>2. x * z \in Int /\ y * z \in Int
    OBVIOUS
  <1> QED
    BY <1>1, <1>2

\* One more trade keeps the average inside.
LEMMA AverageStep ==
    ASSUME RoomForTrades, NEW q \in Seq(Trades), NEW e \in Trades, AverageInside(q)
    PROVE  AverageInside(Append(q, e))
  <1> DEFINE r == Append(q, e)
             n == Len(q)
             V == VolumeOf(q)
             W == WorthOf(q)
             v == Scale * e.quantity
             w == e.price * e.quantity
  <1>1. /\ n \in Nat /\ Len(r) = n + 1 /\ r[n + 1] = e
        /\ \A i \in 1 .. n : r[i] = q[i]
    BY TickMoves
  <1>2. VolumeOf(r) = V + v /\ WorthOf(r) = W + w
    BY SumsGrow
  <1>3. V \in Nat /\ W \in Nat /\ v \in Nat /\ v > 0 /\ w \in Nat
    BY TradeNumbers DEF AverageInside
  <1>4. Scale \in Nat /\ e.price \in Nat /\ Scale * w = e.price * v
    <2>1. Scale \in Nat /\ e.price \in Nat /\ e.quantity \in Nat
      BY ScaleType, TradeType
    <2> QED
      BY <2>1
  <1>5. \A i \in 1 .. n : q[i].price \in Nat
    <2>1. \A i \in 1 .. n : q[i] \in Trades
      OBVIOUS
    <2> QED
      BY <2>1, TradeType
  <1> DEFINE p == e.price
             inside(i) == i \in 1 .. n + 1
  <1>6. \E i \in 1 .. n + 1 : r[i].price * (V + v) <= Scale * (W + w)
    <2>1. p * (V + v) = p * V + p * v /\ Scale * (W + w) = Scale * W + p * v
      <3>1. \A x, y, z \in Nat : x * (y + z) = x * y + x * z
        OBVIOUS
      <3> QED
        BY <1>3, <1>4, <3>1
    <2>2. p * V \in Nat /\ p * v \in Nat /\ Scale * W \in Nat
      BY <1>3, <1>4
    <2>3. CASE n = 0
      <3>1. q = <<>>
        BY <2>3
      <3>2. V = 0 /\ W = 0
        BY <3>1, SumsOfNone
      <3>3. p * V <= Scale * W
        BY <1>3, <1>4, <3>2
      <3>4. r[n + 1].price = p /\ n + 1 \in 1 .. n + 1
        BY <1>1
      <3> HIDE DEF p, V, W, v, w, r
      <3>5. p * (V + v) <= Scale * (W + w)
        BY <2>1, <2>2, <3>3
      <3> QED
        BY <3>4, <3>5
    <2>4. CASE n # 0
      <3>1. PICK i \in 1 .. n : q[i].price * V <= Scale * W
        BY <2>4 DEF AverageInside
      <3> DEFINE x == q[i].price
      <3>2. x \in Nat /\ r[i].price = x /\ r[n + 1].price = p
            /\ i \in 1 .. n + 1 /\ n + 1 \in 1 .. n + 1
        BY <1>1, <1>5
      <3>3. x * V \in Nat /\ x * v \in Nat
        BY <1>3, <3>2
      <3>4. CASE p <= x
        <4>1. p * V <= x * V
          BY <1>3, <1>4, <3>2, <3>4, Larger
        <4> HIDE DEF p, V, W, v, w, r, x
        <4>2. p * (V + v) <= Scale * (W + w)
          BY <2>1, <2>2, <3>1, <3>3, <4>1 DEF x
        <4> QED
          BY <3>2, <4>2
      <3>5. CASE ~ (p <= x)
        <4>1. x * v <= p * v
          BY <1>3, <1>4, <3>2, <3>5, Larger
        <4>2. x * (V + v) = x * V + x * v
          <5>1. \A a, y, z \in Nat : a * (y + z) = a * y + a * z
            OBVIOUS
          <5> QED
            BY <1>3, <3>2, <5>1
        <4>3. x * V <= Scale * W
          BY <3>1
        <4> HIDE DEF p, V, W, v, w, r, x
        <4>4. x * (V + v) <= Scale * (W + w)
          BY <2>1, <2>2, <3>3, <4>1, <4>2, <4>3
        <4> QED
          BY <3>2, <4>4
      <3> QED
        BY <3>4, <3>5
    <2> QED
      BY <2>3, <2>4
  <1>7. \E i \in 1 .. n + 1 : Scale * (W + w) <= r[i].price * (V + v)
    <2>1. p * (V + v) = p * V + p * v /\ Scale * (W + w) = Scale * W + p * v
      <3>1. \A x, y, z \in Nat : x * (y + z) = x * y + x * z
        OBVIOUS
      <3> QED
        BY <1>3, <1>4, <3>1
    <2>2. p * V \in Nat /\ p * v \in Nat /\ Scale * W \in Nat
      BY <1>3, <1>4
    <2>3. CASE n = 0
      <3>1. q = <<>>
        BY <2>3
      <3>2. V = 0 /\ W = 0
        BY <3>1, SumsOfNone
      <3>3. Scale * W <= p * V
        BY <1>3, <1>4, <3>2
      <3>4. r[n + 1].price = p /\ n + 1 \in 1 .. n + 1
        BY <1>1
      <3> HIDE DEF p, V, W, v, w, r
      <3>5. Scale * (W + w) <= p * (V + v)
        BY <2>1, <2>2, <3>3
      <3> QED
        BY <3>4, <3>5
    <2>4. CASE n # 0
      <3>1. PICK i \in 1 .. n : Scale * W <= q[i].price * V
        BY <2>4 DEF AverageInside
      <3> DEFINE x == q[i].price
      <3>2. x \in Nat /\ r[i].price = x /\ r[n + 1].price = p
            /\ i \in 1 .. n + 1 /\ n + 1 \in 1 .. n + 1
        BY <1>1, <1>5
      <3>3. x * V \in Nat /\ x * v \in Nat
        BY <1>3, <3>2
      <3>4. CASE x <= p
        <4>1. x * V <= p * V
          BY <1>3, <1>4, <3>2, <3>4, Larger
        <4> HIDE DEF p, V, W, v, w, r, x
        <4>2. Scale * (W + w) <= p * (V + v)
          BY <2>1, <2>2, <3>1, <3>3, <4>1 DEF x
        <4> QED
          BY <3>2, <4>2
      <3>5. CASE ~ (x <= p)
        <4>1. p * v <= x * v
          BY <1>3, <1>4, <3>2, <3>5, Larger
        <4>2. x * (V + v) = x * V + x * v
          <5>1. \A a, y, z \in Nat : a * (y + z) = a * y + a * z
            OBVIOUS
          <5> QED
            BY <1>3, <3>2, <5>1
        <4>3. Scale * W <= x * V
          BY <3>1
        <4> HIDE DEF p, V, W, v, w, r, x
        <4>4. Scale * (W + w) <= x * (V + v)
          BY <2>1, <2>2, <3>3, <4>1, <4>2, <4>3
        <4> QED
          BY <3>2, <4>4
      <3> QED
        BY <3>4, <3>5
    <2> QED
      BY <2>3, <2>4
  <1>8. V + v \in Nat /\ V + v > 0 /\ W + w \in Nat
    BY <1>3
  <1> HIDE DEF r, V, W, v, w
  <1> QED
    BY <1>1, <1>2, <1>6, <1>7, <1>8 DEF AverageInside, r

\* The average price that a signal computes lies between two prices.
LEMMA AverageComputed ==
    ASSUME RoomForTrades, NEW q \in Seq(Trades), AverageInside(q), Len(q) # 0
    PROVE  LET x == Div(WorthOf(q), VolumeOf(q))
           IN  /\ VolumeOf(q) > 0
               /\ \E i, j \in 1 .. Len(q) : q[i].price <= x /\ x <= q[j].price
  <1> DEFINE V == VolumeOf(q)
             W == WorthOf(q)
             Q == (W * Scale) \div V
  <1>1. PICK i \in 1 .. Len(q) : q[i].price * V <= Scale * W
    BY DEF AverageInside
  <1>2. PICK j \in 1 .. Len(q) : Scale * W <= q[j].price * V
    BY DEF AverageInside
  <1> DEFINE lo == q[i].price
             hi == q[j].price
  <1>3. V \in Nat /\ V > 0 /\ W \in Nat /\ Scale \in Nat /\ Half \in Nat
    BY ScaleType DEF AverageInside
  <1>4. lo \in Nat /\ hi \in Nat /\ hi < Half
    <2>1. q[i] \in Trades /\ q[j] \in Trades
      OBVIOUS
    <2> QED
      BY <2>1, TradeType, TradeNumbers
  <1>5. lo * V <= Scale * W /\ Scale * W <= hi * V
    BY <1>1, <1>2
  <1> HIDE DEF V, W, lo, hi
  <1>6. /\ W * Scale \in Nat /\ W * Scale = Scale * W
        /\ Q \in Nat /\ Q * V <= W * Scale /\ W * Scale < (Q + 1) * V
    <2>1. W * Scale \in Nat /\ W * Scale = Scale * W
      BY <1>3
    <2> DEFINE k == W * Scale
    <2> HIDE DEF k
    <2>2. k \div V \in Nat /\ (k \div V) * V <= k /\ k < (k \div V + 1) * V
      BY <1>3, <2>1 DEF k
    <2> QED
      BY <2>1, <2>2 DEF k
  <1> HIDE DEF Q
  <1>7. lo <= Q
    <2> SUFFICES ASSUME Q + 1 <= lo PROVE FALSE
      BY <1>4, <1>6
    <2>1. (Q + 1) * V <= lo * V
      BY <1>3, <1>4, <1>6, Larger
    <2>2. (Q + 1) * V \in Nat /\ lo * V \in Nat
      BY <1>3, <1>4, <1>6
    <2> QED
      BY <1>5, <1>6, <2>1, <2>2
  <1>8. Q <= hi
    <2> SUFFICES ASSUME hi + 1 <= Q PROVE FALSE
      BY <1>4, <1>6
    <2>1. (hi + 1) * V <= Q * V
      BY <1>3, <1>4, <1>6, Larger
    <2>2. (hi + 1) * V = hi * V + V /\ hi * V \in Nat /\ Q * V \in Nat
      BY <1>3, <1>4, <1>6
    <2> QED
      BY <1>3, <1>5, <1>6, <2>1, <2>2
  <1>9. Div(W, V) = Q
    <2>1. TruncDiv(W * Scale, V) = Q
      BY <1>3, <1>6 DEF TruncDiv, Magnitude, Q
    <2>2. Wrapped(Q) = Q
      BY <1>3, <1>4, <1>6, <1>8, WrappedSame
    <2> QED
      BY <2>1, <2>2 DEF Div
  <1> QED
    BY <1>3, <1>7, <1>8, <1>9 DEF V, W, lo, hi

-----------------------------------------------------------------------------
(* The sums of the session.                                                *)

\* What the signals that keep a sum know of the trades.
SumFacts ==
    /\ ObvFacts(Seen, signals.obv)
    /\ AdlFacts(Seen, signals.adl)
    /\ ChaikinFacts(Seen, signals.chaikin)
    /\ VwapFacts(Seen, signals.vwap)
    /\ TargetFacts(Seen, signals.target)
    /\ DriftFacts(Seen, signals.drift)
    /\ TrendFacts(Seen, signals.vpt)
    /\ AverageInside(Seen)

\* Before the first trade.
LEMMA SumsStart ==
    /\ ObvFacts(<<>>, OnBalanceVolumeInit)
    /\ AdlFacts(<<>>, AccumulationDistributionInit)
    /\ ChaikinFacts(<<>>, ChaikinInit)
    /\ VwapFacts(<<>>, CumulativeVwapInit)
    /\ TargetFacts(<<>>, PriceTargetInit)
    /\ DriftFacts(<<>>, WeightedDriftInit)
    /\ TrendFacts(<<>>, VolumePriceTrendInit)
    /\ AverageInside(<<>>)
  <1> DEFINE none == <<>>
  <1>1. Len(none) = 0 /\ LastOf(none) = None
    BY DEF LastOf
  <1>2. /\ VolumeOf(none) = 0 /\ WorthOf(none) = 0
        /\ BalanceOf(none) = 0 /\ FlowOf(none) = 0 /\ TrendOf(none) = 0
    BY SumsOfNone
  <1> HIDE DEF none
  <1>3. ObvFacts(none, OnBalanceVolumeInit)
    BY <1>1, <1>2 DEF ObvFacts, OnBalanceVolumeInit
  <1>4. AdlFacts(none, AccumulationDistributionInit)
    BY <1>1, <1>2 DEF AdlFacts, AccumulationDistributionInit
  <1>5. ChaikinFacts(none, ChaikinInit)
    BY <1>1, <1>2 DEF ChaikinFacts, ChaikinInit
  <1>6. VwapFacts(none, CumulativeVwapInit)
    BY <1>1 DEF VwapFacts
  <1>7. TargetFacts(none, PriceTargetInit)
    BY <1>1, <1>2 DEF TargetFacts, PriceTargetInit
  <1>8. DriftFacts(none, WeightedDriftInit)
    BY <1>1 DEF DriftFacts, WeightedDriftInit
  <1>9. AverageInside(none)
    BY <1>1, <1>2 DEF AverageInside
  <1>10. TrendFacts(none, VolumePriceTrendInit)
    BY <1>1, <1>2 DEF TrendFacts, VolumePriceTrendInit
  <1> QED
    BY <1>3, <1>4, <1>5, <1>6, <1>7, <1>8, <1>9, <1>10 DEF none

\* A trade that the signals process keeps what they know.
LEMMA SumsStep ==
    ASSUME RoomForTrades, RoomForMoves, SessionOK, SumFacts, NEW e \in Trades,
           Seen' = Append(Seen, e), signals' = Updated(signals, e)
    PROVE  SumFacts'
  <1>1. Seen \in Seq(Trades)
    BY SeenIs
  <1>2. /\ signals'.obv = OnBalanceVolume(signals.obv, e)
        /\ signals'.adl = AccumulationDistribution(signals.adl, e)
        /\ signals'.chaikin = ChaikinOscillator(signals.chaikin, e)
        /\ signals'.vwap = CumulativeVwap(signals.vwap, e)
        /\ signals'.target = PriceTarget(signals.target, e)
        /\ signals'.drift = WeightedDrift(signals.drift, e)
        /\ signals'.vpt = VolumePriceTrend(signals.vpt, e)
    BY DEF Updated
  <1>3. /\ ObvFacts(Seen', signals'.obv)
        /\ AdlFacts(Seen', signals'.adl)
        /\ ChaikinFacts(Seen', signals'.chaikin)
    BY <1>1, <1>2, ObvStep, AdlStep, ChaikinStep DEF SumFacts
  <1>4. /\ VwapFacts(Seen', signals'.vwap)
        /\ TargetFacts(Seen', signals'.target)
        /\ DriftFacts(Seen', signals'.drift)
        /\ TrendFacts(Seen', signals'.vpt)
    BY <1>1, <1>2, VwapStep, TargetStep, DriftStep, TrendStep DEF SumFacts
  <1>5. AverageInside(Seen')
    BY <1>1, AverageStep DEF SumFacts
  <1> QED
    BY <1>3, <1>4, <1>5 DEF SumFacts

\* The sums of the tape are the sums of what was processed.
LEMMA TapeSums ==
    ASSUME SessionOK
    PROVE  /\ SumFunction([i \in DOMAIN Seen |-> ValueOf(i)]) = WorthOf(Seen)
           /\ SumFunction([i \in DOMAIN Seen |-> LotsOf(i)]) = VolumeOf(Seen)
           /\ SumFunction([i \in DOMAIN Seen |-> Move(i) * ValueOf(i)]) = FlowOf(Seen)
           /\ SumFunction([i \in DOMAIN Seen |-> Move(i) * LotsOf(i)]) = BalanceOf(Seen)
           /\ SumFunction([i \in 2 .. Len(Seen) |->
                    (tape[i].price - tape[i - 1].price) * tape[i].quantity]) = DriftOf(Seen)
           /\ SumFunction([i \in 2 .. Len(Seen) |->
                    Move(i) * (Relative(tape[i - 1].price, tape[i].price)
                               * tape[i].quantity)]) = TrendOf(Seen)
  <1> DEFINE n == Len(Seen)
  <1>1. /\ n \in Nat /\ DOMAIN Seen = 1 .. n
        /\ \A i \in 1 .. n : Seen[i] = tape[i] /\ Move(i) = MoveIn(Seen, i)
    BY SeenIs
  <1> HIDE DEF n
  <1>2. \A i \in 1 .. n : ValueOf(i) = ValueIn(Seen, i) /\ LotsOf(i) = LotsIn(Seen, i)
    BY <1>1 DEF ValueOf, LotsOf, ValueIn, LotsIn
  <1>3. [i \in 1 .. n |-> ValueOf(i)] = [i \in 1 .. n |-> ValueIn(Seen, i)]
    BY <1>2
  <1>4. [i \in 1 .. n |-> LotsOf(i)] = [i \in 1 .. n |-> LotsIn(Seen, i)]
    BY <1>2
  <1>5. [i \in 1 .. n |-> Move(i) * ValueOf(i)]
            = [i \in 1 .. n |-> MoveIn(Seen, i) * ValueIn(Seen, i)]
    BY <1>1, <1>2
  <1>6. [i \in 1 .. n |-> Move(i) * LotsOf(i)]
            = [i \in 1 .. n |-> MoveIn(Seen, i) * LotsIn(Seen, i)]
    BY <1>1, <1>2
  <1>7. \A i \in 2 .. n : /\ Seen[i] = tape[i] /\ Seen[i - 1] = tape[i - 1]
                           /\ Move(i) = MoveIn(Seen, i)
    <2>1. \A i \in 2 .. n : i \in 1 .. n /\ i - 1 \in 1 .. n
      BY <1>1
    <2> QED
      BY <1>1, <2>1
  <1>8. [i \in 2 .. n |-> (tape[i].price - tape[i - 1].price) * tape[i].quantity]
            = [i \in 2 .. n |-> DriftIn(Seen, i)]
    BY <1>7 DEF DriftIn
  <1>9. [i \in 2 .. n |-> Move(i) * (Relative(tape[i - 1].price, tape[i].price)
                                     * tape[i].quantity)]
            = [i \in 2 .. n |-> TrendIn(Seen, i)]
    BY <1>7 DEF TrendIn
  <1> QED
    BY <1>1, <1>3, <1>4, <1>5, <1>6, <1>8, <1>9
        DEF n, WorthOf, VolumeOf, FlowOf, BalanceOf, DriftOf, TrendOf

\* What the signals know is what AccumulatorsAreSums says of them.
LEMMA SumFactsSuffice ==
    ASSUME RoomForTrades, SessionOK, SumFacts
    PROVE  AccumulatorsAreSums
  <1> DEFINE n == Len(Seen)
             W == WorthOf(Seen)
             V == VolumeOf(Seen)
             x == Div(W, V)
  <1>1. /\ Seen \in Seq(Trades) /\ n \in Nat /\ DOMAIN Seen = 1 .. n
        /\ \A i \in 1 .. n : Seen[i] = tape[i] /\ Move(i) = MoveIn(Seen, i)
    BY SeenIs
  <1>2. /\ signals.obv.obv = BalanceOf(Seen)
        /\ signals.adl.line = FlowOf(Seen)
        /\ signals.chaikin.line = FlowOf(Seen)
        /\ signals.vpt.vpt = TrendOf(Seen)
    BY DEF SumFacts, ObvFacts, AdlFacts, ChaikinFacts, TrendFacts
  <1>3. ASSUME n # 0
        PROVE  /\ signals.vwap = [value |-> Some(W), volume |-> Some(V)]
               /\ Value(Vwap(signals.vwap)) = x
               /\ VolumeNode(signals.target) = Some(x)
               /\ PriceTargetDistance(signals.target) = Some(tape[n].price - x)
               /\ \E i, j \in 1 .. n : tape[i].price <= x /\ x <= tape[j].price
    <2>1. /\ V > 0
          /\ \E i, j \in 1 .. n : Seen[i].price <= x /\ x <= Seen[j].price
      BY <1>1, <1>3, AverageComputed DEF SumFacts
    <2>2. signals.vwap = [value |-> Some(W), volume |-> Some(V)]
      BY <1>3 DEF SumFacts, VwapFacts
    <2>3. Value(Vwap(signals.vwap)) = x
      <3>1. signals.vwap.value = <<W>> /\ signals.vwap.volume = <<V>>
        BY <2>2 DEF Some
      <3> HIDE DEF W, V
      <3>2. Vwap(signals.vwap) = Some(Div(W, V))
        BY <2>1, <3>1 DEF Vwap, Has, None, Value, ValueOr
      <3> QED
        BY <3>2 DEF Some, Value
    <2>4. /\ signals.target.last = Some(Seen[n].price)
          /\ signals.target.notional = W /\ signals.target.volume = V
      BY <1>3 DEF SumFacts, TargetFacts, LastOf
    <2>5. VolumeNode(signals.target) = Some(x)
      BY <2>1, <2>4 DEF VolumeNode
    <2>6. PriceTargetDistance(signals.target) = Some(Seen[n].price - x)
      <3> HIDE DEF x, n
      <3> QED
        BY <2>4, <2>5 DEF PriceTargetDistance, Has, None, Some, Value, Sub
    <2>7. Seen[n] = tape[n]
      BY <1>1, <1>3
    <2> HIDE DEF x
    <2> QED
      BY <1>1, <2>1, <2>2, <2>3, <2>5, <2>6, <2>7
  <1>4. ASSUME n > 1
        PROVE  /\ AdSlope(signals.adl) = Some(Move(n) * ValueOf(n))
               /\ signals.drift.drift = Some(DriftOf(Seen))
    <2>1. /\ Has(signals.adl.prev)
          /\ signals.adl.line - Value(signals.adl.prev) = MoveIn(Seen, n) * ValueIn(Seen, n)
      BY <1>4 DEF SumFacts, AdlFacts
    <2>2. Move(n) = MoveIn(Seen, n) /\ ValueOf(n) = ValueIn(Seen, n)
      BY <1>1, <1>4 DEF ValueOf, ValueIn
    <2>3. AdSlope(signals.adl) = Some(Move(n) * ValueOf(n))
      BY <2>1, <2>2 DEF AdSlope, Sub
    <2>4. ~ (n < 2)
      BY <1>1, <1>4
    <2>5. signals.drift.drift = Some(DriftOf(Seen))
      BY <2>4 DEF SumFacts, DriftFacts
    <2> QED
      BY <2>3, <2>5
  <1>5. DOMAIN Seen # {} => n # 0
    BY <1>1
  <1> HIDE DEF x
  <1> QED
    BY <1>1, <1>2, <1>3, <1>4, <1>5, TapeSums DEF AccumulatorsAreSums

-----------------------------------------------------------------------------
(* The session.                                                            *)

\* The session's types hold always.
THEOREM SessionStaysOK == Spec => []SessionOK
  <1>1. Init => SessionOK
    BY SessionStarts
  <1>2. SessionOK /\ [Next]_vars => SessionOK'
    BY SessionSteps
  <1> QED
    BY <1>1, <1>2, PTL DEF Spec

\* The run length counts the moves since the last flat tick or turn, whatever
\* the prices and however long the session (TickRunLength::update).
THEOREM RunsAreLast == Spec => []RunLengthIsLastRun
  <1> DEFINE Inv == SessionOK /\ RunFacts(Seen, signals.runLength)
  <1>1. Init => Inv
    <2> SUFFICES ASSUME Init PROVE Inv
      OBVIOUS
    <2>1. SessionOK /\ Seen = <<>> /\ signals.runLength = TickRunLengthInit
      BY SessionStarts DEF Fresh
    <2> QED
      BY <2>1, RunStarts
  <1>2. Inv /\ [Next]_vars => Inv'
    <2> SUFFICES ASSUME Inv, [Next]_vars PROVE Inv'
      OBVIOUS
    <2>1. SessionOK'
      BY SessionSteps
    <2>2. CASE Seen' = Seen /\ signals' = signals
      BY <2>1, <2>2
    <2>3. CASE \E e \in Trades : Seen' = Append(Seen, e) /\ signals' = Updated(signals, e)
      <3>1. PICK e \in Trades : Seen' = Append(Seen, e) /\ signals' = Updated(signals, e)
        BY <2>3
      <3>2. signals'.runLength = TickRunLength(signals.runLength, e)
        BY <3>1 DEF Updated
      <3>3. RunFacts(Append(Seen, e), TickRunLength(signals.runLength, e))
        BY SeenIs, RunStep
      <3> QED
        BY <2>1, <3>1, <3>2, <3>3
    <2> QED
      BY <2>2, <2>3, SessionSteps
  <1>3. Inv => RunLengthIsLastRun
    BY RunFactsSuffice
  <1> QED
    BY <1>1, <1>2, <1>3, PTL DEF Spec

\* The running sums of seven signals are the sums of the whole tape, exactly
\* (the volume-price trend sums relative moves that are each cut to the last
\* place), as long as the width has room for the value of one trade and for one
\* relative move by a quantity.
THEOREM SumsAreExact ==
    ASSUME RoomForTrades, RoomForMoves
    PROVE  Spec => []AccumulatorsAreSums
  <1> DEFINE Inv == SessionOK /\ SumFacts
  <1>1. Init => Inv
    <2> SUFFICES ASSUME Init PROVE Inv
      OBVIOUS
    <2>1. SessionOK /\ Seen = <<>> /\ signals = Fresh
      BY SessionStarts
    <2> QED
      BY <2>1, SumsStart DEF SumFacts, Fresh
  <1>2. Inv /\ [Next]_vars => Inv'
    <2> SUFFICES ASSUME Inv, [Next]_vars PROVE Inv'
      OBVIOUS
    <2>1. SessionOK'
      BY SessionSteps
    <2>2. CASE Seen' = Seen /\ signals' = signals
      BY <2>1, <2>2 DEF SumFacts
    <2>3. CASE \E e \in Trades : Seen' = Append(Seen, e) /\ signals' = Updated(signals, e)
      BY <2>1, <2>3, SumsStep
    <2> QED
      BY <2>2, <2>3, SessionSteps
  <1>3. Inv => AccumulatorsAreSums
    BY SumFactsSuffice
  <1> QED
    BY <1>1, <1>2, <1>3, PTL DEF Spec

-----------------------------------------------------------------------------
(* The listeners of a dynamic composite.                                   *)

\* The trades of a sequence as numbers.
ValuesOf(q) == [i \in DOMAIN q |-> q[i].price * q[i].quantity]
SizesOf(q) == [i \in DOMAIN q |-> Scale * q[i].quantity]

\* The registrations of an object.
Mine(l, o) == {k \in DOMAIN l : l[k] = o}

\* What the registrations k of an object have been told of x, each from trade
\* s[k] + 1 to trade r[k].
Told(l, s, o, x, r) ==
    SumFunction([k \in Mine(l, o) |-> SumFunctionOnSet(x, s[k] + 1 .. r[k])])

\* What an object knows of the trades of q.
Knows(l, s, o, object, q, r) ==
    /\ ValueOr(object.value, 0) = Told(l, s, o, ValuesOf(q), r)
    /\ ValueOr(object.volume, 0) = Told(l, s, o, SizesOf(q), r)
    /\ Has(object.volume) <=> \E k \in Mine(l, o) : s[k] < r[k]

\* The first j of the registrations have been told of one trade more than n.
Reach(l, n, j) == [k \in DOMAIN l |-> IF k <= j THEN n + 1 ELSE n]

\* A registration is in the past.
Registrations(l, s, n) ==
    /\ l \in Seq(Objects) /\ s \in Seq(Nat)
    /\ Len(s) = Len(l)
    /\ \A k \in 1 .. Len(l) : s[k] <= n

\* The registrations of an object are finitely many.
LEMMA MineType ==
    ASSUME NEW l \in Seq(Objects), NEW o
    PROVE  /\ IsFiniteSet(Mine(l, o)) /\ Mine(l, o) \in SUBSET (1 .. Len(l))
           /\ DOMAIN l = 1 .. Len(l) /\ Len(l) \in Nat
  <1>1. Mine(l, o) \in SUBSET (1 .. Len(l)) /\ DOMAIN l = 1 .. Len(l) /\ Len(l) \in Nat
    BY DEF Mine
  <1>2. IsFiniteSet(1 .. Len(l))
    BY <1>1, FS_Interval
  <1> QED
    BY <1>1, <1>2, FS_Subset

\* A sum grows by what one of its summands grows by.
LEMMA SumChanges ==
    ASSUME NEW S, IsFiniteSet(S), NEW f, NEW g, DOMAIN f = S, DOMAIN g = S,
           \A y \in S : f[y] \in Int, NEW x \in S, NEW v \in Int,
           g[x] = f[x] + v, \A y \in S \ {x} : g[y] = f[y]
    PROVE  SumFunction(f) \in Int /\ SumFunction(g) = SumFunction(f) + v
  <1> DEFINE T == S \ {x}
  <1>1. IsFiniteSet(T) /\ x \notin T /\ T \cup {x} = S
    BY FS_Subset
  <1>2. /\ \A y \in T : f[y] \in Int /\ f[y] = g[y]
        /\ \A y \in T \cup {x} : f[y] \in Int /\ g[y] \in Int
    <2>1. f[x] \in Int /\ g[x] \in Int
      OBVIOUS
    <2> QED
      BY <2>1
  <1> HIDE DEF T
  <1>3. SumFunctionOnSet(f, T) \in Int /\ SumFunctionOnSet(f, T) = SumFunctionOnSet(g, T)
    BY <1>1, <1>2, SumSame
  <1>4. SumFunctionOnSet(f, T \cup {x}) = SumFunctionOnSet(f, T) + f[x]
    BY <1>1, <1>2, SumAdds
  <1>5. SumFunctionOnSet(g, T \cup {x}) = SumFunctionOnSet(g, T) + g[x]
    BY <1>1, <1>2, SumAdds
  <1>6. f[x] \in Int /\ g[x] = f[x] + v
    OBVIOUS
  <1>7. /\ SumFunction(f) = SumFunctionOnSet(f, T) + f[x]
        /\ SumFunction(g) = SumFunctionOnSet(f, T) + (f[x] + v)
    BY <1>1, <1>3, <1>4, <1>5 DEF SumFunction
  <1> DEFINE A == SumFunctionOnSet(f, T)
             F == SumFunction(f)
             G == SumFunction(g)
  <1>8. A \in Int /\ F = A + f[x] /\ G = A + (f[x] + v)
    BY <1>3, <1>7
  <1> HIDE DEF A, F, G
  <1>9. F \in Int /\ G = F + v
    BY <1>6, <1>8
  <1> QED
    BY <1>9 DEF F, G

\* One part of what is told.
LEMMA PartType ==
    ASSUME NEW x, NEW n \in Nat, \A i \in 1 .. n : x[i] \in Int, NEW a \in Nat, NEW b \in 0 .. n
    PROVE  SumFunctionOnSet(x, a + 1 .. b) \in Int
  <1>1. IsFiniteSet(a + 1 .. b)
    BY FS_Interval
  <1>2. \A i \in a + 1 .. b : x[i] \in Int
    OBVIOUS
  <1> QED
    BY <1>1, <1>2, SumSame

\* The next registration's call tells its object of the trade, and no other.
LEMMA ToldGrows ==
    ASSUME NEW n \in Nat, NEW l, NEW s, Registrations(l, s, n),
           NEW j \in 0 .. Len(l) - 1, NEW x, \A i \in 1 .. n + 1 : x[i] \in Int
    PROVE  \A o \in Objects :
               /\ Told(l, s, o, x, Reach(l, n, j)) \in Int
               /\ Told(l, s, o, x, Reach(l, n, j + 1)) =
                    IF o = l[j + 1] THEN Told(l, s, o, x, Reach(l, n, j)) + x[n + 1]
                    ELSE Told(l, s, o, x, Reach(l, n, j))
  <1> SUFFICES ASSUME NEW o \in Objects
               PROVE  /\ Told(l, s, o, x, Reach(l, n, j)) \in Int
                      /\ Told(l, s, o, x, Reach(l, n, j + 1)) =
                            IF o = l[j + 1] THEN Told(l, s, o, x, Reach(l, n, j)) + x[n + 1]
                            ELSE Told(l, s, o, x, Reach(l, n, j))
    OBVIOUS
  <1> DEFINE M == Mine(l, o)
             r == Reach(l, n, j)
             t == Reach(l, n, j + 1)
             f == [k \in M |-> SumFunctionOnSet(x, s[k] + 1 .. r[k])]
             g == [k \in M |-> SumFunctionOnSet(x, s[k] + 1 .. t[k])]
  <1>1. /\ l \in Seq(Objects) /\ Len(l) \in Nat /\ DOMAIN l = 1 .. Len(l)
        /\ M \in SUBSET (1 .. Len(l)) /\ IsFiniteSet(M)
        /\ \A k \in 1 .. Len(l) : s[k] \in Nat /\ s[k] <= n
    <2>1. l \in Seq(Objects) /\ s \in Seq(Nat) /\ Len(s) = Len(l)
          /\ \A k \in 1 .. Len(l) : s[k] <= n
      BY DEF Registrations
    <2>2. \A k \in 1 .. Len(l) : s[k] \in Nat
      BY <2>1
    <2> QED
      BY <2>1, <2>2, MineType
  <1>2. /\ j \in Nat /\ j + 1 \in 1 .. Len(l) /\ j + 1 \in Nat
        /\ j + 1 \in M <=> o = l[j + 1]
    BY <1>1 DEF Mine
  <1>3. /\ \A k \in 1 .. Len(l) : /\ r[k] \in 0 .. n + 1
                                  /\ k # j + 1 => t[k] = r[k]
        /\ r[j + 1] = n /\ t[j + 1] = n + 1
    BY <1>1, <1>2 DEF Reach
  <1>4. Told(l, s, o, x, r) = SumFunction(f) /\ Told(l, s, o, x, t) = SumFunction(g)
    BY DEF Told
  <1>5. \A k \in M : f[k] \in Int
    <2> SUFFICES ASSUME NEW k \in M PROVE SumFunctionOnSet(x, s[k] + 1 .. r[k]) \in Int
      OBVIOUS
    <2> DEFINE a == s[k]
               b == r[k]
               m == n + 1
    <2>1. a \in Nat /\ b \in 0 .. m /\ m \in Nat /\ \A i \in 1 .. m : x[i] \in Int
      <3>1. k \in 1 .. Len(l)
        BY <1>1
      <3> HIDE DEF M, r
      <3> QED
        BY <1>1, <1>3, <3>1
    <2> HIDE DEF a, b, m
    <2>2. SumFunctionOnSet(x, a + 1 .. b) \in Int
      BY <2>1, PartType
    <2> QED
      BY <2>2 DEF a, b
  <1> HIDE DEF r, t, M
  <1>6. CASE o = l[j + 1]
    <2>1. g[j + 1] = f[j + 1] + x[n + 1]
      <3> DEFINE a == s[j + 1]
      <3>1. a \in Nat /\ a <= n
        BY <1>1, <1>2
      <3>2. /\ IsFiniteSet(a + 1 .. n) /\ n + 1 \notin a + 1 .. n
            /\ a + 1 .. n + 1 = (a + 1 .. n) \cup {n + 1}
        <4>1. IsFiniteSet(a + 1 .. n)
          BY <3>1, FS_Interval
        <4> QED
          BY <3>1, <4>1
      <3>3. \A y \in (a + 1 .. n) \cup {n + 1} : x[y] \in Int
        BY <3>1
      <3>4. SumFunctionOnSet(x, (a + 1 .. n) \cup {n + 1})
                = SumFunctionOnSet(x, a + 1 .. n) + x[n + 1]
        BY <3>2, <3>3, SumAdds
      <3>5. /\ f[j + 1] = SumFunctionOnSet(x, a + 1 .. n)
            /\ g[j + 1] = SumFunctionOnSet(x, a + 1 .. n + 1)
        BY <1>2, <1>3, <1>6
      <3> QED
        BY <3>2, <3>4, <3>5
    <2>2. \A k \in M \ {j + 1} : g[k] = f[k]
      BY <1>1, <1>3
    <2>3. x[n + 1] \in Int /\ DOMAIN f = M /\ DOMAIN g = M /\ j + 1 \in M
      BY <1>2, <1>6
    <2> DEFINE y == j + 1
               v == x[n + 1]
    <2>4. /\ IsFiniteSet(M) /\ y \in M /\ v \in Int /\ DOMAIN f = M /\ DOMAIN g = M
          /\ \A k \in M : f[k] \in Int
          /\ g[y] = f[y] + v /\ \A k \in M \ {y} : g[k] = f[k]
      BY <1>1, <1>5, <2>1, <2>2, <2>3
    <2> HIDE DEF f, g, y, v
    <2>5. SumFunction(f) \in Int /\ SumFunction(g) = SumFunction(f) + v
      BY <2>4, SumChanges
    <2> QED
      BY <1>4, <1>6, <2>5 DEF r, t, v
  <1>7. CASE o # l[j + 1]
    <2>1. \A k \in M : k # j + 1
      BY <1>2, <1>7
    <2>2. \A k \in M : g[k] = f[k]
      BY <1>1, <1>3, <2>1
    <2>3. f = g
      BY <2>2
    <2>4. SumFunction(f) \in Int
      <3>1. DOMAIN f = M
        OBVIOUS
      <3> HIDE DEF f
      <3> QED
        BY <1>1, <1>5, <3>1, SumSame DEF SumFunction
    <2> QED
      BY <1>4, <1>7, <2>3, <2>4 DEF r, t
  <1> QED
    BY <1>6, <1>7

\* CumulativeVwap::update through one registration.
LEMMA OneCallTells ==
    ASSUME RoomForTrades, NEW q \in Seq(Trades), NEW e \in Trades, NEW n, n = Len(q),
           NEW w, w = Append(q, e),
           NEW l, NEW s, Registrations(l, s, n),
           NEW j \in 0 .. Len(l) - 1, NEW objs, DOMAIN objs = Objects,
           \A o \in Objects : Knows(l, s, o, objs[o], w, Reach(l, n, j))
    PROVE  LET told == Tell(objs, <<l[j + 1], e>>)
           IN  /\ DOMAIN told = Objects
               /\ \A o \in Objects : Knows(l, s, o, told[o], w, Reach(l, n, j + 1))
  <1> DEFINE told == Tell(objs, <<l[j + 1], e>>)
             last == l[j + 1]
             r == Reach(l, n, j)
             t == Reach(l, n, j + 1)
  <1>1. /\ n \in Nat /\ w \in Seq(Trades) /\ DOMAIN w = 1 .. n + 1 /\ w[n + 1] = e
        /\ \A i \in 1 .. n + 1 : w[i] \in Trades
    OBVIOUS
  <1>2. /\ Notional(e) = e.price * e.quantity /\ Qty(e) = Scale * e.quantity
        /\ Notional(e) \in Int /\ Qty(e) \in Int
    BY TradeNumbers
  <1>3. /\ ValuesOf(w)[n + 1] = Notional(e) /\ SizesOf(w)[n + 1] = Qty(e)
        /\ \A i \in 1 .. n + 1 : ValuesOf(w)[i] \in Int /\ SizesOf(w)[i] \in Int
    <2>1. \A i \in 1 .. n + 1 : ValuesOf(w)[i] = w[i].price * w[i].quantity
                             /\ SizesOf(w)[i] = Scale * w[i].quantity
      BY <1>1 DEF ValuesOf, SizesOf
    <2>2. \A i \in 1 .. n + 1 : w[i].price * w[i].quantity \in Int /\ Scale * w[i].quantity \in Int
      BY <1>1, TradeNumbers
    <2> QED
      BY <1>1, <1>2, <2>1, <2>2
  <1>4. /\ l \in Seq(Objects) /\ s \in Seq(Nat) /\ Len(s) = Len(l) /\ Len(l) \in Nat
        /\ DOMAIN l = 1 .. Len(l) /\ j \in Nat /\ j + 1 \in 1 .. Len(l)
        /\ last \in Objects /\ s[j + 1] \in Nat /\ s[j + 1] <= n
    <2>1. l \in Seq(Objects) /\ s \in Seq(Nat) /\ Len(s) = Len(l)
          /\ \A k \in 1 .. Len(l) : s[k] <= n
      BY DEF Registrations
    <2>2. Len(l) \in Nat /\ DOMAIN l = 1 .. Len(l)
      BY <2>1
    <2>3. j \in Nat /\ j + 1 \in 1 .. Len(l)
      BY <2>2
    <2> QED
      BY <2>1, <2>2, <2>3
  <1>5. /\ DOMAIN told = Objects
        /\ told[last] = CumulativeVwap(objs[last], e)
        /\ \A o \in Objects \ {last} : told[o] = objs[o]
    BY <1>4 DEF Tell
  <1>6. \A o \in Objects :
            /\ Told(l, s, o, ValuesOf(w), t) =
                IF o = last THEN Told(l, s, o, ValuesOf(w), r) + Notional(e)
                ELSE Told(l, s, o, ValuesOf(w), r)
            /\ Told(l, s, o, SizesOf(w), t) =
                IF o = last THEN Told(l, s, o, SizesOf(w), r) + Qty(e)
                ELSE Told(l, s, o, SizesOf(w), r)
    <2>1. ASSUME NEW x, \A i \in 1 .. n + 1 : x[i] \in Int
          PROVE  \A o \in Objects :
                    Told(l, s, o, x, t) = IF o = last THEN Told(l, s, o, x, r) + x[n + 1]
                                          ELSE Told(l, s, o, x, r)
      <3>1. n \in Nat
        BY <1>1
      <3> QED
        BY ONLY <3>1, <2>1, ToldGrows, j \in 0 .. Len(l) - 1, Registrations(l, s, n)
    <2> HIDE DEF r, t, last
    <2> DEFINE x == ValuesOf(w)
               y == SizesOf(w)
    <2>2. /\ \A i \in 1 .. n + 1 : x[i] \in Int
          /\ \A i \in 1 .. n + 1 : y[i] \in Int
          /\ x[n + 1] = Notional(e) /\ y[n + 1] = Qty(e)
      BY <1>3
    <2> HIDE DEF x, y
    <2> QED
      BY <2>1, <2>2 DEF x, y
  <1>7. /\ \A k \in 1 .. Len(l) : k # j + 1 => t[k] = r[k]
        /\ t[j + 1] = n + 1
    BY <1>1, <1>4 DEF Reach
  <1> HIDE DEF told, r, t
  <1>8. ASSUME NEW o \in Objects PROVE Knows(l, s, o, told[o], w, t)
    <2>1. Knows(l, s, o, objs[o], w, r)
      BY DEF r
    <2>2. CASE o = last
      <3> DEFINE v == ValueOr(objs[o].value, 0) + Notional(e)
                 z == ValueOr(objs[o].volume, 0) + Qty(e)
      <3>1. told[o].value = <<v>> /\ told[o].volume = <<z>>
        BY <1>5, <2>2 DEF CumulativeVwap, Add, Some
      <3> HIDE DEF v, z
      <3>2. /\ ValueOr(told[o].value, 0) = v /\ ValueOr(told[o].volume, 0) = z
            /\ Has(told[o].volume)
        BY <3>1 DEF ValueOr, Has, None, Value
      <3>3. /\ v = Told(l, s, o, ValuesOf(w), t)
            /\ z = Told(l, s, o, SizesOf(w), t)
        BY <1>6, <2>1, <2>2 DEF Knows, v, z
      <3>4. j + 1 \in Mine(l, o) /\ s[j + 1] < t[j + 1]
        BY <1>1, <1>4, <1>7, <2>2 DEF Mine
      <3> QED
        BY <3>2, <3>3, <3>4 DEF Knows
    <2>3. CASE o # last
      <3>1. told[o] = objs[o]
        BY <1>5, <2>3
      <3>2. \A k \in Mine(l, o) : t[k] = r[k]
        BY <1>4, <1>7, <2>3 DEF Mine
      <3> QED
        BY <1>6, <2>1, <2>3, <3>1, <3>2 DEF Knows
    <2> QED
      BY <2>2, <2>3
  <1> QED
    BY <1>5, <1>8 DEF told, t

\* What is told of the first trades does not depend on a later one.
LEMMA ToldBefore ==
    ASSUME RoomForTrades, NEW q \in Seq(Trades), NEW e \in Trades, NEW n, n = Len(q),
           NEW l, NEW s, Registrations(l, s, n), NEW o
    PROVE  LET w == Append(q, e)
               r == [k \in DOMAIN l |-> n]
           IN  /\ Told(l, s, o, ValuesOf(w), r) = Told(l, s, o, ValuesOf(q), r)
               /\ Told(l, s, o, SizesOf(w), r) = Told(l, s, o, SizesOf(q), r)
  <1> DEFINE w == Append(q, e)
             r == [k \in DOMAIN l |-> n]
             M == Mine(l, o)
  <1>1. /\ n \in Nat /\ DOMAIN w = 1 .. n + 1 /\ DOMAIN q = 1 .. n
        /\ \A i \in 1 .. n : w[i] = q[i] /\ q[i] \in Trades
    OBVIOUS
  <1>2. \A k \in M : k \in DOMAIN l /\ r[k] = n /\ s[k] \in Nat
    <2>1. l \in Seq(Objects) /\ s \in Seq(Nat) /\ Len(s) = Len(l)
      BY DEF Registrations
    <2>2. \A k \in 1 .. Len(l) : s[k] \in Nat
      BY <2>1
    <2> QED
      BY <2>1, <2>2, MineType
  <1>3. /\ \A i \in 1 .. n : ValuesOf(q)[i] = ValuesOf(w)[i] /\ ValuesOf(q)[i] \in Int
        /\ \A i \in 1 .. n : SizesOf(q)[i] = SizesOf(w)[i] /\ SizesOf(q)[i] \in Int
    <2>1. \A i \in 1 .. n : q[i].price * q[i].quantity \in Int /\ Scale * q[i].quantity \in Int
      BY <1>1, TradeNumbers
    <2>2. \A i \in 1 .. n : i \in 1 .. n + 1
      BY <1>1
    <2> HIDE DEF w
    <2> QED
      BY <1>1, <2>1, <2>2 DEF ValuesOf, SizesOf
  <1>4. ASSUME NEW x, NEW y, \A i \in 1 .. n : x[i] = y[i] /\ x[i] \in Int
        PROVE  Told(l, s, o, y, r) = Told(l, s, o, x, r)
    <2>1. ASSUME NEW k \in M
          PROVE  SumFunctionOnSet(y, s[k] + 1 .. r[k]) = SumFunctionOnSet(x, s[k] + 1 .. r[k])
      <3> DEFINE a == s[k]
                 I == a + 1 .. n
      <3>1. a \in Nat /\ r[k] = n
        BY <1>2
      <3>2. IsFiniteSet(I)
        <4>1. a + 1 \in Int /\ n \in Int
          BY <1>1, <3>1
        <4> HIDE DEF a
        <4> QED
          BY ONLY <4>1, FS_Interval
      <3>3. \A i \in I : x[i] \in Int /\ x[i] = y[i]
        BY <1>1, <1>4, <3>1
      <3> HIDE DEF I
      <3>4. SumFunctionOnSet(x, I) = SumFunctionOnSet(y, I)
        BY <3>2, <3>3, SumSame
      <3> QED
        BY <3>1, <3>4 DEF I
    <2>2. [k \in M |-> SumFunctionOnSet(y, s[k] + 1 .. r[k])]
            = [k \in M |-> SumFunctionOnSet(x, s[k] + 1 .. r[k])]
      BY <2>1
    <2> QED
      BY <2>2 DEF Told
  <1> DEFINE v == ValuesOf(q)
             v2 == ValuesOf(w)
             z == SizesOf(q)
             z2 == SizesOf(w)
  <1>5. /\ \A i \in 1 .. n : v[i] = v2[i] /\ v[i] \in Int
        /\ \A i \in 1 .. n : z[i] = z2[i] /\ z[i] \in Int
    BY <1>3
  <1> HIDE DEF v, v2, z, z2, r
  <1>6. Told(l, s, o, v2, r) = Told(l, s, o, v, r) /\ Told(l, s, o, z2, r) = Told(l, s, o, z, r)
    BY <1>4, <1>5
  <1> QED
    BY <1>6 DEF v, v2, z, z2, r

\* DynamicComposite::update tells every object of the trade, once for each
\* time that it registered.
LEMMA AllAreTold ==
    ASSUME RoomForTrades, NEW q \in Seq(Trades), NEW e \in Trades,
           NEW l, NEW s, Registrations(l, s, Len(q)), NEW objs, DOMAIN objs = Objects,
           \A o \in Objects : Knows(l, s, o, objs[o], q, [k \in DOMAIN l |-> Len(q)])
    PROVE  LET told == FoldLeft(Tell, objs, [i \in DOMAIN l |-> <<l[i], e>>])
               w == Append(q, e)
           IN  /\ DOMAIN told = Objects
               /\ \A o \in Objects : Knows(l, s, o, told[o], w, [k \in DOMAIN l |-> Len(w)])
  <1> DEFINE n == Len(q)
             w == Append(q, e)
             m == Len(l)
             calls == [i \in DOMAIN l |-> <<l[i], e>>]
             Good(j, x) == /\ DOMAIN x = Objects
                           /\ \A o \in Objects : Knows(l, s, o, x[o], w, Reach(l, n, j))
  <1>1. /\ n \in Nat /\ Len(w) = n + 1
        /\ l \in Seq(Objects) /\ m \in Nat /\ DOMAIN l = 1 .. m
        /\ \A k \in 1 .. m : s[k] <= n
    <2>1. l \in Seq(Objects) /\ \A k \in 1 .. m : s[k] <= n
      BY DEF Registrations
    <2> QED
      BY <2>1
  <1>2. DOMAIN calls = 1 .. m /\ \A k \in 1 .. m : calls[k] = <<l[k], e>>
    BY <1>1
  <1>3. Good(0, objs)
    <2>1. Reach(l, n, 0) = [k \in DOMAIN l |-> n]
      <3>1. \A k \in DOMAIN l : ~ (k <= 0)
        BY <1>1
      <3> QED
        BY <3>1 DEF Reach
    <2>2. \A o \in Objects : Knows(l, s, o, objs[o], w, [k \in DOMAIN l |-> n])
      BY ToldBefore DEF Knows
    <2> QED
      BY <2>1, <2>2
  <1> HIDE DEF calls
  <1>4. PICK v : Iterates(v, objs, calls, m) /\ Fold(objs, calls) = v[m]
    <2>1. m \in Nat /\ DOMAIN calls = 1 .. m
      BY <1>1, <1>2
    <2> HIDE DEF m
    <2> QED
      BY ONLY <2>1, FoldIterates
  <1> DEFINE N == {j \in Nat : j <= m => Good(j, v[j])}
  <1>5. 0 \in N
    BY <1>3, <1>4 DEF Iterates
  <1>6. ASSUME NEW j \in N PROVE j + 1 \in N
    <2> SUFFICES ASSUME j + 1 <= m PROVE Good(j + 1, v[j + 1])
      OBVIOUS
    <2>1. j \in 0 .. m - 1 /\ j + 1 \in 1 .. m
      BY <1>1
    <2>2. Good(j, v[j])
      BY <1>1, <2>1
    <2>3. v[j + 1] = Tell(v[j], <<l[j + 1], e>>)
      BY <1>2, <1>4, <2>1 DEF Iterates
    <2> DEFINE x == v[j]
    <2>4. DOMAIN x = Objects /\ \A o \in Objects : Knows(l, s, o, x[o], w, Reach(l, n, j))
      BY <2>2
    <2> HIDE DEF x, N, m, w, n
    <2>5. Good(j + 1, Tell(x, <<l[j + 1], e>>))
      BY <2>1, <2>4, OneCallTells DEF m, n, w
    <2> QED
      BY <2>3, <2>5 DEF x
  <1>7. N = Nat
    <2> HIDE DEF N
    <2>1. N \in SUBSET Nat
      BY DEF N
    <2> QED
      BY <1>5, <1>6, <2>1, NaturalsByInduction
  <1>8. Good(m, v[m])
    BY <1>1, <1>7
  <1>9. Reach(l, n, m) = [k \in DOMAIN l |-> Len(w)]
    <2>1. \A k \in DOMAIN l : k <= m
      BY <1>1
    <2> QED
      BY <1>1, <2>1 DEF Reach
  <1>10. FoldLeft(Tell, objs, calls) = v[m]
    BY <1>4 DEF Fold
  <1> HIDE DEF w, n, m
  <1> QED
    BY <1>8, <1>9, <1>10 DEF calls, w

\* addSignal: what was told before stays, and the new registration has been
\* told nothing.
LEMMA OneMoreListens ==
    ASSUME NEW q \in Seq(Trades), NEW l, NEW s, Registrations(l, s, Len(q)), NEW p \in Objects,
           NEW o \in Objects, NEW object,
           Knows(l, s, o, object, q, [k \in DOMAIN l |-> Len(q)]),
           RoomForTrades
    PROVE  LET l2 == Append(l, p)
               s2 == Append(s, Len(q))
           IN  /\ Registrations(l2, s2, Len(q))
               /\ Knows(l2, s2, o, object, q, [k \in DOMAIN l2 |-> Len(q)])
  <1> DEFINE n == Len(q)
             m == Len(l)
             l2 == Append(l, p)
             s2 == Append(s, n)
             r == [k \in DOMAIN l |-> n]
             r2 == [k \in DOMAIN l2 |-> n]
             M == Mine(l, o)
             M2 == Mine(l2, o)
  <1>1. /\ n \in Nat /\ l \in Seq(Objects) /\ s \in Seq(Nat) /\ Len(s) = m
        /\ \A k \in 1 .. m : s[k] <= n
        /\ DOMAIN q = 1 .. n /\ \A i \in 1 .. n : q[i] \in Trades
    BY DEF Registrations
  <1>2. /\ m \in Nat /\ DOMAIN l = 1 .. m /\ DOMAIN l2 = 1 .. m + 1
        /\ l2 \in Seq(Objects) /\ s2 \in Seq(Nat) /\ Len(l2) = m + 1 /\ Len(s2) = m + 1
        /\ l2[m + 1] = p /\ s2[m + 1] = n
        /\ \A k \in 1 .. m : l2[k] = l[k] /\ s2[k] = s[k] /\ s[k] \in Nat
    BY <1>1
  <1>3. Registrations(l2, s2, n)
    <2>1. \A k \in 1 .. m + 1 : s2[k] <= n
      BY <1>1, <1>2
    <2> HIDE DEF l2, s2
    <2> QED
      BY <1>2, <2>1 DEF Registrations
  <1>4. /\ M2 = IF o = p THEN M \cup {m + 1} ELSE M
        /\ M \in SUBSET (1 .. m) /\ IsFiniteSet(M) /\ m + 1 \notin M
    <2>1. M \in SUBSET (1 .. m) /\ IsFiniteSet(M)
      BY <1>1, MineType
    <2>2. \A k : k \in M2 <=> k \in 1 .. m + 1 /\ l2[k] = o
      BY <1>2 DEF Mine
    <2>3. \A k : k \in M <=> k \in 1 .. m /\ l[k] = o
      BY <1>2 DEF Mine
    <2>4. \A k : k \in 1 .. m + 1 <=> k \in 1 .. m \/ k = m + 1
      BY <1>2
    <2>5. m + 1 \notin 1 .. m
      BY <1>2
    <2> HIDE DEF l2, M, M2
    <2>6. \A k : k \in M2 <=> k \in M \/ (k = m + 1 /\ o = p)
      BY <1>2, <2>2, <2>3, <2>4, <2>5
    <2>7. m + 1 \notin M
      BY <2>1, <2>5
    <2>8. ASSUME o = p PROVE M2 = M \cup {m + 1}
      BY <2>6, <2>8
    <2>9. ASSUME o # p PROVE M2 = M
      <3>1. \A k : k \in M2 <=> k \in M
        BY <2>6, <2>9
      <3> QED
        BY <3>1
    <2> QED
      BY <2>1, <2>7, <2>8, <2>9
  <1>5. /\ \A k \in 1 .. m : r[k] = n /\ r2[k] = n
        /\ r2[m + 1] = n
    BY <1>2
  <1> HIDE DEF l2, s2, r, r2, M, M2
  <1>6. ASSUME NEW x, \A i \in 1 .. n : x[i] \in Int
        PROVE  Told(l2, s2, o, x, r2) = Told(l, s, o, x, r)
    <2> DEFINE f == [k \in M |-> SumFunctionOnSet(x, s[k] + 1 .. r[k])]
               g == [k \in M2 |-> SumFunctionOnSet(x, s2[k] + 1 .. r2[k])]
    <2>1. Told(l, s, o, x, r) = SumFunction(f) /\ Told(l2, s2, o, x, r2) = SumFunction(g)
      BY DEF Told, M, M2
    <2>2. \A k \in M : g[k] = f[k] /\ f[k] \in Int
      <3> SUFFICES ASSUME NEW k \in M PROVE g[k] = f[k] /\ f[k] \in Int
        OBVIOUS
      <3> DEFINE a == s[k]
      <3>1. k \in 1 .. m /\ k \in M2 /\ a \in Nat /\ s2[k] = a /\ r[k] = n /\ r2[k] = n
        BY <1>2, <1>4, <1>5
      <3>2. n \in Nat /\ n \in 0 .. n
        BY <1>1
      <3> HIDE DEF a, n
      <3>3. SumFunctionOnSet(x, a + 1 .. n) \in Int
        BY <1>6, <3>1, <3>2, PartType
      <3> QED
        BY <3>1, <3>3 DEF a
    <2>3. o = p => g[m + 1] = 0
      <3>1. n + 1 .. n = {}
        BY <1>1
      <3>2. SumFunctionOnSet(x, n + 1 .. n) = 0
        BY <3>1, SumOfNone
      <3> QED
        BY <1>2, <1>4, <1>5, <3>2
    <2>4. DOMAIN f = M /\ DOMAIN g = M2
      OBVIOUS
    <2> HIDE DEF f, g
    <2>5. SumFunctionOnSet(f, M) \in Int /\ SumFunctionOnSet(f, M) = SumFunctionOnSet(g, M)
      BY <1>4, <2>2, SumSame
    <2>6. CASE o = p
      <3> DEFINE z == m + 1
      <3>1. z \notin M /\ IsFiniteSet(M) /\ \A k \in M \cup {z} : g[k] \in Int
        BY <1>4, <2>2, <2>3, <2>6
      <3>2. g[z] = 0 /\ M2 = M \cup {z}
        BY <1>4, <2>3, <2>6
      <3> HIDE DEF z
      <3>3. SumFunctionOnSet(g, M \cup {z}) = SumFunctionOnSet(g, M) + g[z]
        BY <3>1, SumAdds
      <3> QED
        BY <2>1, <2>4, <2>5, <3>2, <3>3 DEF SumFunction
    <2>7. CASE o # p
      BY <1>4, <2>1, <2>4, <2>5, <2>7 DEF SumFunction
    <2> QED
      BY <2>6, <2>7
  <1> DEFINE v == ValuesOf(q)
             z == SizesOf(q)
  <1>7. (\A i \in 1 .. n : v[i] \in Int) /\ \A i \in 1 .. n : z[i] \in Int
    <2>1. \A i \in 1 .. n : q[i].price * q[i].quantity \in Int /\ Scale * q[i].quantity \in Int
      BY <1>1, TradeNumbers
    <2> QED
      BY <1>1, <2>1 DEF ValuesOf, SizesOf
  <1>8. (\E k \in M2 : s2[k] < r2[k]) <=> (\E k \in M : s[k] < r[k])
    <2>1. \A k \in M : s2[k] = s[k] /\ r2[k] = r[k]
      BY <1>2, <1>4, <1>5
    <2>2. ~ (s2[m + 1] < r2[m + 1])
      BY <1>1, <1>2, <1>5
    <2> QED
      BY <1>4, <2>1, <2>2
  <1> HIDE DEF v, z
  <1>9. Told(l2, s2, o, v, r2) = Told(l, s, o, v, r) /\ Told(l2, s2, o, z, r2) = Told(l, s, o, z, r)
    BY <1>6, <1>7
  <1>10. Knows(l2, s2, o, object, q, r2)
    BY <1>8, <1>9 DEF Knows, v, z, M, M2, r, n
  <1> QED
    BY <1>3, <1>10 DEF l2, s2, r2

\* What the listeners of a dynamic composite know of the tape.
ListenersOK ==
    composite = "dynamic" =>
        /\ Registrations(listeners, since, Len(tape))
        /\ DOMAIN objects = Objects
        /\ \A o \in Objects :
            Knows(listeners, since, o, objects[o], tape, [k \in DOMAIN listeners |-> Len(tape)])

\* Nobody listens yet.
LEMMA ListenersStart == Init => ListenersOK
  <1> SUFFICES ASSUME Init PROVE ListenersOK
    OBVIOUS
  <1> DEFINE none == <<>>
  <1>1. /\ listeners = none /\ since = none /\ tape = none
        /\ objects = [o \in Objects |-> CumulativeVwapInit]
    BY DEF Init
  <1>2. none \in Seq(Objects) /\ none \in Seq(Nat) /\ Len(none) = 0 /\ DOMAIN none = {}
        /\ 1 .. Len(none) = {}
    OBVIOUS
  <1> HIDE DEF none
  <1>3. Registrations(none, none, 0)
    BY <1>2 DEF Registrations
  <1>4. ASSUME NEW o \in Objects
        PROVE  Knows(none, none, o, CumulativeVwapInit, none, [k \in DOMAIN none |-> 0])
    <2>1. Mine(none, o) = {}
      BY <1>2 DEF Mine
    <2>2. \A f : DOMAIN f = {} => SumFunction(f) = 0
      BY SumOfNone DEF SumFunction
    <2>3. \A x, r : Told(none, none, o, x, r) = 0
      BY <2>1, <2>2 DEF Told
    <2>4. CumulativeVwapInit.value = None /\ CumulativeVwapInit.volume = None
      BY DEF CumulativeVwapInit
    <2> QED
      BY <2>1, <2>3, <2>4 DEF Knows, ValueOr, Has
  <1> QED
    BY <1>1, <1>2, <1>3, <1>4 DEF ListenersOK

\* Every step keeps what the listeners know.
LEMMA ListenersStep ==
    ASSUME RoomForTrades, SessionOK, ListenersOK, [Next]_vars
    PROVE  ListenersOK'
  <1>1. tape \in Seq(Trades)
    BY DEF SessionOK
  <1>2. CASE \E e \in Trades : UpdateStatic(e)
    BY <1>2 DEF UpdateStatic, ListenersOK
  <1>3. CASE \E e \in Trades : UpdateDynamic(e)
    <2>1. PICK e \in Trades : UpdateDynamic(e)
      BY <1>3
    <2>2. /\ composite = "dynamic" /\ tape' = Append(tape, e)
          /\ listeners' = listeners /\ since' = since
          /\ objects' = FoldLeft(Tell, objects, [i \in DOMAIN listeners |-> <<listeners[i], e>>])
      BY <2>1 DEF UpdateDynamic, TellAll
    <2>3. /\ Registrations(listeners, since, Len(tape))
          /\ DOMAIN objects = Objects
          /\ \A o \in Objects :
                Knows(listeners, since, o, objects[o], tape,
                      [k \in DOMAIN listeners |-> Len(tape)])
      BY <2>2 DEF ListenersOK
    <2>4. /\ DOMAIN objects' = Objects
          /\ \A o \in Objects :
                Knows(listeners, since, o, objects'[o], tape',
                      [k \in DOMAIN listeners |-> Len(tape')])
      BY <1>1, <2>2, <2>3, AllAreTold
    <2>5. Registrations(listeners, since, Len(tape'))
      <3>1. Len(tape) \in Nat /\ Len(tape') = Len(tape) + 1
        BY <1>1, <2>2
      <3>2. since \in Seq(Nat) /\ Len(since) = Len(listeners)
            /\ \A k \in 1 .. Len(listeners) : since[k] <= Len(tape)
        BY <2>3 DEF Registrations
      <3>3. \A k \in 1 .. Len(listeners) : since[k] \in Nat
        BY <3>2
      <3>4. \A k \in 1 .. Len(listeners) : since[k] <= Len(tape')
        BY <3>1, <3>2, <3>3
      <3> QED
        BY <2>3, <3>4 DEF Registrations
    <2> QED
      BY <2>2, <2>4, <2>5 DEF ListenersOK
  <1>4. CASE \E p \in Objects : AddSignal(p)
    <2>1. PICK p \in Objects : AddSignal(p)
      BY <1>4
    <2>2. /\ composite = "dynamic" /\ tape' = tape /\ objects' = objects
          /\ listeners' = Append(listeners, p) /\ since' = Append(since, Len(tape))
      BY <2>1 DEF AddSignal
    <2>3. /\ Registrations(listeners, since, Len(tape))
          /\ DOMAIN objects = Objects
          /\ \A o \in Objects :
                Knows(listeners, since, o, objects[o], tape,
                      [k \in DOMAIN listeners |-> Len(tape)])
      BY <2>2 DEF ListenersOK
    <2>4. \A o \in Objects :
            /\ Registrations(listeners', since', Len(tape))
            /\ Knows(listeners', since', o, objects[o], tape,
                     [k \in DOMAIN listeners' |-> Len(tape)])
      BY <1>1, <2>2, <2>3, OneMoreListens
    <2>5. Registrations(listeners', since', Len(tape))
      BY <2>4
    <2> QED
      BY <2>2, <2>3, <2>4, <2>5 DEF ListenersOK
  <1>5. CASE UNCHANGED vars
    BY <1>5 DEF vars, ListenersOK
  <1> QED
    BY <1>2, <1>3, <1>4, <1>5 DEF Next, OtherEvent, Stopped

\* What EachListenerSeesItsTrades says of the objects.
LEMMA ListenersSuffice ==
    ASSUME RoomForTrades, SessionOK, ListenersOK
    PROVE  EachListenerSeesItsTrades
  <1> SUFFICES ASSUME composite = "dynamic", NEW o \in Objects
               PROVE  LET mine == {k \in DOMAIN listeners : listeners[k] = o}
                          told(x) == SumFunction([k \in mine |->
                                        SumFunctionOnSet(x, since[k] + 1 .. Len(tape))])
                      IN  /\ ValueOr(objects[o].value, 0) = told([i \in DOMAIN tape |-> ValueOf(i)])
                          /\ ValueOr(objects[o].volume, 0) = told([i \in DOMAIN tape |-> LotsOf(i)])
                          /\ Has(objects[o].volume)
                                <=> \E k \in mine : since[k] < Len(tape)
    BY DEF EachListenerSeesItsTrades
  <1> DEFINE r == [k \in DOMAIN listeners |-> Len(tape)]
             M == Mine(listeners, o)
  <1>1. Knows(listeners, since, o, objects[o], tape, r)
    BY DEF ListenersOK
  <1>2. M = {k \in DOMAIN listeners : listeners[k] = o} /\ \A k \in M : r[k] = Len(tape)
    BY DEF Mine
  <1>3. /\ ValuesOf(tape) = [i \in DOMAIN tape |-> ValueOf(i)]
        /\ SizesOf(tape) = [i \in DOMAIN tape |-> LotsOf(i)]
    BY DEF ValuesOf, SizesOf, ValueOf, LotsOf
  <1> HIDE DEF r
  <1>4. ASSUME NEW x
        PROVE  Told(listeners, since, o, x, r)
                = SumFunction([k \in M |-> SumFunctionOnSet(x, since[k] + 1 .. Len(tape))])
    <2>1. [k \in M |-> SumFunctionOnSet(x, since[k] + 1 .. r[k])]
            = [k \in M |-> SumFunctionOnSet(x, since[k] + 1 .. Len(tape))]
      BY <1>2
    <2> QED
      BY <2>1 DEF Told
  <1>5. Has(objects[o].volume) <=> \E k \in M : since[k] < Len(tape)
    BY <1>1, <1>2 DEF Knows
  <1>6. /\ ValueOr(objects[o].value, 0) = Told(listeners, since, o, ValuesOf(tape), r)
        /\ ValueOr(objects[o].volume, 0) = Told(listeners, since, o, SizesOf(tape), r)
    BY <1>1 DEF Knows
  <1> QED
    BY <1>2, <1>3, <1>4, <1>5, <1>6

\* A signal that registers with a dynamic composite sees every later trade
\* once for each time that it registered, and none from before, whatever the
\* order of the registrations and the trades.
THEOREM ListenersSeeTheirTrades ==
    ASSUME RoomForTrades
    PROVE  Spec => []EachListenerSeesItsTrades
  <1> DEFINE Inv == SessionOK /\ ListenersOK
  <1>1. Init => Inv
    BY SessionStarts, ListenersStart
  <1>2. Inv /\ [Next]_vars => Inv'
    BY SessionSteps, ListenersStep
  <1>3. Inv => EachListenerSeesItsTrades
    BY ListenersSuffice
  <1> QED
    BY <1>1, <1>2, <1>3, PTL DEF Spec

-----------------------------------------------------------------------------
(* Averages.                                                               *)

\* A quotient of naturals is a natural, with a bound that the width has room
\* for.
LEMMA DivBound ==
    ASSUME RoomForTrades, NEW x \in Nat, NEW y \in Nat, y > 0,
           NEW c \in Nat, c < Half, x * Scale <= c * y
    PROVE  Div(x, y) \in 0 .. c /\ Div(x, y) = (x * Scale) \div y
  <1> DEFINE k == x * Scale
             Q == k \div y
  <1>1. Scale \in Nat /\ Scale > 0 /\ Half \in Nat
    BY ScaleType
  <1>2. k \in Nat /\ k <= c * y /\ c * y \in Nat
    BY <1>1
  <1> HIDE DEF k
  <1>3. Q \in Nat /\ Q * y <= k
    BY <1>2
  <1> HIDE DEF Q
  <1>4. Q <= c
    <2> SUFFICES ASSUME c + 1 <= Q PROVE FALSE
      BY <1>3
    <2>1. (c + 1) * y <= Q * y
      BY <1>3, Larger
    <2>2. (c + 1) * y = c * y + y /\ Q * y \in Nat
      BY <1>3
    <2> QED
      BY <1>2, <1>3, <2>1, <2>2
  <1>5. TruncDiv(k, y) = Q
    BY <1>2 DEF TruncDiv, Magnitude, Q
  <1>6. Wrapped(Q) = Q
    BY <1>1, <1>3, <1>4, WrappedSame
  <1>7. Div(x, y) = Q
    BY <1>5, <1>6 DEF Div, k
  <1> QED
    BY <1>3, <1>4, <1>7 DEF Q, k

\* A weight is a fraction.
LEMMA WeightType ==
    ASSUME RoomForTrades, Scale < Half, NEW n \in Nat, NEW d \in Nat, d > 0, n <= d
    PROVE  Weight(n, d) \in 0 .. Scale
  <1> DEFINE a == n * Scale
             b == d * Scale
  <1>1. Scale \in Nat /\ Scale > 0
    BY ScaleType
  <1>2. a \in Nat /\ b \in Nat /\ b > 0 /\ a <= b
    <2>1. a <= b
      BY <1>1, Larger
    <2> QED
      BY <1>1, <2>1
  <1> HIDE DEF a, b
  <1>3. a * Scale <= Scale * b
    <2>1. a * Scale <= b * Scale
      BY <1>1, <1>2, Larger
    <2> QED
      BY <1>1, <1>2, <2>1
  <1>4. Div(a, b) \in 0 .. Scale
    BY <1>1, <1>2, <1>3, DivBound
  <1> QED
    BY <1>4 DEF Weight, FromInt, a, b

\* A product with a fraction is rounded towards zero.
LEMMA MulFraction ==
    ASSUME RoomForTrades, NEW a \in 0 .. Scale, NEW v \in Nat, v < Half
    PROVE  Mul(a, v) \in Nat /\ Mul(a, v) = (a * v) \div Scale /\ Mul(a, v) <= v
           /\ Mul(a, v) * Scale <= a * v /\ a * v < (Mul(a, v) + 1) * Scale
           /\ a * v \in Nat
  <1> DEFINE k == a * v
             Q == k \div Scale
  <1>1. Scale \in Nat /\ Scale > 0 /\ Half \in Nat /\ a \in Nat /\ a <= Scale
    BY ScaleType
  <1>2. k \in Nat /\ k <= Scale * v /\ Scale * v \in Nat /\ Scale * v = v * Scale
    <2>1. k <= Scale * v
      BY <1>1, Larger
    <2> QED
      BY <1>1, <2>1
  <1> HIDE DEF k
  <1>3. Q \in Nat /\ Q * Scale <= k /\ k < (Q + 1) * Scale
    BY <1>1, <1>2
  <1> HIDE DEF Q
  <1>4. Q <= v
    <2> SUFFICES ASSUME v + 1 <= Q PROVE FALSE
      BY <1>3
    <2>1. (v + 1) * Scale <= Q * Scale
      BY <1>1, <1>3, Larger
    <2>2. (v + 1) * Scale = v * Scale + Scale /\ Q * Scale \in Nat
      BY <1>1, <1>3
    <2> QED
      BY <1>1, <1>2, <1>3, <2>1, <2>2
  <1>5. TruncDiv(k, Scale) = Q
    BY <1>1, <1>2 DEF TruncDiv, Magnitude, Q
  <1>6. Wrapped(Q) = Q
    BY <1>1, <1>3, <1>4, WrappedSame
  <1>7. Mul(a, v) = Q
    BY <1>5, <1>6 DEF Mul, k
  <1> QED
    BY <1>2, <1>3, <1>4, <1>7 DEF k, Q

\* One step of an average leaves it between its last value and the new number,
\* or one unit below both.
LEMMA EmaBetween ==
    ASSUME RoomForTrades, NEW a \in 0 .. Scale, NEW o, NEW x \in Nat, x < Half,
           o # None => Value(o) \in Nat /\ Value(o) < Half
    PROVE  LET v == ValueOr(o, x)
               t == Ema(a, o, x)
           IN  /\ Has(t) /\ Value(t) \in Nat
               /\ Value(t) <= v \/ Value(t) <= x
               /\ v <= Value(t) + 1 \/ x <= Value(t) + 1
  <1> DEFINE v == ValueOr(o, x)
             c == One - a
             p == Mul(c, v)
             r == Mul(a, x)
             S == Scale
  <1>1. S \in Nat /\ S > 0 /\ One = S /\ Half \in Nat
    <2>1. One = Scale
      BY ScaleType DEF One, FromInt
    <2> QED
      BY <2>1, ScaleType
  <1>2. v \in Nat /\ v < Half
    BY DEF ValueOr, Has
  <1>3. c \in 0 .. Scale /\ a \in Nat /\ c \in Nat /\ c + a = S
    BY <1>1
  <1> HIDE DEF v, c
  <1>4. p \in Nat /\ p * S <= c * v /\ c * v < (p + 1) * S /\ c * v \in Nat
    BY <1>2, <1>3, MulFraction
  <1>5. r \in Nat /\ r * S <= a * x /\ a * x < (r + 1) * S /\ a * x \in Nat
    BY MulFraction
  <1> HIDE DEF p, r
  <1>6. Ema(a, o, x) = <<p + r>>
    BY DEF Ema, Some, Sub, Add, v, c, p, r
  <1>7. Has(Ema(a, o, x)) /\ Value(Ema(a, o, x)) = p + r
    BY <1>6 DEF Has, None, Value
  <1> DEFINE t == p + r
  <1>8. t <= v \/ t <= x
    <2> SUFFICES ASSUME v < t, x < t PROVE FALSE
      BY <1>2, <1>4, <1>5
    <2>1. c * v <= c * t /\ a * x <= a * t
      <3>1. v * c <= t * c /\ x * a <= t * a
        BY <1>2, <1>3, <1>4, <1>5, Larger
      <3>2. \A y, z \in Nat : y * z = z * y
        OBVIOUS
      <3> QED
        BY <1>2, <1>3, <1>4, <1>5, <3>1, <3>2
    <2>2. t \in Nat /\ c * t + a * t = S * t /\ c * t \in Nat /\ a * t \in Nat
      <3>1. \A y, z, w \in Nat : y * w + z * w = (y + z) * w /\ y * w \in Nat
        OBVIOUS
      <3> QED
        BY <1>3, <1>4, <1>5, <3>1
    <2>3. p * S + r * S = S * t /\ p * S \in Nat /\ r * S \in Nat
      <3>1. \A y, z, w \in Nat : y * w + z * w = w * (y + z) /\ y * w \in Nat
        OBVIOUS
      <3> QED
        BY <1>1, <1>4, <1>5, <3>1
    <2>4. c * v + a * x = S * t
      BY <1>4, <1>5, <2>1, <2>2, <2>3
    <2>5. c * v = c * t /\ a * x = a * t
      BY <1>4, <1>5, <2>1, <2>2, <2>4
    <2>6. c # 0 \/ a # 0
      BY <1>1, <1>3
    <2>7. \A y, z, w \in Nat : y # 0 /\ z < w => y * z < y * w
      <3> SUFFICES ASSUME NEW y \in Nat, NEW z \in Nat, NEW w \in Nat, y # 0, z < w
                   PROVE  y * z < y * w
        OBVIOUS
      <3>1. (z + 1) * y <= w * y
        BY Larger
      <3>2. (z + 1) * y = y * z + y /\ w * y = y * w /\ y * z \in Nat /\ y * w \in Nat
        OBVIOUS
      <3> QED
        BY <3>1, <3>2
    <2>8. c # 0 => c * v < c * t
      BY <1>2, <1>3, <2>2, <2>7
    <2>9. a # 0 => a * x < a * t
      BY <1>3, <2>2, <2>7
    <2> QED
      BY <1>4, <1>5, <2>5, <2>6, <2>8, <2>9
  <1>9. v <= t + 1 \/ x <= t + 1
    <2> SUFFICES ASSUME t + 2 <= v, t + 2 <= x PROVE FALSE
      BY <1>2, <1>4, <1>5
    <2> DEFINE u == t + 2
    <2>0. u \in Nat
      BY <1>4, <1>5
    <2>1. c * u <= c * v /\ a * u <= a * x
      <3>1. u * c <= v * c /\ u * a <= x * a
        BY <1>2, <1>3, <2>0, Larger
      <3>2. \A y, z \in Nat : y * z = z * y
        OBVIOUS
      <3> QED
        BY <1>2, <1>3, <2>0, <3>1, <3>2
    <2>2. c * u + a * u = S * u /\ c * u \in Nat /\ a * u \in Nat
      <3>1. \A y, z, w \in Nat : y * w + z * w = (y + z) * w /\ y * w \in Nat
        OBVIOUS
      <3> QED
        BY <1>3, <2>0, <3>1
    <2>3. (p + 1) * S + (r + 1) * S = S * u /\ (p + 1) * S \in Nat /\ (r + 1) * S \in Nat
      <3>1. \A y, z, w \in Nat : (y + 1) * w + (z + 1) * w = w * ((y + z) + 2) /\ (y + 1) * w \in Nat
        OBVIOUS
      <3> QED
        BY <1>1, <1>4, <1>5, <3>1
    <2> HIDE DEF u
    <2> QED
      BY <1>4, <1>5, <2>1, <2>2, <2>3
  <1>10. t \in Nat
    BY <1>4, <1>5
  <1> QED
    BY <1>7, <1>8, <1>9, <1>10 DEF v

\* An average of n numbers.
IsAverage(o, x, n) ==
    /\ n = 0 => o = None
    /\ n # 0 => /\ Has(o) /\ Value(o) \in Nat
                /\ \E i \in 1 .. n : Value(o) <= x[i]
                /\ \E i \in 1 .. n : x[i] <= Value(o) + n

\* The prices of a sequence of trades.
PricesOf(q) == [i \in DOMAIN q |-> q[i].price]

\* One more number.
LEMMA AverageGoesOn ==
    ASSUME RoomForTrades, NEW a \in 0 .. Scale, NEW n \in Nat, NEW x, NEW y,
           \A i \in 1 .. n : x[i] = y[i],
           \A i \in 1 .. n + 1 : y[i] \in Nat /\ y[i] < Half,
           NEW o, IsAverage(o, x, n)
    PROVE  IsAverage(Ema(a, o, y[n + 1]), y, n + 1)
  <1> DEFINE t == Ema(a, o, y[n + 1])
             z == y[n + 1]
             w == Value(t)
  <1>1. z \in Nat /\ z < Half /\ n + 1 \in 1 .. n + 1 /\ Half \in Nat
    BY ScaleType
  <1>2. n # 0 => /\ Has(o) /\ Value(o) \in Nat
                 /\ \E i \in 1 .. n : Value(o) <= y[i]
                 /\ \E i \in 1 .. n : y[i] <= Value(o) + n
    BY DEF IsAverage
  <1>3. o # None => n # 0
    BY DEF IsAverage
  <1>4. n # 0 => Value(o) < Half
    <2> SUFFICES ASSUME n # 0 PROVE Value(o) < Half
      OBVIOUS
    <2>1. PICK i \in 1 .. n : Value(o) <= y[i]
      BY <1>2
    <2>2. y[i] \in Nat /\ y[i] < Half
      OBVIOUS
    <2> QED
      BY <1>1, <1>2, <2>1, <2>2
  <1>5. o # None => Value(o) \in Nat /\ Value(o) < Half
    BY <1>2, <1>3, <1>4
  <1>6. ValueOr(o, z) = IF n = 0 THEN z ELSE Value(o)
    BY <1>2, <1>3 DEF ValueOr, Has
  <1> HIDE DEF z
  <1>7. LET v == ValueOr(o, z)
            t0 == Ema(a, o, z)
        IN  /\ Has(t0) /\ Value(t0) \in Nat
            /\ Value(t0) <= v \/ Value(t0) <= z
            /\ v <= Value(t0) + 1 \/ z <= Value(t0) + 1
    BY <1>1, <1>5, EmaBetween
  <1> DEFINE v == ValueOr(o, z)
  <1>8. /\ Has(t) /\ w \in Nat
        /\ w <= v \/ w <= z
        /\ v <= w + 1 \/ z <= w + 1
    BY <1>7 DEF z
  <1> HIDE DEF t, w, v
  <1>9. \E i \in 1 .. n + 1 : w <= y[i]
    <2>1. CASE w <= z
      BY <1>1, <2>1 DEF z
    <2>2. CASE ~ (w <= z) /\ n # 0
      <3>1. w <= v /\ v = Value(o)
        BY <1>6, <1>8, <2>2 DEF v
      <3>2. PICK i \in 1 .. n : v <= y[i]
        BY <1>2, <2>2, <3>1
      <3>3. i \in 1 .. n + 1 /\ y[i] \in Nat
        OBVIOUS
      <3>4. w <= y[i]
        BY <1>2, <1>8, <2>2, <3>1, <3>2, <3>3
      <3> QED
        BY <3>3, <3>4
    <2>3. CASE ~ (w <= z) /\ n = 0
      BY <1>6, <1>8, <2>3 DEF v
    <2> QED
      BY <2>1, <2>2, <2>3
  <1>10. \E i \in 1 .. n + 1 : y[i] <= w + (n + 1)
    <2>1. CASE z <= w + 1
      <3>1. z <= w + (n + 1)
        BY <1>1, <1>8, <2>1
      <3> QED
        BY <1>1, <3>1 DEF z
    <2>2. CASE ~ (z <= w + 1) /\ n # 0
      <3>1. v <= w + 1 /\ v = Value(o) /\ v \in Nat
        BY <1>2, <1>6, <1>8, <2>2 DEF v
      <3>2. PICK i \in 1 .. n : y[i] <= v + n
        BY <1>2, <2>2, <3>1
      <3>3. i \in 1 .. n + 1 /\ y[i] \in Nat
        OBVIOUS
      <3>4. y[i] <= w + (n + 1)
        BY <1>8, <3>1, <3>2, <3>3
      <3> QED
        BY <3>3, <3>4
    <2>3. CASE ~ (z <= w + 1) /\ n = 0
      BY <1>6, <1>8, <2>3 DEF v
    <2> QED
      BY <2>1, <2>2, <2>3
  <1>11. n + 1 # 0
    OBVIOUS
  <1> QED
    BY <1>8, <1>9, <1>10, <1>11 DEF IsAverage, t, w

\* What the signals that average know of the trades.
AverageFacts(q, s) ==
    /\ IsAverage(s.ema.price, PricesOf(q), Len(q))
    /\ IsAverage(s.macd.fast, PricesOf(q), Len(q))
    /\ IsAverage(s.macd.slow, PricesOf(q), Len(q))
    /\ IsAverage(s.ema.pv, ValuesOf(q), Len(q))
    /\ IsAverage(s.ema.v, SizesOf(q), Len(q))
    /\ IsAverage(s.depth.proxy, SizesOf(q), Len(q))

\* Before the first trade.
LEMMA AveragesStart == AverageFacts(<<>>, Fresh)
  <1> DEFINE none == <<>>
  <1>1. Len(none) = 0
    OBVIOUS
  <1> HIDE DEF none
  <1>2. \A x : IsAverage(None, x, Len(none))
    BY <1>1 DEF IsAverage
  <1>3. /\ Fresh.ema.price = None /\ Fresh.ema.pv = None /\ Fresh.ema.v = None
        /\ Fresh.macd.fast = None /\ Fresh.macd.slow = None
        /\ Fresh.depth.proxy = None
    BY DEF Fresh, EmaSignalInit, MacdInit, TradeSizeDepthRatioInit
  <1> QED
    BY <1>2, <1>3 DEF AverageFacts, none

\* The weights of the averages.
LEMMA Weights ==
    ASSUME RoomForTrades, NEW e \in Trades
    PROVE  /\ Scale < Half
           /\ Alpha \in 0 .. Scale
           /\ Weight(12, 100) \in 0 .. Scale /\ Weight(26, 100) \in 0 .. Scale
           /\ Weight(1, 14) \in 0 .. Scale
  <1>1. Scale < Half
    <2> DEFINE z == e.quantity
    <2>1. z \in Nat /\ z > 0 /\ Scale * z < Half
      BY TradeType, TradeNumbers
    <2>2. Scale \in Nat /\ Half \in Nat
      BY ScaleType
    <2> HIDE DEF z
    <2>3. 1 * Scale <= z * Scale /\ z * Scale = Scale * z
      BY <2>1, <2>2, Larger
    <2>4. 1 * Scale = Scale /\ Scale * z \in Nat
      BY <2>1, <2>2
    <2> QED
      BY <2>1, <2>2, <2>3, <2>4
  <1>2. \A n, d \in Nat : d > 0 /\ n <= d => Weight(n, d) \in 0 .. Scale
    BY <1>1, WeightType
  <1>3. 5 \in Nat /\ 100 \in Nat /\ 12 \in Nat /\ 26 \in Nat /\ 1 \in Nat /\ 14 \in Nat
        /\ 100 > 0 /\ 14 > 0 /\ 5 <= 100 /\ 12 <= 100 /\ 26 <= 100 /\ 1 <= 14
    OBVIOUS
  <1>4. Weight(5, 100) \in 0 .. Scale /\ Weight(12, 100) \in 0 .. Scale
        /\ Weight(26, 100) \in 0 .. Scale /\ Weight(1, 14) \in 0 .. Scale
    BY <1>2, <1>3
  <1> QED
    BY <1>1, <1>4 DEF Alpha

\* A trade that the signals process keeps their averages.
LEMMA AveragesStep ==
    ASSUME RoomForTrades, NEW q \in Seq(Trades), NEW e \in Trades, NEW s, AverageFacts(q, s)
    PROVE  AverageFacts(Append(q, e), Updated(s, e))
  <1> DEFINE r == Append(q, e)
             n == Len(q)
             t == Updated(s, e)
  <1>1. /\ n \in Nat /\ Len(r) = n + 1 /\ DOMAIN q = 1 .. n /\ DOMAIN r = 1 .. n + 1
        /\ r[n + 1] = e /\ \A i \in 1 .. n : r[i] = q[i]
        /\ \A i \in 1 .. n + 1 : r[i] \in Trades
    OBVIOUS
  <1> HIDE DEF r, n
  <1>2. \A i \in 1 .. n + 1 :
            /\ r[i].price \in Nat /\ r[i].price < Half
            /\ r[i].price * r[i].quantity \in Nat /\ r[i].price * r[i].quantity < Half
            /\ Scale * r[i].quantity \in Nat /\ Scale * r[i].quantity < Half
    BY <1>1, TradeNumbers, TradeType
  <1>3. /\ \A i \in 1 .. n : PricesOf(q)[i] = PricesOf(r)[i]
        /\ \A i \in 1 .. n : ValuesOf(q)[i] = ValuesOf(r)[i]
        /\ \A i \in 1 .. n : SizesOf(q)[i] = SizesOf(r)[i]
    <2>1. \A i \in 1 .. n : i \in 1 .. n + 1
      BY <1>1
    <2> QED
      BY <1>1, <2>1 DEF PricesOf, ValuesOf, SizesOf
  <1>4. /\ \A i \in 1 .. n + 1 : PricesOf(r)[i] \in Nat /\ PricesOf(r)[i] < Half
        /\ \A i \in 1 .. n + 1 : ValuesOf(r)[i] \in Nat /\ ValuesOf(r)[i] < Half
        /\ \A i \in 1 .. n + 1 : SizesOf(r)[i] \in Nat /\ SizesOf(r)[i] < Half
    BY <1>1, <1>2 DEF PricesOf, ValuesOf, SizesOf
  <1>5. /\ PricesOf(r)[n + 1] = e.price
        /\ ValuesOf(r)[n + 1] = Notional(e)
        /\ SizesOf(r)[n + 1] = Qty(e)
    <2>1. n + 1 \in 1 .. n + 1
      BY <1>1
    <2>2. Notional(e) = e.price * e.quantity /\ Qty(e) = Scale * e.quantity
      BY TradeNumbers
    <2> QED
      BY <1>1, <2>1, <2>2 DEF PricesOf, ValuesOf, SizesOf
  <1> DEFINE goesOn(x, y, z) ==
                \A a \in 0 .. Scale : \A o :
                    IsAverage(o, x, n) => IsAverage(Ema(a, o, z), y, n + 1)
  <1>6. ASSUME NEW x, NEW y, NEW z, \A i \in 1 .. n : x[i] = y[i],
               \A i \in 1 .. n + 1 : y[i] \in Nat /\ y[i] < Half, z = y[n + 1]
        PROVE  goesOn(x, y, z)
    BY <1>1, <1>6, AverageGoesOn
  <1>7. goesOn(PricesOf(q), PricesOf(r), e.price)
    BY <1>3, <1>4, <1>5, <1>6
  <1>8. goesOn(ValuesOf(q), ValuesOf(r), Notional(e))
    BY <1>3, <1>4, <1>5, <1>6
  <1>9. goesOn(SizesOf(q), SizesOf(r), Qty(e))
    BY <1>3, <1>4, <1>5, <1>6
  <1>10. /\ t.ema.price = Ema(Alpha, s.ema.price, e.price)
         /\ t.ema.pv = Ema(Alpha, s.ema.pv, Notional(e))
         /\ t.ema.v = Ema(Alpha, s.ema.v, Qty(e))
    BY DEF Updated, EmaSignal
  <1>11. /\ t.macd.fast = Ema(Weight(12, 100), s.macd.fast, e.price)
         /\ t.macd.slow = Ema(Weight(26, 100), s.macd.slow, e.price)
    <2>1. t.macd = MacdSignal(s.macd, e)
      BY DEF Updated
    <2> QED
      BY <2>1 DEF MacdSignal
  <1>12. t.depth.proxy = Ema(Alpha, s.depth.proxy, Qty(e))
    <2>1. t.depth = TradeSizeDepthRatio(s.depth, e)
      BY DEF Updated
    <2>2. t.depth.proxy = Ema(Alpha, Some(ValueOr(s.depth.proxy, Qty(e))), Qty(e))
      BY <2>1 DEF TradeSizeDepthRatio
    <2>3. \A v : ValueOr(Some(v), Qty(e)) = v
      BY DEF ValueOr, Has, None, Some, Value
    <2> QED
      BY <2>2, <2>3 DEF Ema
  <1>13. /\ Alpha \in 0 .. Scale
         /\ Weight(12, 100) \in 0 .. Scale /\ Weight(26, 100) \in 0 .. Scale
    BY Weights
  <1> HIDE DEF t
  <1>14. AverageFacts(r, t)
    BY <1>1, <1>7, <1>8, <1>9, <1>10, <1>11, <1>12, <1>13 DEF AverageFacts, n
  <1> QED
    BY <1>14 DEF r, t

\* What AveragesStayInRange says of the averages.
LEMMA AveragesSuffice ==
    ASSUME SessionOK, AverageFacts(Seen, signals), RoomForTrades
    PROVE  AveragesStayInRange
  <1> DEFINE n == Len(Seen)
             prices == [i \in DOMAIN Seen |-> tape[i].price]
             values == [i \in DOMAIN Seen |-> ValueOf(i)]
             lots == [i \in DOMAIN Seen |-> LotsOf(i)]
             averages(o, x) ==
                Has(o) => /\ \E i \in DOMAIN Seen : Value(o) <= x[i]
                          /\ \E i \in DOMAIN Seen : x[i] - n <= Value(o)
  <1>1. /\ n \in Nat /\ DOMAIN Seen = 1 .. n
        /\ \A i \in 1 .. n : Seen[i] = tape[i] /\ Seen[i] \in Trades
    <2>1. Seen \in Seq(Trades) /\ \A i \in 1 .. Len(Seen) : Seen[i] = tape[i]
      BY SeenIs
    <2> QED
      BY <2>1
  <1>2. /\ \A i \in 1 .. n : prices[i] = PricesOf(Seen)[i] /\ prices[i] \in Nat
        /\ \A i \in 1 .. n : values[i] = ValuesOf(Seen)[i] /\ values[i] \in Nat
        /\ \A i \in 1 .. n : lots[i] = SizesOf(Seen)[i] /\ lots[i] \in Nat
    BY <1>1, TradeNumbers, TradeType DEF PricesOf, ValuesOf, SizesOf, ValueOf, LotsOf
  <1>3. ASSUME NEW o, NEW x, NEW y, IsAverage(o, y, n),
               \A i \in 1 .. n : x[i] = y[i] /\ x[i] \in Nat
        PROVE  averages(o, x)
    <2> SUFFICES ASSUME Has(o) PROVE averages(o, x)
      OBVIOUS
    <2>1. /\ Value(o) \in Nat
          /\ \E i \in 1 .. n : Value(o) <= y[i]
          /\ \E i \in 1 .. n : y[i] <= Value(o) + n
      BY <1>3 DEF IsAverage, Has
    <2> DEFINE v == Value(o)
    <2> HIDE DEF v
    <2>2. \A i \in 1 .. n : y[i] <= v + n /\ v \in Nat => x[i] - n <= v
      <3> HIDE DEF n
      <3> QED
        BY <1>1, <1>3
    <2>3. \E i \in 1 .. n : x[i] - n <= v
      BY <2>1, <2>2 DEF v
    <2>4. \E i \in 1 .. n : v <= x[i]
      BY <1>3, <2>1 DEF v
    <2> QED
      BY <1>1, <2>3, <2>4 DEF v
  <1> HIDE DEF prices, values, lots
  <1>4. /\ averages(signals.ema.price, prices)
        /\ averages(signals.macd.fast, prices)
        /\ averages(signals.macd.slow, prices)
    BY <1>2, <1>3 DEF AverageFacts
  <1>5. averages(signals.ema.pv, values)
    BY <1>2, <1>3 DEF AverageFacts
  <1>6. averages(signals.ema.v, lots) /\ averages(signals.depth.proxy, lots)
    BY <1>2, <1>3 DEF AverageFacts
  <1> QED
    BY <1>4, <1>5, <1>6 DEF AveragesStayInRange, prices, values, lots

\* An exponential average lies between the extremes of what it averages, or
\* below the lowest by at most one unit of the last place for every trade.
THEOREM AveragesAlwaysInRange ==
    ASSUME RoomForTrades
    PROVE  Spec => []AveragesStayInRange
  <1> DEFINE Inv == SessionOK /\ AverageFacts(Seen, signals)
  <1>1. Init => Inv
    <2> SUFFICES ASSUME Init PROVE Inv
      OBVIOUS
    <2> QED
      BY SessionStarts, AveragesStart
  <1>2. Inv /\ [Next]_vars => Inv'
    <2> SUFFICES ASSUME Inv, [Next]_vars PROVE Inv'
      OBVIOUS
    <2>1. SessionOK'
      BY SessionSteps
    <2>2. CASE Seen' = Seen /\ signals' = signals
      BY <2>1, <2>2
    <2>3. CASE \E e \in Trades : Seen' = Append(Seen, e) /\ signals' = Updated(signals, e)
      BY <2>1, <2>3, SeenIs, AveragesStep
    <2> QED
      BY <2>2, <2>3, SessionSteps
  <1>3. Inv => AveragesStayInRange
    BY AveragesSuffice
  <1> QED
    BY <1>1, <1>2, <1>3, PTL DEF Spec

-----------------------------------------------------------------------------
(* Ratios.                                                                 *)

\* The width has room for what the ratios divide, as fixed-point numbers.
RoomForRatios ==
    /\ RoomForTrades
    /\ 100 * Scale < Half
    /\ \A p \in TradePrices, q \in Lots :
        (p * q) * Scale < Half /\ (Scale * q) * Scale < Half

\* An average that has room to be divided, and one that fits into the width.
MayDivide(o) == o # None => Value(o) \in Nat /\ Value(o) * Scale < Half
\* A number of the width that is not negative, or none yet.
Fits(o) == o # None => Value(o) \in Nat /\ Value(o) < Half

\* What may be divided fits.
LEMMA DivideFits ==
    ASSUME RoomForTrades, NEW x \in Nat, x * Scale < Half
    PROVE  x < Half
  <1>1. Scale \in Nat /\ Scale > 0 /\ Half \in Nat
    BY ScaleType
  <1>2. x * 1 <= x * Scale
    <2>1. 1 * x <= Scale * x /\ Scale * x = x * Scale /\ 1 * x = x * 1
      BY <1>1, Larger
    <2> QED
      BY <2>1
  <1>3. x * 1 = x /\ x * Scale \in Nat
    BY <1>1
  <1> QED
    BY <1>1, <1>2, <1>3

\* An average of what fits still fits.
LEMMA EmaFits ==
    ASSUME RoomForTrades, NEW a \in 0 .. Scale, NEW o, Fits(o), NEW x \in Nat, x < Half
    PROVE  Has(Ema(a, o, x)) /\ Fits(Ema(a, o, x))
  <1> DEFINE t == Ema(a, o, x)
             v == ValueOr(o, x)
  <1>1. /\ Has(t) /\ Value(t) \in Nat
        /\ Value(t) <= v \/ Value(t) <= x
    BY EmaBetween DEF Fits
  <1>2. v \in Nat /\ v < Half
    BY DEF Fits, ValueOr, Has
  <1> HIDE DEF t, v
  <1>3. Half \in Nat
    BY ScaleType
  <1> QED
    BY <1>1, <1>2, <1>3 DEF Fits, t

\* An average of what may be divided may be divided.
LEMMA EmaMayDivide ==
    ASSUME RoomForTrades, NEW a \in 0 .. Scale, NEW o, MayDivide(o),
           NEW x \in Nat, x * Scale < Half
    PROVE  Has(Ema(a, o, x)) /\ MayDivide(Ema(a, o, x))
  <1> DEFINE t == Ema(a, o, x)
             v == ValueOr(o, x)
             w == Value(t)
  <1>1. x < Half /\ (o # None => Value(o) \in Nat /\ Value(o) < Half)
    BY DivideFits DEF MayDivide
  <1>2. /\ Has(t) /\ w \in Nat
        /\ w <= v \/ w <= x
    BY <1>1, EmaBetween
  <1>3. v \in Nat /\ v * Scale < Half
    BY DEF MayDivide, ValueOr, Has
  <1>4. Half \in Nat /\ Scale \in Nat
    BY ScaleType
  <1> HIDE DEF t, v, w
  <1>5. w * Scale < Half
    <2>1. w * Scale <= v * Scale \/ w * Scale <= x * Scale
      BY <1>2, <1>3, <1>4, Larger
    <2>2. w * Scale \in Nat /\ v * Scale \in Nat /\ x * Scale \in Nat
      BY <1>2, <1>3, <1>4
    <2> QED
      BY <1>3, <1>4, <2>1, <2>2
  <1> QED
    BY <1>2, <1>5 DEF MayDivide, t, w

\* A ratio is not negative.
LEMMA RatioType ==
    ASSUME RoomForTrades, NEW x \in Nat, x * Scale < Half, NEW y \in Nat, y > 0
    PROVE  Div(x, y) \in Nat
  <1> DEFINE c == x * Scale
  <1>1. c \in Nat /\ c < Half
    BY ScaleType
  <1> HIDE DEF c
  <1>2. c <= c * y
    <2>1. 1 * c <= y * c /\ y * c = c * y /\ 1 * c = c
      BY <1>1, Larger
    <2> QED
      BY <2>1
  <1>3. Div(x, y) \in 0 .. c
    BY <1>1, <1>2, DivBound DEF c
  <1> QED
    BY <1>1, <1>3

\* The strength of the ups against the downs is a percentage.
LEMMA StrengthType ==
    ASSUME RoomForRatios, NEW x \in Nat, x * Scale < Half, NEW y \in Nat, y > 0
    PROVE  Strength(x, y) \in 0 .. FromInt(100)
  <1> DEFINE d == One + Div(x, y)
             h == FromInt(100)
  <1>1. /\ RoomForTrades /\ Scale \in Nat /\ Scale > 0 /\ Half \in Nat
        /\ h = 100 * Scale /\ h \in Nat /\ h < Half /\ One = Scale
    <2>1. RoomForTrades /\ 100 * Scale < Half
      BY DEF RoomForRatios
    <2>2. Scale \in Nat /\ Scale > 0 /\ Half \in Nat
      BY <2>1, ScaleType
    <2> QED
      BY <2>1, <2>2 DEF FromInt, One
  <1>2. Div(x, y) \in Nat
    BY <1>1, RatioType
  <1>3. d \in Nat /\ d > 0 /\ Scale <= d
    BY <1>1, <1>2
  <1> HIDE DEF d, h
  <1>4. h * Scale <= h * d
    <2>1. Scale * h <= d * h
      BY <1>1, <1>3, Larger
    <2> QED
      BY <1>1, <1>3, <2>1
  <1>5. Div(h, d) \in 0 .. h
    BY <1>1, <1>3, <1>4, DivBound
  <1>6. Strength(x, y) = h - Div(h, d)
    BY DEF Strength, Sub, Add, d, h
  <1>7. h - Div(h, d) \in 0 .. h
    BY <1>1, <1>5
  <1> QED
    BY <1>6, <1>7 DEF h

-----------------------------------------------------------------------------
(* VPIN.                                                                   *)

\* The open bucket is not full, and the closed ones are fractions.
VpinOK(s) ==
    /\ s = [last |-> s.last, buy |-> s.buy, sell |-> s.sell, fill |-> s.fill,
            imbalances |-> s.imbalances, vpin |-> s.vpin]
    /\ s.buy \in Nat /\ s.sell \in Nat /\ s.buy + s.sell = s.fill
    /\ s.fill < BucketSize
    /\ s.imbalances \in Seq(0 .. One)
    /\ s.vpin # None => Value(s.vpin) \in 0 .. One

\* The size of a bucket.
LEMMA BucketType ==
    ASSUME RoomForTrades
    PROVE  /\ BucketSize \in Nat /\ BucketSize > 0
           /\ One = Scale /\ Scale \in Nat /\ Scale > 0
           /\ NumBuckets \in Nat /\ NumBuckets > 0
  <1>1. Scale \in Nat /\ Scale > 0
    BY ScaleType
  <1>2. BucketLots \in Nat /\ BucketLots > 0 /\ NumBuckets \in Nat /\ NumBuckets > 0
    BY TickSignalsAssumption
  <1>3. BucketSize = BucketLots * Scale
    BY DEF BucketSize, FromInt
  <1>4. \A x, y \in Nat : x > 0 /\ y > 0 => x * y \in Nat /\ x * y > 0
    OBVIOUS
  <1>5. One = Scale
    BY <1>1 DEF One, FromInt
  <1> QED
    BY <1>1, <1>2, <1>3, <1>4, <1>5

\* The sum of fractions is at most their number.
LEMMA SumOfFractions ==
    ASSUME NEW c \in Nat, NEW q \in Seq(0 .. c)
    PROVE  SumFunction(q) \in Nat /\ SumFunction(q) <= Len(q) * c
  <1> DEFINE Good(m) == \A s \in Seq(0 .. c) :
                            Len(s) = m => SumFunction(s) \in Nat /\ SumFunction(s) <= m * c
             N == {m \in Nat : Good(m)}
  <1>1. 0 \in N
    <2>1. ASSUME NEW s \in Seq(0 .. c), Len(s) = 0
          PROVE  SumFunction(s) = 0
      <3>1. DOMAIN s = {}
        BY <2>1
      <3> QED
        BY <3>1, SumOfNone DEF SumFunction
    <2>2. 0 * c = 0
      OBVIOUS
    <2> QED
      BY <2>1, <2>2
  <1>2. ASSUME NEW m \in N PROVE m + 1 \in N
    <2>1. m \in Nat /\ Good(m)
      OBVIOUS
    <2>2. ASSUME NEW s \in Seq(0 .. c), Len(s) = m + 1
          PROVE  SumFunction(s) \in Nat /\ SumFunction(s) <= (m + 1) * c
      <3> DEFINE f == [i \in 1 .. m |-> s[i]]
      <3>1. DOMAIN s = 1 .. m + 1 /\ \A i \in 1 .. m + 1 : s[i] \in 0 .. c
        BY <2>2
      <3>2. DOMAIN f = 1 .. m /\ \A i \in 1 .. m : f[i] = s[i] /\ s[i] \in 0 .. c
        BY <2>1, <3>1
      <3>3. f \in Seq(0 .. c) /\ Len(f) = m
        BY <2>1, <3>2
      <3>4. s[m + 1] \in 0 .. c
        BY <2>1, <3>1
      <3>5. \A i \in 1 .. m + 1 : s[i] \in Int
        BY <3>1
      <3> HIDE DEF f
      <3>6. SumFunction(f) \in Nat /\ SumFunction(f) <= m * c
        BY <2>1, <3>3
      <3>7. SumFunction(s) = SumFunction(f) + s[m + 1]
        BY <2>1, <3>1, <3>2, <3>5, SumGrows
      <3>8. (m + 1) * c = m * c + c /\ m * c \in Nat
        BY <2>1
      <3> DEFINE F == SumFunction(f)
      <3> HIDE DEF F
      <3>9. F + s[m + 1] \in Nat /\ F + s[m + 1] <= m * c + c
        BY <3>4, <3>6, <3>8 DEF F
      <3> QED
        BY <3>7, <3>8, <3>9 DEF F
    <2>3. Good(m + 1)
      BY <2>2
    <2> HIDE DEF Good
    <2> QED
      BY <2>1, <2>3
  <1>3. N = Nat
    <2> HIDE DEF N
    <2>1. N \in SUBSET Nat
      BY DEF N
    <2> QED
      BY <1>1, <1>2, <2>1, NaturalsByInduction
  <1>4. Len(q) \in N
    BY <1>3
  <1> QED
    BY <1>4

\* A bucket that is full is closed.
LEMMA CloseKeeps ==
    ASSUME RoomForTrades, Scale < Half, NEW s,
           s = [last |-> s.last, buy |-> s.buy, sell |-> s.sell, fill |-> s.fill,
                imbalances |-> s.imbalances, vpin |-> s.vpin],
           s.buy \in Nat, s.sell \in Nat, s.buy + s.sell <= BucketSize,
           s.imbalances \in Seq(0 .. One)
    PROVE  VpinOK(CloseBucket(s))
  <1> DEFINE imbalance == Div(Magnitude(s.buy - s.sell), BucketSize)
             window == Append(s.imbalances, imbalance)
             kept == IF Len(window) > NumBuckets THEN Tail(window) ELSE window
             vpin == Div(SumFunction(kept), FromInt(Len(kept)))
             t == CloseBucket(s)
             m == Magnitude(s.buy - s.sell)
  <1>1. /\ BucketSize \in Nat /\ BucketSize > 0 /\ One = Scale /\ Scale \in Nat /\ Scale > 0
        /\ NumBuckets \in Nat /\ NumBuckets > 0
    BY BucketType
  <1>2. m \in Nat /\ m <= BucketSize
    BY <1>1 DEF Magnitude
  <1> HIDE DEF m
  <1>3. imbalance \in 0 .. One
    <2>1. m * Scale <= Scale * BucketSize
      <3>1. m * Scale <= BucketSize * Scale /\ BucketSize * Scale = Scale * BucketSize
        BY <1>1, <1>2, Larger
      <3> QED
        BY <3>1
    <2> QED
      BY <1>1, <1>2, <2>1, DivBound DEF m
  <1> HIDE DEF imbalance
  <1>4. window \in Seq(0 .. One) /\ Len(window) = Len(s.imbalances) + 1 /\ Len(s.imbalances) \in Nat
    BY <1>3
  <1> HIDE DEF window
  <1>5. kept \in Seq(0 .. One) /\ Len(kept) \in Nat /\ Len(kept) > 0
    <2>1. CASE Len(window) > NumBuckets
      <3>1. Len(window) > 1 /\ window # <<>>
        BY <1>1, <1>4, <2>1
      <3>2. kept = Tail(window)
        BY <2>1
      <3>3. Tail(window) \in Seq(0 .. One) /\ Len(Tail(window)) = Len(window) - 1
        BY <1>4, <3>1
      <3>4. Len(Tail(window)) \in Nat /\ Len(Tail(window)) > 0
        <4>1. Len(window) \in Nat
          BY <1>4
        <4> DEFINE a == Len(window)
                   b == Len(Tail(window))
        <4> HIDE DEF a, b
        <4>2. a \in Nat /\ a > 1 /\ b = a - 1
          BY <3>1, <3>3, <4>1 DEF a, b
        <4> QED
          BY <4>2 DEF b
      <3> HIDE DEF kept
      <3> QED
        BY <3>2, <3>3, <3>4
    <2>2. CASE ~ (Len(window) > NumBuckets)
      BY <1>4, <2>2
    <2> QED
      BY <2>1, <2>2
  <1> HIDE DEF kept
  <1>6. vpin \in 0 .. One
    <2> DEFINE x == SumFunction(kept)
               n == Len(kept)
               y == FromInt(n)
    <2>1. x \in Nat /\ x <= n * One
      BY <1>1, <1>5, SumOfFractions
    <2>2. y = n * Scale /\ n \in Nat /\ n > 0
      BY <1>5 DEF FromInt
    <2> HIDE DEF x, n, y
    <2>3. y \in Nat /\ y > 0
      <3>1. \A j, k \in Nat : j > 0 /\ k > 0 => j * k \in Nat /\ j * k > 0
        OBVIOUS
      <3> QED
        BY <1>1, <2>2, <3>1
    <2>4. x * Scale <= Scale * y
      <3>1. x <= y
        BY <1>1, <2>1, <2>2
      <3>2. x * Scale <= y * Scale
        BY <1>1, <2>1, <2>3, <3>1, Larger
      <3> QED
        BY <1>1, <2>1, <2>3, <3>2
    <2>5. Div(x, y) \in 0 .. Scale
      BY <1>1, <2>1, <2>3, <2>4, DivBound
    <2> QED
      BY <1>1, <2>5 DEF x, n, y
  <1>7. t = [s EXCEPT !.buy = 0, !.sell = 0, !.fill = 0, !.imbalances = kept, !.vpin = Some(vpin)]
    BY DEF CloseBucket, kept, window, imbalance
  <1>8. t = [last |-> s.last, buy |-> 0, sell |-> 0, fill |-> 0,
             imbalances |-> kept, vpin |-> <<vpin>>]
    BY <1>7 DEF Some
  <1> HIDE DEF t, vpin
  <1> QED
    BY <1>1, <1>5, <1>6, <1>8 DEF VpinOK, Value, t

\* One pass of the loop keeps the buckets.
LEMMA PassKeeps ==
    ASSUME RoomForTrades, Scale < Half, NEW x, VpinOK(x.signal), x.left \in Nat, NEW buys \in BOOLEAN
    PROVE  VpinOK(FillPass(x, buys).signal) /\ FillPass(x, buys).left \in Nat
  <1>1. CASE ~ (x.left > 0)
    BY <1>1 DEF FillPass
  <1>2. CASE x.left > 0
    <2> DEFINE s == x.signal
               left == x.left
               space == BucketSize - s.fill
               filled == IF left < space THEN left ELSE space
               t == [s EXCEPT !.buy = IF buys THEN @ + filled ELSE @,
                              !.sell = IF buys THEN @ ELSE @ + filled,
                              !.fill = @ + filled]
    <2>1. FillPass(x, buys) = [signal |-> IF t.fill >= BucketSize THEN CloseBucket(t) ELSE t,
                               left |-> left - filled]
      BY <1>2 DEF FillPass, FillBucket
    <2>2. /\ s = [last |-> s.last, buy |-> s.buy, sell |-> s.sell, fill |-> s.fill,
                  imbalances |-> s.imbalances, vpin |-> s.vpin]
          /\ s.buy \in Nat /\ s.sell \in Nat /\ s.buy + s.sell = s.fill
          /\ s.fill < BucketSize
          /\ s.imbalances \in Seq(0 .. One)
          /\ s.vpin # None => Value(s.vpin) \in 0 .. One
      BY DEF VpinOK
    <2>3. BucketSize \in Nat
      BY BucketType
    <2>4. filled \in Nat /\ filled <= left /\ s.fill + filled <= BucketSize
          /\ left - filled \in Nat
      BY <1>2, <2>2, <2>3
    <2> HIDE DEF s, filled
    <2>5. t = [last |-> s.last, buy |-> IF buys THEN s.buy + filled ELSE s.buy,
               sell |-> IF buys THEN s.sell ELSE s.sell + filled,
               fill |-> s.fill + filled, imbalances |-> s.imbalances, vpin |-> s.vpin]
      <3> DEFINE b == IF buys THEN s.buy + filled ELSE s.buy
                 c == IF buys THEN s.sell ELSE s.sell + filled
                 f == s.fill + filled
      <3>1. t = [s EXCEPT !.buy = b, !.sell = c, !.fill = f]
        OBVIOUS
      <3>2. s = [last |-> s.last, buy |-> s.buy, sell |-> s.sell, fill |-> s.fill,
                 imbalances |-> s.imbalances, vpin |-> s.vpin]
        BY <2>2
      <3> HIDE DEF t, b, c, f
      <3>3. t = [last |-> s.last, buy |-> b, sell |-> c, fill |-> f,
                 imbalances |-> s.imbalances, vpin |-> s.vpin]
        BY ONLY <3>1, <3>2
      <3> QED
        BY <3>3 DEF b, c, f
    <2> HIDE DEF t
    <2>6. /\ t = [last |-> t.last, buy |-> t.buy, sell |-> t.sell, fill |-> t.fill,
                  imbalances |-> t.imbalances, vpin |-> t.vpin]
          /\ t.buy \in Nat /\ t.sell \in Nat /\ t.fill = t.buy + t.sell
          /\ t.fill <= BucketSize /\ t.fill \in Nat
          /\ t.imbalances = s.imbalances /\ t.vpin = s.vpin
      <3>1. t.fill = s.fill + filled
        BY <2>5
      <3>2. CASE buys
        BY <2>2, <2>4, <2>5, <3>1, <3>2
      <3>3. CASE ~ buys
        BY <2>2, <2>4, <2>5, <3>1, <3>3
      <3> QED
        BY <3>2, <3>3
    <2>7. CASE t.fill >= BucketSize
      <3>1. VpinOK(CloseBucket(t))
        BY <2>2, <2>6, CloseKeeps
      <3> QED
        BY <2>1, <2>4, <2>7, <3>1
    <2>8. CASE ~ (t.fill >= BucketSize)
      <3>1. VpinOK(t)
        BY <2>2, <2>3, <2>6, <2>8 DEF VpinOK
      <3> QED
        BY <2>1, <2>4, <2>8, <3>1
    <2> QED
      BY <2>7, <2>8
  <1> QED
    BY <1>1, <1>2

\* VpinSignal::update.
LEMMA VpinStep ==
    ASSUME RoomForTrades, NEW e \in Trades, NEW s, VpinOK(s)
    PROVE  VpinOK(Vpin(s, e))
  <1> DEFINE buys == IsBuy(s.last, e)
             n == e.quantity
             passes == [lot \in 1 .. n |-> buys]
             start == [signal |-> s, left |-> Qty(e)]
             done == FoldLeft(FillPass, start, passes)
  <1>1. n \in Nat /\ Qty(e) \in Nat /\ buys \in BOOLEAN
    BY TradeType, TradeNumbers DEF IsBuy, Has
  <1>2. Scale < Half
    BY Weights
  <1>3. DOMAIN passes = 1 .. n /\ \A k \in 1 .. n : passes[k] = buys
    OBVIOUS
  <1>4. VpinOK(start.signal) /\ start.left \in Nat
    BY <1>1
  <1>5. FoldLeft(FillPass, start, passes) = P!Fold(start, passes)
    BY DEF P!Fold, P!FoldLeft, FoldLeft, MapThenFoldSet, P!MapThenFoldSet, Max, P!Max
  <1> HIDE DEF passes, start, buys
  <1>6. PICK v : P!Iterates(v, start, passes, n) /\ P!Fold(start, passes) = v[n]
    BY <1>1, <1>3, P!FoldIterates
  <1> HIDE DEF n
  <1> DEFINE N == {k \in Nat : k <= n => VpinOK(v[k].signal) /\ v[k].left \in Nat}
  <1>7. 0 \in N
    BY <1>4, <1>6 DEF P!Iterates
  <1>8. ASSUME NEW k \in N PROVE k + 1 \in N
    <2> SUFFICES ASSUME k + 1 <= n PROVE VpinOK(v[k + 1].signal) /\ v[k + 1].left \in Nat
      OBVIOUS
    <2>1. k \in 0 .. n - 1 /\ k + 1 \in 1 .. n /\ k <= n
      BY <1>1
    <2>2. v[k + 1] = FillPass(v[k], buys)
      BY <1>3, <1>6, <2>1 DEF P!Iterates
    <2>3. VpinOK(v[k].signal) /\ v[k].left \in Nat
      BY <2>1
    <2> QED
      BY <1>1, <1>2, <2>2, <2>3, PassKeeps
  <1>9. N = Nat
    <2> HIDE DEF N
    <2>1. N \in SUBSET Nat
      BY DEF N
    <2> QED
      BY <1>7, <1>8, <2>1, NaturalsByInduction
  <1>10. VpinOK(v[n].signal)
    BY <1>1, <1>9
  <1>11. Vpin(s, e) = [v[n].signal EXCEPT !.last = Some(e.price)]
    BY <1>5, <1>6 DEF Vpin, passes, start, n, buys
  <1> DEFINE x == v[n].signal
  <1> HIDE DEF x
  <1>12. [x EXCEPT !.last = Some(e.price)] =
            [last |-> Some(e.price), buy |-> x.buy, sell |-> x.sell, fill |-> x.fill,
             imbalances |-> x.imbalances, vpin |-> x.vpin]
    <2>1. x = [last |-> x.last, buy |-> x.buy, sell |-> x.sell, fill |-> x.fill,
               imbalances |-> x.imbalances, vpin |-> x.vpin]
      BY <1>10 DEF VpinOK, x
    <2> QED
      BY <2>1
  <1>13. VpinOK([x EXCEPT !.last = Some(e.price)])
    BY <1>10, <1>12 DEF VpinOK, x
  <1> QED
    BY <1>11, <1>13 DEF x

-----------------------------------------------------------------------------
(* The signals that are ratios.                                            *)

\* The price of some trade, or none yet.
LastPrice(o) == o # None => Value(o) \in TradePrices

\* What relative strength keeps, and money flow, the ratio of bought to sold
\* quantities and the depth ratio.
RsiFacts(s) == LastPrice(s.prev) /\ MayDivide(s.gain) /\ Fits(s.loss)
MfiFacts(s) ==
    /\ MayDivide(s.up) /\ Fits(s.down)
    /\ s.mfi # None => Value(s.mfi) \in 0 .. FromInt(100)
RatioFacts(s) == MayDivide(s.buy) /\ Fits(s.sell)
DepthFacts(s) == MayDivide(s.proxy) /\ (s.ratio # None => Value(s.ratio) \in Nat)

\* What the signals that are ratios keep.
OscillatorFacts(s) ==
    /\ VpinOK(s.vpin)
    /\ RsiFacts(s.rsi)
    /\ MfiFacts(s.mfi)
    /\ RatioFacts(s.ratio)
    /\ DepthFacts(s.depth)

\* The room for the numbers of a trade.
LEMMA TradeRoom ==
    ASSUME RoomForRatios, NEW e \in Trades
    PROVE  /\ RoomForTrades
           /\ Notional(e) \in Nat /\ Notional(e) * Scale < Half
           /\ Qty(e) \in Nat /\ Qty(e) * Scale < Half
           /\ 0 * Scale < Half
           /\ \A p \in TradePrices : p \in Nat /\ p * Scale < Half
           /\ Alpha \in 0 .. Scale /\ Weight(1, 14) \in 0 .. Scale
  <1>1. RoomForTrades
    BY DEF RoomForRatios
  <1>2. Scale \in Nat /\ Scale > 0 /\ Half \in Nat /\ Half > 0
    BY <1>1, ScaleType
  <1>3. /\ e.price \in TradePrices /\ e.quantity \in Lots
        /\ e.quantity \in Nat /\ e.quantity > 0
    BY TradeType
  <1>4. /\ Notional(e) = e.price * e.quantity /\ Notional(e) \in Nat
        /\ Qty(e) = Scale * e.quantity /\ Qty(e) \in Nat
    BY <1>1, TradeNumbers
  <1>5. Notional(e) * Scale < Half /\ Qty(e) * Scale < Half
    BY <1>3, <1>4 DEF RoomForRatios
  <1>6. ASSUME NEW p \in TradePrices PROVE p \in Nat /\ p * Scale < Half
    <2> DEFINE k == e.quantity
    <2>1. p \in Nat
      BY CompositeAssumption
    <2>2. (p * k) * Scale < Half
      BY <1>3 DEF RoomForRatios
    <2>3. k \in Nat /\ k > 0
      BY <1>3
    <2> HIDE DEF k
    <2>4. p <= p * k /\ p * k \in Nat
      <3>1. 1 * p <= k * p /\ 1 * p = p /\ k * p = p * k
        BY <2>1, <2>3, Larger
      <3> QED
        BY <2>1, <2>3, <3>1
    <2>5. p * Scale <= (p * k) * Scale
      BY <1>2, <2>1, <2>4, Larger
    <2>6. p * Scale \in Nat /\ (p * k) * Scale \in Nat
      BY <1>2, <2>1, <2>4
    <2> QED
      BY <1>2, <2>1, <2>2, <2>5, <2>6
  <1>7. Alpha \in 0 .. Scale /\ Weight(1, 14) \in 0 .. Scale
    BY <1>1, Weights
  <1>8. 0 * Scale < Half
    BY <1>2
  <1> QED
    BY <1>1, <1>4, <1>5, <1>6, <1>7, <1>8

\* RsiSignal::update.
LEMMA RsiStep ==
    ASSUME RoomForRatios, NEW e \in Trades, NEW s, RsiFacts(s)
    PROVE  RsiFacts(RsiSignal(s, e))
  <1> DEFINE t == RsiSignal(s, e)
             delta == Sub(e.price, Value(s.prev))
             alpha == Weight(1, 14)
             g == ValueOr(s.gain, 0)
             l == ValueOr(s.loss, 0)
             up == IF delta > 0 THEN delta ELSE 0
             down == IF delta < 0 THEN Neg(delta) ELSE 0
  <1>1. /\ RoomForTrades /\ alpha \in 0 .. Scale /\ 0 * Scale < Half
        /\ \A p \in TradePrices : p \in Nat /\ p * Scale < Half
    BY TradeRoom
  <1>2. Scale \in Nat /\ Scale > 0 /\ Half \in Nat /\ Half > 0
    BY <1>1, ScaleType
  <1>3. e.price \in TradePrices /\ e.price \in Nat /\ e.price * Scale < Half
    BY <1>1, TradeType
  <1>4. LastPrice(t.prev)
    <2>1. t.prev = <<e.price>>
      BY DEF RsiSignal, Some
    <2> QED
      BY <1>3, <2>1 DEF LastPrice, Value
  <1>5. CASE ~ Has(s.prev)
    <2>1. t.gain = s.gain /\ t.loss = s.loss
      BY <1>5 DEF RsiSignal
    <2> HIDE DEF t
    <2> QED
      BY <1>4, <2>1 DEF RsiFacts, t
  <1>6. CASE Has(s.prev)
    <2> DEFINE p == Value(s.prev)
    <2>1. p \in Nat /\ p * Scale < Half
      BY <1>1, <1>6 DEF RsiFacts, LastPrice, Has
    <2>2. t.gain = Ema(alpha, Some(g), up) /\ t.loss = Ema(alpha, Some(l), down)
      BY <1>6 DEF RsiSignal
    <2>3. /\ g \in Nat /\ g * Scale < Half
          /\ l \in Nat /\ l < Half
      BY <1>1, <1>2 DEF RsiFacts, MayDivide, Fits, ValueOr, Has
    <2>4. delta = e.price - p
      BY DEF Sub
    <2> HIDE DEF t, delta, p, g, l, alpha
    <2>5. up \in Nat /\ up * Scale < Half
      <3>1. CASE delta > 0
        <4>1. up = delta /\ delta \in Nat /\ delta <= e.price
          BY <1>3, <2>1, <2>4, <3>1
        <4>2. delta * Scale <= e.price * Scale
          BY <1>2, <1>3, <4>1, Larger
        <4>3. delta * Scale \in Nat /\ e.price * Scale \in Nat
          BY <1>2, <1>3, <4>1
        <4> HIDE DEF up
        <4> QED
          BY <1>2, <1>3, <4>1, <4>2, <4>3
      <3>2. CASE ~ (delta > 0)
        BY <1>1, <3>2
      <3> QED
        BY <3>1, <3>2
    <2>6. down \in Nat /\ down < Half
      <3>1. CASE delta < 0
        <4> DEFINE fall == - delta
        <4>1. fall \in Nat /\ fall <= p
          BY <1>3, <2>1, <2>4, <3>1
        <4>2. down = fall * Scale
          BY <3>1 DEF Neg, FromInt
        <4> HIDE DEF fall, down
        <4>3. fall * Scale <= p * Scale
          BY <1>2, <2>1, <4>1, Larger
        <4>4. fall * Scale \in Nat /\ p * Scale \in Nat
          BY <1>2, <2>1, <4>1
        <4> QED
          BY <1>2, <2>1, <4>2, <4>3, <4>4
      <3>2. CASE ~ (delta < 0)
        BY <1>2, <3>2
      <3> QED
        BY <3>1, <3>2
    <2> HIDE DEF up, down
    <2>7. MayDivide(Some(g)) /\ Fits(Some(l))
      BY <2>3 DEF MayDivide, Fits, Some, Value
    <2>8. MayDivide(Ema(alpha, Some(g), up))
      BY <1>1, <2>5, <2>7, EmaMayDivide
    <2>9. Fits(Ema(alpha, Some(l), down))
      BY <1>1, <2>6, <2>7, EmaFits
    <2> QED
      BY <1>4, <2>2, <2>8, <2>9 DEF RsiFacts, t
  <1> QED
    BY <1>5, <1>6

\* MoneyFlowIndex::update.
LEMMA MfiStep ==
    ASSUME RoomForRatios, NEW e \in Trades, NEW s, MfiFacts(s)
    PROVE  MfiFacts(MoneyFlowIndex(s, e))
  <1> DEFINE t == MoneyFlowIndex(s, e)
             buys == IsBuy(s.last, e)
             x == IF buys THEN Notional(e) ELSE 0
             y == IF buys THEN 0 ELSE Notional(e)
             up == Ema(Alpha, s.up, x)
             down == Ema(Alpha, s.down, y)
             m == IF Value(down) > 0 THEN Strength(Value(up), Value(down))
                  ELSE IF Value(up) > 0 THEN FromInt(100)
                  ELSE FromInt(50)
  <1>1. /\ RoomForTrades /\ Alpha \in 0 .. Scale /\ 0 * Scale < Half
        /\ Notional(e) \in Nat /\ Notional(e) * Scale < Half
    BY TradeRoom
  <1>2. Scale \in Nat /\ Half \in Nat /\ Half > 0
    BY <1>1, ScaleType
  <1>3. x \in Nat /\ x * Scale < Half /\ y \in Nat /\ y < Half
    <2>1. Notional(e) < Half
      BY <1>1, DivideFits
    <2> QED
      BY <1>1, <1>2, <2>1
  <1>4. t.up = up /\ t.down = down /\ t.mfi = <<m>>
    BY DEF MoneyFlowIndex, Some
  <1> HIDE DEF t, x, y
  <1>5. Has(up) /\ MayDivide(up) /\ Has(down) /\ Fits(down)
    BY <1>1, <1>3, EmaMayDivide, EmaFits DEF MfiFacts
  <1> HIDE DEF up, down
  <1>6. /\ Value(up) \in Nat /\ Value(up) * Scale < Half
        /\ Value(down) \in Nat
    BY <1>5 DEF Has, MayDivide, Fits
  <1>7. m \in 0 .. FromInt(100)
    <2>1. FromInt(100) = 100 * Scale /\ FromInt(50) = 50 * Scale
      BY DEF FromInt
    <2>2. FromInt(100) \in 0 .. FromInt(100) /\ FromInt(50) \in 0 .. FromInt(100)
      BY <1>2, <2>1
    <2>3. Value(down) > 0 => Strength(Value(up), Value(down)) \in 0 .. FromInt(100)
      BY <1>6, StrengthType
    <2> QED
      BY <2>2, <2>3
  <1> HIDE DEF m
  <1>8. Value(t.mfi) \in 0 .. FromInt(100)
    BY <1>4, <1>7 DEF Value
  <1> QED
    BY <1>4, <1>5, <1>8 DEF MfiFacts, t

\* BuySellLotRatio::update.
LEMMA RatioStep ==
    ASSUME RoomForRatios, NEW e \in Trades, NEW s, RatioFacts(s)
    PROVE  RatioFacts(BuySellLotRatio(s, e))
  <1> DEFINE t == BuySellLotRatio(s, e)
             buys == IsBuy(s.last, e)
             x == IF buys THEN Qty(e) ELSE 0
             y == IF buys THEN 0 ELSE Qty(e)
  <1>1. /\ RoomForTrades /\ Alpha \in 0 .. Scale /\ 0 * Scale < Half
        /\ Qty(e) \in Nat /\ Qty(e) * Scale < Half
    BY TradeRoom
  <1>2. Half \in Nat /\ Half > 0
    BY <1>1, ScaleType
  <1>3. x \in Nat /\ x * Scale < Half /\ y \in Nat /\ y < Half
    <2>1. Qty(e) < Half
      BY <1>1, DivideFits
    <2> QED
      BY <1>1, <1>2, <2>1
  <1>4. t.buy = Ema(Alpha, s.buy, x) /\ t.sell = Ema(Alpha, s.sell, y)
    BY DEF BuySellLotRatio
  <1> HIDE DEF t, x, y
  <1> QED
    BY <1>1, <1>3, <1>4, EmaMayDivide, EmaFits DEF RatioFacts, t

\* TradeSizeDepthRatio::update.
LEMMA DepthStep ==
    ASSUME RoomForRatios, NEW e \in Trades, NEW s, DepthFacts(s)
    PROVE  DepthFacts(TradeSizeDepthRatio(s, e))
  <1> DEFINE t == TradeSizeDepthRatio(s, e)
             prior == ValueOr(s.proxy, Qty(e))
  <1>1. /\ RoomForTrades /\ Alpha \in 0 .. Scale
        /\ Qty(e) \in Nat /\ Qty(e) * Scale < Half
    BY TradeRoom
  <1>2. prior \in Nat /\ prior * Scale < Half
    BY <1>1 DEF DepthFacts, MayDivide, ValueOr, Has
  <1>3. /\ t.proxy = Ema(Alpha, Some(prior), Qty(e))
        /\ t.ratio = IF prior > 0 THEN Some(Div(Qty(e), prior)) ELSE s.ratio
    BY DEF TradeSizeDepthRatio
  <1> HIDE DEF t, prior
  <1>4. MayDivide(Some(prior))
    BY <1>2 DEF MayDivide, Some, Value
  <1>5. MayDivide(t.proxy)
    BY <1>1, <1>3, <1>4, EmaMayDivide
  <1>6. t.ratio # None => Value(t.ratio) \in Nat
    <2>1. CASE prior > 0
      <3>1. Div(Qty(e), prior) \in Nat
        BY <1>1, <1>2, <2>1, RatioType
      <3> QED
        BY <1>3, <2>1, <3>1 DEF Some, Value
    <2>2. CASE ~ (prior > 0)
      BY <1>3, <2>2 DEF DepthFacts
    <2> QED
      BY <2>1, <2>2
  <1> QED
    BY <1>5, <1>6 DEF DepthFacts, t

\* Before the first trade.
LEMMA OscillatorsStart == ASSUME RoomForTrades PROVE OscillatorFacts(Fresh)
  <1>1. VpinOK(VpinInit)
    <2>1. BucketSize \in Nat /\ BucketSize > 0
      BY BucketType
    <2>2. <<>> \in Seq(0 .. One)
      OBVIOUS
    <2> QED
      BY <2>1, <2>2 DEF VpinOK, VpinInit
  <1>2. RsiFacts(RsiInit)
    BY DEF RsiFacts, RsiInit, LastPrice, MayDivide, Fits
  <1>3. MfiFacts(MoneyFlowInit)
    BY DEF MfiFacts, MoneyFlowInit, MayDivide, Fits
  <1>4. RatioFacts(BuySellLotRatioInit)
    BY DEF RatioFacts, BuySellLotRatioInit, MayDivide, Fits
  <1>5. DepthFacts(TradeSizeDepthRatioInit)
    BY DEF DepthFacts, TradeSizeDepthRatioInit, MayDivide
  <1> QED
    BY <1>1, <1>2, <1>3, <1>4, <1>5 DEF OscillatorFacts, Fresh

\* A trade that the signals process keeps their ratios.
LEMMA OscillatorsStep ==
    ASSUME RoomForRatios, NEW e \in Trades, NEW s, OscillatorFacts(s)
    PROVE  OscillatorFacts(Updated(s, e))
  <1> DEFINE t == Updated(s, e)
  <1>1. /\ t.vpin = Vpin(s.vpin, e) /\ t.rsi = RsiSignal(s.rsi, e)
        /\ t.mfi = MoneyFlowIndex(s.mfi, e) /\ t.ratio = BuySellLotRatio(s.ratio, e)
        /\ t.depth = TradeSizeDepthRatio(s.depth, e)
    BY DEF Updated
  <1>2. RoomForTrades
    BY DEF RoomForRatios
  <1> HIDE DEF t
  <1>3. VpinOK(t.vpin)
    BY <1>1, <1>2, VpinStep DEF OscillatorFacts
  <1>4. RsiFacts(t.rsi) /\ MfiFacts(t.mfi)
    BY <1>1, RsiStep, MfiStep DEF OscillatorFacts
  <1>5. RatioFacts(t.ratio) /\ DepthFacts(t.depth)
    BY <1>1, RatioStep, DepthStep DEF OscillatorFacts
  <1> QED
    BY <1>3, <1>4, <1>5 DEF OscillatorFacts, t

\* What OscillatorsInRange says of the ratios.
LEMMA OscillatorsSuffice ==
    ASSUME RoomForRatios, OscillatorFacts(signals)
    PROVE  OscillatorsInRange
  <1> DEFINE h == FromInt(100)
  <1>1. /\ RoomForTrades /\ Scale \in Nat /\ Scale > 0
        /\ h \in Nat /\ One \in Nat
    <2>1. RoomForTrades
      BY DEF RoomForRatios
    <2>2. Scale \in Nat /\ Scale > 0
      BY <2>1, ScaleType
    <2> QED
      BY <2>1, <2>2 DEF FromInt, One
  <1> HIDE DEF h
  <1>2. ASSUME NEW o, NEW c \in Nat, o # None => Value(o) \in 0 .. c
        PROVE  Within(o, 0, c)
    BY <1>2 DEF Within, Has
  <1>3. Within(signals.mfi.mfi, 0, h)
    BY <1>1, <1>2 DEF OscillatorFacts, MfiFacts, h
  <1>4. Within(signals.vpin.vpin, 0, One)
    BY <1>1, <1>2 DEF OscillatorFacts, VpinOK
  <1>5. Within(Rsi(signals.rsi), 0, h)
    <2> DEFINE s == signals.rsi
    <2>1. MayDivide(s.gain) /\ Fits(s.loss)
      BY DEF OscillatorFacts, RsiFacts
    <2> HIDE DEF s
    <2>2. CASE ~ Has(s.gain) \/ ~ Has(s.loss)
      <3>1. Rsi(s) = None
        BY <2>2 DEF Rsi
      <3> QED
        BY <1>1, <1>2, <3>1 DEF s
    <2>3. CASE Has(s.gain) /\ Has(s.loss)
      <3>1. /\ Value(s.gain) \in Nat /\ Value(s.gain) * Scale < Half
            /\ Value(s.loss) \in Nat
        BY <2>1, <2>3 DEF MayDivide, Fits, Has
      <3>2. CASE Value(s.loss) = 0
        <4>1. Rsi(s) = <<h>>
          BY <2>3, <3>2 DEF Rsi, Some, h
        <4> QED
          BY <1>1, <1>2, <4>1 DEF Value, s
      <3>3. CASE Value(s.loss) # 0
        <4> DEFINE v == Strength(Value(s.gain), Value(s.loss))
        <4>1. v \in 0 .. h
          BY <3>1, <3>3, StrengthType DEF h
        <4>2. Rsi(s) = <<v>>
          BY <2>3, <3>3 DEF Rsi, Some
        <4> HIDE DEF v
        <4> QED
          BY <1>1, <1>2, <4>1, <4>2 DEF Value, s
      <3> QED
        BY <3>2, <3>3
    <2> QED
      BY <2>2, <2>3
  <1>6. Has(BuySellRatio(signals.ratio)) => Value(BuySellRatio(signals.ratio)) >= 0
    <2> DEFINE s == signals.ratio
    <2>1. MayDivide(s.buy) /\ Fits(s.sell)
      BY DEF OscillatorFacts, RatioFacts
    <2> HIDE DEF s
    <2>2. CASE Has(s.sell) /\ Value(s.sell) > 0
      <3> DEFINE x == ValueOr(s.buy, 0)
                 y == Value(s.sell)
      <3>1. y \in Nat /\ y > 0
        BY <2>1, <2>2 DEF Fits, Has
      <3>2. x \in Nat /\ x * Scale < Half
        <4>1. 0 * Scale < Half
          BY <1>1, ScaleType
        <4> QED
          BY <2>1, <4>1 DEF MayDivide, ValueOr, Has
      <3>3. BuySellRatio(s) = <<Div(x, y)>>
        BY <2>2 DEF BuySellRatio, Some
      <3> HIDE DEF x, y
      <3>4. Div(x, y) \in Nat
        BY <1>1, <3>1, <3>2, RatioType
      <3> QED
        BY <3>3, <3>4 DEF Value, s
    <2>3. CASE ~ (Has(s.sell) /\ Value(s.sell) > 0)
      BY <2>3 DEF BuySellRatio, Has, s
    <2> QED
      BY <2>2, <2>3
  <1>7. Has(signals.depth.ratio) => Value(signals.depth.ratio) >= 0
    BY DEF OscillatorFacts, DepthFacts, Has
  <1> QED
    BY <1>3, <1>4, <1>5, <1>6, <1>7 DEF OscillatorsInRange, h

\* The signals with a documented range stay in it, as long as the width has
\* room for what they divide.
THEOREM OscillatorsAlwaysInRange ==
    ASSUME RoomForRatios
    PROVE  Spec => []OscillatorsInRange
  <1> DEFINE Inv == SessionOK /\ OscillatorFacts(signals)
  <1>1. Init => Inv
    <2> SUFFICES ASSUME Init PROVE Inv
      OBVIOUS
    <2>1. RoomForTrades
      BY DEF RoomForRatios
    <2> QED
      BY <2>1, SessionStarts, OscillatorsStart
  <1>2. Inv /\ [Next]_vars => Inv'
    <2> SUFFICES ASSUME Inv, [Next]_vars PROVE Inv'
      OBVIOUS
    <2>1. SessionOK'
      BY SessionSteps
    <2>2. CASE Seen' = Seen /\ signals' = signals
      BY <2>1, <2>2
    <2>3. CASE \E e \in Trades : Seen' = Append(Seen, e) /\ signals' = Updated(signals, e)
      BY <2>1, <2>3, OscillatorsStep
    <2> QED
      BY <2>2, <2>3, SessionSteps
  <1>3. Inv => OscillatorsInRange
    BY OscillatorsSuffice
  <1> QED
    BY <1>1, <1>2, <1>3, PTL DEF Spec

-----------------------------------------------------------------------------
(* Sweeps.                                                                 *)

\* The volume and the value of the trades a .. b.
SpanLots(q, a, b) == SumFunction([i \in a .. b |-> LotsIn(q, i)])
SpanValue(q, a, b) == SumFunction([i \in a .. b |-> ValueIn(q, i)])

\* The direction of the streak.
Direction(s) == IF s.up THEN 1 ELSE -1

\* The trades from j on are the streak: all but perhaps the first move its way,
\* and the first does not go on with a move before it.
IsStreak(q, s, j) ==
    /\ s.streak = Len(q) - j + 1
    /\ \A i \in j + 1 .. Len(q) : MoveIn(q, i) = Direction(s)
    /\ MoveIn(q, j) # 0 => MoveIn(q, j) = Direction(s)
    /\ j > 1 /\ MoveIn(q, j) # 0 => MoveIn(q, j - 1) # MoveIn(q, j)
    /\ s.qty = SpanLots(q, j, Len(q))
    /\ s.notional = SpanValue(q, j, Len(q))

\* A run a .. b that has ended, and one whose first trade moved with it.
EndedRun(q, a, b) ==
    /\ b - a + 1 >= MinSweepLegs
    /\ b < Len(q)
    /\ MoveIn(q, b) # 0
    /\ \A i \in a + 1 .. b : MoveIn(q, i) = MoveIn(q, b)
    /\ MoveIn(q, b + 1) # MoveIn(q, b)
StrictRun(q, a, b) == EndedRun(q, a, b) /\ MoveIn(q, a) = MoveIn(q, b)

\* What SweepsAreReported says, of any sequence of trades.
Reports(q, s) ==
    /\ (\E a, b \in 1 .. Len(q) : StrictRun(q, a, b)) => Has(s.volume)
    /\ Has(s.volume) =>
        \E a, b \in 1 .. Len(q) :
            /\ EndedRun(q, a, b)
            /\ s.volume = Some(SpanLots(q, a, b))
            /\ s.value = Some(SpanValue(q, a, b))
            /\ \A c, d \in 1 .. Len(q) : StrictRun(q, c, d) => d <= b

\* What the signal knows of the trades.
SweepFacts(q, s) ==
    /\ s = [last |-> s.last, streak |-> s.streak, up |-> s.up, qty |-> s.qty,
            notional |-> s.notional, volume |-> s.volume, value |-> s.value]
    /\ s.last = LastOf(q)
    /\ s.up \in BOOLEAN
    /\ Len(q) = 0 => s.up
    /\ Len(q) # 0 => \E j \in 1 .. Len(q) : IsStreak(q, s, j)
    /\ Reports(q, s)

\* A sum over a span and one more.
LEMMA SpanGrows ==
    ASSUME NEW n \in Nat, NEW a \in 1 .. n + 1, NEW f, NEW g,
           DOMAIN f = a .. n, DOMAIN g = a .. n + 1,
           \A i \in a .. n : f[i] = g[i], \A i \in a .. n + 1 : g[i] \in Int
    PROVE  SumFunction(g) = SumFunction(f) + g[n + 1]
  <1> DEFINE I == a .. n
             J == a .. n + 1
             x == n + 1
  <1>1. IsFiniteSet(I)
    BY FS_Interval
  <1>2. x \notin I /\ J = I \cup {x}
    OBVIOUS
  <1>3. DOMAIN f = I /\ DOMAIN g = J /\ \A i \in I : f[i] = g[i]
    OBVIOUS
  <1>4. \A i \in J : g[i] \in Int
    OBVIOUS
  <1> HIDE DEF I, J, x
  <1>5. \A i \in I : f[i] \in Int /\ f[i] = g[i]
    BY <1>2, <1>3, <1>4
  <1>6. SumFunctionOnSet(f, I) = SumFunctionOnSet(g, I)
    BY <1>1, <1>5, SumSame
  <1>7. SumFunctionOnSet(g, I \cup {x}) = SumFunctionOnSet(g, I) + g[x]
    BY <1>1, <1>2, <1>4, SumAdds
  <1>8. SumFunction(g) = SumFunction(f) + g[x]
    BY <1>2, <1>3, <1>6, <1>7 DEF SumFunction
  <1> QED
    BY <1>8 DEF x

\* The spans of the trades so far stay, and one more trade extends them.
LEMMA SpansOf ==
    ASSUME RoomForTrades, NEW q \in Seq(Trades), NEW e \in Trades
    PROVE  LET r == Append(q, e)
               n == Len(q)
           IN  /\ \A a \in 1 .. n + 1, b \in 0 .. n :
                    SpanLots(r, a, b) = SpanLots(q, a, b) /\ SpanValue(r, a, b) = SpanValue(q, a, b)
               /\ \A a \in 1 .. n + 1 :
                    /\ SpanLots(r, a, n + 1) = SpanLots(q, a, n) + Qty(e)
                    /\ SpanValue(r, a, n + 1) = SpanValue(q, a, n) + Notional(e)
               /\ SpanLots(r, n + 1, n + 1) = Qty(e) /\ SpanValue(r, n + 1, n + 1) = Notional(e)
  <1> DEFINE r == Append(q, e)
             n == Len(q)
  <1>1. /\ n \in Nat /\ Len(r) = n + 1 /\ r[n + 1] = e
        /\ \A i \in 1 .. n : r[i] = q[i]
        /\ \A i \in 1 .. n + 1 : r[i] \in Trades
    BY TickMoves
  <1> HIDE DEF r, n
  <1>2. \A i \in 1 .. n : LotsIn(r, i) = LotsIn(q, i) /\ ValueIn(r, i) = ValueIn(q, i)
    BY <1>1 DEF LotsIn, ValueIn
  <1>3. \A i \in 1 .. n + 1 : LotsIn(r, i) \in Int /\ ValueIn(r, i) \in Int
    BY <1>1, TradeNumbers DEF LotsIn, ValueIn
  <1>4. LotsIn(r, n + 1) = Qty(e) /\ ValueIn(r, n + 1) = Notional(e)
    BY <1>1, TradeNumbers DEF LotsIn, ValueIn
  <1>5. ASSUME NEW a \in 1 .. n + 1, NEW b \in 0 .. n
        PROVE  SpanLots(r, a, b) = SpanLots(q, a, b) /\ SpanValue(r, a, b) = SpanValue(q, a, b)
    <2>1. \A i \in a .. b : i \in 1 .. n
      BY <1>1
    <2>2. [i \in a .. b |-> LotsIn(r, i)] = [i \in a .. b |-> LotsIn(q, i)]
      BY <1>2, <2>1
    <2>3. [i \in a .. b |-> ValueIn(r, i)] = [i \in a .. b |-> ValueIn(q, i)]
      BY <1>2, <2>1
    <2> QED
      BY <2>2, <2>3 DEF SpanLots, SpanValue
  <1>6. ASSUME NEW a \in 1 .. n + 1
        PROVE  /\ SpanLots(r, a, n + 1) = SpanLots(q, a, n) + Qty(e)
               /\ SpanValue(r, a, n + 1) = SpanValue(q, a, n) + Notional(e)
    <2>1. /\ \A i \in a .. n : i \in 1 .. n
          /\ \A i \in a .. n + 1 : i \in 1 .. n + 1
          /\ \A i \in a .. n : i \in a .. n + 1
          /\ n + 1 \in a .. n + 1
      BY <1>1
    <2>2. SpanLots(r, a, n + 1) = SpanLots(q, a, n) + Qty(e)
      <3> DEFINE f == [i \in a .. n |-> LotsIn(q, i)]
                 g == [i \in a .. n + 1 |-> LotsIn(r, i)]
      <3>1. /\ DOMAIN f = a .. n /\ DOMAIN g = a .. n + 1
            /\ \A i \in a .. n : f[i] = g[i]
            /\ \A i \in a .. n + 1 : g[i] \in Int
            /\ g[n + 1] = Qty(e)
        BY <1>2, <1>3, <1>4, <2>1
      <3>2. SpanLots(r, a, n + 1) = SumFunction(g) /\ SpanLots(q, a, n) = SumFunction(f)
        BY DEF SpanLots
      <3> HIDE DEF f, g
      <3>3. SumFunction(g) = SumFunction(f) + g[n + 1]
        BY <1>1, <3>1, SpanGrows
      <3> QED
        BY <3>1, <3>2, <3>3
    <2>3. SpanValue(r, a, n + 1) = SpanValue(q, a, n) + Notional(e)
      <3> DEFINE f == [i \in a .. n |-> ValueIn(q, i)]
                 g == [i \in a .. n + 1 |-> ValueIn(r, i)]
      <3>1. /\ DOMAIN f = a .. n /\ DOMAIN g = a .. n + 1
            /\ \A i \in a .. n : f[i] = g[i]
            /\ \A i \in a .. n + 1 : g[i] \in Int
            /\ g[n + 1] = Notional(e)
        BY <1>2, <1>3, <1>4, <2>1
      <3>2. SpanValue(r, a, n + 1) = SumFunction(g) /\ SpanValue(q, a, n) = SumFunction(f)
        BY DEF SpanValue
      <3> HIDE DEF f, g
      <3>3. SumFunction(g) = SumFunction(f) + g[n + 1]
        BY <1>1, <3>1, SpanGrows
      <3> QED
        BY <3>1, <3>2, <3>3
    <2> QED
      BY <2>2, <2>3
  <1>7. SpanLots(r, n + 1, n + 1) = Qty(e) /\ SpanValue(r, n + 1, n + 1) = Notional(e)
    <2>1. n + 1 \in 1 .. n + 1 /\ n + 1 .. n = {}
      BY <1>1
    <2>2. \A f : DOMAIN f = {} => SumFunction(f) = 0
      BY SumOfNone DEF SumFunction
    <2>3. /\ DOMAIN [i \in n + 1 .. n |-> LotsIn(q, i)] = {}
          /\ DOMAIN [i \in n + 1 .. n |-> ValueIn(q, i)] = {}
      BY <2>1
    <2>4. SpanLots(q, n + 1, n) = 0 /\ SpanValue(q, n + 1, n) = 0
      BY <2>2, <2>3 DEF SpanLots, SpanValue
    <2>5. Qty(e) \in Int /\ Notional(e) \in Int
      BY TradeNumbers
    <2> QED
      BY <1>6, <2>1, <2>4, <2>5
  <1> QED
    BY <1>5, <1>6, <1>7 DEF r, n

\* The runs that had ended stay, and a run that ends now ended with the trade
\* before.
LEMMA RunsStay ==
    ASSUME NEW q \in Seq(Trades), NEW e \in Trades
    PROVE  LET r == Append(q, e)
               n == Len(q)
           IN  /\ \A a, b \in 1 .. n : b < n =>
                    /\ EndedRun(r, a, b) <=> EndedRun(q, a, b)
                    /\ StrictRun(r, a, b) <=> StrictRun(q, a, b)
               /\ \A a, b \in 1 .. n + 1 : EndedRun(r, a, b) => b \in 1 .. n
  <1> DEFINE r == Append(q, e)
             n == Len(q)
  <1>1. /\ n \in Nat /\ Len(r) = n + 1
        /\ \A i \in 1 .. n : MoveIn(r, i) = MoveIn(q, i)
    BY TickMoves
  <1> HIDE DEF r, n
  <1>2. ASSUME NEW a \in 1 .. n, NEW b \in 1 .. n, b < n
        PROVE  /\ EndedRun(r, a, b) <=> EndedRun(q, a, b)
               /\ StrictRun(r, a, b) <=> StrictRun(q, a, b)
    <2>1. b + 1 \in 1 .. n /\ \A i \in a + 1 .. b : i \in 1 .. n
      BY <1>1, <1>2
    <2>2. /\ MoveIn(r, a) = MoveIn(q, a) /\ MoveIn(r, b) = MoveIn(q, b)
          /\ MoveIn(r, b + 1) = MoveIn(q, b + 1)
          /\ \A i \in a + 1 .. b : MoveIn(r, i) = MoveIn(q, i)
      BY <1>1, <2>1
    <2>3. b < Len(q) /\ b < Len(r)
      BY <1>1, <1>2 DEF n
    <2> QED
      BY <2>2, <2>3 DEF EndedRun, StrictRun
  <1>3. \A a, b \in 1 .. n + 1 : EndedRun(r, a, b) => b \in 1 .. n
    BY <1>1 DEF EndedRun
  <1> QED
    BY <1>2, <1>3 DEF r, n

\* The streak moves the way of the last trade, and a run that the last trade
\* ends with, first trade included, is part of it.
LEMMA StreakHolds ==
    ASSUME NEW q \in Seq(Trades), NEW s, NEW j \in 1 .. Len(q), IsStreak(q, s, j)
    PROVE  /\ MoveIn(q, Len(q)) # 0 => MoveIn(q, Len(q)) = Direction(s)
           /\ \A c \in 1 .. Len(q) :
                /\ MoveIn(q, Len(q)) # 0
                /\ \A i \in c .. Len(q) : MoveIn(q, i) = MoveIn(q, Len(q))
                => j <= c
  <1> DEFINE n == Len(q)
             z == MoveIn(q, n)
  <1>1. n \in Nat /\ n # 0 /\ n \in 1 .. n
    OBVIOUS
  <1>2. /\ \A i \in j + 1 .. n : MoveIn(q, i) = Direction(s)
        /\ MoveIn(q, j) # 0 => MoveIn(q, j) = Direction(s)
        /\ j > 1 /\ MoveIn(q, j) # 0 => MoveIn(q, j - 1) # MoveIn(q, j)
    BY DEF IsStreak
  <1> HIDE DEF n
  <1>3. j \in 1 .. n
    BY DEF n
  <1>4. z # 0 => z = Direction(s)
    <2>1. CASE j = n
      BY <1>2, <2>1
    <2>2. CASE j # n
      <3>1. n \in j + 1 .. n
        BY <1>1, <1>3, <2>2
      <3> QED
        BY <1>2, <3>1
    <2> QED
      BY <2>1, <2>2
  <1>5. ASSUME NEW c \in 1 .. n, z # 0, \A i \in c .. n : MoveIn(q, i) = z, ~ (j <= c)
        PROVE  FALSE
    <2>1. j \in c .. n /\ j - 1 \in c .. n /\ j > 1
      BY <1>1, <1>3, <1>5
    <2>2. MoveIn(q, j) = z /\ MoveIn(q, j - 1) = z
      BY <1>5, <2>1
    <2> QED
      BY <1>2, <1>5, <2>1, <2>2
  <1> QED
    BY <1>4, <1>5 DEF n

\* A streak of its own begins with a trade that does not go on with the last.
LEMMA StreakBegins ==
    ASSUME RoomForTrades, NEW q \in Seq(Trades), NEW e \in Trades, NEW s, NEW t,
           SweepFacts(q, s),
           MoveIn(Append(q, e), Len(q) + 1) # Direction(s),
           t.streak = 1, t.qty = Qty(e), t.notional = Notional(e),
           t.up = IF Has(s.last) THEN MovedUp(s.last, e) ELSE s.up
    PROVE  IsStreak(Append(q, e), t, Len(q) + 1)
  <1> DEFINE r == Append(q, e)
             n == Len(q)
             x == n + 1
  <1>1. /\ n \in Nat /\ Len(r) = x
        /\ \A i \in 1 .. n : MoveIn(r, i) = MoveIn(q, i)
        /\ MoveIn(r, x) \in {-1, 0, 1}
        /\ MovedUp(LastOf(q), e) <=> MoveIn(r, x) = 1
        /\ Has(LastOf(q)) <=> n # 0
    BY TickMoves
  <1>2. SpanLots(r, x, x) = Qty(e) /\ SpanValue(r, x, x) = Notional(e)
    BY SpansOf
  <1>3. s.last = LastOf(q) /\ (n = 0 => s.up) /\ MoveIn(r, x) # Direction(s)
    BY DEF SweepFacts
  <1>4. MoveIn(q, n) # 0 /\ n # 0 => MoveIn(q, n) = Direction(s)
    BY StreakHolds DEF SweepFacts
  <1>5. n = 0 => MoveIn(r, x) = 0
    BY <1>1 DEF MoveIn
  <1> HIDE DEF r, n
  <1>6. x > 1 /\ MoveIn(r, x) # 0 => MoveIn(r, x - 1) # MoveIn(r, x)
    <2> SUFFICES ASSUME x > 1, MoveIn(r, x) # 0 PROVE MoveIn(r, n) # MoveIn(r, x)
      BY <1>1
    <2>1. n \in 1 .. n /\ n # 0
      BY <1>1
    <2>2. MoveIn(r, n) = MoveIn(q, n)
      BY <1>1, <2>1
    <2> QED
      BY <1>3, <1>4, <2>1, <2>2
  <1>7. MoveIn(r, x) # 0 => MoveIn(r, x) = Direction(t)
    <2> SUFFICES ASSUME MoveIn(r, x) # 0 PROVE MoveIn(r, x) = Direction(t)
      OBVIOUS
    <2>1. n # 0
      BY <1>5
    <2>2. t.up <=> MoveIn(r, x) = 1
      BY <1>1, <1>3, <2>1
    <2> QED
      BY <1>1, <2>2 DEF Direction
  <1>8. t.streak = Len(r) - x + 1 /\ x + 1 .. Len(r) = {}
    BY <1>1
  <1> HIDE DEF x
  <1>9. t.qty = SpanLots(r, x, Len(r)) /\ t.notional = SpanValue(r, x, Len(r))
    BY <1>1, <1>2
  <1>10. IsStreak(r, t, x)
    BY <1>6, <1>7, <1>8, <1>9 DEF IsStreak
  <1> QED
    BY <1>10 DEF r, n, x

\* A trade that goes on with the streak makes it one longer.
LEMMA StreakGoesOn ==
    ASSUME RoomForTrades, NEW q \in Seq(Trades), NEW e \in Trades, NEW s, NEW t,
           NEW j \in 1 .. Len(q), IsStreak(q, s, j),
           MoveIn(Append(q, e), Len(q) + 1) = Direction(s),
           t.streak = s.streak + 1, t.qty = s.qty + Qty(e),
           t.notional = s.notional + Notional(e), t.up = s.up
    PROVE  IsStreak(Append(q, e), t, j)
  <1> DEFINE r == Append(q, e)
             n == Len(q)
             x == n + 1
  <1>1. /\ n \in Nat /\ Len(r) = x
        /\ \A i \in 1 .. n : MoveIn(r, i) = MoveIn(q, i)
    BY TickMoves
  <1>2. SpanLots(r, j, x) = SpanLots(q, j, n) + Qty(e)
        /\ SpanValue(r, j, x) = SpanValue(q, j, n) + Notional(e)
    <2>1. j \in 1 .. n + 1
      BY <1>1
    <2> QED
      BY <2>1, SpansOf
  <1>3. /\ s.streak = n - j + 1
        /\ \A i \in j + 1 .. n : MoveIn(q, i) = Direction(s)
        /\ MoveIn(q, j) # 0 => MoveIn(q, j) = Direction(s)
        /\ j > 1 /\ MoveIn(q, j) # 0 => MoveIn(q, j - 1) # MoveIn(q, j)
        /\ s.qty = SpanLots(q, j, n)
        /\ s.notional = SpanValue(q, j, n)
    BY DEF IsStreak
  <1>4. Direction(t) = Direction(s) /\ MoveIn(r, x) = Direction(s) /\ j \in 1 .. n
    BY DEF Direction
  <1> HIDE DEF r, n
  <1>5. MoveIn(r, j) = MoveIn(q, j) /\ (j > 1 => MoveIn(r, j - 1) = MoveIn(q, j - 1))
    <2>1. j > 1 => j - 1 \in 1 .. n
      BY <1>1, <1>4
    <2> QED
      BY <1>1, <1>4, <2>1
  <1>6. \A i \in j + 1 .. x : MoveIn(r, i) = Direction(t)
    <2> TAKE i \in j + 1 .. x
    <2>1. i = x \/ (i \in 1 .. n /\ i \in j + 1 .. n)
      BY <1>1, <1>4
    <2> QED
      BY <1>1, <1>3, <1>4, <2>1
  <1>7. t.streak = x - j + 1
    BY <1>1, <1>3, <1>4
  <1>8. t.qty = SpanLots(r, j, x) /\ t.notional = SpanValue(r, j, x)
    BY <1>2, <1>3
  <1> HIDE DEF x
  <1>9. IsStreak(r, t, j)
    BY <1>1, <1>3, <1>4, <1>5, <1>6, <1>7, <1>8 DEF IsStreak
  <1> QED
    BY <1>9 DEF r

\* What was reported stays right while no run ends, first trade included.
LEMMA ReportStays ==
    ASSUME RoomForTrades, MinSweepLegs > 1, NEW q \in Seq(Trades), NEW e \in Trades, NEW s, NEW t,
           Reports(q, s), t.volume = s.volume, t.value = s.value,
           \A c \in 1 .. Len(q) : ~ StrictRun(Append(q, e), c, Len(q))
    PROVE  Reports(Append(q, e), t)
  <1> DEFINE r == Append(q, e)
             n == Len(q)
  <1>1. n \in Nat /\ Len(r) = n + 1
    BY TickMoves
  <1>2. /\ \A a, b \in 1 .. n : b < n =>
             /\ EndedRun(r, a, b) <=> EndedRun(q, a, b)
             /\ StrictRun(r, a, b) <=> StrictRun(q, a, b)
        /\ \A a, b \in 1 .. n + 1 : EndedRun(r, a, b) => b \in 1 .. n
    BY RunsStay
  <1>3. \A a \in 1 .. n + 1, b \in 0 .. n :
          SpanLots(r, a, b) = SpanLots(q, a, b) /\ SpanValue(r, a, b) = SpanValue(q, a, b)
    BY SpansOf
  <1>4. \A c \in 1 .. n : ~ StrictRun(r, c, n)
    OBVIOUS
  <1>5. \A a, b \in 1 .. n : EndedRun(q, a, b) => b < n
    BY DEF EndedRun
  <1>6. /\ (\E a, b \in 1 .. n : StrictRun(q, a, b)) => Has(s.volume)
        /\ Has(s.volume) =>
            \E a, b \in 1 .. n :
                /\ EndedRun(q, a, b)
                /\ s.volume = Some(SpanLots(q, a, b))
                /\ s.value = Some(SpanValue(q, a, b))
                /\ \A c, d \in 1 .. n : StrictRun(q, c, d) => d <= b
    BY DEF Reports
  <1> HIDE DEF r, n
  <1>7. ASSUME NEW c \in 1 .. n + 1, NEW d \in 1 .. n + 1, StrictRun(r, c, d)
        PROVE  c \in 1 .. n /\ d \in 1 .. n /\ StrictRun(q, c, d)
    <2>1. EndedRun(r, c, d)
      BY <1>7 DEF StrictRun
    <2>2. d \in 1 .. n
      BY <1>2, <2>1
    <2>3. c \in 1 .. n
      <3>1. d - c + 1 >= MinSweepLegs /\ MinSweepLegs \in Nat
        BY <2>1, TickSignalsAssumption DEF EndedRun
      <3> QED
        BY <1>1, <1>7, <2>1, <2>2, <3>1
    <2>4. d # n
      BY <1>4, <1>7, <2>3
    <2>5. d < n
      BY <1>1, <2>2, <2>4
    <2> QED
      BY <1>2, <1>7, <2>2, <2>3, <2>5
  <1>8. (\E a, b \in 1 .. n + 1 : StrictRun(r, a, b)) => Has(t.volume)
    BY <1>6, <1>7
  <1>9. ASSUME Has(t.volume)
        PROVE  \E a, b \in 1 .. n + 1 :
                /\ EndedRun(r, a, b)
                /\ t.volume = Some(SpanLots(r, a, b))
                /\ t.value = Some(SpanValue(r, a, b))
                /\ \A c, d \in 1 .. n + 1 : StrictRun(r, c, d) => d <= b
    <2>1. PICK a \in 1 .. n, b \in 1 .. n :
            /\ EndedRun(q, a, b)
            /\ s.volume = Some(SpanLots(q, a, b))
            /\ s.value = Some(SpanValue(q, a, b))
            /\ \A c, d \in 1 .. n : StrictRun(q, c, d) => d <= b
      BY <1>6, <1>9
    <2>2. a \in 1 .. n + 1 /\ b \in 1 .. n + 1 /\ b \in 0 .. n /\ b < n
      BY <1>1, <1>5, <2>1
    <2>3. EndedRun(r, a, b)
      BY <1>2, <2>1, <2>2
    <2>4. t.volume = Some(SpanLots(r, a, b)) /\ t.value = Some(SpanValue(r, a, b))
      BY <1>3, <2>1, <2>2
    <2>5. \A c, d \in 1 .. n + 1 : StrictRun(r, c, d) => d <= b
      BY <1>7, <2>1
    <2> QED
      BY <2>2, <2>3, <2>4, <2>5
  <1>10. Reports(r, t)
    BY <1>1, <1>8, <1>9 DEF Reports
  <1> QED
    BY <1>10 DEF r

\* A streak that is long enough is the last run when it ends, and is reported.
LEMMA ReportIsMade ==
    ASSUME RoomForTrades, MinSweepLegs > 1, NEW q \in Seq(Trades), NEW e \in Trades,
           NEW s, NEW t, NEW j \in 1 .. Len(q), IsStreak(q, s, j),
           s.streak >= MinSweepLegs,
           MoveIn(Append(q, e), Len(q) + 1) # Direction(s),
           t.volume = Some(s.qty), t.value = Some(s.notional)
    PROVE  Reports(Append(q, e), t)
  <1> DEFINE r == Append(q, e)
             n == Len(q)
  <1>1. /\ n \in Nat /\ Len(r) = n + 1
        /\ \A i \in 1 .. n : MoveIn(r, i) = MoveIn(q, i)
    BY TickMoves
  <1>2. \A a, b \in 1 .. n + 1 : EndedRun(r, a, b) => b \in 1 .. n
    BY RunsStay
  <1>3. \A a \in 1 .. n + 1, b \in 0 .. n :
          SpanLots(r, a, b) = SpanLots(q, a, b) /\ SpanValue(r, a, b) = SpanValue(q, a, b)
    BY SpansOf
  <1>4. /\ s.streak = n - j + 1
        /\ \A i \in j + 1 .. n : MoveIn(q, i) = Direction(s)
        /\ s.qty = SpanLots(q, j, n)
        /\ s.notional = SpanValue(q, j, n)
    BY DEF IsStreak
  <1>5. MoveIn(r, n + 1) # Direction(s) /\ j \in 1 .. n
    OBVIOUS
  <1>6. MinSweepLegs \in Nat /\ Direction(s) # 0 /\ Direction(s) \in Int
    BY TickSignalsAssumption DEF Direction
  <1> HIDE DEF r, n
  <1>7. n \in j + 1 .. n /\ n \in 1 .. n + 1 /\ j \in 1 .. n + 1 /\ n \in 0 .. n
    BY <1>1, <1>4, <1>5, <1>6
  <1>8. \A i \in j + 1 .. n : MoveIn(r, i) = Direction(s)
    BY <1>1, <1>4, <1>5
  <1>9. MoveIn(r, n) = Direction(s)
    BY <1>7, <1>8
  <1>10. EndedRun(r, j, n)
    <2>1. n - j + 1 >= MinSweepLegs /\ n < Len(r)
      BY <1>1, <1>4
    <2> QED
      BY <2>1, <1>5, <1>6, <1>8, <1>9 DEF EndedRun
  <1>11. t.volume = Some(SpanLots(r, j, n)) /\ t.value = Some(SpanValue(r, j, n))
    BY <1>3, <1>4, <1>7
  <1>12. \A c, d \in 1 .. n + 1 : StrictRun(r, c, d) => d <= n
    BY <1>1, <1>2 DEF StrictRun
  <1>13. Has(t.volume)
    BY DEF Has, Some, None
  <1>14. Reports(r, t)
    BY <1>1, <1>7, <1>10, <1>11, <1>12, <1>13 DEF Reports
  <1> QED
    BY <1>14 DEF r

\* No run ends, first trade included, when the streak goes on or is too short.
LEMMA NoRunEnds ==
    ASSUME RoomForTrades, MinSweepLegs > 1, NEW q \in Seq(Trades), NEW e \in Trades,
           NEW s, NEW j \in 1 .. Len(q), IsStreak(q, s, j),
           s.streak < MinSweepLegs \/ MoveIn(Append(q, e), Len(q) + 1) = Direction(s),
           NEW c \in 1 .. Len(q)
    PROVE  ~ StrictRun(Append(q, e), c, Len(q))
  <1> DEFINE r == Append(q, e)
             n == Len(q)
  <1> SUFFICES ASSUME StrictRun(r, c, n) PROVE FALSE
    OBVIOUS
  <1>1. /\ n \in Nat /\ Len(r) = n + 1
        /\ \A i \in 1 .. n : MoveIn(r, i) = MoveIn(q, i)
    BY TickMoves
  <1>2. /\ MoveIn(q, n) # 0 => MoveIn(q, n) = Direction(s)
        /\ \A d \in 1 .. n :
             /\ MoveIn(q, n) # 0
             /\ \A i \in d .. n : MoveIn(q, i) = MoveIn(q, n)
             => j <= d
    BY StreakHolds
  <1>3. s.streak = n - j + 1
    BY DEF IsStreak
  <1>4. /\ c \in 1 .. n /\ j \in 1 .. n
        /\ s.streak < MinSweepLegs \/ MoveIn(r, n + 1) = Direction(s)
    OBVIOUS
  <1>5. MinSweepLegs \in Nat
    BY TickSignalsAssumption
  <1> HIDE DEF r, n
  <1>6. /\ n - c + 1 >= MinSweepLegs
        /\ MoveIn(r, n) # 0
        /\ \A i \in c + 1 .. n : MoveIn(r, i) = MoveIn(r, n)
        /\ MoveIn(r, n + 1) # MoveIn(r, n)
        /\ MoveIn(r, c) = MoveIn(r, n)
    BY DEF StrictRun, EndedRun
  <1>7. n \in 1 .. n
    BY <1>1, <1>4
  <1>8. MoveIn(q, n) = MoveIn(r, n) /\ MoveIn(q, n) = Direction(s)
    BY <1>1, <1>2, <1>6, <1>7
  <1>9. \A i \in c .. n : MoveIn(q, i) = MoveIn(q, n)
    <2> TAKE i \in c .. n
    <2>1. i \in 1 .. n /\ (i = c \/ i \in c + 1 .. n)
      BY <1>1, <1>4
    <2> QED
      BY <1>1, <1>6, <1>8, <2>1
  <1>10. j <= c
    BY <1>2, <1>4, <1>6, <1>8, <1>9
  <1>11. s.streak >= MinSweepLegs
    BY <1>1, <1>3, <1>4, <1>5, <1>6, <1>10
  <1> QED
    BY <1>3, <1>1, <1>4, <1>5, <1>6, <1>8, <1>11

\* A trade keeps what the signal knows (FlashSweepFootprint::update).
LEMMA SweepStep ==
    ASSUME RoomForTrades, MinSweepLegs > 1, NEW q \in Seq(Trades), NEW e \in Trades,
           NEW s, SweepFacts(q, s)
    PROVE  SweepFacts(Append(q, e), FlashSweepFootprint(s, e))
  <1> DEFINE r == Append(q, e)
             n == Len(q)
             t == FlashSweepFootprint(s, e)
  <1>1. /\ n \in Nat /\ Len(r) = n + 1
        /\ LastOf(r) = Some(e.price)
        /\ MoveIn(r, n + 1) \in {-1, 0, 1}
        /\ MovedUp(LastOf(q), e) <=> MoveIn(r, n + 1) = 1
        /\ MovedDown(LastOf(q), e) <=> MoveIn(r, n + 1) = -1
        /\ Has(LastOf(q)) <=> n # 0
    BY TickMoves
  <1>2. /\ s.last = LastOf(q)
        /\ s.up \in BOOLEAN
        /\ n = 0 => s.up
        /\ n # 0 => \E j \in 1 .. n : IsStreak(q, s, j)
        /\ Reports(q, s)
    BY DEF SweepFacts
  <1>20. s = [last |-> s.last, streak |-> s.streak, up |-> s.up, qty |-> s.qty,
            notional |-> s.notional, volume |-> s.volume, value |-> s.value]
    BY DEF SweepFacts
  <1>3. SweepContinues(s, e) <=> MoveIn(r, n + 1) = Direction(s)
    BY <1>1, <1>2 DEF SweepContinues, Direction
  <1>4. n = 0 => MoveIn(r, n + 1) = 0
    BY <1>1 DEF MoveIn
  <1>5. CASE SweepContinues(s, e)
    <2>1. n # 0
      BY <1>3, <1>4, <1>5 DEF Direction
    <2>2. PICK j \in 1 .. n : IsStreak(q, s, j)
      BY <1>2, <2>1
    <2>3. t = [last |-> Some(e.price), streak |-> s.streak + 1, up |-> s.up,
               qty |-> s.qty + Qty(e), notional |-> s.notional + Notional(e),
               volume |-> s.volume, value |-> s.value]
      <3>1. t = [s EXCEPT !.last = Some(e.price), !.streak = @ + 1,
                          !.qty = Add(@, Qty(e)), !.notional = Add(@, Notional(e))]
        BY <1>5 DEF FlashSweepFootprint
      <3> HIDE DEF t
      <3> QED
        BY <1>20, <3>1 DEF Add
    <2> HIDE DEF t
    <2>4. /\ t.streak = s.streak + 1 /\ t.qty = s.qty + Qty(e)
          /\ t.notional = s.notional + Notional(e) /\ t.up = s.up
          /\ t.volume = s.volume /\ t.value = s.value /\ t.last = Some(e.price)
      BY <2>3
    <2>5. t = [last |-> t.last, streak |-> t.streak, up |-> t.up, qty |-> t.qty,
               notional |-> t.notional, volume |-> t.volume, value |-> t.value]
      BY <2>3
    <2>6. MoveIn(r, n + 1) = Direction(s)
      BY <1>3, <1>5
    <2>7. IsStreak(r, t, j)
      BY <2>2, <2>4, <2>6, StreakGoesOn
    <2>8. \A c \in 1 .. n : ~ StrictRun(r, c, n)
      BY <2>2, <2>6, NoRunEnds
    <2>9. Reports(r, t)
      BY <1>2, <2>4, <2>8, ReportStays
    <2>10. j \in 1 .. Len(r) /\ Len(r) # 0
      BY <1>1, <2>2
    <2> HIDE DEF r, n
    <2>11. SweepFacts(r, t)
      BY <1>1, <1>2, <2>4, <2>5, <2>7, <2>9, <2>10 DEF SweepFacts
    <2> QED
      BY <2>11 DEF r, t
  <1>6. CASE ~ SweepContinues(s, e)
    <2> DEFINE completed == Has(s.last) /\ s.streak >= MinSweepLegs
    <2>1. t = [last |-> Some(e.price), streak |-> 1,
               up |-> IF Has(s.last) THEN MovedUp(s.last, e) ELSE s.up,
               qty |-> Qty(e), notional |-> Notional(e),
               volume |-> IF completed THEN Some(s.qty) ELSE s.volume,
               value |-> IF completed THEN Some(s.notional) ELSE s.value]
      BY <1>6 DEF FlashSweepFootprint
    <2> HIDE DEF t
    <2>2. /\ t.streak = 1 /\ t.qty = Qty(e) /\ t.notional = Notional(e)
          /\ t.up = IF Has(s.last) THEN MovedUp(s.last, e) ELSE s.up
          /\ t.volume = IF completed THEN Some(s.qty) ELSE s.volume
          /\ t.value = IF completed THEN Some(s.notional) ELSE s.value
          /\ t.last = Some(e.price)
      BY <2>1
    <2>3. t = [last |-> t.last, streak |-> t.streak, up |-> t.up, qty |-> t.qty,
               notional |-> t.notional, volume |-> t.volume, value |-> t.value]
      BY <2>1
    <2>4. MoveIn(r, n + 1) # Direction(s)
      BY <1>3, <1>6
    <2>5. IsStreak(r, t, n + 1)
      BY <2>2, <2>4, StreakBegins
    <2>6. Reports(r, t)
      <3>1. CASE completed
        <4>1. n # 0
          BY <1>1, <1>2, <3>1
        <4>2. PICK j \in 1 .. n : IsStreak(q, s, j)
          BY <1>2, <4>1
        <4>3. t.volume = Some(s.qty) /\ t.value = Some(s.notional)
          BY <2>2, <3>1
        <4> QED
          BY <2>4, <3>1, <4>2, <4>3, ReportIsMade
      <3>2. CASE ~ completed
        <4>1. t.volume = s.volume /\ t.value = s.value
          BY <2>2, <3>2
        <4>2. ASSUME NEW c \in 1 .. n PROVE ~ StrictRun(r, c, n)
          <5>1. n # 0
            BY <1>1, <4>2
          <5>2. PICK j \in 1 .. n : IsStreak(q, s, j)
            BY <1>2, <5>1
          <5>3. s.streak = n - j + 1
            BY <5>2 DEF IsStreak
          <5>4. s.streak < MinSweepLegs
            BY <1>1, <1>2, <3>2, <5>1, <5>3, TickSignalsAssumption
          <5> QED
            BY <5>2, <5>4, NoRunEnds
        <4> QED
          BY <1>2, <4>1, <4>2, ReportStays
      <3> QED
        BY <3>1, <3>2
    <2>7. t.up \in BOOLEAN
      BY <1>2, <2>2 DEF MovedUp, Has
    <2>8. n + 1 \in 1 .. Len(r) /\ Len(r) # 0
      BY <1>1
    <2> HIDE DEF r, n
    <2>9. SweepFacts(r, t)
      BY <1>1, <2>2, <2>3, <2>5, <2>6, <2>7, <2>8 DEF SweepFacts
    <2> QED
      BY <2>9 DEF r, t
  <1> QED
    BY <1>5, <1>6

\* Before the first trade nothing is reported.
LEMMA SweepsStart == SweepFacts(<<>>, FlashSweepInit)
  <1> DEFINE s == FlashSweepInit
  <1>1. /\ s = [last |-> s.last, streak |-> s.streak, up |-> s.up, qty |-> s.qty,
                notional |-> s.notional, volume |-> s.volume, value |-> s.value]
        /\ s.last = None /\ s.up = TRUE /\ s.volume = None
    BY DEF FlashSweepInit
  <1>2. Len(<<>>) = 0 /\ LastOf(<<>>) = None
    BY DEF LastOf
  <1>3. \A a, b : ~ (a \in 1 .. 0 /\ b \in 1 .. 0)
    OBVIOUS
  <1> HIDE DEF s
  <1>4. ~ Has(s.volume)
    BY <1>1 DEF Has
  <1>5. Reports(<<>>, s)
    BY <1>2, <1>3, <1>4 DEF Reports
  <1>6. SweepFacts(<<>>, s)
    BY <1>1, <1>2, <1>5 DEF SweepFacts
  <1> QED
    BY <1>6 DEF s

\* What SweepsAreReported says of the signal.
LEMMA SweepFactsSuffice ==
    ASSUME SessionOK, SweepFacts(Seen, signals.sweep)
    PROVE  SweepsAreReported
  <1> DEFINE q == Seen
             s == signals.sweep
             strict == {r \in EndedRuns : Move(r[1]) = Move(r[2])}
  <1>1. /\ Len(q) \in Nat /\ DOMAIN q = 1 .. Len(q)
        /\ \A i \in 1 .. Len(q) : q[i] = tape[i] /\ Move(i) = MoveIn(q, i)
    BY SeenIs
  <1>2. Reports(q, s)
    BY DEF SweepFacts
  <1> HIDE DEF q, s
  <1>3. ASSUME NEW a \in 1 .. Len(q), NEW b \in 1 .. Len(q)
        PROVE  <<a, b>> \in EndedRuns <=> EndedRun(q, a, b)
    <2>1. <<a, b>> \in (DOMAIN q) \X (DOMAIN q)
      BY <1>1
    <2>2. <<a, b>>[1] = a /\ <<a, b>>[2] = b
      OBVIOUS
    <2>3. <<a, b>> \in EndedRuns
            <=> /\ b - a + 1 >= MinSweepLegs
                /\ b < Len(q)
                /\ Move(b) # 0
                /\ \A i \in a + 1 .. b : Move(i) = Move(b)
                /\ Move(b + 1) # Move(b)
      BY <2>1, <2>2 DEF EndedRuns, q
    <2>4. b < Len(q) => b + 1 \in 1 .. Len(q)
      BY <1>1
    <2>5. \A i \in a + 1 .. b : i \in 1 .. Len(q)
      BY <1>1
    <2> QED
      BY <1>1, <2>3, <2>4, <2>5 DEF EndedRun
  <1>4. \A r \in EndedRuns :
          r[1] \in 1 .. Len(q) /\ r[2] \in 1 .. Len(q) /\ r = <<r[1], r[2]>>
    BY <1>1 DEF EndedRuns, q
  <1>5. ASSUME NEW r \in strict
        PROVE  r[1] \in 1 .. Len(q) /\ r[2] \in 1 .. Len(q) /\ StrictRun(q, r[1], r[2])
    <2>1. r \in EndedRuns /\ Move(r[1]) = Move(r[2])
      BY <1>5
    <2>2. r[1] \in 1 .. Len(q) /\ r[2] \in 1 .. Len(q) /\ <<r[1], r[2]>> \in EndedRuns
      BY <1>4, <2>1
    <2>3. EndedRun(q, r[1], r[2])
      BY <1>3, <2>2
    <2>4. MoveIn(q, r[1]) = MoveIn(q, r[2])
      BY <1>1, <2>1, <2>2
    <2> QED
      BY <2>2, <2>3, <2>4 DEF StrictRun
  <1>6. strict # {} => Has(s.volume)
    BY <1>2, <1>5 DEF Reports
  <1>7. ASSUME Has(s.volume)
        PROVE  \E r \in EndedRuns :
                /\ s.volume = Some(SumFunction([i \in r[1] .. r[2] |-> LotsOf(i)]))
                /\ s.value = Some(SumFunction([i \in r[1] .. r[2] |-> ValueOf(i)]))
                /\ \A t \in strict : t[2] <= r[2]
    <2>1. PICK a \in 1 .. Len(q), b \in 1 .. Len(q) :
            /\ EndedRun(q, a, b)
            /\ s.volume = Some(SpanLots(q, a, b))
            /\ s.value = Some(SpanValue(q, a, b))
            /\ \A c, d \in 1 .. Len(q) : StrictRun(q, c, d) => d <= b
      BY <1>2, <1>7 DEF Reports
    <2>2. <<a, b>> \in EndedRuns
      BY <1>3, <2>1
    <2>3. \A i \in a .. b : LotsIn(q, i) = LotsOf(i) /\ ValueIn(q, i) = ValueOf(i)
      <3>1. \A i \in a .. b : i \in 1 .. Len(q)
        BY <1>1
      <3> QED
        BY <1>1, <3>1 DEF LotsIn, LotsOf, ValueIn, ValueOf
    <2>4. /\ [i \in a .. b |-> LotsIn(q, i)] = [i \in a .. b |-> LotsOf(i)]
          /\ [i \in a .. b |-> ValueIn(q, i)] = [i \in a .. b |-> ValueOf(i)]
      BY <2>3
    <2>5. /\ s.volume = Some(SumFunction([i \in a .. b |-> LotsOf(i)]))
          /\ s.value = Some(SumFunction([i \in a .. b |-> ValueOf(i)]))
      BY <2>1, <2>4 DEF SpanLots, SpanValue
    <2>6. \A t \in strict : t[2] <= b
      BY <1>5, <2>1
    <2>7. <<a, b>>[1] = a /\ <<a, b>>[2] = b
      OBVIOUS
    <2> WITNESS <<a, b>> \in EndedRuns
    <2> HIDE DEF strict
    <2> QED
      BY <2>5, <2>6, <2>7
  <1> QED
    BY <1>6, <1>7 DEF SweepsAreReported, s

\* A sweep that is reported was one, with its volume and its value, and it is
\* never older than the last run of moves the same way, whatever the prices and
\* however long the session (FlashSweepFootprint::update).
THEOREM SweepsAlwaysReported ==
    ASSUME RoomForTrades, MinSweepLegs > 1
    PROVE  Spec => []SweepsAreReported
  <1> DEFINE Inv == SessionOK /\ SweepFacts(Seen, signals.sweep)
  <1>1. Init => Inv
    <2> SUFFICES ASSUME Init PROVE Inv
      OBVIOUS
    <2>1. SessionOK /\ Seen = <<>> /\ signals.sweep = FlashSweepInit
      BY SessionStarts DEF Fresh
    <2> QED
      BY <2>1, SweepsStart
  <1>2. Inv /\ [Next]_vars => Inv'
    <2> SUFFICES ASSUME Inv, [Next]_vars PROVE Inv'
      OBVIOUS
    <2>1. SessionOK'
      BY SessionSteps
    <2>2. CASE Seen' = Seen /\ signals' = signals
      BY <2>1, <2>2
    <2>3. CASE \E e \in Trades : Seen' = Append(Seen, e) /\ signals' = Updated(signals, e)
      <3>1. PICK e \in Trades : Seen' = Append(Seen, e) /\ signals' = Updated(signals, e)
        BY <2>3
      <3>2. signals'.sweep = FlashSweepFootprint(signals.sweep, e)
        BY <3>1 DEF Updated
      <3>3. SweepFacts(Append(Seen, e), FlashSweepFootprint(signals.sweep, e))
        BY SeenIs, SweepStep
      <3> QED
        BY <2>1, <3>1, <3>2, <3>3
    <2> QED
      BY <2>2, <2>3, SessionSteps
  <1>3. Inv => SweepsAreReported
    BY SweepFactsSuffice
  <1> QED
    BY <1>1, <1>2, <1>3, PTL DEF Spec

-----------------------------------------------------------------------------
(* The lots of a sequence of trades, one after the other.                  *)

\* The concatenations of the first i of n sequences.
Joins(g, q, n) == g = [i \in 1 .. n |-> IF i = 1 THEN q[i] ELSE g[i - 1] \o q[i]]

\* The concatenations of a sequence of sequences.
JoinsOf(q) == CHOOSE g : Joins(g, q, Len(q))

\* There are such concatenations.
LEMMA JoinsExist == ASSUME NEW q, NEW n \in Nat PROVE \E g : Joins(g, q, n)
  <1> DEFINE N == {m \in Nat : \E g : Joins(g, q, m)}
  <1>1. 0 \in N
    <2> DEFINE g == [i \in 1 .. 0 |-> q[i]]
    <2>1. g = [i \in 1 .. 0 |-> IF i = 1 THEN q[i] ELSE g[i - 1] \o q[i]]
      <3>1. \A i \in 1 .. 0 : FALSE
        OBVIOUS
      <3>2. \A f : [i \in 1 .. 0 |-> q[i]]
                    = [i \in 1 .. 0 |-> IF i = 1 THEN q[i] ELSE f[i - 1] \o q[i]]
        BY <3>1
      <3> QED
        BY <3>2
    <2> QED
      BY <2>1 DEF Joins
  <1>2. ASSUME NEW m \in N PROVE m + 1 \in N
    <2>1. PICK g : g = [i \in 1 .. m |-> IF i = 1 THEN q[i] ELSE g[i - 1] \o q[i]]
      BY DEF Joins
    <2> DEFINE x == IF m + 1 = 1 THEN q[m + 1] ELSE g[m] \o q[m + 1]
               h == [i \in 1 .. m + 1 |-> IF i = m + 1 THEN x ELSE g[i]]
    <2>2. m \in Nat
      OBVIOUS
    <2>3. \A i \in 1 .. m : g[i] = IF i = 1 THEN q[i] ELSE g[i - 1] \o q[i]
      BY <2>1
    <2>4. h[m + 1] = x /\ \A i \in 1 .. m : h[i] = g[i]
      <3>1. /\ m + 1 \in 1 .. m + 1
            /\ \A i \in 1 .. m : i \in 1 .. m + 1 /\ i # m + 1
        BY <2>2
      <3> HIDE DEF x, N
      <3> QED
        BY <3>1
    <2> HIDE DEF h
    <2>5. ASSUME NEW i \in 1 .. m + 1
          PROVE  h[i] = IF i = 1 THEN q[i] ELSE h[i - 1] \o q[i]
      <3>1. CASE i = m + 1
        <4>1. i # 1 => i - 1 = m /\ m \in 1 .. m
          BY <2>2, <3>1
        <4> QED
          BY <2>4, <3>1, <4>1
      <3>2. CASE i # m + 1
        <4>1. i \in 1 .. m /\ (i # 1 => i - 1 \in 1 .. m)
          BY <2>2, <3>2
        <4> QED
          BY <2>3, <2>4, <4>1
      <3> QED
        BY <3>1, <3>2
    <2>6. h = [i \in 1 .. m + 1 |-> IF i = 1 THEN q[i] ELSE h[i - 1] \o q[i]]
      <3>1. \E f : h = [i \in 1 .. m + 1 |-> f[i]]
        <4> DEFINE f == [i \in 1 .. m + 1 |-> IF i = m + 1 THEN x ELSE g[i]]
        <4>1. h = [i \in 1 .. m + 1 |-> f[i]]
          BY DEF h
        <4> QED
          BY <4>1
      <3> QED
        BY <2>5, <3>1
    <2>7. Joins(h, q, m + 1)
      BY <2>6 DEF Joins
    <2> QED
      BY <2>2, <2>7
  <1>3. N = Nat
    <2> HIDE DEF N
    <2>1. N \in SUBSET Nat
      BY DEF N
    <2> QED
      BY <1>1, <1>2, <2>1, NaturalsByInduction
  <1> QED
    BY <1>3

\* The concatenations of more sequences begin with those of fewer, and are of
\* the same elements.
LEMMA JoinsAgree ==
    ASSUME NEW V, NEW q, NEW r, NEW n \in Nat, NEW m \in Nat, n <= m,
           \A i \in 1 .. n : q[i] = r[i] /\ q[i] \in Seq(V),
           NEW g, NEW h, Joins(g, q, n), Joins(h, r, m)
    PROVE  \A i \in 1 .. n : g[i] = h[i] /\ g[i] \in Seq(V)
  <1> DEFINE N == {k \in Nat : k \in 1 .. n => g[k] = h[k] /\ g[k] \in Seq(V)}
  <1>1. /\ \A i \in 1 .. n : g[i] = IF i = 1 THEN q[i] ELSE g[i - 1] \o q[i]
        /\ \A i \in 1 .. m : h[i] = IF i = 1 THEN r[i] ELSE h[i - 1] \o r[i]
    BY DEF Joins
  <1>2. 0 \in N
    OBVIOUS
  <1>3. ASSUME NEW k \in N PROVE k + 1 \in N
    <2> SUFFICES ASSUME k + 1 \in 1 .. n PROVE g[k + 1] = h[k + 1] /\ g[k + 1] \in Seq(V)
      OBVIOUS
    <2>1. k + 1 \in 1 .. m /\ k \in Nat /\ q[k + 1] = r[k + 1] /\ q[k + 1] \in Seq(V)
      OBVIOUS
    <2>2. CASE k = 0
      BY <1>1, <2>1, <2>2
    <2>3. CASE k # 0
      <3>1. k \in 1 .. n /\ k + 1 # 1 /\ (k + 1) - 1 = k
        BY <2>1, <2>3
      <3>2. g[k] = h[k] /\ g[k] \in Seq(V)
        BY <3>1
      <3>3. g[k + 1] = g[k] \o q[k + 1] /\ h[k + 1] = h[k] \o r[k + 1]
        BY <1>1, <2>1, <3>1
      <3> HIDE DEF N
      <3> QED
        BY <2>1, <3>2, <3>3
    <2> QED
      BY <2>2, <2>3
  <1>4. N = Nat
    <2> HIDE DEF N
    <2>1. N \in SUBSET Nat
      BY DEF N
    <2> QED
      BY <1>2, <1>3, <2>1, NaturalsByInduction
  <1> QED
    BY <1>4

\* The last of them is the flattened sequence.
LEMMA FlattenIsJoin ==
    ASSUME NEW q
    PROVE  FlattenSeq(q) = IF Len(q) = 0 THEN q ELSE JoinsOf(q)[Len(q)]
  BY DEF FlattenSeq, JoinsOf, Joins

\* One more sequence is appended to the flattened ones.
LEMMA FlattenGrows ==
    ASSUME NEW V, NEW q \in Seq(Seq(V)), NEW x \in Seq(V)
    PROVE  /\ FlattenSeq(q) \in Seq(V)
           /\ FlattenSeq(Append(q, x)) = FlattenSeq(q) \o x
  <1> DEFINE r == Append(q, x)
             n == Len(q)
             g == JoinsOf(q)
             h == JoinsOf(r)
  <1>1. /\ n \in Nat /\ Len(r) = n + 1 /\ r[n + 1] = x
        /\ \A i \in 1 .. n : r[i] = q[i] /\ q[i] \in Seq(V)
        /\ \A i \in 1 .. n + 1 : r[i] \in Seq(V)
    OBVIOUS
  <1>2. Joins(g, q, n)
    BY <1>1, JoinsExist DEF JoinsOf
  <1>3. Joins(h, r, n + 1)
    <2>1. \E f : Joins(f, r, n + 1)
      BY <1>1, JoinsExist
    <2> QED
      BY <1>1, <2>1 DEF JoinsOf
  <1>4. FlattenSeq(q) = IF n = 0 THEN q ELSE g[n]
    BY FlattenIsJoin
  <1>5. FlattenSeq(r) = h[n + 1]
    <2>1. FlattenSeq(r) = IF Len(r) = 0 THEN r ELSE h[Len(r)]
      BY FlattenIsJoin
    <2>2. Len(r) = n + 1 /\ n + 1 # 0
      BY <1>1
    <2> HIDE DEF r, h, n
    <2> QED
      BY <2>1, <2>2
  <1> HIDE DEF g, h, r, n
  <1>6. \A i \in 1 .. n : g[i] = h[i] /\ g[i] \in Seq(V)
    <2>1. n \in Nat /\ n + 1 \in Nat /\ n <= n + 1
      BY <1>1
    <2>2. \A i \in 1 .. n : q[i] = r[i] /\ q[i] \in Seq(V)
      BY <1>1
    <2> QED
      BY <1>2, <1>3, <2>1, <2>2, JoinsAgree
  <1>7. \A i \in 1 .. n + 1 : h[i] = IF i = 1 THEN r[i] ELSE h[i - 1] \o r[i]
    BY <1>3 DEF Joins
  <1>8. FlattenSeq(q) \in Seq(V) /\ FlattenSeq(r) = FlattenSeq(q) \o x
    <2>1. CASE n = 0
      <3>1. FlattenSeq(q) = <<>>
        <4>1. q = <<>>
          BY <2>1 DEF n
        <4> QED
          BY <1>4, <2>1, <4>1
      <3>2. h[n + 1] = x
        BY <1>1, <1>7, <2>1
      <3> QED
        BY <1>5, <3>1, <3>2
    <2>2. CASE n # 0
      <3>1. n \in 1 .. n /\ n + 1 \in 1 .. n + 1 /\ n + 1 # 1 /\ (n + 1) - 1 = n
        BY <1>1, <2>2
      <3>2. h[n + 1] = h[n] \o x
        BY <1>1, <1>7, <3>1
      <3> QED
        BY <1>4, <1>5, <1>6, <2>2, <3>1, <3>2
    <2> QED
      BY <2>1, <2>2
  <1> QED
    BY <1>8 DEF r

\* Who traded with trade i of a sequence, its lots, and the lots of them all.
AggressorIn(q, i) == IF MoveIn(q, i) = -1 THEN -1 ELSE 1
TradeLots(q, i) == [k \in 1 .. q[i].quantity |-> AggressorIn(q, i)]
SignedLots(q) == FlattenSeq([i \in 1 .. Len(q) |-> TradeLots(q, i)])

\* The lots of no trades.
LEMMA LotsOfNone == SignedLots(<<>>) = <<>>
  <1>1. \A i \in 1 .. Len(<<>>) : FALSE
    OBVIOUS
  <1> DEFINE s == [i \in 1 .. Len(<<>>) |-> TradeLots(<<>>, i)]
  <1>2. s = <<>> /\ Len(s) = 0
    BY <1>1
  <1> QED
    BY <1>2, FlattenIsJoin DEF SignedLots

\* One more trade adds its lots, all bought or all sold.
LEMMA LotsGrow ==
    ASSUME NEW q \in Seq(Trades), NEW e \in Trades
    PROVE  LET L == SignedLots(q)
               M == SignedLots(Append(q, e))
           IN  /\ L \in Seq({-1, 1}) /\ M \in Seq({-1, 1})
               /\ Len(M) = Len(L) + e.quantity
               /\ \A i \in 1 .. Len(L) : M[i] = L[i]
               /\ \A i \in Len(L) + 1 .. Len(M) :
                    M[i] = IF IsBuy(LastOf(q), e) THEN 1 ELSE -1
  <1> DEFINE V == {-1, 1}
             r == Append(q, e)
             n == Len(q)
             s == [i \in 1 .. Len(q) |-> TradeLots(q, i)]
             t == [i \in 1 .. Len(r) |-> TradeLots(r, i)]
             a == IF IsBuy(LastOf(q), e) THEN 1 ELSE -1
             x == [k \in 1 .. e.quantity |-> a]
             L == SignedLots(q)
             M == SignedLots(r)
  <1>1. /\ n \in Nat /\ Len(r) = n + 1 /\ r[n + 1] = e
        /\ \A i \in 1 .. n : r[i] = q[i] /\ MoveIn(r, i) = MoveIn(q, i)
        /\ MovedDown(LastOf(q), e) <=> MoveIn(r, n + 1) = -1
        /\ Has(LastOf(q)) <=> n # 0
        /\ n # 0 => Value(LastOf(q)) = r[n].price /\ r[n].price \in Nat
        /\ \A i \in 1 .. n : q[i] \in Trades
    BY TickMoves
  <1>2. e.price \in Nat /\ e.quantity \in Nat /\ \A i \in 1 .. n : q[i].quantity \in Nat
    BY <1>1, TradeType
  <1>3. a = AggressorIn(r, n + 1)
    BY <1>1, <1>2 DEF AggressorIn, IsBuy, MovedDown
  <1>4. a \in V
    OBVIOUS
  <1> HIDE DEF r, n, a
  <1>5. x \in Seq(V) /\ Len(x) = e.quantity /\ \A k \in 1 .. e.quantity : x[k] = a
    BY <1>2, <1>4
  <1>6. t[n + 1] = x /\ Len(t) = n + 1 /\ DOMAIN t = 1 .. n + 1
    <2>1. TradeLots(r, n + 1) = x
      BY <1>1, <1>3 DEF TradeLots
    <2>2. DOMAIN t = 1 .. n + 1 /\ n + 1 \in 1 .. n + 1
      BY <1>1
    <2>3. t[n + 1] = TradeLots(r, n + 1)
      BY <1>1, <2>2
    <2>4. Len(t) = n + 1
      BY <1>1, <2>2
    <2> QED
      BY <2>1, <2>2, <2>3, <2>4
  <1>7. s \in Seq(Seq(V)) /\ Len(s) = n /\ DOMAIN s = 1 .. n
    <2>1. ASSUME NEW i \in 1 .. n PROVE TradeLots(q, i) \in Seq(V)
      <3> DEFINE b == AggressorIn(q, i)
      <3>1. b \in V
        BY DEF AggressorIn
      <3> HIDE DEF b
      <3>2. [k \in 1 .. q[i].quantity |-> b] \in Seq(V)
        BY <1>2, <3>1
      <3> QED
        BY <3>2 DEF TradeLots, b
    <2>2. s = [i \in 1 .. n |-> TradeLots(q, i)]
      BY DEF n
    <2> HIDE DEF s, V
    <2> QED
      BY <1>1, <2>1, <2>2
  <1>8. t = Append(s, x)
    <2>1. \A i \in 1 .. n : t[i] = s[i]
      <3>1. \A i \in 1 .. n : TradeLots(r, i) = TradeLots(q, i)
        BY <1>1 DEF TradeLots, AggressorIn
      <3>2. \A i \in 1 .. n : i \in 1 .. Len(r) /\ i \in 1 .. Len(q)
        BY <1>1 DEF n
      <3> QED
        BY <3>1, <3>2
    <2>2. t \in Seq(Seq(V))
      <3>1. \A i \in 1 .. n + 1 : t[i] \in Seq(V)
        <4>1. \A i \in 1 .. n : s[i] \in Seq(V)
          BY <1>7
        <4>2. \A i \in 1 .. n + 1 : i \in 1 .. n \/ i = n + 1
          BY <1>1
        <4> HIDE DEF t, s, x, V
        <4> QED
          BY <1>5, <1>6, <2>1, <4>1, <4>2
      <3>2. t = [i \in 1 .. n + 1 |-> t[i]]
        BY <1>1
      <3> HIDE DEF t, V
      <3> QED
        BY <1>1, <3>1, <3>2
    <2> HIDE DEF t, s, x, V
    <2> QED
      BY <1>1, <1>5, <1>6, <1>7, <2>1, <2>2
  <1> HIDE DEF s, t, x, V
  <1>9. FlattenSeq(s) \in Seq(V) /\ FlattenSeq(Append(s, x)) = FlattenSeq(s) \o x
    BY <1>5, <1>7, FlattenGrows
  <1>10. L = FlattenSeq(s) /\ M = FlattenSeq(t)
    BY DEF SignedLots, s, t
  <1> HIDE DEF L, M
  <1>11. L \in Seq(V) /\ M = L \o x
    BY <1>8, <1>9, <1>10
  <1>12. /\ M \in Seq(V) /\ Len(M) = Len(L) + e.quantity
         /\ \A i \in 1 .. Len(L) : M[i] = L[i]
         /\ \A i \in Len(L) + 1 .. Len(M) : M[i] = a
    <2>1. Len(L) \in Nat /\ M \in Seq(V) /\ Len(M) = Len(L) + e.quantity
      <3>1. L \o x \in Seq(V) /\ Len(L \o x) = Len(L) + Len(x) /\ Len(L) \in Nat
        BY <1>5, <1>11, ConcatProperties
      <3> QED
        BY <1>5, <1>11, <3>1
    <2>2. \A i \in 1 .. Len(L) : M[i] = L[i]
      BY <1>5, <1>11
    <2>3. ASSUME NEW i \in Len(L) + 1 .. Len(M) PROVE M[i] = a
      <3>1. i - Len(L) \in 1 .. e.quantity
        BY <1>2, <2>1
      <3>2. M[i] = x[i - Len(L)]
        BY <1>2, <1>5, <1>11, <2>1
      <3> QED
        BY <1>5, <3>1, <3>2
    <2> QED
      BY <2>1, <2>2, <2>3
  <1> QED
    BY <1>11, <1>12 DEF L, M, r, V, a

-----------------------------------------------------------------------------
(* VPIN on lots.                                                           *)

\* The sum of the lots a .. b, the lots of bucket k, and its imbalance.
Span(M, a, b) == SumFunctionOnSet(M, a .. b)
BucketOf(k) == (k - 1) * BucketLots + 1 .. k * BucketLots
Imbalance(M, k) ==
    (Magnitude(SumFunctionOnSet(M, BucketOf(k))) * Scale) \div BucketLots

\* The imbalances of the last of f full buckets.
Window(M, f, w) ==
    /\ w \in Seq(0 .. One)
    /\ Len(w) = IF f < NumBuckets THEN f ELSE NumBuckets
    /\ \A i \in 1 .. Len(w) : w[i] = Imbalance(M, f - Len(w) + i)

\* The signal after the first n lots, which fill f buckets.
VpinAt(M, n, f, s) ==
    /\ s = [last |-> s.last, buy |-> s.buy, sell |-> s.sell, fill |-> s.fill,
            imbalances |-> s.imbalances, vpin |-> s.vpin]
    /\ s.buy \in Nat /\ s.sell \in Nat
    /\ f * BucketLots <= n /\ n < f * BucketLots + BucketLots
    /\ s.fill = Scale * (n - f * BucketLots)
    /\ s.buy + s.sell = s.fill
    /\ s.buy - s.sell = Scale * Span(M, f * BucketLots + 1, n)
    /\ Window(M, f, s.imbalances)
    /\ s.vpin = IF f = 0 THEN None
                ELSE Some(SumFunction(s.imbalances) \div Len(s.imbalances))

\* A quotient is the number of times that the divisor fits.
LEMMA FloorIs ==
    ASSUME NEW q \in Nat, NEW y \in Nat, y > 0, NEW z \in Nat, q * y <= z, z < q * y + y
    PROVE  z \div y = q
  <1> DEFINE p == z \div y
  <1>1. p \in Nat /\ p * y <= z /\ z < p * y + y
    OBVIOUS
  <1> HIDE DEF p
  <1>2. p <= q
    <2> SUFFICES ASSUME q + 1 <= p PROVE FALSE
      BY <1>1
    <2>1. (q + 1) * y <= p * y /\ (q + 1) * y = q * y + y
      BY <1>1, Larger
    <2> QED
      BY <1>1, <2>1
  <1>3. q <= p
    <2> SUFFICES ASSUME p + 1 <= q PROVE FALSE
      BY <1>1
    <2>1. (p + 1) * y <= q * y /\ (p + 1) * y = p * y + y
      BY <1>1, Larger
    <2> QED
      BY <1>1, <2>1
  <1> QED
    BY <1>1, <1>2, <1>3 DEF p

\* A common factor cancels.
LEMMA QuotientCancels ==
    ASSUME NEW k \in Nat, k > 0, NEW z \in Nat, NEW y \in Nat, y > 0
    PROVE  (z * k) \div (y * k) = z \div y
  <1> DEFINE p == z \div y
  <1>1. p \in Nat /\ p * y <= z /\ z + 1 <= p * y + y
    OBVIOUS
  <1> HIDE DEF p
  <1> DEFINE x == p * y
             v == y * k
             u == z * k
  <1>2. x \in Nat /\ v \in Nat /\ u \in Nat /\ v > 0
    BY <1>1
  <1>3. p * v = x * k
    BY <1>1
  <1>4. (x + y) * k = x * k + v /\ (z + 1) * k = u + k
    BY <1>1, <1>2
  <1>5. x * k <= u
    BY <1>1, <1>2, Larger
  <1>6. (z + 1) * k <= (x + y) * k
    <2>1. z + 1 <= x + y /\ z + 1 \in Int /\ x + y \in Int
      BY <1>1, <1>2
    <2> HIDE DEF x
    <2> QED
      BY <2>1, Larger
  <1> DEFINE w == x * k
  <1>7. w \in Nat
    BY <1>2
  <1> HIDE DEF x, u, v, w
  <1>8. p * v <= u /\ u < p * v + v
    BY <1>2, <1>3, <1>4, <1>5, <1>6, <1>7 DEF w
  <1>9. u \div v = p
    BY <1>1, <1>2, <1>8, FloorIs
  <1> QED
    BY <1>9 DEF u, v, p

\* The lots from .. to are numbers, and are all x.
Numbers(M, from, to) == \A i \in from .. to : M[i] \in Int
AllAre(M, from, to, x) == \A i \in from .. to : M[i] = x

\* The sum of lots that are all bought or all sold.
LEMMA SpanOfSame ==
    ASSUME NEW N \in Nat, NEW M, Numbers(M, 1, N),
           NEW a \in Nat, a > 0, NEW n \in Nat, a <= n + 1,
           NEW to \in Nat, n <= to, to <= N, NEW from, from = n + 1,
           NEW x \in Int, AllAre(M, from, to, x)
    PROVE  Span(M, a, n) \in Int /\ Span(M, a, to) = Span(M, a, n) + (to - n) * x
  <1> DEFINE d == to - n
  <1>0. d \in Nat /\ to = n + d
    OBVIOUS
  <1> DEFINE S == {k \in Nat : k <= d => Span(M, a, n + k) = Span(M, a, n) + k * x}
  <1>1. ASSUME NEW m \in Nat, m <= N PROVE IsFiniteSet(a .. m) /\ Span(M, a, m) \in Int
    <2>1. IsFiniteSet(a .. m)
      BY FS_Interval
    <2>2. \A i \in a .. m : M[i] \in Int
      BY <1>1 DEF Numbers
    <2>3. SumFunctionOnSet(M, a .. m) \in Int
      BY <2>1, <2>2, SumSame
    <2> QED
      BY <2>1, <2>3 DEF Span
  <1>2. n <= N /\ Span(M, a, n) \in Int
    BY <1>1
  <1>3. 0 \in S
    BY <1>2
  <1>4. ASSUME NEW k \in S PROVE k + 1 \in S
    <2> SUFFICES ASSUME k + 1 <= d
                 PROVE  Span(M, a, n + (k + 1)) = Span(M, a, n) + (k + 1) * x
      OBVIOUS
    <2>1. k \in Nat /\ Span(M, a, n + k) = Span(M, a, n) + k * x
      OBVIOUS
    <2> DEFINE I == a .. n + k
               y == n + k + 1
    <2>2. IsFiniteSet(I)
      BY <1>1, <2>1
    <2>3. y \notin I /\ a .. y = I \cup {y} /\ y = n + (k + 1)
      BY <2>1
    <2>4. \A i \in I \cup {y} : M[i] \in Int
      BY <2>1 DEF Numbers
    <2>5. M[y] = x
      BY <2>1 DEF AllAre
    <2> HIDE DEF I, y
    <2>6. SumFunctionOnSet(M, I \cup {y}) = SumFunctionOnSet(M, I) + M[y]
      BY <2>2, <2>3, <2>4, SumAdds
    <2>7. Span(M, a, y) = Span(M, a, n + k) + x
      BY <2>3, <2>5, <2>6 DEF Span, I
    <2>8. (k + 1) * x = k * x + x
      BY <2>1
    <2>9. k * x \in Int
      BY <2>1
    <2> HIDE DEF S
    <2> QED
      BY <1>2, <2>1, <2>3, <2>7, <2>8, <2>9
  <1>5. S = Nat
    <2> HIDE DEF S
    <2>1. S \in SUBSET Nat
      BY DEF S
    <2> QED
      BY <1>3, <1>4, <2>1, NaturalsByInduction
  <1>6. d \in S
    <2> HIDE DEF S
    <2> QED
      BY <1>5
  <1>7. Span(M, a, n + d) = Span(M, a, n) + d * x
    <2>1. d <= d
      OBVIOUS
    <2> QED
      BY ONLY <1>6, <2>1
  <1> QED
    BY <1>0, <1>2, <1>7

\* A bucket that is full enters the window.
LEMMA WindowMoves ==
    ASSUME NEW M, NEW f \in Nat, NEW w, Window(M, f, w), NEW x \in 0 .. One,
           x = Imbalance(M, f + 1), NumBuckets \in Nat, NumBuckets > 0
    PROVE  LET window == Append(w, x)
               kept == IF Len(window) > NumBuckets THEN Tail(window) ELSE window
           IN  Window(M, f + 1, kept) /\ Len(kept) \in Nat /\ Len(kept) > 0
  <1> DEFINE window == Append(w, x)
             kept == IF Len(window) > NumBuckets THEN Tail(window) ELSE window
             m == Len(w)
  <1>1. /\ w \in Seq(0 .. One) /\ m \in Nat
        /\ m = IF f < NumBuckets THEN f ELSE NumBuckets
        /\ \A i \in 1 .. m : w[i] = Imbalance(M, f - m + i)
    BY DEF Window
  <1>2. /\ window \in Seq(0 .. One) /\ Len(window) = m + 1
        /\ window[m + 1] = x /\ \A i \in 1 .. m : window[i] = w[i]
    BY <1>1
  <1> HIDE DEF window, m
  <1>3. CASE m + 1 > NumBuckets
    <2>1. m = NumBuckets /\ m > 0
      BY <1>1, <1>3
    <2>2. kept = Tail(window)
      BY <1>2, <1>3
    <2>3. /\ Tail(window) \in Seq(0 .. One) /\ Len(Tail(window)) = m
          /\ \A i \in 1 .. m : Tail(window)[i] = window[i + 1]
      <3>1. Len(window) > 0
        BY <1>1, <1>2
      <3> QED
        BY <1>1, <1>2, <3>1
    <2> HIDE DEF kept
    <2>4. \A i \in 1 .. m : kept[i] = Imbalance(M, (f + 1) - m + i)
      <3> TAKE i \in 1 .. m
      <3>1. CASE i = m
        <4>1. kept[i] = x /\ (f + 1) - m + i = f + 1
          BY <1>1, <1>2, <2>2, <2>3, <3>1
        <4> QED
          BY <4>1
      <3>2. CASE i # m
        <4>1. i + 1 \in 1 .. m /\ (f + 1) - m + i = f - m + (i + 1)
          BY <1>1, <3>2
        <4>2. kept[i] = w[i + 1]
          BY <1>2, <2>2, <2>3, <4>1
        <4> QED
          BY <1>1, <4>1, <4>2
      <3> QED
        BY <3>1, <3>2
    <2>5. Len(kept) = m /\ kept \in Seq(0 .. One)
      BY <2>2, <2>3
    <2>6. m = IF f + 1 < NumBuckets THEN f + 1 ELSE NumBuckets
      BY <1>1, <2>1
    <2>7. Window(M, f + 1, kept) /\ Len(kept) \in Nat /\ Len(kept) > 0
      BY <1>1, <2>1, <2>4, <2>5, <2>6 DEF Window
    <2> QED
      BY <2>7 DEF kept, window
  <1>4. CASE ~ (m + 1 > NumBuckets)
    <2>1. m = f /\ m + 1 = IF f + 1 < NumBuckets THEN f + 1 ELSE NumBuckets
      BY <1>1, <1>4
    <2>2. kept = window
      BY <1>2, <1>4
    <2> HIDE DEF kept
    <2>3. \A i \in 1 .. m + 1 : window[i] = Imbalance(M, (f + 1) - (m + 1) + i)
      <3> TAKE i \in 1 .. m + 1
      <3>1. CASE i = m + 1
        <4>1. window[i] = x /\ (f + 1) - (m + 1) + i = f + 1
          BY <1>1, <1>2, <2>1, <3>1
        <4> QED
          BY <4>1
      <3>2. CASE i # m + 1
        <4>1. i \in 1 .. m /\ (f + 1) - (m + 1) + i = f - m + i
          BY <1>1, <3>2
        <4> QED
          BY <1>1, <1>2, <4>1
      <3> QED
        BY <3>1, <3>2
    <2>4. Len(kept) = m + 1 /\ kept \in Seq(0 .. One) /\ m + 1 \in Nat /\ m + 1 > 0
      BY <1>1, <1>2, <2>2
    <2>5. Window(M, f + 1, kept) /\ Len(kept) \in Nat /\ Len(kept) > 0
      BY <2>1, <2>2, <2>3, <2>4 DEF Window
    <2> QED
      BY <2>5 DEF kept, window
  <1> QED
    BY <1>3, <1>4

\* The mean of the window, in the code's arithmetic.
LEMMA MeanIs ==
    ASSUME RoomForTrades, Scale < Half, NEW w \in Seq(0 .. One), Len(w) > 0
    PROVE  Div(SumFunction(w), FromInt(Len(w))) = SumFunction(w) \div Len(w)
  <1> DEFINE x == SumFunction(w)
             n == Len(w)
             y == n * Scale
  <1>1. One = Scale /\ Scale \in Nat /\ Scale > 0 /\ n \in Nat /\ n > 0
    BY BucketType
  <1>2. x \in Nat /\ x <= n * One
    BY <1>1, SumOfFractions
  <1> HIDE DEF x, n
  <1>3. y \in Nat /\ y > 0
    <2>1. \A j, k \in Nat : j > 0 /\ k > 0 => j * k \in Nat /\ j * k > 0
      OBVIOUS
    <2> QED
      BY <1>1, <2>1
  <1>4. x * Scale <= Scale * y
    <2>1. x <= y
      BY <1>1, <1>2
    <2> HIDE DEF y
    <2>2. x * Scale <= y * Scale
      BY <1>1, <1>2, <1>3, <2>1, Larger
    <2> QED
      BY <1>1, <1>2, <1>3, <2>2
  <1>5. Div(x, y) = (x * Scale) \div y
    <2> HIDE DEF y
    <2> QED
      BY <1>1, <1>2, <1>3, <1>4, DivBound
  <1>6. (x * Scale) \div y = x \div n
    BY <1>1, <1>2, QuotientCancels
  <1> QED
    BY <1>5, <1>6 DEF x, n, FromInt

\* The imbalance of a full bucket, in the code's arithmetic.
LEMMA ImbalanceIs ==
    ASSUME RoomForTrades, Scale < Half, NEW b \in Nat, NEW c \in Nat, b + c = BucketSize,
           NEW d \in Int, b - c = Scale * d
    PROVE  LET x == Div(Magnitude(b - c), BucketSize)
           IN  x \in 0 .. One /\ x = (Magnitude(d) * Scale) \div BucketLots
  <1> DEFINE m == Magnitude(b - c)
             k == Magnitude(d)
             x == Div(m, BucketSize)
  <1>1. /\ BucketSize \in Nat /\ BucketSize > 0 /\ One = Scale /\ Scale \in Nat /\ Scale > 0
        /\ BucketLots \in Nat /\ BucketLots > 0 /\ BucketSize = BucketLots * Scale
    BY BucketType, TickSignalsAssumption DEF BucketSize, FromInt
  <1>2. m \in Nat /\ m <= BucketSize
    BY <1>1 DEF Magnitude
  <1>3. k \in Nat /\ m = k * Scale
    <2>1. CASE d < 0
      <3>1. Scale * d < 0 /\ -(Scale * d) = (-d) * Scale
        <4>1. \A i, j \in Nat : i > 0 /\ j > 0 => i * j > 0
          OBVIOUS
        <4>2. Scale * (-d) > 0 /\ Scale * (-d) = -(Scale * d)
          BY <1>1, <2>1, <4>1
        <4>3. Scale * (-d) = (-d) * Scale /\ Scale * d \in Int
          BY <1>1
        <4> QED
          BY <4>2, <4>3
      <3>2. k = -d /\ m = -(Scale * d)
        BY <2>1, <3>1 DEF Magnitude
      <3> QED
        BY <2>1, <3>1, <3>2
    <2>2. CASE d >= 0
      <3>1. Scale * d >= 0 /\ Scale * d = d * Scale
        BY <1>1, <2>2
      <3>2. k = d /\ m = Scale * d
        BY <2>2, <3>1 DEF Magnitude
      <3> QED
        BY <2>2, <3>1, <3>2
    <2> QED
      BY <2>1, <2>2
  <1> HIDE DEF m, k
  <1>4. m * Scale <= Scale * BucketSize
    <2>1. m * Scale <= BucketSize * Scale /\ BucketSize * Scale = Scale * BucketSize
      BY <1>1, <1>2, Larger
    <2> QED
      BY <2>1
  <1>5. x \in 0 .. Scale /\ x = (m * Scale) \div BucketSize
    BY <1>1, <1>2, <1>4, DivBound
  <1>6. (m * Scale) \div BucketSize = (k * Scale) \div BucketLots
    <2> DEFINE z == k * Scale
    <2>1. z \in Nat /\ m * Scale = z * Scale
      BY <1>1, <1>3
    <2> HIDE DEF z
    <2>2. (z * Scale) \div (BucketLots * Scale) = z \div BucketLots
      BY <1>1, <2>1, QuotientCancels
    <2> QED
      BY <1>1, <2>1, <2>2 DEF z
  <1> QED
    BY <1>1, <1>5, <1>6 DEF m, k

\* A bucket that is full is closed (the last part of VpinSignal::update's loop).
LEMMA CloseIs ==
    ASSUME RoomForTrades, Scale < Half, NEW M, NEW f \in Nat, NEW s,
           s = [last |-> s.last, buy |-> s.buy, sell |-> s.sell, fill |-> s.fill,
                imbalances |-> s.imbalances, vpin |-> s.vpin],
           s.buy \in Nat, s.sell \in Nat, s.buy + s.sell = BucketSize,
           NEW n, n = f * BucketLots + BucketLots,
           Span(M, f * BucketLots + 1, n) \in Int,
           s.buy - s.sell = Scale * Span(M, f * BucketLots + 1, n),
           Window(M, f, s.imbalances)
    PROVE  VpinAt(M, n, f + 1, CloseBucket(s))
  <1> DEFINE x == Div(Magnitude(s.buy - s.sell), BucketSize)
             d == Span(M, f * BucketLots + 1, n)
             window == Append(s.imbalances, x)
             kept == IF Len(window) > NumBuckets THEN Tail(window) ELSE window
             vpin == Div(SumFunction(kept), FromInt(Len(kept)))
             t == CloseBucket(s)
  <1>1. /\ BucketLots \in Nat /\ BucketLots > 0 /\ NumBuckets \in Nat /\ NumBuckets > 0
        /\ Scale \in Nat
    BY BucketType, TickSignalsAssumption
  <1>2. /\ (f + 1) * BucketLots = n /\ (f + 1) - 1 = f /\ n \in Nat
        /\ f * BucketLots + 1 \in Nat
    BY <1>1
  <1>3. x \in 0 .. One /\ x = (Magnitude(d) * Scale) \div BucketLots
    BY ImbalanceIs
  <1>4. x = Imbalance(M, f + 1)
    BY <1>2, <1>3 DEF Imbalance, BucketOf, Span
  <1> HIDE DEF x
  <1>5. Window(M, f + 1, kept) /\ Len(kept) \in Nat /\ Len(kept) > 0
    BY <1>1, <1>3, <1>4, WindowMoves
  <1>6. t = [s EXCEPT !.buy = 0, !.sell = 0, !.fill = 0, !.imbalances = kept, !.vpin = Some(vpin)]
    BY DEF CloseBucket, x
  <1> HIDE DEF kept
  <1>7. vpin = SumFunction(kept) \div Len(kept)
    <2>1. kept \in Seq(0 .. One)
      BY <1>5 DEF Window
    <2> QED
      BY <1>5, <2>1, MeanIs
  <1> HIDE DEF vpin, t
  <1>8. t = [last |-> s.last, buy |-> 0, sell |-> 0, fill |-> 0,
             imbalances |-> kept, vpin |-> Some(vpin)]
    BY <1>6
  <1>9. Span(M, (f + 1) * BucketLots + 1, n) = 0
    <2>1. (f + 1) * BucketLots + 1 .. n = {}
      BY <1>2
    <2> QED
      BY <2>1, SumOfNone DEF Span
  <1>10. /\ t.last = s.last /\ t.buy = 0 /\ t.sell = 0 /\ t.fill = 0
         /\ t.imbalances = kept /\ t.vpin = Some(vpin)
    BY <1>8
  <1>11. t = [last |-> t.last, buy |-> t.buy, sell |-> t.sell, fill |-> t.fill,
              imbalances |-> t.imbalances, vpin |-> t.vpin]
    BY <1>8
  <1>12. /\ (f + 1) * BucketLots <= n /\ n < (f + 1) * BucketLots + BucketLots
         /\ Scale * (n - (f + 1) * BucketLots) = 0
    BY <1>1, <1>2
  <1>13. Scale * Span(M, (f + 1) * BucketLots + 1, n) = 0 /\ 0 - 0 = 0 /\ 0 + 0 = 0 /\ 0 \in Nat
    BY <1>1, <1>9
  <1>14. f + 1 # 0
    OBVIOUS
  <1>15. VpinAt(M, n, f + 1, t)
    BY <1>5, <1>7, <1>10, <1>11, <1>12, <1>13, <1>14 DEF VpinAt
  <1> QED
    BY <1>15 DEF t

\* The same for every part of these lots.
LEMMA SpanOfPart ==
    ASSUME NEW N \in Nat, NEW M, Numbers(M, 1, N),
           NEW low \in Nat, low > 0, NEW n \in Nat, low <= n + 1,
           NEW end \in Nat, end <= N, NEW from, from = n + 1,
           NEW x \in Int, AllAre(M, from, end, x)
    PROVE  \A m \in n .. end : /\ Span(M, low, n) \in Int
                               /\ Span(M, low, m) = Span(M, low, n) + (m - n) * x
  <1> TAKE m \in n .. end
  <1>1. m \in Nat /\ n <= m /\ m <= N
    OBVIOUS
  <1>2. AllAre(M, from, m, x)
    BY DEF AllAre
  <1> QED
    BY <1>1, <1>2, SpanOfSame

\* A pass has filled buckets with the lots up to one of from .. end, and left the
\* rest.
Passed(M, from, end, y) ==
    \E m \in from .. end, g \in Nat :
        VpinAt(M, m, g, y.signal) /\ y.left = Scale * (end - m)

\* One pass of the loop takes one lot or more of what is left, as far as the
\* bucket is full.
LEMMA PassIs ==
    ASSUME RoomForTrades, Scale < Half, NEW end \in Nat, NEW M, Numbers(M, 1, end),
           NEW n \in Nat, NEW f \in Nat, NEW x, VpinAt(M, n, f, x.signal),
           n < end, x.left = Scale * (end - n), NEW from, from = n + 1,
           NEW buys \in BOOLEAN, NEW a \in Int, a = IF buys THEN 1 ELSE -1,
           AllAre(M, from, end, a)
    PROVE  Passed(M, from, end, FillPass(x, buys))
  <1> SUFFICES \E m \in n + 1 .. end, g \in Nat :
                    /\ VpinAt(M, m, g, FillPass(x, buys).signal)
                    /\ FillPass(x, buys).left = Scale * (end - m)
    BY DEF Passed
  <1> DEFINE c == end - n
             s == x.signal
             left == x.left
             space == BucketSize - s.fill
             filled == IF left < space THEN left ELSE space
             t == [s EXCEPT !.buy = IF buys THEN @ + filled ELSE @,
                            !.sell = IF buys THEN @ ELSE @ + filled,
                            !.fill = @ + filled]
             base == f * BucketLots
             r == n - base
             d == IF c < BucketLots - r THEN c ELSE BucketLots - r
  <1>0. c \in Nat /\ c > 0 /\ end = n + c /\ left = Scale * c
    OBVIOUS
  <1> HIDE DEF c
  <1>1. /\ BucketLots \in Nat /\ BucketLots > 0 /\ Scale \in Nat /\ Scale > 0
        /\ BucketSize = Scale * BucketLots /\ BucketSize \in Nat /\ base \in Nat
        /\ c \in Nat /\ c > 0 /\ end = n + c /\ left = Scale * c
    BY <1>0, BucketType, TickSignalsAssumption DEF BucketSize, FromInt
  <1>2. /\ s = [last |-> s.last, buy |-> s.buy, sell |-> s.sell, fill |-> s.fill,
                imbalances |-> s.imbalances, vpin |-> s.vpin]
        /\ s.buy \in Nat /\ s.sell \in Nat
        /\ base <= n /\ n < base + BucketLots
        /\ s.fill = Scale * r
        /\ s.buy + s.sell = s.fill
        /\ s.buy - s.sell = Scale * Span(M, base + 1, n)
        /\ Window(M, f, s.imbalances)
        /\ s.vpin = IF f = 0 THEN None
                    ELSE Some(SumFunction(s.imbalances) \div Len(s.imbalances))
    BY DEF VpinAt
  <1>3. \A i, j \in Nat : Scale * i < Scale * j <=> i < j
    <2> TAKE i \in Nat, j \in Nat
    <2>1. CASE i < j
      <3>1. (i + 1) * Scale <= j * Scale
        BY <1>1, <2>1, Larger
      <3>2. (i + 1) * Scale = Scale * i + Scale /\ j * Scale = Scale * j
            /\ Scale * i \in Nat /\ Scale * j \in Nat
        BY <1>1
      <3> QED
        BY <1>1, <2>1, <3>1, <3>2
    <2>2. CASE j <= i
      <3>1. j * Scale <= i * Scale
        BY <1>1, <2>2, Larger
      <3>2. i * Scale = Scale * i /\ j * Scale = Scale * j
            /\ Scale * i \in Nat /\ Scale * j \in Nat
        BY <1>1
      <3> QED
        BY <2>2, <3>1, <3>2
    <2> QED
      BY <2>1, <2>2
  <1>4. FillPass(x, buys) = [signal |-> IF t.fill >= BucketSize THEN CloseBucket(t) ELSE t,
                             left |-> left - filled]
    <2>1. left > 0
      <3>1. Scale * 0 < Scale * c /\ Scale * 0 = 0
        BY <1>1, <1>3
      <3>2. Scale * c \in Nat
        BY <1>1
      <3> QED
        BY <1>1, <3>1, <3>2
    <2> QED
      BY <2>1 DEF FillPass, FillBucket
  <1> HIDE DEF base
  <1>5. r \in Nat /\ r < BucketLots /\ BucketLots - r \in Nat /\ BucketLots - r > 0
    BY <1>1, <1>2
  <1>6. n + d \in n + 1 .. end /\ d \in 1 .. c /\ d \in Nat /\ r + d <= BucketLots
    <2> HIDE DEF r, left
    <2>1. d \in 1 .. c /\ d \in Nat /\ r + d <= BucketLots
      BY <1>1, <1>5
    <2>2. n + d \in n + 1 .. end
      <3> HIDE DEF d
      <3> QED
        BY <1>1, <2>1
    <2> QED
      BY <2>1, <2>2
  <1>7. filled = Scale * d
    <2> DEFINE e == BucketLots - r
    <2>1. space = Scale * e
      <3>1. BucketLots = r + e /\ r \in Nat /\ e \in Nat
        BY <1>1, <1>5
      <3> HIDE DEF r, e
      <3>2. Scale * (r + e) = Scale * r + Scale * e
            /\ Scale * r \in Nat /\ Scale * e \in Nat
        BY <1>1, <3>1
      <3> QED
        BY <1>1, <1>2, <3>1, <3>2
    <2>2. left < space <=> c < e
      <3>1. e \in Nat /\ c \in Nat /\ left = Scale * c
        BY <1>1, <1>5
      <3> HIDE DEF e, space, left
      <3> QED
        BY <1>3, <2>1, <3>1
    <2>3. left = Scale * c
      BY <1>1
    <2> HIDE DEF e, space, left
    <2> QED
      BY <2>1, <2>2, <2>3 DEF e
  <1> HIDE DEF r, d, filled
  <1>8. left - filled = Scale * (end - (n + d))
    <2>1. end - (n + d) = c - d
      BY <1>1, <1>6
    <2>2. Scale * (c - d) = Scale * c - Scale * d
      BY <1>1, <1>6
    <2> QED
      BY <1>1, <1>7, <2>1, <2>2
  <1>9. s.fill + filled = Scale * (r + d) /\ filled \in Nat
    BY <1>1, <1>2, <1>5, <1>6, <1>7
  <1> DEFINE b == IF buys THEN s.buy + filled ELSE s.buy
             v == IF buys THEN s.sell ELSE s.sell + filled
             w == s.fill + filled
  <1>10. t = [last |-> s.last, buy |-> b, sell |-> v, fill |-> w,
              imbalances |-> s.imbalances, vpin |-> s.vpin]
    <2>1. t = [s EXCEPT !.buy = b, !.sell = v, !.fill = w]
      OBVIOUS
    <2>2. s = [last |-> s.last, buy |-> s.buy, sell |-> s.sell, fill |-> s.fill,
               imbalances |-> s.imbalances, vpin |-> s.vpin]
      BY <1>2
    <2> HIDE DEF t, b, v, w, s
    <2> QED
      BY ONLY <2>1, <2>2
  <1> HIDE DEF t
  <1>11. b \in Nat /\ v \in Nat /\ b + v = w /\ b - v = (s.buy - s.sell) + a * filled
    <2>1. filled \in Nat /\ s.buy \in Nat /\ s.sell \in Nat /\ s.buy + s.sell = s.fill
      BY <1>2, <1>9
    <2>2. CASE buys
      BY <2>1, <2>2
    <2>3. CASE ~ buys
      BY <2>1, <2>3
    <2> QED
      BY <2>2, <2>3
  <1>12. /\ Span(M, base + 1, n) \in Int
         /\ Span(M, base + 1, n + d) = Span(M, base + 1, n) + d * a
    <2> DEFINE low == base + 1
    <2>1. low \in Nat /\ low > 0 /\ low <= n + 1
      BY <1>1, <1>2
    <2> HIDE DEF low
    <2>2. \A m \in n .. end : /\ Span(M, low, n) \in Int
                              /\ Span(M, low, m) = Span(M, low, n) + (m - n) * a
      BY <2>1, SpanOfPart
    <2>3. n + d \in n .. end /\ (n + d) - n = d
      BY <1>6
    <2> QED
      BY <2>2, <2>3 DEF low
  <1>13. b - v = Scale * Span(M, base + 1, n + d) /\ Span(M, base + 1, n + d) \in Int
    <2> DEFINE y == Span(M, base + 1, n)
    <2>1. a \in Int /\ y \in Int /\ d \in Int
      BY <1>6, <1>12
    <2>2. Scale * (y + d * a) = Scale * y + a * (Scale * d)
      <3> HIDE DEF y
      <3> QED
        BY <1>1, <2>1
    <2>3. s.buy - s.sell = Scale * y
      BY <1>2
    <2> HIDE DEF y, b, v
    <2> QED
      BY <1>7, <1>11, <1>12, <2>1, <2>2, <2>3 DEF y
  <1>14. /\ t.last = s.last /\ t.buy = b /\ t.sell = v /\ t.fill = w
         /\ t.imbalances = s.imbalances /\ t.vpin = s.vpin
         /\ t = [last |-> t.last, buy |-> t.buy, sell |-> t.sell, fill |-> t.fill,
                 imbalances |-> t.imbalances, vpin |-> t.vpin]
    BY <1>10
  <1>15. t.fill >= BucketSize <=> r + d = BucketLots
    <2>1. r + d \in Nat /\ (r + d < BucketLots <=> r + d # BucketLots)
      BY <1>1, <1>5, <1>6
    <2>2. Scale * (r + d) < Scale * BucketLots <=> r + d < BucketLots
      BY <1>1, <1>3, <2>1
    <2>3. Scale * (r + d) \in Nat
      BY <1>1, <2>1
    <2> QED
      BY <1>1, <1>9, <1>14, <2>1, <2>2, <2>3
  <1> HIDE DEF b, v, w, s
  <1>16. CASE r + d = BucketLots
    <2>1. n + d = base + BucketLots
      <3>1. n = base + r /\ r \in Nat
        BY <1>1, <1>2, <1>5 DEF r
      <3> QED
        BY <1>1, <1>6, <1>16, <3>1
    <2>2. t.buy + t.sell = BucketSize
      BY <1>1, <1>9, <1>11, <1>14, <1>16 DEF w
    <2>3. VpinAt(M, n + d, f + 1, CloseBucket(t))
      BY <1>2, <1>11, <1>13, <1>14, <2>1, <2>2, CloseIs DEF base
    <2>4. FillPass(x, buys).signal = CloseBucket(t) /\ FillPass(x, buys).left = Scale * (end - (n + d))
      BY <1>4, <1>8, <1>15, <1>16
    <2>5. f + 1 \in Nat
      OBVIOUS
    <2> QED
      BY <1>6, <2>3, <2>4, <2>5
  <1>17. CASE r + d # BucketLots
    <2>1. base <= n + d /\ n + d < base + BucketLots /\ r + d = (n + d) - base
      <3>1. r + d < BucketLots
        BY <1>1, <1>5, <1>6, <1>17
      <3>2. n = base + r /\ r \in Nat
        BY <1>1, <1>2, <1>5 DEF r
      <3> QED
        BY <1>1, <1>6, <3>1, <3>2
    <2>2. t.fill = Scale * ((n + d) - base)
      BY <1>9, <1>14, <2>1 DEF w
    <2>3. VpinAt(M, n + d, f, t)
      BY <1>2, <1>11, <1>13, <1>14, <2>1, <2>2 DEF VpinAt, base
    <2>4. FillPass(x, buys).signal = t /\ FillPass(x, buys).left = Scale * (end - (n + d))
      BY <1>4, <1>8, <1>15, <1>17
    <2> QED
      BY <1>6, <2>3, <2>4
  <1> QED
    BY <1>16, <1>17

\* The first n lots of two sequences are the same numbers.
SameLots(L, M, n) == \A i \in 1 .. n : L[i] \in Int /\ L[i] = M[i]

\* More lots do not change what the first ones filled.
LEMMA AtPrefix ==
    ASSUME RoomForTrades, NEW n \in Nat, NEW L, NEW M, SameLots(L, M, n),
           NEW f \in Nat, NEW s, VpinAt(L, n, f, s)
    PROVE  VpinAt(M, n, f, s)
  <1> DEFINE base == f * BucketLots
  <1>1. BucketLots \in Nat /\ BucketLots > 0 /\ NumBuckets \in Nat /\ NumBuckets > 0
    BY BucketType, TickSignalsAssumption
  <1>2. base \in Nat /\ base <= n
    BY <1>1 DEF VpinAt
  <1>3. ASSUME NEW i \in Nat, i > 0, NEW j \in Nat, j <= n
        PROVE  SumFunctionOnSet(L, i .. j) = SumFunctionOnSet(M, i .. j)
    <2>1. IsFiniteSet(i .. j)
      BY FS_Interval
    <2>2. \A k \in i .. j : L[k] \in Int /\ L[k] = M[k]
      BY <1>3 DEF SameLots
    <2> QED
      BY <2>1, <2>2, SumSame
  <1>4. Span(L, base + 1, n) = Span(M, base + 1, n)
    <2>1. base + 1 \in Nat /\ base + 1 > 0 /\ n <= n
      BY <1>2
    <2> HIDE DEF base
    <2> QED
      BY <1>3, <2>1 DEF Span
  <1>5. ASSUME NEW k \in Nat, k > 0, k <= f
        PROVE  Imbalance(L, k) = Imbalance(M, k)
    <2> DEFINE i == (k - 1) * BucketLots + 1
               j == k * BucketLots
    <2>1. j \in Nat /\ j <= n
      <3>1. k * BucketLots <= f * BucketLots
        BY <1>1, <1>5, Larger
      <3>2. k * BucketLots \in Nat
        BY <1>1
      <3> QED
        BY <1>2, <3>1, <3>2
    <2>2. i \in Nat /\ i > 0
      <3>1. k - 1 \in Nat
        BY <1>5
      <3>2. (k - 1) * BucketLots \in Nat
        BY <1>1, <3>1
      <3> QED
        BY <3>2
    <2> HIDE DEF i, j
    <2>3. SumFunctionOnSet(L, i .. j) = SumFunctionOnSet(M, i .. j)
      BY <1>3, <2>1, <2>2
    <2> QED
      BY <2>3 DEF Imbalance, BucketOf, i, j
  <1>6. Window(L, f, s.imbalances)
    BY DEF VpinAt
  <1> DEFINE w == s.imbalances
             m == Len(w)
  <1>7. /\ w \in Seq(0 .. One) /\ m = IF f < NumBuckets THEN f ELSE NumBuckets
        /\ \A i \in 1 .. m : w[i] = Imbalance(L, f - m + i)
    BY <1>6 DEF Window
  <1> HIDE DEF w
  <1>8. m \in Nat /\ m <= f
    BY <1>1, <1>7
  <1>9. \A i \in 1 .. m : w[i] = Imbalance(M, f - m + i)
    <2> TAKE i \in 1 .. m
    <2> DEFINE k == f - m + i
    <2>1. k \in Nat /\ k > 0 /\ k <= f
      BY <1>8
    <2>2. w[i] = Imbalance(L, k)
      BY <1>7
    <2> HIDE DEF k
    <2>3. w[i] = Imbalance(M, k)
      BY <1>5, <2>1, <2>2
    <2> QED
      BY <2>3 DEF k
  <1>10. Window(M, f, w)
    BY <1>7, <1>9 DEF Window
  <1>11. Window(M, f, s.imbalances)
    BY <1>10 DEF w
  <1> QED
    BY <1>4, <1>11 DEF VpinAt

\* The passes over a trade take its lots, all bought or all sold.
LEMMA PassesFill ==
    ASSUME RoomForTrades, Scale < Half, NEW end \in Nat, NEW M, Numbers(M, 1, end),
           NEW n \in Nat, n <= end, NEW f \in Nat, NEW start,
           VpinAt(M, n, f, start.signal), start.left = Scale * (end - n),
           NEW from, from = n + 1,
           NEW buys \in BOOLEAN, NEW a \in Int, a = IF buys THEN 1 ELSE -1,
           AllAre(M, from, end, a),
           NEW passes, DOMAIN passes = 1 .. end - n,
           \A k \in 1 .. end - n : passes[k] = buys
    PROVE  \E g \in Nat : VpinAt(M, end, g, FoldLeft(FillPass, start, passes).signal)
  <1> DEFINE c == end - n
             At(x, m) == /\ m \in n .. end /\ x.left = Scale * (end - m)
                         /\ \E g \in Nat : VpinAt(M, m, g, x.signal)
  <1>1. c \in Nat /\ n + c = end /\ DOMAIN passes = 1 .. c
        /\ \A k \in 1 .. c : passes[k] = buys
    OBVIOUS
  <1>2. FoldLeft(FillPass, start, passes) = P!Fold(start, passes)
    BY DEF P!Fold, P!FoldLeft, FoldLeft, MapThenFoldSet, P!MapThenFoldSet, Max, P!Max
  <1> HIDE DEF c
  <1>3. PICK v : P!Iterates(v, start, passes, c) /\ P!Fold(start, passes) = v[c]
    BY <1>1, P!FoldIterates
  <1>4. Scale \in Nat /\ Scale > 0
    BY BucketType
  <1>5. ASSUME NEW x, NEW m, At(x, m)
        PROVE  \E k \in n .. end : /\ k > m \/ k = end
                                   /\ At(FillPass(x, buys), k)
    <2>1. PICK g \in Nat : VpinAt(M, m, g, x.signal)
      BY <1>5
    <2>2. m \in n .. end /\ m \in Nat /\ x.left = Scale * (end - m)
      BY <1>5
    <2>3. CASE m = end
      <3>1. x.left = 0
        BY <1>4, <2>2, <2>3
      <3>2. FillPass(x, buys) = x
        BY <3>1 DEF FillPass
      <3> QED
        BY <1>5, <2>2, <2>3, <3>2
    <2>4. CASE m < end
      <3> DEFINE next == m + 1
      <3>1. next = m + 1 /\ AllAre(M, next, end, a)
        BY <2>2 DEF AllAre
      <3> HIDE DEF next, At
      <3>2. Passed(M, next, end, FillPass(x, buys))
        <4>1. /\ RoomForTrades /\ Scale < Half /\ end \in Nat /\ Numbers(M, 1, end)
              /\ m \in Nat /\ m < end /\ buys \in BOOLEAN
              /\ a \in Int /\ a = IF buys THEN 1 ELSE -1
          BY <2>2, <2>4
        <4> QED
          BY ONLY <2>1, <2>2, <3>1, <4>1, PassIs
      <3>3. PICK k \in m + 1 .. end, h \in Nat :
               /\ VpinAt(M, k, h, FillPass(x, buys).signal)
               /\ FillPass(x, buys).left = Scale * (end - k)
        BY <3>1, <3>2 DEF Passed
      <3>4. k \in n .. end /\ k > m
        BY <2>2
      <3>5. At(FillPass(x, buys), k)
        BY <3>3, <3>4 DEF At
      <3> QED
        BY <3>4, <3>5
    <2> QED
      BY <2>2, <2>3, <2>4
  <1> HIDE DEF At
  <1> DEFINE N == {k \in Nat : k <= c =>
                        \E m \in n .. end : m >= n + k /\ At(v[k], m)}
  <1>6. 0 \in N
    <2>1. At(v[0], n) /\ n \in n .. end
      BY <1>3 DEF P!Iterates, At
    <2>2. n >= n + 0
      OBVIOUS
    <2> QED
      BY <2>1, <2>2
  <1>7. ASSUME NEW k \in N PROVE k + 1 \in N
    <2> SUFFICES ASSUME k + 1 <= c PROVE \E m \in n .. end : m >= n + (k + 1) /\ At(v[k + 1], m)
      OBVIOUS
    <2>1. k \in 0 .. c - 1 /\ k + 1 \in 1 .. c /\ k <= c /\ k \in Nat
      BY <1>1
    <2>2. v[k + 1] = FillPass(v[k], buys)
      BY <1>1, <1>3, <2>1 DEF P!Iterates
    <2>3. PICK m \in n .. end : m >= n + k /\ At(v[k], m)
      BY <2>1
    <2>4. PICK j \in n .. end : (j > m \/ j = end) /\ At(FillPass(v[k], buys), j)
      BY <1>5, <2>3
    <2>5. j >= n + (k + 1)
      BY <1>1, <2>1, <2>3, <2>4
    <2> QED
      BY <2>2, <2>4, <2>5
  <1>8. N = Nat
    <2> HIDE DEF N
    <2>1. N \in SUBSET Nat
      BY DEF N
    <2> QED
      BY <1>6, <1>7, <2>1, NaturalsByInduction
  <1>9. c \in N /\ c <= c
    BY <1>1, <1>8
  <1>10. PICK m \in n .. end : m >= n + c /\ At(v[c], m)
    BY <1>9
  <1>11. m = end
    BY <1>1, <1>10
  <1> QED
    BY <1>2, <1>3, <1>10, <1>11 DEF At

\* Signal s has cut the lots of the trades q into buckets.
VpinFacts(q, s) ==
    /\ s.last = LastOf(q)
    /\ \E f \in Nat : VpinAt(SignedLots(q), Len(SignedLots(q)), f, s)

\* No trades fill no bucket.
LEMMA VpinStarts ==
    ASSUME RoomForTrades
    PROVE  VpinFacts(<<>>, VpinInit)
  <1> DEFINE s == VpinInit
  <1>1. /\ s = [last |-> None, buy |-> 0, sell |-> 0, fill |-> 0,
                imbalances |-> <<>>, vpin |-> None]
    BY DEF VpinInit
  <1>2. /\ s.last = None /\ s.buy = 0 /\ s.sell = 0 /\ s.fill = 0
        /\ s.imbalances = <<>> /\ s.vpin = None
    BY <1>1
  <1>3. s = [last |-> s.last, buy |-> s.buy, sell |-> s.sell, fill |-> s.fill,
             imbalances |-> s.imbalances, vpin |-> s.vpin]
    BY <1>1
  <1> HIDE DEF s
  <1>4. SignedLots(<<>>) = <<>> /\ Len(<<>>) = 0 /\ LastOf(<<>>) = None
    BY LotsOfNone DEF LastOf
  <1>5. /\ BucketLots \in Nat /\ BucketLots > 0 /\ NumBuckets \in Nat /\ NumBuckets > 0
        /\ Scale \in Nat
    BY BucketType, TickSignalsAssumption
  <1>6. 0 * BucketLots = 0 /\ 0 <= 0 /\ 0 < 0 + BucketLots /\ Scale * 0 = 0
    BY <1>5
  <1>7. Span(<<>>, 1, 0) = 0
    <2>1. 1 .. 0 = {}
      OBVIOUS
    <2> QED
      BY <2>1, SumOfNone DEF Span
  <1>8. Window(<<>>, 0, <<>>)
    <2>1. <<>> \in Seq(0 .. One) /\ Len(<<>>) = 0 /\ \A i \in 1 .. 0 : FALSE
      OBVIOUS
    <2> QED
      BY <1>5, <2>1 DEF Window
  <1>9. VpinAt(<<>>, 0, 0, s)
    <2>1. s.fill = Scale * (0 - 0 * BucketLots) /\ s.buy + s.sell = s.fill
          /\ s.buy \in Nat /\ s.sell \in Nat
      BY <1>2, <1>6
    <2>2. s.buy - s.sell = Scale * Span(<<>>, 0 * BucketLots + 1, 0)
      BY <1>2, <1>6, <1>7
    <2> QED
      BY <1>2, <1>3, <1>6, <1>8, <2>1, <2>2 DEF VpinAt
  <1>10. 0 \in Nat
    OBVIOUS
  <1> QED
    BY <1>2, <1>4, <1>9, <1>10 DEF VpinFacts, s

\* A trade fills its lots into the buckets (VpinSignal::update).
LEMMA VpinTrade ==
    ASSUME RoomForTrades, NEW q \in Seq(Trades), NEW e \in Trades, NEW s, VpinFacts(q, s)
    PROVE  VpinFacts(Append(q, e), Vpin(s, e))
  <1> DEFINE L == SignedLots(q)
             M == SignedLots(Append(q, e))
             n == Len(L)
             end == Len(M)
             from == n + 1
             buys == IsBuy(s.last, e)
             a == IF buys THEN 1 ELSE -1
             m == e.quantity
             passes == [lot \in 1 .. m |-> buys]
             start == [signal |-> s, left |-> Qty(e)]
             done == FoldLeft(FillPass, start, passes)
  <1>1. /\ m \in Nat /\ buys \in BOOLEAN /\ Qty(e) = Scale * m
    BY TradeType, TradeNumbers DEF IsBuy, Has
  <1>2. PICK f \in Nat : VpinAt(L, n, f, s)
    BY DEF VpinFacts
  <1>3. s.last = LastOf(q)
    BY DEF VpinFacts
  <1>4. /\ L \in Seq({-1, 1}) /\ M \in Seq({-1, 1}) /\ Len(M) = Len(L) + m
        /\ \A i \in 1 .. Len(L) : M[i] = L[i]
        /\ \A i \in Len(L) + 1 .. Len(M) : M[i] = a
    BY <1>3, LotsGrow
  <1> HIDE DEF L, M
  <1>5. n \in Nat /\ end \in Nat /\ end = n + m /\ end - n = m /\ n <= end
    BY <1>1, <1>4
  <1>6. SameLots(L, M, n)
    <2>1. \A i \in 1 .. Len(L) : L[i] \in {-1, 1}
      BY <1>4
    <2>2. \A i \in {-1, 1} : i \in Int
      OBVIOUS
    <2> QED
      BY <1>4, <2>1, <2>2 DEF SameLots
  <1>7. Numbers(M, 1, end)
    <2>1. \A i \in 1 .. Len(M) : M[i] \in {-1, 1}
      BY <1>4
    <2>2. \A i \in {-1, 1} : i \in Int
      OBVIOUS
    <2> QED
      BY <2>1, <2>2 DEF Numbers
  <1>8. AllAre(M, from, end, a)
    BY <1>4 DEF AllAre
  <1> HIDE DEF n, end
  <1>9. VpinAt(M, n, f, s)
    BY <1>2, <1>5, <1>6, AtPrefix
  <1>10. start.signal = s /\ start.left = Scale * (end - n) /\ from = n + 1
    BY <1>1, <1>5
  <1>11. DOMAIN passes = 1 .. end - n /\ \A k \in 1 .. end - n : passes[k] = buys
    BY <1>5
  <1>12. a \in Int /\ a = IF buys THEN 1 ELSE -1
    OBVIOUS
  <1> HIDE DEF start, passes, buys, a, from, m
  <1>13. \E g \in Nat : VpinAt(M, end, g, FoldLeft(FillPass, start, passes).signal)
    <2>1. Scale < Half
      BY Weights
    <2>2. VpinAt(M, n, f, start.signal)
      BY <1>9, <1>10
    <2> QED
      BY ONLY RoomForTrades, <1>1, <1>2, <1>5, <1>7, <1>8, <1>10, <1>11, <1>12, <2>1, <2>2, PassesFill
  <1>14. PICK g \in Nat : VpinAt(M, end, g, done.signal)
    BY <1>13
  <1>15. Vpin(s, e) = [done.signal EXCEPT !.last = Some(e.price)]
    BY DEF Vpin, passes, start, buys, m
  <1> DEFINE x == done.signal
             t == [x EXCEPT !.last = Some(e.price)]
  <1>16. VpinAt(M, end, g, x)
    BY <1>14
  <1> HIDE DEF x
  <1>17. t = [last |-> Some(e.price), buy |-> x.buy, sell |-> x.sell, fill |-> x.fill,
              imbalances |-> x.imbalances, vpin |-> x.vpin]
    <2>1. x = [last |-> x.last, buy |-> x.buy, sell |-> x.sell, fill |-> x.fill,
               imbalances |-> x.imbalances, vpin |-> x.vpin]
      BY <1>16 DEF VpinAt
    <2> QED
      BY <2>1
  <1> HIDE DEF t
  <1>18. /\ t.last = Some(e.price) /\ t.buy = x.buy /\ t.sell = x.sell /\ t.fill = x.fill
         /\ t.imbalances = x.imbalances /\ t.vpin = x.vpin
         /\ t = [last |-> t.last, buy |-> t.buy, sell |-> t.sell, fill |-> t.fill,
                 imbalances |-> t.imbalances, vpin |-> t.vpin]
    BY <1>17
  <1>19. VpinAt(M, end, g, t)
    BY <1>16, <1>18 DEF VpinAt
  <1>20. LastOf(Append(q, e)) = Some(e.price)
    <2>1. Len(Append(q, e)) = Len(q) + 1 /\ Append(q, e)[Len(q) + 1] = e /\ Len(q) \in Nat
      OBVIOUS
    <2> QED
      BY <2>1 DEF LastOf
  <1>21. Vpin(s, e) = t
    BY <1>15 DEF t, x
  <1> QED
    BY <1>18, <1>19, <1>20, <1>21 DEF VpinFacts, M, end

\* Where the numbers are does not matter for their sum.
LEMMA SumShifts ==
    ASSUME NEW w, NEW h, NEW m \in Nat, NEW low \in Nat, low > 0,
           NEW high, high = low - 1 + m,
           \A i \in 1 .. m : w[i] \in Int /\ h[low - 1 + i] = w[i]
    PROVE  SumFunctionOnSet(w, 1 .. m) = SumFunctionOnSet(h, low .. high)
  <1> DEFINE b == low - 1
  <1>0. /\ b \in Nat /\ low = b + 1 /\ high = b + m
        /\ \A i \in 1 .. m : w[i] \in Int /\ h[b + i] = w[i]
    OBVIOUS
  <1> HIDE DEF b
  <1> DEFINE S == {k \in Nat : k <= m =>
                    SumFunctionOnSet(w, 1 .. k) = SumFunctionOnSet(h, b + 1 .. b + k)}
  <1>1. 0 \in S
    <2>1. 1 .. 0 = {} /\ b + 1 .. b + 0 = {}
      BY <1>0
    <2> QED
      BY <2>1, SumOfNone
  <1>2. ASSUME NEW k \in S PROVE k + 1 \in S
    <2> SUFFICES ASSUME k + 1 <= m
                 PROVE  SumFunctionOnSet(w, 1 .. k + 1) = SumFunctionOnSet(h, b + 1 .. b + (k + 1))
      OBVIOUS
    <2> DEFINE I == 1 .. k
               J == b + 1 .. b + k
               x == k + 1
               y == b + (k + 1)
    <2>1. k \in Nat /\ SumFunctionOnSet(w, I) = SumFunctionOnSet(h, J)
      OBVIOUS
    <2>2. IsFiniteSet(I) /\ IsFiniteSet(J)
      BY <1>0, <2>1, FS_Interval
    <2>3. /\ x \notin I /\ 1 .. x = I \cup {x} /\ y \notin J /\ b + 1 .. y = J \cup {y}
          /\ h[y] = w[x]
      BY <1>0, <2>1
    <2>4. \A i \in I \cup {x} : w[i] \in Int
      BY <1>0, <2>1
    <2>5. \A j \in J \cup {y} : h[j] \in Int
      <3> TAKE j \in J \cup {y}
      <3> DEFINE i == j - b
      <3>1. i \in 1 .. m /\ j = b + i
        BY <1>0, <2>1
      <3> HIDE DEF i, J, y
      <3> QED
        BY <1>0, <3>1
    <2> HIDE DEF I, J, x, y
    <2>6. SumFunctionOnSet(w, I \cup {x}) = SumFunctionOnSet(w, I) + w[x]
      BY <2>2, <2>3, <2>4, SumAdds
    <2>7. SumFunctionOnSet(h, J \cup {y}) = SumFunctionOnSet(h, J) + h[y]
      BY <2>2, <2>3, <2>5, SumAdds
    <2>8. SumFunctionOnSet(w, 1 .. x) = SumFunctionOnSet(h, b + 1 .. y)
      BY <2>1, <2>3, <2>6, <2>7
    <2> QED
      BY <2>8 DEF x, y
  <1>3. S = Nat
    <2> HIDE DEF S
    <2>1. S \in SUBSET Nat
      BY DEF S
    <2> QED
      BY <1>1, <1>2, <2>1, NaturalsByInduction
  <1>4. m \in S /\ m <= m
    <2> HIDE DEF S
    <2> QED
      BY <1>3
  <1> QED
    BY ONLY <1>0, <1>4

\* The lots of the session are those of the trades it saw.
LEMMA SessionLots ==
    ASSUME SessionOK
    PROVE  FlattenSeq([i \in DOMAIN Seen |->
                    [k \in 1 .. tape[i].quantity |-> Aggressor(i)]]) = SignedLots(Seen)
  <1>1. DOMAIN Seen = 1 .. Len(Seen)
    BY SeenIs
  <1>2. ASSUME NEW i \in 1 .. Len(Seen)
        PROVE  [k \in 1 .. tape[i].quantity |-> Aggressor(i)] = TradeLots(Seen, i)
    <2>1. Seen[i] = tape[i] /\ Move(i) = MoveIn(Seen, i)
      BY SeenIs
    <2>2. Aggressor(i) = AggressorIn(Seen, i)
      BY <2>1 DEF Aggressor, AggressorIn
    <2> QED
      BY <2>1, <2>2 DEF TradeLots
  <1>3. [i \in DOMAIN Seen |-> [k \in 1 .. tape[i].quantity |-> Aggressor(i)]]
          = [i \in 1 .. Len(Seen) |-> TradeLots(Seen, i)]
    BY <1>1, <1>2
  <1> QED
    BY <1>3 DEF SignedLots

\* Every lot is bought or sold.
LEMMA LotsAreSigns ==
    ASSUME NEW q \in Seq(Trades)
    PROVE  SignedLots(q) \in Seq({-1, 1})
  <1>1. CASE Len(q) = 0
    <2>1. q = <<>>
      BY <1>1
    <2>2. SignedLots(q) = <<>>
      BY <2>1, LotsOfNone
    <2> QED
      BY <2>2
  <1>2. CASE Len(q) # 0
    <2> DEFINE p == Front(q)
               e == q[Len(q)]
    <2>1. p \in Seq(Trades) /\ e \in Trades /\ q = Append(p, e)
      BY <1>2 DEF Front
    <2> HIDE DEF p, e
    <2> QED
      BY <2>1, LotsGrow
  <1> QED
    BY <1>1, <1>2

\* The last full buckets are a window of them.
LEMMA KeptIs ==
    ASSUME NEW f \in Nat, NumBuckets \in Nat, NumBuckets > 0,
           NEW m, m = IF f < NumBuckets THEN f ELSE NumBuckets
    PROVE  LET kept == {k \in 1 .. f : k > f - NumBuckets}
           IN  /\ m \in Nat /\ m <= f
               /\ kept = (f - m) + 1 .. (f - m) + m
               /\ Cardinality(kept) = m
  <1> DEFINE kept == {k \in 1 .. f : k > f - NumBuckets}
             b == f - m
  <1>1. m \in Nat /\ m <= f /\ b \in Nat
    OBVIOUS
  <1>2. kept = b + 1 .. b + m
    <2>1. ASSUME NEW k \in Int PROVE k \in kept <=> k \in b + 1 .. b + m
      OBVIOUS
    <2>2. \A k \in kept : k \in Int
      OBVIOUS
    <2>3. \A k \in b + 1 .. b + m : k \in Int
      OBVIOUS
    <2> HIDE DEF kept
    <2> QED
      BY <2>1, <2>2, <2>3
  <1> HIDE DEF b, kept
  <1>3. Cardinality(b + 1 .. b + m) = m
    <2> DEFINE i == b + 1
               j == b + m
    <2>1. i \in Int /\ j \in Int /\ (i > j => m = 0) /\ (~ (i > j) => j - i + 1 = m)
      BY <1>1
    <2> HIDE DEF i, j
    <2>2. Cardinality(i .. j) = IF i > j THEN 0 ELSE j - i + 1
      BY <2>1, FS_Interval
    <2> QED
      BY <2>1, <2>2 DEF i, j
  <1> QED
    BY <1>1, <1>2, <1>3 DEF b, kept

\* What the facts say of VPIN.
LEMMA VpinFactsSuffice ==
    ASSUME RoomForTrades, SessionOK, VpinFacts(Seen, signals.vpin)
    PROVE  VpinIsBucketed
  <1> DEFINE lots == FlattenSeq([i \in DOMAIN Seen |->
                        [k \in 1 .. tape[i].quantity |-> Aggressor(i)]])
             n == Len(lots)
             full == n \div BucketLots
             s == signals.vpin
             w == s.imbalances
             m == Len(w)
             kept == {k \in 1 .. full : k > full - NumBuckets}
             bucket(k) == (k - 1) * BucketLots + 1 .. k * BucketLots
             imbalance(k) == Magnitude(SumFunctionOnSet(lots, bucket(k)))
             h == [k \in kept |-> (imbalance(k) * Scale) \div BucketLots]
             sum == SumFunction(h)
  <1>1. /\ BucketLots \in Nat /\ BucketLots > 0 /\ NumBuckets \in Nat /\ NumBuckets > 0
        /\ Scale \in Nat
    BY BucketType, TickSignalsAssumption
  <1>2. lots = SignedLots(Seen)
    BY SessionLots
  <1>3. PICK f \in Nat : VpinAt(lots, n, f, s)
    <2> HIDE DEF lots
    <2> QED
      BY <1>2 DEF VpinFacts
  <1>4. n \in Nat
    <2>1. f * BucketLots \in Nat
      BY <1>1
    <2>2. Seen \in Seq(Trades)
      BY SeenIs
    <2> HIDE DEF lots
    <2>3. lots \in Seq({-1, 1})
      BY <1>2, <2>2, LotsAreSigns
    <2> QED
      BY <2>3
  <1> HIDE DEF lots, n
  <1>5. /\ f * BucketLots <= n /\ n < f * BucketLots + BucketLots
        /\ s.fill = Scale * (n - f * BucketLots)
        /\ s.buy + s.sell = s.fill
        /\ Window(lots, f, w)
        /\ s.vpin = IF f = 0 THEN None ELSE Some(SumFunction(w) \div m)
    BY <1>3 DEF VpinAt
  <1>6. full = f
    BY <1>1, <1>4, <1>5, FloorIs
  <1>7. n % BucketLots = n - f * BucketLots
    <2>1. n = BucketLots * full + (n % BucketLots)
      BY <1>1, <1>4
    <2>2. BucketLots * full = f * BucketLots /\ n % BucketLots \in Int /\ f * BucketLots \in Int
      BY <1>1, <1>4, <1>6
    <2> QED
      BY <1>4, <2>1, <2>2
  <1> HIDE DEF full, w
  <1>8. /\ w \in Seq(0 .. One) /\ m = IF f < NumBuckets THEN f ELSE NumBuckets
        /\ \A i \in 1 .. m : w[i] = Imbalance(lots, f - m + i)
    BY <1>5 DEF Window
  <1>9. /\ m \in Nat /\ m <= f
        /\ kept = (f - m) + 1 .. (f - m) + m
        /\ Cardinality(kept) = m
    BY <1>1, <1>6, <1>8, KeptIs
  <1>10. SumFunction(w) = sum
    <2> DEFINE b == f - m
    <2>1. b \in Nat /\ DOMAIN w = 1 .. m
      BY <1>8, <1>9
    <2>2. DOMAIN h = kept /\ kept = b + 1 .. b + m
      BY <1>9
    <2>3. \A i \in 1 .. m : w[i] \in Int /\ h[b + i] = w[i]
      <3> TAKE i \in 1 .. m
      <3> DEFINE k == b + i
      <3>1. w[i] \in 0 .. One /\ w[i] = Imbalance(lots, k)
        <4>1. w[i] \in 0 .. One
          <5> DEFINE X == 0 .. One
          <5>1. w \in Seq(X) /\ i \in 1 .. Len(w)
            BY <1>8
          <5> HIDE DEF X
          <5>2. w[i] \in X
            BY ONLY <5>1
          <5> QED
            BY <5>2 DEF X
        <4>2. w[i] = Imbalance(lots, f - m + i)
          BY <1>8
        <4>3. f - m + i = k
          BY <1>9
        <4> HIDE DEF k, b, m
        <4> QED
          BY <4>1, <4>2, <4>3
      <3>2. k \in kept
        <4> HIDE DEF kept, b
        <4> QED
          BY <1>9, <2>1, <2>2
      <3> HIDE DEF kept, k
      <3>3. h[k] = Imbalance(lots, k)
        BY <3>2 DEF Imbalance, BucketOf
      <3>4. One \in Nat
        BY <1>1, BucketType
      <3> HIDE DEF h
      <3> QED
        BY <3>1, <3>3, <3>4 DEF k
    <2> DEFINE low == b + 1
               high == b + m
    <2>4. /\ low \in Nat /\ low > 0 /\ high = low - 1 + m /\ m \in Nat
          /\ \A i \in 1 .. m : w[i] \in Int /\ h[low - 1 + i] = w[i]
      <3> HIDE DEF b, h, kept, m
      <3>1. low - 1 = b
        BY <2>1
      <3> HIDE DEF low
      <3> QED
        BY <1>9, <2>1, <2>3, <3>1 DEF low
    <2> HIDE DEF b, h, kept, m, low, high
    <2>5. SumFunctionOnSet(w, 1 .. m) = SumFunctionOnSet(h, low .. high)
      BY ONLY <2>4, SumShifts
    <2> QED
      BY <2>1, <2>2, <2>5 DEF SumFunction, low, high
  <1> HIDE DEF sum, h, kept, m
  <1>11. s.vpin = IF full = 0 THEN None ELSE Some(sum \div Cardinality(kept))
    BY <1>5, <1>6, <1>9, <1>10
  <1>12. s.fill = Scale * (n % BucketLots) /\ s.buy + s.sell = s.fill
    BY <1>5, <1>7
  <1> QED
    BY <1>11, <1>12 DEF VpinIsBucketed, sum, h, kept, full, n, lots

\* VPIN is the mean imbalance of the last full buckets of equal volume, and what
\* is left over waits in the open one, whatever the trades and however long the
\* session (VpinSignal::update).
THEOREM VpinAlwaysBucketed ==
    ASSUME RoomForTrades
    PROVE  Spec => []VpinIsBucketed
  <1> DEFINE Inv == SessionOK /\ VpinFacts(Seen, signals.vpin)
  <1>1. Init => Inv
    <2> SUFFICES ASSUME Init PROVE Inv
      OBVIOUS
    <2>1. SessionOK /\ Seen = <<>> /\ signals.vpin = VpinInit
      BY SessionStarts DEF Fresh
    <2> QED
      BY <2>1, VpinStarts
  <1>2. Inv /\ [Next]_vars => Inv'
    <2> SUFFICES ASSUME Inv, [Next]_vars PROVE Inv'
      OBVIOUS
    <2>1. SessionOK'
      BY SessionSteps
    <2>2. CASE Seen' = Seen /\ signals' = signals
      BY <2>1, <2>2
    <2>3. CASE \E e \in Trades : Seen' = Append(Seen, e) /\ signals' = Updated(signals, e)
      <3>1. PICK e \in Trades : Seen' = Append(Seen, e) /\ signals' = Updated(signals, e)
        BY <2>3
      <3>2. signals'.vpin = Vpin(signals.vpin, e)
        BY <3>1 DEF Updated
      <3>3. VpinFacts(Append(Seen, e), Vpin(signals.vpin, e))
        BY SeenIs, VpinTrade
      <3> QED
        BY <2>1, <3>1, <3>2, <3>3
    <2> QED
      BY <2>2, <2>3, SessionSteps
  <1>3. Inv => VpinIsBucketed
    BY VpinFactsSuffice
  <1> QED
    BY <1>1, <1>2, <1>3, PTL DEF Spec

=============================================================================
