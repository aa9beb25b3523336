-------------------------- MODULE OrderBookProofs --------------------------
(***************************************************************************)
(* Proofs about OrderBook and what a signal reads at its top, for every    *)
(* set of ids, price range, quantity bound, modulus and width that satisfy *)
(* the assumptions.                                                        *)
(***************************************************************************)
EXTENDS TopOfBook, TLAPS, SequenceTheorems, FiniteSetTheorems

\* The facts on numbers, sums and sequences; nothing is folded here.
INSTANCE FoldProofs WITH op <- +

-----------------------------------------------------------------------------
(* Queues.                                                                 *)

\* Appending an order to a queue it is not in: std::list push_back.
LEMMA AppendQueue ==
    ASSUME NEW S, NEW q \in Seq(S), NEW x \in S, x \notin Range(q), IsInjective(q)
    PROVE  /\ Append(q, x) \in Seq(S)
           /\ Append(q, x) # <<>>
           /\ Range(Append(q, x)) = Range(q) \cup {x}
           /\ IsInjective(Append(q, x))
           /\ \A a : \A b \in Range(q) : Before(Append(q, x), a, b) => Before(q, a, b)
  <1> DEFINE r == Append(q, x)
  <1>1. r \in Seq(S) /\ Len(r) = Len(q) + 1 /\ Len(q) \in Nat
    OBVIOUS
  <1>2. \A i \in 1 .. Len(q) : r[i] = q[i]
    OBVIOUS
  <1>3. r[Len(q) + 1] = x
    OBVIOUS
  <1>4. DOMAIN q = 1 .. Len(q) /\ DOMAIN r = 1 .. Len(q) + 1 /\ Len(q) \in Nat
    BY <1>1
  <1> HIDE DEF r
  <1>5. DOMAIN r = DOMAIN q \cup {Len(q) + 1} /\ Len(q) + 1 \notin DOMAIN q
    BY <1>4
  <1>6. Range(r) = Range(q) \cup {x}
    BY <1>2, <1>3, <1>4, <1>5 DEF Range
  <1>7. IsInjective(r)
    BY <1>2, <1>3, <1>4, <1>5 DEF Range, IsInjective
  <1>8. r # <<>>
    <2>1. Len(r) # 0
      BY <1>1
    <2> QED
      BY <2>1
  <1>9. \A a : \A b \in Range(q) : Before(r, a, b) => Before(q, a, b)
    <2> SUFFICES ASSUME NEW a, NEW b \in Range(q), NEW i \in DOMAIN r, NEW j \in DOMAIN r,
                        i < j, r[i] = a, r[j] = b
                 PROVE  Before(q, a, b)
      BY DEF Before
    <2>1. j # Len(q) + 1
      BY <1>3
    <2>2. i \in DOMAIN q /\ j \in DOMAIN q
      BY <1>4, <2>1
    <2> QED
      BY <1>2, <1>4, <2>2 DEF Before
  <1> QED
    BY <1>1, <1>6, <1>7, <1>8, <1>9 DEF r

\* A queue holds elements of its set, and is empty when it holds none.
LEMMA QueueRange ==
    ASSUME NEW S, NEW q \in Seq(S)
    PROVE  /\ Range(q) \subseteq S
           /\ q = <<>> <=> Range(q) = {}
           /\ q # <<>> => q[1] \in Range(q)
           /\ Len(q) \in Nat
  <1>1. DOMAIN q = 1 .. Len(q) /\ Len(q) \in Nat
    OBVIOUS
  <1>2. q # <<>> => 1 \in DOMAIN q
    OBVIOUS
  <1>3. q = <<>> => DOMAIN q = {}
    OBVIOUS
  <1>4. Range(q) \subseteq S
    BY <1>1 DEF Range
  <1>5. q # <<>> => q[1] \in Range(q)
    BY <1>2 DEF Range
  <1>6. q = <<>> => Range(q) = {}
    BY <1>3 DEF Range
  <1> QED
    BY <1>1, <1>4, <1>5, <1>6

\* Unlinking an order that is in a queue once leaves exactly the others,
\* each once, in their order.
LEMMA UnlinkedQueue ==
    ASSUME NEW S, NEW q \in Seq(S), NEW x \in Range(q), IsInjective(q)
    PROVE  /\ Unlinked(q, x) \in Seq(S)
           /\ Range(Unlinked(q, x)) = Range(q) \ {x}
           /\ IsInjective(Unlinked(q, x))
           /\ \A a, b : Before(Unlinked(q, x), a, b) => Before(q, a, b)
  <1> DEFINE k == CHOOSE i \in 1 .. Len(q) : q[i] = x
             r == RemoveAt(q, k)
  <1>1. k \in 1 .. Len(q) /\ q[k] = x
    BY DEF Range
  <1> HIDE DEF k
  <1>2. /\ r \in Seq(S)
        /\ Len(r) = Len(q) - 1
        /\ \A i \in 1 .. Len(q) - 1 : r[i] = IF i < k THEN q[i] ELSE q[i + 1]
    BY <1>1, RemoveAtProperties
  <1>3. Unlinked(q, x) = r
    BY DEF Unlinked, k
  <1> HIDE DEF r
  <1>4. DOMAIN r = 1 .. Len(q) - 1 /\ DOMAIN q = 1 .. Len(q) /\ Len(q) \in Nat
    BY <1>2
  <1>5. ASSUME NEW i \in DOMAIN r
        PROVE  \E j \in DOMAIN q : j # k /\ r[i] = q[j] /\ j = IF i < k THEN i ELSE i + 1
    BY <1>1, <1>2, <1>4
  <1>6. ASSUME NEW j \in DOMAIN q, j # k
        PROVE  \E i \in DOMAIN r : r[i] = q[j]
    <2>1. CASE j < k
      BY <1>1, <1>2, <1>4, <2>1
    <2>2. CASE j > k
      <3>1. j - 1 \in 1 .. Len(q) - 1 /\ ~ (j - 1 < k) /\ (j - 1) + 1 = j
        BY <1>1, <1>4, <2>2
      <3> QED
        BY <1>2, <1>4, <3>1
    <2> QED
      BY <1>1, <1>4, <1>6, <2>1, <2>2
  <1>7. Range(r) = Range(q) \ {x}
    BY <1>1, <1>4, <1>5, <1>6 DEF Range, IsInjective
  <1>8. IsInjective(r)
    <2> SUFFICES ASSUME NEW a \in DOMAIN r, NEW b \in DOMAIN r, r[a] = r[b]
                 PROVE  a = b
      BY DEF IsInjective
    <2>1. PICK j \in DOMAIN q : r[a] = q[j] /\ j = IF a < k THEN a ELSE a + 1
      BY <1>5
    <2>2. PICK h \in DOMAIN q : r[b] = q[h] /\ h = IF b < k THEN b ELSE b + 1
      BY <1>5
    <2>3. j = h
      BY <2>1, <2>2 DEF IsInjective
    <2> QED
      BY <1>1, <1>4, <2>1, <2>2, <2>3
  <1>9. \A a, b : Before(r, a, b) => Before(q, a, b)
    <2> SUFFICES ASSUME NEW a, NEW b, NEW i \in DOMAIN r, NEW j \in DOMAIN r,
                        i < j, r[i] = a, r[j] = b
                 PROVE  Before(q, a, b)
      BY DEF Before
    <2>1. PICK m \in DOMAIN q : r[i] = q[m] /\ m = IF i < k THEN i ELSE i + 1
      BY <1>5
    <2>2. PICK n \in DOMAIN q : r[j] = q[n] /\ n = IF j < k THEN j ELSE j + 1
      BY <1>5
    <2>3. m < n
      BY <1>1, <1>4, <2>1, <2>2
    <2> QED
      BY <2>1, <2>2, <2>3 DEF Before
  <1> QED
    BY <1>2, <1>3, <1>7, <1>8, <1>9

-----------------------------------------------------------------------------
(* Prices.                                                                 *)

\* begin() of a side that has levels is a level no other one is ahead of.
LEMMA FirstOfProperties ==
    ASSUME NEW s \in Side, NEW S \in SUBSET Prices, S # {}
    PROVE  /\ FirstOf(s, S) \in S
           /\ FirstOf(s, S) # End
           /\ \A q \in S : ~ Ahead(s, q, FirstOf(s, S))
  <1>1. \E p \in S : \A q \in S : ~ Ahead(s, q, p)
    <2>1. CASE s = "BID"
      <3> DEFINE D == {MaxPrice - q : q \in S}
      <3>1. D \in SUBSET Nat /\ D # {}
        <4>1. \A q \in S : MaxPrice - q \in Nat
          BY PriceAssumption DEF Prices
        <4> QED
          BY <4>1
      <3>2. PICK d \in D : \A e \in D : d <= e
        BY <3>1, LeastNatural
      <3>3. PICK p \in S : d = MaxPrice - p
        BY <3>2
      <3>4. ASSUME NEW q \in S PROVE ~ (q > p)
        <4>1. MaxPrice - p <= MaxPrice - q
          BY <3>2, <3>3
        <4> QED
          BY <4>1, PriceAssumption DEF Prices
      <3> QED
        BY <2>1, <3>4 DEF Ahead
    <2>2. CASE s # "BID"
      <3>1. S \in SUBSET Nat
        BY PriceAssumption DEF Prices
      <3>2. PICK p \in S : \A q \in S : p <= q
        BY <3>1, LeastNatural
      <3> QED
        BY <2>2, <3>1, <3>2 DEF Ahead
    <2> QED
      BY <2>1, <2>2
  <1>2. FirstOf(s, S) = CHOOSE p \in S : \A q \in S : ~ Ahead(s, q, p)
    BY DEF FirstOf
  <1>3. FirstOf(s, S) \in S /\ \A q \in S : ~ Ahead(s, q, FirstOf(s, S))
    BY <1>1, <1>2
  <1>4. End \notin S
    BY PriceAssumption DEF End, Prices
  <1> QED
    BY <1>3, <1>4

\* The iterator of a side is at a price or at end().
LEMMA FirstOfType ==
    ASSUME NEW s \in Side, NEW S \in SUBSET Prices
    PROVE  FirstOf(s, S) \in Prices \cup {End}
  <1>1. CASE S = {}
    BY <1>1 DEF FirstOf
  <1>2. CASE S # {}
    BY <1>2, FirstOfProperties
  <1> QED
    BY <1>1, <1>2

-----------------------------------------------------------------------------
(* Consistent is inductive: one lemma per kind of step.                    *)

\* An empty book without a running call is consistent.
LEMMA InitConsistent == Init => Consistent
  <1> SUFFICES ASSUME Init PROVE Consistent
    OBVIOUS
  <1>1. \A s \in Side, p \in Prices :
           queue[s][p] = <<>> /\ Range(queue[s][p]) = {} /\ IsInjective(queue[s][p])
    BY DEF Init, Range, IsInjective
  <1>2. TypeOK
    BY PriceAssumption, QuantityAssumption
       DEF Init, TypeOK, Live, PCs, NoCall, NoEvent, End, Prices, Quantities, Totals
  <1>3. InFlight
    BY DEF Init, InFlight, PlacesOfCalls, CallersOrder, FilledOrder,
           IteratorAtFirst, NothingLeftToMatch, Matching
  <1>4. RegistryMatchesLevels
    BY <1>1 DEF Init, RegistryMatchesLevels, LinksAreLive, LinksAreUnique,
                OrdersAreLinked, Live
  <1>5. EmptyLevelsArePassing /\ NeverCrossed
    BY <1>1 DEF Init, EmptyLevelsArePassing, NeverCrossed, Side
  <1> QED
    BY <1>2, <1>3, <1>4, <1>5 DEF Consistent

\* Steps that touch neither the registry nor the levels, between places where
\* no order is detached.
Settled == {"idle", "match", "fill", "levelMatched", "rested", "unlink", "return"}

\* Such a step keeps what is said of the book itself.
LEMMA SettledStep ==
    ASSUME RegistryMatchesLevels, NeverCrossed, UNCHANGED bookVars,
           pc \in Settled, pc' \in Settled
    PROVE  RegistryMatchesLevels' /\ NeverCrossed'
  <1>1. \A id : ~ Detached(id) /\ ~ Detached(id)'
    BY DEF Detached, Settled
  <1> QED
    BY <1>1 DEF RegistryMatchesLevels, LinksAreLive, LinksAreUnique,
                OrdersAreLinked, NeverCrossed, bookVars, Live

\* newOrder with an unused id starts a match and changes nothing else.
LEMMA NewOrderStep ==
    ASSUME Consistent, NEW id \in OrderIDs, NEW s \in Side, NEW p \in Prices,
           NEW q \in Quantities, NewOrder(id, s, p, q)
    PROVE  Consistent'
  <1> USE DEF Consistent, NewOrder, StartMatch
  <1>1. TypeOK'
    <2>1. Begin(Opposite(s)) \in Prices \cup {End}
      BY FirstOfType DEF TypeOK, Begin, Opposite, Side
    <2>2. call' \in Call /\ call' # NoCall
      BY DEF Call, CallNames, NoCall
    <2> QED
      BY <2>1, <2>2 DEF TypeOK, PCs, Live
  <1>2. InFlight'
    BY DEF InFlight, PlacesOfCalls, CallersOrder, FilledOrder,
           IteratorAtFirst, NothingLeftToMatch, Matching, Begin, Live
  <1>3. RegistryMatchesLevels' /\ NeverCrossed'
    BY SettledStep DEF Settled, bookVars
  <1>4. EmptyLevelsArePassing'
    BY DEF EmptyLevelsArePassing
  <1> QED
    BY <1>1, <1>2, <1>3, <1>4

\* amend of a live order starts a match on the order's own side.
LEMMA AmendStep ==
    ASSUME Consistent, NEW id \in OrderIDs, NEW p \in Prices,
           NEW q \in Quantities, Amend(id, p, q)
    PROVE  Consistent'
  <1> USE DEF Consistent, Amend, StartMatch
  <1>1. orders[id] \in Order
    BY DEF TypeOK, Live
  <1>2. TypeOK'
    <2>1. Begin(Opposite(orders[id].side)) \in Prices \cup {End}
      BY <1>1, FirstOfType DEF TypeOK, Begin, Opposite, Side, Order
    <2>2. call' \in Call /\ call' # NoCall
      BY <1>1 DEF Call, CallNames, NoCall, Order
    <2> QED
      BY <2>1, <2>2 DEF TypeOK, PCs, Live
  <1>3. InFlight'
    BY DEF InFlight, PlacesOfCalls, CallersOrder, FilledOrder,
           IteratorAtFirst, NothingLeftToMatch, Matching, Begin, Live
  <1>4. RegistryMatchesLevels' /\ NeverCrossed'
    BY SettledStep DEF Settled, bookVars
  <1>5. EmptyLevelsArePassing'
    BY DEF EmptyLevelsArePassing
  <1> QED
    BY <1>2, <1>3, <1>4, <1>5

\* amendDelta never asks for a negative quantity.
LEMMA AmendDeltaStep ==
    ASSUME Consistent, NEW id \in OrderIDs, NEW q \in Quantities, AmendDelta(id, q)
    PROVE  Consistent'
  <1>1. orders[id] \in Order
    BY DEF AmendDelta, Amend, Consistent, TypeOK, Live
  <1>2. orders[id].price \in Prices /\ ReducedBy(id, q) \in Quantities
    BY <1>1, QuantityAssumption DEF Order, ReducedBy, Quantities
  <1> QED
    BY <1>2, AmendStep DEF AmendDelta

\* cancel and replaceOrder find their order before they unlink it.
LEMMA StartUnlinkStep ==
    ASSUME Consistent, pc = "idle", NEW id \in OrderIDs, id \in Live,
           NEW c \in Call, c.id = id, c.side = orders[id].side,
           c.name \in {"cancel", "replaceOrder"}, StartUnlink(c)
    PROVE  Consistent'
  <1> USE DEF Consistent, StartUnlink
  <1>1. TypeOK'
    <2>1. c # NoCall
      BY DEF NoCall
    <2> QED
      BY <2>1 DEF TypeOK, PCs, Live
  <1>2. InFlight'
    BY DEF InFlight, PlacesOfCalls, CallersOrder, FilledOrder,
           IteratorAtFirst, NothingLeftToMatch, Matching, Live
  <1>3. RegistryMatchesLevels' /\ NeverCrossed'
    BY SettledStep DEF Settled, bookVars
  <1>4. EmptyLevelsArePassing'
    BY DEF EmptyLevelsArePassing
  <1> QED
    BY <1>1, <1>2, <1>3, <1>4

\* cancel of a live order.
LEMMA CancelStep ==
    ASSUME Consistent, NEW id \in OrderIDs, Cancel(id)
    PROVE  Consistent'
  <1> DEFINE c == [name |-> "cancel", id |-> id, side |-> orders[id].side,
                   price |-> 0, quantity |-> 0]
  <1>1. orders[id] \in Order
    BY DEF Cancel, Consistent, TypeOK, Live
  <1>2. c \in Call
    BY <1>1, PriceAssumption, QuantityAssumption
       DEF Call, CallNames, Order, Prices, Quantities
  <1>3. /\ pc = "idle" /\ id \in Live /\ StartUnlink(c)
        /\ c.id = id /\ c.side = orders[id].side /\ c.name \in {"cancel", "replaceOrder"}
    BY DEF Cancel
  <1> HIDE DEF c
  <1> QED
    BY <1>2, <1>3, StartUnlinkStep

\* replaceOrder of a live order.
LEMMA ReplaceOrderStep ==
    ASSUME Consistent, NEW id \in OrderIDs, NEW p \in Prices,
           NEW q \in Quantities, ReplaceOrder(id, p, q)
    PROVE  Consistent'
  <1> DEFINE c == [name |-> "replaceOrder", id |-> id, side |-> orders[id].side,
                   price |-> p, quantity |-> q]
  <1>1. orders[id] \in Order
    BY DEF ReplaceOrder, Consistent, TypeOK, Live
  <1>2. c \in Call
    BY <1>1 DEF Call, CallNames, Order
  <1>3. /\ pc = "idle" /\ id \in Live /\ StartUnlink(c)
        /\ c.id = id /\ c.side = orders[id].side /\ c.name \in {"cancel", "replaceOrder"}
    BY DEF ReplaceOrder
  <1> HIDE DEF c
  <1> QED
    BY <1>2, <1>3, StartUnlinkStep

\* A refused call changes only what is returned.
LEMMA RefuseStep ==
    ASSUME Consistent, Refuse
    PROVE  Consistent'
  <1> USE DEF Consistent, Refuse
  <1>1. TypeOK' /\ InFlight'
    BY DEF TypeOK, Live, InFlight, PlacesOfCalls, CallersOrder, FilledOrder,
           IteratorAtFirst, NothingLeftToMatch, Matching
  <1>2. RegistryMatchesLevels' /\ NeverCrossed'
    BY SettledStep DEF Settled, bookVars
  <1>3. EmptyLevelsArePassing'
    BY DEF EmptyLevelsArePassing
  <1> QED
    BY <1>1, <1>2, <1>3

\* When there is something to match the iterator is at a level of the side.
LEMMA CanMatchAtLevel ==
    ASSUME Consistent, pc = "match", CanMatch
    PROVE  /\ call \in Call
           /\ Opposite(call.side) \in Side
           /\ level \in listed[Opposite(call.side)]
           /\ level \in Prices
           /\ level = Begin(Opposite(call.side))
  <1>1. call \in Call /\ Opposite(call.side) \in Side
    BY DEF Consistent, TypeOK, Call, Opposite, Side
  <1>2. listed[Opposite(call.side)] \in SUBSET Prices
    BY <1>1 DEF Consistent, TypeOK
  <1>3. level = Begin(Opposite(call.side)) /\ level # End
    BY DEF Consistent, InFlight, IteratorAtFirst, CanMatch
  <1>4. listed[Opposite(call.side)] # {}
    BY <1>3 DEF Begin, FirstOf
  <1> QED
    BY <1>1, <1>2, <1>3, <1>4, FirstOfProperties DEF Begin

\* matchPrice enters the level its iterator is at.
LEMMA EnterLevelStep ==
    ASSUME Consistent, EnterLevel
    PROVE  Consistent'
  <1> USE DEF EnterLevel
  <1>0. /\ level \in listed[Opposite(call.side)]
        /\ level = Begin(Opposite(call.side))
    BY CanMatchAtLevel
  <1>1. TypeOK'
    BY DEF Consistent, TypeOK, PCs, Live
  <1>2. InFlight'
    BY <1>0 DEF Consistent, InFlight, PlacesOfCalls, CallersOrder, FilledOrder,
           IteratorAtFirst, NothingLeftToMatch, Matching, Begin, Live
  <1>3. RegistryMatchesLevels' /\ NeverCrossed'
    BY SettledStep DEF Consistent, Settled, bookVars
  <1>4. EmptyLevelsArePassing'
    BY DEF Consistent, EmptyLevelsArePassing
  <1> QED
    BY <1>1, <1>2, <1>3, <1>4 DEF Consistent

\* matchPrice reports the level after matchAgainst.
LEMMA LevelMatchedStep ==
    ASSUME Consistent, LevelMatched
    PROVE  Consistent'
  <1> DEFINE s == Opposite(call.side)
  <1> USE DEF LevelMatched
  <1>1. s \in Side /\ level \in Prices /\ level \in listed[s]
    BY DEF Consistent, InFlight, IteratorAtFirst, TypeOK, Call, Opposite, Side, PCs
  <1>2. queue[s][level] \in Seq(OrderIDs) /\ total[s][level] \in Totals
    BY <1>1 DEF Consistent, TypeOK
  <1>3. event' \in LevelEvents
    BY <1>1, <1>2 DEF LevelEvent, LevelEvents
  <1>4. TypeOK'
    BY <1>3 DEF Consistent, TypeOK, PCs, Live
  <1>5. InFlight'
    BY DEF Consistent, InFlight, PlacesOfCalls, CallersOrder, FilledOrder,
           IteratorAtFirst, NothingLeftToMatch, Matching, Begin, Live
  <1>6. RegistryMatchesLevels' /\ NeverCrossed'
    BY SettledStep DEF Consistent, Settled, bookVars
  <1>7. EmptyLevelsArePassing'
    BY DEF Consistent, EmptyLevelsArePassing
  <1> QED
    BY <1>4, <1>5, <1>6, <1>7 DEF Consistent

\* newOrder reports its OrderMatchedEvent.
LEMMA NotifyStep ==
    ASSUME Consistent, Notify
    PROVE  Consistent'
  <1> USE DEF Notify, MatchOver
  <1>1. call \in Call /\ call.name = "newOrder"
    BY DEF Consistent, TypeOK, InFlight, PlacesOfCalls, PCs
  <1>2. event' \in MatchedEvents
    BY <1>1 DEF Consistent, TypeOK, MatchedEvents, Call
  <1>3. TypeOK'
    BY <1>2 DEF Consistent, TypeOK, PCs, Live
  <1>4. InFlight'
    BY DEF Consistent, InFlight, PlacesOfCalls, CallersOrder, FilledOrder,
           IteratorAtFirst, NothingLeftToMatch, Matching
  <1>5. RegistryMatchesLevels' /\ NeverCrossed'
    BY SettledStep DEF Consistent, Settled, bookVars
  <1>6. EmptyLevelsArePassing'
    BY DEF Consistent, EmptyLevelsArePassing
  <1> QED
    BY <1>3, <1>4, <1>5, <1>6 DEF Consistent

\* A call returns to its caller.
LEMMA ReturnedStep ==
    ASSUME Consistent, Return
    PROVE  Consistent'
  <1> USE DEF Return, Finish
  <1>1. TypeOK'
    BY QuantityAssumption DEF Consistent, TypeOK, PCs, Live, Quantities
  <1>2. InFlight'
    BY DEF InFlight, PlacesOfCalls, CallersOrder, FilledOrder,
           IteratorAtFirst, NothingLeftToMatch, Matching
  <1>3. RegistryMatchesLevels' /\ NeverCrossed'
    BY SettledStep DEF Consistent, Settled, bookVars
  <1>4. EmptyLevelsArePassing'
    BY DEF Consistent, EmptyLevelsArePassing
  <1> QED
    BY <1>1, <1>2, <1>3, <1>4 DEF Consistent

\* The order matchAgainst is at: live, of this level, with a quantity, and
\* what a fill leaves of it and of the incoming quantity.
LEMMA RestingOrder ==
    ASSUME Consistent, Fill
    PROVE  /\ call \in Call /\ Opposite(call.side) \in Side
           /\ level \in Prices
           /\ level \in listed[Opposite(call.side)]
           /\ queue[Opposite(call.side)][level] \in Seq(OrderIDs)
           /\ Resting \in Range(queue[Opposite(call.side)][level])
           /\ Resting \in Live
           /\ Resting \in OrderIDs
           /\ orders[Resting] \in Order
           /\ orders[Resting].side = Opposite(call.side)
           /\ orders[Resting].price = level
           /\ Delta \in Quantities
           /\ orders[Resting].quantity - Delta \in Quantities
           /\ remaining - Delta \in Quantities
  <1> DEFINE s == Opposite(call.side)
  <1>1. call \in Call /\ s \in Side /\ level \in Prices /\ level \in listed[s]
    BY DEF Consistent, InFlight, IteratorAtFirst, TypeOK, Call, Opposite, Side, PCs, Fill
  <1>2. queue[s][level] \in Seq(OrderIDs) /\ queue[s][level] # <<>>
    BY <1>1 DEF Consistent, TypeOK, Fill
  <1>3. Resting \in Range(queue[s][level])
    BY <1>2, QueueRange DEF Resting
  <1>4. /\ Resting \in Live
        /\ orders[Resting].side = s /\ orders[Resting].price = level
    BY <1>1, <1>3 DEF Consistent, RegistryMatchesLevels, LinksAreLive
  <1>5. Resting \in OrderIDs /\ orders[Resting] \in Order
    BY <1>4 DEF Consistent, TypeOK
  <1>6. /\ Delta \in Quantities
        /\ orders[Resting].quantity - Delta \in Quantities
        /\ remaining - Delta \in Quantities
    <2>1. orders[Resting].quantity \in Quantities /\ remaining \in Quantities
      BY <1>5 DEF Order, Consistent, TypeOK
    <2> QED
      BY <2>1, QuantityAssumption DEF Delta, Quantities
  <1> QED
    BY <1>1, <1>2, <1>3, <1>4, <1>5, <1>6

\* One iteration of matchAgainst trades with the first order of the first
\* level and unlinks it if that filled it.
LEMMA FillStep ==
    ASSUME Consistent, Fill
    PROVE  Consistent'
  <1> DEFINE s == Opposite(call.side)
             id == Resting
             left == orders[id].quantity - Delta
             q == queue[s][level]
             r == IF left = 0 THEN Unlinked(q, id) ELSE q
  <1>1. /\ call \in Call /\ s \in Side
        /\ level \in Prices /\ level \in listed[s]
        /\ q \in Seq(OrderIDs) /\ id \in Range(q)
        /\ id \in Live /\ id \in OrderIDs /\ orders[id] \in Order
        /\ orders[id].side = s /\ orders[id].price = level
        /\ Delta \in Quantities /\ left \in Quantities
        /\ remaining - Delta \in Quantities
    BY RestingOrder
  <1>2. /\ r \in Seq(OrderIDs)
        /\ Range(r) = IF left = 0 THEN Range(q) \ {id} ELSE Range(q)
        /\ IsInjective(r)
    <2>1. IsInjective(q)
      BY <1>1 DEF Consistent, RegistryMatchesLevels, LinksAreUnique
    <2> QED
      BY <1>1, <2>1, UnlinkedQueue
  <1> HIDE DEF left, q, r, id
  <1>3. /\ total' = [total EXCEPT ![s][level] = Minus(@, Delta)]
        /\ orders' = [orders EXCEPT ![id].quantity = left]
        /\ remaining' = remaining - Delta
        /\ queue' = [queue EXCEPT ![s][level] = r]
        /\ event' = [type |-> "Trade", id |-> id,
                     price |-> orders[id].price, quantity |-> Delta,
                     aggressor |-> call.side,
                     fill |-> IF left = 0 THEN "Full" ELSE "Partial"]
        /\ pc = "fill" /\ pc' = "filled"
        /\ UNCHANGED <<listed, call, level, result>>
    BY <1>1 DEF Fill, id, left, q, r, Consistent, TypeOK
  <1> HIDE DEF s
  <1>4. Live' = Live
    BY <1>1, <1>3 DEF Live
  <1>5. /\ orders'[id] = [orders[id] EXCEPT !.quantity = left]
        /\ \A i \in Live : i # id => orders'[i] = orders[i]
    BY <1>1, <1>3, <1>4 DEF Live
  <1>6. orders' \in [Live -> Order]
    <2>1. orders \in [Live -> Order]
      BY DEF Consistent, TypeOK
    <2>2. orders'[id] \in Order
      BY <1>1, <1>5 DEF Order
    <2> QED
      BY <1>1, <1>3, <2>1, <2>2
  <1>7. /\ queue' \in [Side -> [Prices -> Seq(OrderIDs)]]
        /\ queue'[s][level] = r
        /\ \A t \in Side, p \in Prices :
              ~ (t = s /\ p = level) => queue'[t][p] = queue[t][p]
    BY <1>1, <1>2, <1>3 DEF Consistent, TypeOK
  <1>8. total' \in [Side -> [Prices -> Totals]]
    <2>1. total[s][level] \in Totals
      BY <1>1 DEF Consistent, TypeOK
    <2>2. Minus(total[s][level], Delta) \in Totals
      BY <1>1, <2>1, QuantityAssumption DEF Minus, Totals, Quantities
    <2> QED
      BY <1>1, <1>3, <2>2 DEF Consistent, TypeOK
  <1>9. event' \in TradeEvents
    BY <1>1, <1>3 DEF TradeEvents, Call
  <1>10. TypeOK'
    BY <1>1, <1>3, <1>4, <1>6, <1>7, <1>8, <1>9 DEF Consistent, TypeOK, PCs, Live
  <1>11. InFlight'
    <2>1. PlacesOfCalls'
      BY <1>3 DEF Consistent, InFlight, PlacesOfCalls, Matching
    <2>2. CallersOrder'
      <3>1. call.name # "newOrder" => call.id \in Live /\ orders[call.id].side = call.side
        BY <1>3 DEF Consistent, InFlight, CallersOrder, Matching
      <3>2. call.name # "newOrder" => call.id # id
        BY <1>1, <3>1 DEF s, Opposite
      <3> QED
        BY <1>3, <1>4, <1>5, <3>1, <3>2 DEF Consistent, InFlight, CallersOrder, Matching
    <2>3. FilledOrder'
      BY <1>1, <1>3, <1>4, <1>5, <1>9 DEF FilledOrder, s, Order
    <2>4. IteratorAtFirst'
      BY <1>3 DEF Consistent, InFlight, IteratorAtFirst, Begin
    <2>5. NothingLeftToMatch'
      BY <1>3 DEF NothingLeftToMatch
    <2> QED
      BY <2>1, <2>2, <2>3, <2>4, <2>5 DEF InFlight
  <1>12. \A i : /\ ~ Detached(i)
                /\ Detached(i)' <=> i = id /\ left = 0
    BY <1>3 DEF Detached
  <1>13. LinksAreLive'
    <2> SUFFICES ASSUME NEW t \in Side, NEW p \in Prices, NEW i \in Range(queue'[t][p])
                 PROVE  /\ i \in Live'
                        /\ ~ Detached(i)'
                        /\ orders'[i].side = t
                        /\ orders'[i].price = p
      BY DEF LinksAreLive
    <2>1. i \in Range(queue[t][p]) /\ (left = 0 => i # id)
      <3>1. CASE t = s /\ p = level
        BY <1>2, <1>7, <3>1 DEF q
      <3>2. CASE ~ (t = s /\ p = level)
        <4>1. i \in Range(queue[t][p])
          BY <1>7, <3>2
        <4>2. orders[i].side = t /\ orders[i].price = p
          BY <4>1 DEF Consistent, RegistryMatchesLevels, LinksAreLive
        <4> QED
          BY <1>1, <3>2, <4>1, <4>2
      <3> QED
        BY <3>1, <3>2
    <2>2. i \in Live /\ orders[i].side = t /\ orders[i].price = p
      BY <2>1 DEF Consistent, RegistryMatchesLevels, LinksAreLive
    <2>3. orders'[i].side = t /\ orders'[i].price = p
      BY <1>1, <1>5, <2>2 DEF Order
    <2> QED
      BY <1>4, <1>12, <2>1, <2>2, <2>3
  <1>14. LinksAreUnique'
    BY <1>2, <1>7 DEF Consistent, RegistryMatchesLevels, LinksAreUnique
  <1>15. OrdersAreLinked'
    <2> SUFFICES ASSUME NEW i \in Live, ~ Detached(i)'
                 PROVE  /\ orders'[i].quantity > 0
                        /\ i \in Range(queue'[orders'[i].side][orders'[i].price])
      BY <1>4 DEF OrdersAreLinked
    <2>1. orders[i].quantity > 0 /\ i \in Range(queue[orders[i].side][orders[i].price])
      BY <1>12 DEF Consistent, RegistryMatchesLevels, OrdersAreLinked
    <2>2. orders[i] \in Order
      BY DEF Consistent, TypeOK
    <2>3. orders'[i].side = orders[i].side /\ orders'[i].price = orders[i].price
      BY <1>1, <1>5 DEF Order
    <2>4. CASE i = id
      <3>1. left # 0 /\ orders'[i].quantity = left
        BY <1>1, <1>5, <1>12, <2>4 DEF Order
      <3>2. left > 0
        BY <1>1, <3>1 DEF Quantities
      <3>3. i \in Range(queue'[s][level])
        BY <1>1, <1>2, <1>7, <2>4, <3>1
      <3> QED
        BY <1>1, <2>3, <2>4, <3>1, <3>2, <3>3
    <2>5. CASE i # id
      <3>1. orders'[i] = orders[i]
        BY <1>5, <2>5
      <3>2. i \in Range(queue'[orders[i].side][orders[i].price])
        BY <1>2, <1>7, <2>1, <2>2, <2>5 DEF q, Order
      <3> QED
        BY <2>1, <3>1, <3>2
    <2> QED
      BY <2>4, <2>5
  <1>16. EmptyLevelsArePassing'
    <2> SUFFICES ASSUME NEW t \in Side, NEW p \in Prices
                 PROVE  /\ p \notin listed[t] => queue'[t][p] = <<>> /\ total'[t][p] = 0
                        /\ p \in listed[t] /\ queue'[t][p] = <<>> =>
                              t = Opposite(call.side) /\ p = level
      BY <1>3 DEF EmptyLevelsArePassing
    <2>1. CASE t = s /\ p = level
      BY <1>1, <2>1 DEF s
    <2>2. CASE ~ (t = s /\ p = level)
      <3>1. queue'[t][p] = queue[t][p] /\ total'[t][p] = total[t][p]
        BY <1>1, <1>3, <1>7, <2>2 DEF Consistent, TypeOK
      <3> QED
        BY <1>3, <3>1 DEF Consistent, EmptyLevelsArePassing
    <2> QED
      BY <2>1, <2>2
  <1>17. NeverCrossed'
    BY <1>3 DEF Consistent, NeverCrossed
  <1> QED
    BY <1>10, <1>11, <1>13, <1>14, <1>15, <1>16, <1>17 DEF Consistent, RegistryMatchesLevels

\* ObjectResource::erase of the order that the running call detached.
LEMMA ErasedOrder ==
    ASSUME Consistent, NEW id, Detached(id), \A i : Detached(i) => i = id,
           Erase(id), UNCHANGED queue, \A i : ~ Detached(i)'
    PROVE  /\ RegistryMatchesLevels'
           /\ Live' = Live \ {id}
           /\ Live' \subseteq OrderIDs
           /\ orders' \in [Live' -> Order]
           /\ \A i \in Live' : orders'[i] = orders[i]
  <1>1. Live' = Live \ {id} /\ \A i \in Live' : orders'[i] = orders[i]
    BY DEF Erase, Live
  <1>2. Live' \subseteq OrderIDs /\ orders' \in [Live' -> Order]
    <2>1. orders' = [i \in Live \ {id} |-> orders[i]]
      BY DEF Erase
    <2> QED
      BY <1>1, <2>1 DEF Consistent, TypeOK
  <1>3. LinksAreLive'
    BY <1>1 DEF Consistent, RegistryMatchesLevels, LinksAreLive
  <1>4. LinksAreUnique'
    BY DEF Consistent, RegistryMatchesLevels, LinksAreUnique
  <1>5. OrdersAreLinked'
    BY <1>1 DEF Consistent, RegistryMatchesLevels, OrdersAreLinked
  <1> QED
    BY <1>1, <1>2, <1>3, <1>4, <1>5 DEF RegistryMatchesLevels

\* on_filled erases the filled order, which is never the caller's own.
LEMMA OnFilledStep ==
    ASSUME Consistent, OnFilled
    PROVE  Consistent'
  <1>1. /\ pc = "filled" /\ pc' = "fill" /\ event' = NoEvent
        /\ UNCHANGED <<listed, queue, total, call, remaining, level, result>>
    BY DEF OnFilled
  <1>2. /\ RegistryMatchesLevels'
        /\ Live' \subseteq OrderIDs
        /\ orders' \in [Live' -> Order]
        /\ \A i \in Live' : i \in Live /\ orders'[i] = orders[i]
        /\ \A i \in Live : i # event.id => i \in Live'
    <2>1. \A i : ~ Detached(i)'
      BY <1>1 DEF Detached
    <2>2. CASE event.fill = "Full"
      <3>1. Erase(event.id) /\ \A i : Detached(i) <=> i = event.id
        BY <1>1, <2>2 DEF OnFilled, Detached
      <3> QED
        BY <1>1, <2>1, <3>1, ErasedOrder
    <2>3. CASE event.fill # "Full"
      <3>1. UNCHANGED orders /\ \A i : ~ Detached(i)
        BY <1>1, <2>3 DEF OnFilled, Detached
      <3>2. RegistryMatchesLevels'
        BY <1>1, <2>1, <3>1 DEF Consistent, RegistryMatchesLevels, LinksAreLive,
                                LinksAreUnique, OrdersAreLinked, Live
      <3> QED
        BY <3>1, <3>2 DEF Consistent, TypeOK, Live
    <2> QED
      BY <2>2, <2>3
  <1>3. TypeOK'
    BY <1>1, <1>2 DEF Consistent, TypeOK, PCs
  <1>4. InFlight'
    <2>1. CallersOrder'
      <3>1. call.name # "newOrder" => call.id \in Live /\ orders[call.id].side = call.side
        BY <1>1 DEF Consistent, InFlight, CallersOrder, Matching
      <3>2. call.name # "newOrder" => call.id # event.id
        <4>1. call \in Call
          BY <1>1 DEF Consistent, TypeOK
        <4>2. orders[event.id].side = Opposite(call.side)
          BY <1>1 DEF Consistent, InFlight, FilledOrder
        <4> QED
          BY <3>1, <4>1, <4>2 DEF Opposite, Call, Side
      <3> QED
        BY <1>1, <1>2, <3>1, <3>2 DEF Consistent, InFlight, CallersOrder, Matching
    <2> QED
      BY <1>1, <2>1 DEF Consistent, InFlight, PlacesOfCalls, FilledOrder,
                        IteratorAtFirst, NothingLeftToMatch, Matching, Begin
  <1>5. EmptyLevelsArePassing' /\ NeverCrossed'
    BY <1>1 DEF Consistent, EmptyLevelsArePassing, NeverCrossed
  <1> QED
    BY <1>2, <1>3, <1>4, <1>5 DEF Consistent

\* book.erase of the one level that a call may have left empty.
LEMMA DroppedLevel ==
    ASSUME Consistent, NEW s \in Side, NEW p \in Prices,
           DropIfEmpty(s, p), UNCHANGED queue,
           \A t \in Side, q \in Prices :
              q \in listed[t] /\ queue[t][q] = <<>> => t = s /\ q = p
    PROVE  /\ listed' \in [Side -> SUBSET Prices]
           /\ total' \in [Side -> [Prices -> Totals]]
           /\ listed'[s] = IF queue[s][p] = <<>> THEN listed[s] \ {p} ELSE listed[s]
           /\ \A t \in Side : t # s => listed'[t] = listed[t]
           /\ EmptyLevelsArePassing'
           /\ NeverCrossed'
  <1>0. /\ listed \in [Side -> SUBSET Prices]
        /\ total \in [Side -> [Prices -> Totals]]
    BY DEF Consistent, TypeOK
  <1>1. /\ listed' \in [Side -> SUBSET Prices]
        /\ listed'[s] = IF queue[s][p] = <<>> THEN listed[s] \ {p} ELSE listed[s]
        /\ \A t \in Side : t # s => listed'[t] = listed[t]
    <2>1. CASE queue[s][p] = <<>>
      <3>1. listed' = [listed EXCEPT ![s] = listed[s] \ {p}]
        BY <2>1 DEF DropIfEmpty
      <3> QED
        BY <1>0, <2>1, <3>1
    <2>2. CASE queue[s][p] # <<>>
      <3>1. listed' = listed
        BY <2>2 DEF DropIfEmpty
      <3> QED
        BY <1>0, <2>2, <3>1
    <2> QED
      BY <2>1, <2>2
  <1>2. /\ total' \in [Side -> [Prices -> Totals]]
        /\ queue[s][p] = <<>> => total'[s][p] = 0
        /\ \A t \in Side, q \in Prices :
              ~ (t = s /\ q = p) => total'[t][q] = total[t][q]
    <2>1. 0 \in Totals
      BY QuantityAssumption DEF Totals
    <2> QED
      BY <1>0, <2>1 DEF DropIfEmpty
  <1>3. ASSUME NEW t \in Side, NEW q \in Prices
        PROVE  /\ q \notin listed'[t] => queue'[t][q] = <<>> /\ total'[t][q] = 0
               /\ q \in listed'[t] => queue'[t][q] # <<>>
    <2>1. q \notin listed[t] => queue[t][q] = <<>> /\ total[t][q] = 0
      BY DEF Consistent, EmptyLevelsArePassing
    <2>2. CASE t = s /\ q = p
      <3>1. CASE queue[s][p] = <<>>
        BY <1>1, <1>2, <2>2, <3>1
      <3>2. CASE queue[s][p] # <<>>
        BY <1>1, <2>1, <2>2, <3>2
      <3> QED
        BY <3>1, <3>2
    <2>3. CASE ~ (t = s /\ q = p)
      BY <1>1, <1>2, <2>1, <2>3
    <2> QED
      BY <2>2, <2>3
  <1>4. EmptyLevelsArePassing'
    BY <1>3 DEF EmptyLevelsArePassing
  <1>5. NeverCrossed'
    <2>1. \A t \in Side : listed'[t] \subseteq listed[t]
      BY <1>1
    <2> QED
      BY <2>1 DEF Consistent, NeverCrossed, Side
  <1> QED
    BY <1>1, <1>2, <1>4, <1>5

\* Advancing matchPrice's iterator.  When the first level was cleared and
\* erased, the next one is the new first level.
LEMMA NextLevelStep ==
    ASSUME Consistent, NextLevel
    PROVE  Consistent'
  <1> DEFINE s == Opposite(call.side)
  <1>1. /\ pc = "levelMatched" /\ pc' = "match" /\ event' = NoEvent
        /\ DropIfEmpty(s, level) /\ level' = After(s, level)
        /\ UNCHANGED <<orders, queue, call, remaining, result>>
    BY DEF NextLevel
  <1>2. /\ call \in Call /\ s \in Side
        /\ level \in Prices /\ level \in listed[s] /\ level = Begin(s)
        /\ listed[s] \in SUBSET Prices
    BY <1>1 DEF Consistent, InFlight, IteratorAtFirst, TypeOK, Call, Opposite, Side, PCs
  <1>3. /\ listed' \in [Side -> SUBSET Prices]
        /\ total' \in [Side -> [Prices -> Totals]]
        /\ listed'[s] = IF queue[s][level] = <<>> THEN listed[s] \ {level} ELSE listed[s]
        /\ EmptyLevelsArePassing'
        /\ NeverCrossed'
    <2>1. \A t \in Side, q \in Prices :
             q \in listed[t] /\ queue[t][q] = <<>> => t = s /\ q = level
      BY <1>1 DEF Consistent, EmptyLevelsArePassing
    <2> QED
      BY <1>1, <1>2, <2>1, DroppedLevel
  <1>4. level' \in Prices \cup {End}
    BY <1>1, <1>2, FirstOfType DEF After
  <1>5. remaining > 0 => level' = FirstOf(s, listed'[s])
    <2> SUFFICES ASSUME remaining > 0
                 PROVE  {q \in listed[s] : Ahead(s, level, q)} = listed'[s]
      BY <1>1 DEF After
    <2>1. listed'[s] = listed[s] \ {level}
      BY <1>1, <1>3 DEF Consistent, InFlight, IteratorAtFirst
    <2>2. \A q \in listed[s] : ~ Ahead(s, q, level)
      BY <1>2, FirstOfProperties DEF Begin
    <2>3. \A q \in listed[s] : Ahead(s, level, q) <=> q # level
      BY <1>2, <2>2, PriceAssumption DEF Ahead, Prices
    <2> QED
      BY <2>1, <2>3
  <1>6. TypeOK'
    BY <1>1, <1>3, <1>4 DEF Consistent, TypeOK, PCs, Live
  <1>7. InFlight'
    BY <1>1, <1>5 DEF Consistent, InFlight, PlacesOfCalls, CallersOrder, FilledOrder,
           IteratorAtFirst, NothingLeftToMatch, Matching, Begin, Live
  <1>8. RegistryMatchesLevels'
    <2>1. \A i : ~ Detached(i) /\ ~ Detached(i)'
      BY <1>1 DEF Detached
    <2> QED
      BY <1>1, <2>1 DEF Consistent, RegistryMatchesLevels, LinksAreLive,
                        LinksAreUnique, OrdersAreLinked, Live
  <1> QED
    BY <1>3, <1>6, <1>7, <1>8 DEF Consistent

\* removeOrder drops a level it emptied, then an amend inserts again and the
\* other calls erase the order.
LEMMA LeaveLevelStep ==
    ASSUME Consistent, LeaveLevel
    PROVE  Consistent'
  <1> DEFINE s == call.side
             p == orders[call.id].price
  <1>1. /\ pc = "unlinked" /\ event' = NoEvent
        /\ pc' = IF call.name = "amend" /\ remaining > 0 THEN "reinsert" ELSE "erase"
        /\ DropIfEmpty(s, p)
        /\ UNCHANGED <<orders, queue, call, remaining, level, result>>
    BY DEF LeaveLevel
  <1>2. /\ call \in Call /\ s \in Side /\ Opposite(s) # s /\ Opposite(s) \in Side
        /\ p \in Prices
    BY <1>1 DEF Consistent, InFlight, CallersOrder, TypeOK, Call, Order, Live,
                Opposite, Side
  <1>3. /\ listed' \in [Side -> SUBSET Prices]
        /\ total' \in [Side -> [Prices -> Totals]]
        /\ \A t \in Side : t # s => listed'[t] = listed[t]
        /\ EmptyLevelsArePassing'
        /\ NeverCrossed'
    <2>1. \A t \in Side, q \in Prices :
             q \in listed[t] /\ queue[t][q] = <<>> => t = s /\ q = p
      BY <1>1 DEF Consistent, EmptyLevelsArePassing
    <2> QED
      BY <1>1, <1>2, <2>1, DroppedLevel
  <1>4. TypeOK'
    BY <1>1, <1>3 DEF Consistent, TypeOK, PCs, Live
  <1>5. InFlight'
    <2>1. NothingLeftToMatch'
      BY <1>1, <1>2, <1>3 DEF Consistent, InFlight, NothingLeftToMatch
    <2> QED
      BY <1>1, <2>1 DEF Consistent, InFlight, PlacesOfCalls, CallersOrder, FilledOrder,
                        IteratorAtFirst, Matching, Live
  <1>6. RegistryMatchesLevels'
    <2>1. \A i : Detached(i) <=> Detached(i)'
      BY <1>1 DEF Detached
    <2> QED
      BY <1>1, <2>1 DEF Consistent, RegistryMatchesLevels, LinksAreLive,
                        LinksAreUnique, OrdersAreLinked, Live
  <1> QED
    BY <1>3, <1>4, <1>5, <1>6 DEF Consistent

\* cancel, and an amend that left nothing, destroy the unlinked order.
LEMMA EraseOrderStep ==
    ASSUME Consistent, EraseOrder
    PROVE  Consistent'
  <1>1. /\ pc = "erase" /\ pc' = "idle" /\ call' = NoCall /\ remaining' = 0
        /\ level' = End /\ event' = NoEvent /\ result' = "true"
        /\ Erase(call.id)
        /\ UNCHANGED <<listed, queue, total>>
    BY DEF EraseOrder, Finish
  <1>2. /\ RegistryMatchesLevels'
        /\ Live' \subseteq OrderIDs
        /\ orders' \in [Live' -> Order]
    <2>1. \A i : (Detached(i) <=> i = call.id) /\ ~ Detached(i)'
      BY <1>1 DEF Detached
    <2> QED
      BY <1>1, <2>1, ErasedOrder
  <1>3. TypeOK'
    BY <1>1, <1>2, QuantityAssumption DEF Consistent, TypeOK, PCs, Quantities
  <1>4. InFlight'
    BY <1>1 DEF InFlight, PlacesOfCalls, CallersOrder, FilledOrder,
                IteratorAtFirst, NothingLeftToMatch, Matching
  <1>5. EmptyLevelsArePassing' /\ NeverCrossed'
    BY <1>1 DEF Consistent, EmptyLevelsArePassing, NeverCrossed
  <1> QED
    BY <1>2, <1>3, <1>4, <1>5 DEF Consistent

\* replaceOrder starts a new order under the same id, on whatever side it
\* read, once the old order is destroyed.
LEMMA ReplaceAfterCancelStep ==
    ASSUME Consistent, ReplaceAfterCancel
    PROVE  Consistent'
  <1>0. PICK s \in Side : StartMatch([call EXCEPT !.name = "newOrder", !.side = s])
    BY DEF ReplaceAfterCancel
  <1>1. call \in Call
    BY DEF ReplaceAfterCancel, Consistent, TypeOK
  <1>2. /\ pc = "erase" /\ pc' = "match" /\ result' = "none"
        /\ call' \in Call /\ call' # NoCall
        /\ call'.name = "newOrder" /\ call'.id = call.id /\ call'.side = s
        /\ remaining' = call'.quantity /\ level' = Begin(Opposite(s))
        /\ Erase(call.id)
        /\ UNCHANGED <<listed, queue, total, event>>
    BY <1>0, <1>1 DEF ReplaceAfterCancel, StartMatch, Call, CallNames, NoCall
  <1>3. /\ RegistryMatchesLevels'
        /\ Live' = Live \ {call.id}
        /\ Live' \subseteq OrderIDs
        /\ orders' \in [Live' -> Order]
    <2>1. \A i : (Detached(i) <=> i = call.id) /\ ~ Detached(i)'
      BY <1>2 DEF Detached
    <2> QED
      BY <1>2, <2>1, ErasedOrder
  <1>4. TypeOK'
    <2>1. level' \in Prices \cup {End}
      BY <1>2, FirstOfType DEF Consistent, TypeOK, Begin, Opposite, Side
    <2>2. remaining' \in Quantities
      BY <1>2 DEF Call
    <2> QED
      BY <1>2, <1>3, <2>1, <2>2 DEF Consistent, TypeOK, PCs
  <1>5. InFlight'
    BY <1>2, <1>3 DEF InFlight, PlacesOfCalls, CallersOrder, FilledOrder,
                      IteratorAtFirst, NothingLeftToMatch, Matching, Begin
  <1>6. EmptyLevelsArePassing' /\ NeverCrossed'
    BY <1>2 DEF Consistent, EmptyLevelsArePassing, NeverCrossed
  <1> QED
    BY <1>3, <1>4, <1>5, <1>6 DEF Consistent

\* When the match is over with a quantity left, the price of the call meets
\* no level of the other side.
LEMMA MatchOverApart ==
    ASSUME Consistent, pc = "match", ~ CanMatch, remaining > 0
    PROVE  \A a \in listed[Opposite(call.side)] :
              Ahead(Opposite(call.side), call.price, a)
  <1> DEFINE s == Opposite(call.side)
  <1>1. call \in Call /\ s \in Side /\ listed[s] \in SUBSET Prices /\ call.price \in Prices
    BY DEF Consistent, TypeOK, PCs, Call, Opposite, Side
  <1>2. level = FirstOf(s, listed[s])
    BY DEF Consistent, InFlight, IteratorAtFirst, Begin
  <1>3. SUFFICES ASSUME NEW a \in listed[s] PROVE Ahead(s, call.price, a)
    OBVIOUS
  <1>4. level \in listed[s] /\ level # End /\ ~ Ahead(s, a, level)
    BY <1>1, <1>2, FirstOfProperties
  <1>5. Ahead(s, call.price, level)
    BY <1>4 DEF CanMatch
  <1> QED
    BY <1>1, <1>4, <1>5, PriceAssumption DEF Ahead, Prices

\* insertOrder of an order that no level holds, at a price that meets no
\* level of the other side.
LEMMA InsertedOrder ==
    ASSUME Consistent, NEW s \in Side, NEW p \in Prices, NEW id \in OrderIDs,
           NEW quantity \in Quantities, quantity > 0, Insert(s, p, id, quantity),
           \A i : Detached(i) => i = id,
           \A i : ~ Detached(i)',
           id \in Live => Detached(id),
           Live' = Live \cup {id},
           orders'[id] = [side |-> s, price |-> p, quantity |-> quantity],
           \A i \in Live \ {id} : orders'[i] = orders[i],
           \A t \in Side, o \in Prices : o \in listed[t] => queue[t][o] # <<>>,
           \A a \in listed[Opposite(s)] : Ahead(Opposite(s), p, a)
    PROVE  /\ listed' \in [Side -> SUBSET Prices]
           /\ queue' \in [Side -> [Prices -> Seq(OrderIDs)]]
           /\ total' \in [Side -> [Prices -> Totals]]
           /\ event' \in LevelEvents
           /\ RegistryMatchesLevels'
           /\ EmptyLevelsArePassing'
           /\ NeverCrossed'
  <1> DEFINE q == Append(queue[s][p], id)
             t == Plus(total[s][p], quantity)
  <1>0. /\ listed \in [Side -> SUBSET Prices]
        /\ queue \in [Side -> [Prices -> Seq(OrderIDs)]]
        /\ total \in [Side -> [Prices -> Totals]]
    BY DEF Consistent, TypeOK
  <1>1. \A u \in Side, o \in Prices : id \notin Range(queue[u][o])
    BY DEF Consistent, RegistryMatchesLevels, LinksAreLive
  <1>2. /\ q \in Seq(OrderIDs) /\ q # <<>>
        /\ Range(q) = Range(queue[s][p]) \cup {id}
        /\ IsInjective(q)
    <2>1. queue[s][p] \in Seq(OrderIDs) /\ id \notin Range(queue[s][p])
      BY <1>0, <1>1
    <2>2. IsInjective(queue[s][p])
      BY DEF Consistent, RegistryMatchesLevels, LinksAreUnique
    <2> QED
      BY <2>1, <2>2, AppendQueue
  <1>3. t \in Totals
    <2>1. total[s][p] \in Totals
      BY <1>0
    <2> QED
      BY <2>1, QuantityAssumption DEF Plus, Totals, Quantities
  <1>4. /\ listed' = [listed EXCEPT ![s] = @ \cup {p}]
        /\ queue' = [queue EXCEPT ![s][p] = q]
        /\ total' = [total EXCEPT ![s][p] = t]
        /\ event' = LevelEvent(s, p, q, t)
    BY DEF Insert
  <1> HIDE DEF q, t
  <1>5. /\ listed' \in [Side -> SUBSET Prices]
        /\ listed'[s] = listed[s] \cup {p}
        /\ \A u \in Side : u # s => listed'[u] = listed[u]
    BY <1>0, <1>4
  <1>6. /\ queue' \in [Side -> [Prices -> Seq(OrderIDs)]]
        /\ queue'[s][p] = q
        /\ \A u \in Side, o \in Prices :
              ~ (u = s /\ o = p) => queue'[u][o] = queue[u][o]
    BY <1>0, <1>2, <1>4
  <1>7. /\ total' \in [Side -> [Prices -> Totals]]
        /\ \A u \in Side, o \in Prices :
              ~ (u = s /\ o = p) => total'[u][o] = total[u][o]
    BY <1>0, <1>3, <1>4
  <1>8. event' \in LevelEvents
    <2>1. Len(q) \in Nat
      BY <1>2, QueueRange
    <2> QED
      BY <1>3, <1>4, <2>1 DEF LevelEvent, LevelEvents
  <1>9. \A u \in Side, o \in Prices :
           Range(queue'[u][o]) = IF u = s /\ o = p THEN Range(queue[u][o]) \cup {id}
                                 ELSE Range(queue[u][o])
    BY <1>2, <1>6
  <1>10. LinksAreLive'
    <2> SUFFICES ASSUME NEW u \in Side, NEW o \in Prices, NEW i \in Range(queue'[u][o])
                 PROVE  i \in Live' /\ orders'[i].side = u /\ orders'[i].price = o
      BY DEF LinksAreLive
    <2>1. CASE i = id
      <3>1. u = s /\ o = p
        BY <1>1, <1>9, <2>1
      <3> QED
        BY <2>1, <3>1
    <2>2. CASE i # id
      <3>1. i \in Range(queue[u][o])
        BY <1>9, <2>2
      <3>2. i \in Live /\ orders[i].side = u /\ orders[i].price = o
        BY <3>1 DEF Consistent, RegistryMatchesLevels, LinksAreLive
      <3> QED
        BY <2>2, <3>2
    <2> QED
      BY <2>1, <2>2
  <1>11. LinksAreUnique'
    BY <1>2, <1>6 DEF Consistent, RegistryMatchesLevels, LinksAreUnique
  <1>12. OrdersAreLinked'
    <2> SUFFICES ASSUME NEW i \in Live'
                 PROVE  /\ orders'[i].quantity > 0
                        /\ i \in Range(queue'[orders'[i].side][orders'[i].price])
      BY DEF OrdersAreLinked
    <2>1. CASE i = id
      <3>1. /\ orders'[i].quantity = quantity
            /\ orders'[i].side = s /\ orders'[i].price = p
        BY <2>1
      <3>2. i \in Range(queue'[s][p])
        BY <1>9, <2>1
      <3> QED
        BY <3>1, <3>2
    <2>2. CASE i # id
      <3>1. i \in Live /\ orders'[i] = orders[i] /\ orders[i] \in Order
        BY <2>2 DEF Consistent, TypeOK
      <3>2. /\ orders[i].quantity > 0
            /\ i \in Range(queue[orders[i].side][orders[i].price])
        BY <2>2, <3>1 DEF Consistent, RegistryMatchesLevels, OrdersAreLinked
      <3> QED
        BY <1>9, <3>1, <3>2 DEF Order
    <2> QED
      BY <2>1, <2>2
  <1>13. EmptyLevelsArePassing'
    <2> SUFFICES ASSUME NEW u \in Side, NEW o \in Prices
                 PROVE  /\ o \notin listed'[u] => queue'[u][o] = <<>> /\ total'[u][o] = 0
                        /\ o \in listed'[u] => queue'[u][o] # <<>>
      BY DEF EmptyLevelsArePassing
    <2>1. CASE u = s /\ o = p
      BY <1>2, <1>5, <1>6, <2>1
    <2>2. CASE ~ (u = s /\ o = p)
      <3>1. o \in listed'[u] <=> o \in listed[u]
        BY <1>5, <2>2
      <3>2. queue'[u][o] = queue[u][o] /\ total'[u][o] = total[u][o]
        BY <1>6, <1>7, <2>2
      <3>3. o \notin listed[u] => queue[u][o] = <<>> /\ total[u][o] = 0
        BY DEF Consistent, EmptyLevelsArePassing
      <3> QED
        BY <3>1, <3>2, <3>3
    <2> QED
      BY <2>1, <2>2
  <1>14. NeverCrossed'
    <2> SUFFICES ASSUME NEW b \in listed'["BID"], NEW a \in listed'["ASK"]
                 PROVE  b < a
      BY DEF NeverCrossed
    <2>1. CASE s = "BID"
      BY <1>5, <2>1 DEF Side, Opposite, Ahead, Consistent, NeverCrossed
    <2>2. CASE s = "ASK"
      BY <1>5, <2>2, <1>0, PriceAssumption
         DEF Side, Opposite, Ahead, Consistent, NeverCrossed, Prices
    <2> QED
      BY <2>1, <2>2 DEF Side
  <1> QED
    BY <1>5, <1>6, <1>7, <1>8, <1>10, <1>11, <1>12, <1>13, <1>14 DEF RegistryMatchesLevels

\* emplaceOrder: what a new order did not trade rests on its own side.
LEMMA RestStep ==
    ASSUME Consistent, Rest
    PROVE  Consistent'
  <1> DEFINE s == call.side
             order == [side |-> s, price |-> call.price, quantity |-> remaining]
  <1>1. /\ pc = "match" /\ ~ CanMatch /\ call.name = "newOrder" /\ remaining > 0
        /\ pc' = "rested" /\ Create(call.id, order)
        /\ Insert(s, call.price, call.id, remaining)
        /\ UNCHANGED <<call, remaining, level, result>>
    BY DEF Rest, MatchOver
  <1>2. /\ call \in Call /\ s \in Side /\ call.price \in Prices
        /\ call.id \in OrderIDs /\ remaining \in Quantities /\ order \in Order
        /\ call.id \notin Live
    BY <1>1 DEF Consistent, TypeOK, Call, Order, InFlight, CallersOrder, Matching
  <1> HIDE DEF order
  <1>3. /\ Live' = Live \cup {call.id}
        /\ orders'[call.id] = order
        /\ \A i \in Live \ {call.id} : orders'[i] = orders[i]
        /\ orders' \in [Live' -> Order]
    <2>1. orders' = [i \in Live \cup {call.id} |->
                        IF i = call.id THEN order ELSE orders[i]]
      BY <1>1 DEF Create
    <2>2. orders \in [Live -> Order]
      BY DEF Consistent, TypeOK
    <2>3. Live' = Live \cup {call.id}
      BY <2>1 DEF Live
    <2>4. \A i \in Live \cup {call.id} :
             (IF i = call.id THEN order ELSE orders[i]) \in Order
      BY <1>2, <2>2
    <2> QED
      BY <2>1, <2>3, <2>4
  <1>4. /\ listed' \in [Side -> SUBSET Prices]
        /\ queue' \in [Side -> [Prices -> Seq(OrderIDs)]]
        /\ total' \in [Side -> [Prices -> Totals]]
        /\ event' \in LevelEvents
        /\ RegistryMatchesLevels'
        /\ EmptyLevelsArePassing'
        /\ NeverCrossed'
    <2>1. \A i : ~ Detached(i) /\ ~ Detached(i)'
      BY <1>1 DEF Detached
    <2>2. \A t \in Side, o \in Prices : o \in listed[t] => queue[t][o] # <<>>
      BY <1>1 DEF Consistent, EmptyLevelsArePassing
    <2>3. \A a \in listed[Opposite(s)] : Ahead(Opposite(s), call.price, a)
      BY <1>1, MatchOverApart
    <2> QED
      BY <1>1, <1>2, <1>3, <2>1, <2>2, <2>3, InsertedOrder DEF order
  <1>5. TypeOK'
    <2>1. Live' \subseteq OrderIDs
      BY <1>2, <1>3 DEF Consistent, TypeOK
    <2> QED
      BY <1>1, <1>3, <1>4, <2>1 DEF Consistent, TypeOK, PCs
  <1>6. InFlight'
    BY <1>1 DEF InFlight, PlacesOfCalls, CallersOrder, FilledOrder,
                IteratorAtFirst, NothingLeftToMatch, Matching
  <1> QED
    BY <1>4, <1>5, <1>6 DEF Consistent

\* An amended order joins the level of its new price.
LEMMA ReinsertStep ==
    ASSUME Consistent, Reinsert
    PROVE  Consistent'
  <1> DEFINE s == call.side
             order == [side |-> s, price |-> call.price, quantity |-> remaining]
  <1>1. /\ pc = "reinsert" /\ pc' = "return"
        /\ orders' = [orders EXCEPT ![call.id] =
                         [side |-> @.side, price |-> call.price, quantity |-> remaining]]
        /\ Insert(s, call.price, call.id, remaining)
        /\ UNCHANGED <<call, remaining, level, result>>
    BY DEF Reinsert
  <1>2. /\ call \in Call /\ s \in Side /\ call.price \in Prices
        /\ call.name = "amend" /\ remaining > 0 /\ remaining \in Quantities
        /\ call.id \in Live /\ call.id \in OrderIDs
        /\ orders[call.id] \in Order /\ orders[call.id].side = s
        /\ orders \in [Live -> Order]
    BY <1>1 DEF Consistent, TypeOK, Call, InFlight, PlacesOfCalls, CallersOrder
  <1>3. /\ Live' = Live
        /\ orders'[call.id] = order
        /\ \A i \in Live \ {call.id} : orders'[i] = orders[i]
        /\ orders' \in [Live' -> Order]
    <2>1. order \in Order
      BY <1>2 DEF Order
    <2>2. orders' = [orders EXCEPT ![call.id] = order]
      BY <1>1, <1>2
    <2>3. Live' = Live
      BY <1>2, <2>2 DEF Live
    <2> QED
      BY <1>2, <2>1, <2>2, <2>3
  <1> HIDE DEF order
  <1>4. /\ listed' \in [Side -> SUBSET Prices]
        /\ queue' \in [Side -> [Prices -> Seq(OrderIDs)]]
        /\ total' \in [Side -> [Prices -> Totals]]
        /\ event' \in LevelEvents
        /\ RegistryMatchesLevels'
        /\ EmptyLevelsArePassing'
        /\ NeverCrossed'
    <2>1. \A i : (Detached(i) <=> i = call.id) /\ ~ Detached(i)'
      BY <1>1 DEF Detached
    <2>2. \A t \in Side, o \in Prices : o \in listed[t] => queue[t][o] # <<>>
      BY <1>1 DEF Consistent, EmptyLevelsArePassing
    <2>3. \A a \in listed[Opposite(s)] : Ahead(Opposite(s), call.price, a)
      BY <1>1, <1>2 DEF Consistent, InFlight, NothingLeftToMatch
    <2>4. Live' = Live \cup {call.id}
      BY <1>2, <1>3
    <2> QED
      BY <1>1, <1>2, <1>3, <2>1, <2>2, <2>3, <2>4, InsertedOrder DEF order
  <1>5. TypeOK'
    BY <1>1, <1>3, <1>4 DEF Consistent, TypeOK, PCs
  <1>6. InFlight'
    BY <1>1 DEF InFlight, PlacesOfCalls, CallersOrder, FilledOrder,
                IteratorAtFirst, NothingLeftToMatch, Matching
  <1> QED
    BY <1>4, <1>5, <1>6 DEF Consistent

\* removeOrder unlinks the order of the call from the level it is in.
LEMMA UnlinkStep ==
    ASSUME Consistent, Unlink
    PROVE  Consistent'
  <1> DEFINE s == call.side
             p == orders[call.id].price
             q == Unlinked(queue[s][p], call.id)
             t == Minus(total[s][p], orders[call.id].quantity)
  <1>1. /\ \/ pc = "match" /\ ~ CanMatch /\ call.name = "amend"
           \/ pc = "unlink"
        /\ p \in listed[s]
        /\ queue' = [queue EXCEPT ![s][p] = q]
        /\ total' = [total EXCEPT ![s][p] = t]
        /\ event' = LevelEvent(s, p, q, t)
        /\ pc' = "unlinked"
        /\ UNCHANGED <<orders, listed, call, remaining, level, result>>
    BY DEF Unlink, MatchOver
  <1>2. /\ queue \in [Side -> [Prices -> Seq(OrderIDs)]]
        /\ total \in [Side -> [Prices -> Totals]]
        /\ call \in Call /\ s \in Side
    BY <1>1 DEF Consistent, TypeOK, Call
  <1>3. /\ call.id \in Live /\ orders[call.id] \in Order /\ orders[call.id].side = s
        /\ p \in Prices
    BY <1>1 DEF Consistent, TypeOK, InFlight, CallersOrder, Matching, PlacesOfCalls, Order
  <1>4. \A i : /\ ~ Detached(i)
               /\ Detached(i)' <=> i = call.id
    BY <1>1 DEF Detached
  <1>5. /\ q \in Seq(OrderIDs)
        /\ Range(q) = Range(queue[s][p]) \ {call.id}
        /\ IsInjective(q)
    <2>1. queue[s][p] \in Seq(OrderIDs) /\ IsInjective(queue[s][p])
      BY <1>2, <1>3 DEF Consistent, RegistryMatchesLevels, LinksAreUnique
    <2>2. call.id \in Range(queue[s][p])
      BY <1>3, <1>4 DEF Consistent, RegistryMatchesLevels, OrdersAreLinked
    <2> QED
      BY <2>1, <2>2, UnlinkedQueue
  <1>6. t \in Totals
    <2>1. total[s][p] \in Totals /\ orders[call.id].quantity \in Quantities
      BY <1>2, <1>3 DEF Order
    <2> QED
      BY <2>1, QuantityAssumption DEF Minus, Totals, Quantities
  <1> HIDE DEF q, t
  <1>7. /\ queue' \in [Side -> [Prices -> Seq(OrderIDs)]]
        /\ queue'[s][p] = q
        /\ \A u \in Side, o \in Prices :
              ~ (u = s /\ o = p) => queue'[u][o] = queue[u][o]
    BY <1>1, <1>2, <1>3, <1>5
  <1>8. /\ total' \in [Side -> [Prices -> Totals]]
        /\ \A u \in Side, o \in Prices :
              ~ (u = s /\ o = p) => total'[u][o] = total[u][o]
    BY <1>1, <1>2, <1>3, <1>6
  <1>9. event' \in LevelEvents
    <2>1. Len(q) \in Nat
      BY <1>5, QueueRange
    <2> QED
      BY <1>1, <1>2, <1>3, <1>6, <2>1 DEF LevelEvent, LevelEvents
  <1>10. TypeOK'
    BY <1>1, <1>7, <1>8, <1>9 DEF Consistent, TypeOK, PCs, Live
  <1>11. InFlight'
    <2>1. PlacesOfCalls' /\ CallersOrder'
      BY <1>1, <1>3 DEF Consistent, InFlight, PlacesOfCalls, CallersOrder, Matching, Live
    <2>2. NothingLeftToMatch'
      <3>1. call.name = "amend" => pc = "match" /\ ~ CanMatch
        BY <1>1 DEF Consistent, InFlight, PlacesOfCalls
      <3> QED
        BY <1>1, <3>1, MatchOverApart DEF NothingLeftToMatch
    <2> QED
      BY <1>1, <2>1, <2>2 DEF InFlight, FilledOrder, IteratorAtFirst
  <1>12. \A u \in Side, o \in Prices :
            Range(queue'[u][o]) = Range(queue[u][o]) \ {call.id}
    <2> SUFFICES ASSUME NEW u \in Side, NEW o \in Prices
                 PROVE  Range(queue'[u][o]) = Range(queue[u][o]) \ {call.id}
      OBVIOUS
    <2>1. CASE u = s /\ o = p
      BY <1>5, <1>7, <2>1
    <2>2. CASE ~ (u = s /\ o = p)
      <3>1. call.id \notin Range(queue[u][o])
        BY <1>3, <2>2 DEF Consistent, RegistryMatchesLevels, LinksAreLive
      <3> QED
        BY <1>7, <2>2, <3>1
    <2> QED
      BY <2>1, <2>2
  <1>13. LinksAreLive'
    BY <1>1, <1>4, <1>12 DEF Consistent, RegistryMatchesLevels, LinksAreLive, Live
  <1>14. LinksAreUnique'
    BY <1>5, <1>7 DEF Consistent, RegistryMatchesLevels, LinksAreUnique
  <1>15. OrdersAreLinked'
    <2> SUFFICES ASSUME NEW i \in Live, i # call.id
                 PROVE  /\ orders[i].quantity > 0
                        /\ i \in Range(queue'[orders[i].side][orders[i].price])
      BY <1>1, <1>4 DEF OrdersAreLinked, Live
    <2>1. orders[i].quantity > 0 /\ i \in Range(queue[orders[i].side][orders[i].price])
      BY <1>4 DEF Consistent, RegistryMatchesLevels, OrdersAreLinked
    <2>2. orders[i].side \in Side /\ orders[i].price \in Prices
      BY DEF Consistent, TypeOK, Order
    <2> QED
      BY <1>12, <2>1, <2>2
  <1>16. EmptyLevelsArePassing'
    <2> SUFFICES ASSUME NEW u \in Side, NEW o \in Prices
                 PROVE  /\ o \notin listed[u] => queue'[u][o] = <<>> /\ total'[u][o] = 0
                        /\ o \in listed[u] /\ queue'[u][o] = <<>> => u = s /\ o = p
      BY <1>1 DEF EmptyLevelsArePassing
    <2>1. CASE u = s /\ o = p
      BY <1>1, <2>1
    <2>2. CASE ~ (u = s /\ o = p)
      <3>1. queue'[u][o] = queue[u][o] /\ total'[u][o] = total[u][o]
        BY <1>7, <1>8, <2>2
      <3>2. /\ o \notin listed[u] => queue[u][o] = <<>> /\ total[u][o] = 0
            /\ ~ (o \in listed[u] /\ queue[u][o] = <<>>)
        BY <1>1, <2>2 DEF Consistent, EmptyLevelsArePassing
      <3> QED
        BY <3>1, <3>2
    <2> QED
      BY <2>1, <2>2
  <1>17. NeverCrossed'
    BY <1>1 DEF Consistent, NeverCrossed
  <1> QED
    BY <1>10, <1>11, <1>13, <1>14, <1>15, <1>16, <1>17 DEF Consistent, RegistryMatchesLevels

\* Every step of a caller or of the running call keeps the book consistent.
LEMMA NextConsistent == Consistent /\ [Next]_vars => Consistent'
  <1> SUFFICES ASSUME Consistent, [Next]_vars
               PROVE  Consistent'
    OBVIOUS
  <1>1. CASE Request
    <2> PICK id \in OrderIDs :
           \/ \E s \in Side, p \in Prices, q \in Quantities : NewOrder(id, s, p, q)
           \/ \E p \in Prices, q \in Quantities : Amend(id, p, q)
           \/ \E q \in Quantities : AmendDelta(id, q)
           \/ Cancel(id)
           \/ \E p \in Prices, q \in Quantities : ReplaceOrder(id, p, q)
           \/ RefuseDuplicate(id)
           \/ RefuseUnknown(id)
           \/ \E s \in Side : RefuseSide(id, s)
      BY <1>1 DEF Request
    <2>1. CASE \E s \in Side, p \in Prices, q \in Quantities : NewOrder(id, s, p, q)
      BY <2>1, NewOrderStep
    <2>2. CASE \E p \in Prices, q \in Quantities : Amend(id, p, q)
      BY <2>2, AmendStep
    <2>3. CASE \E q \in Quantities : AmendDelta(id, q)
      BY <2>3, AmendDeltaStep
    <2>4. CASE Cancel(id)
      BY <2>4, CancelStep
    <2>5. CASE \E p \in Prices, q \in Quantities : ReplaceOrder(id, p, q)
      BY <2>5, ReplaceOrderStep
    <2>6. CASE RefuseDuplicate(id) \/ RefuseUnknown(id) \/ \E s \in Side : RefuseSide(id, s)
      BY <2>6, RefuseStep DEF RefuseDuplicate, RefuseUnknown, RefuseSide
    <2> QED
      BY <2>1, <2>2, <2>3, <2>4, <2>5, <2>6
  <1>2. CASE EnterLevel
    BY <1>2, EnterLevelStep
  <1>3. CASE Fill
    BY <1>3, FillStep
  <1>4. CASE OnFilled
    BY <1>4, OnFilledStep
  <1>5. CASE LevelMatched
    BY <1>5, LevelMatchedStep
  <1>6. CASE NextLevel
    BY <1>6, NextLevelStep
  <1>7. CASE Rest
    BY <1>7, RestStep
  <1>8. CASE Notify
    BY <1>8, NotifyStep
  <1>9. CASE Unlink
    BY <1>9, UnlinkStep
  <1>10. CASE LeaveLevel
    BY <1>10, LeaveLevelStep
  <1>11. CASE Reinsert
    BY <1>11, ReinsertStep
  <1>12. CASE Return
    BY <1>12, ReturnedStep
  <1>13. CASE EraseOrder
    BY <1>13, EraseOrderStep
  <1>14. CASE ReplaceAfterCancel
    BY <1>14, ReplaceAfterCancelStep
  <1>15. CASE UNCHANGED vars
    <2>1. \A i : Detached(i) <=> Detached(i)'
      BY <1>15 DEF vars, Detached
    <2>2. TypeOK' /\ InFlight'
      BY <1>15 DEF vars, Consistent, TypeOK, Live, InFlight, PlacesOfCalls,
                   CallersOrder, FilledOrder, IteratorAtFirst,
                   NothingLeftToMatch, Matching, Begin
    <2>3. RegistryMatchesLevels' /\ EmptyLevelsArePassing' /\ NeverCrossed'
      BY <1>15, <2>1 DEF vars, Consistent, RegistryMatchesLevels, LinksAreLive,
                         LinksAreUnique, OrdersAreLinked, Live,
                         EmptyLevelsArePassing, NeverCrossed
    <2> QED
      BY <2>2, <2>3 DEF Consistent
  <1> QED
    BY <1>1, <1>2, <1>3, <1>4, <1>5, <1>6, <1>7, <1>8, <1>9, <1>10, <1>11,
       <1>12, <1>13, <1>14, <1>15 DEF Next, Step

-----------------------------------------------------------------------------
(* The theorems.                                                           *)

\* The inductive invariant holds in every state of every behaviour of the
\* order book.
THEOREM AlwaysConsistent == Spec => []Consistent
  BY InitConsistent, NextConsistent, PTL DEF Spec

\* Every variable keeps its type: in particular no quantity of an order and
\* no remainder of a match goes below zero in the unsigned arithmetic of
\* matchAgainst and amendDelta.
THEOREM TypeCorrect == Spec => []TypeOK
  <1>1. Consistent => TypeOK
    BY DEF Consistent
  <1> QED
    BY <1>1, AlwaysConsistent, PTL

\* What the code between two callbacks may rely on: matchPrice's iterator is
\* at the first level, on_filled is told about a live order of the other
\* side, an amended remainder meets nothing, and the caller's order lives.
THEOREM InFlightHolds == Spec => []InFlight
  <1>1. Consistent => InFlight
    BY DEF Consistent
  <1> QED
    BY <1>1, AlwaysConsistent, PTL

\* Registry and levels describe the same orders in every state: no level
\* links a destroyed, a misplaced or a twice linked order, and no live order
\* with a quantity is outside its level unless the running call holds it.
THEOREM RegistryAlwaysMatchesLevels == Spec => []RegistryMatchesLevels
  <1>1. Consistent => RegistryMatchesLevels
    BY DEF Consistent
  <1> QED
    BY <1>1, AlwaysConsistent, PTL

\* No state, also none in the middle of a call, has a bid at or above an ask.
THEOREM BookNeverCrossed == Spec => []NeverCrossed
  <1>1. Consistent => NeverCrossed
    BY DEF Consistent
  <1> QED
    BY <1>1, AlwaysConsistent, PTL

\* A level without orders is in the map only while the call that emptied it
\* reports it, and a level outside the map holds no order and no total.
THEOREM EmptyLevelsAlwaysPass == Spec => []EmptyLevelsArePassing
  <1>1. Consistent => EmptyLevelsArePassing
    BY DEF Consistent
  <1> QED
    BY <1>1, AlwaysConsistent, PTL

\* Only matchAgainst sends a TradeEvent.
LEMMA OnlyFillTrades ==
    ASSUME [Next]_vars, event' # event, event'.type = "Trade"
    PROVE  Fill
  <1>1. CASE Request
    BY <1>1 DEF Request, NewOrder, Amend, AmendDelta, Cancel, ReplaceOrder, StartMatch,
                StartUnlink, RefuseDuplicate, RefuseUnknown, RefuseSide, Refuse
  <1>2. CASE EnterLevel \/ OnFilled \/ NextLevel \/ LeaveLevel \/ Return \/ EraseOrder
             \/ ReplaceAfterCancel
    <2>1. event' = event \/ event' = NoEvent
      BY <1>2, Zenon DEF EnterLevel, OnFilled, NextLevel, LeaveLevel, Return, EraseOrder,
                         ReplaceAfterCancel, Finish
    <2> QED
      BY <2>1 DEF NoEvent
  <1>3. CASE LevelMatched \/ Rest \/ Unlink \/ Reinsert \/ Notify
    BY <1>3 DEF LevelMatched, Rest, Unlink, Reinsert, Notify, Insert, LevelEvent
  <1>4. CASE UNCHANGED vars
    BY <1>4 DEF vars
  <1> QED
    BY <1>1, <1>2, <1>3, <1>4 DEF Next, Step

\* Price-time priority: matchAgainst trades with the order that is first by
\* price and, at that price, first by time of all live orders of the side.
LEMMA FillIsWithFirst ==
    ASSUME Consistent, Fill
    PROVE  TradeIsWithFirst
  <1> DEFINE s == Opposite(call.side)
             id == Resting
             q == queue[s][level]
  <1>1. /\ call \in Call /\ s \in Side /\ level \in Prices
        /\ q \in Seq(OrderIDs) /\ id \in Live
        /\ orders[id].side = s /\ orders[id].price = level
    BY RestingOrder
  <1>2. event'.id = id /\ event'.aggressor = call.side /\ pc = "fill"
    BY DEF Fill
  <1>3. q # <<>> /\ id = q[1]
    BY DEF Fill, Resting
  <1>4. \A p \in listed[s] : ~ Ahead(s, p, level)
    <2>1. level = Begin(s) /\ level \in listed[s] /\ listed[s] \in SUBSET Prices
      BY <1>1, <1>2 DEF Consistent, InFlight, IteratorAtFirst, TypeOK
    <2> QED
      BY <1>1, <2>1, FirstOfProperties DEF Begin
  <1> HIDE DEF id, q
  <1>5. SUFFICES ASSUME NEW other \in Live \ {id}, orders[other].side = s
                 PROVE  /\ ~ Ahead(s, orders[other].price, level)
                        /\ orders[other].price = level => Before(q, id, other)
    <2>1. s # call.side
      BY <1>1 DEF Call, Side, Opposite
    <2> QED
      BY <1>1, <1>2, <2>1 DEF TradeIsWithFirst, q
  <1>6. /\ other \in Range(queue[s][orders[other].price])
        /\ orders[other].price \in Prices
    <2>1. ~ Detached(other)
      BY <1>2 DEF Detached
    <2>2. orders[other] \in Order
      BY DEF Consistent, TypeOK
    <2> QED
      BY <1>5, <2>1, <2>2 DEF Consistent, RegistryMatchesLevels, OrdersAreLinked, Order
  <1>7. orders[other].price \in listed[s]
    <2>1. queue[s][orders[other].price] # <<>>
      BY <1>6 DEF Range
    <2> QED
      BY <1>1, <1>6, <2>1 DEF Consistent, EmptyLevelsArePassing
  <1>8. ASSUME orders[other].price = level
        PROVE  Before(q, id, other)
    <2>1. PICK j \in DOMAIN q : q[j] = other
      BY <1>6, <1>8 DEF Range, q
    <2>2. 1 \in DOMAIN q /\ DOMAIN q = 1 .. Len(q) /\ Len(q) \in Nat
      BY <1>1, <1>3
    <2>3. 1 < j
      BY <1>3, <2>1, <2>2
    <2> QED
      BY <1>3, <2>1, <2>2, <2>3 DEF Before
  <1> QED
    BY <1>4, <1>7, <1>8

\* Every trade of every behaviour respects price-time priority.
THEOREM TradesKeepPriority == Spec => PriceTimePriority
  <1>1. Consistent /\ [Next]_vars => [TradeIsWithFirst]_vars
    <2> SUFFICES ASSUME Consistent, [Next]_vars, event' # event, event'.type = "Trade"
                 PROVE  TradeIsWithFirst
      BY DEF TradeIsWithFirst
    <2> QED
      BY OnlyFillTrades, FillIsWithFirst
  <1> QED
    BY <1>1, AlwaysConsistent, PTL DEF Spec, PriceTimePriority

\* A step that leaves the queues alone, appends to one or unlinks from one.
LEMMA QueueSteps ==
    ASSUME Consistent, [Next]_vars
    PROVE  \/ UNCHANGED queue
           \/ \E s \in Side, p \in Prices, id \in OrderIDs :
                 /\ id \notin Range(queue[s][p])
                 /\ queue' = [queue EXCEPT ![s][p] = Append(queue[s][p], id)]
           \/ \E s \in Side, p \in Prices : \E id \in Range(queue[s][p]) :
                 queue' = [queue EXCEPT ![s][p] = Unlinked(queue[s][p], id)]
  <1>1. CASE Request \/ UNCHANGED vars
    BY <1>1 DEF Request, NewOrder, Amend, AmendDelta, Cancel, ReplaceOrder, StartMatch,
                StartUnlink, RefuseDuplicate, RefuseUnknown, RefuseSide, Refuse, vars
  <1>2. CASE EnterLevel \/ OnFilled \/ LevelMatched \/ NextLevel \/ Notify \/ LeaveLevel
             \/ Return \/ EraseOrder \/ ReplaceAfterCancel
    BY <1>2 DEF EnterLevel, OnFilled, LevelMatched, NextLevel, Notify, LeaveLevel,
                Return, EraseOrder, ReplaceAfterCancel
  <1>3. CASE Fill
    <2>1. /\ Opposite(call.side) \in Side /\ level \in Prices
          /\ Resting \in Range(queue[Opposite(call.side)][level])
      BY <1>3, RestingOrder
    <2> QED
      BY <1>3, <2>1 DEF Fill
  <1>4. CASE Rest \/ Reinsert
    <2>1. /\ call \in Call /\ queue' = [queue EXCEPT ![call.side][call.price] =
                                           Append(queue[call.side][call.price], call.id)]
      BY <1>4 DEF Rest, Reinsert, MatchOver, Insert, Consistent, TypeOK
    <2>2. call.side \in Side /\ call.price \in Prices /\ call.id \in OrderIDs
      BY <2>1 DEF Call
    <2>3. call.id \notin Live \/ Detached(call.id)
      BY <1>4 DEF Rest, Reinsert, MatchOver, Detached, Consistent, InFlight,
                  CallersOrder, Matching
    <2>4. call.id \notin Range(queue[call.side][call.price])
      BY <2>2, <2>3 DEF Consistent, RegistryMatchesLevels, LinksAreLive
    <2> QED
      BY <2>1, <2>2, <2>4
  <1>5. CASE Unlink
    <2> DEFINE s == call.side
               p == orders[call.id].price
    <2>1. /\ call \in Call
          /\ call.id \in Live /\ orders[call.id] \in Order /\ orders[call.id].side = s
          /\ ~ Detached(call.id)
      BY <1>5 DEF Unlink, MatchOver, Consistent, TypeOK, InFlight, CallersOrder,
                  Matching, PlacesOfCalls, Detached
    <2>2. call.id \in Range(queue[s][p])
      BY <2>1 DEF Consistent, RegistryMatchesLevels, OrdersAreLinked
    <2>3. s \in Side /\ p \in Prices
      BY <2>1 DEF Call, Order
    <2> QED
      BY <1>5, <2>2, <2>3 DEF Unlink
  <1> QED
    BY <1>1, <1>2, <1>3, <1>4, <1>5 DEF Next, Step

\* In every behaviour an order of a level is never overtaken while it stays.
THEOREM ArrivalOrderKept == Spec => NeverOvertaken
  <1>1. Consistent /\ [Next]_vars => [KeepsArrivalOrder]_vars
    <2> SUFFICES ASSUME Consistent, [Next]_vars
                 PROVE  KeepsArrivalOrder
      OBVIOUS
    <2> SUFFICES ASSUME NEW t \in Side, NEW o \in Prices,
                        NEW first, NEW second \in Range(queue[t][o]),
                        Before(queue'[t][o], first, second)
                 PROVE  Before(queue[t][o], first, second)
      BY DEF KeepsArrivalOrder
    <2>1. queue \in [Side -> [Prices -> Seq(OrderIDs)]] /\ IsInjective(queue[t][o])
      BY DEF Consistent, TypeOK, RegistryMatchesLevels, LinksAreUnique
    <2>2. CASE UNCHANGED queue
      BY <2>2
    <2>3. ASSUME NEW s \in Side, NEW p \in Prices, NEW id \in OrderIDs,
                 id \notin Range(queue[s][p]),
                 queue' = [queue EXCEPT ![s][p] = Append(queue[s][p], id)]
          PROVE  Before(queue[t][o], first, second)
      <3>1. queue'[t][o] = IF t = s /\ o = p THEN Append(queue[t][o], id) ELSE queue[t][o]
        BY <2>1, <2>3
      <3>2. queue[t][o] \in Seq(OrderIDs)
        BY <2>1
      <3> QED
        BY <2>1, <2>3, <3>1, <3>2, AppendQueue
    <2>4. ASSUME NEW s \in Side, NEW p \in Prices, NEW id \in Range(queue[s][p]),
                 queue' = [queue EXCEPT ![s][p] = Unlinked(queue[s][p], id)]
          PROVE  Before(queue[t][o], first, second)
      <3>1. queue'[t][o] = IF t = s /\ o = p THEN Unlinked(queue[t][o], id) ELSE queue[t][o]
        BY <2>1, <2>4
      <3>2. queue[t][o] \in Seq(OrderIDs)
        BY <2>1
      <3> QED
        BY <2>1, <2>4, <3>1, <3>2, UnlinkedQueue
    <2> QED
      BY <2>2, <2>3, <2>4, QueueSteps
  <1> QED
    BY <1>1, AlwaysConsistent, PTL DEF Spec, NeverOvertaken

-----------------------------------------------------------------------------
(* Sums.                                                                   *)

\* The quantities that the registry o has for the orders of queue q, summed.
LevelSum(o, q) == MapThenSumSet(LAMBDA i : o[q[i]].quantity, 1 .. Len(q))

\* Every order of queue q has a quantity in registry o.
Counted(o, q) == \A i \in 1 .. Len(q) : o[q[i]].quantity \in Nat

\* The sums over the orders up to each place of the queue.
PrefixSums(v, o, q) ==
    /\ v[0] = 0
    /\ \A k \in 0 .. Len(q) : v[k] \in Nat
    /\ \A k \in 0 .. Len(q) - 1 : v[k + 1] = v[k] + o[q[k + 1]].quantity

\* The sum over a queue is the last of its prefix sums.
LEMMA LevelSumIterates ==
    ASSUME NEW T, NEW q \in Seq(T), NEW o, Counted(o, q)
    PROVE  \E v : PrefixSums(v, o, q) /\ LevelSum(o, q) = v[Len(q)]
  <1> DEFINE n == Len(q)
             S == 1 .. n
             f == [i \in S |-> o[q[i]].quantity]
             Choice(g) == g = [t \in SUBSET S |->
                                IF t = {} THEN 0
                                ELSE o[q[CHOOSE x \in t : TRUE]].quantity
                                     + g[t \ {CHOOSE x \in t : TRUE}]]
             h == CHOOSE g : Choice(g)
             v == [k \in 0 .. n |-> h[1 .. k]]
  <1>1. n \in Nat /\ f \in [S -> Nat] /\ IsFiniteSet(S)
    <2>1. n \in Nat
      OBVIOUS
    <2>2. f \in [S -> Nat]
      BY DEF Counted
    <2> HIDE DEF n
    <2>3. IsFiniteSet(S)
      BY <2>1, FS_Interval
    <2> QED
      BY <2>1, <2>2, <2>3
  <1>2. \A g : Choice(g) <=> SumUnfolds(g, f, SUBSET S)
    <2>1. ASSUME NEW t \in SUBSET S, t # {}
          PROVE  f[CHOOSE x \in t : TRUE] = o[q[CHOOSE x \in t : TRUE]].quantity
      BY <2>1
    <2> HIDE DEF f, S
    <2> QED
      BY <2>1 DEF SumUnfolds
  <1>3. LevelSum(o, q) = h[S]
    BY DEF LevelSum, MapThenSumSet, MapThenFoldSet
  <1>4. SumUnfolds(h, f, SUBSET S)
    <2> HIDE DEF f, S, Choice
    <2>1. \E g : Choice(g)
      BY <1>1, <1>2, SumExists
    <2> QED
      BY <1>2, <2>1
  <1> HIDE DEF h, Choice
  <1>5. Summands(Nat, h, f, SUBSET S)
    <2> HIDE DEF S, f
    <2> DEFINE V == Nat
    <2>1. V \in {Nat, Int} /\ f \in [S -> V]
      BY <1>1
    <2> HIDE DEF V
    <2>2. Summands(V, h, f, SUBSET S)
      BY <1>1, <1>4, <2>1, SumSummand
    <2> QED
      BY <2>2 DEF V
  <1>6. v[0] = 0
    <2>1. 1 .. 0 = {} /\ {} \in SUBSET S /\ 0 \in 0 .. n
      BY <1>1
    <2>2. h[{}] = 0
      BY <1>4, <2>1 DEF SumUnfolds
    <2> QED
      BY <2>1, <2>2
  <1>7. ASSUME NEW k \in 0 .. n PROVE v[k] \in Nat
    <2>1. 1 .. k \in SUBSET S
      BY <1>1
    <2> QED
      BY <1>5, <2>1 DEF Summands
  <1>8. ASSUME NEW k \in 0 .. n - 1 PROVE v[k + 1] = v[k] + o[q[k + 1]].quantity
    <2>1. /\ k \in Nat /\ k \in 0 .. n /\ k + 1 \in 0 .. n /\ k + 1 \in S
          /\ 1 .. k + 1 \in SUBSET S /\ k + 1 \in 1 .. k + 1
      <3>1. k \in Nat /\ k + 1 <= n
        BY <1>1
      <3> QED
        BY <1>1, <3>1
    <2>2. (1 .. k + 1) \ {k + 1} = 1 .. k
      BY <2>1
    <2>3. h[1 .. k + 1] = f[k + 1] + h[1 .. k]
      <3>1. h[1 .. k + 1] = f[k + 1] + h[(1 .. k + 1) \ {k + 1}]
        <4> DEFINE t == 1 .. k + 1
                   x == k + 1
        <4>1. t \in SUBSET S /\ x \in t
          BY <2>1
        <4> HIDE DEF t, x, f, S
        <4>2. h[t] = f[x] + h[t \ {x}]
          BY <1>5, <4>1 DEF Summands
        <4> QED
          BY <4>2 DEF t, x
      <3> QED
        BY <2>2, <3>1
    <2>4. v[k] = h[1 .. k] /\ v[k + 1] = h[1 .. k + 1] /\ f[k + 1] = o[q[k + 1]].quantity
      BY <2>1
    <2>5. v[k] \in Nat /\ f[k + 1] \in Nat
      BY <1>1, <1>7, <2>1
    <2> HIDE DEF v, f
    <2> QED
      BY <2>3, <2>4, <2>5
  <1>9. v[n] = h[S]
    BY <1>1
  <1> HIDE DEF v
  <1>10. PrefixSums(v, o, q)
    BY <1>6, <1>7, <1>8 DEF PrefixSums
  <1> QED
    BY <1>3, <1>9, <1>10

\* There is one sequence of prefix sums, so any of them gives the sum.
LEMMA LevelSumIsLast ==
    ASSUME NEW T, NEW q \in Seq(T), NEW o, NEW v, PrefixSums(v, o, q), Counted(o, q)
    PROVE  LevelSum(o, q) = v[Len(q)]
  <1> DEFINE n == Len(q)
  <1>1. PICK w : PrefixSums(w, o, q) /\ LevelSum(o, q) = w[n]
    BY LevelSumIterates
  <1> DEFINE N == {k \in Nat : k <= n => w[k] = v[k]}
  <1>2. n \in Nat
    OBVIOUS
  <1>3. 0 \in N
    BY <1>1 DEF PrefixSums
  <1>4. ASSUME NEW k \in N PROVE k + 1 \in N
    <2> SUFFICES ASSUME k + 1 <= n PROVE w[k + 1] = v[k + 1]
      OBVIOUS
    <2>1. k \in 0 .. n - 1 /\ w[k] = v[k]
      BY <1>2
    <2> QED
      BY <1>1, <2>1 DEF PrefixSums
  <1>5. N = Nat
    <2> HIDE DEF N
    <2>1. N \in SUBSET Nat
      BY DEF N
    <2> QED
      BY <1>3, <1>4, <2>1, NaturalsByInduction
  <1> QED
    BY <1>1, <1>2, <1>5


\* A sum does not see what else the registry says of the orders.
LEMMA LevelSumSame ==
    ASSUME NEW T, NEW q \in Seq(T), NEW o, NEW p, Counted(o, q),
           \A i \in 1 .. Len(q) : p[q[i]].quantity = o[q[i]].quantity
    PROVE  LevelSum(p, q) = LevelSum(o, q) /\ Counted(p, q) /\ LevelSum(o, q) \in Nat
  <1>1. Counted(p, q) /\ Len(q) \in Nat
    BY DEF Counted
  <1>2. PICK v : PrefixSums(v, o, q) /\ LevelSum(o, q) = v[Len(q)]
    BY LevelSumIterates
  <1>3. PrefixSums(v, p, q)
    BY <1>1, <1>2 DEF PrefixSums
  <1>4. LevelSum(p, q) = v[Len(q)]
    BY <1>1, <1>3, LevelSumIsLast
  <1>5. v[Len(q)] \in Nat
    BY <1>1, <1>2 DEF PrefixSums
  <1> QED
    BY <1>1, <1>2, <1>4, <1>5

\* No order has no quantity.
LEMMA LevelSumEmpty == ASSUME NEW o PROVE LevelSum(o, <<>>) = 0 /\ Counted(o, <<>>)
  <1>1. <<>> \in Seq({}) /\ Len(<<>>) = 0 /\ Counted(o, <<>>)
    BY DEF Counted
  <1>2. PICK v : PrefixSums(v, o, <<>>) /\ LevelSum(o, <<>>) = v[0]
    BY <1>1, LevelSumIterates
  <1> QED
    BY <1>1, <1>2 DEF PrefixSums

\* An order that joins a queue adds its quantity.
LEMMA LevelSumAppend ==
    ASSUME NEW T, NEW q \in Seq(T), NEW x \in T, NEW o, Counted(o, q), o[x].quantity \in Nat
    PROVE  /\ LevelSum(o, Append(q, x)) = LevelSum(o, q) + o[x].quantity
           /\ Counted(o, Append(q, x))
  <1> DEFINE r == Append(q, x)
             n == Len(q)
             a == o[x].quantity
  <1>1. /\ n \in Nat /\ r \in Seq(T) /\ Len(r) = n + 1 /\ r[n + 1] = x
        /\ \A i \in 1 .. n : r[i] = q[i]
    OBVIOUS
  <1> HIDE DEF r
  <1>2. Counted(o, r)
    BY <1>1 DEF Counted
  <1>3. PICK v : PrefixSums(v, o, q) /\ LevelSum(o, q) = v[n]
    BY LevelSumIterates
  <1> DEFINE w == [k \in 0 .. n + 1 |-> IF k = n + 1 THEN v[n] + a ELSE v[k]]
  <1>4. w[0] = 0 /\ w[n + 1] = v[n] + a
    BY <1>1, <1>3 DEF PrefixSums
  <1>5. ASSUME NEW k \in 0 .. n + 1 PROVE w[k] \in Nat
    BY <1>1, <1>3 DEF PrefixSums
  <1>6. ASSUME NEW k \in 0 .. n PROVE w[k + 1] = w[k] + o[r[k + 1]].quantity
    <2>1. CASE k = n
      BY <1>1, <2>1
    <2>2. CASE k # n
      <3>1. k \in 0 .. n - 1 /\ k + 1 \in 1 .. n
        BY <1>1, <2>2
      <3>2. w[k] = v[k] /\ w[k + 1] = v[k + 1] /\ r[k + 1] = q[k + 1]
        BY <1>1, <2>2, <3>1
      <3>3. v[k + 1] = v[k] + o[q[k + 1]].quantity
        BY <1>3, <3>1 DEF PrefixSums
      <3> QED
        BY <3>2, <3>3
    <2> QED
      BY <2>1, <2>2
  <1> HIDE DEF w, n, a
  <1>7. PrefixSums(w, o, r)
    <2>1. (n + 1) - 1 = n
      BY <1>1
    <2> QED
      BY <1>1, <1>4, <1>5, <1>6, <2>1 DEF PrefixSums
  <1>8. LevelSum(o, r) = w[n + 1]
    BY <1>1, <1>2, <1>7, LevelSumIsLast
  <1> QED
    BY <1>2, <1>3, <1>4, <1>8 DEF r, a

\* An order that leaves a queue takes its quantity along.
LEMMA LevelSumRemove ==
    ASSUME NEW T, NEW q \in Seq(T), NEW m \in 1 .. Len(q), NEW o, Counted(o, q)
    PROVE  /\ Counted(o, RemoveAt(q, m))
           /\ LevelSum(o, q) = LevelSum(o, RemoveAt(q, m)) + o[q[m]].quantity
           /\ LevelSum(o, RemoveAt(q, m)) \in Nat
  <1> DEFINE r == RemoveAt(q, m)
             n == Len(q)
             a == o[q[m]].quantity
  <1>1. /\ n \in Nat /\ n > 0 /\ m \in Nat /\ m > 0 /\ m <= n /\ a \in Nat
        /\ r \in Seq(T) /\ Len(r) = n - 1
        /\ \A i \in 1 .. n - 1 : r[i] = IF i < m THEN q[i] ELSE q[i + 1]
    BY RemoveAtProperties DEF Counted
  <1> HIDE DEF r
  <1>2. Counted(o, r)
    BY <1>1 DEF Counted
  <1>3. PICK v : PrefixSums(v, o, r) /\ LevelSum(o, r) = v[n - 1]
    BY <1>1, <1>2, LevelSumIterates
  <1>4. /\ v[0] = 0 /\ \A k \in 0 .. n - 1 : v[k] \in Nat
        /\ \A k \in 0 .. n - 2 : v[k + 1] = v[k] + o[r[k + 1]].quantity
    <2>1. (n - 1) - 1 = n - 2
      BY <1>1
    <2> QED
      BY <1>1, <1>3, <2>1 DEF PrefixSums
  <1> DEFINE w == [k \in 0 .. n |-> IF k < m THEN v[k] ELSE v[k - 1] + a]
  <1>5. w[0] = 0 /\ w[n] = v[n - 1] + a
    BY <1>1, <1>4
  <1>6. ASSUME NEW k \in 0 .. n PROVE w[k] \in Nat
    <2>1. k < m => k \in 0 .. n - 1
      BY <1>1
    <2>2. ~ (k < m) => k - 1 \in 0 .. n - 1
      BY <1>1
    <2> QED
      BY <1>1, <1>4, <2>1, <2>2
  <1>7. ASSUME NEW k \in 0 .. n - 1 PROVE w[k + 1] = w[k] + o[q[k + 1]].quantity
    <2>0. k \in 0 .. n /\ k + 1 \in 0 .. n /\ k \in Int
      BY <1>1
    <2>1. CASE k + 1 < m
      <3>1. k \in 0 .. n - 2 /\ k + 1 \in 1 .. n - 1 /\ k < m
        BY <1>1, <2>0, <2>1
      <3>2. w[k] = v[k] /\ w[k + 1] = v[k + 1] /\ r[k + 1] = q[k + 1]
        BY <1>1, <2>0, <2>1, <3>1
      <3> QED
        BY <1>4, <3>1, <3>2
    <2>2. CASE k + 1 = m
      <3>1. w[k] = v[k] /\ w[k + 1] = v[(k + 1) - 1] + a /\ (k + 1) - 1 = k /\ q[k + 1] = q[m]
        BY <1>1, <2>0, <2>2
      <3> QED
        BY <3>1
    <2>3. CASE k + 1 > m
      <3>1. /\ k - 1 \in 0 .. n - 2 /\ (k - 1) + 1 = k /\ k \in 1 .. n - 1
            /\ ~ (k < m) /\ ~ (k + 1 < m) /\ (k + 1) - 1 = k
        BY <1>1, <2>0, <2>3
      <3>2. w[k] = v[k - 1] + a /\ w[k + 1] = v[k] + a /\ r[k] = q[k + 1]
        BY <1>1, <2>0, <3>1
      <3>3. v[k] = v[k - 1] + o[r[k]].quantity
        <4> DEFINE j == k - 1
        <4>1. j \in 0 .. n - 2 /\ j + 1 = k
          BY <3>1
        <4> HIDE DEF j
        <4>2. v[j + 1] = v[j] + o[r[j + 1]].quantity
          BY <1>4, <4>1
        <4> QED
          BY <4>1, <4>2 DEF j
      <3>4. v[k - 1] \in Nat /\ a \in Nat /\ o[q[k + 1]].quantity \in Nat
        <4>1. k - 1 \in 0 .. n - 1 /\ k + 1 \in 1 .. n
          BY <1>1, <2>0, <3>1
        <4> QED
          BY <1>1, <1>4, <4>1 DEF Counted
      <3> HIDE DEF w, a
      <3> QED
        BY <3>2, <3>3, <3>4
    <2> QED
      BY <1>1, <2>0, <2>1, <2>2, <2>3
  <1> HIDE DEF w
  <1>8. PrefixSums(w, o, q)
    BY <1>5, <1>6, <1>7 DEF PrefixSums
  <1>9. LevelSum(o, q) = w[n]
    BY <1>1, <1>8, LevelSumIsLast
  <1>10. n - 1 \in 0 .. n - 1
    BY <1>1
  <1> QED
    BY <1>2, <1>3, <1>4, <1>5, <1>9, <1>10 DEF r

\* An order whose quantity changes changes the sum by as much.
LEMMA LevelSumChange ==
    ASSUME NEW T, NEW q \in Seq(T), NEW m \in 1 .. Len(q), NEW o, NEW p, Counted(o, q),
           p[q[m]].quantity \in Nat,
           \A i \in 1 .. Len(q) : i # m => p[q[i]].quantity = o[q[i]].quantity
    PROVE  /\ Counted(p, q)
           /\ LevelSum(p, q) = LevelSum(o, q) - o[q[m]].quantity + p[q[m]].quantity
  <1> DEFINE r == RemoveAt(q, m)
  <1>1. Counted(p, q)
    BY DEF Counted
  <1>2. /\ r \in Seq(T)
        /\ \A i \in 1 .. Len(r) : p[r[i]].quantity = o[r[i]].quantity
    <2> DEFINE n == Len(q)
    <2>1. n \in Nat /\ m \in 1 .. n /\ m \in Nat /\ n > 0
      OBVIOUS
    <2>2. r \in Seq(T) /\ Len(r) = n - 1
      BY RemoveAtProperties
    <2>3. \A i \in 1 .. n - 1 : r[i] = IF i < m THEN q[i] ELSE q[i + 1]
      BY RemoveAtProperties
    <2> HIDE DEF r
    <2> SUFFICES ASSUME NEW i \in 1 .. n - 1
                 PROVE  p[r[i]].quantity = o[r[i]].quantity
      BY <2>1, <2>2
    <2> DEFINE j == IF i < m THEN i ELSE i + 1
    <2>4. j \in 1 .. Len(q) /\ j # m /\ r[i] = q[j]
      BY <2>1, <2>3
    <2> QED
      BY <2>4
  <1>3. LevelSum(p, r) = LevelSum(o, r) /\ Counted(o, r)
    <2>1. Counted(o, r)
      BY LevelSumRemove
    <2> HIDE DEF r
    <2> QED
      BY <1>2, <2>1, LevelSumSame
  <1>4. LevelSum(o, q) = LevelSum(o, r) + o[q[m]].quantity /\ LevelSum(o, r) \in Nat
    BY LevelSumRemove
  <1>5. LevelSum(p, q) = LevelSum(p, r) + p[q[m]].quantity
    BY <1>1, LevelSumRemove
  <1>6. o[q[m]].quantity \in Nat
    BY DEF Counted
  <1> HIDE DEF r
  <1> QED
    BY <1>1, <1>3, <1>4, <1>5, <1>6


\* A remainder is known by its range and what it leaves.
LEMMA RemainderIsUnique ==
    ASSUME NEW m \in Nat \ {0}, NEW a \in Int, NEW k \in Int, NEW r \in 0 .. m - 1,
           a = m * k + r
    PROVE  a % m = r
  <1> DEFINE d == a \div m
             c == a % m
  <1>1. d \in Int /\ c \in 0 .. m - 1 /\ a = m * d + c
    OBVIOUS
  <1> HIDE DEF d, c
  <1>2. m * (d - k) = r - c
    BY <1>1
  <1>3. d - k = 0
    <2>1. CASE d - k >= 1
      <3>1. m * (d - k) >= m
        BY <1>1, <2>1
      <3> QED
        BY <1>1, <1>2, <3>1
    <2>2. CASE d - k <= -1
      <3>1. m * (d - k) <= -m
        BY <1>1, <2>2
      <3> QED
        BY <1>1, <1>2, <3>1
    <2> QED
      BY <1>1, <2>1, <2>2
  <1> QED
    BY <1>1, <1>3 DEF c

\* Arithmetic of a fixed width may reduce its operands first.
LEMMA ReduceFirst ==
    ASSUME NEW m \in Nat \ {0}, NEW a \in Int, NEW b \in Int
    PROVE  /\ ((a % m) + b) % m = (a + b) % m
           /\ ((a % m) - b) % m = (a - b) % m
  <1> DEFINE d == a \div m
             c == a % m
  <1>1. d \in Int /\ c \in 0 .. m - 1 /\ a = m * d + c
    OBVIOUS
  <1> HIDE DEF d, c
  <1>2. ASSUME NEW x \in Int PROVE (c + x) % m = (a + x) % m
    <2> DEFINE e == (c + x) \div m
               r == (c + x) % m
    <2>1. e \in Int /\ r \in 0 .. m - 1 /\ c + x = m * e + r
      BY <1>1
    <2> HIDE DEF e, r
    <2>2. a + x = m * (d + e) + r
      BY <1>1, <2>1
    <2>3. (a + x) % m = r
      <3> DEFINE sum == a + x
                 k == d + e
      <3>1. sum \in Int /\ k \in Int /\ sum = m * k + r
        BY <1>1, <2>1, <2>2
      <3> HIDE DEF sum, k
      <3>2. sum % m = r
        BY <2>1, <3>1, RemainderIsUnique
      <3> QED
        BY <3>2 DEF sum
    <2> QED
      BY <2>3 DEF r
  <1>3. c - b = c + (-b) /\ a - b = a + (-b) /\ -b \in Int
    BY <1>1
  <1> QED
    BY <1>2, <1>3 DEF c

\* An order that is unlinked takes its quantity along.
LEMMA LevelSumUnlinked ==
    ASSUME NEW T, NEW q \in Seq(T), NEW x \in Range(q), NEW o, Counted(o, q)
    PROVE  /\ Counted(o, Unlinked(q, x))
           /\ LevelSum(o, q) = LevelSum(o, Unlinked(q, x)) + o[x].quantity
           /\ LevelSum(o, Unlinked(q, x)) \in Nat
  <1> DEFINE k == CHOOSE i \in 1 .. Len(q) : q[i] = x
  <1>1. k \in 1 .. Len(q) /\ q[k] = x
    BY DEF Range
  <1> HIDE DEF k
  <1>2. Unlinked(q, x) = RemoveAt(q, k)
    BY DEF Unlinked, k
  <1> QED
    BY <1>1, <1>2, LevelSumRemove

-----------------------------------------------------------------------------
(* The totals of the levels.                                               *)

\* The total of one level is the sum of its orders, as wide as Quantity.
TotalAt(s, p) == total[s][p] = LevelSum(orders, queue[s][p]) % QuantityModulus

LEMMA TotalsByLevel == TotalsMatchOrders <=> \A s \in Side, p \in Prices : TotalAt(s, p)
  BY DEF TotalsMatchOrders, TotalAt, LevelSum

LEMMA TotalsByLevelNext ==
    TotalsMatchOrders' <=> \A s \in Side, p \in Prices : TotalAt(s, p)'
  BY DEF TotalsMatchOrders, TotalAt, LevelSum

\* All orders of a level are in the registry.
LEMMA LevelCounted ==
    ASSUME Consistent, NEW s \in Side, NEW p \in Prices
    PROVE  /\ queue[s][p] \in Seq(OrderIDs)
           /\ Counted(orders, queue[s][p])
           /\ \A i \in 1 .. Len(queue[s][p]) : queue[s][p][i] \in Range(queue[s][p])
  <1> DEFINE q == queue[s][p]
  <1>1. q \in Seq(OrderIDs)
    BY DEF Consistent, TypeOK
  <1>2. \A i \in 1 .. Len(q) : q[i] \in Range(q)
    BY <1>1 DEF Range
  <1>3. \A id \in Range(q) : orders[id].quantity \in Nat
    <2>1. \A id \in Range(q) : orders[id] \in Order
      BY DEF Consistent, TypeOK, RegistryMatchesLevels, LinksAreLive
    <2> QED
      BY <2>1 DEF Order, Quantities
  <1> QED
    BY <1>1, <1>2, <1>3 DEF Counted

\* A step that leaves a level and the quantities of its orders alone.
LEMMA LevelUntouched ==
    ASSUME Consistent, NEW s \in Side, NEW p \in Prices, TotalAt(s, p),
           queue'[s][p] = queue[s][p], total'[s][p] = total[s][p],
           \A id \in Range(queue[s][p]) : orders'[id].quantity = orders[id].quantity
    PROVE  TotalAt(s, p)'
  <1> DEFINE q == queue[s][p]
  <1>1. q \in Seq(OrderIDs) /\ Counted(orders, q)
        /\ \A i \in 1 .. Len(q) : orders'[q[i]].quantity = orders[q[i]].quantity
    BY LevelCounted
  <1> HIDE DEF q
  <1>2. LevelSum(orders', q) = LevelSum(orders, q)
    BY <1>1, LevelSumSame
  <1> QED
    BY <1>2 DEF TotalAt, q

\* A step that empties no queue and only resets totals of empty levels.
LEMMA TotalsKept ==
    ASSUME Consistent, TotalsMatchOrders, UNCHANGED queue,
           \A s \in Side, p \in Prices :
              \/ total'[s][p] = total[s][p]
              \/ queue[s][p] = <<>> /\ total'[s][p] = 0,
           \A s \in Side, p \in Prices : \A id \in Range(queue[s][p]) :
              orders'[id].quantity = orders[id].quantity
    PROVE  TotalsMatchOrders'
  <1> SUFFICES ASSUME NEW s \in Side, NEW p \in Prices
               PROVE  TotalAt(s, p)'
    BY TotalsByLevelNext
  <1>1. TotalAt(s, p)
    BY TotalsByLevel
  <1>2. CASE total'[s][p] = total[s][p]
    BY <1>1, <1>2, LevelUntouched
  <1>3. CASE queue[s][p] = <<>> /\ total'[s][p] = 0
    <2>1. LevelSum(orders', <<>>) = 0
      BY LevelSumEmpty
    <2>2. 0 % QuantityModulus = 0
      BY QuantityAssumption
    <2> QED
      BY <1>3, <2>1, <2>2 DEF TotalAt
  <1> QED
    BY <1>2, <1>3

\* book.erase of a level that was left empty, or not.
LEMMA DroppedTotals ==
    ASSUME Consistent, NEW s \in Side, NEW p \in Prices, DropIfEmpty(s, p)
    PROVE  \A t \in Side, o \in Prices :
              \/ total'[t][o] = total[t][o]
              \/ queue[t][o] = <<>> /\ total'[t][o] = 0
  <1>1. total \in [Side -> [Prices -> Totals]]
    BY DEF Consistent, TypeOK
  <1>2. CASE queue[s][p] = <<>>
    <2>1. total' = [total EXCEPT ![s][p] = 0]
      BY <1>2 DEF DropIfEmpty
    <2> QED
      BY <1>1, <1>2, <2>1
  <1>3. CASE queue[s][p] # <<>>
    BY <1>3 DEF DropIfEmpty
  <1> QED
    BY <1>2, <1>3

\* insertOrder adds what the order brings.
LEMMA InsertedTotal ==
    ASSUME Consistent, TotalsMatchOrders, NEW s \in Side, NEW p \in Prices,
           NEW id \in OrderIDs, NEW quantity \in Quantities, Insert(s, p, id, quantity),
           \A t \in Side, o \in Prices : id \notin Range(queue[t][o]),
           orders'[id].quantity = quantity,
           \A i \in Live \ {id} : orders'[i] = orders[i]
    PROVE  TotalsMatchOrders'
  <1> DEFINE q == queue[s][p]
  <1>1. /\ queue' = [queue EXCEPT ![s][p] = Append(q, id)]
        /\ total' = [total EXCEPT ![s][p] = Plus(total[s][p], quantity)]
    BY DEF Insert
  <1>2. \A t \in Side, o \in Prices : \A i \in Range(queue[t][o]) :
           orders'[i].quantity = orders[i].quantity
    BY DEF Consistent, RegistryMatchesLevels, LinksAreLive
  <1>3. /\ queue'[s][p] = Append(q, id)
        /\ total'[s][p] = Plus(total[s][p], quantity)
        /\ \A t \in Side, o \in Prices :
              ~ (t = s /\ o = p) => queue'[t][o] = queue[t][o] /\ total'[t][o] = total[t][o]
    BY <1>1 DEF Consistent, TypeOK
  <1>4. /\ q \in Seq(OrderIDs) /\ Counted(orders, q)
        /\ \A i \in 1 .. Len(q) : orders'[q[i]].quantity = orders[q[i]].quantity
    BY <1>2, LevelCounted
  <1>5. total[s][p] = LevelSum(orders, q) % QuantityModulus
    BY TotalsByLevel DEF TotalAt
  <1> HIDE DEF q
  <1>6. /\ LevelSum(orders', q) = LevelSum(orders, q) /\ LevelSum(orders, q) \in Nat
        /\ Counted(orders', q)
    BY <1>4, LevelSumSame
  <1>7. orders'[id].quantity \in Nat /\ quantity \in Nat
    BY DEF Quantities
  <1>8. LevelSum(orders', Append(q, id)) = LevelSum(orders, q) + quantity
    BY <1>4, <1>6, <1>7, LevelSumAppend
  <1>9. TotalAt(s, p)'
    <2> DEFINE sum == LevelSum(orders, q)
    <2>1. /\ sum \in Int /\ quantity \in Int /\ QuantityModulus \in Nat \ {0}
          /\ total[s][p] = sum % QuantityModulus
      BY <1>5, <1>6, <1>7, QuantityAssumption
    <2> HIDE DEF sum
    <2>2. ((sum % QuantityModulus) + quantity) % QuantityModulus
            = (sum + quantity) % QuantityModulus
      BY <2>1, ReduceFirst
    <2>3. total'[s][p] = (sum + quantity) % QuantityModulus
      BY <1>3, <2>1, <2>2 DEF Plus
    <2>4. total'[s][p] = LevelSum(orders', queue'[s][p]) % QuantityModulus
      BY <1>3, <1>8, <2>3 DEF sum
    <2> QED
      BY <2>4 DEF TotalAt
  <1> SUFFICES ASSUME NEW t \in Side, NEW o \in Prices, ~ (t = s /\ o = p)
               PROVE  TotalAt(t, o)'
    BY <1>9, TotalsByLevelNext
  <1> QED
    BY <1>2, <1>3, LevelUntouched, TotalsByLevel

\* removeOrder takes off what the order has left.
LEMMA UnlinkTotals ==
    ASSUME Consistent, TotalsMatchOrders, Unlink
    PROVE  TotalsMatchOrders'
  <1> DEFINE s == call.side
             p == orders[call.id].price
             q == queue[s][p]
             r == Unlinked(q, call.id)
             a == orders[call.id].quantity
  <1>1. /\ queue' = [queue EXCEPT ![s][p] = r]
        /\ total' = [total EXCEPT ![s][p] = Minus(total[s][p], a)]
        /\ orders' = orders
    BY DEF Unlink
  <1>2. /\ call \in Call /\ s \in Side
        /\ call.id \in Live /\ orders[call.id] \in Order /\ orders[call.id].side = s
        /\ ~ Detached(call.id)
    BY DEF Unlink, MatchOver, Consistent, TypeOK, Call, InFlight, CallersOrder,
           Matching, PlacesOfCalls, Detached
  <1>3. p \in Prices /\ a \in Nat /\ call.id \in Range(q)
    BY <1>2 DEF Consistent, RegistryMatchesLevels, OrdersAreLinked, Order, Quantities
  <1>4. /\ queue'[s][p] = r
        /\ total'[s][p] = Minus(total[s][p], a)
        /\ \A t \in Side, o \in Prices :
              ~ (t = s /\ o = p) => queue'[t][o] = queue[t][o] /\ total'[t][o] = total[t][o]
    BY <1>1, <1>2, <1>3 DEF Consistent, TypeOK
  <1>5. q \in Seq(OrderIDs) /\ Counted(orders, q)
    BY <1>2, <1>3, LevelCounted
  <1>6. total[s][p] = LevelSum(orders, q) % QuantityModulus
    BY <1>2, <1>3, TotalsByLevel DEF TotalAt
  <1>7. LevelSum(orders, q) = LevelSum(orders, r) + a /\ LevelSum(orders, r) \in Nat
    BY <1>3, <1>5, LevelSumUnlinked
  <1> HIDE DEF q, r, a, s, p
  <1>8. Minus(total[s][p], a) = LevelSum(orders, r) % QuantityModulus
    <2>1. LevelSum(orders, q) - a = LevelSum(orders, r) /\ LevelSum(orders, q) \in Int
      BY <1>3, <1>7
    <2> QED
      BY <1>3, <1>6, <2>1, ReduceFirst, QuantityAssumption DEF Minus
  <1> SUFFICES ASSUME NEW t \in Side, NEW o \in Prices
               PROVE  total'[t][o] = LevelSum(orders', queue'[t][o]) % QuantityModulus
    BY TotalsByLevelNext DEF TotalAt
  <1>9. CASE t = s /\ o = p
    BY <1>1, <1>4, <1>8, <1>9
  <1>10. CASE ~ (t = s /\ o = p)
    <2>1. TotalAt(t, o)'
      BY <1>1, <1>4, <1>10, LevelUntouched, TotalsByLevel
    <2> QED
      BY <2>1 DEF TotalAt
  <1> QED
    BY <1>9, <1>10

\* An iteration of matchAgainst takes the same off the order and its level.
LEMMA FillTotals ==
    ASSUME Consistent, TotalsMatchOrders, Fill
    PROVE  TotalsMatchOrders'
  <1> DEFINE s == Opposite(call.side)
             id == Resting
             left == orders[id].quantity - Delta
             q == queue[s][level]
             r == IF left = 0 THEN Unlinked(q, id) ELSE q
  <1>1. /\ s \in Side /\ level \in Prices
        /\ q \in Seq(OrderIDs) /\ id \in Range(q)
        /\ id \in Live /\ orders[id] \in Order
        /\ orders[id].side = s /\ orders[id].price = level
        /\ Delta \in Quantities /\ left \in Quantities
    BY RestingOrder
  <1>2. /\ Counted(orders, q) /\ IsInjective(q) /\ Len(q) \in Nat
        /\ \A i \in 1 .. Len(q) : q[i] \in Range(q)
    BY <1>1, LevelCounted DEF Consistent, RegistryMatchesLevels, LinksAreUnique
  <1>3. q # <<>> /\ id = q[1]
    BY DEF Fill, Resting
  <1>4. /\ orders' = [orders EXCEPT ![id].quantity = left]
        /\ queue' = [queue EXCEPT ![s][level] = r]
        /\ total' = [total EXCEPT ![s][level] = Minus(@, Delta)]
    BY <1>1 DEF Fill, Consistent, TypeOK
  <1>5. /\ queue'[s][level] = r
        /\ total'[s][level] = Minus(total[s][level], Delta)
        /\ \A t \in Side, o \in Prices :
              ~ (t = s /\ o = level) =>
                 queue'[t][o] = queue[t][o] /\ total'[t][o] = total[t][o]
    BY <1>1, <1>4 DEF Consistent, TypeOK
  <1>6. total[s][level] = LevelSum(orders, q) % QuantityModulus
    BY <1>1, TotalsByLevel DEF TotalAt
  <1>7. /\ orders[id].quantity \in Nat /\ left \in Nat /\ Delta \in Nat
        /\ orders[id].quantity - left = Delta
    BY <1>1 DEF Order, Quantities
  <1> HIDE DEF id, left, s, q
  <1>8. /\ orders'[id].quantity = left
        /\ \A i \in Live : i # id => orders'[i] = orders[i]
    BY <1>1, <1>4 DEF Live, Order
  <1>9. /\ LevelSum(orders', q) = LevelSum(orders, q) - Delta
        /\ Counted(orders', q) /\ LevelSum(orders, q) \in Nat
    <2>1. 1 \in 1 .. Len(q)
      BY <1>1, <1>3
    <2>2. \A i \in 1 .. Len(q) : i # 1 => orders'[q[i]].quantity = orders[q[i]].quantity
      <3>1. \A i \in 1 .. Len(q) : q[i] \in Live
        BY <1>1, <1>2 DEF Consistent, RegistryMatchesLevels, LinksAreLive, q
      <3>2. \A i \in 1 .. Len(q) : i # 1 => q[i] # id
        <4>1. DOMAIN q = 1 .. Len(q)
          BY <1>1
        <4> QED
          BY <1>2, <1>3, <2>1, <4>1 DEF IsInjective
      <3> QED
        BY <1>8, <3>1, <3>2
    <2>3. orders'[q[1]].quantity \in Nat
      BY <1>3, <1>7, <1>8
    <2>4. /\ Counted(orders', q)
          /\ LevelSum(orders', q) = LevelSum(orders, q) - orders[q[1]].quantity
                                      + orders'[q[1]].quantity
      BY <1>1, <1>2, <2>1, <2>2, <2>3, LevelSumChange
    <2>5. LevelSum(orders, q) \in Nat
      BY <1>1, <1>2, LevelSumSame
    <2> QED
      BY <1>3, <1>7, <1>8, <2>4, <2>5
  <1>10. LevelSum(orders', r) = LevelSum(orders, q) - Delta
    <2>1. CASE left = 0
      <3>1. LevelSum(orders', q) = LevelSum(orders', r) + 0 /\ LevelSum(orders', r) \in Nat
        BY <1>1, <1>8, <1>9, <2>1, LevelSumUnlinked
      <3> QED
        BY <1>9, <3>1
    <2>2. CASE left # 0
      BY <1>9, <2>2
    <2> QED
      BY <2>1, <2>2
  <1> HIDE DEF r
  <1>11. Minus(total[s][level], Delta) = (LevelSum(orders, q) - Delta) % QuantityModulus
    <2> DEFINE sum == LevelSum(orders, q)
               d == Delta
    <2>1. sum \in Int /\ d \in Int /\ total[s][level] = sum % QuantityModulus
          /\ QuantityModulus \in Nat \ {0}
      BY <1>6, <1>7, <1>9, QuantityAssumption
    <2> HIDE DEF sum, d
    <2>2. ((sum % QuantityModulus) - d) % QuantityModulus = (sum - d) % QuantityModulus
      BY <2>1, ReduceFirst
    <2>3. Minus(total[s][level], d) = (sum - d) % QuantityModulus
      BY <2>1, <2>2 DEF Minus
    <2> QED
      BY <2>3 DEF sum, d
  <1> SUFFICES ASSUME NEW t \in Side, NEW o \in Prices
               PROVE  total'[t][o] = LevelSum(orders', queue'[t][o]) % QuantityModulus
    BY TotalsByLevelNext DEF TotalAt
  <1>12. CASE t = s /\ o = level
    BY <1>5, <1>10, <1>11, <1>12
  <1>13. CASE ~ (t = s /\ o = level)
    <2>1. \A i \in Range(queue[t][o]) : orders'[i].quantity = orders[i].quantity
      <3>1. \A i \in Range(queue[t][o]) :
               i \in Live /\ orders[i].side = t /\ orders[i].price = o
        BY DEF Consistent, RegistryMatchesLevels, LinksAreLive
      <3>2. id \notin Range(queue[t][o])
        BY <1>1, <1>13, <3>1
      <3> QED
        BY <1>8, <3>1, <3>2
    <2>2. TotalAt(t, o)'
      BY <1>5, <1>13, <2>1, LevelUntouched, TotalsByLevel
    <2> QED
      BY <2>2 DEF TotalAt
  <1> QED
    BY <1>12, <1>13

\* Every step keeps every total the sum of its orders.
LEMMA NextKeepsTotals ==
    ASSUME Consistent, TotalsMatchOrders, [Next]_vars
    PROVE  TotalsMatchOrders'
  <1>1. CASE Request \/ EnterLevel \/ LevelMatched \/ Notify \/ Return \/ UNCHANGED vars
    <2>1. UNCHANGED <<orders, queue, total>>
      BY <1>1 DEF Request, NewOrder, Amend, AmendDelta, Cancel, ReplaceOrder, StartMatch,
                  StartUnlink, RefuseDuplicate, RefuseUnknown, RefuseSide, Refuse,
                  EnterLevel, LevelMatched, Notify, Return, vars
    <2> QED
      BY <2>1, TotalsKept
  <1>2. CASE OnFilled \/ EraseOrder \/ ReplaceAfterCancel
    <2>1. UNCHANGED <<queue, total>>
      BY <1>2 DEF OnFilled, EraseOrder, ReplaceAfterCancel
    <2>2. \A id \in Live : ~ Detached(id) => orders'[id] = orders[id]
      BY <1>2 DEF OnFilled, EraseOrder, ReplaceAfterCancel, Erase, Detached
    <2>3. \A s \in Side, p \in Prices : \A id \in Range(queue[s][p]) :
             orders'[id].quantity = orders[id].quantity
      BY <2>2 DEF Consistent, RegistryMatchesLevels, LinksAreLive
    <2> QED
      BY <2>1, <2>3, TotalsKept
  <1>3. CASE NextLevel \/ LeaveLevel
    <2>1. PICK s \in Side, p \in Prices : DropIfEmpty(s, p)
      <3>1. CASE NextLevel
        <4>1. DropIfEmpty(Opposite(call.side), level) /\ pc = "levelMatched"
          BY <3>1 DEF NextLevel
        <4>2. call \in Call /\ listed \in [Side -> SUBSET Prices]
          BY <4>1 DEF Consistent, TypeOK
        <4>3. Opposite(call.side) \in Side /\ level \in listed[Opposite(call.side)]
          BY <4>1, <4>2 DEF Consistent, InFlight, IteratorAtFirst, Opposite, Side
        <4> QED
          BY <4>1, <4>2, <4>3
      <3>2. CASE LeaveLevel
        <4>1. DropIfEmpty(call.side, orders[call.id].price) /\ pc = "unlinked"
          BY <3>2 DEF LeaveLevel
        <4>2. call \in Call /\ call.id \in Live /\ orders[call.id] \in Order
          BY <4>1 DEF Consistent, TypeOK, InFlight, CallersOrder
        <4> QED
          BY <4>1, <4>2 DEF Call, Order
      <3> QED
        BY <1>3, <3>1, <3>2
    <2>2. UNCHANGED <<orders, queue>>
      BY <1>3 DEF NextLevel, LeaveLevel
    <2> QED
      BY <2>1, <2>2, DroppedTotals, TotalsKept
  <1>4. CASE Rest
    <2>1. /\ call \in Call /\ call.id \notin Live /\ remaining \in Quantities
          /\ Create(call.id, [side |-> call.side, price |-> call.price,
                              quantity |-> remaining])
          /\ Insert(call.side, call.price, call.id, remaining)
      BY <1>4 DEF Rest, MatchOver, Consistent, TypeOK, InFlight, CallersOrder, Matching
    <2>2. call.side \in Side /\ call.price \in Prices /\ call.id \in OrderIDs
      BY <2>1 DEF Call
    <2>3. /\ orders'[call.id].quantity = remaining
          /\ \A i \in Live \ {call.id} : orders'[i] = orders[i]
      BY <2>1 DEF Create
    <2>4. \A t \in Side, o \in Prices : call.id \notin Range(queue[t][o])
      BY <2>1 DEF Consistent, RegistryMatchesLevels, LinksAreLive
    <2> QED
      BY <2>1, <2>2, <2>3, <2>4, InsertedTotal
  <1>5. CASE Reinsert
    <2>1. /\ call \in Call /\ call.id \in Live /\ remaining \in Quantities
          /\ Detached(call.id)
          /\ orders' = [orders EXCEPT ![call.id] =
                         [side |-> @.side, price |-> call.price, quantity |-> remaining]]
          /\ Insert(call.side, call.price, call.id, remaining)
      BY <1>5 DEF Reinsert, Consistent, TypeOK, InFlight, CallersOrder, Detached
    <2>2. call.side \in Side /\ call.price \in Prices /\ call.id \in OrderIDs
      BY <2>1 DEF Call
    <2>3. /\ orders'[call.id].quantity = remaining
          /\ \A i \in Live \ {call.id} : orders'[i] = orders[i]
      BY <2>1 DEF Live, Consistent, TypeOK
    <2>4. \A t \in Side, o \in Prices : call.id \notin Range(queue[t][o])
      BY <2>1 DEF Consistent, RegistryMatchesLevels, LinksAreLive
    <2> QED
      BY <2>1, <2>2, <2>3, <2>4, InsertedTotal
  <1> QED
    BY <1>1, <1>2, <1>3, <1>4, <1>5, FillTotals, UnlinkTotals DEF Next, Step

\* An empty book has no totals.
LEMMA InitTotals == Init => TotalsMatchOrders
  <1> SUFFICES ASSUME Init, NEW s \in Side, NEW p \in Prices
               PROVE  TotalAt(s, p)
    BY TotalsByLevel
  <1>1. total[s][p] = 0 /\ queue[s][p] = <<>>
    BY DEF Init
  <1>2. 0 % QuantityModulus = 0
    BY QuantityAssumption
  <1> QED
    BY <1>1, <1>2, LevelSumEmpty DEF TotalAt

\* The cached total of a level is the sum of its orders in every state, also
\* in the callbacks of a match and after an amend of the quantity alone.
THEOREM TotalsAlwaysMatch == Spec => []TotalsMatchOrders
  <1>1. Consistent /\ TotalsMatchOrders /\ [Next]_vars => TotalsMatchOrders'
    BY NextKeepsTotals
  <1> QED
    BY <1>1, InitTotals, AlwaysConsistent, PTL DEF Spec

-----------------------------------------------------------------------------
(* The top of the book, as the signals read it.                            *)


\* The best level of a side that has levels is one of them.
LEMMA BestIsListed ==
    ASSUME Consistent, NEW s \in Side, Has(Best(s))
    PROVE  /\ Begin(s) \in listed[s] /\ Begin(s) \in Prices
           /\ Value(Best(s)).quantity = total[s][Begin(s)]
  <1>1. listed[s] # {}
    BY DEF Has, Best
  <1>2. listed[s] \in SUBSET Prices
    BY DEF Consistent, TypeOK
  <1>3. Begin(s) \in listed[s]
    BY <1>1, <1>2, FirstOfProperties DEF Begin
  <1>4. Best(s) = <<[price |-> Tick * Begin(s), quantity |-> total[s][Begin(s)]]>>
    BY <1>1 DEF Best, Some
  <1>5. Best(s)[1] = [price |-> Tick * Begin(s), quantity |-> total[s][Begin(s)]]
    BY <1>4
  <1> QED
    BY <1>2, <1>3, <1>5 DEF Value

\* The running call empties one level at a time: the best levels of the two
\* sides are never both without orders.
LEMMA OneBestHasOrders ==
    ASSUME Consistent, NEW b \in listed["BID"], NEW a \in listed["ASK"]
    PROVE  queue["BID"][b] # <<>> \/ queue["ASK"][a] # <<>>
  <1> SUFFICES ASSUME queue["BID"][b] = <<>>, queue["ASK"][a] = <<>>
               PROVE  FALSE
    OBVIOUS
  <1>1. "BID" \in Side /\ "ASK" \in Side /\ b \in Prices /\ a \in Prices
    BY DEF Consistent, TypeOK, Side
  <1>2. \/ pc \in {"fill", "filled", "levelMatched"} /\ "BID" = Opposite(call.side)
        \/ pc = "unlinked" /\ "BID" = call.side
    BY <1>1 DEF Consistent, EmptyLevelsArePassing
  <1>3. \/ pc \in {"fill", "filled", "levelMatched"} /\ "ASK" = Opposite(call.side)
        \/ pc = "unlinked" /\ "ASK" = call.side
    BY <1>1 DEF Consistent, EmptyLevelsArePassing
  <1> QED
    BY <1>2, <1>3


\* A level that holds an order has something to trade.
LEMMA OrdersHaveQuantity ==
    ASSUME Consistent, NEW s \in Side, NEW p \in Prices
    PROVE  /\ LevelSum(orders, queue[s][p]) \in Nat
           /\ queue[s][p] # <<>> => LevelSum(orders, queue[s][p]) > 0
  <1> DEFINE q == queue[s][p]
  <1>1. q \in Seq(OrderIDs) /\ Counted(orders, q)
    BY LevelCounted
  <1>2. LevelSum(orders, q) \in Nat
    BY <1>1, LevelSumSame
  <1>3. ASSUME q # <<>> PROVE LevelSum(orders, q) > 0
    <2>1. 1 \in 1 .. Len(q) /\ q[1] \in Range(q)
      BY <1>1, <1>3, QueueRange
    <2>2. orders[q[1]].quantity \in Nat /\ orders[q[1]].quantity > 0
      <3>1. q[1] \in Live /\ ~ Detached(q[1])
        BY <2>1 DEF Consistent, RegistryMatchesLevels, LinksAreLive
      <3>2. orders[q[1]].quantity > 0
        BY <3>1 DEF Consistent, RegistryMatchesLevels, OrdersAreLinked
      <3> QED
        BY <1>1, <2>1, <3>2 DEF Counted
    <2>3. /\ LevelSum(orders, q) = LevelSum(orders, RemoveAt(q, 1)) + orders[q[1]].quantity
          /\ LevelSum(orders, RemoveAt(q, 1)) \in Nat
      BY <1>1, <2>1, LevelSumRemove
    <2> QED
      BY <2>2, <2>3
  <1> QED
    BY <1>2, <1>3

\* When the best quantities fit the width together, a total of a best level
\* is zero only if the level has no orders.
LEMMA TotalsOfBest ==
    ASSUME Consistent, TotalsMatchOrders, TotalsFit,
           Begin("BID") \in Prices, Begin("ASK") \in Prices
    PROVE  /\ \A s \in Side : /\ total[s][Begin(s)] \in Nat
                              /\ queue[s][Begin(s)] # <<>> => total[s][Begin(s)] > 0
           /\ total["ASK"][Begin("ASK")] + total["BID"][Begin("BID")] < QuantityModulus
  <1> DEFINE sum(s) == LevelSum(orders, queue[s][Begin(s)])
  <1>1. \A s \in Side : Begin(s) \in Prices
    BY DEF Side
  <1>2. \A s \in Side : DOMAIN queue[s][Begin(s)] = 1 .. Len(queue[s][Begin(s)])
    <2>1. \A s \in Side : queue[s][Begin(s)] \in Seq(OrderIDs)
      BY <1>1, LevelCounted
    <2> QED
      BY <2>1
  <1>3. sum("BID") + sum("ASK") < QuantityModulus
    BY <1>2 DEF TotalsFit, LevelSum, Side
  <1>4. \A s \in Side : /\ sum(s) \in Nat
                        /\ queue[s][Begin(s)] # <<>> => sum(s) > 0
                        /\ total[s][Begin(s)] = sum(s) % QuantityModulus
    BY <1>1, OrdersHaveQuantity, TotalsByLevel DEF TotalAt
  <1> HIDE DEF sum
  <1>5. \A s \in Side : sum(s) < QuantityModulus
    BY <1>3, <1>4, QuantityAssumption DEF Side
  <1>6. \A s \in Side : sum(s) % QuantityModulus = sum(s)
    BY <1>4, <1>5, QuantityAssumption
  <1> QED
    BY <1>3, <1>4, <1>6 DEF Side

\* In every callback and between calls the quantities that a formula divides
\* by are not both zero, although the level the event reports may be empty:
\* a signal that sees two best levels never divides by nothing, as long as
\* the best quantities fit Quantity together.
THEOREM DenominatorsAlwaysPositive == Spec => []QuoteDenominatorsPositive
  <1>1. Consistent /\ TotalsMatchOrders => QuoteDenominatorsPositive
    <2> SUFFICES ASSUME Consistent, TotalsMatchOrders, TwoSided, TotalsFit
                 PROVE  Value(Best("BID")).quantity + Value(Best("ASK")).quantity > 0
      BY DEF QuoteDenominatorsPositive
    <2>1. "BID" \in Side /\ "ASK" \in Side
      BY DEF Side
    <2>2. /\ Begin("BID") \in listed["BID"] /\ Begin("BID") \in Prices
          /\ Begin("ASK") \in listed["ASK"] /\ Begin("ASK") \in Prices
          /\ Value(Best("BID")).quantity = total["BID"][Begin("BID")]
          /\ Value(Best("ASK")).quantity = total["ASK"][Begin("ASK")]
      BY <2>1, BestIsListed DEF TwoSided
    <2>3. \/ queue["BID"][Begin("BID")] # <<>>
          \/ queue["ASK"][Begin("ASK")] # <<>>
      BY <2>2, OneBestHasOrders
    <2>4. \A s \in Side : /\ total[s][Begin(s)] \in Nat
                          /\ queue[s][Begin(s)] # <<>> => total[s][Begin(s)] > 0
      BY <2>2, TotalsOfBest
    <2> QED
      BY <2>1, <2>2, <2>3, <2>4
  <1> QED
    BY <1>1, AlwaysConsistent, TotalsAlwaysMatch, PTL

-----------------------------------------------------------------------------

\* \div is the floor of the quotient.
LEMMA DivBetween ==
    ASSUME NEW x \in Nat, NEW y \in Nat, y > 0
    PROVE  /\ x \div y \in Nat
           /\ (x \div y) * y <= x
           /\ x < (x \div y) * y + y
  OBVIOUS

\* A product grows with its factors.
LEMMA ProductOrder ==
    ASSUME NEW x \in Nat, NEW y \in Nat, NEW k \in Nat, x <= y
    PROVE  x * k <= y * k
  OBVIOUS

\* The order of two products with a common factor is the order of the others.
LEMMA ProductStrict ==
    ASSUME NEW x \in Nat, NEW y \in Nat, NEW k \in Nat, x * k < y * k
    PROVE  x < y
  BY ProductOrder

\* \div is the only number between the bounds.
LEMMA DivIs ==
    ASSUME NEW x \in Nat, NEW y \in Nat, y > 0, NEW q \in Nat, q * y <= x, x < q * y + y
    PROVE  x \div y = q
  <1> DEFINE d == x \div y
  <1>1. d \in Nat /\ d * y <= x /\ x < d * y + y
    BY DivBetween
  <1>2. (q + 1) * y = q * y + y /\ (d + 1) * y = d * y + y
    OBVIOUS
  <1>3. q < d + 1 /\ d < q + 1
    <2> HIDE DEF d
    <2>1. q * y < (d + 1) * y /\ d * y < (q + 1) * y
      BY <1>1, <1>2
    <2> QED
      BY <2>1, <1>1, ProductStrict
  <1> QED
    BY <1>1, <1>3

\* A common factor cancels.
LEMMA DivCancel ==
    ASSUME NEW x \in Nat, NEW y \in Nat, y > 0, NEW k \in Nat, k > 0
    PROVE  (x * k) \div (y * k) = x \div y
  <1> DEFINE d == x \div y
  <1>1. d \in Nat /\ d * y <= x /\ x < d * y + y
    BY DivBetween
  <1>2. x * k \in Nat /\ y * k \in Nat /\ y * k > 0
    OBVIOUS
  <1> HIDE DEF d
  <1>3. d * (y * k) <= x * k
    BY <1>1, ProductOrder
  <1>4. (x + 1) * k <= (d * y + y) * k
    BY <1>1, ProductOrder
  <1>5. (x + 1) * k = x * k + k /\ (d * y + y) * k = d * (y * k) + y * k
    BY <1>1
  <1>6. x * k < d * (y * k) + y * k
    BY <1>1, <1>2, <1>4, <1>5
  <1>7. (x * k) \div (y * k) = d
    BY <1>1, <1>2, <1>3, <1>6, DivIs
  <1> QED
    BY <1>7 DEF d

\* The conversion does not change what fits.
LEMMA WrappedFits ==
    ASSUME NEW x \in Int, -Half <= x, x < Half
    PROVE  Wrapped(x) = x
  BY FixedPointAssumption DEF Wrapped

\* Of naturals, the division of C++ is the floor.
LEMMA TruncDivNat ==
    ASSUME NEW x \in Nat, NEW y \in Nat, y > 0
    PROVE  TruncDiv(x, y) = x \div y
  BY DEF TruncDiv, Magnitude

\* A product of values that are not negative, while it fits.
LEMMA MulIs ==
    ASSUME NEW x \in Nat, NEW y \in Nat, Scale \in Nat, Scale > 0,
           (x * y) \div Scale < Half
    PROVE  Mul(x, y) = (x * y) \div Scale
  <1>1. x * y \in Nat /\ (x * y) \div Scale \in Nat
    BY DivBetween
  <1>2. TruncDiv(x * y, Scale) = (x * y) \div Scale
    BY <1>1, TruncDivNat
  <1> QED
    BY <1>1, <1>2, WrappedFits, FixedPointAssumption DEF Mul

\* The same for a quotient of values.
LEMMA DivOf ==
    ASSUME NEW x \in Nat, NEW y \in Nat, y > 0, Scale \in Nat, Scale > 0,
           (x * Scale) \div y < Half
    PROVE  Div(x, y) = (x * Scale) \div y
  <1>1. x * Scale \in Nat /\ (x * Scale) \div y \in Nat
    BY DivBetween
  <1>2. TruncDiv(x * Scale, y) = (x * Scale) \div y
    BY <1>1, TruncDivNat
  <1> QED
    BY <1>1, <1>2, WrappedFits, FixedPointAssumption DEF Div

\* What the formulas ask of two best prices A over B with a and b on them: the
\* largest of the products that the code keeps fits the width.
Fits(A, B, a, b) ==
    /\ A \in Nat /\ B \in Nat /\ a \in Nat /\ b \in Nat
    /\ B < A
    /\ a + b > 0
    /\ Scale \in Nat /\ Scale > 0 /\ Half \in Nat
    /\ A * (a + b) < Half /\ (a + b) * Scale < Half

\* Then so do the others.
LEMMA FitsBounds ==
    ASSUME NEW A, NEW B, NEW a, NEW b, Fits(A, B, a, b)
    PROVE  /\ A < Half /\ B < Half /\ Scale < Half
           /\ A * b < Half /\ B * a < Half
  <1> USE DEF Fits
  <1>1. A * 1 <= A * (a + b) /\ Scale * 1 <= Scale * (a + b)
    OBVIOUS
  <1>2. A * b <= A * (a + b) /\ B * a <= A * (a + b)
    <2>1. b * A <= (a + b) * A
      BY ProductOrder
    <2>2. a * A <= (a + b) * A /\ B * a <= A * a
      BY ProductOrder
    <2> QED
      BY <2>1, <2>2
  <1> QED
    BY <1>1, <1>2

\* A price times a whole number is exact.
LEMMA MulUnits ==
    ASSUME NEW x \in Nat, NEW q \in Nat, Scale \in Nat, Scale > 0, x * q < Half
    PROVE  Mul(x, FromInt(q)) = x * q
  <1>1. x * FromInt(q) = (x * q) * Scale /\ x * q \in Nat /\ FromInt(q) \in Nat
    BY DEF FromInt
  <1>2. ((x * q) * Scale) \div Scale = x * q
    BY <1>1, DivIs
  <1> QED
    BY <1>1, <1>2, MulIs

\* The same for a quotient by a whole number.
LEMMA DivUnits ==
    ASSUME NEW x \in Nat, NEW q \in Nat, q > 0, Scale \in Nat, Scale > 0,
           x \div q < Half
    PROVE  Div(x, FromInt(q)) = x \div q
  <1>1. FromInt(q) = q * Scale /\ q * Scale \in Nat /\ q * Scale > 0
    BY DEF FromInt
  <1>2. (x * Scale) \div (q * Scale) = x \div q
    BY DivCancel
  <1> QED
    BY <1>1, <1>2, DivOf

\* The mid is at or above the best bid and under the best ask.
LEMMA MidInside ==
    ASSUME NEW A, NEW B, NEW a, NEW b, Fits(A, B, a, b)
    PROVE  LET mid == MidPrice([price |-> B, quantity |-> b], [price |-> A, quantity |-> a])
           IN  B <= mid /\ mid < A
  <1>1. B <= (A + B) \div 2 /\ (A + B) \div 2 < A
    BY DEF Fits
  <1>2. (A + B) \div 2 < Half
    BY <1>1, FitsBounds DEF Fits
  <1>3. Div(A + B, FromInt(2)) = (A + B) \div 2
    BY <1>2, DivUnits DEF Fits
  <1> QED
    BY <1>1, <1>3 DEF MidPrice, Add

\* The weighted mid is the weighted mean, cut off once.
LEMMA WeightedInside ==
    ASSUME NEW A, NEW B, NEW a, NEW b, Fits(A, B, a, b), a + b < QuantityModulus
    PROVE  LET weighted == WeightedMidPrice([price |-> B, quantity |-> b], [price |-> A, quantity |-> a])
           IN  /\ weighted = (A * b + B * a) \div (a + b)
               /\ B <= weighted /\ weighted <= A
  <1> DEFINE N == A * b + B * a
             W == N \div (a + b)
  <1>1. Mul(A, FromInt(b)) = A * b /\ Mul(B, FromInt(a)) = B * a
    BY FitsBounds, MulUnits DEF Fits
  <1>2. Plus(a, b) = a + b
    BY QuantityAssumption DEF Plus, Fits
  <1>3. /\ N \in Nat /\ a + b \in Nat /\ a + b > 0
        /\ B * (a + b) <= N /\ N <= A * (a + b)
    <2>1. B * b <= A * b /\ B * a <= A * a
      BY ProductOrder DEF Fits
    <2> QED
      BY <2>1 DEF Fits
  <1>4. W \in Nat /\ W * (a + b) <= N /\ N < W * (a + b) + (a + b)
    BY <1>3, DivBetween
  <1> HIDE DEF W, N
  <1>5. B <= W /\ W <= A
    <2>1. (W + 1) * (a + b) = W * (a + b) + (a + b) /\ (A + 1) * (a + b) = A * (a + b) + (a + b)
      BY <1>3, <1>4 DEF Fits
    <2>2. B * (a + b) < (W + 1) * (a + b) /\ W * (a + b) < (A + 1) * (a + b)
      BY <1>3, <1>4, <2>1 DEF Fits
    <2>3. B < W + 1 /\ W < A + 1
      BY <1>3, <1>4, <2>2, ProductStrict DEF Fits
    <2> QED
      BY <1>4, <2>3 DEF Fits
  <1>6. W < Half
    BY <1>4, <1>5, FitsBounds DEF Fits
  <1>7. Div(N, FromInt(a + b)) = W
    BY <1>3, <1>6, DivUnits DEF W, Fits
  <1>8. WeightedMidPrice([price |-> B, quantity |-> b], [price |-> A, quantity |-> a]) = W
    BY <1>1, <1>2, <1>7 DEF WeightedMidPrice, Add, N
  <1> QED
    BY <1>5, <1>8 DEF W, N

\* The imbalance ratio of the micro-price.
LEMMA RatioIs ==
    ASSUME NEW a \in Nat, NEW b \in Nat, a + b > 0, Scale \in Nat, Scale > 0,
           Half \in Nat, (a + b) * Scale < Half
    PROVE  LET ratio == Div(FromInt(b), FromInt(b + a))
           IN  /\ ratio \in Nat /\ ratio <= Scale
               /\ ratio * (a + b) <= b * Scale
               /\ b * Scale < (ratio + 1) * (a + b)
  <1> DEFINE T == a + b
             R == (b * Scale) \div T
  <1>1. T \in Nat /\ T > 0 /\ b * Scale \in Nat
    OBVIOUS
  <1>2. R \in Nat /\ R * T <= b * Scale /\ b * Scale < R * T + T
    BY <1>1, DivBetween
  <1>3. b * Scale <= T * Scale
    BY ProductOrder
  <1> HIDE DEF R
  <1>4. (R + 1) * T = R * T + T
    BY <1>1, <1>2
  <1>5. R <= Scale
    <2>1. R * T < (Scale + 1) * T
      BY <1>1, <1>2, <1>3
    <2> QED
      BY <1>1, <1>2, <2>1, ProductStrict
  <1>6. Scale * 1 <= Scale * T
    BY <1>1
  <1>7. R < Half
    BY <1>2, <1>5, <1>6
  <1>8. Div(b * Scale, FromInt(T)) = R
    BY <1>1, <1>7, DivUnits DEF R
  <1>9. FromInt(b) = b * Scale /\ FromInt(b + a) = FromInt(T)
    BY DEF FromInt
  <1> HIDE DEF T
  <1>10. Div(FromInt(b), FromInt(b + a)) = R
    BY <1>8, <1>9
  <1> QED
    BY <1>2, <1>4, <1>5, <1>10 DEF T

\* The two products of the micro-price, each cut off.
LEMMA MicroIs ==
    ASSUME NEW A, NEW B, NEW a, NEW b, Fits(A, B, a, b),
           NEW R \in Nat, R <= Scale, Div(FromInt(b), FromInt(b + a)) = R
    PROVE  MicroPrice([price |-> B, quantity |-> b], [price |-> A, quantity |-> a])
               = (A * R) \div Scale + (B * (Scale - R)) \div Scale
  <1> DEFINE Cut(x, y) == (x * y) \div Scale
  <1>1. ASSUME NEW x \in Nat, NEW y \in Nat, x <= A, y <= Scale
        PROVE  Mul(x, y) = Cut(x, y)
    <2>1. x * y \in Nat /\ x * y <= x * Scale /\ x * Scale \in Nat
      BY <1>1, ProductOrder DEF Fits
    <2>2. Cut(x, y) \in Nat /\ Cut(x, y) * Scale <= x * y
      BY <2>1, DivBetween DEF Fits
    <2> HIDE DEF Cut
    <2>3. Cut(x, y) * Scale < (x + 1) * Scale
      BY <1>1, <2>1, <2>2 DEF Fits
    <2>4. Cut(x, y) < x + 1
      BY <1>1, <2>2, <2>3, ProductStrict DEF Fits
    <2>5. Cut(x, y) < Half
      BY <1>1, <2>2, <2>4, FitsBounds DEF Fits
    <2> QED
      BY <2>5, MulIs DEF Cut, Fits
  <1>2. Mul(A, R) = Cut(A, R) /\ Mul(B, Scale - R) = Cut(B, Scale - R)
    BY <1>1 DEF Fits
  <1>3. Sub(FromInt(1), R) = Scale - R
    BY DEF Sub, FromInt, Fits
  <1> QED
    BY <1>2, <1>3 DEF MicroPrice, Add

\* What two cut-off products leave of a whole: less than two units of Scale.
LEMMA TwoCuts ==
    ASSUME NEW x \in Nat, NEW y \in Nat, NEW s \in Nat, s > 0
    PROVE  LET m == x \div s + y \div s
           IN  m \in Nat /\ m * s <= x + y /\ x + y < m * s + 2 * s
  <1> DEFINE p == x \div s
             q == y \div s
  <1>1. p \in Nat /\ p * s <= x /\ x < p * s + s
    BY DivBetween
  <1>2. q \in Nat /\ q * s <= y /\ y < q * s + s
    BY DivBetween
  <1> HIDE DEF p, q
  <1>3. (p + q) * s = p * s + q * s
    BY <1>1, <1>2
  <1>4. p + q \in Nat /\ (p + q) * s <= x + y /\ x + y < (p + q) * s + 2 * s
    BY <1>1, <1>2, <1>3
  <1> QED
    BY <1>4 DEF p, q

\* The micro-price is at most the weighted mid, and less than two units and the
\* spread over Scale below it.
LEMMA MicroNearWeighted ==
    ASSUME NEW A, NEW B, NEW a, NEW b, Fits(A, B, a, b), a + b < QuantityModulus
    PROVE  LET bid == [price |-> B, quantity |-> b]
               ask == [price |-> A, quantity |-> a]
               micro == MicroPrice(bid, ask)
               weighted == WeightedMidPrice(bid, ask)
           IN  /\ micro <= weighted
               /\ weighted <= micro + 2 + (A - B) \div Scale
  <1> DEFINE T == a + b
             D == A - B
             N == A * b + B * a
             W == N \div T
             R == Div(FromInt(b), FromInt(b + a))
             X == A * R + B * (Scale - R)
             M == (A * R) \div Scale + (B * (Scale - R)) \div Scale
  <1>1. /\ T \in Nat /\ T > 0 /\ D \in Nat /\ A \in Nat /\ B \in Nat
        /\ a \in Nat /\ b \in Nat /\ Scale \in Nat /\ Scale > 0 /\ N \in Nat
    BY DEF Fits
  <1>2. /\ R \in Nat /\ R <= Scale
        /\ R * T <= b * Scale /\ b * Scale < (R + 1) * T
    BY RatioIs DEF Fits
  <1>3. WeightedMidPrice([price |-> B, quantity |-> b], [price |-> A, quantity |-> a]) = W
    BY WeightedInside
  <1>4. MicroPrice([price |-> B, quantity |-> b], [price |-> A, quantity |-> a]) = M
    BY <1>2, MicroIs
  <1>5. W \in Nat /\ W * T <= N /\ N < W * T + T
    BY <1>1, DivBetween
  <1> HIDE DEF R
  <1>6. A * R \in Nat /\ B * (Scale - R) \in Nat
    BY <1>1, <1>2
  <1>7. M \in Nat /\ M * Scale <= X /\ X < M * Scale + 2 * Scale
    BY <1>1, <1>6, TwoCuts
  <1> HIDE DEF M, W
  <1>8. X = B * Scale + D * R /\ N = B * T + D * b
    BY <1>1, <1>2
  <1> HIDE DEF X, N
  <1>9. D * R * T <= D * b * Scale /\ D * b * Scale <= D * (R + 1) * T
    <2> HIDE DEF D, T
    <2>1. (R * T) * D <= (b * Scale) * D /\ (b * Scale) * D <= ((R + 1) * T) * D
      BY <1>1, <1>2, ProductOrder
    <2> QED
      BY <1>1, <1>2, <2>1
  <1> HIDE DEF D, T
  <1>10. M <= W
    <2>1. (M * Scale) * T <= X * T
      BY <1>1, <1>7, <1>8, ProductOrder
    <2>2. X * T = (B * T) * Scale + D * R * T /\ N * Scale = (B * T) * Scale + D * b * Scale
      BY <1>1, <1>2, <1>8
    <2>3. (M * T) * Scale <= N * Scale
      BY <1>1, <1>2, <1>7, <1>9, <2>1, <2>2
    <2>4. (M * T) * Scale < (N + 1) * Scale
      BY <1>1, <1>7, <2>3
    <2>5. M * T < N + 1
      BY <1>1, <1>7, <2>4, ProductStrict
    <2>6. M * T < (W + 1) * T
      BY <1>1, <1>5, <1>7, <2>5
    <2>7. M < W + 1
      BY <1>1, <1>5, <1>7, <2>6, ProductStrict
    <2> QED
      BY <1>5, <1>7, <2>7
  <1>11. W <= M + 2 + D \div Scale
    <2> DEFINE E == D \div Scale
    <2>1. E \in Nat /\ D < E * Scale + Scale
      BY <1>1, DivBetween
    <2> HIDE DEF E
    <2>2. (W * T) * Scale <= N * Scale
      BY <1>1, <1>5, ProductOrder
    <2>3. N * Scale = (B * T) * Scale + D * b * Scale
      BY <1>1, <1>8
    <2>4. (X + D) * T = (B * T) * Scale + D * (R + 1) * T
      BY <1>1, <1>2, <1>8
    <2>5. (W * Scale) * T <= (X + D) * T
      BY <1>1, <1>2, <1>5, <1>9, <2>2, <2>3, <2>4
    <2>6. X \in Nat
      BY <1>1, <1>2, <1>8
    <2>7. (W * Scale) * T < (X + D + 1) * T
      BY <1>1, <1>5, <2>5, <2>6
    <2>8. W * Scale < X + D + 1
      BY <1>1, <1>5, <2>6, <2>7, ProductStrict
    <2>9. (M + 3 + E) * Scale = M * Scale + 2 * Scale + E * Scale + Scale
      BY <1>1, <1>7, <2>1
    <2>10. W * Scale < (M + 3 + E) * Scale
      BY <1>1, <1>5, <1>7, <2>1, <2>6, <2>8, <2>9
    <2>11. W < M + 3 + E
      BY <1>1, <1>5, <1>7, <2>1, <2>10, ProductStrict
    <2> QED
      BY <1>5, <1>7, <2>1, <2>11 DEF E
  <1> QED
    BY <1>3, <1>4, <1>10, <1>11 DEF D

\* The imbalance, by the side with more on it.
LEMMA ImbalanceIs ==
    ASSUME NEW a \in Nat, NEW b \in Nat, a + b > 0, Scale \in Nat, Scale > 0,
           Half \in Nat, (a + b) * Scale < Half
    PROVE  LET imbalance == InsideVolumetricImbalance([quantity |-> b], [quantity |-> a])
           IN  /\ a <= b => imbalance = ((b - a) * Scale) \div (a + b)
               /\ b < a => imbalance = -(((a - b) * Scale) \div (a + b))
  <1> DEFINE T == a + b
             Share(c) == (c * Scale) \div T
  <1>1. T \in Nat /\ T > 0 /\ T * Scale \in Nat /\ T * Scale > 0
    BY DEF FromInt
  <1>2. ASSUME NEW c \in Nat, c <= T
        PROVE  /\ c * Scale \in Nat
               /\ ((c * Scale) * Scale) \div (T * Scale) = Share(c)
               /\ Share(c) \in Nat /\ Share(c) < Half
    <2>1. c * Scale \in Nat /\ c * Scale <= T * Scale
      BY <1>1, <1>2, ProductOrder
    <2>2. ((c * Scale) * Scale) \div (T * Scale) = Share(c)
      BY <1>1, <2>1, DivCancel
    <2>3. Share(c) \in Nat /\ Share(c) * T <= c * Scale
      BY <1>1, <2>1, DivBetween
    <2> HIDE DEF Share
    <2>4. Share(c) * T < (Scale + 1) * T
      BY <1>1, <2>1, <2>3
    <2>5. Share(c) < Scale + 1
      BY <1>1, <2>3, <2>4, ProductStrict
    <2>6. Scale * 1 <= Scale * T
      BY <1>1
    <2> QED
      BY <1>1, <2>1, <2>2, <2>3, <2>5, <2>6
  <1>3. Sub(FromInt(b), FromInt(a)) = (b - a) * Scale /\ FromInt(b + a) = T * Scale
    BY DEF Sub, FromInt
  <1> HIDE DEF T, Share
  <1>4. InsideVolumetricImbalance([quantity |-> b], [quantity |-> a])
            = Wrapped(TruncDiv(((b - a) * Scale) * Scale, T * Scale))
    BY <1>3 DEF InsideVolumetricImbalance, Div
  <1>5. CASE a <= b
    <2>1. b - a \in Nat /\ b - a <= T
      BY <1>5 DEF T
    <2>2. ((b - a) * Scale) * Scale \in Nat
      BY <1>2, <2>1
    <2>3. TruncDiv(((b - a) * Scale) * Scale, T * Scale) = Share(b - a)
      BY <1>1, <1>2, <2>1, <2>2, TruncDivNat
    <2>4. Wrapped(Share(b - a)) = Share(b - a)
      BY <1>2, <2>1, WrappedFits
    <2> QED
      BY <1>4, <1>5, <2>3, <2>4 DEF Share, T
  <1>6. CASE b < a
    <2>1. a - b \in Nat /\ a - b <= T /\ a - b > 0
      BY <1>6 DEF T
    <2>2. /\ ((b - a) * Scale) * Scale = -(((a - b) * Scale) * Scale)
          /\ ((a - b) * Scale) * Scale \in Nat /\ ((a - b) * Scale) * Scale > 0
      BY <2>1
    <2>3. TruncDiv(((b - a) * Scale) * Scale, T * Scale) = -Share(a - b)
      BY <1>1, <1>2, <2>1, <2>2 DEF TruncDiv, Magnitude
    <2>4. Wrapped(-Share(a - b)) = -Share(a - b)
      BY <1>2, <2>1, WrappedFits
    <2> QED
      BY <1>4, <1>6, <2>3, <2>4 DEF Share, T
  <1> QED
    BY <1>5, <1>6

\* The imbalance is a share, and has the sign of the difference or none.
LEMMA ImbalanceInside ==
    ASSUME NEW a \in Nat, NEW b \in Nat, a + b > 0, Scale \in Nat, Scale > 0,
           Half \in Nat, (a + b) * Scale < Half
    PROVE  LET imbalance == InsideVolumetricImbalance([quantity |-> b], [quantity |-> a])
           IN  /\ -FromInt(1) <= imbalance /\ imbalance <= FromInt(1)
               /\ (imbalance = FromInt(1)) <=> (a = 0)
               /\ imbalance > 0 => b > a
               /\ imbalance < 0 => b < a
  <1> DEFINE T == a + b
             I == InsideVolumetricImbalance([quantity |-> b], [quantity |-> a])
             Share(c) == (c * Scale) \div T
  <1>1. T \in Nat /\ T > 0 /\ FromInt(1) = Scale
    BY DEF FromInt
  <1>2. ASSUME NEW c \in Nat, c <= T
        PROVE  /\ Share(c) \in Nat /\ Share(c) <= Scale
               /\ Share(c) = Scale <=> c = T
               /\ c = 0 => Share(c) = 0
    <2>1. Share(c) \in Nat /\ Share(c) * T <= c * Scale /\ c * Scale < Share(c) * T + T
      BY <1>1, DivBetween
    <2> HIDE DEF Share
    <2>2. c * Scale <= T * Scale
      BY <1>1, <1>2, ProductOrder
    <2>3. Share(c) * T < (Scale + 1) * T
      BY <1>1, <2>1, <2>2
    <2>4. Share(c) < Scale + 1
      BY <1>1, <2>1, <2>3, ProductStrict
    <2>5. ASSUME Share(c) = Scale PROVE c = T
      <3>1. T * Scale < (c + 1) * Scale
        BY <1>1, <2>1, <2>5
      <3> QED
        BY <1>1, <1>2, <3>1, ProductStrict
    <2>6. ASSUME c = T PROVE Share(c) = Scale
      <3>1. Scale * T < (Share(c) + 1) * T
        BY <1>1, <2>1, <2>6
      <3>2. Scale < Share(c) + 1
        BY <1>1, <2>1, <3>1, ProductStrict
      <3> QED
        BY <2>1, <2>4, <3>2
    <2>7. ASSUME c = 0 PROVE Share(c) = 0
      <3>1. Share(c) * T < 1 * T
        BY <1>1, <2>1, <2>7
      <3> QED
        BY <1>1, <2>1, <3>1, ProductStrict
    <2> QED
      BY <2>1, <2>4, <2>5, <2>6, <2>7
  <1>3. (a <= b => I = Share(b - a)) /\ (b < a => I = -Share(a - b))
    BY ImbalanceIs
  <1> HIDE DEF Share, I
  <1>4. CASE a <= b
    <2>1. b - a \in Nat /\ b - a <= T /\ (b - a = T <=> a = 0) /\ (b - a = 0 <=> a = b)
      BY <1>4
    <2>2. /\ I \in Nat /\ I <= Scale /\ (I = Scale <=> a = 0) /\ (a = b => I = 0)
      BY <1>2, <1>3, <1>4, <2>1
    <2> QED
      BY <1>1, <1>4, <2>2 DEF I
  <1>5. CASE b < a
    <2>1. a - b \in Nat /\ a - b <= T /\ a # 0
      BY <1>5
    <2>2. Share(a - b) \in Nat /\ Share(a - b) <= Scale /\ I = -Share(a - b)
      BY <1>2, <1>3, <1>5, <2>1
    <2> QED
      BY <1>1, <1>5, <2>1, <2>2 DEF I
  <1> QED
    BY <1>4, <1>5

\* The width has room for the formulas: a best price times both quantities, and
\* both quantities as fixed-point numbers.  That a power of ten is positive is
\* said because the provers know nothing of powers.
RoomForFormulas ==
    /\ Scale > 0
    /\ 2 * Tick * MaxPrice * QuantityModulus <= Half
    /\ QuantityModulus * Scale <= Half

\* The two best levels as the formulas see them.
LEMMA BestLevelsFit ==
    ASSUME Consistent, TotalsMatchOrders, TwoSided, TotalsFit, RoomForFormulas
    PROVE  \E A, B, a, b \in Nat :
               /\ Value(Best("BID")) = [price |-> B, quantity |-> b]
               /\ Value(Best("ASK")) = [price |-> A, quantity |-> a]
               /\ Fits(A, B, a, b) /\ a + b < QuantityModulus
  <1>1. "BID" \in Side /\ "ASK" \in Side
    BY DEF Side
  <1>2. /\ Begin("BID") \in listed["BID"] /\ Begin("BID") \in Prices
        /\ Begin("ASK") \in listed["ASK"] /\ Begin("ASK") \in Prices
    BY <1>1, BestIsListed DEF TwoSided
  <1>3. \A s \in Side : Value(Best(s)) = [price |-> Tick * Begin(s), quantity |-> total[s][Begin(s)]]
    <2>1. \A s \in Side : listed[s] # {}
      BY DEF TwoSided, Has, Best, Side
    <2>2. \A s \in Side : Best(s) = <<[price |-> Tick * Begin(s), quantity |-> total[s][Begin(s)]]>>
      BY <2>1 DEF Best, Some
    <2> QED
      BY <2>2 DEF Value
  <1> DEFINE A == Tick * Begin("ASK")
             B == Tick * Begin("BID")
             a == total["ASK"][Begin("ASK")]
             b == total["BID"][Begin("BID")]
  <1>4. /\ a \in Nat /\ b \in Nat /\ a + b < QuantityModulus
        /\ queue["BID"][Begin("BID")] # <<>> => b > 0
        /\ queue["ASK"][Begin("ASK")] # <<>> => a > 0
    BY <1>1, <1>2, TotalsOfBest
  <1>5. a + b > 0
    BY <1>2, <1>4, OneBestHasOrders
  <1>6. /\ Begin("BID") \in Nat /\ Begin("ASK") \in Nat
        /\ Begin("BID") < Begin("ASK") /\ Begin("ASK") <= MaxPrice /\ MaxPrice \in Nat
    BY <1>2, PriceAssumption DEF Prices, Consistent, NeverCrossed
  <1>7. Tick \in Nat /\ Tick > 0
    BY TickAssumption
  <1> HIDE DEF a, b
  <1>8. A \in Nat /\ B \in Nat /\ B < A /\ A <= Tick * MaxPrice /\ Tick * MaxPrice \in Nat
    <2>1. Begin("BID") * Tick <= (Begin("ASK") - 1) * Tick /\ Begin("ASK") * Tick <= MaxPrice * Tick
      BY <1>6, <1>7, ProductOrder
    <2> QED
      BY <1>6, <1>7, <2>1
  <1> HIDE DEF A, B
  <1>9. Scale \in Nat /\ Scale > 0 /\ Half \in Nat
    BY FixedPointAssumption DEF RoomForFormulas, Scale
  <1>10. A * (a + b) < Half
    <2> DEFINE P == Tick * MaxPrice
    <2>1. 2 * (P * QuantityModulus) <= Half /\ P \in Nat
      <3>1. 2 * (P * QuantityModulus) = 2 * Tick * MaxPrice * QuantityModulus
        BY <1>6, <1>7, QuantityAssumption
      <3> QED
        BY <1>8, <3>1 DEF RoomForFormulas
    <2> HIDE DEF P
    <2>2. A * (a + b) <= P * (a + b)
      BY <1>4, <1>8, ProductOrder DEF P
    <2>3. (a + b) * P <= QuantityModulus * P
      BY <1>4, <2>1, ProductOrder, QuantityAssumption
    <2>4. P > 0 /\ QuantityModulus \in Nat /\ QuantityModulus > 0
      BY <1>4, <1>8, QuantityAssumption DEF P
    <2>5. P * QuantityModulus \in Nat /\ P * QuantityModulus > 0
      BY <2>1, <2>4
    <2>6. P * QuantityModulus < Half
      BY <1>9, <2>1, <2>5
    <2>7. A * (a + b) <= P * QuantityModulus
      BY <1>4, <1>8, <2>1, <2>2, <2>3, <2>4
    <2> QED
      BY <1>4, <1>8, <1>9, <2>5, <2>6, <2>7
  <1>11. (a + b) * Scale < Half
    <2>1. (a + b + 1) * Scale <= QuantityModulus * Scale
      BY <1>4, <1>9, ProductOrder, QuantityAssumption
    <2> QED
      BY <1>4, <1>9, <2>1, QuantityAssumption DEF RoomForFormulas
  <1>12. Fits(A, B, a, b)
    BY <1>4, <1>5, <1>8, <1>9, <1>10, <1>11 DEF Fits
  <1> QED
    BY <1>1, <1>3, <1>4, <1>8, <1>12 DEF A, B, a, b

\* In every callback and between calls, on every grid of prices: what a signal
\* computes from the two best levels lies between them, and neither the
\* micro-price nor the imbalance is off by more than its divisions cut off,
\* as long as the width has room for the products.
THEOREM QuotesAlwaysInsideSpread ==
    ASSUME RoomForFormulas
    PROVE  Spec => []QuotesInsideSpread
  <1>1. Consistent /\ TotalsMatchOrders => QuotesInsideSpread
    <2> SUFFICES ASSUME Consistent, TotalsMatchOrders, Readable, TwoSided, TotalsFit
                 PROVE  QuotesInsideSpread
      BY DEF QuotesInsideSpread
    <2>1. PICK A, B, a, b \in Nat :
              /\ Value(Best("BID")) = [price |-> B, quantity |-> b]
              /\ Value(Best("ASK")) = [price |-> A, quantity |-> a]
              /\ Fits(A, B, a, b) /\ a + b < QuantityModulus
      BY BestLevelsFit
    <2> DEFINE bid == [price |-> B, quantity |-> b]
               ask == [price |-> A, quantity |-> a]
    <2>2. Spread(bid, ask) > 0
      BY <2>1 DEF Spread, Sub, Fits
    <2>3. B <= MidPrice(bid, ask) /\ MidPrice(bid, ask) < A
      BY <2>1, MidInside
    <2>4. B <= WeightedMidPrice(bid, ask) /\ WeightedMidPrice(bid, ask) <= A
      BY <2>1, WeightedInside
    <2>5. /\ MicroPrice(bid, ask) <= WeightedMidPrice(bid, ask)
          /\ WeightedMidPrice(bid, ask) <= MicroPrice(bid, ask) + 2 + (A - B) \div Scale
      BY <2>1, MicroNearWeighted
    <2>6. InsideVolumetricImbalance(bid, ask)
              = InsideVolumetricImbalance([quantity |-> b], [quantity |-> a])
      BY DEF InsideVolumetricImbalance
    <2>7. /\ -FromInt(1) <= InsideVolumetricImbalance(bid, ask)
          /\ InsideVolumetricImbalance(bid, ask) <= FromInt(1)
          /\ (InsideVolumetricImbalance(bid, ask) = FromInt(1)) <=> (a = 0)
          /\ InsideVolumetricImbalance(bid, ask) > 0 => b > a
          /\ InsideVolumetricImbalance(bid, ask) < 0 => b < a
      BY <2>1, <2>6, ImbalanceInside DEF Fits
    <2> QED
      BY <2>1, <2>2, <2>3, <2>4, <2>5, <2>7 DEF QuotesInsideSpread
  <1> QED
    BY <1>1, AlwaysConsistent, TotalsAlwaysMatch, PTL

=============================================================================
