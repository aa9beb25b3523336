--------------------------- MODULE PipelineProofs ---------------------------
(***************************************************************************)
(* Proofs about the book and the dashboard joined by the event queue, for  *)
(* any book, batch limit and strategy; then about the Gemini application.  *)
(* Its L2 adapter first: the book that it drives is a book like any other, *)
(* its levels are single orders, and it mirrors a feed that is never       *)
(* crossed.  Last the way from the message of the exchange to the screen.  *)
(***************************************************************************)
EXTENDS GeminiPipeline, OrderBookProofs, LevelUpdatesProofs

-----------------------------------------------------------------------------
(* The invariant.                                                          *)

\* The sizes and order counts that the events of a book can leave.
SizesShown == {SizeShown(t) : t \in Totals}
CountsShown == {CountShown(e) : e \in LevelEvents}

Screens == Snapshots(Prices, SizesShown, CountsShown)

\* The events that the screen has not applied, and the screen with them.
Pending == workload \o uiQueue
View == FullySequential(snapshot, Pending)

\* What a screen shows of a level with total t.
Shown(t) == IF t = 0 THEN {} ELSE {SizeShown(t)}

\* matchAgainst has begun on a level and not reported it.
Unreported(s, p) ==
    pc \in {"fill", "filled"} /\ s = Opposite(call.side) /\ p = level

\* An event is being delivered only at the places that deliver one.
EventsAtPlaces ==
    event # NoEvent => pc \in {"filled", "levelMatched", "rested", "unlinked", "return"}

\* The book's part of the invariant.
BookInvariant == Consistent /\ TotalsMatchOrders /\ EventsAtPlaces

\* Every level but the one being matched has the size that the screen will
\* show of it.
ViewMirrorsBook ==
    \A s \in Side, p \in Prices :
        Unreported(s, p) \/ SizesAt(View[s], p) = Shown(total[s][p])

\* No bid that the screen shows is at or above an ask.
Uncrossed(screen) ==
    \A b, a \in Prices :
        SizesAt(screen["BID"], b) # {} /\ SizesAt(screen["ASK"], a) # {} => b < a

\* Whatever part of the pending events is applied, the screen is not crossed.
PartsUncrossed ==
    \A x, y \in Seq(LevelEvents) :
        x \o y = Pending => Uncrossed(FullySequential(snapshot, x))

\* The screen's part of the invariant.
ScreenInvariant ==
    /\ snapshot \in Screens
    /\ workload \in Seq(LevelEvents)
    /\ uiQueue \in Seq(LevelEvents)
    /\ ViewMirrorsBook
    /\ PartsUncrossed

\* Prices are numbers, and every level event of a book can be shown.
LEMMA BookEventsAreShowable ==
    /\ Prices \in SUBSET Int
    /\ Side = Sides
    /\ AllShowable(LevelEvents, Prices, SizesShown, CountsShown)
  <1>1. Prices \in SUBSET Int
    BY PriceAssumption DEF Prices
  <1>2. ASSUME NEW e \in LevelEvents
        PROVE  e.side \in Sides /\ Showable(e, Prices, SizesShown, CountsShown)
    <2>1. e.side \in Sides /\ e.price \in Prices /\ e.quantity \in Totals
      BY DEF LevelEvents, Sides, Side
    <2> QED
      BY <2>1 DEF Showable, SizesShown, CountsShown
  <1> QED
    BY <1>1, <1>2 DEF AllShowable, Side, Sides

-----------------------------------------------------------------------------
(* The events of the book.                                                 *)

\* An event ends with the step that follows it, and begins only at a place
\* that delivers it.
LEMMA EventsArePlaced == EventsAtPlaces /\ [Next]_vars => EventsAtPlaces'
  <1> SUFFICES ASSUME EventsAtPlaces, [Next]_vars PROVE EventsAtPlaces'
    OBVIOUS
  <1>1. CASE Request
    <2>1. UNCHANGED event /\ pc = "idle"
      BY <1>1 DEF Request, NewOrder, Amend, AmendDelta, Cancel, ReplaceOrder, StartUnlink,
                  RefuseDuplicate, RefuseUnknown, RefuseSide, Refuse
    <2> QED
      BY <2>1 DEF EventsAtPlaces
  <1>2. CASE EnterLevel \/ ReplaceAfterCancel
    <2>1. UNCHANGED event /\ pc \in {"match", "erase"}
      BY <1>2 DEF EnterLevel, ReplaceAfterCancel
    <2> QED
      BY <2>1 DEF EventsAtPlaces
  <1>3. CASE OnFilled \/ NextLevel \/ LeaveLevel \/ Return \/ EraseOrder
    BY <1>3 DEF OnFilled, NextLevel, LeaveLevel, Return, EraseOrder, Finish, EventsAtPlaces
  <1>4. CASE Fill \/ LevelMatched \/ Rest \/ Notify \/ Unlink \/ Reinsert
    BY <1>4 DEF Fill, LevelMatched, Rest, Notify, Unlink, Reinsert, EventsAtPlaces
  <1>5. CASE UNCHANGED vars
    BY <1>5 DEF vars, EventsAtPlaces
  <1> QED
    BY <1>1, <1>2, <1>3, <1>4, <1>5 DEF Next, Step

\* A step that sends a level event.
Tells == event' # event /\ event'.type = "LevelQuantity"

\* The event tells the new total of its level, and no other level changes or
\* is left unreported.
TellsTotals ==
    /\ pc' \notin {"fill", "filled"}
    /\ event' \in LevelEvents
    /\ \A s \in Side, p \in Prices :
          IF s = event'.side /\ p = event'.price
          THEN total'[s][p] = event'.quantity
          ELSE total'[s][p] = total[s][p] /\ ~ Unreported(s, p)

\* A level that is reported has the total that it had before.
KeepsTotals ==
    \A s \in Side, p \in Prices :
        \/ Unreported(s, p)'
        \/ total'[s][p] = total[s][p] /\ ~ Unreported(s, p)

\* An order that joins a level.
LEMMA InsertTells ==
    ASSUME Consistent, EventsAtPlaces, pc = "match" \/ pc = "reinsert",
           pc' \in {"rested", "return"},
           NEW s \in Side, NEW p \in Prices, NEW id \in OrderIDs, NEW quantity \in Quantities,
           Insert(s, p, id, quantity)
    PROVE  Tells /\ TellsTotals
  <1> DEFINE q == Append(queue[s][p], id)
             t == Plus(total[s][p], quantity)
  <1>1. event' = LevelEvent(s, p, q, t) /\ total' = [total EXCEPT ![s][p] = t]
    BY DEF Insert
  <1>2. total \in [Side -> [Prices -> Totals]] /\ queue[s][p] \in Seq(OrderIDs)
    BY DEF Consistent, TypeOK
  <1>3. t \in Totals
    <2>1. total[s][p] \in Nat /\ quantity \in Nat /\ QuantityModulus \in Nat \ {0}
      BY <1>2, QuantityAssumption DEF Totals, Quantities
    <2>2. \A x \in Nat : x % QuantityModulus \in 0 .. QuantityModulus - 1
      BY <2>1
    <2> QED
      BY <2>1, <2>2 DEF Plus, Totals
  <1>4. Len(q) \in Nat
    BY <1>2
  <1> HIDE DEF q, t
  <1>5. event' \in LevelEvents /\ event'.type = "LevelQuantity"
    BY <1>1, <1>3, <1>4 DEF LevelEvent, LevelEvents
  <1>6. event'.side = s /\ event'.price = p /\ event'.quantity = t
    BY <1>1 DEF LevelEvent
  <1>7. event = NoEvent
    BY DEF EventsAtPlaces
  <1>8. ASSUME NEW s2 \in Side, NEW p2 \in Prices
        PROVE  IF s2 = s /\ p2 = p THEN total'[s2][p2] = t
               ELSE total'[s2][p2] = total[s2][p2] /\ ~ Unreported(s2, p2)
    BY <1>1, <1>2 DEF Unreported
  <1> QED
    BY <1>5, <1>6, <1>7, <1>8 DEF Tells, TellsTotals, NoEvent

\* An order that leaves a level.
LEMMA UnlinkTells ==
    ASSUME BookInvariant, Unlink
    PROVE  Tells /\ TellsTotals
  <1> DEFINE s == call.side
             p == orders[call.id].price
             q == Unlinked(queue[s][p], call.id)
             t == Minus(total[s][p], orders[call.id].quantity)
  <1>1. /\ pc = "match" \/ pc = "unlink"
        /\ total' = [total EXCEPT ![s][p] = t]
        /\ event' = LevelEvent(s, p, q, t)
        /\ pc' = "unlinked"
    BY DEF Unlink, MatchOver
  <1>2. s \in Side /\ p \in Prices
    BY DEF BookInvariant, Unlink, MatchOver, Consistent, TypeOK, Call, InFlight, CallersOrder,
           Matching, PlacesOfCalls, Order
  <1>3. Consistent'
    BY NextConsistent DEF BookInvariant, Next, Step
  <1>4. total \in [Side -> [Prices -> Totals]]
    BY DEF BookInvariant, Consistent, TypeOK
  <1> HIDE DEF s, p, q, t
  <1>5. /\ event'.type = "LevelQuantity" /\ event'.side = s
        /\ event'.price = p /\ event'.quantity = t
    BY <1>1 DEF LevelEvent
  <1>6. event' \in LevelEvents
    BY <1>3, <1>5 DEF Consistent, TypeOK, NoEvent, TradeEvents, MatchedEvents
  <1>7. event = NoEvent
    BY <1>1 DEF BookInvariant, EventsAtPlaces
  <1>8. ASSUME NEW s2 \in Side, NEW p2 \in Prices
        PROVE  IF s2 = s /\ p2 = p THEN total'[s2][p2] = t
               ELSE total'[s2][p2] = total[s2][p2] /\ ~ Unreported(s2, p2)
    BY <1>1, <1>2, <1>4 DEF Unreported
  <1> QED
    BY <1>1, <1>5, <1>6, <1>7, <1>8 DEF Tells, TellsTotals, NoEvent

\* The report of the level that was matched.
LEMMA LevelMatchedTells ==
    ASSUME BookInvariant, LevelMatched
    PROVE  Tells /\ TellsTotals
  <1> DEFINE s == Opposite(call.side)
             t == total[s][level]
  <1>1. /\ pc = "fill"
        /\ UNCHANGED total
        /\ event' = LevelEvent(s, level, queue[s][level], t)
        /\ pc' = "levelMatched"
    BY DEF LevelMatched
  <1>2. s \in Side
    BY <1>1 DEF BookInvariant, Consistent, TypeOK, Call, Opposite, Side
  <1>3. Consistent'
    BY NextConsistent DEF BookInvariant, Next, Step
  <1>4. /\ event'.type = "LevelQuantity" /\ event'.side = s
        /\ event'.price = level /\ event'.quantity = t
    BY <1>1 DEF LevelEvent
  <1>5. event' \in LevelEvents
    BY <1>3, <1>4 DEF Consistent, TypeOK, NoEvent, TradeEvents, MatchedEvents
  <1>6. event = NoEvent
    BY <1>1 DEF BookInvariant, EventsAtPlaces
  <1>7. ASSUME NEW s2 \in Side, NEW p2 \in Prices
        PROVE  IF s2 = s /\ p2 = level THEN total'[s2][p2] = t
               ELSE total'[s2][p2] = total[s2][p2] /\ ~ Unreported(s2, p2)
    BY <1>1 DEF Unreported
  <1> QED
    BY <1>1, <1>4, <1>5, <1>6, <1>7 DEF Tells, TellsTotals, NoEvent

\* A level without orders has no total, so that its removal changes nothing.
LEMMA DropKeepsTotals ==
    ASSUME BookInvariant, NEW s \in Side, NEW p \in Prices, DropIfEmpty(s, p)
    PROVE  \A s2 \in Side, p2 \in Prices : total'[s2][p2] = total[s2][p2]
  <1> SUFFICES ASSUME NEW s2 \in Side, NEW p2 \in Prices
               PROVE  total'[s2][p2] = total[s2][p2]
    OBVIOUS
  <1>1. \/ total'[s2][p2] = total[s2][p2]
        \/ queue[s2][p2] = <<>> /\ total'[s2][p2] = 0
    BY DroppedTotals DEF BookInvariant
  <1>2. queue[s2][p2] = <<>> => total[s2][p2] = 0
    <2>1. TotalAt(s2, p2)
      BY TotalsByLevel DEF BookInvariant
    <2>2. 0 % QuantityModulus = 0
      BY QuantityAssumption
    <2> QED
      BY <2>1, <2>2, LevelSumEmpty DEF TotalAt
  <1> QED
    BY <1>1, <1>2

\* Between a step that takes a quantity off a level and the event that reports
\* that level, nothing else changes: every step tells the totals it changes,
\* changes none, or goes on with the level being matched.
LEMMA StepsTellTotals ==
    ASSUME BookInvariant, [Next]_vars
    PROVE  (Tells /\ TellsTotals) \/ (~ Tells /\ KeepsTotals)
  <1>1. CASE Request
    <2>1. /\ UNCHANGED <<event, total>> /\ pc = "idle"
          /\ pc' \in {"idle", "match", "unlink"}
      BY <1>1 DEF Request, NewOrder, Amend, AmendDelta, Cancel, ReplaceOrder, StartMatch,
                  StartUnlink, RefuseDuplicate, RefuseUnknown, RefuseSide, Refuse
    <2> QED
      BY <2>1 DEF Tells, KeepsTotals, Unreported
  <1>2. CASE EnterLevel \/ ReplaceAfterCancel
    <2>1. UNCHANGED <<event, total>> /\ pc \in {"match", "erase"}
      BY <1>2 DEF EnterLevel, ReplaceAfterCancel
    <2> QED
      BY <2>1 DEF Tells, KeepsTotals, Unreported
  <1>3. CASE Fill
    <2>1. /\ event'.type = "Trade" /\ pc = "fill" /\ pc' = "filled"
          /\ UNCHANGED <<call, level>>
          /\ total' = [total EXCEPT ![Opposite(call.side)][level] =
                           Minus(total[Opposite(call.side)][level], Delta)]
      BY <1>3 DEF Fill
    <2>2. total \in [Side -> [Prices -> Totals]]
      BY DEF BookInvariant, Consistent, TypeOK
    <2>3. ASSUME NEW s \in Side, NEW p \in Prices, ~ Unreported(s, p)'
          PROVE  total'[s][p] = total[s][p] /\ ~ Unreported(s, p)
      <3>1. ~ (s = Opposite(call.side) /\ p = level)
        BY <2>1, <2>3 DEF Unreported
      <3> QED
        BY <2>1, <2>2, <3>1 DEF Unreported
    <2> QED
      BY <2>1, <2>3 DEF Tells, KeepsTotals
  <1>4. CASE OnFilled
    <2>1. /\ event' = NoEvent /\ pc = "filled" /\ pc' = "fill"
          /\ UNCHANGED <<call, level, total>>
      BY <1>4 DEF OnFilled
    <2> QED
      BY <2>1 DEF Tells, KeepsTotals, Unreported, NoEvent
  <1>5. CASE LevelMatched
    BY <1>5, LevelMatchedTells
  <1>6. CASE Unlink
    BY <1>6, UnlinkTells
  <1>7. CASE NextLevel
    <2>1. event' = NoEvent /\ pc = "levelMatched" /\ DropIfEmpty(Opposite(call.side), level)
      BY <1>7 DEF NextLevel
    <2>2. Opposite(call.side) \in Side /\ level \in listed[Opposite(call.side)]
      BY <2>1 DEF BookInvariant, Consistent, TypeOK, InFlight, IteratorAtFirst, Opposite, Side
    <2>3. level \in Prices
      BY <2>2 DEF BookInvariant, Consistent, TypeOK
    <2>4. \A s \in Side, p \in Prices : total'[s][p] = total[s][p]
      BY <2>1, <2>2, <2>3, DropKeepsTotals
    <2> QED
      BY <2>1, <2>4 DEF Tells, KeepsTotals, Unreported, NoEvent
  <1>8. CASE LeaveLevel
    <2>1. event' = NoEvent /\ pc = "unlinked" /\ DropIfEmpty(call.side, orders[call.id].price)
      BY <1>8 DEF LeaveLevel
    <2>2. call.side \in Side /\ orders[call.id].price \in Prices
      BY <2>1 DEF BookInvariant, Consistent, TypeOK, Call, InFlight, CallersOrder, Order
    <2>3. \A s \in Side, p \in Prices : total'[s][p] = total[s][p]
      BY <2>1, <2>2, DropKeepsTotals
    <2> QED
      BY <2>1, <2>3 DEF Tells, KeepsTotals, Unreported, NoEvent
  <1>9. CASE Rest
    <2>1. /\ pc = "match" /\ pc' = "rested"
          /\ Insert(call.side, call.price, call.id, remaining)
      BY <1>9 DEF Rest, MatchOver
    <2>2. call.side \in Side /\ call.price \in Prices /\ call.id \in OrderIDs /\ remaining \in Quantities
      BY <2>1 DEF BookInvariant, Consistent, TypeOK, Call
    <2> QED
      BY <2>1, <2>2, InsertTells DEF BookInvariant
  <1>10. CASE Reinsert
    <2>1. /\ pc = "reinsert" /\ pc' = "return"
          /\ Insert(call.side, call.price, call.id, remaining)
      BY <1>10 DEF Reinsert
    <2>2. call.side \in Side /\ call.price \in Prices /\ call.id \in OrderIDs /\ remaining \in Quantities
      BY <2>1 DEF BookInvariant, Consistent, TypeOK, Call
    <2> QED
      BY <2>1, <2>2, InsertTells DEF BookInvariant
  <1>11. CASE Notify
    <2>1. event'.type = "OrderMatched" /\ pc \in {"match", "rested"} /\ UNCHANGED total
      BY <1>11 DEF Notify, MatchOver
    <2> QED
      BY <2>1 DEF Tells, KeepsTotals, Unreported
  <1>12. CASE Return \/ EraseOrder
    <2>1. event' = NoEvent /\ pc \in {"return", "erase"} /\ UNCHANGED total
      BY <1>12 DEF Return, EraseOrder, Finish
    <2> QED
      BY <2>1 DEF Tells, KeepsTotals, Unreported, NoEvent
  <1>13. CASE UNCHANGED vars
    BY <1>13 DEF vars, Tells, KeepsTotals, Unreported
  <1> QED
    BY <1>1, <1>2, <1>3, <1>4, <1>5, <1>6, <1>7, <1>8, <1>9, <1>10, <1>11, <1>12, <1>13
       DEF Next, Step

\* The book's part of the invariant holds on its own.
LEMMA BookInvariantStep == BookInvariant /\ [Next]_vars => BookInvariant'
  BY NextConsistent, NextKeepsTotals, EventsArePlaced DEF BookInvariant

\* An empty book has it.
LEMMA BookInvariantInit == Init => BookInvariant
  BY InitConsistent, InitTotals DEF BookInvariant, EventsAtPlaces, Init

-----------------------------------------------------------------------------
(* The screen follows the book.                                            *)

\* A sequence that ends where another one goes on is a part of it.
LEMMA PartOfShorter ==
    ASSUME NEW E, NEW s \in Seq(E), NEW e \in E, NEW x \in Seq(E), NEW y \in Seq(E),
           x \o y = Append(s, e), y # <<>>
    PROVE  \E z \in Seq(E) : x \o z = s
  <1> DEFINE n == Len(y)
             z == [i \in 1 .. n - 1 |-> y[i]]
             r == x \o z
  <1>1. /\ n \in Nat /\ n # 0 /\ n - 1 \in Nat
        /\ \A i \in 1 .. n : y[i] \in E
        /\ Len(x) \in Nat /\ Len(s) \in Nat
    <2>1. n \in Nat /\ n # 0
      OBVIOUS
    <2> QED
      BY <2>1, ElementOfSeq, LenProperties
  <1>2. z \in [1 .. n - 1 -> E]
    BY <1>1
  <1>3. z \in Seq(E) /\ Len(z) = n - 1 /\ \A i \in 1 .. n - 1 : z[i] = y[i]
    <2>1. z \in Seq(E)
      BY <1>1, <1>2, SeqDef
    <2>2. DOMAIN z = 1 .. n - 1
      BY <1>2
    <2> QED
      BY <1>1, <2>1, <2>2
  <1> DEFINE m == Len(x)
  <1>4. Len(x \o y) = m + n /\ Len(x \o y) = Len(s) + 1
    OBVIOUS
  <1>5. Len(s) = m + (n - 1)
    BY <1>1, <1>4
  <1>6. ASSUME NEW i \in 1 .. Len(s) PROVE (x \o y)[i] = s[i]
    <2>1. Append(s, e)[i] = s[i]
      OBVIOUS
    <2> QED
      BY <2>1
  <1>7. \A i \in 1 .. m : (x \o y)[i] = x[i]
    OBVIOUS
  <1>8. ASSUME NEW i \in 1 .. n PROVE (x \o y)[m + i] = y[i]
    <2>1. \A j \in 1 .. Len(x) + Len(y) :
             (x \o y)[j] = IF j <= Len(x) THEN x[j] ELSE y[j - Len(x)]
      BY ConcatProperties
    <2> DEFINE j == m + i
    <2>2. j \in 1 .. Len(x) + Len(y) /\ ~ (j <= Len(x)) /\ j - Len(x) = i
      BY <1>1
    <2> HIDE DEF j
    <2> QED
      BY <2>1, <2>2 DEF j
  <1> HIDE DEF n, z
  <1>9. /\ r \in Seq(E) /\ Len(r) = m + (n - 1)
        /\ \A i \in 1 .. m : r[i] = x[i]
        /\ \A i \in 1 .. n - 1 : r[m + i] = z[i]
    <2>1. z \in Seq(E) /\ Len(z) = n - 1
      BY <1>3
    <2>2. r \in Seq(E) /\ Len(r) = m + Len(z)
      BY <2>1, ConcatProperties
    <2>3. \A i \in 1 .. m : r[i] = x[i]
      BY <2>1
    <2>4. \A i \in 1 .. Len(z) : r[m + i] = z[i]
      BY <2>1
    <2> QED
      BY <2>1, <2>2, <2>3, <2>4
  <1> HIDE DEF r, m
  <1>10. ASSUME NEW i \in 1 .. Len(s) PROVE r[i] = s[i]
    <2>1. CASE i <= m
      BY <1>1, <1>6, <1>7, <1>9, <2>1 DEF m
    <2>2. CASE ~ (i <= m)
      <3> DEFINE k == i - m
      <3>1. k \in 1 .. n - 1 /\ k \in 1 .. n /\ i = m + k
        BY <1>1, <1>5, <2>2 DEF m
      <3> HIDE DEF k
      <3> QED
        BY <1>3, <1>6, <1>8, <1>9, <3>1
    <2> QED
      BY <2>1, <2>2
  <1>11. r = s
    BY <1>5, <1>9, <1>10, SeqEqual
  <1> QED
    BY <1>3, <1>11 DEF r

\* What is appended to the second sequence is appended to both.
LEMMA AppendToSecond ==
    ASSUME NEW E, NEW s \in Seq(E), NEW t \in Seq(E), NEW e \in E
    PROVE  s \o Append(t, e) = Append(s \o t, e)
  <1> DEFINE one == <<e>>
             both == s \o t
  <1>1. one \in Seq(E) /\ both \in Seq(E)
    BY ConcatProperties
  <1>2. Append(t, e) = t \o one
    BY AppendIsConcat
  <1> HIDE DEF both
  <1>3. Append(both, e) = both \o one
    BY <1>1, AppendIsConcat
  <1> HIDE DEF one
  <1>4. (s \o t) \o one = s \o (t \o one)
    BY <1>1, ConcatAssociative
  <1> QED
    BY <1>2, <1>3, <1>4 DEF both

\* The head of the second sequence may move to the end of the first.
LEMMA HeadMoves ==
    ASSUME NEW E, NEW s \in Seq(E), NEW t \in Seq(E), t # <<>>
    PROVE  Append(s, Head(t)) \o Tail(t) = s \o t
  <1> DEFINE h == Head(t)
             r == Tail(t)
             one == <<h>>
  <1>1. h \in E /\ r \in Seq(E) /\ Len(t) \in Nat /\ Len(t) # 0 /\ Len(r) = Len(t) - 1
        /\ h = t[1] /\ \A i \in 1 .. Len(t) - 1 : r[i] = t[i + 1]
    OBVIOUS
  <1>2. one \in Seq(E) /\ Len(one) = 1 /\ one[1] = h
    BY <1>1
  <1>3. Append(s, h) = s \o one
    BY <1>1, AppendIsConcat
  <1> HIDE DEF h, r, one
  <1>4. one \o r = t
    <2> DEFINE c == one \o r
    <2>1. /\ c \in Seq(E) /\ Len(c) = Len(t)
          /\ \A i \in 1 .. 1 + Len(r) : c[i] = IF i <= 1 THEN one[i] ELSE r[i - 1]
      <3> HIDE DEF c
      <3>0. one \in Seq(E) /\ r \in Seq(E)
        BY <1>1, <1>2
      <3>1. /\ c \in Seq(E) /\ Len(c) = Len(one) + Len(r)
            /\ \A i \in 1 .. Len(one) + Len(r) :
                  c[i] = IF i <= Len(one) THEN one[i] ELSE r[i - Len(one)]
        BY <3>0, ConcatProperties DEF c
      <3> QED
        BY <1>1, <1>2, <3>1
    <2> HIDE DEF c
    <2>2. ASSUME NEW i \in 1 .. Len(c) PROVE c[i] = t[i]
      <3>1. CASE i = 1
        BY <1>1, <1>2, <2>1, <3>1
      <3>2. CASE i # 1
        <4>1. i - 1 \in 1 .. Len(t) - 1 /\ (i - 1) + 1 = i /\ ~ (i <= 1) /\ i \in 1 .. 1 + Len(r)
          BY <1>1, <2>1, <3>2
        <4>2. c[i] = r[i - 1]
          BY <2>1, <4>1
        <4> QED
          BY <1>1, <4>1, <4>2
      <3> QED
        BY <3>1, <3>2
    <2>3. c = t
      BY <2>1, <2>2, SeqEqual
    <2> QED
      BY <2>3 DEF c
  <1>5. (s \o one) \o r = s \o (one \o r)
    BY <1>1, <1>2, ConcatAssociative
  <1> QED
    BY <1>3, <1>4, <1>5 DEF h, r

\* What an event leaves at its level is what the screen will show of its total.
LEMMA LeavesShown == \A e \in LevelEvents : Leaves(e) = Shown(e.quantity)
  BY DEF Leaves, Shown

\* A screen that shows the totals of a book is not crossed, because the levels
\* of a book are not.
LEMMA MirrorUncrossed ==
    ASSUME Consistent', NEW screen,
           \A s \in Side, p \in Prices : SizesAt(screen[s], p) = Shown(total'[s][p])
    PROVE  Uncrossed(screen)
  <1> SUFFICES ASSUME NEW b \in Prices, NEW a \in Prices,
                      SizesAt(screen["BID"], b) # {}, SizesAt(screen["ASK"], a) # {}
               PROVE  b < a
    BY DEF Uncrossed
  <1>1. total'["BID"][b] # 0 /\ total'["ASK"][a] # 0
    BY DEF Shown, Side
  <1>2. b \in listed'["BID"] /\ a \in listed'["ASK"]
    BY <1>1 DEF Consistent, EmptyLevelsArePassing, Side
  <1> QED
    BY <1>2 DEF Consistent, NeverCrossed

\* A step of the book that sends no level event leaves the screen to come
\* as it was.
LEMMA SilentMoves ==
    ASSUME ScreenInvariant, ~ Tells, KeepsTotals, Push, UNCHANGED <<workload, snapshot>>
    PROVE  ScreenInvariant'
  <1>1. UNCHANGED <<uiQueue, workload, snapshot>>
    BY DEF Push, Tells
  <1>2. Pending' = Pending /\ View' = View
    BY <1>1 DEF Pending, View
  <1>3. ViewMirrorsBook'
    BY <1>2 DEF ScreenInvariant, ViewMirrorsBook, KeepsTotals
  <1>4. PartsUncrossed'
    BY <1>1, <1>2 DEF ScreenInvariant, PartsUncrossed
  <1> QED
    BY <1>1, <1>3, <1>4 DEF ScreenInvariant

\* A step that sends a level event adds it to what the screen will show.
LEMMA TellingMoves ==
    ASSUME BookInvariant', ScreenInvariant, Tells, TellsTotals, Push,
           UNCHANGED <<workload, snapshot>>
    PROVE  ScreenInvariant'
  <1> DEFINE e == event'
             more == Append(Pending, e)
  <1>1. uiQueue' = Append(uiQueue, e) /\ e \in LevelEvents
    BY DEF Push, Tells, TellsTotals
  <1>2. /\ snapshot \in Screens
        /\ workload \in Seq(LevelEvents) /\ uiQueue \in Seq(LevelEvents)
        /\ Pending \in Seq(LevelEvents)
    BY ConcatProperties DEF ScreenInvariant, Pending
  <1>3. Pending' = more /\ uiQueue' \in Seq(LevelEvents)
    BY <1>1, <1>2, AppendToSecond DEF Pending
  <1>4. View' = ApplyEvent(View, e)
    <2>1. FullySequential(snapshot, more) = ApplyEvent(FullySequential(snapshot, Pending), e)
      BY <1>1, <1>2, OneMoreEvent
    <2> QED
      BY <1>3, <2>1 DEF View
  <1>5. View \in Screens
    BY <1>2, BookEventsAreShowable, FullySequentialShowsLast DEF View, Screens
  <1>6. ShowsOnly(View, View', e)
    <2>1. e.side \in Sides /\ Showable(e, Prices, SizesShown, CountsShown)
      BY <1>1, BookEventsAreShowable DEF AllShowable
    <2> QED
      BY <1>4, <1>5, <2>1, BookEventsAreShowable, ApplyEventSets DEF Screens
  <1>7. \A s \in Side, p \in Prices : SizesAt(View'[s], p) = Shown(total'[s][p])
    <2> SUFFICES ASSUME NEW s \in Side, NEW p \in Prices
                 PROVE  SizesAt(View'[s], p) = Shown(total'[s][p])
      OBVIOUS
    <2>1. SizesAt(View'[s], p) = IF s = e.side /\ p = e.price THEN Leaves(e)
                                 ELSE SizesAt(View[s], p)
      BY <1>6 DEF ShowsOnly, Side, Sides
    <2>2. CASE s = e.side /\ p = e.price
      BY <1>1, <2>1, <2>2, LeavesShown DEF TellsTotals
    <2>3. CASE ~ (s = e.side /\ p = e.price)
      BY <2>1, <2>3 DEF TellsTotals, ScreenInvariant, ViewMirrorsBook
    <2> QED
      BY <2>2, <2>3
  <1>8. Uncrossed(View')
    <2> DEFINE screen == View'
    <2>1. \A s \in Side, p \in Prices : SizesAt(screen[s], p) = Shown(total'[s][p])
      BY <1>7
    <2>2. Consistent'
      BY DEF BookInvariant
    <2> HIDE DEF screen
    <2>3. Uncrossed(screen)
      BY <2>1, <2>2, MirrorUncrossed
    <2> QED
      BY <2>3 DEF screen
  <1>9. PartsUncrossed'
    <2> SUFFICES ASSUME NEW x \in Seq(LevelEvents), NEW y \in Seq(LevelEvents),
                        x \o y = Pending'
                 PROVE  Uncrossed(FullySequential(snapshot', x))
      BY DEF PartsUncrossed
    <2>1. CASE y = <<>>
      <3>1. x = Pending'
        BY <2>1, ConcatEmptySeq
      <3> QED
        BY <1>8, <3>1 DEF View
    <2>2. CASE y # <<>>
      <3>1. PICK z \in Seq(LevelEvents) : x \o z = Pending
        <4>1. e \in LevelEvents /\ Pending \in Seq(LevelEvents) /\ x \o y = Append(Pending, e)
          BY <1>1, <1>2, <1>3
        <4> HIDE DEF e, more
        <4> QED
          BY <2>2, <4>1, PartOfShorter
      <3> QED
        BY <3>1 DEF ScreenInvariant, PartsUncrossed
    <2> QED
      BY <2>1, <2>2
  <1>10. ViewMirrorsBook'
    BY <1>7 DEF ViewMirrorsBook
  <1> QED
    BY <1>2, <1>3, <1>9, <1>10 DEF ScreenInvariant

\* Every step of the book, with the push of its event.
LEMMA BookMoves ==
    ASSUME BookInvariant, ScreenInvariant, [Next]_vars, Push, UNCHANGED <<workload, snapshot>>
    PROVE  ScreenInvariant'
  <1>1. CASE Tells /\ TellsTotals
    BY <1>1, BookInvariantStep, TellingMoves
  <1>2. CASE ~ Tells /\ KeepsTotals
    BY <1>2, SilentMoves
  <1> QED
    BY <1>1, <1>2, StepsTellTotals

\* Taking an event from the queue leaves what is under way as it was.
LEMMA DequeueMoves ==
    ASSUME ScreenInvariant, Dequeue
    PROVE  ScreenInvariant'
  <1>1. /\ workload \in Seq(LevelEvents) /\ uiQueue \in Seq(LevelEvents) /\ uiQueue # <<>>
        /\ workload' = Append(workload, Head(uiQueue)) /\ uiQueue' = Tail(uiQueue)
        /\ UNCHANGED <<snapshot, pc, call, level, total>>
    BY DEF ScreenInvariant, Dequeue
  <1>2. workload' \in Seq(LevelEvents) /\ uiQueue' \in Seq(LevelEvents)
    <2>1. Head(uiQueue) \in LevelEvents /\ Tail(uiQueue) \in Seq(LevelEvents)
      BY <1>1, HeadTailProperties
    <2> QED
      BY <1>1, <2>1
  <1>3. Pending' = Pending
    BY <1>1, HeadMoves DEF Pending
  <1>4. View' = View
    BY <1>1, <1>3 DEF View
  <1>5. ViewMirrorsBook'
    BY <1>1, <1>4 DEF ScreenInvariant, ViewMirrorsBook, Unreported
  <1>6. PartsUncrossed'
    BY <1>1, <1>3 DEF ScreenInvariant, PartsUncrossed
  <1> QED
    BY <1>1, <1>2, <1>5, <1>6 DEF ScreenInvariant

\* Every strategy shows what the batch shows event after event.
LEMMA BatchShowsTheSame ==
    ASSUME NEW screen \in Screens, NEW batch \in Seq(LevelEvents)
    PROVE  /\ FullySequential(screen, batch) \in Screens
           /\ ApplyBatch(screen, batch) \in Screens
           /\ ShowSame(ApplyBatch(screen, batch), FullySequential(screen, batch), Prices)
  <1> DEFINE full == FullySequential(screen, batch)
             sided == SideSequential(screen, batch)
             merged == MergeEvents(screen, batch)
  <1>1. /\ full \in Screens /\ sided \in Screens /\ merged \in Screens
        /\ ShowSame(sided, full, Prices) /\ ShowSame(merged, full, Prices)
    BY BookEventsAreShowable, StrategiesShowTheSame DEF Screens
  <1>2. ApplyBatch(screen, batch) \in {full, sided, merged}
    BY PipelineAssumption DEF ApplyBatch
  <1> HIDE DEF full, sided, merged
  <1>3. ShowSame(full, full, Prices)
    BY DEF ShowSame
  <1> QED
    BY <1>1, <1>2, <1>3 DEF full

\* Screens that show the same are crossed together.
LEMMA SameUncrossed ==
    ASSUME NEW a, NEW b, ShowSame(a, b, Prices), Uncrossed(b)
    PROVE  Uncrossed(a)
  BY DEF ShowSame, Uncrossed, Sides

\* A frame applies its batch as if event after event: whatever comes after it,
\* the screen shows the same as if the batch were still under way.
LEMMA FrameMoves ==
    ASSUME ScreenInvariant, Frame
    PROVE  ScreenInvariant'
  <1> DEFINE one == FullySequential(snapshot, workload)
             all == ApplyBatch(snapshot, workload)
  <1>1. /\ snapshot \in Screens /\ workload \in Seq(LevelEvents) /\ uiQueue \in Seq(LevelEvents)
        /\ snapshot' = all /\ workload' = <<>>
        /\ UNCHANGED <<uiQueue, pc, call, level, total>>
    BY DEF ScreenInvariant, Frame
  <1>2. one \in Screens /\ all \in Screens /\ ShowSame(all, one, Prices)
    BY <1>1, BatchShowsTheSame
  <1>3. Pending' = uiQueue
    BY <1>1, ConcatEmptySeq DEF Pending
  <1> HIDE DEF one, all
  <1>4. ASSUME NEW evs \in Seq(LevelEvents)
        PROVE  ShowSame(FullySequential(all, evs), FullySequential(one, evs), Prices)
    BY <1>2, BookEventsAreShowable, SameAfterBatch DEF Screens
  <1>5. ASSUME NEW evs \in Seq(LevelEvents)
        PROVE  FullySequential(one, evs) = FullySequential(snapshot, workload \o evs)
    <2>1. FullySequential(snapshot, workload \o evs) =
              FullySequential(FullySequential(snapshot, workload), evs)
      BY <1>1, TwoBatches
    <2> QED
      BY <2>1 DEF one
  <1>6. ShowSame(View', View, Prices)
    <2>1. ShowSame(FullySequential(all, uiQueue), FullySequential(one, uiQueue), Prices)
      BY <1>1, <1>4
    <2>2. FullySequential(one, uiQueue) = View
      BY <1>1, <1>5 DEF View, Pending
    <2>3. View' = FullySequential(all, uiQueue)
      BY <1>1, <1>3 DEF View
    <2> QED
      BY <2>1, <2>2, <2>3
  <1>7. ViewMirrorsBook'
    BY <1>1, <1>6 DEF ScreenInvariant, ViewMirrorsBook, Unreported, ShowSame, Side, Sides
  <1>10. ASSUME NEW x \in Seq(LevelEvents), NEW y \in Seq(LevelEvents)
        PROVE  (workload \o x) \o y = workload \o (x \o y)
    <2>1. workload \in Seq(LevelEvents)
      BY <1>1
    <2> QED
      BY <2>1, ConcatAssociative
  <1>8. PartsUncrossed'
    <2> SUFFICES ASSUME NEW x \in Seq(LevelEvents), NEW y \in Seq(LevelEvents), x \o y = uiQueue
                 PROVE  Uncrossed(FullySequential(all, x))
      BY <1>1, <1>3 DEF PartsUncrossed
    <2> DEFINE part == workload \o x
    <2>1. part \in Seq(LevelEvents)
      BY <1>1, ConcatProperties
    <2>2. part \o y = Pending
      <3>1. part \o y = workload \o (x \o y)
        BY <1>10
      <3> QED
        BY <3>1 DEF Pending
    <2> HIDE DEF part
    <2>3. Uncrossed(FullySequential(snapshot, part))
      BY <2>1, <2>2 DEF ScreenInvariant, PartsUncrossed
    <2>4. FullySequential(one, x) = FullySequential(snapshot, part)
      BY <1>5 DEF part
    <2>5. ShowSame(FullySequential(all, x), FullySequential(one, x), Prices)
      BY <1>4
    <2> DEFINE a == FullySequential(all, x)
               b == FullySequential(one, x)
    <2>6. ShowSame(a, b, Prices) /\ Uncrossed(b)
      BY <2>3, <2>4, <2>5
    <2> HIDE DEF a, b
    <2>7. Uncrossed(a)
      BY <2>6, SameUncrossed
    <2> QED
      BY <2>7 DEF a
  <1>9. workload' \in Seq(LevelEvents)
    BY <1>1
  <1> QED
    BY <1>1, <1>2, <1>7, <1>8, <1>9 DEF ScreenInvariant

-----------------------------------------------------------------------------
(* The pipeline.                                                           *)

PipelineInvariant == BookInvariant /\ ScreenInvariant

\* The pipeline takes the steps of the book or none of them.
LEMMA PipelineStepsBook == [PipelineNext]_pipelineVars => [Next]_vars
  BY DEF PipelineNext, FeedRequest, FeedStep, Dequeue, Frame, Finished, pipelineVars, vars, Next

\* A dashboard that shows nothing is the screen of an empty book.
LEMMA NothingShown ==
    ASSUME Init, workload = <<>>, uiQueue = <<>>, snapshot = EmptySnapshot
    PROVE  ScreenInvariant
  <1>1. snapshot \in Screens /\ \A s \in Side : snapshot[s] = <<>>
    <2> DEFINE L == Ladders(Prices, SizesShown, CountsShown)
    <2>1. <<>> \in L
      BY DEF Ladders
    <2> HIDE DEF L
    <2>2. EmptySnapshot \in [Sides -> L] /\ \A s \in Side : EmptySnapshot[s] = <<>>
      BY <2>1 DEF EmptySnapshot, Sides, Side
    <2> QED
      BY <2>2 DEF Screens, Snapshots, L
  <1>2. Pending = <<>> /\ View = snapshot
    BY NoEvents DEF Pending, View
  <1>3. \A s \in Side, p \in Prices : SizesAt(snapshot[s], p) = {}
    BY <1>1 DEF SizesAt
  <1>4. ViewMirrorsBook
    BY <1>2, <1>3 DEF ViewMirrorsBook, Shown, Init
  <1>5. ASSUME NEW x \in Seq(LevelEvents), NEW y \in Seq(LevelEvents), x \o y = Pending
        PROVE  Uncrossed(FullySequential(snapshot, x))
    <2>1. x = <<>>
      BY <1>2, <1>5, ConcatEqualIffEmpty
    <2>2. FullySequential(snapshot, x) = snapshot
      BY <2>1, NoEvents
    <2> QED
      BY <1>3, <2>2 DEF Uncrossed, Side
  <1>6. workload \in Seq(LevelEvents) /\ uiQueue \in Seq(LevelEvents)
    OBVIOUS
  <1> QED
    BY <1>1, <1>4, <1>5, <1>6 DEF ScreenInvariant, PartsUncrossed

\* The invariant holds from step to step.
LEMMA PipelineStep ==
    PipelineInvariant /\ [PipelineNext]_pipelineVars => PipelineInvariant'
  <1> SUFFICES ASSUME PipelineInvariant, [PipelineNext]_pipelineVars
               PROVE  PipelineInvariant'
    OBVIOUS
  <1>1. [Next]_vars
    BY PipelineStepsBook
  <1>2. BookInvariant'
    BY <1>1, BookInvariantStep DEF PipelineInvariant
  <1>3. CASE FeedRequest
    <2>1. UNCHANGED event
      BY <1>3 DEF FeedRequest, Request, NewOrder, Amend, AmendDelta, Cancel, ReplaceOrder,
                  StartUnlink, RefuseDuplicate, RefuseUnknown, RefuseSide, Refuse
    <2>2. Push /\ UNCHANGED <<workload, snapshot>>
      BY <1>3, <2>1 DEF FeedRequest, Push
    <2> QED
      BY <1>1, <1>2, <2>2, BookMoves DEF PipelineInvariant
  <1>4. CASE FeedStep
    BY <1>1, <1>2, <1>4, BookMoves DEF PipelineInvariant, FeedStep
  <1>5. CASE Dequeue
    BY <1>2, <1>5, DequeueMoves DEF PipelineInvariant
  <1>6. CASE Frame
    BY <1>2, <1>6, FrameMoves DEF PipelineInvariant
  <1>7. CASE UNCHANGED pipelineVars
    <2>1. Push /\ UNCHANGED <<workload, snapshot>>
      BY <1>7 DEF pipelineVars, Push
    <2> QED
      BY <1>1, <1>2, <2>1, BookMoves DEF PipelineInvariant
  <1> QED
    BY <1>3, <1>4, <1>5, <1>6, <1>7 DEF PipelineNext, Finished

\* An empty dashboard on an empty book has the invariant.
LEMMA PipelineStarts == PipelineInit => PipelineInvariant
  BY BookInvariantInit, NothingShown DEF PipelineInit, PipelineInvariant

\* The feed thread of the pipeline drives the book as any caller may.
THEOREM PipelineDrivesBook == PipelineSpec => Spec
  <1>1. PipelineInit => Init
    BY DEF PipelineInit
  <1> QED
    BY <1>1, PipelineStepsBook, PTL DEF PipelineSpec, Spec

\* What the screen shows with the pending events is the book, and no part of
\* them crosses it.
THEOREM PipelineAlwaysInvariant == PipelineSpec => []PipelineInvariant
  BY PipelineStarts, PipelineStep, PTL DEF PipelineSpec

\* A screen that mirrors the totals of a side lists that side.
LEMMA SideListed ==
    ASSUME NEW l \in Ladders(Prices, SizesShown, CountsShown), NEW t \in [Prices -> Totals],
           \A p \in Prices : SizesAt(l, p) = Shown(t[p])
    PROVE  Lists(l, {p \in Prices : t[p] # 0})
  <1> DEFINE S == {p \in Prices : t[p] # 0}
  <1>1. S = PricesShown(l, Prices)
    BY DEF PricesShown, Shown
  <1> HIDE DEF S
  <1>2. Lists(l, PricesShown(l, Prices))
    BY LevelsByPrice, BookEventsAreShowable
  <1>3. Lists(l, S)
    BY <1>1, <1>2
  <1> QED
    BY <1>3 DEF S

\* What the screen shows with the pending events is a side of a snapshot, and
\* mirrors the totals of the book, unless a level is being matched.
LEMMA ViewMirrors ==
    ASSUME PipelineInvariant, pc \notin {"fill", "filled"}
    PROVE  /\ View \in Screens
           /\ \A s \in Side : /\ View[s] \in Ladders(Prices, SizesShown, CountsShown)
                             /\ total[s] \in [Prices -> Totals]
                             /\ \A p \in Prices : SizesAt(View[s], p) = Shown(total[s][p])
  <1>1. snapshot \in Screens /\ Pending \in Seq(LevelEvents)
    BY ConcatProperties DEF PipelineInvariant, ScreenInvariant, Pending
  <1>2. View \in Screens
    BY <1>1, BookEventsAreShowable, FullySequentialShowsLast DEF View, Screens
  <1>3. \A s \in Side, p \in Prices : SizesAt(View[s], p) = Shown(total[s][p])
    BY DEF PipelineInvariant, ScreenInvariant, ViewMirrorsBook, Unreported
  <1>4. \A s \in Side : total[s] \in [Prices -> Totals]
    BY DEF PipelineInvariant, BookInvariant, Consistent, TypeOK
  <1> QED
    BY <1>2, <1>3, <1>4, BookEventsAreShowable DEF Screens, Snapshots

\* With what is pending applied, the dashboard of the default strategies shows
\* the levels of the book.
THEOREM ScreenPlusPendingIsBook ==
    ASSUME LevelUpdate = "Default"
    PROVE  PipelineSpec => []SnapshotPlusPendingIsBook
  <1>1. PipelineInvariant => SnapshotPlusPendingIsBook
    <2> SUFFICES ASSUME PipelineInvariant, pc \notin {"fill", "filled"}
                 PROVE  Sizes(View) = LevelsShown
      BY DEF SnapshotPlusPendingIsBook, View, Pending
    <2>1. ASSUME NEW s \in Side
          PROVE  [i \in DOMAIN View[s] |-> <<View[s][i].price, View[s][i].size>>] =
                 [k \in DOMAIN Ascending({p \in Prices : total[s][p] # 0}) |->
                     <<Ascending({p \in Prices : total[s][p] # 0})[k],
                       total[s][Ascending({p \in Prices : total[s][p] # 0})[k]]>>]
      <3> DEFINE l == View[s]
                 t == total[s]
                 S == {p \in Prices : t[p] # 0}
                 q == Ascending(S)
      <3>1. /\ l \in Ladders(Prices, SizesShown, CountsShown) /\ t \in [Prices -> Totals]
            /\ \A p \in Prices : SizesAt(l, p) = Shown(t[p])
        BY <2>1, ViewMirrors
      <3> HIDE DEF l, t
      <3>2. Lists(l, S)
        BY <3>1, SideListed
      <3>3. DOMAIN l = 1 .. Len(l) /\ \A i \in 1 .. Len(l) : l[i].price \in Prices
        BY <3>1, BookEventsAreShowable, LadderIsAscending
      <3> HIDE DEF S
      <3>4. /\ DOMAIN q = DOMAIN l
            /\ \A i \in DOMAIN l : l[i].price = q[i] /\ SizesAt(l, l[i].price) = {l[i].size}
        BY <3>2, <3>3 DEF Lists
      <3> HIDE DEF q
      <3>5. ASSUME NEW i \in DOMAIN l PROVE l[i].price = q[i] /\ l[i].size = t[q[i]]
        <4>1. l[i].price = q[i] /\ q[i] \in Prices /\ Shown(t[q[i]]) = {l[i].size}
          BY <3>1, <3>3, <3>4
        <4>2. l[i].size = SizeShown(t[q[i]])
          BY <4>1 DEF Shown
        <4> QED
          BY <4>1, <4>2 DEF SizeShown
      <3>6. [i \in DOMAIN l |-> <<l[i].price, l[i].size>>] = [k \in DOMAIN q |-> <<q[k], t[q[k]]>>]
        BY <3>4, <3>5
      <3> QED
        BY <3>6 DEF l, t, S, q
    <2> QED
      BY <2>1 DEF Sizes, LevelsShown, Side
  <1> QED
    BY <1>1, PipelineAlwaysInvariant, PTL

\* The screen is never crossed, whatever strategy applies the events and
\* wherever a frame ends.
THEOREM ScreenNeverShowsCross == PipelineSpec => []ScreenNeverCrossed
  <1>1. PipelineInvariant => ScreenNeverCrossed
    <2> SUFFICES ASSUME PipelineInvariant, snapshot["BID"] # <<>>, snapshot["ASK"] # <<>>
                 PROVE  BestBid(snapshot) < BestAsk(snapshot)
      BY DEF ScreenNeverCrossed
    <2> DEFINE bids == snapshot["BID"]
               asks == snapshot["ASK"]
               last == Len(bids)
    <2>1. /\ snapshot \in Screens /\ Pending \in Seq(LevelEvents)
          /\ PartsUncrossed
      BY ConcatProperties DEF PipelineInvariant, ScreenInvariant, Pending
    <2>2. Uncrossed(snapshot)
      <3>1. <<>> \in Seq(LevelEvents) /\ <<>> \o Pending = Pending
        BY <2>1, ConcatEmptySeq
      <3>2. Uncrossed(FullySequential(snapshot, <<>>))
        BY <2>1, <3>1 DEF PartsUncrossed
      <3> QED
        BY <3>2, NoEvents
    <2>3. /\ bids \in Ladders(Prices, SizesShown, CountsShown)
          /\ asks \in Ladders(Prices, SizesShown, CountsShown)
      BY <2>1 DEF Screens, Snapshots, Sides
    <2>4. /\ last \in 1 .. Len(bids) /\ bids[last].price \in Prices
          /\ 1 \in 1 .. Len(asks) /\ asks[1].price \in Prices
      <3>1. /\ bids \in Seq([price : Prices, size : SizesShown, count : CountsShown])
            /\ asks \in Seq([price : Prices, size : SizesShown, count : CountsShown])
            /\ \A i \in 1 .. Len(bids) : bids[i].price \in Prices
            /\ \A i \in 1 .. Len(asks) : asks[i].price \in Prices
        BY <2>3, LadderIsAscending, BookEventsAreShowable
      <3>2. last \in 1 .. Len(bids) /\ 1 \in 1 .. Len(asks)
        BY <3>1, EmptySeq
      <3> QED
        BY <3>1, <3>2
    <2>5. SizesAt(bids, bids[last].price) # {} /\ SizesAt(asks, asks[1].price) # {}
      BY <2>4 DEF SizesAt
    <2>6. bids[last].price < asks[1].price
      BY <2>2, <2>4, <2>5 DEF Uncrossed
    <2> QED
      BY <2>6 DEF BestBid, BestAsk
  <1> QED
    BY <1>1, PipelineAlwaysInvariant, PTL

-----------------------------------------------------------------------------
(* The adapter is a caller of the order book.                              *)

\* Every step of the adapter is a call on its book, a step of one, or none.
LEMMA AdapterStepsBook == [AdapterNext]_adapterVars => [Next]_vars
  <1> SUFFICES ASSUME [AdapterNext]_adapterVars PROVE [Next]_vars
    OBVIOUS
  <1>1. CASE SetPriceLevel
    <2> SUFFICES ASSUME NEW s \in Side, NEW p \in Prices, NEW q \in Quantities,
                        SetByAmend(s, p, q) \/ SetByNew(s, p, q) \/ SetLost(s, p)
                 PROVE  Request
      BY <1>1 DEF SetPriceLevel, Next
    <2> QED
      BY IDsArePrices DEF SetByAmend, SetByNew, SetLost, Request
  <1>2. CASE Serve
    BY <1>2 DEF Serve, Next
  <1>3. CASE UNCHANGED adapterVars
    BY <1>3 DEF adapterVars, vars
  <1> QED
    BY <1>1, <1>2, <1>3 DEF AdapterNext

\* The adapter's book is an order book, and all that holds of one holds of it.
THEOREM AdapterDrivesBook == AdapterSpec => Spec
  <1>1. AdapterInit => Init
    BY DEF AdapterInit
  <1> QED
    BY <1>1, AdapterStepsBook, PTL DEF AdapterSpec, Spec

-----------------------------------------------------------------------------
(* Levels.                                                                 *)

\* A queue without repetitions that holds nothing but p holds p once.
LEMMA SingleQueue ==
    ASSUME NEW S, NEW q \in Seq(S), NEW p, Range(q) \subseteq {p}, IsInjective(q)
    PROVE  q = <<>> \/ q = <<p>>
  <1> SUFFICES ASSUME q # <<>> PROVE q = <<p>>
    OBVIOUS
  <1>1. DOMAIN q = 1 .. Len(q) /\ Len(q) \in Nat /\ Len(q) # 0
    OBVIOUS
  <1>2. \A i \in 1 .. Len(q) : q[i] = p
    BY <1>1 DEF Range
  <1>3. Len(q) = 1
    <2> SUFFICES ASSUME Len(q) # 1 PROVE FALSE
      OBVIOUS
    <2>1. 1 \in DOMAIN q /\ 2 \in DOMAIN q
      BY <1>1
    <2> QED
      BY <1>1, <1>2, <2>1 DEF IsInjective
  <1> QED
    BY <1>1, <1>2, <1>3

\* A level of the adapter's book is empty or the order named after its price.
LEMMA LevelOrders ==
    ASSUME Consistent, NamedAfterPrice, NEW s \in Side, NEW p \in Prices
    PROVE  /\ queue[s][p] = <<>> \/ queue[s][p] = <<p>>
           /\ queue[s][p] = <<p>> =>
                p \in Live /\ ~ Detached(p) /\ orders[p].side = s /\ orders[p].price = p
           /\ p \in Live /\ ~ Detached(p) /\ orders[p].side = s => queue[s][p] = <<p>>
  <1>1. queue[s][p] \in Seq(OrderIDs) /\ IsInjective(queue[s][p])
    BY DEF Consistent, TypeOK, RegistryMatchesLevels, LinksAreUnique
  <1>2. \A id \in Range(queue[s][p]) :
            id \in Live /\ ~ Detached(id) /\ orders[id].side = s /\ orders[id].price = p
    BY DEF Consistent, RegistryMatchesLevels, LinksAreLive
  <1>3. Range(queue[s][p]) \subseteq {p}
    BY <1>2 DEF NamedAfterPrice
  <1>4. queue[s][p] = <<>> \/ queue[s][p] = <<p>>
    BY <1>1, <1>3, SingleQueue
  <1>5. queue[s][p] = <<p>> => p \in Range(queue[s][p])
    BY DEF Range
  <1>6. p \in Live /\ ~ Detached(p) /\ orders[p].side = s => p \in Range(queue[s][p])
    BY DEF NamedAfterPrice, Consistent, RegistryMatchesLevels, OrdersAreLinked
  <1>7. queue[s][p] = <<>> => Range(queue[s][p]) = {}
    BY DEF Range
  <1> QED
    BY <1>2, <1>4, <1>5, <1>6, <1>7

\* What the running call of the adapter is.
LEMMA AdapterCall ==
    ASSUME Consistent, NamedAfterPrice, pc # "idle"
    PROVE  /\ call \in Call /\ call.name \in {"newOrder", "amend"}
           /\ call.side \in Side /\ Opposite(call.side) \in Side
           /\ Opposite(call.side) # call.side
           /\ call.price = call.id /\ call.price \in Prices
           /\ call.quantity \in Quantities /\ remaining \in Quantities
  <1>1. call \in Call /\ remaining \in Quantities
    BY DEF Consistent, TypeOK
  <1> QED
    BY <1>1 DEF Call, NamedAfterPrice, Opposite, Side

-----------------------------------------------------------------------------
(* The steps of the adapter, one lemma per conjunct of its invariant.      *)

\* An empty book mirrors a feed that has reported nothing.
LEMMA AdapterInitConsistent == AdapterInit => AdapterConsistent
  <1> SUFFICES ASSUME AdapterInit PROVE AdapterConsistent
    OBVIOUS
  <1>1. Consistent
    BY InitConsistent DEF AdapterInit
  <1>2. feed \in [Side -> [Prices -> Quantities]] /\ sane \in BOOLEAN
    BY QuantityAssumption DEF AdapterInit, Quantities
  <1>3. NamedAfterPrice /\ OneOrderTotals
    BY DEF AdapterInit, Init, NamedAfterPrice, OneOrderTotals, Live
  <1>4. FeedUncrossed /\ UpdateIsWhole /\ OtherLevelsMirrorFeed
    BY DEF AdapterInit, Init, FeedUncrossed, UpdateIsWhole, OtherLevelsMirrorFeed, Side
  <1> QED
    BY <1>1, <1>2, <1>3, <1>4 DEF AdapterConsistent

\* An update names its order after its price, and so does an order that rests.
LEMMA NamedAfterPriceStep ==
    ASSUME AdapterConsistent, AdapterNext
    PROVE  NamedAfterPrice'
  <1> USE DEF AdapterConsistent
  <1>1. CASE SetPriceLevel
    <2> SUFFICES ASSUME NEW s \in Side, NEW p \in Prices, NEW q \in Quantities,
                        SetByAmend(s, p, q) \/ SetByNew(s, p, q) \/ SetLost(s, p)
                 PROVE  NamedAfterPrice'
      BY <1>1 DEF SetPriceLevel
    <2> QED
      BY DEF SetByAmend, SetByNew, SetLost, Amend, NewOrder, StartMatch, RefuseSide,
             Refuse, NamedAfterPrice, Live
  <1>2. CASE EnterLevel \/ LevelMatched \/ NextLevel \/ Notify \/ Unlink \/ LeaveLevel
    <2>1. pc # "idle" /\ UNCHANGED <<orders, call>>
      BY <1>2 DEF EnterLevel, LevelMatched, NextLevel, Notify, Unlink, LeaveLevel,
                  MatchOver
    <2> QED
      BY <2>1 DEF NamedAfterPrice, Live
  <1>3. CASE Fill
    <2>1. /\ Resting \in Live /\ orders[Resting] \in Order
          /\ orders' = [orders EXCEPT ![Resting].quantity = orders[Resting].quantity - Delta]
      BY <1>3, RestingOrder DEF Fill, Consistent, TypeOK
    <2>2. DOMAIN orders' = Live /\ \A id \in Live : orders'[id].price = orders[id].price
      BY <2>1 DEF Live, Order
    <2> QED
      BY <1>3, <2>2 DEF Fill, NamedAfterPrice, Live
  <1>4. CASE OnFilled \/ Return \/ EraseOrder \/ ReplaceAfterCancel
    <2>1. \/ UNCHANGED orders
          \/ \E id : orders' = [i \in Live \ {id} |-> orders[i]]
      BY <1>4 DEF OnFilled, Return, EraseOrder, ReplaceAfterCancel, Erase
    <2>2. \A id \in Live' : orders'[id].price = id
      BY <2>1 DEF NamedAfterPrice, Live
    <2>3. pc' # "idle" => pc # "idle" /\ UNCHANGED call
      BY <1>4 DEF OnFilled, Return, EraseOrder, ReplaceAfterCancel, Finish, NamedAfterPrice
    <2> QED
      BY <2>2, <2>3 DEF NamedAfterPrice
  <1>5. CASE Rest \/ Reinsert
    <2>1. pc # "idle" /\ UNCHANGED call
      BY <1>5 DEF Rest, Reinsert, MatchOver
    <2>2. call.price = call.id
      BY <2>1 DEF NamedAfterPrice
    <2>3. \A id \in Live' : orders'[id].price = id
      BY <1>5, <2>2 DEF Rest, Reinsert, Create, NamedAfterPrice, Live
    <2> QED
      BY <2>1, <2>3 DEF NamedAfterPrice
  <1> QED
    BY <1>1, <1>2, <1>3, <1>4, <1>5 DEF AdapterNext, Serve, Step

\* A step that writes no quantity and changes no queue or total.
LEMMA SameOneOrderTotals ==
    ASSUME AdapterConsistent, UNCHANGED <<queue, total>>,
           \A s \in Side, p \in Prices :
               queue[s][p] = <<p>> => orders'[p].quantity = orders[p].quantity
    PROVE  OneOrderTotals'
  <1>1. \A s \in Side, p \in Prices : queue[s][p] = <<>> \/ queue[s][p] = <<p>>
    BY LevelOrders DEF AdapterConsistent
  <1> QED
    BY <1>1 DEF AdapterConsistent, OneOrderTotals

\* The only order of a level trades: the total goes with it.
LEMMA FillOneOrderTotals ==
    ASSUME AdapterConsistent, Fill
    PROVE  OneOrderTotals'
  <1> USE DEF AdapterConsistent
  <1> DEFINE o == Opposite(call.side)
  <1>1. /\ o \in Side /\ level \in Prices /\ Resting \in Live
        /\ orders[Resting] \in Order
        /\ queue[o][level] # <<>> /\ Resting = queue[o][level][1]
        /\ orders[Resting].side = o
    BY RestingOrder DEF Fill, Resting, Consistent, TypeOK
  <1>2. queue[o][level] = <<level>> /\ Resting = level
    BY <1>1, LevelOrders
  <1>3. /\ Delta \in Nat /\ Delta <= orders[level].quantity
        /\ orders[level].quantity \in Quantities
    <2>1. remaining \in Quantities
      BY DEF Consistent, TypeOK
    <2> QED
      BY <1>1, <1>2, <2>1, QuantityAssumption DEF Delta, Quantities, Order
  <1>4. total[o][level] = orders[level].quantity
    BY <1>1, <1>2 DEF OneOrderTotals
  <1> DEFINE left == orders[level].quantity - Delta
  <1>5. /\ total' = [total EXCEPT ![o][level] = Minus(total[o][level], Delta)]
        /\ orders' = [orders EXCEPT ![level].quantity = left]
        /\ queue' = IF left = 0
                    THEN [queue EXCEPT ![o][level] = Unlinked(queue[o][level], level)]
                    ELSE queue
    BY <1>2 DEF Fill
  <1>6. Minus(total[o][level], Delta) = left
    <2>1. left \in 0 .. QuantityModulus - 1
      BY <1>3, QuantityAssumption DEF Quantities
    <2>2. Minus(total[o][level], Delta) = left % QuantityModulus
      BY <1>4 DEF Minus
    <2> HIDE DEF left
    <2>3. left % QuantityModulus = left
      BY <2>1, QuantityAssumption
    <2> QED
      BY <2>2, <2>3
  <1>7. Unlinked(queue[o][level], level) = <<>>
    <2> DEFINE q == queue[o][level]
    <2>1. q \in Seq(OrderIDs) /\ IsInjective(q)
      BY <1>1 DEF Consistent, TypeOK, RegistryMatchesLevels, LinksAreUnique
    <2>2. Range(q) = {level}
      BY <1>2 DEF Range
    <2> HIDE DEF q
    <2>3. Range(Unlinked(q, level)) = {} /\ Unlinked(q, level) \in Seq(OrderIDs)
      BY <2>1, <2>2, UnlinkedQueue
    <2> QED
      BY <2>3, QueueRange DEF q
  <1> HIDE DEF left, o
  <1> SUFFICES ASSUME NEW s \in Side, NEW p \in Prices
               PROVE  total'[s][p] = IF queue'[s][p] = <<>> THEN 0 ELSE orders'[p].quantity
    BY DEF OneOrderTotals
  <1>8. /\ total \in [Side -> [Prices -> Totals]]
        /\ queue \in [Side -> [Prices -> Seq(OrderIDs)]]
    BY DEF Consistent, TypeOK
  <1>9. CASE s = o /\ p = level
    <2>1. total'[s][p] = left
      BY <1>1, <1>5, <1>6, <1>8, <1>9
    <2>2. orders'[p].quantity = left
      BY <1>1, <1>2, <1>5, <1>9 DEF Live, Order
    <2>3. left = 0 => queue'[s][p] = <<>>
      BY <1>1, <1>5, <1>7, <1>8, <1>9
    <2>4. left # 0 => queue'[s][p] # <<>>
      BY <1>1, <1>5, <1>9
    <2> QED
      BY <2>1, <2>2, <2>3, <2>4
  <1>10. CASE ~ (s = o /\ p = level)
    <2>1. total'[s][p] = total[s][p] /\ queue'[s][p] = queue[s][p]
      BY <1>1, <1>5, <1>8, <1>10
    <2>2. CASE p # level
      <3>1. orders'[p] = orders[p]
        BY <1>5, <2>2
      <3> QED
        BY <2>1, <3>1 DEF OneOrderTotals
    <2>3. CASE p = level
      <3>1. s # o
        BY <1>10, <2>3
      <3>2. queue[s][p] # <<p>>
        BY <1>1, <1>2, <2>3, <3>1, LevelOrders
      <3>3. queue[s][p] = <<>>
        BY <3>2, LevelOrders
      <3> QED
        BY <2>1, <3>3 DEF OneOrderTotals
    <2> QED
      BY <2>2, <2>3
  <1> QED
    BY <1>9, <1>10

\* An order that no level links leaves the registry.
LEMMA EraseOneOrderTotals ==
    ASSUME AdapterConsistent, NEW id, Detached(id), Erase(id), UNCHANGED <<queue, total>>
    PROVE  OneOrderTotals'
  <1>1. ASSUME NEW s \in Side, NEW p \in Prices, queue[s][p] = <<p>>
        PROVE  orders'[p].quantity = orders[p].quantity
    <2>1. p \in Live /\ ~ Detached(p)
      BY <1>1, LevelOrders DEF AdapterConsistent
    <2> QED
      BY <2>1 DEF Erase
  <1> QED
    BY <1>1, SameOneOrderTotals

\* An emptied level is dropped with its total, which was zero.
LEMMA DropOneOrderTotals ==
    ASSUME AdapterConsistent, NEW t \in Side, NEW r \in Prices, DropIfEmpty(t, r),
           UNCHANGED <<orders, queue>>
    PROVE  OneOrderTotals'
  <1>1. total \in [Side -> [Prices -> Totals]]
    BY DEF AdapterConsistent, Consistent, TypeOK
  <1>2. CASE queue[t][r] = <<>>
    BY <1>1, <1>2 DEF DropIfEmpty, AdapterConsistent, OneOrderTotals
  <1>3. CASE queue[t][r] # <<>>
    BY <1>3 DEF DropIfEmpty, AdapterConsistent, OneOrderTotals
  <1> QED
    BY <1>2, <1>3

\* The order of the running call leaves its level: nothing is left there.
LEMMA UnlinkOneOrderTotals ==
    ASSUME AdapterConsistent, Unlink
    PROVE  /\ OneOrderTotals'
           /\ orders[call.id].price = call.price /\ call.price \in Prices
           /\ total' = [total EXCEPT ![call.side][call.price] = 0]
  <1> USE DEF AdapterConsistent
  <1> DEFINE p == call.price
             t == call.side
  <1>1. pc # "idle" /\ call.name = "amend"
    BY DEF Unlink, MatchOver, Consistent, InFlight, PlacesOfCalls, NamedAfterPrice
  <1>2. call.id = p /\ p \in Prices /\ t \in Side
    BY <1>1, AdapterCall
  <1>3. p \in Live /\ orders[p].side = t /\ orders[p] \in Order /\ orders[p].price = p
    BY <1>1, <1>2 DEF Unlink, MatchOver, Consistent, InFlight, CallersOrder, Matching,
                      TypeOK, NamedAfterPrice
  <1>4. ~ Detached(p)
    BY DEF Detached, Unlink, MatchOver
  <1>5. queue[t][p] = <<p>>
    BY <1>2, <1>3, <1>4, LevelOrders
  <1>6. total[t][p] = orders[p].quantity /\ orders[p].quantity \in Nat
    <2>1. queue[t][p] # <<>>
      BY <1>5
    <2>2. total[t][p] = orders[p].quantity
      BY <1>2, <2>1 DEF OneOrderTotals
    <2> QED
      BY <1>3, <2>2, QuantityAssumption DEF Order, Quantities
  <1>7. Minus(total[t][p], orders[p].quantity) = 0
    BY <1>6, QuantityAssumption DEF Minus
  <1>8. /\ total' = [total EXCEPT ![t][p] = 0]
        /\ queue' = [queue EXCEPT ![t][p] = Unlinked(queue[t][p], p)]
        /\ UNCHANGED orders
    BY <1>2, <1>3, <1>7 DEF Unlink
  <1>9. Unlinked(queue[t][p], p) = <<>>
    <2> DEFINE q == queue[t][p]
    <2>1. q \in Seq(OrderIDs) /\ IsInjective(q)
      BY <1>2 DEF Consistent, TypeOK, RegistryMatchesLevels, LinksAreUnique
    <2>2. Range(q) = {p}
      BY <1>5 DEF Range
    <2> HIDE DEF q
    <2>3. Range(Unlinked(q, p)) = {} /\ Unlinked(q, p) \in Seq(OrderIDs)
      BY <2>1, <2>2, UnlinkedQueue
    <2> QED
      BY <2>3, QueueRange DEF q
  <1>10. /\ total \in [Side -> [Prices -> Totals]]
         /\ queue \in [Side -> [Prices -> Seq(OrderIDs)]]
    BY DEF Consistent, TypeOK
  <1>11. OneOrderTotals'
    BY <1>2, <1>8, <1>9, <1>10 DEF OneOrderTotals
  <1> QED
    BY <1>2, <1>3, <1>8, <1>11

\* The order of the running call joins a level that is empty.
LEMMA InsertOneOrderTotals ==
    ASSUME AdapterConsistent, Rest \/ Reinsert
    PROVE  /\ OneOrderTotals'
           /\ total' = [total EXCEPT ![call.side][call.price] = remaining]
  <1> USE DEF AdapterConsistent
  <1> DEFINE p == call.price
             t == call.side
  <1>1. pc # "idle"
    BY DEF Rest, Reinsert, MatchOver
  <1>2. call.id = p /\ p \in Prices /\ t \in Side /\ remaining \in Quantities
    BY <1>1, AdapterCall
  <1>3. p \notin Live \/ Detached(p)
    BY <1>2 DEF Rest, Reinsert, MatchOver, Detached, Consistent, InFlight,
                CallersOrder, Matching
  <1>4. \A s \in Side : queue[s][p] = <<>>
    BY <1>2, <1>3, LevelOrders
  <1>5. total[t][p] = 0
    BY <1>2, <1>4 DEF OneOrderTotals
  <1>6. Plus(0, remaining) = remaining
    <2>1. remaining \in 0 .. QuantityModulus - 1
      BY <1>2, QuantityAssumption DEF Quantities
    <2>2. remaining % QuantityModulus = remaining
      BY <2>1, QuantityAssumption
    <2>3. 0 + remaining = remaining
      BY <2>1
    <2> QED
      BY <2>2, <2>3 DEF Plus
  <1>7. Append(<<>>, p) # <<>>
    OBVIOUS
  <1>8. /\ total' = [total EXCEPT ![t][p] = remaining]
        /\ queue' = [queue EXCEPT ![t][p] = Append(queue[t][p], p)]
    BY <1>2, <1>5, <1>6 DEF Rest, Reinsert, Insert
  <1>9. /\ orders'[p].quantity = remaining
        /\ \A id \in Live \ {p} : orders'[id] = orders[id]
    BY <1>2, <1>3 DEF Rest, Reinsert, Create, Consistent, InFlight, CallersOrder, Live
  <1>10. /\ total \in [Side -> [Prices -> Totals]]
         /\ queue \in [Side -> [Prices -> Seq(OrderIDs)]]
    BY DEF Consistent, TypeOK
  <1>11. OneOrderTotals'
    <2> SUFFICES ASSUME NEW s \in Side, NEW r \in Prices
                 PROVE  total'[s][r] = IF queue'[s][r] = <<>> THEN 0
                                       ELSE orders'[r].quantity
      BY DEF OneOrderTotals
    <2>1. CASE s = t /\ r = p
      BY <1>2, <1>4, <1>7, <1>8, <1>9, <1>10, <2>1
    <2>2. CASE ~ (s = t /\ r = p)
      <3>1. total'[s][r] = total[s][r] /\ queue'[s][r] = queue[s][r]
        BY <1>2, <1>8, <1>10, <2>2
      <3>2. queue[s][r] = <<>> \/ (r \in Live /\ r # p)
        BY <1>3, LevelOrders
      <3> QED
        BY <1>9, <3>1, <3>2 DEF OneOrderTotals
    <2> QED
      BY <2>1, <2>2
  <1> QED
    BY <1>8, <1>11

\* The total of a level stays the quantity of its only order.
LEMMA OneOrderTotalsStep ==
    ASSUME AdapterConsistent, AdapterNext
    PROVE  OneOrderTotals'
  <1>1. CASE SetPriceLevel \/ EnterLevel \/ LevelMatched \/ Notify \/ Return
    <2>1. UNCHANGED <<orders, queue, total>>
      BY <1>1 DEF SetPriceLevel, SetByAmend, SetByNew, SetLost, Amend, NewOrder,
                  RefuseSide, Refuse, EnterLevel, LevelMatched, Notify, Return
    <2> QED
      BY <2>1, SameOneOrderTotals
  <1>2. CASE Fill
    BY <1>2, FillOneOrderTotals
  <1>3. CASE OnFilled \/ EraseOrder \/ ReplaceAfterCancel
    <2>1. UNCHANGED <<queue, total>>
      BY <1>3 DEF OnFilled, EraseOrder, ReplaceAfterCancel
    <2>2. UNCHANGED orders \/ \E id : Detached(id) /\ Erase(id)
      BY <1>3 DEF OnFilled, EraseOrder, ReplaceAfterCancel, Detached
    <2> QED
      BY <2>1, <2>2, SameOneOrderTotals, EraseOneOrderTotals
  <1>4. CASE NextLevel
    <2>1. Opposite(call.side) \in Side /\ level \in Prices
      <3>1. pc = "levelMatched" /\ level \in listed[Opposite(call.side)]
        BY <1>4 DEF NextLevel, AdapterConsistent, Consistent, InFlight, IteratorAtFirst
      <3>2. Opposite(call.side) \in Side
        BY DEF Opposite, Side
      <3> QED
        BY <3>1, <3>2 DEF AdapterConsistent, Consistent, TypeOK
    <2> QED
      BY <1>4, <2>1, DropOneOrderTotals DEF NextLevel
  <1>5. CASE LeaveLevel
    <2>1. call.side \in Side /\ orders[call.id].price \in Prices
      BY <1>5, AdapterCall DEF LeaveLevel, AdapterConsistent, NamedAfterPrice, Consistent,
                               InFlight, CallersOrder
    <2> QED
      BY <1>5, <2>1, DropOneOrderTotals DEF LeaveLevel
  <1>6. CASE Unlink
    BY <1>6, UnlinkOneOrderTotals
  <1>7. CASE Rest \/ Reinsert
    BY <1>7, InsertOneOrderTotals
  <1> QED
    BY <1>1, <1>2, <1>3, <1>4, <1>5, <1>6, <1>7 DEF AdapterNext, Serve, Step

-----------------------------------------------------------------------------
(* A feed that is never crossed.                                           *)

\* What the adapter's invariant adds while the feed has not been crossed.
SaneUpdate == FeedUncrossed /\ UpdateIsWhole /\ OtherLevelsMirrorFeed

\* An order that rests between two places of its own has something to trade.
LEMMA RestingTotals ==
    ASSUME AdapterConsistent, NEW s \in Side, NEW p \in Prices, queue[s][p] # <<>>
    PROVE  total[s][p] > 0
  <1>1. p \in Live /\ ~ Detached(p)
    BY LevelOrders DEF AdapterConsistent
  <1>2. orders[p].quantity > 0
    BY <1>1 DEF AdapterConsistent, Consistent, RegistryMatchesLevels, OrdersAreLinked
  <1> QED
    BY <1>2 DEF AdapterConsistent, OneOrderTotals

\* setPriceLevel loses an update only if the price rests on the other side,
\* and then an uncrossed feed has reported an empty level, as it is.
LEMMA SetPriceLevelSane ==
    ASSUME AdapterConsistent, SetPriceLevel, sane'
    PROVE  SaneUpdate'
  <1> PICK s \in Side, p \in Prices, q \in Quantities :
          /\ SetByAmend(s, p, q) \/ SetByNew(s, p, q) \/ SetLost(s, p)
          /\ Reported(s, p, q)
    BY DEF SetPriceLevel
  <1>1. pc = "idle" /\ UNCHANGED <<orders, listed, queue, total>>
    BY DEF SetByAmend, SetByNew, SetLost, Amend, NewOrder, RefuseSide, Refuse
  <1>2. FeedUncrossed' /\ sane /\ feed' = [feed EXCEPT ![s][p] = q]
    BY DEF Reported, FeedUncrossed
  <1>3. /\ feed \in [Side -> [Prices -> Quantities]]
        /\ \A t \in Side, r \in Prices : total[t][r] = feed[t][r]
    BY <1>1, <1>2 DEF AdapterConsistent, OtherLevelsMirrorFeed
  <1>4. /\ feed'[s][p] = q
        /\ \A t \in Side, r \in Prices :
              t # s \/ r # p => total'[t][r] = feed'[t][r]
    BY <1>1, <1>2, <1>3
  <1>5. CASE SetByAmend(s, p, q) \/ SetByNew(s, p, q)
    <2>1. /\ pc' = "match" /\ remaining' = q
          /\ call'.side = s /\ call'.price = p /\ call'.quantity = q
      BY <1>5 DEF SetByAmend, SetByNew, Amend, NewOrder, StartMatch
    <2>2. UpdateIsWhole' /\ OtherLevelsMirrorFeed'
      BY <1>4, <2>1 DEF UpdateIsWhole, OtherLevelsMirrorFeed
    <2> QED
      BY <1>2, <2>2 DEF SaneUpdate
  <1>6. CASE SetLost(s, p)
    <2>1. p \in Live /\ orders[p].side # s /\ pc' = "idle"
      BY <1>1, <1>6 DEF SetLost, RefuseSide, Refuse
    <2>2. ~ Detached(p) /\ orders[p].side \in Side
      BY <1>1, <2>1 DEF Detached, AdapterConsistent, Consistent, TypeOK, Order
    <2> DEFINE o == orders[p].side
    <2>3. queue[o][p] # <<>> /\ queue[s][p] = <<>>
      <3>1. queue[o][p] = <<p>>
        BY <2>1, <2>2, LevelOrders DEF AdapterConsistent
      <3>2. queue[s][p] # <<p>>
        BY <2>1, LevelOrders DEF AdapterConsistent
      <3> QED
        BY <3>1, <3>2, LevelOrders DEF AdapterConsistent
    <2>4. total[o][p] > 0 /\ total[s][p] = 0
      BY <2>2, <2>3, RestingTotals DEF AdapterConsistent, OneOrderTotals
    <2>5. feed'[o][p] > 0
      BY <1>1, <1>4, <2>1, <2>2, <2>4
    <2>6. ~ (q > 0)
      BY <1>2, <1>4, <2>1, <2>2, <2>5, PriceAssumption DEF FeedUncrossed, Side, Prices
    <2>7. q = 0
      BY <2>6, QuantityAssumption DEF Quantities
    <2>8. UpdateIsWhole' /\ OtherLevelsMirrorFeed'
      BY <1>1, <1>4, <2>1, <2>4, <2>7 DEF UpdateIsWhole, OtherLevelsMirrorFeed
    <2> QED
      BY <1>2, <2>8 DEF SaneUpdate
  <1> QED
    BY <1>5, <1>6

\* No level of an uncrossed feed is there for an update to trade with.
LEMMA SaneNeverMatches ==
    ASSUME AdapterConsistent, sane, EnterLevel
    PROVE  FALSE
  <1> DEFINE o == Opposite(call.side)
  <1>1. pc = "match" /\ CanMatch
    BY DEF EnterLevel
  <1>2. o \in Side /\ level \in listed[o] /\ level \in Prices
    BY <1>1, CanMatchAtLevel DEF AdapterConsistent
  <1>3. call.side \in Side /\ o # call.side /\ call.price \in Prices
    BY <1>1, AdapterCall DEF AdapterConsistent
  <1>4. feed[call.side][call.price] > 0
    BY <1>1 DEF CanMatch, AdapterConsistent, UpdateIsWhole
  <1>5. queue[o][level] # <<>>
    BY <1>1, <1>2 DEF AdapterConsistent, Consistent, EmptyLevelsArePassing
  <1>6. total[o][level] > 0
    BY <1>2, <1>5, RestingTotals
  <1>7. feed[o][level] > 0
    BY <1>2, <1>3, <1>6 DEF AdapterConsistent, OtherLevelsMirrorFeed
  <1>8. ~ Ahead(o, call.price, level)
    BY <1>1 DEF CanMatch
  <1>9. CASE call.side = "BID"
    <2>1. o = "ASK" /\ call.price < level
      BY <1>2, <1>3, <1>4, <1>7, <1>9 DEF Opposite, AdapterConsistent, FeedUncrossed
    <2> QED
      BY <1>8, <2>1 DEF Ahead
  <1>10. CASE call.side = "ASK"
    <2>1. o = "BID" /\ level < call.price
      BY <1>2, <1>3, <1>4, <1>7, <1>10 DEF Opposite, AdapterConsistent, FeedUncrossed
    <2>2. call.price > level
      BY <1>2, <1>3, <2>1, PriceAssumption DEF Prices
    <2> QED
      BY <1>8, <2>1, <2>2 DEF Ahead
  <1> QED
    BY <1>3, <1>9, <1>10 DEF Side

\* A step of the update writes no total but that of its own level.
LEMMA OwnLevelOnly ==
    ASSUME AdapterConsistent, sane, pc # "idle", UNCHANGED <<feed, call>>,
           \A s \in Side, p \in Prices :
               s # call.side \/ p # call.price => total'[s][p] = total[s][p],
           pc' # "idle"
    PROVE  OtherLevelsMirrorFeed'
  BY DEF AdapterConsistent, OtherLevelsMirrorFeed

\* The last step of an update leaves the reported quantity at its level.
LEMMA LastStepMirrors ==
    ASSUME AdapterConsistent, sane, pc # "idle", UNCHANGED <<feed, total>>,
           total[call.side][call.price] = remaining, pc' = "idle"
    PROVE  UpdateIsWhole' /\ OtherLevelsMirrorFeed'
  <1>1. call.side \in Side /\ call.price \in Prices
    BY AdapterCall DEF AdapterConsistent
  <1>2. total[call.side][call.price] = feed[call.side][call.price]
    BY DEF AdapterConsistent, UpdateIsWhole
  <1> QED
    BY <1>1, <1>2 DEF AdapterConsistent, UpdateIsWhole, OtherLevelsMirrorFeed

\* The book serves an update of an uncrossed feed without a trade.
LEMMA ServeSane ==
    ASSUME AdapterConsistent, Serve, sane
    PROVE  SaneUpdate'
  <1> USE DEF AdapterConsistent
  <1>1. UNCHANGED feed /\ FeedUncrossed' /\ pc \notin {"fill", "filled", "levelMatched"}
    BY DEF Serve, FeedUncrossed, UpdateIsWhole
  <1>2. ~ EnterLevel
    BY SaneNeverMatches
  <1>3. pc # "idle"
    BY <1>1, <1>2 DEF Serve, Step, Fill, OnFilled, LevelMatched, NextLevel, Rest, Notify,
              MatchOver, Unlink, LeaveLevel, Reinsert, Return, EraseOrder, ReplaceAfterCancel
  <1>4. call.side \in Side /\ call.price \in Prices /\ call.price = call.id
    BY <1>3, AdapterCall
  <1>5. remaining = call.quantity /\ feed[call.side][call.price] = call.quantity
    BY <1>3 DEF UpdateIsWhole
  <1>6. total \in [Side -> [Prices -> Totals]]
    BY DEF Consistent, TypeOK
  <1>7. CASE Rest \/ Reinsert
    <2>1. total' = [total EXCEPT ![call.side][call.price] = remaining]
      BY <1>7, InsertOneOrderTotals
    <2>2. UNCHANGED <<call, remaining>> /\ pc' \in {"rested", "return"}
      BY <1>7 DEF Rest, Reinsert
    <2>3. UpdateIsWhole'
      BY <1>1, <1>4, <1>5, <1>6, <2>1, <2>2 DEF UpdateIsWhole
    <2>4. OtherLevelsMirrorFeed'
      BY <1>1, <1>3, <1>4, <1>6, <2>1, <2>2, OwnLevelOnly
    <2> QED
      BY <1>1, <2>3, <2>4 DEF SaneUpdate
  <1>8. CASE Notify
    <2>1. UNCHANGED <<total, call, remaining>> /\ pc' = "return"
      BY <1>8 DEF Notify
    <2>2. total[call.side][call.price] = remaining
      <3>1. CASE pc = "rested"
        BY <3>1 DEF UpdateIsWhole
      <3>2. CASE MatchOver("newOrder") /\ remaining = 0
        <4>1. call.id \notin Live
          BY <3>2 DEF MatchOver, Consistent, InFlight, CallersOrder, Matching
        <4>2. queue[call.side][call.price] = <<>>
          BY <1>4, <4>1, LevelOrders
        <4> QED
          BY <1>4, <3>2, <4>2 DEF OneOrderTotals
      <3> QED
        BY <1>8, <3>1, <3>2 DEF Notify
    <2>3. UpdateIsWhole'
      BY <1>1, <1>5, <2>1, <2>2 DEF UpdateIsWhole
    <2>4. OtherLevelsMirrorFeed'
      BY <1>1, <1>3, <2>1, OwnLevelOnly
    <2> QED
      BY <1>1, <2>3, <2>4 DEF SaneUpdate
  <1>9. CASE Unlink
    <2>1. /\ total' = [total EXCEPT ![call.side][call.price] = 0]
          /\ UNCHANGED <<call, remaining>> /\ pc' = "unlinked"
      BY <1>9, UnlinkOneOrderTotals DEF Unlink
    <2>2. UpdateIsWhole'
      BY <1>1, <1>5, <2>1 DEF UpdateIsWhole
    <2>3. OtherLevelsMirrorFeed'
      BY <1>1, <1>3, <1>4, <1>6, <2>1, OwnLevelOnly
    <2> QED
      BY <1>1, <2>2, <2>3 DEF SaneUpdate
  <1>10. CASE LeaveLevel
    <2>1. /\ UNCHANGED <<call, remaining>> /\ pc' \in {"reinsert", "erase"}
          /\ DropIfEmpty(call.side, orders[call.id].price)
          /\ pc' = "erase" => ~ (call.name = "amend" /\ remaining > 0)
      BY <1>10 DEF LeaveLevel
    <2>2. orders[call.id].price = call.price
      BY <1>3, <1>4, <1>10 DEF LeaveLevel, Consistent, InFlight, CallersOrder,
                               NamedAfterPrice
    <2>3. call.name = "amend"
      BY <1>3, <1>10 DEF LeaveLevel, Consistent, InFlight, PlacesOfCalls, NamedAfterPrice
    <2>4. remaining \in Nat
      BY QuantityAssumption DEF Consistent, TypeOK, Quantities
    <2>5. UpdateIsWhole'
      BY <1>1, <1>5, <2>1, <2>3, <2>4 DEF UpdateIsWhole
    <2>6. \A s \in Side, p \in Prices :
              s # call.side \/ p # call.price => total'[s][p] = total[s][p]
      BY <1>4, <1>6, <2>1, <2>2 DEF DropIfEmpty
    <2>7. OtherLevelsMirrorFeed'
      BY <1>1, <1>3, <2>1, <2>6, OwnLevelOnly
    <2> QED
      BY <1>1, <2>5, <2>7 DEF SaneUpdate
  <1>11. CASE Return
    <2>1. UNCHANGED total /\ pc = "return" /\ pc' = "idle"
      BY <1>11 DEF Return, Finish
    <2>2. total[call.side][call.price] = remaining
      BY <2>1 DEF UpdateIsWhole
    <2> QED
      BY <1>1, <2>1, <2>2, LastStepMirrors DEF SaneUpdate
  <1>12. CASE EraseOrder
    <2>1. UNCHANGED total /\ pc = "erase" /\ pc' = "idle"
      BY <1>12 DEF EraseOrder, Finish
    <2>2. Detached(call.price) /\ remaining = 0
      BY <1>4, <2>1 DEF Detached, UpdateIsWhole
    <2>3. queue[call.side][call.price] = <<>>
      BY <1>4, <2>2, LevelOrders
    <2>4. total[call.side][call.price] = remaining
      BY <1>4, <2>2, <2>3 DEF OneOrderTotals
    <2> QED
      BY <1>1, <1>3, <2>1, <2>4, LastStepMirrors DEF SaneUpdate
  <1>13. CASE ReplaceAfterCancel
    BY <1>3, <1>13 DEF ReplaceAfterCancel, NamedAfterPrice
  <1> QED
    BY <1>1, <1>2, <1>7, <1>8, <1>9, <1>10, <1>11, <1>12, <1>13
       DEF Serve, Step, Fill, OnFilled, LevelMatched, NextLevel

\* The invariant of the adapter is inductive.
LEMMA AdapterNextConsistent ==
    AdapterConsistent /\ [AdapterNext]_adapterVars => AdapterConsistent'
  <1> SUFFICES ASSUME AdapterConsistent, [AdapterNext]_adapterVars
               PROVE  AdapterConsistent'
    OBVIOUS
  <1>1. Consistent'
    BY AdapterStepsBook, NextConsistent DEF AdapterConsistent
  <1>2. CASE AdapterNext
    <2>1. NamedAfterPrice' /\ OneOrderTotals'
      BY <1>2, NamedAfterPriceStep, OneOrderTotalsStep
    <2>2. CASE SetPriceLevel
      <3> PICK s \in Side, p \in Prices, q \in Quantities : Reported(s, p, q)
        BY <2>2 DEF SetPriceLevel
      <3>1. feed' \in [Side -> [Prices -> Quantities]] /\ sane' \in BOOLEAN
        <4>1. feed' \in [Side -> [Prices -> Quantities]]
          BY DEF Reported, AdapterConsistent
        <4>2. sane' \in BOOLEAN
          BY DEF Reported
        <4> QED
          BY <4>1, <4>2
      <3> QED
        BY <1>1, <2>1, <2>2, <3>1, SetPriceLevelSane DEF AdapterConsistent, SaneUpdate
    <2>3. CASE Serve
      <3>1. UNCHANGED <<feed, sane>>
        BY <2>3 DEF Serve
      <3> QED
        BY <1>1, <2>1, <2>3, <3>1, ServeSane DEF AdapterConsistent, SaneUpdate
    <2> QED
      BY <1>2, <2>2, <2>3 DEF AdapterNext
  <1>3. CASE UNCHANGED adapterVars
    BY <1>1, <1>3 DEF adapterVars, AdapterConsistent, NamedAfterPrice, OneOrderTotals,
                      FeedUncrossed, UpdateIsWhole, OtherLevelsMirrorFeed, Live
  <1> QED
    BY <1>2, <1>3

-----------------------------------------------------------------------------
(* The theorems about the adapter.                                         *)

\* The invariant holds in every state of the adapter.
THEOREM AdapterAlwaysConsistent == AdapterSpec => []AdapterConsistent
  BY AdapterInitConsistent, AdapterNextConsistent, PTL DEF AdapterSpec

\* A level of the adapter's book is the one order named after its price, so
\* an update of the feed always addresses the order it means.
THEOREM LevelsAreOrders == AdapterSpec => []LevelIsItsOrder
  <1>1. AdapterConsistent => LevelIsItsOrder
    <2> SUFFICES ASSUME AdapterConsistent, NEW s \in Side, NEW p \in listed[s],
                        pc \notin {"fill", "filled", "levelMatched", "unlinked"}
                 PROVE  queue[s][p] = <<p>>
      BY DEF LevelIsItsOrder
    <2>1. p \in Prices
      BY DEF AdapterConsistent, Consistent, TypeOK
    <2>2. queue[s][p] # <<>>
      BY <2>1 DEF AdapterConsistent, Consistent, EmptyLevelsArePassing
    <2> QED
      BY <2>1, <2>2, LevelOrders DEF AdapterConsistent
  <1> QED
    BY <1>1, AdapterAlwaysConsistent, PTL

\* As long as the reported levels never cross, the book between two updates is
\* the feed: update_book may ignore what setPriceLevel returns.
THEOREM FeedMirrored == AdapterSpec => []BookMirrorsFeed
  <1>1. AdapterConsistent => BookMirrorsFeed
    <2> SUFFICES ASSUME AdapterConsistent, sane, pc = "idle",
                        NEW s \in Side, NEW p \in Prices
                 PROVE  /\ total[s][p] = feed[s][p]
                        /\ p \in listed[s] <=> feed[s][p] > 0
      BY DEF BookMirrorsFeed
    <2>1. total[s][p] = feed[s][p]
      BY DEF AdapterConsistent, OtherLevelsMirrorFeed
    <2>2. p \in listed[s] => total[s][p] > 0
      <3>1. p \in listed[s] => queue[s][p] # <<>>
        BY DEF AdapterConsistent, Consistent, EmptyLevelsArePassing
      <3> QED
        BY <3>1, RestingTotals
    <2>3. p \notin listed[s] => total[s][p] = 0
      BY DEF AdapterConsistent, Consistent, EmptyLevelsArePassing
    <2> QED
      BY <2>1, <2>2, <2>3
  <1> QED
    BY <1>1, AdapterAlwaysConsistent, PTL

-----------------------------------------------------------------------------
(* From the message of the exchange to the screen.                         *)

\* The book as the adapter keeps it, and the screen if the book has one.
GeminiInvariant ==
    /\ AdapterConsistent
    /\ BookInvariant
    /\ aggregator = "EventHandler" => ScreenInvariant

\* Every step of the application is one of the adapter, or none of its.
LEMMA GeminiStepsAdapter == [GeminiNext]_geminiVars => [AdapterNext]_adapterVars
  <1> SUFFICES ASSUME [GeminiNext]_geminiVars PROVE [AdapterNext]_adapterVars
    OBVIOUS
  <1>1. CASE OnChange \/ BookStep
    BY <1>1 DEF OnChange, BookStep, AdapterNext
  <1>2. CASE UIStep
    BY <1>2 DEF UIStep, Dequeue, Frame, adapterVars
  <1>3. CASE AllShown \/ UNCHANGED geminiVars
    BY <1>3 DEF AllShown, Finished, geminiVars, pipelineVars, adapterVars
  <1> QED
    BY <1>1, <1>2, <1>3 DEF GeminiNext

\* The invariant holds before the first message.
LEMMA GeminiStarts == GeminiInit => GeminiInvariant
  <1> SUFFICES ASSUME GeminiInit PROVE GeminiInvariant
    OBVIOUS
  <1>1. AdapterConsistent
    BY AdapterInitConsistent DEF GeminiInit
  <1>2. BookInvariant /\ ScreenInvariant
    BY PipelineStarts DEF GeminiInit, PipelineInvariant
  <1> QED
    BY <1>1, <1>2 DEF GeminiInvariant

\* The invariant holds from step to step.
LEMMA GeminiStep == GeminiInvariant /\ [GeminiNext]_geminiVars => GeminiInvariant'
  <1> SUFFICES ASSUME GeminiInvariant, [GeminiNext]_geminiVars
               PROVE  GeminiInvariant'
    OBVIOUS
  <1>1. [AdapterNext]_adapterVars /\ [Next]_vars
    BY GeminiStepsAdapter, AdapterStepsBook
  <1>2. AdapterConsistent' /\ BookInvariant'
    BY <1>1, AdapterNextConsistent, BookInvariantStep DEF GeminiInvariant
  <1>3. aggregator' = aggregator
    BY DEF GeminiNext, OnChange, BookStep, UIStep, AllShown, geminiVars
  <1>4. ASSUME aggregator = "EventHandler" PROVE ScreenInvariant'
    <2>1. BookInvariant /\ ScreenInvariant
      BY <1>4 DEF GeminiInvariant
    <2>2. CASE OnChange
      <3>1. UNCHANGED <<event, uiQueue, workload, snapshot>>
        BY <2>2 DEF OnChange, SetPriceLevel, SetByAmend, SetByNew, SetLost, Amend, NewOrder,
                    RefuseSide, Refuse
      <3>2. Push /\ UNCHANGED <<workload, snapshot>>
        BY <3>1 DEF Push
      <3> QED
        BY <1>1, <2>1, <3>2, BookMoves
    <2>3. CASE BookStep
      <3>1. Push /\ UNCHANGED <<workload, snapshot>>
        BY <1>4, <2>3 DEF BookStep
      <3> QED
        BY <1>1, <2>1, <3>1, BookMoves
    <2>4. CASE UIStep
      BY <2>1, <2>4, DequeueMoves, FrameMoves DEF UIStep
    <2>5. CASE AllShown \/ UNCHANGED geminiVars
      <3>1. UNCHANGED <<event, uiQueue, workload, snapshot>>
        BY <2>5 DEF AllShown, Finished, geminiVars, pipelineVars
      <3>2. Push /\ UNCHANGED <<workload, snapshot>>
        BY <3>1 DEF Push
      <3> QED
        BY <1>1, <2>1, <3>2, BookMoves
    <2> QED
      BY <2>2, <2>3, <2>4, <2>5 DEF GeminiNext
  <1> QED
    BY <1>2, <1>3, <1>4 DEF GeminiInvariant

\* The websocket thread of the application drives the adapter as any feed may.
THEOREM GeminiDrivesAdapter == GeminiSpec => AdapterSpec
  <1>1. GeminiInit => AdapterInit
    BY DEF GeminiInit
  <1> QED
    BY <1>1, GeminiStepsAdapter, PTL DEF GeminiSpec, AdapterSpec

\* The adapter's book is consistent, and the screen with the pending events is
\* the book.
THEOREM GeminiAlwaysInvariant == GeminiSpec => []GeminiInvariant
  BY GeminiStarts, GeminiStep, PTL DEF GeminiSpec

\* A size that the screen shows for a quantity of the exchange.
LEMMA GeminiSizes ==
    ASSUME LevelUpdate = "Gemini", NEW q \in Nat, q > 0, NEW size, Shown(q) = {size}
    PROVE  size > 0 /\ 10 * q - 1 <= size /\ size <= 10 * q
  <1>1. size = SizeShown(q)
    BY DEF Shown
  <1>2. SizeShown(q) = 10 * q - 1 \/ SizeShown(q) = 10 * q
    BY DEF SizeShown
  <1> QED
    BY <1>1, <1>2

\* With what is pending applied, the screen has the levels that the exchange
\* reported, with sizes within one unit of theirs: for every feed that is
\* never crossed, of any length.
THEOREM ScreenAlwaysTheExchange ==
    ASSUME LevelUpdate = "Gemini"
    PROVE  GeminiSpec => []ScreenIsTheExchange
  <1>1. GeminiInvariant => ScreenIsTheExchange
    <2> SUFFICES ASSUME GeminiInvariant, aggregator = "EventHandler", sane, pc = "idle",
                        NEW s \in Side
                 PROVE  LET q == Ascending({p \in Prices : feed[s][p] > 0})
                        IN  /\ Len(View[s]) = Len(q)
                            /\ \A i \in DOMAIN View[s] :
                                  /\ View[s][i].price = q[i]
                                  /\ View[s][i].size > 0
                                  /\ 10 * feed[s][View[s][i].price] - 1 <= View[s][i].size
                                  /\ View[s][i].size <= 10 * feed[s][View[s][i].price]
                                  /\ View[s][i].count = 1
      BY DEF ScreenIsTheExchange, View, Pending
    <2> DEFINE l == View[s]
               t == total[s]
               S == {p \in Prices : t[p] # 0}
               q == Ascending({p \in Prices : feed[s][p] > 0})
    <2>1. /\ l \in Ladders(Prices, SizesShown, CountsShown) /\ t \in [Prices -> Totals]
          /\ \A p \in Prices : SizesAt(l, p) = Shown(t[p])
      BY ViewMirrors DEF GeminiInvariant, PipelineInvariant
    <2>2. \A p \in Prices : t[p] = feed[s][p] /\ t[p] \in Nat
      BY <2>1 DEF GeminiInvariant, AdapterConsistent, OtherLevelsMirrorFeed, Totals
    <2>3. q = Ascending(S) /\ S \in SUBSET Int
      <3>1. {p \in Prices : feed[s][p] > 0} = S
        BY <2>2
      <3>2. S \in SUBSET Int
        BY BookEventsAreShowable
      <3> HIDE DEF S
      <3> QED
        BY <3>1, <3>2
    <2> HIDE DEF l, t, q
    <2>4. Lists(l, S)
      BY <2>1, SideListed
    <2>5. /\ DOMAIN l = 1 .. Len(l) /\ Len(l) \in Nat
          /\ \A i \in 1 .. Len(l) : l[i].price \in Prices /\ l[i].count \in CountsShown
      BY <2>1, BookEventsAreShowable, LadderIsAscending
    <2> HIDE DEF S
    <2>6. /\ DOMAIN q = 1 .. Len(l)
          /\ \A i \in 1 .. Len(l) : l[i].price = q[i] /\ SizesAt(l, l[i].price) = {l[i].size}
      BY <2>3, <2>4 DEF Lists
    <2>7. Len(q) = Len(l)
      BY <2>5, <2>6
    <2>8. ASSUME NEW i \in DOMAIN l
          PROVE  /\ l[i].price = q[i]
                 /\ l[i].size > 0
                 /\ 10 * feed[s][l[i].price] - 1 <= l[i].size
                 /\ l[i].size <= 10 * feed[s][l[i].price]
                 /\ l[i].count = 1
      <3>1. l[i].price \in Prices /\ l[i].price = q[i] /\ l[i].count \in CountsShown
        BY <2>5, <2>6
      <3> DEFINE r == feed[s][l[i].price]
      <3>2. r \in Nat /\ Shown(r) = {l[i].size}
        BY <2>1, <2>2, <2>5, <2>6, <3>1
      <3>3. r > 0
        BY <3>2 DEF Shown
      <3> HIDE DEF r
      <3>4. l[i].size > 0 /\ 10 * r - 1 <= l[i].size /\ l[i].size <= 10 * r
        BY <3>2, <3>3, GeminiSizes
      <3>5. l[i].count = 1
        BY <3>1 DEF CountsShown, CountShown
      <3> QED
        BY <3>1, <3>4, <3>5 DEF r
    <2> QED
      BY <2>7, <2>8 DEF l, q
  <1> QED
    BY <1>1, GeminiAlwaysInvariant, PTL

=============================================================================
