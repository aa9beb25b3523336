----------------------------- MODULE OrderBook -----------------------------
(***************************************************************************)
(* The matching engine of src/order_book.hpp with its two book sides       *)
(* (src/order_book_side.hpp), price levels (src/price_level.hpp) and the   *)
(* registry of live orders (src/object_resource.hpp).                      *)
(*                                                                         *)
(* A call on the book is not one step.  The code runs it as loops that     *)
(* call back into the signals after every fill and after every change of a *)
(* level, and a callback reads the book it is called from.  Here one step  *)
(* is the code from one callback to the next, or one loop decision between *)
(* callbacks: "pc" is the place reached, and while "event" is not NoEvent  *)
(* the state is what the receiver of that event sees.                      *)
(***************************************************************************)
EXTENDS Integers, Sequences, FiniteSets, SequencesExt

CONSTANTS
    OrderIDs,        \* the ids a caller may use
    MaxPrice,        \* prices are 0 .. MaxPrice
    MaxQuantity,     \* bound on the quantity of one order
    QuantityModulus  \* a level's total wraps at this value (2^32 in the code)

ASSUME PriceAssumption == MaxPrice \in Nat

ASSUME QuantityAssumption ==
    /\ MaxQuantity \in Nat
    /\ QuantityModulus \in Nat
    /\ MaxQuantity < QuantityModulus

VARIABLES
    orders,     \* ObjectResource: the live orders, a function on their ids
    listed,     \* per side, the prices that are keys of the std::map of levels
    queue,      \* per side and price, PriceLevel::orders (ids, oldest first)
    total,      \* per side and price, PriceLevel::total_quantity
    pc,         \* where the running call is; "idle" between calls
    call,       \* the running call and its arguments
    remaining,  \* quantity the running call still has to trade or to rest
    level,      \* matchPrice's iterator over the opposite side
    event,      \* the event being delivered to the signals
    result      \* what the last finished call returned

bookVars == <<orders, listed, queue, total>>
callVars == <<pc, call, remaining, level, event, result>>
vars == <<orders, listed, queue, total, pc, call, remaining, level, event, result>>

-----------------------------------------------------------------------------
(* Data.                                                                   *)

Side == {"BID", "ASK"}
Prices == 0 .. MaxPrice
Quantities == 0 .. MaxQuantity
Totals == 0 .. QuantityModulus - 1

Opposite(s) == IF s = "BID" THEN "ASK" ELSE "BID"

\* An Order object.  Its id is the argument of the registry.
Order == [side : Side, price : Prices, quantity : Quantities]

\* The end() iterator of a side.
End == MaxPrice + 1

\* Book::key_compare: std::greater on the bids, std::less on the asks.
Ahead(s, p, q) == IF s = "BID" THEN p > q ELSE p < q

\* The first of the prices S in the order of side s, or end().
FirstOf(s, S) ==
    IF S = {} THEN End
    ELSE CHOOSE p \in S : \A q \in S : ~ Ahead(s, q, p)

Begin(s) == FirstOf(s, listed[s])
After(s, p) == FirstOf(s, {q \in listed[s] : Ahead(s, p, q)})

NoCall == [name |-> "none"]
CallNames == {"newOrder", "amend", "cancel", "replaceOrder"}
Call == [name : CallNames, id : OrderIDs, side : Side,
         price : Prices, quantity : Quantities]

NoEvent == [type |-> "none"]
TradeEvents == [type : {"Trade"}, id : OrderIDs, price : Prices,
                quantity : Quantities, aggressor : Side,
                fill : {"Partial", "Full"}]
LevelEvents == [type : {"LevelQuantity"}, side : Side, price : Prices,
                quantity : Totals, count : Nat]
MatchedEvents == [type : {"OrderMatched"}, id : OrderIDs, side : Side,
                  price : Prices, quantity : Quantities,
                  remaining : Quantities]

Init ==
    /\ orders = [id \in {} |-> 0]
    /\ listed = [s \in Side |-> {}]
    /\ queue = [s \in Side |-> [p \in Prices |-> <<>>]]
    /\ total = [s \in Side |-> [p \in Prices |-> 0]]
    /\ pc = "idle"
    /\ call = NoCall
    /\ remaining = 0
    /\ level = End
    /\ event = NoEvent
    /\ result = "none"

-----------------------------------------------------------------------------
(* The registry and the levels.                                            *)

Live == DOMAIN orders

\* ObjectResource::create, erase and a write through the Order pointer.
Create(id, order) ==
    orders' = [i \in Live \cup {id} |-> IF i = id THEN order ELSE orders[i]]
Erase(id) == orders' = [i \in Live \ {id} |-> orders[i]]

\* boost::intrusive::list::erase(iterator_to(order)).
Unlinked(q, id) == RemoveAt(q, CHOOSE i \in 1 .. Len(q) : q[i] = id)

\* uint32 arithmetic on a level's total.
Plus(t, quantity) == (t + quantity) % QuantityModulus
Minus(t, quantity) == (t - quantity) % QuantityModulus

\* OrderBookSide::make_level_quanity_event.
LevelEvent(s, p, q, t) ==
    [type |-> "LevelQuantity", side |-> s, price |-> p,
     quantity |-> t, count |-> Len(q)]

\* Mutant: push_front instead of push_back.
InsertInFront(s, p, id, quantity) ==
    LET q == <<id>> \o queue[s][p]
        t == Plus(total[s][p], quantity)
    IN  /\ listed' = [listed EXCEPT ![s] = @ \cup {p}]
        /\ queue' = [queue EXCEPT ![s][p] = q]
        /\ total' = [total EXCEPT ![s][p] = t]
        /\ event' = LevelEvent(s, p, q, t)

\* OrderBookSide::insertOrder: find or create the level, append, add, report.
Insert(s, p, id, quantity) ==
    LET q == Append(queue[s][p], id)
        t == Plus(total[s][p], quantity)
    IN  /\ listed' = [listed EXCEPT ![s] = @ \cup {p}]
        /\ queue' = [queue EXCEPT ![s][p] = q]
        /\ total' = [total EXCEPT ![s][p] = t]
        /\ event' = LevelEvent(s, p, q, t)

\* Mutant: the emptied level is not erased.
KeepIfEmpty(s, p) == UNCHANGED <<listed, total>>

\* book.erase(level) when the level was left empty.  The next try_emplace
\* of this price starts from a fresh PriceLevel.
DropIfEmpty(s, p) ==
    IF queue[s][p] = <<>>
    THEN /\ listed' = [listed EXCEPT ![s] = @ \ {p}]
         /\ total' = [total EXCEPT ![s][p] = 0]
    ELSE UNCHANGED <<listed, total>>

-----------------------------------------------------------------------------
(* Calls: what the public operations do up to their first loop test.       *)

\* matchPrice begins at book.begin() of the other side.
StartMatch(c) ==
    /\ pc' = "match"
    /\ call' = c
    /\ remaining' = c.quantity
    /\ level' = Begin(Opposite(c.side))
    /\ result' = "none"

NewOrder(id, s, p, q) ==
    /\ pc = "idle"
    /\ id \notin Live
    /\ StartMatch([name |-> "newOrder", id |-> id, side |-> s,
                   price |-> p, quantity |-> q])
    /\ UNCHANGED <<orders, listed, queue, total, event>>

\* Mutant: the shortcut that amend's comment warns of; a reduced quantity is
\* written to the order and the level's cached total is forgotten.
AmendInPlace(id, p, q) ==
    /\ pc = "idle"
    /\ id \in Live
    /\ IF p = orders[id].price /\ q < orders[id].quantity
       THEN /\ orders' = [orders EXCEPT ![id].quantity = q]
            /\ result' = "true"
            /\ UNCHANGED <<pc, call, remaining, level>>
       ELSE /\ StartMatch([name |-> "amend", id |-> id, side |-> orders[id].side,
                           price |-> p, quantity |-> q])
            /\ UNCHANGED orders
    /\ UNCHANGED <<listed, queue, total, event>>

\* amend(id, side, price, qty) on an order of that side, and
\* amend(id, price, qty), which passes the order's own side.
Amend(id, p, q) ==
    /\ pc = "idle"
    /\ id \in Live
    /\ StartMatch([name |-> "amend", id |-> id, side |-> orders[id].side,
                   price |-> p, quantity |-> q])
    /\ UNCHANGED <<orders, listed, queue, total, event>>

\* The quantity amendDelta leaves on the order: never below zero.
ReducedBy(id, q) ==
    IF q >= orders[id].quantity THEN 0 ELSE orders[id].quantity - q

AmendDelta(id, q) == Amend(id, orders[id].price, ReducedBy(id, q))

\* cancel(id), and replaceOrder(id, price, qty), which begins with a cancel.
StartUnlink(c) ==
    /\ pc' = "unlink"
    /\ call' = c
    /\ result' = "none"
    /\ UNCHANGED <<orders, listed, queue, total, remaining, level, event>>

Cancel(id) ==
    /\ pc = "idle"
    /\ id \in Live
    /\ StartUnlink([name |-> "cancel", id |-> id, side |-> orders[id].side,
                    price |-> 0, quantity |-> 0])

ReplaceOrder(id, p, q) ==
    /\ pc = "idle"
    /\ id \in Live
    /\ StartUnlink([name |-> "replaceOrder", id |-> id,
                    side |-> orders[id].side, price |-> p, quantity |-> q])

\* The calls that return false and change nothing else: a duplicate id for
\* newOrder, an unknown id for the others, a side mismatch for amend.
Refuse ==
    /\ pc = "idle"
    /\ result' = "false"
    /\ UNCHANGED <<orders, listed, queue, total, pc, call, remaining, level, event>>

RefuseDuplicate(id) == id \in Live /\ Refuse
RefuseUnknown(id) == id \notin Live /\ Refuse
RefuseSide(id, s) == id \in Live /\ orders[id].side # s /\ Refuse

-----------------------------------------------------------------------------
(* OrderBookSide::matchPrice and PriceLevel::matchAgainst.                 *)

\* Mutant: only prices strictly through the level trade.
CanMatchStrictly ==
    /\ remaining > 0
    /\ level # End
    /\ Ahead(Opposite(call.side), level, call.price)

\* The loop condition of matchPrice.
CanMatch ==
    /\ remaining > 0
    /\ level # End
    /\ ~ Ahead(Opposite(call.side), call.price, level)

EnterLevel ==
    /\ pc = "match"
    /\ CanMatch
    /\ pc' = "fill"
    /\ UNCHANGED <<orders, listed, queue, total, call, remaining, level, event, result>>

\* Mutants: the newest order of the level trades; a trade takes more than
\* the order has.
RestingNewest == Last(queue[Opposite(call.side)][level])
DeltaUnclipped == remaining

\* The order matchAgainst's iterator is at, and the quantity it trades.
Resting == queue[Opposite(call.side)][level][1]
Delta == IF orders[Resting].quantity < remaining
         THEN orders[Resting].quantity
         ELSE remaining

\* One iteration of matchAgainst, up to the TradeEvent that on_filled sends.
Fill ==
    LET s == Opposite(call.side)
        id == Resting
        left == orders[id].quantity - Delta
    IN  /\ pc = "fill"
        /\ remaining > 0
        /\ queue[s][level] # <<>>
        /\ total' = [total EXCEPT ![s][level] = Minus(@, Delta)]
        /\ orders' = [orders EXCEPT ![id].quantity = left]
        /\ remaining' = remaining - Delta
        /\ queue' = IF left = 0
                    THEN [queue EXCEPT ![s][level] = Unlinked(@, id)]
                    ELSE queue
        /\ event' = [type |-> "Trade", id |-> id,
                     price |-> orders[id].price, quantity |-> Delta,
                     aggressor |-> call.side,
                     fill |-> IF left = 0 THEN "Full" ELSE "Partial"]
        /\ pc' = "filled"
        /\ UNCHANGED <<listed, call, level, result>>

\* Mutant: filled orders stay in the registry.
OnFilledKeepsOrder ==
    /\ pc = "filled"
    /\ event' = NoEvent
    /\ pc' = "fill"
    /\ UNCHANGED <<orders, listed, queue, total, call, remaining, level, result>>

\* on_filled after the signals: a filled order leaves the registry.
OnFilled ==
    /\ pc = "filled"
    /\ IF event.fill = "Full" THEN Erase(event.id) ELSE UNCHANGED orders
    /\ event' = NoEvent
    /\ pc' = "fill"
    /\ UNCHANGED <<listed, queue, total, call, remaining, level, result>>

\* matchAgainst returned: matchPrice reports the level, which is still there.
LevelMatched ==
    LET s == Opposite(call.side)
    IN  /\ pc = "fill"
        /\ remaining = 0 \/ queue[s][level] = <<>>
        /\ event' = LevelEvent(s, level, queue[s][level], total[s][level])
        /\ pc' = "levelMatched"
        /\ UNCHANGED <<orders, listed, queue, total, call, remaining, level, result>>

\* Mutant: the result of book.erase(level) is not assigned.
NextLevelStays ==
    /\ pc = "levelMatched"
    /\ DropIfEmpty(Opposite(call.side), level)
    /\ event' = NoEvent
    /\ pc' = "match"
    /\ UNCHANGED <<orders, queue, call, remaining, level, result>>

\* level = cleared ? book.erase(level) : std::next(level)
NextLevel ==
    LET s == Opposite(call.side)
    IN  /\ pc = "levelMatched"
        /\ DropIfEmpty(s, level)
        /\ level' = After(s, level)
        /\ event' = NoEvent
        /\ pc' = "match"
        /\ UNCHANGED <<orders, queue, call, remaining, result>>

-----------------------------------------------------------------------------
(* What follows the match: emplaceOrder and newOrder, or amend.            *)

MatchOver(name) == pc = "match" /\ ~ CanMatch /\ call.name = name

\* Mutant: the order rests with all of the caller's quantity.
RestWhole ==
    /\ MatchOver("newOrder")
    /\ remaining > 0
    /\ Create(call.id, [side |-> call.side, price |-> call.price,
                        quantity |-> call.quantity])
    /\ Insert(call.side, call.price, call.id, call.quantity)
    /\ pc' = "rested"
    /\ UNCHANGED <<call, remaining, level, result>>

\* emplaceOrder: the remainder becomes an order and joins its own side.
Rest ==
    /\ MatchOver("newOrder")
    /\ remaining > 0
    /\ Create(call.id, [side |-> call.side, price |-> call.price,
                        quantity |-> remaining])
    /\ Insert(call.side, call.price, call.id, remaining)
    /\ pc' = "rested"
    /\ UNCHANGED <<call, remaining, level, result>>

\* newOrder sends the OrderMatchedEvent last.
Notify ==
    /\ \/ MatchOver("newOrder") /\ remaining = 0
       \/ pc = "rested"
    /\ event' = [type |-> "OrderMatched", id |-> call.id, side |-> call.side,
                 price |-> call.price, quantity |-> call.quantity,
                 remaining |-> remaining]
    /\ pc' = "return"
    /\ UNCHANGED <<orders, listed, queue, total, call, remaining, level, result>>

\* OrderBookSide::removeOrder up to its event: the amended order leaves its
\* level after the match, the cancelled one at once.  book.find succeeds.
Unlink ==
    LET s == call.side
        p == orders[call.id].price
        q == Unlinked(queue[s][p], call.id)
        t == Minus(total[s][p], orders[call.id].quantity)
    IN  /\ MatchOver("amend") \/ pc = "unlink"
        /\ p \in listed[s]
        /\ queue' = [queue EXCEPT ![s][p] = q]
        /\ total' = [total EXCEPT ![s][p] = t]
        /\ event' = LevelEvent(s, p, q, t)
        /\ pc' = "unlinked"
        /\ UNCHANGED <<orders, listed, call, remaining, level, result>>

\* The end of removeOrder; an amend with something left inserts again.
LeaveLevel ==
    /\ pc = "unlinked"
    /\ DropIfEmpty(call.side, orders[call.id].price)
    /\ event' = NoEvent
    /\ pc' = IF call.name = "amend" /\ remaining > 0 THEN "reinsert" ELSE "erase"
    /\ UNCHANGED <<orders, queue, call, remaining, level, result>>

\* Mutant: the amended order keeps its price field.
ReinsertOldPrice ==
    /\ pc = "reinsert"
    /\ orders' = [orders EXCEPT ![call.id].quantity = remaining]
    /\ Insert(call.side, call.price, call.id, remaining)
    /\ pc' = "return"
    /\ UNCHANGED <<call, remaining, level, result>>

\* amend's "remaining > 0" branch: the order joins the level of its new price.
Reinsert ==
    /\ pc = "reinsert"
    /\ orders' = [orders EXCEPT ![call.id] =
                     [side |-> @.side, price |-> call.price, quantity |-> remaining]]
    /\ Insert(call.side, call.price, call.id, remaining)
    /\ pc' = "return"
    /\ UNCHANGED <<call, remaining, level, result>>

\* The call returns true.
Finish ==
    /\ pc' = "idle"
    /\ call' = NoCall
    /\ remaining' = 0
    /\ level' = End
    /\ event' = NoEvent
    /\ result' = "true"

Return ==
    /\ pc = "return"
    /\ Finish
    /\ UNCHANGED <<orders, listed, queue, total>>

\* cancel, and amend of an order that was filled or set to zero.
EraseOrder ==
    /\ pc = "erase"
    /\ call.name # "replaceOrder"
    /\ Erase(call.id)
    /\ Finish
    /\ UNCHANGED <<listed, queue, total>>

\* replaceOrder after its cancel: "order" is dangling when order->side is
\* read for newOrder, so the side may be either.
ReplaceAfterCancel ==
    /\ pc = "erase"
    /\ call.name = "replaceOrder"
    /\ Erase(call.id)
    /\ \E s \in Side :
          StartMatch([call EXCEPT !.name = "newOrder", !.side = s])
    /\ UNCHANGED <<listed, queue, total, event>>

-----------------------------------------------------------------------------

\* A caller's request.
Request ==
    \E id \in OrderIDs :
        \/ \E s \in Side, p \in Prices, q \in Quantities : NewOrder(id, s, p, q)
        \/ \E p \in Prices, q \in Quantities : Amend(id, p, q)
        \/ \E q \in Quantities : AmendDelta(id, q)
        \/ Cancel(id)
        \/ \E p \in Prices, q \in Quantities : ReplaceOrder(id, p, q)
        \/ RefuseDuplicate(id)
        \/ RefuseUnknown(id)
        \/ \E s \in Side : RefuseSide(id, s)

\* The running call goes on.
Step ==
    \/ EnterLevel \/ Fill \/ OnFilled \/ LevelMatched \/ NextLevel
    \/ Rest \/ Notify \/ Unlink \/ LeaveLevel \/ Reinsert
    \/ Return \/ EraseOrder \/ ReplaceAfterCancel

Next == Request \/ Step

Spec == Init /\ [][Next]_vars

\* The thread that called the book keeps running it.
Fairness == WF_vars(Step)
FairSpec == Spec /\ Fairness

-----------------------------------------------------------------------------
(* Correctness.                                                            *)

PCs == {"idle", "match", "fill", "filled", "levelMatched", "rested",
        "unlink", "unlinked", "reinsert", "erase", "return"}

\* Every variable keeps the type its C++ declaration gives it; in particular
\* no quantity goes below zero, where the code's unsigned arithmetic would
\* wrap around.
TypeOK ==
    /\ Live \subseteq OrderIDs
    /\ orders \in [Live -> Order]
    /\ listed \in [Side -> SUBSET Prices]
    /\ queue \in [Side -> [Prices -> Seq(OrderIDs)]]
    /\ total \in [Side -> [Prices -> Totals]]
    /\ pc \in PCs
    /\ call \in {NoCall} \cup Call
    /\ pc = "idle" <=> call = NoCall
    /\ remaining \in Quantities
    /\ level \in Prices \cup {End}
    /\ event \in {NoEvent} \cup TradeEvents \cup LevelEvents \cup MatchedEvents
    /\ result \in {"none", "true", "false"}

\* The running call holds an order that is in the registry but in no level:
\* the filled order until on_filled erases it, or the caller's own order
\* between its removal and its reinsertion or erasure.
Detached(id) ==
    \/ pc = "filled" /\ event.id = id /\ event.fill = "Full"
    \/ pc \in {"unlinked", "reinsert", "erase"} /\ call.id = id

\* No level links an order that the registry destroyed, or one of another
\* side or price (the intrusive list would hold a dangling or a misplaced
\* node).
LinksAreLive ==
    \A s \in Side, p \in Prices : \A id \in Range(queue[s][p]) :
        /\ id \in Live
        /\ ~ Detached(id)
        /\ orders[id].side = s
        /\ orders[id].price = p

\* No order is linked twice in a level.
LinksAreUnique ==
    \A s \in Side, p \in Prices : IsInjective(queue[s][p])

\* No order is lost: every live order is in the level of its side and price,
\* and has something left to trade, unless the running call detached it.
OrdersAreLinked ==
    \A id \in Live :
        \/ Detached(id)
        \/ /\ orders[id].quantity > 0
           /\ id \in Range(queue[orders[id].side][orders[id].price])

\* The registry and the intrusive lists of the levels, which the code keeps
\* in step by hand across match, cancel, amend and the on_filled callback,
\* describe the same orders in every state a callback or a caller can see.
RegistryMatchesLevels == LinksAreLive /\ LinksAreUnique /\ OrdersAreLinked

\* PriceLevel::getQuantity is cached.  It is the sum of the level's orders
\* (modulo the width of Quantity) in every state, also after an amend of the
\* quantity alone: the hazard the comment in OrderBook::amend describes.
TotalsMatchOrders ==
    \A s \in Side, p \in Prices :
        total[s][p] =
            MapThenSumSet(LAMBDA i : orders[queue[s][p][i]].quantity,
                          1 .. Len(queue[s][p])) % QuantityModulus

\* The best bid is always strictly below the best ask, also for a callback
\* in the middle of a call: matching never leaves a tradable quantity on the
\* other side (isCrossedOrderBook tests the weaker "not above").
NeverCrossed ==
    \A b \in listed["BID"], a \in listed["ASK"] : b < a

\* A level without orders is in the map only while the call that emptied it
\* is at that level; a signal that reads getBest sees one only inside the
\* event that reports it, and a caller never does.
EmptyLevelsArePassing ==
    \A s \in Side, p \in Prices :
        /\ p \notin listed[s] => queue[s][p] = <<>> /\ total[s][p] = 0
        /\ p \in listed[s] /\ queue[s][p] = <<>> =>
              \/ /\ pc \in {"fill", "filled", "levelMatched"}
                 /\ s = Opposite(call.side)
                 /\ p = level
              \/ /\ pc = "unlinked"
                 /\ s = call.side
                 /\ p = orders[call.id].price

\* Order a is ahead of order b in a queue.
Before(q, a, b) == \E i, j \in DOMAIN q : i < j /\ q[i] = a /\ q[j] = b

\* A trade is always with the order that is first by price and then by time
\* in its level among all live orders of its side: matchPrice never trades
\* through a better level and matchAgainst never skips an older order.
TradeIsWithFirst ==
    event' # event /\ event'.type = "Trade" =>
        LET id == event'.id
            s == orders[id].side
            p == orders[id].price
        IN  /\ s # event'.aggressor
            /\ \A other \in Live \ {id} :
                  orders[other].side = s =>
                      /\ ~ Ahead(s, orders[other].price, p)
                      /\ orders[other].price = p => Before(queue[s][p], id, other)

PriceTimePriority == [][TradeIsWithFirst]_vars

\* Time priority is kept: no step lets an order of a level overtake another
\* one that stays in the level, and who joins a level joins behind all.
KeepsArrivalOrder ==
    \A s \in Side, p \in Prices :
        \A first, second \in Range(queue'[s][p]) :
            second \in Range(queue[s][p]) /\ Before(queue'[s][p], first, second)
                => Before(queue[s][p], first, second)

NeverOvertaken == [][KeepsArrivalOrder]_vars

\* Every call returns: the nested loops of matchPrice and matchAgainst, which
\* erase from the containers they iterate over, always come to an end.
CallsReturn == pc # "idle" ~> pc = "idle"

-----------------------------------------------------------------------------
(* What holds inside a running call.  These facts carry the properties     *)
(* above from step to step.                                                *)

Matching == {"match", "fill", "filled", "levelMatched"}

\* Which calls can be at which place.
PlacesOfCalls ==
    /\ pc \in Matching => call.name \in {"newOrder", "amend"}
    /\ pc = "rested" => call.name = "newOrder"
    /\ pc = "unlink" => call.name \in {"cancel", "replaceOrder"}
    /\ pc \in {"unlinked", "erase"} => call.name # "newOrder"
    /\ pc = "reinsert" => call.name = "amend" /\ remaining > 0

\* A new order is not in the registry before it rests.  The order of another
\* call stays there, on its side, until the call erases it.
CallersOrder ==
    /\ pc \in Matching /\ call.name = "newOrder" => call.id \notin Live
    /\ \/ pc \in Matching /\ call.name # "newOrder"
       \/ pc \in {"unlink", "unlinked", "reinsert", "erase"}
       => call.id \in Live /\ orders[call.id].side = call.side

\* The order on_filled is told about is a live one of the other side.
FilledOrder ==
    pc = "filled" =>
        /\ event \in TradeEvents
        /\ event.id \in Live
        /\ orders[event.id].side = Opposite(call.side)

\* matchPrice's iterator never points behind the first level, or at one that
\* was erased, while there is quantity to match.
IteratorAtFirst ==
    /\ pc = "match" /\ remaining > 0 => level = Begin(Opposite(call.side))
    /\ pc \in {"fill", "filled", "levelMatched"} =>
          /\ level \in listed[Opposite(call.side)]
          /\ level = Begin(Opposite(call.side))
    /\ pc = "levelMatched" /\ remaining > 0 =>
          queue[Opposite(call.side)][level] = <<>>

\* What an amend has left over meets no level of the other side any more.
NothingLeftToMatch ==
    /\ pc \in {"unlinked", "reinsert"}
    /\ call.name = "amend"
    /\ remaining > 0
    => \A a \in listed[Opposite(call.side)] :
          Ahead(Opposite(call.side), call.price, a)

\* The inductive invariant of the order book.
InFlight ==
    /\ PlacesOfCalls
    /\ CallersOrder
    /\ FilledOrder
    /\ IteratorAtFirst
    /\ NothingLeftToMatch

Consistent ==
    /\ TypeOK
    /\ InFlight
    /\ RegistryMatchesLevels
    /\ EmptyLevelsArePassing
    /\ NeverCrossed

=============================================================================
