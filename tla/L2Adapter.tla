----------------------------- MODULE L2Adapter -----------------------------
(***************************************************************************)
(* The adapter of src/book/l2_adapter.hpp that feeds price-level updates   *)
(* (the Gemini market data feed) to the order book: a level is one order   *)
(* whose id is its price.  "feed" remembers what the exchange has said.    *)
(***************************************************************************)
EXTENDS OrderBook

ASSUME IDsArePrices == OrderIDs = Prices

VARIABLES
    success,  \* what setPriceLevel returned to update_book
    feed,     \* per side and price, the quantity the exchange last reported
    sane      \* the levels the exchange reported have never been crossed

adapterVars == <<orders, listed, queue, total, pc, call, remaining, level,
                 event, result, success, feed, sane>>

AdapterInit ==
    /\ Init
    /\ success = "none"
    /\ feed = [s \in Side |-> [p \in Prices |-> 0]]
    /\ sane = TRUE

\* The exchange reports quantity q at price p of side s.
Reported(s, p, q) ==
    /\ feed' = [feed EXCEPT ![s][p] = q]
    /\ sane' = (sane /\ \A b, a \in Prices :
                   feed'["BID"][b] > 0 /\ feed'["ASK"][a] > 0 => b < a)

\* Mutant: the amend that takes no side, amend(price, price, qty).
SetAnySideByAmend(s, p, q) ==
    /\ p \in Live
    /\ Amend(p, p, q)
    /\ success' = "none"

\* m_book.amend(price, side, price, qty) finds the level's order.
SetByAmend(s, p, q) ==
    /\ p \in Live /\ orders[p].side = s
    /\ Amend(p, p, q)
    /\ success' = "none"

\* The amend failed on an unknown id: m_book.newOrder(price, ...).
SetByNew(s, p, q) ==
    /\ NewOrder(p, s, p, q)
    /\ success' = "none"

\* The price rests on the other side: amend refuses the side and newOrder
\* the duplicate id.  The update is lost.
SetLost(s, p) ==
    /\ RefuseSide(p, s)
    /\ success' = "false"

\* The book serves the call.  setPriceLevel returns false when its amend
\* succeeded, and what newOrder returned otherwise.
Serve ==
    /\ Step
    /\ success' = IF pc' # "idle" THEN success
                  ELSE IF call.name = "amend" THEN "false" ELSE result'
    /\ UNCHANGED <<feed, sane>>

SetPriceLevel ==
    \E s \in Side, p \in Prices, q \in Quantities :
        /\ SetByAmend(s, p, q) \/ SetByNew(s, p, q) \/ SetLost(s, p)
        /\ Reported(s, p, q)

AdapterNext == SetPriceLevel \/ Serve

AdapterSpec == AdapterInit /\ [][AdapterNext]_adapterVars

-----------------------------------------------------------------------------

\* A level of the adapter's book is exactly the order named after it, so an
\* update of the feed, which knows prices and no ids, always addresses the
\* order it means.
LevelIsItsOrder ==
    \A s \in Side : \A p \in listed[s] :
        pc \notin {"fill", "filled", "levelMatched", "unlinked"} =>
            queue[s][p] = <<p>>

\* As long as the levels that the exchange reports never cross, no update is
\* lost and none trades: between updates the book holds on each side exactly
\* the levels of the feed, although update_book ignores what setPriceLevel
\* returns.
BookMirrorsFeed ==
    sane /\ pc = "idle" =>
        \A s \in Side, p \in Prices :
            /\ total[s][p] = feed[s][p]
            /\ p \in listed[s] <=> feed[s][p] > 0

-----------------------------------------------------------------------------
(* What holds inside a running update.  These facts carry the properties   *)
(* above from step to step.                                                *)

\* Every order is named after its price, and so is that of the running call.
NamedAfterPrice ==
    /\ \A id \in Live : orders[id].price = id
    /\ pc # "idle" => call.name \in {"newOrder", "amend"} /\ call.price = call.id

\* A level's total is the quantity of its only order.
OneOrderTotals ==
    \A s \in Side, p \in Prices :
        total[s][p] = IF queue[s][p] = <<>> THEN 0 ELSE orders[p].quantity

\* The levels that the exchange last reported are not crossed.
FeedUncrossed ==
    \A b, a \in Prices : feed["BID"][b] > 0 /\ feed["ASK"][a] > 0 => b < a

\* A sane update meets nothing it could trade with, so that all of it is there
\* when the level is inserted again.
UpdateIsWhole ==
    /\ pc \notin {"fill", "filled", "levelMatched"}
    /\ pc # "idle" => /\ remaining = call.quantity
                      /\ feed[call.side][call.price] = call.quantity
    /\ pc \in {"rested", "return"} => total[call.side][call.price] = remaining
    /\ pc = "erase" => remaining = 0

\* All levels but that of the running update are the feed's.
OtherLevelsMirrorFeed ==
    \A s \in Side, p \in Prices :
        pc = "idle" \/ s # call.side \/ p # call.price => total[s][p] = feed[s][p]

\* The inductive invariant of the adapter.
AdapterConsistent ==
    /\ Consistent
    /\ feed \in [Side -> [Prices -> Quantities]]
    /\ sane \in BOOLEAN
    /\ NamedAfterPrice
    /\ OneOrderTotals
    /\ sane => FeedUncrossed /\ UpdateIsWhole /\ OtherLevelsMirrorFeed

=============================================================================
