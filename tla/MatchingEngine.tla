--------------------------- MODULE MatchingEngine ---------------------------
(***************************************************************************)
(* What the order book promises its callers: every call is one step, with  *)
(* the outcome that MatchingRules gives.                                   *)
(***************************************************************************)
EXTENDS MatchingRules

CONSTANTS OrderIDs, MaxPrice, MaxQuantity

VARIABLES
    book,    \* per side, the orders [id, price, quantity] by priority
    trades,  \* the trades of the last call, in the order they happened
    answer   \* what the last call returned

vars == <<book, trades, answer>>

Prices == 0 .. MaxPrice
Quantities == 0 .. MaxQuantity

Init ==
    /\ book = EmptyBook
    /\ trades = <<>>
    /\ answer = "none"

\* The call is accepted and has this outcome.
Accept(outcome) ==
    /\ answer' = "true"
    /\ outcome.answer = "true"
    /\ trades' = outcome.trades
    /\ book' = outcome.book

NewOrder(id, s, p, q) == Accept(NewOrderOn(book, id, s, p, q))

Cancel(id) == Accept(CancelOn(book, id))

Amend(id, s, p, q) == Accept(AmendSideOn(book, id, s, p, q))

Replace(id, p, q) == \E outcome \in ReplaceOn(book, id, p, q) : Accept(outcome)

\* A call is refused without effect: a duplicate id, an unknown id, a wrong
\* side.
Refuse ==
    /\ answer' = "false"
    /\ UNCHANGED <<book, trades>>

Next ==
    \/ \E id \in OrderIDs, p \in Prices, q \in Quantities :
          \/ \E s \in Side : NewOrder(id, s, p, q) \/ Amend(id, s, p, q)
          \/ Replace(id, p, q)
    \/ \E id \in OrderIDs : Cancel(id)
    \/ Refuse

Spec == Init /\ [][Next]_vars

=============================================================================
