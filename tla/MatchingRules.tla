--------------------------- MODULE MatchingRules ---------------------------
(***************************************************************************)
(* What a call on an order book comes to, as a function of the book.  A    *)
(* book has one list of orders per side, kept best first and, at one       *)
(* price, oldest first.  Who trades how much is stated by where the        *)
(* incoming quantity ends in the list of orders it may trade with, not by  *)
(* a loop.                                                                 *)
(***************************************************************************)
EXTENDS Integers, Sequences, SequencesExt

Side == {"BID", "ASK"}

Opposite(s) == IF s = "BID" THEN "ASK" ELSE "BID"
Better(s, p, q) == IF s = "BID" THEN p > q ELSE p < q

EmptyBook == [s \in Side |-> <<>>]

\* How many orders of a list are not worse than a price: they are the first.
Reached(s, list, price) ==
    CHOOSE n \in 0 .. Len(list) :
        \A i \in DOMAIN list : i <= n <=> ~ Better(s, price, list[i].price)

\* The quantity of the first n orders.
QuantityOf(list, n) == MapThenSumSet(LAMBDA i : list[i].quantity, 1 .. n)

\* How many orders quantity q fills when it arrives with this limit: those it
\* reaches, as long as it lasts.
Filled(s, list, limit, q) ==
    LET reach == Reached(s, list, limit)
    IN  CHOOSE n \in 0 .. reach :
            /\ QuantityOf(list, n) <= q
            /\ n < reach => QuantityOf(list, n + 1) > q

TradeWith(order, quantity) ==
    [id |-> order.id, price |-> order.price, quantity |-> quantity,
     fill |-> IF quantity = order.quantity THEN "Full" ELSE "Partial"]

\* The trades, the orders that stay, and the quantity nobody took: what is left
\* when n orders are filled goes to the next one within reach, or to nobody.
TradesOf(s, list, limit, q) ==
    LET n == Filled(s, list, limit, q)
        left == q - QuantityOf(list, n)
        full == [i \in 1 .. n |-> TradeWith(list[i], list[i].quantity)]
    IN  IF n < Reached(s, list, limit) /\ left > 0
        THEN Append(full, TradeWith(list[n + 1], left))
        ELSE full

StayOf(s, list, limit, q) ==
    LET n == Filled(s, list, limit, q)
        left == q - QuantityOf(list, n)
    IN  [i \in 1 .. Len(list) - n |->
            IF i = 1 /\ n < Reached(s, list, limit)
            THEN [list[n + 1] EXCEPT !.quantity = @ - left]
            ELSE list[n + i]]

RestOf(s, list, limit, q) ==
    LET n == Filled(s, list, limit, q)
    IN  IF n = Reached(s, list, limit) THEN q - QuantityOf(list, n) ELSE 0

\* An order joins behind everything that is not worse than it.
Join(s, list, order) ==
    IF order.quantity = 0 THEN list
    ELSE InsertAt(list, Reached(s, list, order.price) + 1, order)

IDsOf(list) == {list[i].id : i \in DOMAIN list}
Known(b, id) == \E s \in Side : id \in IDsOf(b[s])

PlaceOf(list, id) == CHOOSE i \in DOMAIN list : list[i].id = id
SideOf(b, id) == CHOOSE s \in Side : id \in IDsOf(b[s])
Found(b, id) == b[SideOf(b, id)][PlaceOf(b[SideOf(b, id)], id)]

Removed(b, id) ==
    [s \in Side |-> IF id \in IDsOf(b[s]) THEN RemoveAt(b[s], PlaceOf(b[s], id))
                                          ELSE b[s]]

-----------------------------------------------------------------------------
(* The outcome of a call: the book, the trades and the answer.             *)

Refused(b) == [book |-> b, trades |-> <<>>, answer |-> "false"]

\* Quantity q for order id of side s meets the book b and the rest joins it.
Executed(b, id, s, p, q) ==
    LET other == b[Opposite(s)]
        rest == [id |-> id, price |-> p,
                 quantity |-> RestOf(Opposite(s), other, p, q)]
    IN  [book |-> [b EXCEPT ![s] = Join(s, @, rest),
                            ![Opposite(s)] = StayOf(Opposite(s), @, p, q)],
         trades |-> TradesOf(Opposite(s), other, p, q),
         answer |-> "true"]

NewOrderOn(b, id, s, p, q) ==
    IF Known(b, id) THEN Refused(b) ELSE Executed(b, id, s, p, q)

CancelOn(b, id) ==
    IF Known(b, id)
    THEN [book |-> Removed(b, id), trades |-> <<>>, answer |-> "true"]
    ELSE Refused(b)

\* An amended order keeps its side and joins again at the back.
AmendSideOn(b, id, s, p, q) ==
    IF Known(b, id) /\ SideOf(b, id) = s
    THEN Executed(Removed(b, id), id, s, p, q)
    ELSE Refused(b)

AmendOn(b, id, p, q) == AmendSideOn(b, id, SideOf(b, id), p, q)

AmendDeltaOn(b, id, q) ==
    IF ~ Known(b, id) THEN Refused(b)
    ELSE LET order == Found(b, id)
         IN  AmendOn(b, id, order.price,
                     IF q >= order.quantity THEN 0 ELSE order.quantity - q)

\* A replaced order joins again at the back, on either side: see
\* ReplaceAfterCancel in OrderBook.
ReplaceOn(b, id, p, q) ==
    IF Known(b, id)
    THEN {Executed(Removed(b, id), id, s, p, q) : s \in Side}
    ELSE {Refused(b)}

=============================================================================
