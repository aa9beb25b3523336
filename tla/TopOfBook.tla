----------------------------- MODULE TopOfBook -----------------------------
(***************************************************************************)
(* What a signal reads from the book it is called from: the best levels    *)
(* and the formulas on them (src/formulas.hpp through BaseSignals of       *)
(* src/signals/signals_base.hpp).                                          *)
(***************************************************************************)
EXTENDS OrderBook, FixedPoint

CONSTANT Tick  \* raw value between neighbouring prices; 1 is the finest grid

ASSUME TickAssumption == Tick \in Nat \ {0}

\* OrderBookSide::getBest.
Best(s) ==
    IF listed[s] = {} THEN None
    ELSE Some([price |-> Tick * Begin(s), quantity |-> total[s][Begin(s)]])

\* topOfBookInvocation needs both.
TwoSided == Has(Best("BID")) /\ Has(Best("ASK"))

\* Places where code outside the book runs: a callback, or between two calls.
Readable == event # NoEvent \/ pc = "idle"

Spread(bid, ask) == Sub(ask.price, bid.price)

MidPrice(bid, ask) == Div(Add(ask.price, bid.price), FromInt(2))

\* Mutant: each price is weighted by its own side.
WeightedByOwnSide(bid, ask) ==
    Div(Add(Mul(ask.price, FromInt(ask.quantity)),
            Mul(bid.price, FromInt(bid.quantity))),
        FromInt(Plus(ask.quantity, bid.quantity)))

\* The sum of the quantities is one of Quantity's width.
WeightedMidPrice(bid, ask) ==
    Div(Add(Mul(ask.price, FromInt(bid.quantity)),
            Mul(bid.price, FromInt(ask.quantity))),
        FromInt(Plus(ask.quantity, bid.quantity)))

MicroPrice(bid, ask) ==
    LET I == Div(FromInt(bid.quantity), FromInt(bid.quantity + ask.quantity))
    IN  Add(Mul(ask.price, I), Mul(bid.price, Sub(FromInt(1), I)))

InsideVolumetricImbalance(bid, ask) ==
    Div(Sub(FromInt(bid.quantity), FromInt(ask.quantity)),
        FromInt(bid.quantity + ask.quantity))

-----------------------------------------------------------------------------

\* The quantities that rest on the two best levels fit Quantity together.
TotalsFit ==
    LET resting(s) == MapThenSumSet(
                        LAMBDA i : orders[queue[s][Begin(s)][i]].quantity,
                        DOMAIN queue[s][Begin(s)])
    IN  resting("BID") + resting("ASK") < QuantityModulus

\* A signal may compute any formula in any callback: the quantities it divides
\* by are never both zero, although an emptied level may still be the best of
\* its side at that moment.
QuoteDenominatorsPositive ==
    Readable /\ TwoSided /\ TotalsFit =>
        Value(Best("BID")).quantity + Value(Best("ASK")).quantity > 0

\* The prices that a signal computes from a two-sided book, in a callback or
\* between calls, lie between the best bid and the best ask; the micro-price
\* is the weighted mid, less what its two more divisions cut off; and the
\* imbalance is a share of the whole that is one only if nothing is offered,
\* and that leans to the side with more on it unless the divisions hide it.
QuotesInsideSpread ==
    Readable /\ TwoSided /\ TotalsFit =>
        LET bid == Value(Best("BID"))
            ask == Value(Best("ASK"))
            mid == MidPrice(bid, ask)
            weighted == WeightedMidPrice(bid, ask)
            micro == MicroPrice(bid, ask)
            imbalance == InsideVolumetricImbalance(bid, ask)
        IN  /\ Spread(bid, ask) > 0
            /\ bid.price <= mid /\ mid < ask.price
            /\ bid.price <= weighted /\ weighted <= ask.price
            /\ micro <= weighted
            /\ weighted <= micro + 2 + (ask.price - bid.price) \div Scale
            /\ -FromInt(1) <= imbalance /\ imbalance <= FromInt(1)
            /\ (imbalance = FromInt(1)) <=> (ask.quantity = 0)
            /\ imbalance > 0 => bid.quantity > ask.quantity
            /\ imbalance < 0 => bid.quantity < ask.quantity

=============================================================================
