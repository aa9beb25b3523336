------------------------ MODULE OrderBookRefinement ------------------------
(***************************************************************************)
(* The order book as its caller sees it: the state at the last return, the *)
(* trades reported since the call began, and the answer.  These variables  *)
(* observe OrderBook and never influence it; through them OrderBook        *)
(* implements MatchingEngine.                                              *)
(***************************************************************************)
EXTENDS OrderBook

VARIABLES
    committed,  \* per side, the orders by priority when a call last returned
    tape,       \* trades of the running call so far
    reported,   \* trades of the last finished call
    answered    \* what the last finished call returned

allVars == <<orders, listed, queue, total, pc, call, remaining, level, event,
             result, committed, tape, reported, answered>>

\* The price at rank k of a side, best first.
PriceAt(s, k) == IF s = "BID" THEN MaxPrice + 1 - k ELSE k - 1

\* The orders of a level, oldest first.
OrdersAt(s, p) ==
    LET q == queue[s][p]
    IN  [i \in DOMAIN q |-> [id |-> q[i], price |-> orders[q[i]].price,
                             quantity |-> orders[q[i]].quantity]]

\* The orders of a side, level after level from the best one.
ByPriority(s) ==
    FlattenSeq([k \in 1 .. MaxPrice + 1 |-> OrdersAt(s, PriceAt(s, k))])

Levels == [s \in Side |-> ByPriority(s)]

ObservedInit ==
    /\ Init
    /\ committed = [s \in Side |-> <<>>]
    /\ tape = <<>>
    /\ reported = <<>>
    /\ answered = "none"

\* A trade goes on the tape when its event is sent.
TapeStep ==
    tape' = IF pc' = "idle" THEN <<>>
            ELSE IF pc' = "filled"
            THEN Append(tape, [id |-> event'.id, price |-> event'.price,
                               quantity |-> event'.quantity,
                               fill |-> event'.fill])
            ELSE tape

\* What the caller knows changes when a call returns.
ReturnStep ==
    /\ answered' = IF pc' = "idle" THEN result' ELSE answered
    /\ IF pc # "idle" /\ pc' = "idle"
       THEN committed' = Levels' /\ reported' = tape
       ELSE UNCHANGED <<committed, reported>>

ObservedNext == Next /\ TapeStep /\ ReturnStep

ObservedSpec == ObservedInit /\ [][ObservedNext]_allVars

\* OrderBook's fairness: the thread that called the book keeps running it.
FairObservedSpec ==
    ObservedSpec /\ WF_allVars(Step /\ TapeStep /\ ReturnStep)

-----------------------------------------------------------------------------

Engine ==
    INSTANCE MatchingEngine WITH
        book <- committed, trades <- reported, answer <- answered

\* The order book implements the matching engine: seen from its returns every
\* call is one atomic step on the list of orders by price and time, whatever
\* the loops, callbacks and erasures it is made of did in between.
ImplementsEngine == Engine!Spec

\* The step a call amounts to is the one its arguments ask for.  A new order
\* that ends a replaceOrder comes with the side the code happened to read.
AsAsked ==
    pc # "idle" /\ pc' = "idle" =>
        \/ /\ call.name = "cancel"
           /\ Engine!Cancel(call.id)
        \/ /\ call.name = "amend"
           /\ Engine!Amend(call.id, call.side, call.price, call.quantity)
        \/ /\ call.name = "newOrder"
           /\ \/ Engine!NewOrder(call.id, call.side, call.price, call.quantity)
              \/ Engine!Replace(call.id, call.price, call.quantity)

CallsDoAsAsked == [][AsAsked]_allVars

\* docs/assignment.md, Amendment Rules: an amend that keeps the price and
\* reduces the quantity keeps the order's place in its level.
ReduceOnly ==
    /\ call.name = "amend"
    /\ \E i \in DOMAIN committed[call.side] :
          /\ committed[call.side][i].id = call.id
          /\ committed[call.side][i].price = call.price
          /\ committed[call.side][i].quantity > call.quantity
    /\ call.quantity > 0

IDs(list) == [i \in DOMAIN list |-> list[i].id]

ReduceOnlyKeepsTimePriority ==
    [][pc = "return" /\ ReduceOnly =>
          IDs(committed'[call.side]) = IDs(committed[call.side])]_allVars

\* A replaced order stays on the side it was on, as the NASDAQ message that
\* asks for it carries no side.
ReplaceKeepsSide ==
    [][pc = "erase" /\ call.name = "replaceOrder" => call'.side = call.side]_allVars

=============================================================================
