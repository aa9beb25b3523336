----------------------------- MODULE FeedReplay -----------------------------
(***************************************************************************)
(* Replaying a file of orders: FileSource::process_file hands one message  *)
(* after another to the book of its symbol, as in src/apps/main.cpp and    *)
(* bloomberg.cpp, for the three sources of src/parser/parsers.hpp.  A call *)
(* on a book is one step here, with the outcome of MatchingRules, which    *)
(* the order book implements.                                              *)
(*                                                                         *)
(* The file is written by somebody: the clients of a matching engine (CSV) *)
(* or an exchange that tells what happens to the orders on its own, never  *)
(* crossed books (NASDAQ, Databento).  "market" is what the writer knows   *)
(* of its orders; the program never sees it.                               *)
(***************************************************************************)
EXTENDS MatchingRules

CONSTANTS
    Sources,      \* of "CSV", "NASDAQ", "Databento": compiled into the program
    Stocks,       \* the instruments of the file
    OrderIDs,     \* order ids, or order reference numbers
    NoSymbol,     \* the book key of a message that names no instrument
    MaxPrice, MaxQuantity,
    MaxOrders     \* bound: orders that the writer keeps track of at a time

ASSUME SourceAssumption == Sources \subseteq {"CSV", "NASDAQ", "Databento"}
ASSUME BoundAssumption == MaxPrice \in Nat /\ MaxQuantity \in Nat /\ MaxOrders \in Nat

VARIABLES
    source,    \* FileSource
    books,     \* ticker_books, from the keys seen so far
    answer,    \* what the last book call returned; "none" if there was none
    trades,    \* the trades of the last message
    market,    \* from <<stock, id>> to the order as the writer knows it
    used,      \* ids the writer has given to orders
    stale,     \* orders that left the exchange unnoticed by the replay
    exact      \* the file has not yet done what the replay cannot follow

vars == <<source, books, answer, trades, market, used, stale, exact>>

Prices == 1 .. MaxPrice
Quantities == 1 .. MaxQuantity

Init ==
    /\ source \in Sources
    /\ books = [k \in {} |-> EmptyBook]
    /\ answer = "none"
    /\ trades = <<>>
    /\ market = [order \in {} |-> 0]
    /\ used = {}
    /\ stale = [order \in {} |-> 0]
    /\ exact = (source # "CSV")

-----------------------------------------------------------------------------
(* The program.                                                            *)

\* FileSource::symbol.  A NASDAQ order message leaves "symbol" empty; a
\* Databento record gives the channel, which the instruments of a file share.
Key(stock) == IF source = "CSV" THEN stock ELSE NoSymbol

BookOf(key) == IF key \in DOMAIN books THEN books[key] ELSE EmptyBook

\* ticker_books.try_emplace(symbol), then update_book.
Update(key, outcome) ==
    /\ books' = [k \in DOMAIN books \cup {key} |->
                    IF k = key THEN outcome.book ELSE books[k]]
    /\ answer' = outcome.answer
    /\ trades' = outcome.trades

\* A message that calls nothing on the book.
Ignored(b) == [book |-> b, trades |-> <<>>, answer |-> "none"]

\* process_csv_message.  An amend is amend(id, price, quantity).
ProcessCSV(b, msg) ==
    CASE msg.type = "New"    -> NewOrderOn(b, msg.id, msg.side, msg.price, msg.quantity)
      [] msg.type = "Cancel" -> CancelOn(b, msg.id)
      [] msg.type = "AmendPriceQuantity" -> AmendOn(b, msg.id, msg.price, msg.quantity)

\* Mutants: the executed quantity taken for what is left; any execution or
\* cancellation taken for all of the order.
ReduceTo(b, msg) == AmendOn(b, msg.id, Found(b, msg.id).price, msg.quantity)
ReduceAll(b, msg) == CancelOn(b, msg.id)

\* OrderCancel and the two executions take a quantity off an order.
ReduceOrder(b, msg) == AmendDeltaOn(b, msg.id, msg.quantity)

\* processNasdaqMessage: the outcomes it can have.
ProcessNasdaq(b, msg) ==
    CASE msg.type \in {"OrderAdd", "OrderAddWithMPID"} ->
            {NewOrderOn(b, msg.id, msg.side, msg.price, msg.quantity)}
      [] msg.type = "OrderDelete" -> {CancelOn(b, msg.id)}
      [] msg.type \in {"OrderCancel", "OrderExecute", "OrderExecuteWithPrice"} ->
            {ReduceOrder(b, msg)}
      [] msg.type = "OrderReplace" -> ReplaceOn(b, msg.id, msg.price, msg.quantity)
      [] OTHER -> {Ignored(b)}

\* Mutant: a modify is handled as an add.
UpdateByNew(b, msg) ==
    CASE msg.action \in {"A", "M"} -> NewOrderOn(b, msg.id, msg.side, msg.price, msg.quantity)
      [] msg.action = "C" -> CancelOn(b, msg.id)
      [] OTHER -> Ignored(b)

\* update_order_book of the Databento source.
UpdateOrderBook(b, msg) ==
    CASE msg.action = "A" -> NewOrderOn(b, msg.id, msg.side, msg.price, msg.quantity)
      [] msg.action = "C" -> CancelOn(b, msg.id)
      [] msg.action = "M" -> AmendSideOn(b, msg.id, msg.side, msg.price, msg.quantity)
      [] OTHER -> Ignored(b)

Replay(stock, msg) ==
    LET b == BookOf(Key(stock))
    IN  CASE source = "CSV"       -> Update(Key(stock), ProcessCSV(b, msg))
          [] source = "NASDAQ"    -> \E outcome \in ProcessNasdaq(b, msg) :
                                        Update(Key(stock), outcome)
          [] source = "Databento" -> Update(Key(stock), UpdateOrderBook(b, msg))

-----------------------------------------------------------------------------
(* The writers.                                                            *)

Told(stock, id, order) ==
    [o \in DOMAIN market \cup {<<stock, id>>} |->
        IF o = <<stock, id>> THEN order ELSE market[o]]

Gone(o) == [other \in DOMAIN market \ {o} |-> market[other]]

\* These orders leave, and the replay keeps them.
Left(gone) ==
    [o \in DOMAIN stale \cup gone |-> IF o \in gone THEN market[o] ELSE stale[o]]

Quiet(orders) ==
    \A b, a \in DOMAIN orders :
        orders[b].side = "BID" /\ orders[a].side = "ASK"
            => orders[b].price < orders[a].price

\* An exchange reports resting orders only: its book of a stock is uncrossed.
Uncrossed(stock, orders) ==
    Quiet([o \in {x \in DOMAIN orders : x[1] = stock} |-> orders[o]])

\* The replay can follow while all instruments together are uncrossed.
Reports(orders) == market' = orders /\ exact' = (exact /\ Quiet(orders))

-----------------------------------------------------------------------------
(* CSV: the requests of clients, valid as parse_line demands.  A client     *)
(* knows of an order what the last accepted request said.                  *)

CsvNew(stock, id, s, p, q) ==
    /\ source = "CSV"
    /\ Cardinality(DOMAIN market) < MaxOrders
    /\ Replay(stock, [type |-> "New", id |-> id, side |-> s, price |-> p, quantity |-> q])
    /\ market' = IF answer' = "true"
                 THEN Told(stock, id, [side |-> s, price |-> p, quantity |-> q])
                 ELSE market
    /\ UNCHANGED <<source, used, stale, exact>>

CsvCancel(stock, id) ==
    /\ source = "CSV"
    /\ Replay(stock, [type |-> "Cancel", id |-> id])
    /\ market' = Gone(<<stock, id>>)
    /\ UNCHANGED <<source, used, stale, exact>>

CsvAmend(stock, id, s, p, q) ==
    /\ source = "CSV"
    /\ Replay(stock, [type |-> "AmendPriceQuantity", id |-> id, side |-> s,
                      price |-> p, quantity |-> q])
    /\ market' = IF answer' = "true"
                 THEN [market EXCEPT ![<<stock, id>>].price = p,
                                     ![<<stock, id>>].quantity = q]
                 ELSE market
    /\ UNCHANGED <<source, used, stale, exact>>

-----------------------------------------------------------------------------
(* NASDAQ: order reference numbers are never given twice.                  *)

NasdaqAdd(stock, id, s, p, q) ==
    LET told == Told(stock, id, [side |-> s, price |-> p, quantity |-> q])
    IN  /\ source = "NASDAQ"
        /\ id \notin used
        /\ Uncrossed(stock, told)
        /\ \E type \in {"OrderAdd", "OrderAddWithMPID"} :
              Replay(stock, [type |-> type, id |-> id, side |-> s,
                             price |-> p, quantity |-> q])
        /\ Reports(told)
        /\ used' = used \cup {id}
        /\ UNCHANGED <<source, stale>>

\* Part or all of a resting order was executed, or part of it cancelled.
NasdaqReduce(o, q) ==
    /\ source = "NASDAQ"
    /\ q <= market[o].quantity
    /\ \E type \in {"OrderCancel", "OrderExecute", "OrderExecuteWithPrice"} :
          Replay(o[1], [type |-> type, id |-> o[2], quantity |-> q])
    /\ Reports(IF q = market[o].quantity THEN Gone(o)
               ELSE [market EXCEPT ![o].quantity = @ - q])
    /\ UNCHANGED <<source, used, stale>>

NasdaqDelete(o) ==
    /\ source = "NASDAQ"
    /\ Replay(o[1], [type |-> "OrderDelete", id |-> o[2]])
    /\ Reports(Gone(o))
    /\ UNCHANGED <<source, used, stale>>

\* Order o goes on under a new reference number, with a new price and quantity.
NasdaqReplace(o, id, p, q) ==
    LET without == Gone(o)
        told == [x \in DOMAIN without \cup {<<o[1], id>>} |->
                    IF x = <<o[1], id>>
                    THEN [side |-> market[o].side, price |-> p, quantity |-> q]
                    ELSE without[x]]
    IN  /\ source = "NASDAQ"
        /\ id \notin used
        /\ Uncrossed(o[1], told)
        /\ Replay(o[1], [type |-> "OrderReplace", prev |-> o[2], id |-> id,
                         price |-> p, quantity |-> q])
        /\ market' = told
        /\ exact' = FALSE
        /\ used' = used \cup {id}
        /\ stale' = Left({o})
        /\ UNCHANGED source

\* Trade, StockDirectory, MarketMaker.  The last two do name their stock,
\* and so open a book for it that no order will ever reach.
NasdaqOther(stock) ==
    /\ source = "NASDAQ"
    /\ \E key \in {stock, NoSymbol} :
          Update(key, Ignored(BookOf(key)))
    /\ UNCHANGED <<source, market, used, stale, exact>>

-----------------------------------------------------------------------------
(* Databento: add, cancel and modify; the other actions are ignored.       *)

MboAdd(stock, id, s, p, q) ==
    LET told == Told(stock, id, [side |-> s, price |-> p, quantity |-> q])
    IN  /\ source = "Databento"
        /\ id \notin used
        /\ Uncrossed(stock, told)
        /\ Replay(stock, [action |-> "A", id |-> id, side |-> s,
                          price |-> p, quantity |-> q])
        /\ Reports(told)
        /\ used' = used \cup {id}
        /\ UNCHANGED <<source, stale>>

\* All of a resting order was cancelled.
MboCancel(o) ==
    /\ source = "Databento"
    /\ Replay(o[1], [action |-> "C", id |-> o[2]])
    /\ Reports(Gone(o))
    /\ UNCHANGED <<source, used, stale>>

\* Part of a resting order was cancelled: the record's size says how much, and
\* the source does not read it.
MboCancelPart(o, q) ==
    /\ source = "Databento"
    /\ q < market[o].quantity
    /\ Replay(o[1], [action |-> "C", id |-> o[2]])
    /\ market' = [market EXCEPT ![o].quantity = @ - q]
    /\ exact' = FALSE
    /\ UNCHANGED <<source, used, stale>>

MboModify(o, p, q) ==
    LET told == [market EXCEPT ![o].price = p, ![o].quantity = q]
    IN  /\ source = "Databento"
        /\ Uncrossed(o[1], told)
        /\ Replay(o[1], [action |-> "M", id |-> o[2], side |-> market[o].side,
                         price |-> p, quantity |-> q])
        /\ Reports(told)
        /\ UNCHANGED <<source, used, stale>>

\* The exchange empties the instrument's book.  A release build ignores the
\* record; a debug build ends at an assertion.
MboReset(stock) ==
    LET gone == {o \in DOMAIN market : o[1] = stock}
    IN  /\ source = "Databento"
        /\ gone # {}
        /\ Replay(stock, [action |-> "R"])
        /\ market' = [o \in DOMAIN market \ gone |-> market[o]]
        /\ stale' = Left(gone)
        /\ exact' = FALSE
        /\ UNCHANGED <<source, used>>

MboOther(stock) ==
    /\ source = "Databento"
    /\ \E action \in {"T", "F", "N"} : Replay(stock, [action |-> action])
    /\ UNCHANGED <<source, market, used, stale, exact>>

Next ==
    \/ \E stock \in Stocks, id \in OrderIDs :
          \/ CsvCancel(stock, id)
          \/ \E s \in Side, p \in Prices, q \in Quantities :
                \/ CsvNew(stock, id, s, p, q)
                \/ CsvAmend(stock, id, s, p, q)
                \/ NasdaqAdd(stock, id, s, p, q)
                \/ MboAdd(stock, id, s, p, q)
    \/ \E o \in DOMAIN market :
          \/ NasdaqDelete(o)
          \/ MboCancel(o)
          \/ \E q \in Quantities : NasdaqReduce(o, q) \/ MboCancelPart(o, q)
          \/ \E p \in Prices, q \in Quantities : MboModify(o, p, q)
          \/ \E id \in OrderIDs, p \in Prices, q \in Quantities :
                NasdaqReplace(o, id, p, q)
    \/ \E stock \in Stocks :
          NasdaqOther(stock) \/ MboReset(stock) \/ MboOther(stock)

Spec == Init /\ [][Next]_vars

-----------------------------------------------------------------------------

\* The orders of a book, whatever their place in its queues.
OrdersIn(b) ==
    UNION {{[id |-> o.id, side |-> s, price |-> o.price, quantity |-> o.quantity]
            : o \in Range(b[s])} : s \in Side}

\* An order that the writer knows, or knew, accounts for one in the book of a key.
Backs(known, key, order) ==
    \E o \in DOMAIN known :
        /\ o[2] = order.id
        /\ Key(o[1]) = key
        /\ known[o].side = order.side
        /\ known[o].price = order.price
        /\ order.quantity <= known[o].quantity

\* The replay never invents liquidity: every order on a book is one its
\* writer knows, on that side, at that price and with at least that quantity,
\* or one that a NASDAQ replace or a Databento reset took away, as it was then.
\* This holds also after the books of several instruments were mixed and
\* traded with each other.
NoPhantomLiquidity ==
    \A key \in DOMAIN books : \A order \in OrdersIn(books[key]) :
        Backs(market, key, order) \/ Backs(stale, key, order)

\* The orders of a writer as they look in a book.
Shown(known) ==
    {[id |-> o[2], side |-> known[o].side, price |-> known[o].price,
      quantity |-> known[o].quantity] : o \in DOMAIN known}

\* As long as no order was replaced, reset or cancelled in part by a Databento
\* file, and the instruments do not cross each other, the book has exactly the orders of the exchange, although every
\* execution is replayed as an amend that goes through the matching again.
MirrorsWhileExact == exact => OrdersIn(BookOf(NoSymbol)) = Shown(market)

\* As long, no message of an exchange makes the replay trade on its own or
\* report an error.
QuietWhileExact == exact => trades = <<>> /\ answer # "false"

\* nasdaq.hpp: prev_order_id is "the order reference number being replaced".
\* A replaced order leaves the book.
ReplacedOrdersLeave ==
    \A o \in DOMAIN stale : ~ Known(BookOf(NoSymbol), o[2])

=============================================================================
