# A formal model of jpm

jpm is a price/time-priority matching engine with market-data feeds in front of
it (CSV, NASDAQ ITCH, Databento, Gemini), signals computed from its events and
a dashboard behind it. This directory holds TLA+ modules of the parts whose
correctness is not obvious from reading one function, TLC configurations that
check them, and TLAPS proofs about the order book, the screens it feeds, the
price-level adapter, the feeds, the reading of files, the formulas on the best
levels and the signals.

Paths below are relative to the repository; `src/order_book.hpp` is the C++
header, not this directory.

## 1. Inventory

| Part | State | Operations | Talks to |
|---|---|---|---|
| **Order book** `src/order_book.hpp`, `order_book_side.hpp`, `price_level.hpp`, `object_resource.hpp`, `object_pool.hpp` | registry of live orders (hash set over pool memory); per side a `std::map` of levels; per level an intrusive list and a cached total | `newOrder`, `amend` (two forms), `amendDelta`, `cancel`, `replaceOrder`; reads `getBest*`, `getTop*`, `isCrossedOrderBook` | calls the signal aggregator back after every fill and every change of a level, in the middle of its loops |
| **Event queue and update strategies** `src/ui/message_queue.hpp` | a single-producer single-consumer queue, the batch of the frame, the snapshot's sorted vectors | `push`; `process_update_queue` with `FullySequential`, `SideSequential` or `MergeEvents` | pushed to by the feed thread from inside book callbacks, drained by the UI thread once per frame (`src/apps/bloomberg.cpp`, `gemini_gui.cpp`) |
| **L2 adapter** `src/book/l2_adapter.hpp` | an order book whose order ids are prices | `setPriceLevel` | fed by Gemini messages (`src/apps/gemini_gui.cpp`), drives `amend` and `newOrder` |
| **Feed dispatch** `src/parser/csv.hpp`, `nasdaq.hpp`, `databento.hpp`, `gemini.hpp`, `parsers.hpp`, `src/apps/main.cpp` | one book per symbol | one book call per message, or none | parsers, order book |
| **Parsers and framing** `src/parser/*.cpp`, `src/line_view.hpp`, `src/str_utils.*`, `src/mmfile.*` | position in the mapped file | line or length-prefixed framing, field parsing, error results | feed dispatch |
| **Fixed point** `src/fixed_point.hpp` | a scaled 64-bit integer | arithmetic, comparison, parsing, printing | prices everywhere, quantities from Gemini |
| **Formulas and signals** `src/formulas.hpp`, `src/signals/*` | accumulators per indicator; the list of registered signals | `update` on the book's events, `addSignal`, reads of each indicator and of the two best levels | the book they observe, whose `getBest*` they read from inside a callback |
| **Dashboard** `src/ui/dashboard.cpp`, `root.cpp`, `ticker_notebook.cpp` | the snapshot | rendering | snapshot |
| **Platform** `src/platform/*`, `src/mmfile.cpp` | sockets (`ws::connect`, over an external library natively and Emscripten's API in the browser), mappings | connect, open | gemini applications, file applications |

What makes each part hard, and what makes it correct:

* *Order book.* `matchPrice` and `matchAgainst` erase from the containers they
  iterate over; the `on_filled` callback destroys the order the loop has just
  been at; an amend matches first and removes its own order afterwards; the
  total of a level is a cache kept by hand; signals run inside all of this and
  read the book. Correct means: registry and levels describe the same orders at
  every callback, cached totals are the sums, the book is never crossed, trades
  are with the best and oldest order, every call returns and amounts to the
  atomic operation it is named for.
* *Event queue and strategies.* Two threads, a bounded batch, and a strategy
  that reorders and drops events. Correct means: nothing is lost or reordered
  in effect, the three strategies agree, the sorted vectors stay sorted, the
  screen is never crossed and ends equal to the book.
* *L2 adapter.* Level updates are expressed as orders named after their price.
  Correct means: the book mirrors the feed.
* *Feed dispatch.* Each message becomes the book operation its format defines,
  on the book of its symbol.
* *Parsers.* Every framing loop advances and ends; a bad record is reported and
  skipped.
* *Fixed point.* Every operation is rounded towards zero and some are narrowed
  from 128 bits; a number is what its text spells.
* *Signals.* Seven running sums classify a trade by the move of the price, each
  a little differently; averages and variances are kept in one pass with a
  rounding per trade; buckets and streaks span trades. Correct means: each
  indicator is its definition on the whole tape, within a stated rounding, and
  stays in its range; formulas on the best levels give prices inside the spread
  in every callback.

`PROJECT.json` lists every hazard at its line, with the properties that watch it.

## 2. Modules

| Module | What it is |
|---|---|
| `OrderBook` | the order book, one step per stretch of code between two callbacks |
| `OrderBookProofs` | theorems about `OrderBook`, and about what a signal reads and computes at its top |
| `RefinementProofs` | the proof that `OrderBook`, observed, implements `MatchingEngine` |
| `MatchingRules` | what a call on a book comes to, as a function of the book: one list of orders per side |
| `MatchingEngine` | what the order book promises: every call is one atomic step with the outcome of `MatchingRules` |
| `OrderBookRefinement` | observers on `OrderBook` and the mapping under which it implements `MatchingEngine` |
| `LevelUpdates` | the two `update_level` policies and the three batch strategies, as operators |
| `StrategyAgreement` | the three strategies on the same batches |
| `BookPipeline` | `OrderBook`, the event queue and the UI thread together |
| `L2Adapter` | `setPriceLevel` over `OrderBook` |
| `GeminiPipeline` | the Gemini application: `L2Adapter` on `OrderBook`, the event queue and the UI thread |
| `TopOfBook` | what a signal reads from `OrderBook` in a callback: best levels and the formulas on them |
| `FixedPoint` | `FixedPoint<n>`: raw integers and their arithmetic |
| `TextFields` | numbers as texts, and the fields of a CSV line |
| `TickSignals` | the signals that work by the move of the price, as operators |
| `AverageSignals` | the signals that keep averages or ratios, as operators |
| `SignalComposite` | a session of trades through all signals of a static composite, or those registered with a dynamic one |
| `FeedReplay` | CSV, NASDAQ and Databento messages replayed into the books of their symbols |
| `FileReading` | how a NASDAQ, CSV or Databento file becomes messages, and a CSV line or a number its value |
| `FoldProofs` | the lemmas several modules need: induction over the naturals, removal from a sequence, sums over a finite set, folds of any operation |
| `LevelUpdatesProofs` | lemmas about ascending lists, `update_level` and the batch strategies, and the theorems about `StrategyAgreement` |
| `PipelineProofs` | theorems about `BookPipeline`, `L2Adapter` and `GeminiPipeline` |
| `FeedProofs` | theorems about `FeedReplay` |
| `ReadingProofs` | theorems about `FileReading` |
| `SignalProofs` | theorems about `SignalComposite` |
| `MC...` | identifier symmetry for TLC |

### OrderBook: how it corresponds to the code

A call runs as several steps. `pc` names the place reached; while `event` is not
`NoEvent` the state is exactly what a signal sees when it is called with that
event, which is why the properties are checked in every state and not only
between calls.

| Code | Step (`pc` before -> after) |
|---|---|
| `newOrder` / `amend` / `amendDelta` up to `matchPrice`'s first test | `NewOrder`, `Amend`, `AmendDelta` (idle -> match) |
| `cancel`, `replaceOrder` up to `removeOrder` | `Cancel`, `ReplaceOrder` (idle -> unlink) |
| the early `return false`s | `RefuseDuplicate`, `RefuseUnknown`, `RefuseSide` |
| loop test of `matchPrice` | `EnterLevel` (match -> fill), or what follows the loop |
| one iteration of `matchAgainst` up to the `TradeEvent` | `Fill` (fill -> filled) |
| the rest of `on_filled` | `OnFilled` (filled -> fill) |
| the level event of `matchPrice` | `LevelMatched` (fill -> levelMatched) |
| `cleared ? erase : next` | `NextLevel` (levelMatched -> match) |
| `emplaceOrder`'s create and insert | `Rest` (match -> rested) |
| the `OrderMatchedEvent` | `Notify` (-> return) |
| `removeOrder` up to its event, and its end | `Unlink` (-> unlinked), `LeaveLevel` (-> reinsert or erase) |
| `amend`'s reinsertion | `Reinsert` (reinsert -> return) |
| `orders.erase` and the return | `EraseOrder`; `Return` |
| `newOrder` after `replaceOrder`'s `cancel` | `ReplaceAfterCancel` (erase -> match) |

`orders` is the registry, a function on the live ids, so destroying an order is
leaving its domain; `listed` is the key set of the two maps; `queue` and `total`
are the `PriceLevel`s; `level` is the map iterator of `matchPrice`. The list
iterator of `matchAgainst` needs no variable: it stands at the first order of
the level until `remaining` is 0 (`Resting`). Totals are computed modulo
`QuantityModulus`, the 2^32 of `uint32_t`. In `ReplaceAfterCancel` the side is
chosen freely, since the code reads it from a destroyed object.

`TopOfBook` adds no step. `Readable` marks the states in which code outside the
book runs, and `Best` is `getBest` there, an emptied level included. A price is
`Tick` raw units times its number: the code's prices have any raw value (`Tick`
1), the run's are 3 apart, so that a division can cut off less than a price. The
formulas are those of `src/formulas.hpp`, in the arithmetic of `FixedPoint`.

Prices are small naturals: the engine only compares them. `OrderID` types are
model values: the registry only compares them.

### MatchingEngine and the refinement

`MatchingRules` says what a call does without a loop: the limit reaches the
first orders of the opposite list (`Reached`), the incoming quantity fills as
many of them as it lasts for (`Filled`), and the next one within reach trades
what is left (`TradesOf`, `StayOf`); what nobody took joins the own side behind
everything that is not worse (`Join`). `OrderBookRefinement` adds four observers
to `OrderBook`: the book at the last return, the trades since the call began,
those of the last finished call, and its answer. Under `book <- committed,
trades <- reported, answer <- answered` every return is one step of the engine
and everything else a stutter; `CallsDoAsAsked` adds which step. Trades count:
their order, prices, quantities and full/partial flags are part of the mapped
state.

### BookPipeline

The feed thread is `FeedRequest` and `FeedStep`; the push happens inside the
book's step, as `EventHandler::update` is called from the book. The UI thread
is `Dequeue` and `Frame`. The code applies an empty batch too; that changes
nothing, so `Frame` asks for a non-empty one. `Frame` may be taken when the
queue is seen empty; an event pushed between a failed `try_dequeue` and the
application of the batch is the same as one pushed just after the application,
because the application does not read the queue.

### FeedReplay

`ticker_books` is `books`, a function on the keys seen so far; `Update` is
`try_emplace` and `update_book`; `ProcessCSV`, `ProcessNasdaq` and
`UpdateOrderBook` are the three handlers, with one case per message type. A book
call is one step with the outcome of `MatchingRules`, which is what the run
`order_book_refines` justifies. The message types that call nothing
are there too (`NasdaqOther`, `MboOther`), since they can still open a book.
`MboReset` is the Databento record that empties a book: the model is the release
build, which ignores it; a debug build ends at the assertion of
`databento.hpp:29`.

The environment is the writer of the file. CSV: clients, with any valid request
(`parse_line` lets only positive quantities and prices through). NASDAQ and
Databento: an exchange that reports what happens to resting orders, so its own
book of an instrument is never crossed and it never gives an order reference
twice. `market` is what the writer knows; the program never reads it.

`Key` is what the code uses to find the book. For CSV it is the ticker. A NASDAQ
order message leaves `symbol` empty (only the directory messages fill it), and a
Databento record is keyed by `channel_id`: both are `NoSymbol` here, so the
instruments of a file share one book, as in the code. `exact` says that the file
has so far not done what the replay cannot follow: a NASDAQ replace, a Databento
reset, a Databento cancel of a part of an order (the handler cancels the whole
order, whatever the record's size: `MboCancelPart`), or two instruments whose
prices cross. `stale` remembers the orders that
a replace or a reset took away at the exchange and that the replay keeps.

### FileReading

One step is one turn of `process_file`'s loop. A NASDAQ file is a sequence of
frames with their real lengths, less some bytes at its end; `offset` is the
code's `offset`. Contents are abstracted to the type byte, the declared length
and the side byte, the only ones that decide whether a message is accepted.
`ReadUpTo` is the end of the last field each handler reads, and `reach` where
that lies in the file. A CSV file is a sequence of characters, of which only CR
and LF are told apart, read by `LineView::Iterator::find_next`. A Databento file
is a sequence of records; the decoder is external.

Three more kinds of file have one entry each, read in one step: a CSV line
(`ReadLine`, `parse_line` with all its checks), the text of a number
(`ReadNumber`, `FixedPoint::parse_float`) and a price that is printed and parsed
again (`ReadPrice`, the way `price_from_raw` takes an ITCH price). A text is a
sequence of characters of a small alphabet; `//` counts as one character. The
fields of a line are chosen independently from texts that pass and texts that
fail each check.

### L2Adapter

Order ids are prices, as in the code. `feed` records what the exchange said
last about each level, and `sane` whether it ever reported crossed levels; both
are observers. Prices are the same on both sides, so an update for a price that
rests on the other side (`SetLost`) is reachable, with `sane` false.

### GeminiPipeline

`OnChange` is `on_ws_message` on the websocket thread, for one change of a
message: `setPriceLevel` up to the first callback of the book. `BookStep` lets
the book go on and pushes its level events, as `EventHandler` does. `Dequeue`
and `Frame` are the UI thread, with `GeminiLevelUpdate` and `MergeEvents`, the
strategy the application is compiled with. `aggregator` chooses between that
application and the adapter's default, `EmptySignals`, which shows nothing and
so needs no bound on the changes.

Quantities are raw `FixedPoint<4>` values. `GeminiLevelUpdate` shows them in
units of 10^-5 through a product of doubles that is cut off; `SizeShown` is that
conversion and `RoundsDown` the quantities for which the product falls short of
the whole number (`100000.0 * 0.0003` gives 29). The constant holds the first
four such raw values, computed in the arithmetic of doubles.

### FixedPoint, TickSignals, AverageSignals, SignalComposite

A fixed-point value is its raw integer. `Mul` and `Div` round towards zero and
are narrowed to the width (`Wrapped`); sums and `FromInt` are exact, since their
overflow is undefined behaviour in the code and no run reaches it. `Neg` scales
the raw value again, as `operator-` of one operand does. `WholeRoot` is the
square root cut off to whole units, as the cast from `double` does.

Each signal is one operator from its members and a trade to its members, and one
operator per getter that computes. The price of the last trade is an optional
(`Some`, `None`), as in the code. `SignalComposite` feeds a tape of trades to
them: `UpdateStatic` is the `update` of a static composite of all 23 signals,
`AddSignal` and `UpdateDynamic` are `DynamicComposite`, whose list holds pointers
and may hold one object twice. `TradeSizeZScore` divides by a deviation cut off
to whole lots; an integer division by zero ends the program (`stopped`). The
composite "no z-score" leaves that signal out, so that the others are also seen
on the sessions it would end. The tape is an observer: the properties compare
signals with their definitions on the whole tape. Compared are the running sums
(on-balance volume, accumulation and distribution, the Chaikin line, VWAP, price
target, volume-price trend, weighted drift), run length, sweeps, VPIN, the
averages, means and variances; of the oscillators and ratios only the ranges and
signs are stated. Ease of movement, the MACD line and the aggressive volume drift
are modelled, and compared with the tape nowhere.

## 3. Runs

| Run | Shows | Bounds |
|---|---|---|
| `order_book` | `TypeOK`, `InFlight`, `RegistryMatchesLevels`, `TotalsMatchOrders`, `NeverCrossed`, `EmptyLevelsArePassing`, `PriceTimePriority`, `NeverOvertaken`, `QuoteDenominatorsPositive`, `QuotesInsideSpread` | 4 ids (symmetric), prices 0..2 in ticks of 3 raw units, quantities 0..3, totals modulo 6, 1 decimal |
| `order_book_refines` | `ImplementsEngine`, `CallsDoAsAsked`, `CallsReturn` | 3 ids, prices 0..1, quantities 0..2 |
| `pipeline` | `SnapshotPlusPendingIsBook`, `ScreenNeverCrossed`, `ScreenConverges` | 3 ids, prices 0..1, quantities 0..1, 3 messages, batches of 2 |
| `strategies` | `StrategiesAgree`, `SidesAscending` | 3 prices, quantities 0..1, batches of 3 |
| `gemini` | `LevelIsItsOrder`, `BookMirrorsFeed`, `ScreenIsTheExchange` | prices 0..2, quantities 0..3; without a screen any number of changes, with it 3 changes, batches of 2 |
| `feeds` | `NoPhantomLiquidity`, `MirrorsWhileExact`, `QuietWhileExact` | 4 ids, 2 instruments, prices 1..2, quantities 1..2, at most 3 orders tracked by the clients of a CSV file |
| `file_reading` | `EveryCompleteMessageDelivered`, `ReadsStayInFrame`, `EveryLineDelivered`, `ReadingEnds`, `NumberIsItsText`, `PriceParsesBack`, `LinesBecomeTheirMessage` | 2 frames of every type, length 0 and minimum -1..+1, cuts of 0, 1, 2, 24, 37 bytes; 6 characters; 2 records; numbers of 5 characters, 2 decimals, raw values of 12 bits; ids of 2 characters, quantities up to 50 |
| `signals` | `AccumulatorsAreSums`, `VpinIsBucketed`, `RunLengthIsLastRun`, `SweepsAreReported`, `OscillatorsInRange`, `AveragesStayInRange`, `SizesMatchTape`, `ZScoreStopsOnSmallDeviation`, `EachListenerSeesItsTrades` | 5 trades at 3 prices and of 3 sizes, 2 decimals, sweeps of 3 legs, 2 buckets of 3 lots; dynamic: 3 trades, 2 registrations of 2 objects |
| `nasdaq_replace` | a replaced order stays on the book (violation) | 3 ids, 1 instrument |
| `reduce_only` | a reduce-only amend loses time priority (violation) | 3 ids |
| `replace_side` | a replaced order can change sides (violation) | 3 ids |
| `cvd` | the cumulative volume delta is not buys minus sells (violation) | 3 trades of 1 or 2 lots |

Why these bounds are enough to be interesting: four orders let one incoming
order sweep two levels with an older and a newer order in one of them, or two
orders meet behind a partially filled one; three prices let a level be better
than, equal to and worse than a limit; quantities 2 and 3 distinguish partial
from full fills and give the two best levels unequal weights that do not divide
evenly, and quantity 0, which the code accepts, is included; a modulus of 6
makes a level's total wrap, at exactly the modulus too. In the pipeline a batch of 2 is smaller than the
events of one call, so a frame can end in the middle of one. Three messages can
put an order on each side and move one of them across the spread; longer files
are what the theorems of section 4 are for. A batch of 3 on 3 prices
holds two events of one price around one of another, on both sides. In the feeds
two instruments on two prices can cross each other while neither is crossed,
four references let an order be replaced and met by later ones, and quantity 2
separates partial from full executions. Two frames are enough for a framing error
to damage a neighbour; the cuts hit the prefix, the body and the whole of the
last frame. Six characters hold every meeting of CR, LF and text. Five characters
of a number hold a sign, a whole part, a point and more decimals than are kept;
12 bits let the product with the scale wrap. In `gemini` quantity 3 is one that
the screen rounds down, three changes can set, replace and remove a level while
the UI thread is a batch behind. In `signals` five trades hold a sweep of three
legs, its end and the beginning of the next; a trade of five lots fills a bucket
and most of a second; prices 95, 100 and 103 give moves of unequal size in both
directions, and sizes 1, 2 and 5 give deviations on both sides of one lot.

Symmetry over ids is used only where no liveness property is checked.
`CHECK_DEADLOCK` is never switched off: the book always accepts a request, and
the pipeline's end (`Finished`) is explicit.

Bounds are named constants: `MaxPrice`, `MaxQuantity`, `QuantityModulus`,
`BatchLimit` (1024 in the code), `MaxRequests` (length of the replayed file),
`MaxBatch`, `MaxOrders`, `MaxFrames`, `MaxChars`, `MaxText`, `Missing`,
`MaxTrades` and `MaxListened` (lengths of a session), `MaxListeners`. `Half`,
`WordLimit`, `MaxID`, `BucketLots`, `NumBuckets` and `MinSweepLegs` stand for
numbers of the code that are larger there.

**Fairness.** `FairObservedSpec` assumes that the thread inside a book call keeps
running it: the calls are synchronous and take no locks. `PipelineSpec` assumes in
addition that the UI thread's loop goes on (`Root::run` renders until the window
is closed), with weak fairness of taking an event and of applying the frame.
`FairSpec` of `FileReading` assumes that a plain loop goes on.
Nothing is assumed of the callers: the file may end at any time.

### What the failing runs say of the code

* `reduce_only`: `docs/assignment.md:56` and the comment in `OrderBook::amend`
  require that a reduce-only amend keeps its time priority; the shortcut that did
  so is commented out because it broke the cached total, and the code moves the
  order to the back. (`TotalsMatchOrders` is what the shortcut would violate; its
  mutant is exactly that shortcut.)
* `replace_side`: `replaceOrder` reads `order->side` after `cancel` has destroyed
  the order.
* `nasdaq_replace`: `processNasdaqMessage` hands the new order reference of a
  replace to `replaceOrder`, not the one being replaced.
* `cvd`: `FixedPoint::operator-` of one operand hands its raw value to the
  constructor that scales it; a sold lot counts `Scale` times. RSI losses and the
  aggressive volume drift negate the same way.

Five things that passing runs show. Instruments share a book for NASDAQ and
Databento files; with two instruments that cross each other the replay trades
between them (`QuietWhileExact` is false without `exact`). A partial execution
sends the order to the back of its level, so a replayed queue keeps the
exchange's orders and quantities but not their order: the properties compare
sets of orders. After a Databento reset the cleared orders stay in the book
(`stale`). After a Databento cancel of a part the book lacks the rest of the
order, and a later modify of it is refused. And `TradeSizeZScore` ends the program with a division by zero as soon
as the deviation of the sizes is positive and below one lot, which sizes 1 and 2
give (`ZScoreStopsOnSmallDeviation`); `BlockTradeDetector` cuts its deviation off
in the same way and then compares with zero, so that every size above the mean
is a block.

Differences between code and documentation without a run of their own:

* `dashboard_types.hpp:54-57` says `bids[0]` is the highest bid, while the vectors
  are kept ascending and the dashboard reads `back()`; only the comment is off.
* `update_level` (`message_queue.hpp:29`) sets `order_count` only when a level
  appears; the columns "Bid Orders" and "Ask Orders" of `dashboard.cpp` show it.
* `docs/assignment.md:94` says that the aggressor's order determines the trade
  price. Its own example has it otherwise (A003, amended to 6.9, trades with A001
  at 6.8), and so has the code: a trade is at the price of the level it is taken
  from, which is what `MatchingRules` says.
* `docs/assignment.md:60` wants a side change by an amend rejected;
  `process_csv_message` calls the `amend` that takes no side.
* `signals_base.hpp:116-121` documents a signed volume delta; with unsigned
  quantities the difference wraps. The sum that divides the weighted mid-price
  is of the quantity's width and wraps too, which is why `TotalsFit` is a premise.
* The comments of `BlockTradeDetector` and `TradeSizeZScore` speak of a rolling
  window; `m_window` is never read and nothing is ever left out.
* The money flow index counts a flat trade as positive flow, where the comment
  says "above the prior trade's price".
* MACD's "fast" average has the weight 12/100 and its "slow" one 26/100, so the
  one called fast is the slower.
* A streak's first trade is the last of the one before; a flat trade is the
  first leg of a falling sweep and can count as one of its legs
  (`SweepsAreReported` says which streaks are certain to be reported).
* A price text may have anything behind its last decimal place, and a whole part
  whose product with the scale overflows wraps (`NumberIsItsText`).
* A Gemini quantity below 0.0001 is read as zero and removes its level.
* The Gemini application's socket thread outlives the window, and `main` with it.

What some properties leave open:

* `NeverOvertaken` speaks of orders that stay in their level. An amend takes the
  order out and appends it, and so passes; that it should not when only the
  quantity shrinks is `ReduceOnlyKeepsTimePriority`.
* `NoPhantomLiquidity` excuses the orders in `stale`, and trades between
  instruments; that a replaced order stays is `ReplacedOrdersLeave`.
* `BookMirrorsFeed` and `ScreenIsTheExchange` say nothing once `sane` is false:
  a feed that was ever crossed can lose an update (`SetLost`).
* `ZScoreStopsOnSmallDeviation` says when a session ends in a division by zero;
  `SizesMatchTape` is about the moments up to there.
* `Notify` names the order of the call, where the code reads `order_id` after
  forwarding it; no caller passes one that is moved from, and no property depends
  on it. `ParseFloat` refuses a text without a whole part, as
  `test/test_fixed_point.cpp` expects; the code looks at the first character of
  the empty part before it does (`fixed_point.hpp:161`).

## 4. Proofs

Everything below holds for every value of the constants that meets the named
assumptions of the module it is about (a range of prices, `MaxQuantity <
QuantityModulus`, a batch limit of at least one, a positive tick) and the
hypotheses in the table; there are no others.

| Theorem | Statement | Hypothesis |
|---|---|---|
| **`OrderBookProofs`** | | |
| `AlwaysConsistent` | `Spec => []Consistent` | |
| `TypeCorrect` | `Spec => []TypeOK` | |
| `InFlightHolds` | `Spec => []InFlight` | |
| `RegistryAlwaysMatchesLevels` | `Spec => []RegistryMatchesLevels` | |
| `BookNeverCrossed` | `Spec => []NeverCrossed` | |
| `EmptyLevelsAlwaysPass` | `Spec => []EmptyLevelsArePassing` | |
| `TradesKeepPriority` | `Spec => PriceTimePriority` | |
| `ArrivalOrderKept` | `Spec => NeverOvertaken` | |
| `TotalsAlwaysMatch` | `Spec => []TotalsMatchOrders` | |
| `DenominatorsAlwaysPositive` | `Spec => []QuoteDenominatorsPositive` | |
| `QuotesAlwaysInsideSpread` | `Spec => []QuotesInsideSpread` | `RoomForFormulas` |
| **`RefinementProofs`** | | |
| `AlwaysObserved` | `ObservedSpec => [](Consistent /\ Observed)` | |
| `CallsAlwaysDoAsAsked` | `ObservedSpec => CallsDoAsAsked` | |
| `BookImplementsEngine` | `ObservedSpec => ImplementsEngine` | |
| **`LevelUpdatesProofs`** | | |
| `SidesAlwaysAscend` | `AgreementSpec => []SidesAscending` | |
| `StrategiesAlwaysAgree` | `AgreementSpec => []StrategiesAgree` | |
| **`PipelineProofs`** | | |
| `PipelineDrivesBook` | `PipelineSpec => Spec` | |
| `PipelineAlwaysInvariant` | `PipelineSpec => []PipelineInvariant` | |
| `ScreenPlusPendingIsBook` | `PipelineSpec => []SnapshotPlusPendingIsBook` | `LevelUpdate = "Default"` |
| `ScreenNeverShowsCross` | `PipelineSpec => []ScreenNeverCrossed` | |
| `AdapterDrivesBook` | `AdapterSpec => Spec` | |
| `AdapterAlwaysConsistent` | `AdapterSpec => []AdapterConsistent` | |
| `LevelsAreOrders` | `AdapterSpec => []LevelIsItsOrder` | |
| `FeedMirrored` | `AdapterSpec => []BookMirrorsFeed` | |
| `GeminiDrivesAdapter` | `GeminiSpec => AdapterSpec` | |
| `GeminiAlwaysInvariant` | `GeminiSpec => []GeminiInvariant` | |
| `ScreenAlwaysTheExchange` | `GeminiSpec => []ScreenIsTheExchange` | `LevelUpdate = "Gemini"` |
| **`FeedProofs`** | | |
| `ReplayStaysOK` | `Spec => []ReplayOK` | |
| `LiquidityIsBacked` | `Spec => []NoPhantomLiquidity` | |
| `ExactReplayMirrors` | `Spec => []MirrorsWhileExact` | |
| `ExactReplayIsQuiet` | `Spec => []QuietWhileExact` | |
| **`ReadingProofs`** | | |
| `ReadingStaysOK` | `Spec => []ReadingOK` | |
| `ReadsAlwaysInFrame` | `Spec => []ReadsStayInFrame` | |
| `CompleteMessagesDelivered` | `Spec => []EveryCompleteMessageDelivered` | |
| `LinesDelivered` | `Spec => []EveryLineDelivered` | |
| **`SignalProofs`** | | |
| `SessionStaysOK` | `Spec => []SessionOK` | |
| `SumsAreExact` | `Spec => []AccumulatorsAreSums` | `RoomForTrades`, `RoomForMoves` |
| `RunsAreLast` | `Spec => []RunLengthIsLastRun` | |
| `SweepsAlwaysReported` | `Spec => []SweepsAreReported` | `RoomForTrades`, `MinSweepLegs > 1` |
| `VpinAlwaysBucketed` | `Spec => []VpinIsBucketed` | `RoomForTrades` |
| `AveragesAlwaysInRange` | `Spec => []AveragesStayInRange` | `RoomForTrades` |
| `OscillatorsAlwaysInRange` | `Spec => []OscillatorsInRange` | `RoomForRatios` |
| `ListenersSeeTheirTrades` | `Spec => []EachListenerSeesItsTrades` | `RoomForTrades` |

The two hypotheses on `LevelUpdate` name the policy the application is compiled
with: a screen that shows rounded sizes does not equal the book, and one that
shows exact sizes does not show what Gemini's is meant to. `RoomForFormulas`
says that the products in the formulas fit the raw type: twice the highest price
times `QuantityModulus` is at most `Half`, and so is one unit times
`QuantityModulus`. With the code's numbers (2^63, 2^32, four decimals) that
admits prices up to 107 374; beyond it `WeightedMidPrice` may wrap.
`RoomForTrades` says that the value of one trade and its quantity as a fixed-point
number are below `Half`; with the code's numbers that admits every 32-bit quantity
at prices up to 214 748. It says `Scale > 0` besides, which is true of a power of
ten, because the provers know nothing of powers. `RoomForRatios` asks for room for
`Scale` times those, which a ratio divides, and for 100 as a fixed-point number;
`RoomForMoves` for the relative move between two prices, times a quantity, which
the volume-price trend adds. None of them bounds a session: a sum of 64-bit values that overflows is undefined
behaviour in the code, and the model, and so the proofs, take it as exact. A sweep of
one leg (`MinSweepLegs = 1`; the code's default is 3) is no run of moves at all: a
flat trade is one, and the property is not about it.

**The book.** None of the properties is inductive alone: that a cancelled
order's level is found needs the registry invariant; that a fill never takes
more than the order has, and that the loop variable points at a level that
still exists, needs to know where the call is; that an amend does not cross the
book needs the fact that nothing is left to match when it reinserts.
`Consistent` is the conjunction that is inductive: `TypeOK`, `InFlight` (which
calls can be at which place, where the caller's own order is, that the filled
order is a live one of the other side, that `matchPrice`'s iterator is at the
first level while anything is left, and that nothing is left to match once an
amend removes its order), `RegistryMatchesLevels`, `EmptyLevelsArePassing` and
`NeverCrossed`. The proof has one lemma per action and conjunct group, over
lemmas about appending to and removing from a queue without repetitions
(`AppendQueue`, `UnlinkedQueue`) and about the first element of a side
(`FirstOfProperties`). The two action properties follow from `Consistent` in
the state before the step.

**The totals.** `TotalsMatchOrders` sums over a queue. The library's induction
theorems take an operator, which the provers cannot instantiate, but induction
over a *set* of naturals is first-order: the set of lengths for which a law
holds contains 0 and every successor (`NaturalsByInduction`). Sums and folds get
their laws this way: what one more element adds, what leaving one out takes
away, and that a sum depends on nothing else.

**The refinement.** The engine's list of a side is the queues of its levels
joined, best first (`Joined`). Three layers lead from there to the steps.

1. One list. `Progress` describes a match under way on a list `c`: `n` orders
   are filled, the next one has traded `part`, `left` is to come. What is then on
   the book is `Eaten(c, n, part)` and on the tape `Eating(c, n, part)`. The next
   fill makes progress (`ProgressFills`, `ProgressEnds`), and a match that
   has nothing left, or nothing within its limit, has come to the outcome of the
   rules (`ProgressIsOutcome`).
2. Joined lists. `FlattenSeq` is known to the provers only by its fold, so its
   law, one list after the other, is a natural induction over partial joins
   (`FlattenJoins`). `JoinedSplit` says that a side's list is what is ahead of a
   level, the level, and what is behind it, and that a change of one queue
   changes the middle only. From this: an order that leaves or joins a queue
   leaves or joins the list at the place the rules name (`JoinedRemoved`,
   `JoinedAppended`), and a trade with the first order of the best level is one
   with the first of the list (`FirstPartly`, `FirstFilled`).
3. Steps. `Observed` relates the running call to the book before it: during the
   match, the other side and the tape are some progress on the other side's list
   without the caller's order, and the own side is as it was (or, after a
   replace's `cancel`, without that order); an amend removes its order when all
   trades are done; at the last event the lists and the tape are the outcome.
   There is one lemma per action. At a return `Observed` is the step of the
   engine (`ReturnDoesAsAsked`, `EraseDoesAsAsked`); every other step leaves
   what the caller sees.

`Consistent` is needed throughout: that queues have no repetitions and link
live orders of their price, that the fill is at the best level, and that
nothing is left to match when an amend reinserts.

**Formulas.** `QuoteDenominatorsPositive` needs that one of the two best levels
always has orders: an emptied level is only seen on the side being matched.
`QuotesInsideSpread` follows from that, `NeverCrossed`, `TotalsMatchOrders` and
bounds of `Mul`, `Div` and integer division (`MidInside`, `WeightedInside`,
`MicroNearWeighted`, `ImbalanceInside`). The attempt corrected the property:
with prices one raw unit apart the mid-price is cut off to the bid itself, and
a slight imbalance to zero, neither of which a run with whole-unit prices shows.

**Batches.** `LastShows` says what a batch comes to whatever the strategy: at
every side and price the screen ends with the last event for it, or as it was.
It is proved for `FullySequential` by folding, and that taking one side at a
time, or only the last event of each price, keeps the last events gives the
agreement. An ascending list of levels is determined by what it shows per price
(`LevelsByPrice`), so screens that show the same are equal.

**The screen.** `PipelineInvariant` speaks of `View`, the snapshot with
everything pending applied to it. `ViewMirrorsBook` says that the view shows the
total of every level, except the one being matched, whose event is still to come.
That a frame leaves the view alone is the agreement of the strategies together
with the law that two batches in turn are their concatenation (`TwoBatches`);
that a book step moves the view as it moves the totals is `StepsTellTotals`.
`ScreenNeverCrossed` is not a property of the view alone: a frame can stop
anywhere in the events of a call, so `PartsUncrossed` says it of the snapshot
with every prefix of what is pending.

**The adapter and Gemini.** Every step of `L2Adapter` is a step of `OrderBook`
and every step of `GeminiPipeline` one of `L2Adapter`; what is proved of the
smaller module is inherited. `AdapterConsistent` adds that every order is alone
on the level it is named after, that totals are the orders', and, while the feed
is never crossed, that nothing ever matches and only the level being updated may
differ from the feed. `ScreenAlwaysTheExchange` puts the two halves together.

**The feeds.** The three properties of `FeedReplay` hold together or not at all,
and need more: `ReplayOK` adds `BooksOK`, that every book is two sorted lists of
orders with quantities and with ids of their own; `IdsGivenOnce`, that no two
orders of an exchange, there or gone, share an id; and `FollowedQuietly`, that a
market followed so far is not crossed.

* That a reduce, a modify or a delete hits the order the exchange means, and no
  other of the shared book, needs `IdsGivenOnce`, and so does that an order which
  left unnoticed stays `stale` as it was.
* That a NASDAQ replace is refused, with the order it should have replaced left
  behind, needs that its id is new: no order of the book has it.
* That an arrival trades with nothing needs `FollowedQuietly` before and after
  the message; `MirrorsWhileExact` turns it into a statement about the book.
* Where the replay does trade on its own, or a client trades, what is left of an
  order is a part of one that was there (`StayIsList`, `ExecutedIs`), and what
  rests is part of the one that arrived.

The proof goes from one list (where an arriving price comes, `ReachedSplits`;
what a match leaves; insertion and removal) to a book (`NewOrderIs`, `AmendIs`,
`CancelIs`: the outcome of each call as a set of orders) and to the messages,
with one lemma each. TLC checked `ReplayOK` on the instance of `feeds` first.
That the calls of `MatchingRules` are what the order book does is
`BookImplementsEngine`.

**The reading.** The two delivery properties speak of the end of the file; what
carries them there is `ReadingOK`. `Placed` bounds the offset and the furthest byte
read by what is mapped. `FramesRead` says that some number of frames is behind the
offset, that those of them which `Accepts` are listed and the others counted, and
that the offset is at the end of the last one, or at the end of a file that is cut
inside the next. `LinesRead` says that the lines which begin before the offset are
listed and that the next one begins at it. That a frame is found at its offset
needs that the ends of frames ascend (`FrameEndsAscend`, by folding); that
`FindNext` returns a line needs that the characters up to the first terminator
are the longest run without one (`LineRuns`), and that the next beginning is
behind it, whether the terminator has one character or two (`NextLineBegins`).
How a list of numbered things grows, or skips one, is `ListsAppend`.

**The signals.** What a signal keeps is said of the sequence of trades it has
processed (`RunFacts`, `SumFacts`, `SweepFacts`, `OscillatorFacts` and so on); a
lemma for each signal says that one more trade keeps it, and `SessionSteps` that a
step of the session is one more trade or none.

* The sums follow from what a fold over a set does when the set grows
  (`SumGrows`). That the average price lies between the lowest and the highest is
  proved on products (`AverageInside`), before the division cuts anything off.
* The volume-price trend divides by the last price and cuts towards zero: a fall
  subtracts what the rise of the same size adds (`RelativeMove`), so its sum is one
  of signed, cut moves.
* The two products of an exponential average round towards zero, so it may lose a
  unit of the last place at each of n trades; the property says `x[i] - n`, which
  is what the induction gives and TLC confirms.
* The run length is the greatest of the numbers k for which the last k moves are
  the same: a flat tick leaves only 0, a turn only 0 and 1.
* A sweep needs to know where its streak began: `IsStreak` says that the trades
  from j on move its way, all but perhaps the first, and that the first does not go
  on with a move before it. Hence a run that ends now, its first trade included, is
  part of the streak (`StreakHolds`), and a streak too short hides none.
* Money flow and relative strength stay in their range because both averages are
  of numbers that are not negative, and because the width holds what is divided;
  VPIN because a bucket never holds more than its size and no imbalance is above
  one (`VpinOK`).
* That VPIN cuts the session into equal buckets, wherever trades begin and end, is
  said lot by lot: the lots of all trades in a row are signed, bought or sold
  (`SignedLots`), and after the first n of them the signal has some number f of
  full buckets, the lots behind them in the open one, and the imbalances of the
  last of the full (`VpinAt`). One pass of the loop moves n forward by what fits
  (`PassIs`), closing the bucket when that fills it (`CloseIs`), until no lot of
  the trade is left (`PassesFill`). That the fixed-point divisions give the
  quotients of lots is that the scale cancels (`ImbalanceIs`, `MeanIs`); f is the
  number of lots divided by the size of a bucket because it fits that often
  (`FloorIs`).
* An object that listens has seen, for each of its registrations, the trades since
  (`Knows`). One trade tells the listeners one after the other; the lemma on that
  loop says what an object knows when the first k of them have been told.

Only model-checked:

* `CallsReturn`, `ScreenConverges`, `ReadingEnds`: liveness under fairness;
* the value of a number or a price text and the fields of a CSV line
  (`NumberIsItsText`, `PriceParsesBack`, `LinesBecomeTheirMessage`): what the
  recursive definitions of `TextFields` compute is induction over data;
* of the signals, `SizesMatchTape` and `ZScoreStopsOnSmallDeviation`: the rounding
  of a one-pass variance, and so which sizes stop the program, depends on the
  width, the decimals and the length of the session; the bounds stated hold on the
  instance.

## 5. Plan

Done, in this order: the order book, its abstract specification, refinement and
proofs; the path to the screen; the L2 adapter; feed dispatch; framing of the
files; the fields of a CSV line and number conversion; fixed point, formulas and
signals; the Gemini application from message to screen; the proofs of section 4.

Left: several tickers on one event queue (`bloomberg.cpp:59`), and the shutdown of
the applications (`gemini_gui.cpp:56`).

## 6. Not modelled

* Rendering, formatting and the ImGui/OpenGL set-up (`src/ui/dashboard.cpp`,
  `root.cpp`, `ticker_notebook.cpp`, `src/render.hpp`): presentation only.
* The websocket and memory-mapping wrappers: pure I/O around external libraries.
* `moodycamel::ReaderWriterQueue` itself: external code, used as a FIFO with one
  producer and one consumer; allocation failure in `enqueue` is asserted away by
  the code and left out here.
* `getTop*`: a read of the first levels, formatted by the printing applications.
  `getBest*` is `Best` of `TopOfBook`.
* The parsing of Gemini's JSON: an external library's; `OnChange` takes its result.
