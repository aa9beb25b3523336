-------------------------- MODULE SignalComposite --------------------------
(***************************************************************************)
(* A book's signals fed with the trades of a session.  StaticComposite     *)
(* hands every trade to each of the signals it is made of;                 *)
(* DynamicComposite hands it to the signals that have registered, as often *)
(* as they did.  The tape is what was traded: no part of the program.      *)
(***************************************************************************)
EXTENDS AverageSignals, FiniteSets

CONSTANTS
    TradePrices,   \* prices of trades
    Lots,          \* quantities of trades
    Objects,       \* signal objects that may register
    MaxTrades,     \* bound on the tape of a static composite
    MaxListened,   \* bound on the tape of a dynamic composite
    MaxListeners   \* bound on the registrations

ASSUME CompositeAssumption ==
    /\ TradePrices \subseteq Nat \ {0}
    /\ Lots \subseteq Nat \ {0}
    /\ MaxTrades \in Nat /\ MaxListened \in Nat /\ MaxListeners \in Nat

VARIABLES
    composite,  \* "static", "no z-score" (static without it) or "dynamic"
    tape,       \* the trades so far
    signals,    \* StaticComposite: its signals
    listeners,  \* DynamicComposite::m_signals
    objects,    \* the objects that listeners point at
    since,      \* the length of the tape at each registration
    stopped     \* a division by zero has ended the program

vars == <<composite, tape, signals, listeners, objects, since, stopped>>

Trades == [price : TradePrices, quantity : Lots]

\* The members of the static composite, before any trade.
Fresh ==
    [lastTrade |-> LastTradePriceInit, tickDelta |-> TickLtpDeltaInit,
     runLength |-> TickRunLengthInit, sweep |-> FlashSweepInit,
     obv |-> OnBalanceVolumeInit, adl |-> AccumulationDistributionInit,
     vwap |-> CumulativeVwapInit, target |-> PriceTargetInit,
     cvd |-> CumulativeVolumeDeltaInit, vpt |-> VolumePriceTrendInit,
     drift |-> WeightedDriftInit, vpin |-> VpinInit, block |-> BlockTradeInit,
     zscore |-> ZScoreInit, ema |-> EmaSignalInit, macd |-> MacdInit,
     ratio |-> BuySellLotRatioInit, depth |-> TradeSizeDepthRatioInit,
     rsi |-> RsiInit, mfi |-> MoneyFlowInit, chaikin |-> ChaikinInit,
     eom |-> EaseOfMovementInit, volumeDrift |-> VolumeDriftInit]

Updated(s, e) ==
    [lastTrade |-> LastTradePrice(s.lastTrade, e),
     tickDelta |-> TickLtpDelta(s.tickDelta, e),
     runLength |-> TickRunLength(s.runLength, e),
     sweep |-> FlashSweepFootprint(s.sweep, e),
     obv |-> OnBalanceVolume(s.obv, e),
     adl |-> AccumulationDistribution(s.adl, e),
     vwap |-> CumulativeVwap(s.vwap, e),
     target |-> PriceTarget(s.target, e),
     cvd |-> CumulativeVolumeDelta(s.cvd, e),
     vpt |-> VolumePriceTrend(s.vpt, e),
     drift |-> WeightedDrift(s.drift, e),
     vpin |-> Vpin(s.vpin, e),
     block |-> BlockTradeDetector(s.block, e),
     zscore |-> IF composite = "static" THEN TradeSizeZScore(s.zscore, e)
                ELSE s.zscore,
     ema |-> EmaSignal(s.ema, e),
     macd |-> MacdSignal(s.macd, e),
     ratio |-> BuySellLotRatio(s.ratio, e),
     depth |-> TradeSizeDepthRatio(s.depth, e),
     rsi |-> RsiSignal(s.rsi, e),
     mfi |-> MoneyFlowIndex(s.mfi, e),
     chaikin |-> ChaikinOscillator(s.chaikin, e),
     eom |-> EaseOfMovement(s.eom, e),
     volumeDrift |-> AggressiveVolumeDrift(s.volumeDrift, e)]

Init ==
    /\ composite \in {"static", "no z-score", "dynamic"}
    /\ tape = <<>>
    /\ signals = Fresh
    /\ listeners = <<>>
    /\ objects = [o \in Objects |-> CumulativeVwapInit]
    /\ since = <<>>
    /\ stopped = FALSE

-----------------------------------------------------------------------------

\* StaticComposite::update of a TradeEvent.
UpdateStatic(e) ==
    /\ composite # "dynamic"
    /\ Len(tape) < MaxTrades
    /\ tape' = Append(tape, e)
    /\ IF composite = "static" /\ ZScoreStops(signals.zscore, e)
       THEN stopped' = TRUE /\ UNCHANGED signals
       ELSE signals' = Updated(signals, e) /\ UNCHANGED stopped
    /\ UNCHANGED <<composite, listeners, objects, since>>

\* addSignal, at any time and as often as the caller likes.
AddSignal(o) ==
    /\ composite = "dynamic"
    /\ Len(listeners) < MaxListeners
    /\ listeners' = Append(listeners, o)
    /\ since' = Append(since, Len(tape))
    /\ UNCHANGED <<composite, tape, signals, objects, stopped>>

\* Mutant: an object is told once, however often it has registered.
TellOnce(told, e) ==
    [o \in Objects |-> IF \E i \in DOMAIN listeners : listeners[i] = o
                       THEN CumulativeVwap(told[o], e) ELSE told[o]]

\* One listener's update with a trade: the listener's object, and the trade.
Tell(objs, call) == [objs EXCEPT ![call[1]] = CumulativeVwap(@, call[2])]

\* Each listener in the order of registration.
TellAll(told, e) ==
    FoldLeft(Tell, told, [i \in DOMAIN listeners |-> <<listeners[i], e>>])

\* DynamicComposite::update of a TradeEvent.
UpdateDynamic(e) ==
    /\ composite = "dynamic"
    /\ Len(tape) < MaxListened
    /\ tape' = Append(tape, e)
    /\ objects' = TellAll(objects, e)
    /\ UNCHANGED <<composite, signals, listeners, since, stopped>>

\* Matched and level events: no signal has an update for them.
OtherEvent == UNCHANGED vars

Stopped == stopped /\ UNCHANGED vars

Next ==
    \/ /\ ~ stopped
       /\ \/ \E e \in Trades : UpdateStatic(e) \/ UpdateDynamic(e)
          \/ \E o \in Objects : AddSignal(o)
          \/ OtherEvent
    \/ Stopped

Spec == Init /\ [][Next]_vars

-----------------------------------------------------------------------------
(* The tape as the reference.                                              *)

\* The trades that the static signals have processed.
Seen == IF composite = "dynamic" THEN <<>>
        ELSE IF stopped THEN Front(tape) ELSE tape

\* 1, -1 or 0: how trade i of the tape moved the price.
Move(i) ==
    IF i = 1 THEN 0
    ELSE IF tape[i].price > tape[i - 1].price THEN 1
    ELSE IF tape[i].price < tape[i - 1].price THEN -1
    ELSE 0

LotsOf(i) == Scale * tape[i].quantity
ValueOf(i) == tape[i].price * tape[i].quantity

\* The tick rule: what does not fall is bought.
Aggressor(i) == IF Move(i) = -1 THEN -1 ELSE 1

\* How far the price goes from p to r, relative to p and cut to the last place.
Relative(p, r) == (Magnitude(r - p) * Scale) \div p

\* The running sums are the sums of the whole tape: no trade is missed, counted
\* twice, given the wrong sign or rounded, in any of the seven signals that keep
\* one, save that each relative move of the volume-price trend is cut to the
\* last place; and the average price lies between the extremes.
AccumulatorsAreSums ==
    LET I == DOMAIN Seen
        flow == SumFunction([i \in I |-> Move(i) * ValueOf(i)])
        value == SumFunction([i \in I |-> ValueOf(i)])
        volume == SumFunction([i \in I |-> LotsOf(i)])
    IN  /\ signals.obv.obv = SumFunction([i \in I |-> Move(i) * LotsOf(i)])
        /\ signals.adl.line = flow
        /\ signals.chaikin.line = flow
        /\ I # {} =>
            LET n == Len(Seen)
                vwap == Value(Vwap(signals.vwap))
            IN  /\ signals.vwap = [value |-> Some(value), volume |-> Some(volume)]
                /\ VolumeNode(signals.target) = Some(vwap)
                /\ PriceTargetDistance(signals.target)
                        = Some(tape[n].price - vwap)
                /\ \E i, j \in I : tape[i].price <= vwap /\ vwap <= tape[j].price
                /\ signals.vpt.vpt =
                        SumFunction([i \in 2 .. n |->
                            Move(i) * (Relative(tape[i - 1].price, tape[i].price)
                                       * tape[i].quantity)])
                /\ n > 1 =>
                    /\ AdSlope(signals.adl) = Some(Move(n) * ValueOf(n))
                    /\ signals.drift.drift =
                        Some(SumFunction([i \in 2 .. n |->
                                (tape[i].price - tape[i - 1].price) * tape[i].quantity]))

\* VPIN cuts the volume of the session into buckets of equal size wherever
\* trades begin and end: it is the mean imbalance of the last full buckets, and
\* what is left over waits in the open one.
VpinIsBucketed ==
    LET lots == FlattenSeq([i \in DOMAIN Seen |->
                    [k \in 1 .. tape[i].quantity |-> Aggressor(i)]])
        full == Len(lots) \div BucketLots
        kept == {k \in 1 .. full : k > full - NumBuckets}
        bucket(k) == (k - 1) * BucketLots + 1 .. k * BucketLots
        imbalance(k) == Magnitude(SumFunctionOnSet(lots, bucket(k)))
        sum == SumFunction([k \in kept |-> (imbalance(k) * Scale) \div BucketLots])
        s == signals.vpin
    IN  /\ s.vpin = IF full = 0 THEN None ELSE Some(sum \div Cardinality(kept))
        /\ s.fill = Scale * (Len(lots) % BucketLots)
        /\ s.buy + s.sell = s.fill

\* The run length counts the moves since the last flat tick or turn, with the
\* direction as its sign.
RunLengthIsLastRun ==
    LET n == Len(Seen)
        runs == {k \in 0 .. n : \A i \in n - k + 1 .. n : Move(i) # 0 /\ Move(i) = Move(n)}
        longest == CHOOSE k \in runs : \A j \in runs : j <= k
    IN  signals.runLength.run = IF n = 0 THEN 0 ELSE Move(n) * longest

\* A run of trades i .. j of which all but perhaps the first move the same way
\* and which trade j + 1 does not go on with.
EndedRuns ==
    {r \in (DOMAIN Seen) \X (DOMAIN Seen) :
        /\ r[2] - r[1] + 1 >= MinSweepLegs
        /\ r[2] < Len(Seen)
        /\ Move(r[2]) # 0
        /\ \A i \in r[1] + 1 .. r[2] : Move(i) = Move(r[2])
        /\ Move(r[2] + 1) # Move(r[2])}

\* A sweep that is reported was one: trades that moved the same way, with
\* their volume and value.  And the last sweep of the tape is the one reported,
\* never an earlier one.
SweepsAreReported ==
    LET s == signals.sweep
        strict == {r \in EndedRuns : Move(r[1]) = Move(r[2])}
    IN  /\ strict # {} => Has(s.volume)
        /\ Has(s.volume) =>
            \E r \in EndedRuns :
                /\ s.volume = Some(SumFunction([i \in r[1] .. r[2] |-> LotsOf(i)]))
                /\ s.value = Some(SumFunction([i \in r[1] .. r[2] |-> ValueOf(i)]))
                /\ \A t \in strict : t[2] <= r[2]

Within(o, low, high) == Has(o) => low <= Value(o) /\ Value(o) <= high

\* The signals with a documented range stay in it, from their first trade on:
\* money flow and relative strength from 0 to 100, VPIN from 0 to 1, and no
\* ratio of volumes is negative.
OscillatorsInRange ==
    /\ Within(signals.mfi.mfi, 0, FromInt(100))
    /\ Within(Rsi(signals.rsi), 0, FromInt(100))
    /\ Within(signals.vpin.vpin, 0, One)
    /\ Has(BuySellRatio(signals.ratio)) => Value(BuySellRatio(signals.ratio)) >= 0
    /\ Has(signals.depth.ratio) => Value(signals.depth.ratio) >= 0

\* An average lies between the extremes of what it averages.  Its two products
\* are rounded towards zero at every trade, so it may fall below the lowest, by
\* at most one unit of the last place a trade.
AveragesStayInRange ==
    LET n == Len(Seen)
        prices == [i \in DOMAIN Seen |-> tape[i].price]
        values == [i \in DOMAIN Seen |-> ValueOf(i)]
        lots == [i \in DOMAIN Seen |-> LotsOf(i)]
        averages(o, x) ==
            Has(o) => /\ \E i \in DOMAIN Seen : Value(o) <= x[i]
                      /\ \E i \in DOMAIN Seen : x[i] - n <= Value(o)
    IN  /\ averages(signals.ema.price, prices)
        /\ averages(signals.macd.fast, prices)
        /\ averages(signals.macd.slow, prices)
        /\ averages(signals.ema.pv, values)
        /\ averages(signals.ema.v, lots)
        /\ averages(signals.depth.proxy, lots)

\* n times the sum of the squared distances from the mean, of n sizes.
Spread(sizes) ==
    LET sum == SumFunction(sizes)
    IN  Len(sizes) * SumFunction([i \in DOMAIN sizes |-> sizes[i] * sizes[i]]) - sum * sum

\* The one-pass mean and variance follow the sizes on the tape, within the
\* rounding of their divisions; a block trade is above the mean.
SizesMatchTape ==
    LET n == Len(Seen)
        sizes == [i \in DOMAIN Seen |-> tape[i].quantity]
        s == signals.block.sizes
    IN  /\ s.count = n
        /\ Magnitude(n * s.mean - SumFunction([i \in DOMAIN Seen |-> LotsOf(i)])) <= n * n
        /\ Magnitude(n * s.m2 - Scale * Spread(sizes)) <= n * n * n
        /\ signals.block.block = Some(TRUE) => LotsOf(n) > s.mean

\* The z-score ends the program on sizes that differ by little: when their
\* standard deviation is below one lot, whose whole part is the zero that it
\* divides by.  It never does on equal sizes, and a program that goes on has
\* never met such a deviation.
ZScoreStopsOnSmallDeviation ==
    composite = "static" =>
        LET small(n) ==
                LET sizes == [i \in 1 .. n |-> tape[i].quantity]
                IN  0 < Spread(sizes) /\ Spread(sizes) < n * (n - 1)
        IN  /\ \A n \in DOMAIN Seen : ~ small(n)
            /\ stopped =>
                \E i, j \in DOMAIN tape : tape[i].quantity # tape[j].quantity

\* A signal that registers with the book sees every later trade once for each
\* time it registered, and none from before.
EachListenerSeesItsTrades ==
    composite = "dynamic" =>
        \A o \in Objects :
            LET mine == {k \in DOMAIN listeners : listeners[k] = o}
                told(x) == SumFunction([k \in mine |->
                        SumFunctionOnSet(x, since[k] + 1 .. Len(tape))])
            IN  /\ ValueOr(objects[o].value, 0) = told([i \in DOMAIN tape |-> ValueOf(i)])
                /\ ValueOr(objects[o].volume, 0) = told([i \in DOMAIN tape |-> LotsOf(i)])
                /\ Has(objects[o].volume)
                        <=> \E k \in mine : since[k] < Len(tape)

\* Documentation: the cumulative volume delta is the volume bought less the
\* volume sold.
CvdIsBuysMinusSells ==
    signals.cvd.cvd = SumFunction([i \in DOMAIN Seen |-> Aggressor(i) * LotsOf(i)])

=============================================================================
