---------------------------- MODULE TickSignals ----------------------------
(***************************************************************************)
(* The signals of src/signals that follow single trades: last price, runs, *)
(* sums, buckets and size statistics.  A trade e is [price, quantity]; its *)
(* price is a FixedPoint, its quantity a whole number.  A signal is its    *)
(* struct as a record; an operator named after it is its update(event).    *)
(***************************************************************************)
EXTENDS FixedPoint, Sequences, SequencesExt

CONSTANTS
    MinSweepLegs,  \* FlashSweepFootprint::m_min_sweep_legs
    BucketLots,    \* VpinSignal::m_bucket_size, whole lots
    NumBuckets     \* VpinSignal::m_num_buckets

ASSUME TickSignalsAssumption ==
    MinSweepLegs \in Nat /\ BucketLots \in Nat \ {0} /\ NumBuckets \in Nat \ {0}

One == FromInt(1)

\* static_cast<Price>(event.quantity), and the notional value of a trade.
Qty(e) == FromInt(e.quantity)
Notional(e) == Mul(e.price, Qty(e))

\* The tick rule: without an earlier price a trade counts as a buy.
IsBuy(last, e) == ~ Has(last) \/ e.price >= Value(last)
MovedUp(last, e) == Has(last) /\ e.price > Value(last)
MovedDown(last, e) == Has(last) /\ e.price < Value(last)

\* Mutant: a flat tick counts as an up-tick.
ByTickFlatUp(sum, last, e, x) ==
    IF MovedDown(last, e) THEN Sub(sum, x)
    ELSE IF Has(last) THEN Add(sum, x)
    ELSE sum

\* x on an up-tick, less x on a down-tick.
ByTick(sum, last, e, x) ==
    IF MovedUp(last, e) THEN Add(sum, x)
    ELSE IF MovedDown(last, e) THEN Sub(sum, x)
    ELSE sum

-----------------------------------------------------------------------------
(* The last trade and the run it continues.                                *)

LastTradePriceInit == [price |-> None, quantity |-> None]
LastTradePrice(s, e) == [price |-> Some(e.price), quantity |-> Some(e.quantity)]

TickLtpDeltaInit == [prev |-> None, delta |-> None]
TickLtpDelta(s, e) ==
    [prev  |-> Some(e.price),
     delta |-> IF Has(s.prev) THEN Some(Sub(e.price, Value(s.prev))) ELSE s.delta]

TickRunLengthInit == [prev |-> None, run |-> 0]

\* Mutant: a flat tick does not end a run.
TickRunLengthOverFlat(s, e) ==
    [prev |-> Some(e.price),
     run  |-> IF MovedUp(s.prev, e) THEN (IF s.run > 0 THEN s.run + 1 ELSE 1)
              ELSE IF MovedDown(s.prev, e) THEN (IF s.run < 0 THEN s.run - 1 ELSE -1)
              ELSE s.run]

TickRunLength(s, e) ==
    [prev |-> Some(e.price),
     run  |-> IF MovedUp(s.prev, e) THEN (IF s.run > 0 THEN s.run + 1 ELSE 1)
              ELSE IF MovedDown(s.prev, e) THEN (IF s.run < 0 THEN s.run - 1 ELSE -1)
              ELSE 0]

FlashSweepInit ==
    [last |-> None, streak |-> 0, up |-> TRUE, qty |-> 0, notional |-> 0,
     volume |-> None, value |-> None]

\* Mutant: any move continues a streak.
FlashSweepContinued(s, e) == MovedUp(s.last, e) \/ MovedDown(s.last, e)

SweepContinues(s, e) ==
    IF s.up THEN MovedUp(s.last, e) ELSE MovedDown(s.last, e)

\* A trade that does not continue the streak reports it if it was long
\* enough, and is the first leg of the next one; a flat one starts a streak
\* that counts as falling.
FlashSweepFootprint(s, e) ==
    LET completed == Has(s.last) /\ s.streak >= MinSweepLegs
    IN  IF SweepContinues(s, e)
        THEN [s EXCEPT !.last = Some(e.price), !.streak = @ + 1,
                       !.qty = Add(@, Qty(e)), !.notional = Add(@, Notional(e))]
        ELSE [last |-> Some(e.price), streak |-> 1,
              up |-> IF Has(s.last) THEN MovedUp(s.last, e) ELSE s.up,
              qty |-> Qty(e), notional |-> Notional(e),
              volume |-> IF completed THEN Some(s.qty) ELSE s.volume,
              value |-> IF completed THEN Some(s.notional) ELSE s.value]

-----------------------------------------------------------------------------
(* Sums over the session.                                                  *)

OnBalanceVolumeInit == [last |-> None, obv |-> 0]
OnBalanceVolume(s, e) ==
    [last |-> Some(e.price), obv |-> ByTick(s.obv, s.last, e, Qty(e))]

AccumulationDistributionInit == [last |-> None, line |-> 0, prev |-> None]
AccumulationDistribution(s, e) ==
    [last |-> Some(e.price),
     line |-> ByTick(s.line, s.last, e, Notional(e)),
     prev |-> IF Has(s.last) THEN Some(s.line) ELSE s.prev]

\* getAdSlope.
AdSlope(s) == IF Has(s.prev) THEN Some(Sub(s.line, Value(s.prev))) ELSE None

CumulativeVwapInit == [value |-> None, volume |-> None]
CumulativeVwap(s, e) ==
    [value  |-> Some(Add(ValueOr(s.value, 0), Notional(e))),
     volume |-> Some(Add(ValueOr(s.volume, 0), Qty(e)))]

\* getCumulativeVwap.
Vwap(s) ==
    IF Has(s.volume) /\ Value(s.volume) > 0
    THEN Some(Div(ValueOr(s.value, 0), Value(s.volume))) ELSE None

PriceTargetInit == [notional |-> 0, volume |-> 0, last |-> None]
PriceTarget(s, e) ==
    [notional |-> Add(s.notional, Notional(e)),
     volume   |-> Add(s.volume, Qty(e)),
     last     |-> Some(e.price)]

\* getVolumeNode and getPriceTargetDistance.
VolumeNode(s) ==
    IF s.volume > 0 THEN Some(Div(s.notional, s.volume)) ELSE None
PriceTargetDistance(s) ==
    IF Has(VolumeNode(s)) /\ Has(s.last)
    THEN Some(Sub(Value(s.last), Value(VolumeNode(s)))) ELSE None

CumulativeVolumeDeltaInit == [last |-> None, cvd |-> 0]
CumulativeVolumeDelta(s, e) ==
    [last |-> Some(e.price),
     cvd  |-> Add(s.cvd, IF IsBuy(s.last, e) THEN Qty(e) ELSE Neg(Qty(e)))]

VolumePriceTrendInit == [last |-> None, vpt |-> 0]
VolumePriceTrend(s, e) ==
    [last |-> Some(e.price),
     vpt  |-> IF Has(s.last) /\ Value(s.last) > 0
              THEN Add(s.vpt, Mul(Qty(e), Div(Sub(e.price, Value(s.last)),
                                              Value(s.last))))
              ELSE s.vpt]

WeightedDriftInit == [prev |-> None, drift |-> None]
WeightedDrift(s, e) ==
    [prev  |-> Some(e.price),
     drift |-> IF Has(s.prev)
               THEN Some(Add(ValueOr(s.drift, 0),
                             Mul(Sub(e.price, Value(s.prev)), Qty(e))))
               ELSE s.drift]

-----------------------------------------------------------------------------
(* VPIN: volume buckets.                                                   *)

VpinInit ==
    [last |-> None, buy |-> 0, sell |-> 0, fill |-> 0,
     imbalances |-> <<>>, vpin |-> None]

BucketSize == FromInt(BucketLots)

\* Mutant: buys less sells, without the absolute value.
CloseBucketSigned(s) ==
    LET window == Append(s.imbalances, Div(Sub(s.buy, s.sell), BucketSize))
        kept == IF Len(window) > NumBuckets THEN Tail(window) ELSE window
    IN  [s EXCEPT !.buy = 0, !.sell = 0, !.fill = 0, !.imbalances = kept,
                  !.vpin = Some(Div(SumFunction(kept), FromInt(Len(kept))))]

\* A full bucket: its imbalance enters the window and the next one begins.
CloseBucket(s) ==
    LET imbalance == Div(Magnitude(s.buy - s.sell), BucketSize)
        window == Append(s.imbalances, imbalance)
        kept == IF Len(window) > NumBuckets THEN Tail(window) ELSE window
    IN  [s EXCEPT !.buy = 0, !.sell = 0, !.fill = 0, !.imbalances = kept,
                  !.vpin = Some(Div(SumFunction(kept), FromInt(Len(kept))))]

\* One pass of the loop: fill the bucket with what is left of the trade.
FillBucket(s, left, buys) ==
    LET space == BucketSize - s.fill
        filled == IF left < space THEN left ELSE space
        t == [s EXCEPT !.buy = IF buys THEN @ + filled ELSE @,
                       !.sell = IF buys THEN @ ELSE @ + filled,
                       !.fill = @ + filled]
    IN  [signal |-> IF t.fill >= BucketSize THEN CloseBucket(t) ELSE t,
         left |-> left - filled]

\* Mutant: what a full bucket leaves of a trade is dropped.
VpinOneBucket(s, e) ==
    [FillBucket(s, Qty(e), IsBuy(s.last, e)).signal
        EXCEPT !.last = Some(e.price)]

\* The body of the loop, for what is left of a trade.
FillPass(x, buys) == IF x.left > 0 THEN FillBucket(x.signal, x.left, buys) ELSE x

\* A trade fills at least one lot of a bucket per pass.
Vpin(s, e) ==
    LET passes == [lot \in 1 .. e.quantity |-> IsBuy(s.last, e)]
        done == FoldLeft(FillPass, [signal |-> s, left |-> Qty(e)], passes)
    IN  [done.signal EXCEPT !.last = Some(e.price)]

-----------------------------------------------------------------------------
(* Welford's statistics of the sizes.                                      *)

SizesInit == [count |-> 0, mean |-> 0, m2 |-> 0]

\* Mutant: the second difference is taken from the old mean.
SizesStale(s, e) ==
    LET n == s.count + 1
        delta == Sub(Qty(e), s.mean)
    IN  [count |-> n, mean |-> Add(s.mean, Div(delta, FromInt(n))),
         m2 |-> Add(s.m2, Mul(delta, delta))]

Sizes(s, e) ==
    LET n == s.count + 1
        delta == Sub(Qty(e), s.mean)
        mean == Add(s.mean, Div(delta, FromInt(n)))
    IN  [count |-> n, mean |-> mean,
         m2 |-> Add(s.m2, Mul(delta, Sub(Qty(e), mean)))]

Variance(s) == Div(s.m2, FromInt(s.count - 1))

\* Fewer than two trades, or no variance.
NoDeviation(s) == s.count < 2 \/ Variance(s) <= 0

BlockTradeInit == [sizes |-> SizesInit, block |-> None]
BlockTradeDetector(s, e) ==
    LET t == Sizes(s.sizes, e)
        threshold == Add(t.mean, Mul(FromInt(3), WholeRoot(Variance(t))))
    IN  [sizes |-> t,
         block |-> Some(~ NoDeviation(t) /\ Qty(e) > threshold)]

ZScoreInit == [sizes |-> SizesInit, z |-> None]

\* Mutant: no guard against sizes that are all equal.
ZScoreUnguarded(s, e) ==
    LET t == Sizes(s.sizes, e)
    IN  t.count >= 2 /\ WholeRoot(Variance(t)) = 0

\* The division by the deviation stops the program if that is zero.
ZScoreStops(s, e) ==
    LET t == Sizes(s.sizes, e)
    IN  ~ NoDeviation(t) /\ WholeRoot(Variance(t)) = 0

TradeSizeZScore(s, e) ==
    LET t == Sizes(s.sizes, e)
    IN  [sizes |-> t,
         z |-> IF t.count < 2 THEN None
               ELSE IF NoDeviation(t) THEN Some(0)
               ELSE Some(Div(Sub(Qty(e), t.mean), WholeRoot(Variance(t))))]

=============================================================================
