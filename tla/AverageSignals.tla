--------------------------- MODULE AverageSignals ---------------------------
(***************************************************************************)
(* The signals of src/signals that keep exponential averages.  "Fast" and  *)
(* "slow" are the source's names; the weights are its defaults.            *)
(***************************************************************************)
EXTENDS TickSignals

\* Price{n} / Price{d}.
Weight(n, d) == Div(FromInt(n), FromInt(d))

\* Mutant: the first value does not start the average.
EmaFromZero(alpha, prev, x) ==
    Some(Add(Mul(Sub(One, alpha), ValueOr(prev, 0)), Mul(alpha, x)))

\* (one - alpha) * prev.value_or(x) + alpha * x.
Ema(alpha, prev, x) ==
    Some(Add(Mul(Sub(One, alpha), ValueOr(prev, x)), Mul(alpha, x)))

Alpha == Weight(5, 100)

-----------------------------------------------------------------------------
(* Averages of prices and sizes.                                           *)

EmaSignalInit == [price |-> None, pv |-> None, v |-> None]
EmaSignal(s, e) ==
    [price |-> Ema(Alpha, s.price, e.price),
     pv    |-> Ema(Alpha, s.pv, Notional(e)),
     v     |-> Ema(Alpha, s.v, Qty(e))]

\* getEmaVwap.
EmaVwap(s) ==
    IF Has(s.v) /\ Value(s.v) > 0
    THEN Some(Div(ValueOr(s.pv, 0), Value(s.v))) ELSE None

MacdInit == [fast |-> None, slow |-> None, line |-> None]

\* getMacd.
MacdOf(s) ==
    IF Has(s.fast) /\ Has(s.slow)
    THEN Some(Sub(Value(s.fast), Value(s.slow))) ELSE None

MacdSignal(s, e) ==
    LET t == [s EXCEPT !.fast = Ema(Weight(12, 100), @, e.price),
                       !.slow = Ema(Weight(26, 100), @, e.price)]
    IN  [t EXCEPT !.line = Ema(Weight(9, 100), @, Value(MacdOf(t)))]

BuySellLotRatioInit == [last |-> None, buy |-> None, sell |-> None]
BuySellLotRatio(s, e) ==
    LET buys == IsBuy(s.last, e)
    IN  [last |-> Some(e.price),
         buy  |-> Ema(Alpha, s.buy, IF buys THEN Qty(e) ELSE 0),
         sell |-> Ema(Alpha, s.sell, IF buys THEN 0 ELSE Qty(e))]

\* getBuySellRatio.
BuySellRatio(s) ==
    IF Has(s.sell) /\ Value(s.sell) > 0
    THEN Some(Div(ValueOr(s.buy, 0), Value(s.sell))) ELSE None

TradeSizeDepthRatioInit == [proxy |-> None, ratio |-> None]
TradeSizeDepthRatio(s, e) ==
    LET prior == ValueOr(s.proxy, Qty(e))
    IN  [proxy |-> Ema(Alpha, Some(prior), Qty(e)),
         ratio |-> IF prior > 0 THEN Some(Div(Qty(e), prior)) ELSE s.ratio]

-----------------------------------------------------------------------------
(* Averages of moves.                                                      *)

\* 100 - 100 / (1 + up / down).
Strength(up, down) ==
    Sub(FromInt(100), Div(FromInt(100), Add(One, Div(up, down))))

RsiInit == [prev |-> None, gain |-> None, loss |-> None]

\* The averages start from zero, not from the first move.
RsiSignal(s, e) ==
    LET delta == Sub(e.price, Value(s.prev))
        alpha == Weight(1, 14)
    IN  [prev |-> Some(e.price),
         gain |-> IF ~ Has(s.prev) THEN s.gain
                  ELSE Ema(alpha, Some(ValueOr(s.gain, 0)),
                           IF delta > 0 THEN delta ELSE 0),
         loss |-> IF ~ Has(s.prev) THEN s.loss
                  ELSE Ema(alpha, Some(ValueOr(s.loss, 0)),
                           IF delta < 0 THEN Neg(delta) ELSE 0)]

\* getRsi.
Rsi(s) ==
    IF ~ Has(s.gain) \/ ~ Has(s.loss) THEN None
    ELSE IF Value(s.loss) = 0 THEN Some(FromInt(100))
    ELSE Some(Strength(Value(s.gain), Value(s.loss)))

MoneyFlowInit == [last |-> None, up |-> None, down |-> None, mfi |-> None]
MoneyFlowIndex(s, e) ==
    LET buys == IsBuy(s.last, e)
        up == Ema(Alpha, s.up, IF buys THEN Notional(e) ELSE 0)
        down == Ema(Alpha, s.down, IF buys THEN 0 ELSE Notional(e))
    IN  [last |-> Some(e.price), up |-> up, down |-> down,
         mfi  |-> Some(IF Value(down) > 0 THEN Strength(Value(up), Value(down))
                       ELSE IF Value(up) > 0 THEN FromInt(100)
                       ELSE FromInt(50))]

ChaikinInit ==
    [last |-> None, line |-> 0, fast |-> None, slow |-> None, osc |-> None]
ChaikinOscillator(s, e) ==
    LET line == ByTick(s.line, s.last, e, Notional(e))
        fast == Ema(Weight(2, 10), s.fast, line)
        slow == Ema(Weight(2, 28), s.slow, line)
    IN  IF ~ Has(s.last) THEN [s EXCEPT !.last = Some(e.price)]
        ELSE [last |-> Some(e.price), line |-> line, fast |-> fast,
              slow |-> slow, osc |-> Some(Sub(Value(fast), Value(slow)))]

EaseOfMovementInit == [last |-> None, eom |-> None]
EaseOfMovement(s, e) ==
    [last |-> Some(e.price),
     eom  |-> IF Has(s.last) /\ Qty(e) > 0
              THEN Ema(Alpha, s.eom, Div(Sub(e.price, Value(s.last)), Qty(e)))
              ELSE s.eom]

VolumeDriftInit == [last |-> None, drift |-> None]

\* The sign times the distance of the move times the quantity; the distance
\* of a fall is Neg's.
AggressiveVolumeDrift(s, e) ==
    LET delta == Sub(e.price, Value(s.last))
        sign == IF delta >= 0 THEN One ELSE FromInt(-1)
        distance == IF delta < 0 THEN Neg(delta) ELSE delta
    IN  [last  |-> Some(e.price),
         drift |-> IF Has(s.last)
                   THEN Ema(Alpha, s.drift, Mul(Mul(sign, distance), Qty(e)))
                   ELSE s.drift]

=============================================================================
