----------------------------- MODULE Indicators ------------------------------
(***************************************************************************)
(* The indicators, which keep a bounded summary of the candles they have   *)
(* seen: Range (indicator/volatility/range.h) in two ring buffers,         *)
(* RelativeStrengthIndex (indicator/momentum/rsi.h) in a ring with two     *)
(* exponential averages (average/ema_algo.h) per hour of the day,          *)
(* SimpleMovingAverageAlgo (average/sma_algo.h) and the index of           *)
(* grid_strategy.cc (RsiWindow) in deques with running sums.  Range and    *)
(* momentum's index are held by an IndicatorContext (indicator.h), which   *)
(* tells by max_period how many candles they have to be given first.       *)
(* "seen" is history, and what an indicator answers is compared with what  *)
(* the candles seen say.                                                   *)
(*                                                                         *)
(* Prices are integers and an exponential average is an exact fraction.    *)
(***************************************************************************)
EXTENDS RsiWindow, FiniteSetsExt, Functions

CONSTANTS
  Candles,     \* candles: high, low, close price
  RingSize,    \* Range: number of candles it looks back
  CycleSize,   \* kCycleSize, 24 in the code
  RsiPeriod,   \* period_ of momentum's index
  MaxCandles   \* bound: candles seen

ASSUME IndicatorsAssumption ==
  /\ Candles \subseteq [high : Nat, low : Nat \ {0}, close : Nat]
  /\ RingSize \in Nat \ {0} /\ CycleSize \in Nat \ {0} /\ MaxCandles \in Nat
  /\ RsiPeriod \in Nat \ {0}
  /\ None \notin Int

VARIABLES
  seen,         \* history: the candles
  range,        \* high_, low_ and count_ of Range
  rsi,          \* index_ of GridStrategy
  sma,          \* prices_ and sum_ of SimpleMovingAverageAlgo
  cyclic        \* last_value_, the averages and count_ of momentum's index

vars == <<seen, range, rsi, sma, cyclic>>

\* Indices are those of the code, from 0.
Ring(n) == 0..(n - 1)

\* An average that has no value yet answers 0.
EmaEmpty == [has_value |-> FALSE, value |-> 0, over |-> 1]

\* The vectors begin full of zeros.
Init ==
  /\ seen = <<>>
  /\ range = [high |-> [i \in Ring(RingSize) |-> 0],
              low |-> [i \in Ring(RingSize) |-> 0], count |-> 0]
  /\ rsi = RsiEmpty
  /\ sma = [prices |-> <<>>, sum |-> 0]
  /\ cyclic = [last |-> [i \in Ring(CycleSize) |-> 0],
               gain |-> [i \in Ring(CycleSize) |-> EmaEmpty],
               loss |-> [i \in Ring(CycleSize) |-> EmaEmpty], count |-> 0]

-----------------------------------------------------------------------------
(* Range *)

RangeUpdate(r, c) ==
  LET index == r.count % RingSize
  IN  [high |-> [r.high EXCEPT ![index] = c.high],
       low |-> [r.low EXCEPT ![index] = c.low], count |-> r.count + 1]

\* Mutant: the comparison for the highs is that for the lows.
RangeOfLows(r) == Min(Range(r.high)) - Min(Range(r.low))
RangeValue(r) == Max(Range(r.high)) - Min(Range(r.low))

-----------------------------------------------------------------------------
(* SimpleMovingAverageAlgo *)

\* Mutant: the price that leaves the window stays in the sum.
SmaNeverSubtracts(s, price) ==
  LET prices == Append(s.prices, price)
  IN  [prices |-> IF Len(prices) > RingSize THEN Tail(prices) ELSE prices,
       sum |-> s.sum + price]
SmaUpdate(s, price) ==
  LET prices == Append(s.prices, price)
  IN  IF Len(prices) > RingSize
      THEN [prices |-> Tail(prices), sum |-> s.sum + price - Head(prices)]
      ELSE [prices |-> prices, sum |-> s.sum + price]

-----------------------------------------------------------------------------
(* ExponentialMovingAverageAlgo and RelativeStrengthIndex of momentum/rsi.h *)

\* alpha_ is 2 / (RsiPeriod + 1); the average is value / over.
EmaUpdate(e, x) ==
  IF ~e.has_value
  THEN [has_value |-> TRUE, value |-> x, over |-> 1]
  ELSE [has_value |-> TRUE, value |-> 2 * x * e.over + (RsiPeriod - 1) * e.value,
        over |-> (RsiPeriod + 1) * e.over]

\* Mutant: the first cycle is taken for one with a predecessor.
CyclicUpdatesAtOnce(r, price) ==
  LET index == r.count % CycleSize
      change == price - r.last[index]
  IN  [last |-> [r.last EXCEPT ![index] = price], count |-> r.count + 1,
       gain |-> [r.gain EXCEPT ![index] = EmaUpdate(@, Positive(change))],
       loss |-> [r.loss EXCEPT ![index] = EmaUpdate(@, Positive(-change))]]
CyclicUpdate(r, price) ==
  LET index == r.count % CycleSize
      change == price - r.last[index]
      last == [r.last EXCEPT ![index] = price]
  IN  IF r.count < CycleSize
      THEN [r EXCEPT !.last = last, !.count = @ + 1]
      ELSE [last |-> last, count |-> r.count + 1,
            gain |-> [r.gain EXCEPT ![index] = EmaUpdate(@, Positive(change))],
            loss |-> [r.loss EXCEPT ![index] = EmaUpdate(@, Positive(-change))]]

\* What value() is computed from: the hour the next candle will have.
NextHour(r) == r.count % CycleSize

-----------------------------------------------------------------------------
(* IndicatorContext, with Range and momentum's index *)

\* period() of momentum's index.
\* Mutant: the period is counted in days.
PeriodInDays == RsiPeriod
PeriodInCandles == RsiPeriod * CycleSize
MaxPeriod == Max({RingSize, PeriodInCandles})

Update(c) ==
  /\ Len(seen) < MaxCandles
  /\ seen' = Append(seen, c)
  /\ range' = RangeUpdate(range, c)
  /\ rsi' = RsiUpdate(rsi, c.close)
  /\ sma' = SmaUpdate(sma, c.close)
  /\ cyclic' = CyclicUpdate(cyclic, c.close)

\* No more candles come.
Rests == Len(seen) = MaxCandles /\ UNCHANGED vars

Next == (\E c \in Candles : Update(c)) \/ Rests

Spec == Init /\ [][Next]_vars

-----------------------------------------------------------------------------
(* Properties *)

Window(n) == {k \in DOMAIN seen : k > Len(seen) - n}
Change(k) == seen[k].close - seen[k - 1].close

\* Range answers with the highest high less the lowest low of the last RingSize
\* candles.  Until it has seen that many the zeros it was made with are looked
\* at too, and the answer is the highest high itself.
RangeIsWindow ==
  seen # <<>> =>
    RangeValue(range) =
      Max({seen[k].high : k \in Window(RingSize)}) -
      (IF Len(seen) < RingSize THEN 0 ELSE Min({seen[k].low : k \in Window(RingSize)}))

\* The running sums of both deques are the sums over the candles in the window,
\* however often it has slid.
SumsOfWindow ==
  /\ sma.sum = SumFunction([k \in Window(RingSize) |-> seen[k].close])
  /\ LET window == Window(Period) \ {1}
     IN  /\ rsi.sum_gain = SumFunction([k \in window |-> Positive(Change(k))])
         /\ rsi.sum_loss = SumFunction([k \in window |-> Positive(-Change(k))])
         /\ RsiHasValue(rsi) <=> Len(seen) > Period

Power(a, n) == LET power[i \in Nat] == IF i = 0 THEN 1 ELSE a * power[i - 1]
               IN  power[n]

\* Of m changes the first weighs (1 - alpha)^(m - 1) and the d-th
\* alpha (1 - alpha)^(m - d), here times (RsiPeriod + 1)^(m - 1).
Weight(d, m) == IF d = 1 THEN Power(RsiPeriod - 1, m - 1)
                ELSE 2 * Power(RsiPeriod - 1, m - d) * Power(RsiPeriod + 1, d - 2)

\* The change of an hour's price from one day to the next; days count from 0.
DayChange(hour, d) == seen[d * CycleSize + hour + 1].close -
                      seen[(d - 1) * CycleSize + hour + 1].close
WeighedGains(hour, m) ==
  SumFunction([d \in 1..m |-> Weight(d, m) * Positive(DayChange(hour, d))])
WeighedLosses(hour, m) ==
  SumFunction([d \in 1..m |-> Weight(d, m) * Positive(-DayChange(hour, d))])

\* The index of momentum/rsi.h answers for the hour that comes next, with the
\* exponential averages of that hour's gains and losses from one day to the next,
\* as soon as the hour has been seen on two days.
AveragesOfOneHour ==
  LET hour == Len(seen) % CycleSize
      m == (Len(seen) \div CycleSize) - 1
      gain == cyclic.gain[NextHour(cyclic)]
      loss == cyclic.loss[NextHour(cyclic)]
  IN  /\ gain.has_value <=> m >= 1
      /\ m >= 1 =>
           /\ gain = [has_value |-> TRUE, value |-> WeighedGains(hour, m),
                      over |-> Power(RsiPeriod + 1, m - 1)]
           /\ loss = [has_value |-> TRUE, value |-> WeighedLosses(hour, m),
                      over |-> Power(RsiPeriod + 1, m - 1)]

\* After max_period candles no indicator of the context answers with what it was
\* initialised with, whatever the hour: Range has replaced its zeros, and each hour
\* has an average (so period() of momentum's index, in candles, is long enough,
\* though only RsiPeriod - 1 changes of an hour are known by then).
MaxPeriodWarmsUp ==
  Len(seen) >= MaxPeriod =>
    /\ 0 \notin Range(range.low)
    /\ \A hour \in Ring(CycleSize) : cyclic.gain[hour].has_value /\ cyclic.loss[hour].has_value
=============================================================================
