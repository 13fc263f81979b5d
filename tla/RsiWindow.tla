------------------------------ MODULE RsiWindow ------------------------------
(***************************************************************************)
(* The relative strength index that GridStrategy keeps over the last       *)
(* Period price changes (class RelativeStrengthIndex of                    *)
(* strategy/grid_strategy.cc), as operators on a record that has one field *)
(* per member variable.  Prices are integers, so the running sums are      *)
(* exact; the rounding error that double sums accumulate is not modelled.  *)
(***************************************************************************)
EXTENDS Integers, Sequences, SequencesExt

CONSTANTS
  Period,  \* period_: number of changes in the window (20 in the code)
  None     \* std::nullopt

ASSUME PeriodAssumption == Period \in Nat \ {0}

RsiEmpty == [last_price |-> None, gains |-> <<>>, losses |-> <<>>,
             sum_gain |-> 0, sum_loss |-> 0]

Positive(x) == IF x > 0 THEN x ELSE 0

\* The window slides by one change; gains_ and losses_ always move together.
RsiSlide(r, gain, loss) ==
  LET gains  == Append(r.gains, gain)
      losses == Append(r.losses, loss)
  IN  IF Len(gains) > Period
      THEN [r EXCEPT !.gains  = Tail(gains), !.losses = Tail(losses),
                     !.sum_gain = @ + gain - Head(gains),
                     !.sum_loss = @ + loss - Head(losses)]
      ELSE [r EXCEPT !.gains  = gains, !.losses = losses,
                     !.sum_gain = @ + gain, !.sum_loss = @ + loss]

RsiUpdate(r, price) ==
  IF r.last_price = None
  THEN [r EXCEPT !.last_price = price]
  ELSE RsiSlide([r EXCEPT !.last_price = price],
                Positive(price - r.last_price), Positive(r.last_price - price))

\* value() is empty until the window is full.
RsiHasValue(r) == Len(r.gains) = Period

\* value() < 20.  With rs = sum_gain / sum_loss the value 100 - 100 / (1 + rs)
\* is below 20 exactly when rs < 1/4; when sum_loss is 0 the quotient is
\* infinite or NaN and the comparison is false, as it is here.
RsiIsLow(r) == 4 * r.sum_gain < r.sum_loss

\* from_json replays the optional "rsi_price" array through update.
RsiFromJson(prices) == FoldLeft(RsiUpdate, RsiEmpty, prices)
==============================================================================
