---------------------------- MODULE PollingLoop ----------------------------
(***************************************************************************)
(* The timing of TradeEngine::run (trade_engine.cc lines 26-40).  The loop *)
(* does its work and then sleeps for as long as a candle lasts, so that    *)
(* its phase against the candles drifts.  It asks for the candles that     *)
(* have opened in the last Period, both ends included, and gives the       *)
(* strategy the last of the reply without looking whether there is one.    *)
(* Trade abstracts from all this: there a poll may give any candle or end  *)
(* the process.                                                            *)
(*                                                                         *)
(* Candle k opens at k * Period.  The exchange has it at that moment or up *)
(* to Lag later (no trade yet, or clocks that differ); that the exchange   *)
(* is so is an assumption, the code says nothing of it.                    *)
(***************************************************************************)
EXTENDS Integers, FiniteSetsExt

CONSTANTS
  Period,   \* 30 minutes, of a candle and of the sleep
  MaxWork,  \* the longest that the work of a round and oversleeping take
  Lag,      \* the longest until the exchange has a candle
  MaxTime   \* bound: the clock

ASSUME PollingAssumption ==
  /\ Period \in Nat \ {0} /\ MaxWork \in 1..(Period - 1)
  /\ Lag \in 0..(Period - 1) /\ MaxTime \in Nat

VARIABLES
  clock,
  step,    \* where the loop is
  asked,   \* now, the time of the last request for candles
  wake,    \* when the sleep may end
  newest,  \* the exchange: its newest candle
  given,   \* the candle last given to the strategy
  before   \* history: the one given before, or None

loop == <<step, asked, wake, given, before>>
vars == <<loop, clock, newest>>

None == -1

Opens(k) == k * Period

\* The process is started at some moment of the second candle.
Init ==
  /\ clock \in Opens(1)..(Opens(2) - 1)
  /\ newest = 1 /\ step = "orders"
  /\ asked = clock - Period /\ wake = 0
  /\ given = None /\ before = None

-----------------------------------------------------------------------------
(* The loop *)

\* update_orders has returned.
AskCandles ==
  /\ step = "orders"
  /\ asked' = clock
  /\ step' = "klines"
  /\ UNCHANGED <<clock, wake, newest, given, before>>

\* Mutants: the window is half as long; it is twice as long.
SinceHalfAPeriod == asked - Period \div 2
SinceTwoPeriods == asked - 2 * Period
StartTime == asked - Period

Reply == {k \in 0..newest : StartTime <= Opens(k) /\ Opens(k) <= asked}

\* A request takes some time, so that it is later than when it was made.
Update ==
  /\ step = "klines" /\ clock > asked
  /\ IF Reply = {}
     THEN step' = "undefined" /\ UNCHANGED <<given, before>>
     ELSE /\ given' = Max(Reply) /\ before' = given
          /\ step' = "update"
  /\ UNCHANGED <<clock, asked, wake, newest>>

SleepFor ==
  /\ step = "update"
  /\ wake' = clock + Period
  /\ step' = "sleep"
  /\ UNCHANGED <<clock, asked, newest, given, before>>

WakeUp ==
  /\ step = "sleep" /\ clock >= wake
  /\ step' = "orders"
  /\ UNCHANGED <<clock, asked, wake, newest, given, before>>

-----------------------------------------------------------------------------
(* Time *)

CandleOpens ==
  /\ clock >= Opens(newest + 1)
  /\ newest' = newest + 1
  /\ UNCHANGED <<loop, clock>>

\* By when the loop leaves its step: from one request to the next it sleeps for
\* Period and is otherwise at work for at most MaxWork.
Deadline == asked + MaxWork + (IF step \in {"klines", "update"} THEN 0 ELSE Period)

\* Time does not pass what has to have happened by then.
Tick ==
  /\ clock < MaxTime
  /\ clock < Opens(newest + 1) + Lag
  /\ clock < Deadline
  /\ step # "undefined"
  /\ clock' = clock + 1
  /\ UNCHANGED <<loop, newest>>

Over == (clock = MaxTime \/ step = "undefined") /\ UNCHANGED vars

Next == AskCandles \/ Update \/ SleepFor \/ WakeUp \/ CandleOpens \/ Tick \/ Over

Spec == Init /\ [][Next]_vars

-----------------------------------------------------------------------------
(* Properties *)

\* The strategy is never given the same candle twice, although the exchange may be
\* late, and of the candles between two rounds at most one is passed over, although
\* the loop drifts by the time its work takes: sleep_for and the window are both
\* one candle long.
CandlesAdvance ==
  before # None => given - before \in {1, 2}

\* The reply has no candle, and candles.back() of line 37 is undefined, only if the
\* loop asked between the opening of a candle and its appearance at the exchange.
EmptyOnlyWhileLate ==
  step = "undefined" => asked % Period \in 1..(Lag - 1)
=============================================================================
