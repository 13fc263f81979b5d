--------------------------- MODULE MCGridBacktest ---------------------------
(* A small instance of GridBacktest for TLC. *)
EXTENDS GridBacktest

\* One-price candles and one wide one.
MCCandles ==
  {[low |-> p, high |-> p, close |-> p] : p \in {4, 6, 8, 12, 16}} \cup
  {[low |-> 4, high |-> 16, close |-> 8]}
MCQuantities == {}
MCPrices == {}
\* The configuration of the backtest has no "rsi_price" (main.cc, StrategyConfig).
MCRsiPrice == <<>>
=============================================================================
