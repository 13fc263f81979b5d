-------------------------- MODULE MCBacktestEngine --------------------------
(* A small instance of BacktestEngine for TLC. *)
EXTENDS BacktestEngine

\* One candle below the price of every request, one that spans them all.
MCCandles == {[low |-> 1, high |-> 1, close |-> 1], [low |-> 1, high |-> 4, close |-> 3]}
MCRequests ==
  {[type |-> "limit", side |-> "buy", price |-> 2],
   [type |-> "stop_loss", side |-> "sell", price |-> 2],
   [type |-> "limit", side |-> "sell", price |-> 3],
   [type |-> "market", side |-> "buy", price |-> 0]}
=============================================================================
