------------------------- MODULE MCBacktestContext --------------------------
(* A small instance of BacktestContext for TLC. *)
EXTENDS BacktestContext

MCCandles == {[low |-> 1, high |-> 2, close |-> 1],
              [low |-> 2, high |-> 4, close |-> 4]}
MCQuantities == {10}
MCPrices == {2, 3}
=============================================================================
