--------------------------- MODULE MCStrategy001 ----------------------------
(* A small instance of Strategy001 for TLC. *)
EXTENDS Strategy001

\* A candle that enters only, one that enters and stops, one that enters and
\* takes the profit, one that spans all of it, and one that reaches nothing.
MCCandles ==
  {[low |-> 3, high |-> 3, close |-> 3], [low |-> 2, high |-> 3, close |-> 2],
   [low |-> 3, high |-> 5, close |-> 4], [low |-> 1, high |-> 6, close |-> 4],
   [low |-> 6, high |-> 6, close |-> 6]}
MCRequests == {}
=============================================================================
