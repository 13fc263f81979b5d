---------------------------- MODULE MCIndicators -----------------------------
(* A small instance of Indicators for TLC. *)
EXTENDS Indicators

MCCandles == {[high |-> 4, low |-> 2, close |-> 3], [high |-> 7, low |-> 4, close |-> 4],
              [high |-> 3, low |-> 1, close |-> 1]}
=============================================================================
