------------------------------ MODULE MCTrade -------------------------------
(* A small instance of Trade for TLC. *)
EXTENDS Trade

MCPrices == {8, 16}
MCAccounts == {[balance |-> 100, position |-> 0], [balance |-> 0, position |-> 8]}
MCRsiPrice == <<8>>
=============================================================================
