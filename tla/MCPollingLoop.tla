--------------------------- MODULE MCPollingLoop ----------------------------
(* A small instance of PollingLoop for TLC. *)
EXTENDS PollingLoop
=============================================================================
