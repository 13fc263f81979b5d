--------------------------- MODULE BrokerContract ---------------------------
(***************************************************************************)
(* What a strategy may rely on when it trades through the IBroker          *)
(* interface (strategy/broker.h) and is told of fills through              *)
(* IStrategy::on_order_filled (strategy/strategy.h): an index is handed    *)
(* out once, an order is reported filled only while it is open, one report *)
(* at a time, and after its report it is gone.                             *)
(***************************************************************************)
EXTENDS Integers

CONSTANT NoReport  \* no on_order_filled is running

VARIABLES
  next_index,  \* the index the next order will get
  open,        \* indices of the open orders
  reporting    \* the order on_order_filled is running for, or NoReport

vars == <<next_index, open, reporting>>

Init == next_index = 0 /\ open = {} /\ reporting = NoReport

Place ==
  /\ open' = open \cup {next_index}
  /\ next_index' = next_index + 1
  /\ UNCHANGED reporting

Cancel(i) ==
  /\ i \in open /\ i # reporting
  /\ open' = open \ {i}
  /\ UNCHANGED <<next_index, reporting>>

Report(i) ==
  /\ i \in open /\ reporting = NoReport
  /\ reporting' = i
  /\ UNCHANGED <<next_index, open>>

EndReport ==
  /\ reporting # NoReport
  /\ open' = open \ {reporting}
  /\ reporting' = NoReport
  /\ UNCHANGED next_index

Next ==
  \/ Place
  \/ \E i \in open : Cancel(i) \/ Report(i)
  \/ EndReport

Spec == Init /\ [][Next]_vars
=============================================================================
