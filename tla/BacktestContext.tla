-------------------------- MODULE BacktestContext ---------------------------
(***************************************************************************)
(* The backtest of backtest/: BacktestContext::run replays the candles of  *)
(* a dataset; for each it lets update_orders execute the open orders the   *)
(* candle reaches and then calls the strategy's update.  Everything runs   *)
(* on one thread, but the strategy's callbacks run in the middle of        *)
(* update_orders' loop and place and cancel orders in the map it walks.    *)
(*                                                                         *)
(* This module is the context and its orders with any strategy at all:     *)
(* while the strategy has control it makes any broker calls.  GridBacktest *)
(* puts GridStrategy in its place.                                         *)
(*                                                                         *)
(* Prices and amounts are integers in the smallest unit; commission is in  *)
(* per mille and what is left after it rounds down.                        *)
(***************************************************************************)
EXTENDS Integers, FiniteSetsExt, Functions

CONSTANTS
  Candles,          \* the candles a dataset may hold: low, high, close price
  MaxCandles,       \* bound: length of the longest dataset
  MaxOrders,        \* bound: orders placed in a run
  Quantities,       \* what an arbitrary strategy asks for
  Prices,           \* and at what limit
  InitialBalance, InitialPosition,
  CommissionPerMille

ASSUME ContextAssumption ==
  /\ Candles \subseteq [low : Nat \ {0}, high : Nat, close : Nat]
  /\ \A c \in Candles : c.low <= c.close /\ c.close <= c.high
  /\ MaxCandles \in Nat /\ MaxOrders \in Nat
  /\ Quantities \subseteq Nat /\ Prices \subseteq Nat
  /\ InitialBalance \in Nat /\ InitialPosition \in Nat
  /\ CommissionPerMille \in 0..1000

VARIABLES
  balance, position,  \* account_
  orders,             \* orders_: a function from index to order
  last_order_index,   \* last_order_index_
  phase,              \* where the single thread is
  candle,             \* the candle being replayed
  time,               \* how many candles have been read
  iterator,           \* update_orders: the key iterator points at, End at end()
  last_index          \* update_orders: last_order_index_ when the pass began

contextVars == <<balance, position, orders, last_order_index, phase, candle,
                 time, iterator, last_index>>
account == <<balance, position>>

\* "next" is the head of run's loop, "orders" update_orders' loop, "filled" and
\* "update" the two callbacks of the strategy, "done" the end of run.
Phases == {"next", "orders", "filled", "update", "done"}

End == -1

\* One of the four classes of order/; placed is history, the candle count at
\* which the order was placed.
Order == [side : {"buy", "sell"}, type : {"limit", "market"},
          quantity : Nat, price : Int, placed : Nat]

\* The first key of orders_ after i, in the key order of std::map.
NextKey(keys, i) ==
  LET after == {k \in keys : k > i} IN IF after = {} THEN End ELSE Min(after)

\* orders_.emplace keeps the element that is there.
OrdersWith(key, o) ==
  [k \in DOMAIN orders \cup {key} |-> IF k \in DOMAIN orders THEN orders[k] ELSE o]

\* orders_.erase
\* Mutant: the order stays in the map.
OrdersWithNothingErased(key) == orders
OrdersWithout(key) == Restrict(orders, DOMAIN orders \ {key})

ContextInit ==
  /\ balance = InitialBalance /\ position = InitialPosition
  /\ orders = <<>>
  /\ last_order_index = 0
  /\ phase = "next"
  /\ candle \in Candles
  /\ time = 0
  /\ iterator = End
  /\ last_index = 0

-----------------------------------------------------------------------------
(* Execution of one order by one candle *)

ExecutionPrice(o) == IF o.type = "market" THEN candle.close ELSE o.price

\* The early returns of the order classes' update.
Reached(o) ==
  \/ o.type = "market"
  \/ o.side = "buy" /\ o.price >= candle.low
  \/ o.side = "sell" /\ o.price <= candle.high

\* Mutant: an order is executed whatever the account holds.
AlwaysAffordable(o) == TRUE

\* The early returns of execute_buy_order and execute_sell_order.
Affordable(o) ==
  IF o.side = "buy" THEN balance >= o.quantity * ExecutionPrice(o)
                    ELSE position >= o.quantity

Executes(o) == Reached(o) /\ Affordable(o)

\* Mutant: 1 + commission_.
CommissionAdded(x) == (x * (1000 + CommissionPerMille)) \div 1000
AfterCommission(x) == (x * (1000 - CommissionPerMille)) \div 1000

Execute(o) ==
  LET total == o.quantity * ExecutionPrice(o)
  IN  IF o.side = "buy"
      THEN /\ balance' = balance - total
           /\ position' = position + AfterCommission(o.quantity)
      ELSE /\ balance' = balance + AfterCommission(total)
           /\ position' = position - o.quantity

-----------------------------------------------------------------------------
(* The run loop and update_orders *)

NextCandle ==
  /\ phase = "next" /\ time < MaxCandles
  /\ candle' \in Candles
  /\ time' = time + 1
  /\ phase' = "orders"
  /\ iterator' = NextKey(DOMAIN orders, End)
  /\ last_index' = last_order_index
  /\ UNCHANGED <<account, orders, last_order_index>>

EndOfData ==
  /\ phase = "next"
  /\ phase' = "done"
  /\ UNCHANGED <<account, orders, last_order_index, candle, time, iterator, last_index>>

\* The loop's condition.
\* Mutant: the bound last_index is forgotten.
InPassUnbounded == iterator # End
InPass == iterator # End /\ iterator < last_index

SkipOrder ==
  /\ phase = "orders" /\ InPass
  /\ ~Executes(orders[iterator])
  /\ iterator' = NextKey(DOMAIN orders, iterator)
  /\ UNCHANGED <<account, orders, last_order_index, phase, candle, time, last_index>>

\* The order executes and the strategy gets control in on_order_filled.
FillOrder ==
  /\ phase = "orders" /\ InPass
  /\ Executes(orders[iterator])
  /\ Execute(orders[iterator])
  /\ phase' = "filled"
  /\ UNCHANGED <<orders, last_order_index, candle, time, iterator, last_index>>

\* on_order_filled has returned: iterator = orders_.erase(iterator).
EraseFilled ==
  /\ phase = "filled"
  /\ phase' = "orders"
  /\ iterator' = NextKey(DOMAIN orders, iterator)
  /\ orders' = OrdersWithout(iterator)
  /\ UNCHANGED <<account, last_order_index, candle, time, last_index>>

\* The pass is over and the strategy gets control in update.
EndPass ==
  /\ phase = "orders" /\ ~InPass
  /\ phase' = "update"
  /\ UNCHANGED <<account, orders, last_order_index, candle, time, iterator, last_index>>

EndUpdate ==
  /\ phase = "update"
  /\ phase' = "next"
  /\ UNCHANGED <<account, orders, last_order_index, candle, time, iterator, last_index>>

-----------------------------------------------------------------------------
(* The broker calls, made while the strategy has control *)

StrategyRuns == phase \in {"filled", "update"}

\* int index = last_order_index_++
\* Mutant: ++last_order_index_.
IncrementedIndex == last_order_index + 1
NewIndex == last_order_index

\* limit_buy_order, limit_sell_order, market_buy_order, market_sell_order
AddOrder(side, type, quantity, price) ==
  /\ StrategyRuns /\ last_order_index < MaxOrders
  /\ orders' = OrdersWith(NewIndex,
       [side |-> side, type |-> type, quantity |-> quantity, price |-> price,
        placed |-> time])
  /\ last_order_index' = last_order_index + 1
  /\ UNCHANGED <<account, phase, candle, time, iterator, last_index>>

\* erase(key) of a key that is not there does nothing.  A strategy that cancels
\* the order it is being told of would leave update_orders with a dangling
\* iterator; that no call does so is the caller's duty here, and GridBacktest's
\* invariant IteratorValid.
CancelOrder(index) ==
  /\ StrategyRuns
  /\ orders' = OrdersWithout(index)
  /\ UNCHANGED <<account, last_order_index, phase, candle, time, iterator, last_index>>

-----------------------------------------------------------------------------
(* The context with an arbitrary strategy *)

AnyStrategy ==
  \/ \E side \in {"buy", "sell"}, q \in Quantities :
       \/ AddOrder(side, "market", q, 0)
       \/ \E p \in Prices : AddOrder(side, "limit", q, p)
  \/ \E i \in DOMAIN orders :
       /\ phase = "filled" => i # iterator
       /\ CancelOrder(i)

Engine == NextCandle \/ SkipOrder \/ FillOrder \/ EraseFilled \/ EndPass \/ EndUpdate

\* run has returned.
Returned == phase = "done" /\ UNCHANGED contextVars

Next == Engine \/ EndOfData \/ AnyStrategy \/ Returned

Spec == ContextInit /\ [][Next]_contextVars

-----------------------------------------------------------------------------
(* Properties *)

ContextTypeOK ==
  /\ balance \in Int /\ position \in Int
  /\ last_order_index \in Nat
  /\ DOMAIN orders \subseteq 0..(last_order_index - 1)
  /\ \A i \in DOMAIN orders : orders[i] \in Order
  /\ phase \in Phases
  /\ candle \in Candles
  /\ time \in 0..MaxCandles
  /\ iterator \in Nat \cup {End}
  /\ last_index \in 0..last_order_index

\* The account is never overdrawn in either asset, whatever orders a strategy
\* leaves open: funds are checked when an order executes, not when it is placed
\* (execute_buy_order, execute_sell_order).
Solvent == balance >= 0 /\ position >= 0

\* No look-ahead: a candle executes only orders that were open before it was
\* read, however the strategy reacts to the fills of that very candle
\* (the last_index bound of update_orders).
NoLookAhead ==
  [][phase = "orders" /\ phase' = "filled" => orders[iterator].placed < time]_contextVars

\* An execution at price p never makes the account worth more at p: the
\* commission is taken out of what is received, on both sides.
FillCreatesNoValue ==
  [][phase = "orders" /\ phase' = "filled" =>
       LET p == ExecutionPrice(orders[iterator])
       IN  balance' + position' * p <= balance + position * p]_contextVars

\* The context keeps the promises of the IBroker interface.
Contract == INSTANCE BrokerContract WITH
  NoReport <- End, next_index <- last_order_index, open <- DOMAIN orders,
  reporting <- IF phase = "filled" THEN iterator ELSE End
ImplementsContract == Contract!Spec
=============================================================================
