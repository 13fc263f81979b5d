---------------------------- MODULE GridBacktest ----------------------------
(***************************************************************************)
(* The backtest program (backtest/main.cc): BacktestContext replaying a    *)
(* dataset to GridStrategy through BacktestBroker.  Every step of the      *)
(* strategy is joined with what the context does for it; a callback returns *)
(* when the strategy has no call left to make.                             *)
(***************************************************************************)
EXTENDS BacktestContext, GridStrategy

vars == <<contextVars, strategyVars>>

Init == ContextInit /\ StrategyInit

-----------------------------------------------------------------------------
(* The context calls the strategy, and goes on when the call returns *)

ReadCandle == NextCandle /\ UNCHANGED strategyVars
PassOver == SkipOrder /\ UNCHANGED strategyVars
Fill == FillOrder /\ OnOrderFilled(iterator)
EndFilled == EraseFilled /\ todo = {} /\ UNCHANGED strategyVars
CallUpdate == EndPass /\ Update(candle.close)
UpdateReturns == EndUpdate /\ todo = {} /\ UNCHANGED strategyVars
Finish == EndOfData /\ UNCHANGED strategyVars

-----------------------------------------------------------------------------
(* The strategy calls the broker (BacktestBroker) *)

BrokerCancelBuy == CancelBuy /\ CancelOrder(buy_order.index)
BrokerCancelSell == CancelSell /\ CancelOrder(sell_order.index)
BrokerAccount ==
  /\ StrategyRuns
  /\ PlaceInitialOrders(balance, position)
  /\ UNCHANGED contextVars
BrokerLimitSell ==
  /\ AddOrder("sell", "limit", call_quantity, call_price + call_spread)
  /\ PlaceSell(last_order_index)
BrokerLimitBuy ==
  /\ AddOrder("buy", "limit", call_quantity, call_price - call_spread)
  /\ PlaceBuy(last_order_index)

Broker ==
  \/ BrokerCancelBuy \/ BrokerCancelSell \/ BrokerAccount
  \/ BrokerLimitSell \/ BrokerLimitBuy

Loop ==
  \/ ReadCandle \/ PassOver \/ Fill \/ EndFilled \/ CallUpdate \/ UpdateReturns

Done == phase = "done" /\ UNCHANGED vars

GridNext == Loop \/ Broker \/ Finish \/ Done

GridSpec == Init /\ [][GridNext]_vars
FairGridSpec == GridSpec /\ WF_vars(Loop \/ Broker)

-----------------------------------------------------------------------------
(* Properties *)

GridTypeOK == ContextTypeOK /\ StrategyTypeOK

Slots == {s \in {buy_order, sell_order} : s # None}
Tracked == {s.index : s \in Slots}
InProgress == IF phase = "filled" THEN {iterator} ELSE {}

\* The strategy and the context agree on the open orders: what the strategy
\* believes to be its bid and ask, and the order it is being told of, are
\* exactly the orders in the context's map, with their sides and prices.
BookAgrees ==
  /\ DOMAIN orders = Tracked \cup InProgress
  /\ Tracked \cap InProgress = {}
  /\ buy_order # None =>
       /\ orders[buy_order.index].side = "buy"
       /\ orders[buy_order.index].price = buy_order.price
  /\ sell_order # None =>
       /\ orders[sell_order.index].side = "sell"
       /\ orders[sell_order.index].price = sell_order.price

\* The three assertions of grid_strategy.cc: the filled price is a number (line
\* 127), and a slot is empty when an order is put in it (lines 168 and 174).
\* With them, the volume of a grid order has been assigned when it is used.
AssertionsHold ==
  /\ todo # {} => call_price # None
  /\ Due("buy") => buy_order = None /\ call_quantity # None
  /\ Due("sell") => sell_order = None /\ call_quantity # None

\* While on_order_filled runs, the order update_orders' iterator points at is in
\* the map, so that the erase after it is defined.
IteratorValid == phase = "filled" => iterator \in DOMAIN orders

\* A candle fills at most one order of the grid, even one that spans both: when
\* an order executes, the strategy has not yet reacted to a fill of this pass
\* (each fill cancels the other order and places a pair that has to wait).
OneFillPerCandle ==
  [][phase = "orders" /\ phase' = "filled" => last_order_index = last_index]_vars

\* When both orders stand, they stand two spacings of the current baseline
\* apart: no order of an earlier baseline survives a rebalance.
TwoSpacingsApart ==
  todo = {} /\ buy_order # None /\ sell_order # None =>
    sell_order.price - buy_order.price = 2 * Spacing

\* An account with more coins than money, and with one grid line or a value of
\* less than four minimum amounts.  Its gap to the target can be small while it
\* has little money, and the branch for a small gap (grid_strategy.cc lines 144
\* to 147) buys order_volume_ without a look at the balance.
MayLackFunds ==
  /\ position * call_price > balance
  /\ GridCount = 1 \/ balance + position * call_price < 4 * MinNotional

\* The one order that place_initial_orders makes, whichever branch it comes from,
\* can be paid for when it is placed, unless it is a purchase for an account that
\* MayLackFunds.
InitialOrderAffordable ==
  call_spread = 0 /\ phase = "update" =>
    /\ Due("sell") => call_quantity <= position
    /\ Due("buy") => call_quantity * call_price <= balance \/ MayLackFunds

\* The comment of grid_strategy.cc line 143: the exchange's minimum amount has to
\* be considered when the initial order is placed.
InitialOrderMeetsMinimum ==
  phase = "update" /\ (Due("sell") \/ Due("buy")) =>
    call_quantity * call_price >= MinNotional

\* After an update the context holds an order unless the strategy's index is not
\* available yet or too low: slots that are left set when their orders have been
\* cancelled would keep the strategy out of the market without its noticing.
InTheMarket ==
  phase = "next" /\ time > 0 /\ RsiHasValue(rsi) /\ ~RsiIsLow(rsi) =>
    DOMAIN orders # {}

\* Each candle is eventually dealt with: update_orders' loop ends and both
\* callbacks return.
CandleEnds == phase = "orders" ~> phase = "next"
=============================================================================
