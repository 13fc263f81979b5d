---------------------------- MODULE GridStrategy ----------------------------
(***************************************************************************)
(* The strategy's side of the protocol between GridStrategy                *)
(* (strategy/grid_strategy.cc) and the broker it trades through            *)
(* (strategy/broker.h, IBroker).                                           *)
(*                                                                         *)
(* The program calls two handlers, update and on_order_filled.  A handler  *)
(* decides everything it can on entry and leaves in "todo" the broker      *)
(* calls it still has to make; each call is then one step, in the fixed    *)
(* order of the code, and the handler has returned when "todo" is empty.   *)
(* A module that composes this one with a broker conjoins each call with   *)
(* what the broker does for it, and lets no other step of the caller in    *)
(* between.                                                                *)
(*                                                                         *)
(* Prices and amounts are integers in the smallest unit; a division rounds *)
(* down.  order_balance, which only the log reads, is left out.            *)
(***************************************************************************)
EXTENDS Integers, RsiWindow

CONSTANTS
  GridCount,    \* grid_count_: grid lines on each side of the baseline
  SpacingPct,   \* grid_spacing_ in hundredths of the baseline
  MinNotional,  \* 7: the amount below which no rebalancing order is placed
  RsiPrice      \* the prices of "rsi_price" in the configuration

\* struct OrderInfo
OrderInfo == [index : Nat, price : Int]

ASSUME GridAssumption ==
  /\ GridCount \in Nat \ {0}
  /\ SpacingPct \in Nat
  /\ MinNotional \in Nat
  /\ None \notin Int \cup OrderInfo

VARIABLES
  buy_order,       \* buy_order_: None or the index and price of the bid
  sell_order,      \* sell_order_: None or the index and price of the ask
  baseline_price,  \* baseline_price_
  order_volume,    \* order_volume_; None until it is first assigned
  rsi,             \* index_
  todo,            \* broker calls the running handler still has to make
  call_price,      \* local of the running handler: current or filled price
  call_spread,     \* local: distance of the two new orders from call_price
  call_quantity    \* local: quantity of the order about to be placed

strategyVars == <<buy_order, sell_order, baseline_price, order_volume, rsi,
                  todo, call_price, call_spread, call_quantity>>
callVars == <<call_price, call_spread, call_quantity>>

\* The calls, by their rank in the code: a handler makes the lowest one first.
CallRank == [cancel_buy |-> 1, cancel_sell |-> 2, account |-> 3,
             sell |-> 4, buy |-> 5]
Due(c) == c \in todo /\ \A d \in todo : CallRank[c] <= CallRank[d]

StrategyInit ==
  /\ buy_order = None /\ sell_order = None
  /\ baseline_price = 0
  /\ order_volume = None
  /\ rsi = RsiFromJson(RsiPrice)
  /\ todo = {}
  /\ call_price = 0 /\ call_spread = 0 /\ call_quantity = 0

-----------------------------------------------------------------------------
(* The handlers *)

\* cancel_all_orders cancels whichever of the two orders is set.
\* Mutant: the ask is forgotten.
CancelBuyOnly(buy, sell) == IF buy = None THEN {} ELSE {"cancel_buy"}
CancelAllOrders(buy, sell) ==
  (IF buy = None THEN {} ELSE {"cancel_buy"}) \cup
  (IF sell = None THEN {} ELSE {"cancel_sell"})

Spacing == (baseline_price * SpacingPct) \div 100

\* price < lower_bound || upper_bound < price
OutsideGrid(price) ==
  LET bound == baseline_price * SpacingPct * GridCount
  IN  \/ 100 * price < 100 * baseline_price - bound
      \/ 100 * baseline_price + bound < 100 * price

NoOrders == buy_order = None /\ sell_order = None

\* The calls that start the grid over from the current price: cancel_all_orders
\* and place_initial_orders, which begins by asking for the account.
\* Mutant: the orders of the old baseline are not cancelled.
StartOverKeepsOrders == {"account"}
StartOver == CancelAllOrders(buy_order, sell_order) \cup {"account"}

\* update(candle): the index is not available yet; it is too low; the orders
\* stand and the price is inside the grid; or the grid starts over.
Update(price) ==
  /\ todo = {}
  /\ rsi' = RsiUpdate(rsi, price)
  /\ call_price' = price
  /\ \/ /\ ~RsiHasValue(rsi')
        /\ UNCHANGED <<todo, baseline_price>>
     \/ /\ RsiHasValue(rsi') /\ RsiIsLow(rsi')
        /\ todo' = CancelAllOrders(buy_order, sell_order)
        /\ UNCHANGED baseline_price
     \/ /\ RsiHasValue(rsi') /\ ~RsiIsLow(rsi')
        /\ ~NoOrders /\ ~OutsideGrid(price)
        /\ UNCHANGED <<todo, baseline_price>>
     \/ /\ RsiHasValue(rsi') /\ ~RsiIsLow(rsi')
        /\ NoOrders \/ OutsideGrid(price)
        /\ baseline_price' = price
        /\ todo' = StartOver
  /\ UNCHANGED <<buy_order, sell_order, order_volume, call_spread, call_quantity>>

Holds(slot, index) == slot # None /\ slot.index = index

\* A slot after it is found, or not, to hold the filled order.
SlotAfterFill(slot, index) == IF Holds(slot, index) THEN None ELSE slot

\* on_order_filled(index): the filled order leaves its slot, the other one is
\* cancelled, and a new pair goes around the filled price.  The price is None
\* (NaN in the code, which asserts that it is not) when no slot has the index.
OnOrderFilled(index) ==
  /\ todo = {}
  /\ call_price' = CASE Holds(sell_order, index) -> sell_order.price
                     [] ~Holds(sell_order, index) /\ Holds(buy_order, index) ->
                          buy_order.price
                     [] OTHER -> None
  /\ buy_order' = SlotAfterFill(buy_order, index)
  /\ sell_order' = SlotAfterFill(sell_order, index)
  /\ todo' = CancelAllOrders(buy_order', sell_order') \cup {"sell", "buy"}
  /\ call_spread' = Spacing
  /\ call_quantity' = order_volume
  /\ UNCHANGED <<baseline_price, order_volume, rsi>>

-----------------------------------------------------------------------------
(* The broker calls of the running handler *)

\* Mutant: the slot is left set.
CancelBuyKeepsSlot ==
  /\ Due("cancel_buy")
  /\ todo' = todo \ {"cancel_buy"}
  /\ UNCHANGED <<buy_order, sell_order, baseline_price, order_volume, rsi, callVars>>
CancelBuy ==
  /\ Due("cancel_buy")
  /\ buy_order' = None
  /\ todo' = todo \ {"cancel_buy"}
  /\ UNCHANGED <<sell_order, baseline_price, order_volume, rsi, callVars>>

CancelSell ==
  /\ Due("cancel_sell")
  /\ sell_order' = None
  /\ todo' = todo \ {"cancel_sell"}
  /\ UNCHANGED <<buy_order, baseline_price, order_volume, rsi, callVars>>

TargetPosition(balance, position) ==
  ((balance + position * call_price) \div call_price) \div 2

SideTowards(target, position) == IF target < position THEN {"sell"} ELSE {"buy"}

\* The volume of an order of the grid is one line's share of the target.
\* Mutant: the target is not shared among the lines.
WholeTarget(target) == target
OrderVolume(target) == target \div GridCount

\* place_initial_orders up to its one order: half of the account's value is to
\* be held in the base asset, and one order moves the account there.
PlaceInitialOrders(balance, position) ==
  LET target == TargetPosition(balance, position)
      gap    == IF target < position THEN position - target ELSE target - position
  IN  /\ Due("account")
      /\ order_volume' = OrderVolume(target)
      /\ IF gap * call_price < MinNotional
         THEN todo' = {"buy"} /\ call_quantity' = order_volume'
         ELSE /\ todo' = SideTowards(target, position)
              /\ call_quantity' = gap
      /\ call_spread' = 0
      /\ UNCHANGED <<buy_order, sell_order, baseline_price, rsi, call_price>>

\* place_sell_order and place_buy_order; index is what the broker returns.
PlaceSell(index) ==
  /\ Due("sell")
  /\ sell_order' = [index |-> index, price |-> call_price + call_spread]
  /\ todo' = todo \ {"sell"}
  /\ UNCHANGED <<buy_order, baseline_price, order_volume, rsi, callVars>>

PlaceBuy(index) ==
  /\ Due("buy")
  /\ buy_order' = [index |-> index, price |-> call_price - call_spread]
  /\ todo' = todo \ {"buy"}
  /\ UNCHANGED <<sell_order, baseline_price, order_volume, rsi, callVars>>

-----------------------------------------------------------------------------
(* Properties of the strategy's own state *)

StrategyTypeOK ==
  /\ buy_order \in OrderInfo \cup {None}
  /\ sell_order \in OrderInfo \cup {None}
  /\ baseline_price \in Int
  /\ order_volume \in Int \cup {None}
  /\ todo \subseteq DOMAIN CallRank
  /\ call_price \in Int \cup {None}
  /\ call_spread \in Int
  /\ call_quantity \in Int \cup {None}
=============================================================================
