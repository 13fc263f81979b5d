------------------------------- MODULE Trade --------------------------------
(***************************************************************************)
(* Live trading (trade/): every half hour TradeEngine::run polls the       *)
(* exchange for each order it knows, reports the filled ones to            *)
(* GridStrategy and gives it the last candle; the strategy's calls go      *)
(* through TradeBroker and BinanceBroker to the exchange, which fills      *)
(* orders at any moment, between any two of these steps.                   *)
(*                                                                         *)
(* A request is tried up to RetryCount times (request_until).  Each try    *)
(* may fail before or after the exchange has handled it, and a try whose   *)
(* reply is lost is repeated; when all have failed the process aborts.     *)
(* Module HttpRequest has the steps of a request and shows that it ends as *)
(* the actions here say.  The process keeps nothing on disk: a restart     *)
(* begins with no orders, and what the exchange holds stays there.         *)
(*                                                                         *)
(* The exchange is modelled from how the code uses it: it numbers orders   *)
(* one after the other, fills them in part or as a whole, rejects the      *)
(* cancellation of an order it does not know or that is filled or          *)
(* cancelled, and may reject any new order.                                *)
(***************************************************************************)
EXTENDS GridStrategy, FiniteSets, Functions

CONSTANTS
  Prices,        \* close prices of candles
  Accounts,      \* what the exchange may say of the account: balance, position
  RetryCount,    \* retry_count_, 3 in the code
  FirstOrderId,  \* the first id the exchange gives
  IdWidth,       \* 2^16: what fits in the order_id of TradeBroker::cancel
  MaxRounds, MaxLost, MaxRestarts  \* bounds: polls, lost replies, restarts

ASSUME TradeAssumption ==
  /\ Prices \subseteq Nat \ {0}
  /\ Accounts \subseteq [balance : Nat, position : Nat]
  /\ RetryCount \in Nat \ {0} /\ FirstOrderId \in Nat
  /\ IdWidth \in Nat /\ 2 * RetryCount <= IdWidth
  /\ MaxRounds \in Nat /\ MaxLost \in Nat /\ MaxRestarts \in Nat

VARIABLES
  orders,            \* orders_: from the strategy's index to the exchange's id
  last_order_index,  \* last_order_index_
  phase,             \* where the single thread is
  rest,              \* update_orders: keys the iterator has yet to reach
  iterator,          \* update_orders: the order being reported
  exchange,          \* the exchange: from id to status
  rounds,            \* polls made
  lost,              \* history: orders created by tries whose reply was lost
  restarts,          \* history: times the process was started again
  owed,              \* history: orders that were filled when the poll began
  reported           \* history: orders whose fill this poll has reported

engineVars == <<orders, last_order_index, phase, rest, iterator>>
history == <<lost, restarts, owed, reported>>
vars == <<engineVars, exchange, rounds, history, strategyVars>>

Phases == {"sleep", "orders", "filled", "klines", "update", "aborted"}

Init ==
  /\ StrategyInit
  /\ orders = <<>> /\ last_order_index = 0
  /\ phase = "sleep" /\ rest = {} /\ iterator = 0
  /\ owed = {} /\ reported = {}
  /\ exchange = <<>>
  /\ rounds = 0 /\ lost = 0 /\ restarts = 0

\* Mutant: the order stays in the map.
OrdersWithNothingErased(index) == orders
OrdersWithout(index) == Restrict(orders, DOMAIN orders \ {index})

-----------------------------------------------------------------------------
(* The loop of run and update_orders *)

\* The exchange still holds the order.
Stands(id) == exchange[id] \in {"open", "partial"}

\* BinanceBroker::get_order: a partly filled order is not filled.
IsFilled(id) == exchange[id] = "filled"

WakeUp ==
  /\ phase = "sleep" /\ rounds < MaxRounds
  /\ phase' = "orders"
  /\ rest' = DOMAIN orders
  /\ owed' = {i \in DOMAIN orders : exchange[orders[i]] = "filled"}
  /\ reported' = {}
  /\ rounds' = rounds + 1
  /\ UNCHANGED <<orders, last_order_index, iterator, exchange, lost, restarts, strategyVars>>

\* The hash map is walked in no particular order.
SkipOrder(i) ==
  /\ phase = "orders" /\ i \in rest /\ ~IsFilled(orders[i])
  /\ rest' = rest \ {i}
  /\ UNCHANGED <<orders, last_order_index, phase, iterator, exchange, rounds, history, strategyVars>>

ReportFilled(i) ==
  /\ phase = "orders" /\ i \in rest /\ IsFilled(orders[i])
  /\ phase' = "filled" /\ iterator' = i
  /\ OnOrderFilled(i)
  /\ reported' = reported \cup {i}
  /\ UNCHANGED <<orders, last_order_index, rest, exchange, rounds, lost, restarts, owed>>

\* on_order_filled has returned; orders_.erase.  The callback has placed orders,
\* and where the map has put them, or has moved the others to if it was rehashed,
\* decides which the loop still reaches.
EraseFilled ==
  /\ phase = "filled" /\ todo = {}
  /\ orders' = OrdersWithout(iterator)
  /\ rest' \in SUBSET DOMAIN orders'
  /\ phase' = "orders"
  /\ UNCHANGED <<last_order_index, iterator, exchange, rounds, history, strategyVars>>

EndPoll ==
  /\ phase = "orders" /\ rest = {}
  /\ phase' = "klines"
  /\ UNCHANGED <<orders, last_order_index, rest, iterator, exchange, rounds, history, strategyVars>>

CallUpdate(price) ==
  /\ phase = "klines"
  /\ Update(price)
  /\ phase' = "update"
  /\ UNCHANGED <<orders, last_order_index, rest, iterator, exchange, rounds, history>>

UpdateReturns ==
  /\ phase = "update" /\ todo = {}
  /\ phase' = "sleep"
  /\ UNCHANGED <<orders, last_order_index, rest, iterator, exchange, rounds, history, strategyVars>>

-----------------------------------------------------------------------------
(* Requests to the exchange *)

StrategyRuns == phase \in {"filled", "update"}

NextId == FirstOrderId + Cardinality(DOMAIN exchange)
WithCopies(n) ==
  [id \in DOMAIN exchange \cup (NextId..(NextId + n - 1)) |->
     IF id \in DOMAIN exchange THEN exchange[id] ELSE "open"]

\* create_limit_buy_order, create_limit_sell_order: n tries have placed an order
\* and the engine learns of one, the k-th to arrive (a try whose connection broke
\* may reach the exchange after the one that is answered).
Create(n, k) ==
  /\ StrategyRuns
  /\ n \in 1..RetryCount /\ k \in 1..n /\ lost + n - 1 <= MaxLost
  /\ exchange' = WithCopies(n)
  /\ lost' = lost + n - 1
  /\ orders' = [i \in DOMAIN orders \cup {last_order_index} |->
                  IF i = last_order_index THEN NextId + k - 1 ELSE orders[i]]
  /\ last_order_index' = last_order_index + 1
  /\ UNCHANGED <<phase, rest, iterator, rounds, restarts, owed, reported>>

PlaceSellOrder == \E n, k \in 1..RetryCount : Create(n, k) /\ PlaceSell(last_order_index)
PlaceBuyOrder  == \E n, k \in 1..RetryCount : Create(n, k) /\ PlaceBuy(last_order_index)

\* All tries have failed, n of them after they had placed an order.
CreateFails ==
  /\ StrategyRuns
  /\ Due("sell") \/ Due("buy")
  /\ \E n \in 0..RetryCount :
       /\ lost + n <= MaxLost
       /\ exchange' = WithCopies(n)
       /\ lost' = lost + n
  /\ phase' = "aborted"
  /\ UNCHANGED <<orders, last_order_index, rest, iterator, rounds, restarts, owed, reported,
                 strategyVars>>

\* TradeBroker::cancel keeps the low bits of the id.  What is erased from the map
\* is no longer reached by the loop.
CancelId(index) == orders[index] % IdWidth
CanCancel(index) == CancelId(index) \in DOMAIN exchange /\ Stands(CancelId(index))

\* Mutant: the engine drops the order whatever the exchange answers.
CancelAnyway(index) ==
  /\ StrategyRuns
  /\ exchange' = IF CanCancel(index)
                 THEN [exchange EXCEPT ![CancelId(index)] = "canceled"] ELSE exchange
  /\ orders' = OrdersWithout(index)
  /\ rest' = rest \ {index}
  /\ UNCHANGED <<last_order_index, phase, iterator, rounds, history>>
\* Mutant: the request is not sent.
ForgetOrder(index) ==
  /\ StrategyRuns
  /\ orders' = OrdersWithout(index)
  /\ rest' = rest \ {index}
  /\ UNCHANGED <<exchange, last_order_index, phase, iterator, rounds, history>>
\* Mutant: the loop still reaches what was erased.
CancelKeepsIterator(index) ==
  /\ StrategyRuns /\ CanCancel(index)
  /\ exchange' = [exchange EXCEPT ![CancelId(index)] = "canceled"]
  /\ orders' = OrdersWithout(index)
  /\ UNCHANGED <<rest, last_order_index, phase, iterator, rounds, history>>
Cancel(index) ==
  /\ StrategyRuns /\ CanCancel(index)
  /\ exchange' = [exchange EXCEPT ![CancelId(index)] = "canceled"]
  /\ orders' = OrdersWithout(index)
  /\ rest' = rest \ {index}
  /\ UNCHANGED <<last_order_index, phase, iterator, rounds, history>>

CancelBuyOrder  == Due("cancel_buy")  /\ Cancel(buy_order.index)  /\ CancelBuy
CancelSellOrder == Due("cancel_sell") /\ Cancel(sell_order.index) /\ CancelSell

\* No try gets an OK: the exchange rejects the cancellation each time, or cannot
\* be reached, or has cancelled the order in a try whose reply was lost and
\* rejects the others.
CancelFails ==
  /\ StrategyRuns
  /\ \E slot \in {buy_order, sell_order} :
       /\ \/ Due("cancel_buy") /\ slot = buy_order
          \/ Due("cancel_sell") /\ slot = sell_order
       /\ \/ UNCHANGED exchange
          \/ /\ CanCancel(slot.index)
             /\ exchange' = [exchange EXCEPT ![CancelId(slot.index)] = "canceled"]
  /\ phase' = "aborted"
  /\ UNCHANGED <<orders, last_order_index, rest, iterator, rounds, history, strategyVars>>

GetAccount(a) ==
  /\ StrategyRuns
  /\ PlaceInitialOrders(a.balance, a.position)
  /\ UNCHANGED <<engineVars, exchange, rounds, history>>

\* A request that only asks (get_order, get_klines, get_account) fails each time, or
\* the reply to get_klines has no candle (see PollingLoop) or get_account's not the
\* asset, which is undefined and here ends the process.
QueryFails ==
  /\ \/ phase = "orders" /\ rest # {}
     \/ phase = "klines"
     \/ StrategyRuns /\ Due("account")
  /\ phase' = "aborted"
  /\ UNCHANGED <<orders, last_order_index, rest, iterator, exchange, rounds, history, strategyVars>>

-----------------------------------------------------------------------------
(* The world around the process *)

ExchangeFills(id) ==
  /\ Stands(id)
  /\ \E part \in {"partial", "filled"} : exchange' = [exchange EXCEPT ![id] = part]
  /\ UNCHANGED <<engineVars, rounds, history, strategyVars>>

\* The process is started again, after it aborted or was killed at any point.
Restart ==
  /\ restarts < MaxRestarts
  /\ restarts' = restarts + 1
  /\ orders' = <<>> /\ last_order_index' = 0
  /\ phase' = "sleep" /\ rest' = {} /\ iterator' = 0
  /\ owed' = {} /\ reported' = {}
  /\ buy_order' = None /\ sell_order' = None
  /\ baseline_price' = 0 /\ order_volume' = None /\ rsi' = RsiFromJson(RsiPrice)
  /\ todo' = {} /\ call_price' = 0 /\ call_spread' = 0 /\ call_quantity' = 0
  /\ UNCHANGED <<exchange, rounds, lost>>

Engine ==
  \/ WakeUp \/ EraseFilled \/ EndPoll \/ UpdateReturns
  \/ \E i \in rest : SkipOrder(i) \/ ReportFilled(i)
  \/ \E price \in Prices : CallUpdate(price)

Requests ==
  \/ PlaceSellOrder \/ PlaceBuyOrder \/ CreateFails
  \/ CancelBuyOrder \/ CancelSellOrder \/ CancelFails
  \/ \E a \in Accounts : GetAccount(a)
  \/ QueryFails

\* The process sleeps after the last poll of the bound, or is down.
Rests == phase = "aborted" \/ (phase = "sleep" /\ rounds = MaxRounds)

Next ==
  \/ Engine \/ Requests
  \/ \E id \in DOMAIN exchange : ExchangeFills(id)
  \/ Restart
  \/ Rests /\ UNCHANGED vars

Spec == Init /\ [][Next]_vars

-----------------------------------------------------------------------------
(* Properties *)

Statuses == {"open", "partial", "filled", "canceled"}

TradeTypeOK ==
  /\ StrategyTypeOK
  /\ phase \in Phases
  /\ last_order_index \in Nat
  /\ DOMAIN orders \subseteq 0..(last_order_index - 1)
  /\ rest \subseteq DOMAIN orders
  /\ \A id \in DOMAIN exchange : exchange[id] \in Statuses
  /\ \A i \in DOMAIN orders : orders[i] \in DOMAIN exchange

Tracked == {s.index : s \in {buy_order, sell_order} \ {None}}
InProgress == IF phase = "filled" THEN {iterator} ELSE {}

\* The strategy's two slots, and the order being reported, are the orders the
\* engine polls, whatever failed in between; so TradeBroker::cancel always finds
\* the index it looks up (trade_broker.cc line 28).
BookAgrees ==
  phase # "aborted" =>
    DOMAIN orders = Tracked \cup InProgress /\ Tracked \cap InProgress = {}

\* The engine drops an order only when it was reported filled or the exchange has
\* cancelled it: a fill that races with its cancellation is never lost silently.
\* (What a cancelled order had traded in part by then is not reported to anyone.)
NothingDroppedSilently ==
  [][\A i \in DOMAIN orders : restarts' = restarts /\ i \notin DOMAIN orders' =>
       \/ phase = "filled" /\ i = iterator
       \/ exchange'[orders[i]] = "canceled"]_vars

\* Every order that was filled when a poll began has been reported to the strategy
\* when the poll ends: the loop reaches it although callbacks insert into and erase
\* from the map, and no callback takes it out of the map before.
PollMissesNothing == phase = "klines" => owed \subseteq reported

\* Orders that stand on the exchange and that the engine does not know of come
\* only from lost replies, one each, and from restarts, two each.
Orphans == {id \in DOMAIN exchange : Stands(id)} \ Range(orders)
OrphansBounded == Cardinality(Orphans) <= lost + 2 * restarts

\* Until the process is started again, the engine keeps the contract of IBroker.
Contract == INSTANCE BrokerContract WITH
  NoReport <- -1, next_index <- last_order_index, open <- DOMAIN orders,
  reporting <- IF phase = "filled" THEN iterator ELSE -1
KeepsContract == [][Contract!Next \/ phase' = "aborted" \/ Restart]_(Contract!vars)
=============================================================================
