----------------------------- MODULE TradeProofs -----------------------------
(***************************************************************************)
(* Theorems about live trading: whatever the exchange does between two     *)
(* steps of the process, however many replies are lost and wherever the    *)
(* process aborts or is started again, the strategy and the engine agree   *)
(* on the open orders, a poll reports every fill it has to, and the orders *)
(* nobody knows of are accounted for.                                      *)
(***************************************************************************)
EXTENDS Trade, FiniteSetTheorems, TLAPS

(* The inductive invariant *)

\* The exchange has numbered its orders one after the other.
ExchangeInv ==
  /\ NextId \in Nat
  /\ DOMAIN exchange = FirstOrderId..(NextId - 1)

\* Of the orders in the engine's map no more than two stand when it is lost.
StandInv ==
  \E a, b \in Nat : \A i \in DOMAIN orders : Stands(orders[i]) => i \in {a, b}

CountsInv ==
  /\ lost \in Nat /\ restarts \in Nat
  /\ OrphansBounded

\* Which calls a handler may still have to make.
HandlerInv ==
  /\ phase \in {"sleep", "orders", "klines"} => todo = {}
  /\ phase = "filled" => "account" \notin todo
  /\ "account" \in todo => "buy" \notin todo /\ "sell" \notin todo
  /\ "cancel_buy" \in todo => buy_order # None
  /\ "cancel_sell" \in todo => sell_order # None

\* What a handler is about to place an order in is empty or will be.
SlotsFreed ==
  /\ todo \cap {"account", "sell", "buy"} # {} /\ buy_order # None =>
       "cancel_buy" \in todo
  /\ todo \cap {"account", "sell"} # {} /\ sell_order # None =>
       "cancel_sell" \in todo

\* What a handler is about to compute with is a number.
PricesReady ==
  /\ "account" \in todo => call_price \in Nat \ {0}
  /\ todo \cap {"sell", "buy"} # {} => call_price \in Int

\* What was filled when the poll began is still to be reached, is being reported,
\* or is about to be cancelled, which the exchange will reject.
OwedInv ==
  /\ owed \subseteq 0..(last_order_index - 1)
  /\ \A i \in owed \cap DOMAIN orders : IsFilled(orders[i])
  /\ phase = "orders" => owed \cap DOMAIN orders \subseteq rest
  /\ phase = "filled" =>
       /\ iterator \in DOMAIN orders /\ IsFilled(orders[iterator])
       /\ buy_order # None /\ "cancel_buy" \notin todo => buy_order.index \notin owed
       /\ sell_order # None /\ "cancel_sell" \notin todo => sell_order.index \notin owed
  /\ phase = "klines" => owed \cap DOMAIN orders = {}

\* The ids of a pair are nearer to each other than the bits that cancel drops.
IdsInv ==
  /\ buy_order # None /\ sell_order # None =>
       orders[buy_order.index] - orders[sell_order.index] \in 1..(2 * RetryCount - 1)
  /\ "buy" \in todo /\ sell_order # None /\ "cancel_sell" \notin todo =>
       NextId - orders[sell_order.index] \in 1..RetryCount

RunningInv ==
  BookAgrees /\ HandlerInv /\ SlotsFreed /\ PricesReady /\ OwedInv /\ IdsInv

TradeInv ==
  /\ TradeTypeOK /\ ExchangeInv /\ CountsInv
  /\ phase # "aborted" => RunningInv
  /\ phase = "aborted" => StandInv

-----------------------------------------------------------------------------
(* What each step needs to know of the state before it *)

LEMMA QuotientIsNatural ==
  ASSUME NEW a \in Nat, NEW b \in Nat \ {0}
  PROVE  a \div b \in Nat
OBVIOUS

\* What is cut to its low bits stays, or moves by at least one whole width.
LEMMA LowBits ==
  ASSUME NEW a \in Nat, NEW w \in Nat \ {0}
  PROVE  /\ a % w \in Nat
         /\ a % w = a \/ a % w <= a - w
<1> DEFINE q == a \div w
<1>1. q \in Nat
  BY QuotientIsNatural
<1>2. a = w * q + (a % w) /\ a % w \in 0..(w - 1)
  OBVIOUS
<1>3. q >= 1 => w * q >= w
  <2> SUFFICES ASSUME q >= 1 PROVE w * q >= w
    OBVIOUS
  <2>1. q - 1 \in Nat /\ w * q = w * (q - 1) + w
    BY <1>1
  <2>2. w * (q - 1) \in Nat
    BY <2>1
  <2> HIDE DEF q
  <2> QED  BY <2>1, <2>2
<1>4. q = 0 => w * q = 0
  BY <1>1
<1> HIDE DEF q
<1> QED  BY <1>1, <1>2, <1>3, <1>4

LEMMA ExchangeIsFinite ==
  ASSUME ExchangeInv
  PROVE  /\ IsFiniteSet(DOMAIN exchange) /\ Cardinality(DOMAIN exchange) \in Nat
         /\ FirstOrderId <= NextId /\ NextId \notin DOMAIN exchange
<1>1. IsFiniteSet(DOMAIN exchange)
  BY FS_Interval, TradeAssumption DEF ExchangeInv
<1>2. Cardinality(DOMAIN exchange) \in Nat
  BY <1>1, FS_CardinalityType
<1> QED  BY <1>1, <1>2, TradeAssumption DEF ExchangeInv, NextId

LEMMA OrphansFinite ==
  ASSUME ExchangeInv
  PROVE  IsFiniteSet(Orphans) /\ Cardinality(Orphans) \in Nat
<1>1. IsFiniteSet(Orphans)
  BY ExchangeIsFinite, FS_Subset DEF Orphans
<1> QED  BY <1>1, FS_CardinalityType

\* A step after which no more orders are orphans, and none are counted, is safe.
LEMMA NoNewOrphans ==
  ASSUME ExchangeInv, CountsInv, Orphans' \subseteq Orphans, UNCHANGED <<lost, restarts>>
  PROVE  CountsInv'
<1>1. Cardinality(Orphans') <= Cardinality(Orphans) /\ Cardinality(Orphans') \in Nat
  BY OrphansFinite, FS_Subset, FS_CardinalityType
<1> QED  BY <1>1, OrphansFinite DEF CountsInv, OrphansBounded

\* Orphans that are exchanged for as many others.
LEMMA OrphanReplaced ==
  ASSUME ExchangeInv, CountsInv, UNCHANGED <<lost, restarts>>,
         NEW a, NEW b \in Orphans, Orphans' \subseteq (Orphans \ {b}) \cup {a}
  PROVE  CountsInv'
<1>1. IsFiniteSet(Orphans \ {b}) /\ Cardinality(Orphans \ {b}) = Cardinality(Orphans) - 1
  BY OrphansFinite, FS_RemoveElement
<1>2. /\ IsFiniteSet((Orphans \ {b}) \cup {a})
      /\ Cardinality((Orphans \ {b}) \cup {a}) <= Cardinality(Orphans)
  <2>1. Cardinality((Orphans \ {b}) \cup {a}) =
          IF a \in Orphans \ {b} THEN Cardinality(Orphans \ {b})
                               ELSE Cardinality(Orphans \ {b}) + 1
    BY <1>1, FS_AddElement
  <2> QED  BY <1>1, <2>1, FS_AddElement, OrphansFinite, SMTT(40)
<1>3. Cardinality(Orphans') <= Cardinality(Orphans) /\ Cardinality(Orphans') \in Nat
  BY <1>2, FS_Subset, FS_CardinalityType, OrphansFinite
<1> QED  BY <1>3, OrphansFinite DEF CountsInv, OrphansBounded

\* No more new orphans than are counted.
LEMMA NewOrphansCounted ==
  ASSUME ExchangeInv, CountsInv, NEW m \in Nat, NEW S,
         IsFiniteSet(S), Cardinality(S) <= m,
         Orphans' \subseteq Orphans \cup S,
         lost' \in Nat, restarts' \in Nat,
         lost' + 2 * restarts' = lost + 2 * restarts + m
  PROVE  CountsInv'
<1>1. IsFiniteSet(Orphans \cup S) /\ Cardinality(Orphans \cap S) \in Nat
      /\ Cardinality(Orphans \cup S) =
           Cardinality(Orphans) + Cardinality(S) - Cardinality(Orphans \cap S)
  BY OrphansFinite, FS_Union, FS_Intersection, FS_CardinalityType
<1>2. Cardinality(S) \in Nat
  BY FS_CardinalityType
<1>3. Cardinality(Orphans') <= Cardinality(Orphans \cup S) /\ Cardinality(Orphans') \in Nat
  BY <1>1, FS_Subset, FS_CardinalityType
<1>4. Cardinality(Orphans') <= Cardinality(Orphans) + m
  BY <1>1, <1>2, <1>3, OrphansFinite
<1>5. /\ Cardinality(Orphans) \in Nat /\ Cardinality(Orphans) <= lost + 2 * restarts
      /\ lost \in Nat /\ restarts \in Nat
  BY OrphansFinite DEF CountsInv, OrphansBounded
<1>6. Cardinality(Orphans) + m <= lost + 2 * restarts + m
  BY <1>5
<1>7. Cardinality(Orphans) + m <= lost' + 2 * restarts'
  BY <1>6
<1>8. 2 * restarts' \in Nat /\ lost' + 2 * restarts' \in Nat
  <2>1. restarts' \in Nat /\ lost' \in Nat
    OBVIOUS
  <2>2. \A r, l \in Nat : 2 * r \in Nat /\ l + 2 * r \in Nat
    OBVIOUS
  <2> QED  BY <2>1, <2>2
<1>9. Cardinality(Orphans') <= lost' + 2 * restarts'
  BY <1>3, <1>4, <1>5, <1>7, <1>8
<1> QED  BY <1>9 DEF CountsInv, OrphansBounded

LEMMA CopiesKeepIds ==
  ASSUME ExchangeInv, NEW n \in Nat, exchange' = WithCopies(n)
  PROVE  /\ ExchangeInv' /\ NextId' = NextId + n
         /\ DOMAIN exchange' = DOMAIN exchange \cup (NextId..(NextId + n - 1))
         /\ \A id \in DOMAIN exchange : exchange'[id] = exchange[id]
         /\ \A id \in NextId..(NextId + n - 1) : exchange'[id] = "open"
<1>1. DOMAIN exchange' = DOMAIN exchange \cup (NextId..(NextId + n - 1))
  BY DEF WithCopies
<1>2. /\ \A id \in DOMAIN exchange : exchange'[id] = exchange[id]
      /\ \A id \in NextId..(NextId + n - 1) : exchange'[id] = "open"
  BY ExchangeIsFinite DEF WithCopies, ExchangeInv
<1>3. DOMAIN exchange' = FirstOrderId..(NextId + n - 1)
  BY <1>1, ExchangeIsFinite, TradeAssumption DEF ExchangeInv
<1>4. Cardinality(DOMAIN exchange') = NextId + n - FirstOrderId
  <2>1. NextId + n - 1 \in Int /\ FirstOrderId \in Int
    BY TradeAssumption DEF ExchangeInv
  <2>2. \A b \in Int : Cardinality(FirstOrderId..b) =
          IF FirstOrderId > b THEN 0 ELSE b - FirstOrderId + 1
    BY <2>1, FS_Interval
  <2> QED  BY <1>3, <2>1, <2>2, ExchangeIsFinite DEF ExchangeInv
<1>5. NextId' = NextId + n
  BY <1>4, TradeAssumption DEF NextId, ExchangeInv
<1> QED  BY <1>1, <1>2, <1>3, <1>5 DEF ExchangeInv

LEMMA SlotsInMap ==
  ASSUME TradeTypeOK, phase # "aborted", BookAgrees
  PROVE  /\ buy_order # None =>
              buy_order \in OrderInfo /\ buy_order.index \in DOMAIN orders \ InProgress
         /\ sell_order # None =>
              sell_order \in OrderInfo /\ sell_order.index \in DOMAIN orders \ InProgress
         /\ \A i \in DOMAIN orders \ InProgress :
              \/ buy_order # None /\ i = buy_order.index
              \/ sell_order # None /\ i = sell_order.index
BY DEF TradeTypeOK, StrategyTypeOK, BookAgrees, Tracked

-----------------------------------------------------------------------------
(* The invariant holds initially and is preserved by every step *)

LEMMA TradeInit == Init => TradeInv
<1> SUFFICES ASSUME Init PROVE TradeInv
  OBVIOUS
<1>1. DOMAIN orders = {} /\ DOMAIN exchange = {} /\ buy_order = None /\ sell_order = None
      /\ todo = {} /\ rest = {} /\ phase = "sleep" /\ owed = {}
  BY DEF Init, StrategyInit
<1>2. TradeTypeOK
  BY <1>1 DEF Init, StrategyInit, TradeTypeOK, StrategyTypeOK, Phases
<1>3. ExchangeInv
  BY <1>1, FS_EmptySet, TradeAssumption DEF ExchangeInv, NextId
<1>4. CountsInv
  <2>1. Orphans = {}
    BY <1>1 DEF Orphans
  <2> QED  BY <2>1, FS_EmptySet DEF Init, CountsInv, OrphansBounded
<1>5. RunningInv
  BY <1>1 DEF RunningInv, BookAgrees, Tracked, InProgress, HandlerInv, SlotsFreed,
     PricesReady, OwedInv, IdsInv
<1> QED  BY <1>1, <1>2, <1>3, <1>4, <1>5 DEF TradeInv

\* A step that leaves the exchange and the counts alone, and adds no order.
LEMMA ExchangeAlone ==
  ASSUME TradeInv, UNCHANGED <<orders, exchange, lost, restarts>>
  PROVE  ExchangeInv' /\ CountsInv'
<1>1. Orphans' = Orphans
  BY DEF Orphans, Range, Stands
<1> QED
  BY <1>1 DEF TradeInv, ExchangeInv, NextId, CountsInv, OrphansBounded

\* The steps of the loop that make no call.
LEMMA LoopPreserves ==
  ASSUME TradeInv,
         WakeUp \/ EndPoll \/ UpdateReturns \/ (\E i \in rest : SkipOrder(i))
  PROVE  TradeInv'
<1> USE DEF TradeInv
<1>1. ExchangeInv' /\ CountsInv'
  BY ExchangeAlone DEF WakeUp, EndPoll, UpdateReturns, SkipOrder, history
<1>2. /\ UNCHANGED <<strategyVars, orders, exchange, last_order_index>>
      /\ todo = {} /\ phase \in {"sleep", "orders", "update"}
      /\ phase' \in {"orders", "klines", "sleep"} /\ rest' \subseteq DOMAIN orders
  BY DEF WakeUp, EndPoll, UpdateReturns, SkipOrder, history, RunningInv, HandlerInv,
         TradeTypeOK
<1>3. TradeTypeOK'
  BY <1>2 DEF TradeTypeOK, StrategyTypeOK, strategyVars, callVars, Phases
<1>4. BookAgrees' /\ HandlerInv' /\ SlotsFreed' /\ PricesReady'
  BY <1>2 DEF RunningInv, BookAgrees, Tracked, InProgress, HandlerInv, SlotsFreed,
     PricesReady, strategyVars, callVars
<1>5. IdsInv'
  BY <1>2 DEF RunningInv, IdsInv, strategyVars, callVars, NextId
<1>6. OwedInv'
  BY <1>2 DEF RunningInv, OwedInv, IsFilled, WakeUp, EndPoll,
     UpdateReturns, SkipOrder, history, TradeTypeOK
<1> QED  BY <1>1, <1>2, <1>3, <1>4, <1>5, <1>6 DEF RunningInv

\* An order is found filled and on_order_filled is called.
LEMMA ReportPreserves ==
  ASSUME TradeInv, NEW i \in rest, ReportFilled(i)
  PROVE  TradeInv'
<1> USE DEF TradeInv
<1>1. ExchangeInv' /\ CountsInv'
  BY ExchangeAlone DEF ReportFilled
<1>2. /\ phase = "orders" /\ phase' = "filled" /\ iterator' = i /\ i \in DOMAIN orders
      /\ IsFilled(orders[i]) /\ InProgress = {} /\ InProgress' = {i} /\ todo = {}
      /\ UNCHANGED <<orders, last_order_index, rest, exchange, owed>>
  BY DEF ReportFilled, TradeTypeOK, InProgress, RunningInv, HandlerInv
\* The filled order is the one in the bid's slot or the one in the ask's.
<1>3. \/ /\ buy_order # None /\ i = buy_order.index
         /\ ~Holds(sell_order, i)
         /\ call_price' = buy_order.price
         /\ buy_order' = None /\ sell_order' = sell_order
      \/ /\ sell_order # None /\ i = sell_order.index
         /\ ~Holds(buy_order, i)
         /\ call_price' = sell_order.price
         /\ buy_order' = buy_order /\ sell_order' = None
  <2>1. buy_order # None /\ sell_order # None => buy_order.index # sell_order.index
    BY <1>2, SlotsInMap DEF RunningInv, IdsInv, TradeTypeOK, ExchangeInv
  <2>2. \/ buy_order # None /\ i = buy_order.index
        \/ sell_order # None /\ i = sell_order.index
    BY <1>2, SlotsInMap DEF RunningInv
  <2> QED  BY <2>1, <2>2 DEF ReportFilled, OnOrderFilled, Holds, SlotAfterFill
<1>4. /\ todo' = CancelAllOrders(buy_order', sell_order') \cup {"sell", "buy"}
      /\ call_spread' = Spacing /\ call_quantity' = order_volume
      /\ UNCHANGED <<baseline_price, order_volume, rsi>>
  BY DEF ReportFilled, OnOrderFilled
<1>5. call_price' \in Int /\ Spacing \in Int
  BY <1>3, GridAssumption DEF TradeTypeOK, StrategyTypeOK, OrderInfo, Spacing
<1>6. TradeTypeOK'
  BY <1>2, <1>3, <1>4, <1>5
     DEF TradeTypeOK, StrategyTypeOK, CancelAllOrders, CallRank, Phases
<1>7. BookAgrees'
  BY <1>2, <1>3, SlotsInMap DEF RunningInv, BookAgrees, Tracked, Holds
<1>8. HandlerInv' /\ SlotsFreed' /\ PricesReady'
  BY <1>2, <1>4, <1>5 DEF HandlerInv, SlotsFreed, PricesReady, CancelAllOrders
<1>9. OwedInv'
  BY <1>2, <1>4 DEF RunningInv, OwedInv, CancelAllOrders, IsFilled
<1>10. IdsInv'
  BY <1>3, <1>4 DEF IdsInv, CancelAllOrders
<1> QED  BY <1>1, <1>2, <1>6, <1>7, <1>8, <1>9, <1>10 DEF RunningInv

\* on_order_filled has returned: what is left in the map it has placed.
LEMMA ErasePreserves == ASSUME TradeInv, EraseFilled PROVE TradeInv'
<1> USE DEF TradeInv
<1>1. /\ phase = "filled" /\ phase' = "orders" /\ todo = {}
      /\ InProgress = {iterator} /\ InProgress' = {}
      /\ DOMAIN orders' = DOMAIN orders \ {iterator}
      /\ \A i \in DOMAIN orders' : orders'[i] = orders[i]
      /\ rest' \subseteq DOMAIN orders'
      /\ UNCHANGED <<last_order_index, exchange, history, strategyVars>>
  BY DEF EraseFilled, OrdersWithout, Restrict, InProgress
<1>2. exchange[orders[iterator]] = "filled" /\ iterator \in DOMAIN orders
  BY <1>1 DEF RunningInv, OwedInv, IsFilled
<1>3. CountsInv'
  <2>1. Orphans' \subseteq Orphans
    BY <1>1, <1>2 DEF Orphans, Range, Stands
  <2> QED  BY <1>1, <2>1, NoNewOrphans DEF history
<1>4. ExchangeInv'
  BY <1>1 DEF ExchangeInv, NextId
<1>5. TradeTypeOK'
  BY <1>1 DEF TradeTypeOK, StrategyTypeOK, strategyVars, callVars, Phases
<1>6. BookAgrees' /\ HandlerInv' /\ SlotsFreed' /\ PricesReady'
  BY <1>1 DEF RunningInv, BookAgrees, Tracked, HandlerInv, SlotsFreed, PricesReady,
     strategyVars, callVars
<1>7. owed' \cap DOMAIN orders' = {}
  BY <1>1, SlotsInMap DEF RunningInv, OwedInv, history
<1>8. OwedInv'
  BY <1>1, <1>7 DEF RunningInv, OwedInv, history
<1>9. IdsInv'
  BY <1>1, SlotsInMap DEF RunningInv, IdsInv, strategyVars, callVars, NextId
<1> QED  BY <1>1, <1>3, <1>4, <1>5, <1>6, <1>8, <1>9 DEF RunningInv

\* The reply has a candle and update is called.
LEMMA UpdatePreserves ==
  ASSUME TradeInv, NEW price \in Prices, CallUpdate(price)
  PROVE  TradeInv'
<1> USE DEF TradeInv
<1>1. ExchangeInv' /\ CountsInv'
  BY ExchangeAlone DEF CallUpdate, history
<1>2. /\ phase = "klines" /\ phase' = "update" /\ todo = {}
      /\ InProgress = {} /\ InProgress' = {}
      /\ UNCHANGED <<orders, last_order_index, rest, iterator, exchange, owed>>
      /\ UNCHANGED <<buy_order, sell_order, order_volume, call_spread, call_quantity>>
      /\ call_price' = price /\ price \in Nat \ {0}
  BY TradeAssumption DEF CallUpdate, Update, history, InProgress
<1>3. \/ todo' = {} /\ baseline_price' = baseline_price
      \/ /\ todo' = CancelAllOrders(buy_order, sell_order)
         /\ baseline_price' = baseline_price
      \/ /\ todo' = CancelAllOrders(buy_order, sell_order) \cup {"account"}
         /\ baseline_price' = price
  BY <1>2 DEF CallUpdate, Update, StartOver
<1>4. TradeTypeOK'
  BY <1>2, <1>3 DEF TradeTypeOK, StrategyTypeOK, CancelAllOrders, CallRank, Phases
<1>5. BookAgrees'
  BY <1>2 DEF RunningInv, BookAgrees, Tracked
<1>6. HandlerInv' /\ SlotsFreed' /\ PricesReady'
  BY <1>2, <1>3 DEF HandlerInv, SlotsFreed, PricesReady, CancelAllOrders
<1>7. OwedInv'
  BY <1>2 DEF RunningInv, OwedInv, IsFilled
<1>8. IdsInv'
  BY <1>2, <1>3 DEF RunningInv, IdsInv, CancelAllOrders
<1> QED  BY <1>1, <1>2, <1>4, <1>5, <1>6, <1>7, <1>8 DEF RunningInv

\* A request that creates an order has copied it n times, of which the engine knows
\* one.
LEMMA CreateExchange ==
  ASSUME TradeInv, NEW n \in 1..RetryCount, NEW k \in 1..RetryCount, Create(n, k)
  PROVE  /\ ExchangeInv' /\ CountsInv'
         /\ phase \in {"filled", "update"} /\ last_order_index \in Nat
         /\ NextId' = NextId + n /\ k <= n /\ NextId \in Nat
         /\ last_order_index \notin DOMAIN orders
         /\ DOMAIN orders' = DOMAIN orders \cup {last_order_index}
         /\ orders'[last_order_index] = NextId + k - 1
         /\ orders'[last_order_index] \in DOMAIN exchange'
         /\ \A i \in DOMAIN orders : orders'[i] = orders[i] /\ i # last_order_index
         /\ DOMAIN exchange \subseteq DOMAIN exchange'
         /\ \A id \in DOMAIN exchange : exchange'[id] = exchange[id]
         /\ \A id \in DOMAIN exchange' \ DOMAIN exchange : exchange'[id] = "open"
         /\ last_order_index' = last_order_index + 1
         /\ UNCHANGED <<phase, rest, iterator, owed>>
<1> USE DEF TradeInv
<1>1. /\ n \in Nat /\ k \in 1..n /\ n - 1 \in Nat
      /\ exchange' = WithCopies(n) /\ lost' = lost + (n - 1)
      /\ last_order_index \in Nat /\ last_order_index \notin DOMAIN orders
      /\ DOMAIN orders' = DOMAIN orders \cup {last_order_index}
      /\ orders'[last_order_index] = NextId + k - 1
      /\ \A i \in DOMAIN orders : orders'[i] = orders[i]
      /\ restarts' = restarts
  BY TradeAssumption DEF Create, TradeTypeOK, CountsInv
<1>2. /\ ExchangeInv' /\ NextId' = NextId + n
      /\ DOMAIN exchange' = DOMAIN exchange \cup (NextId..(NextId + n - 1))
      /\ \A id \in DOMAIN exchange : exchange'[id] = exchange[id]
      /\ \A id \in NextId..(NextId + n - 1) : exchange'[id] = "open"
  BY <1>1, CopiesKeepIds
<1>3. NextId + k - 1 \in NextId..(NextId + n - 1)
  BY <1>1 DEF ExchangeInv
<1> DEFINE T == NextId..(NextId + n - 1)
           S == T \ {NextId + k - 1}
<1>4. IsFiniteSet(S) /\ Cardinality(S) = n - 1
  <2>1. \A b \in Int : IsFiniteSet(NextId..b) /\ Cardinality(NextId..b) =
          IF NextId > b THEN 0 ELSE b - NextId + 1
    BY FS_Interval DEF ExchangeInv
  <2>2. IsFiniteSet(T) /\ Cardinality(T) = n
    BY <1>1, <2>1 DEF ExchangeInv
  <2>3. NextId + k - 1 \in T
    BY <1>3
  <2> HIDE DEF T
  <2> QED  BY <2>2, <2>3, FS_RemoveElement
<1>5. Orphans' \subseteq Orphans \cup S
  BY <1>1, <1>2 DEF Orphans, Range, Stands
<1>6. CountsInv'
  <2> HIDE DEF S
  <2>1. Cardinality(S) <= n - 1
    BY <1>1, <1>4
  <2>2. lost' \in Nat /\ restarts' \in Nat
        /\ lost' + 2 * restarts' = lost + 2 * restarts + (n - 1)
    BY <1>1 DEF CountsInv
  <2> QED  BY <1>1, <1>4, <1>5, <2>1, <2>2, NewOrphansCounted
<1>7. phase \in {"filled", "update"} /\ last_order_index' = last_order_index + 1
      /\ UNCHANGED <<phase, rest, iterator, owed>>
  BY DEF Create, StrategyRuns
<1>8. /\ DOMAIN exchange \subseteq DOMAIN exchange' /\ orders'[last_order_index] \in DOMAIN exchange'
      /\ \A id \in DOMAIN exchange' \ DOMAIN exchange : exchange'[id] = "open"
  BY <1>1, <1>2, <1>3
<1>9. NextId \in Nat /\ k <= n
  BY <1>1 DEF ExchangeInv
<1> HIDE DEF S, T
<1> QED  BY <1>1, <1>2, <1>6, <1>7, <1>8, <1>9

LEMMA PlaceSellPreserves == ASSUME TradeInv, PlaceSellOrder PROVE TradeInv'
<1> USE DEF TradeInv
<1>1. PICK n \in 1..RetryCount, k \in 1..RetryCount :
        Create(n, k) /\ PlaceSell(last_order_index)
  BY DEF PlaceSellOrder
<1> DEFINE new == last_order_index
<1>2. /\ ExchangeInv' /\ CountsInv'
      /\ phase \in {"filled", "update"} /\ new \in Nat
      /\ NextId' = NextId + n /\ k <= n /\ NextId \in Nat
      /\ new \notin DOMAIN orders
      /\ DOMAIN orders' = DOMAIN orders \cup {new}
      /\ orders'[new] = NextId + k - 1 /\ orders'[new] \in DOMAIN exchange'
      /\ \A i \in DOMAIN orders : orders'[i] = orders[i]
      /\ DOMAIN exchange \subseteq DOMAIN exchange'
      /\ \A id \in DOMAIN exchange : exchange'[id] = exchange[id]
      /\ \A id \in DOMAIN exchange' \ DOMAIN exchange : exchange'[id] = "open"
      /\ new' = new + 1
      /\ UNCHANGED <<phase, rest, iterator, owed>>
  BY <1>1, CreateExchange
<1>3. /\ "sell" \in todo /\ todo' = todo \ {"sell"}
      /\ sell_order' = [index |-> new, price |-> call_price + call_spread]
      /\ "cancel_buy" \notin todo /\ "cancel_sell" \notin todo
      /\ UNCHANGED <<buy_order, baseline_price, order_volume, rsi, call_price,
                     call_spread, call_quantity>>
  BY <1>1 DEF PlaceSell, Due, CallRank, callVars
<1>4. buy_order = None /\ sell_order = None
  BY <1>2, <1>3 DEF RunningInv, SlotsFreed
<1>5. sell_order' \in OrderInfo /\ sell_order' # None
  BY <1>2, <1>3, GridAssumption
     DEF OrderInfo, RunningInv, PricesReady, TradeTypeOK, StrategyTypeOK
<1>6. TradeTypeOK'
  BY <1>2, <1>3, <1>5 DEF TradeTypeOK, StrategyTypeOK, Statuses
<1>7. BookAgrees'
  <2>1. Tracked' = {new} /\ InProgress' = InProgress
    BY <1>2, <1>3, <1>4, <1>5 DEF Tracked, InProgress
  <2>2. DOMAIN orders = InProgress
    BY <1>2, <1>4 DEF RunningInv, BookAgrees, Tracked
  <2> QED  BY <1>2, <2>1, <2>2 DEF BookAgrees
<1>8. HandlerInv' /\ SlotsFreed' /\ PricesReady'
  BY <1>2, <1>3, <1>4 DEF RunningInv, HandlerInv, SlotsFreed, PricesReady
<1>9. OwedInv'
  <2>1. new \notin owed
    BY <1>2 DEF RunningInv, OwedInv
  <2> QED
    BY <1>2, <1>3, <1>4, <2>1
       DEF RunningInv, OwedInv, IsFilled, TradeTypeOK
<1>10. IdsInv'
  BY <1>2, <1>3, <1>4, TradeAssumption DEF RunningInv, IdsInv
<1> QED  BY <1>2, <1>6, <1>7, <1>8, <1>9, <1>10 DEF RunningInv

LEMMA PlaceBuyPreserves == ASSUME TradeInv, PlaceBuyOrder PROVE TradeInv'
<1> USE DEF TradeInv
<1>1. PICK n \in 1..RetryCount, k \in 1..RetryCount :
        Create(n, k) /\ PlaceBuy(last_order_index)
  BY DEF PlaceBuyOrder
<1> DEFINE new == last_order_index
<1>2. /\ ExchangeInv' /\ CountsInv'
      /\ phase \in {"filled", "update"} /\ new \in Nat
      /\ NextId' = NextId + n /\ k <= n /\ NextId \in Nat
      /\ new \notin DOMAIN orders
      /\ DOMAIN orders' = DOMAIN orders \cup {new}
      /\ orders'[new] = NextId + k - 1 /\ orders'[new] \in DOMAIN exchange'
      /\ \A i \in DOMAIN orders : orders'[i] = orders[i]
      /\ DOMAIN exchange \subseteq DOMAIN exchange'
      /\ \A id \in DOMAIN exchange : exchange'[id] = exchange[id]
      /\ \A id \in DOMAIN exchange' \ DOMAIN exchange : exchange'[id] = "open"
      /\ new' = new + 1
      /\ UNCHANGED <<phase, rest, iterator, owed>>
  BY <1>1, CreateExchange
<1>3. /\ todo = {"buy"} /\ todo' = {}
      /\ buy_order' = [index |-> new, price |-> call_price - call_spread]
      /\ UNCHANGED <<sell_order, baseline_price, order_volume, rsi, call_price,
                     call_spread, call_quantity>>
  <2>1. todo \subseteq DOMAIN CallRank /\ Due("buy")
    BY <1>1 DEF PlaceBuy, TradeTypeOK, StrategyTypeOK
  <2>2. todo = {"buy"}
    BY <2>1 DEF Due, CallRank
  <2> QED  BY <1>1, <2>2 DEF PlaceBuy, callVars
<1>4. buy_order = None
  BY <1>2, <1>3 DEF RunningInv, SlotsFreed
<1>5. buy_order' \in OrderInfo /\ buy_order' # None
  BY <1>2, <1>3, GridAssumption
     DEF OrderInfo, RunningInv, PricesReady, TradeTypeOK, StrategyTypeOK
<1>6. TradeTypeOK'
  BY <1>2, <1>3, <1>5 DEF TradeTypeOK, StrategyTypeOK, Statuses
<1>7. BookAgrees'
  <2>1. Tracked' = Tracked \cup {new} /\ InProgress' = InProgress
    BY <1>2, <1>3, <1>4, <1>5 DEF Tracked, InProgress
  <2>2. new \notin InProgress
    BY <1>2 DEF RunningInv, OwedInv, InProgress
  <2> QED  BY <1>2, <2>1, <2>2 DEF RunningInv, BookAgrees
<1>8. HandlerInv' /\ SlotsFreed' /\ PricesReady'
  BY <1>2, <1>3, <1>4 DEF RunningInv, HandlerInv, SlotsFreed, PricesReady
<1>9. OwedInv'
  <2>1. new \notin owed
    BY <1>2 DEF RunningInv, OwedInv
  <2> QED
    BY <1>2, <1>3, <1>4, <2>1
       DEF RunningInv, OwedInv, IsFilled, TradeTypeOK
<1>10. IdsInv'
  <2>1. CASE sell_order # None
    <3>1. sell_order.index \in DOMAIN orders
      BY <1>2, <2>1, SlotsInMap DEF RunningInv
    <3>2. /\ orders'[sell_order.index] = orders[sell_order.index]
          /\ orders[sell_order.index] \in Int
          /\ NextId - orders[sell_order.index] \in 1..RetryCount
      BY <1>2, <1>3, <2>1, <3>1, TradeAssumption
         DEF RunningInv, IdsInv, TradeTypeOK, ExchangeInv
    <3>3. orders'[new] - orders[sell_order.index] \in 1..(2 * RetryCount - 1)
      BY <1>2, <3>2, TradeAssumption
    <3> QED  BY <1>3, <3>2, <3>3 DEF IdsInv
  <2>2. CASE sell_order = None
    BY <1>3, <2>2 DEF IdsInv
  <2> QED  BY <2>1, <2>2
<1> QED  BY <1>2, <1>6, <1>7, <1>8, <1>9, <1>10 DEF RunningInv

\* When the process ends, by itself or killed, no more than two orders of the map
\* stand: those in the slots.
LEMMA StandFromBook == ASSUME TradeInv PROVE StandInv
<1>1. CASE phase = "aborted"
  BY <1>1 DEF TradeInv
<1>2. CASE phase # "aborted"
  <2> DEFINE a == IF buy_order # None THEN buy_order.index ELSE 0
             b == IF sell_order # None THEN sell_order.index ELSE 0
  <2>1. a \in Nat /\ b \in Nat
    BY <1>2, SlotsInMap DEF TradeInv, RunningInv, OrderInfo
  <2>2. \A i \in DOMAIN orders \ InProgress : i \in {a, b}
    BY <1>2, SlotsInMap DEF TradeInv, RunningInv
  <2>3. \A i \in InProgress : ~Stands(orders[i])
    BY <1>2 DEF TradeInv, RunningInv, OwedInv, InProgress, IsFilled, Stands
  <2> HIDE DEF a, b
  <2> QED  BY <2>1, <2>2, <2>3 DEF StandInv
<1> QED  BY <1>1, <1>2

\* The process aborts, and the exchange has made no order of the map stand again.
LEMMA AbortPreserves ==
  ASSUME TradeInv, ExchangeInv', CountsInv', phase' = "aborted",
         DOMAIN exchange \subseteq DOMAIN exchange',
         \A id \in DOMAIN exchange' : exchange'[id] \in Statuses,
         \A id \in DOMAIN exchange : Stands(id)' => Stands(id),
         UNCHANGED <<orders, last_order_index, rest, strategyVars>>
  PROVE  TradeInv'
<1>1. TradeTypeOK'
  BY DEF TradeInv, TradeTypeOK, StrategyTypeOK, strategyVars, callVars, Phases
<1>2. StandInv'
  BY StandFromBook DEF StandInv, TradeInv, TradeTypeOK
<1> QED  BY <1>1, <1>2 DEF TradeInv

LEMMA CreateFailsPreserves == ASSUME TradeInv, CreateFails PROVE TradeInv'
<1> USE DEF TradeInv
<1>1. PICK n \in 0..RetryCount : exchange' = WithCopies(n) /\ lost' = lost + n
  BY DEF CreateFails
<1>2. n \in Nat /\ NextId \in Nat
  BY <1>1, TradeAssumption DEF ExchangeInv
<1>3. /\ ExchangeInv' /\ NextId' = NextId + n
      /\ DOMAIN exchange' = DOMAIN exchange \cup (NextId..(NextId + n - 1))
      /\ \A id \in DOMAIN exchange : exchange'[id] = exchange[id]
      /\ \A id \in NextId..(NextId + n - 1) : exchange'[id] = "open"
  BY <1>1, <1>2, CopiesKeepIds
<1>4. /\ UNCHANGED <<orders, last_order_index, rest, restarts, strategyVars>>
      /\ phase' = "aborted"
  BY DEF CreateFails
<1> DEFINE T == NextId..(NextId + n - 1)
<1>5. CountsInv'
  <2>1. \A b \in Int : IsFiniteSet(NextId..b) /\ Cardinality(NextId..b) =
          IF NextId > b THEN 0 ELSE b - NextId + 1
    BY <1>2, FS_Interval
  <2>2. IsFiniteSet(T) /\ Cardinality(T) <= n
    BY <1>2, <2>1
  <2>3. Orphans' \subseteq Orphans \cup T
    BY <1>3, <1>4 DEF Orphans, Range, Stands
  <2>4. lost' \in Nat /\ restarts' \in Nat
        /\ lost' + 2 * restarts' = lost + 2 * restarts + n
    BY <1>1, <1>2, <1>4 DEF CountsInv
  <2> HIDE DEF T
  <2> QED  BY <1>2, <2>2, <2>3, <2>4, NewOrphansCounted
<1>6. /\ DOMAIN exchange \subseteq DOMAIN exchange'
      /\ \A id \in DOMAIN exchange' : exchange'[id] \in Statuses
      /\ \A id \in DOMAIN exchange : Stands(id)' => Stands(id)
  BY <1>3 DEF TradeTypeOK, Statuses, Stands
<1> QED  BY <1>3, <1>4, <1>5, <1>6, AbortPreserves

\* The status of one order that stood is another.
LEMMA StatusChanges ==
  ASSUME ExchangeInv, NEW id \in DOMAIN exchange, Stands(id), NEW status \in Statuses,
         exchange' = [exchange EXCEPT ![id] = status]
  PROVE  /\ ExchangeInv' /\ NextId' = NextId /\ DOMAIN exchange' = DOMAIN exchange
         /\ exchange'[id] = status
         /\ \A j \in DOMAIN exchange \ {id} : exchange'[j] = exchange[j]
         /\ \A j \in DOMAIN exchange : Stands(j)' => Stands(j)
         /\ \A j \in DOMAIN exchange : IsFilled(j) => IsFilled(j)'
BY DEF ExchangeInv, NextId, Stands, IsFilled

LEMMA CancelFailsPreserves == ASSUME TradeInv, CancelFails PROVE TradeInv'
<1> USE DEF TradeInv
<1>1. /\ UNCHANGED <<orders, last_order_index, rest, lost, restarts, strategyVars>>
      /\ phase' = "aborted"
  BY DEF CancelFails, history
<1>2. CASE UNCHANGED exchange
  <2>1. ExchangeInv' /\ CountsInv'
    BY <1>1, <1>2, ExchangeAlone
  <2> QED  BY <1>1, <1>2, <2>1, AbortPreserves DEF TradeTypeOK, Stands
<1>3. CASE \E slot \in {buy_order, sell_order} :
             /\ CanCancel(slot.index)
             /\ exchange' = [exchange EXCEPT ![CancelId(slot.index)] = "canceled"]
  <2>1. PICK id \in DOMAIN exchange :
          Stands(id) /\ exchange' = [exchange EXCEPT ![id] = "canceled"]
    BY <1>3 DEF CanCancel
  <2>2. /\ ExchangeInv' /\ DOMAIN exchange' = DOMAIN exchange
        /\ exchange'[id] = "canceled"
        /\ \A j \in DOMAIN exchange \ {id} : exchange'[j] = exchange[j]
        /\ \A j \in DOMAIN exchange : Stands(j)' => Stands(j)
    BY <2>1, StatusChanges DEF Statuses
  <2>3. CountsInv'
    <3>1. Orphans' \subseteq Orphans
      BY <1>1, <2>2 DEF Orphans, Range
    <3> QED  BY <1>1, <3>1, NoNewOrphans
  <2>4. \A j \in DOMAIN exchange' : exchange'[j] \in Statuses
    BY <2>2 DEF TradeTypeOK, Statuses
  <2> QED  BY <1>1, <2>2, <2>3, <2>4, AbortPreserves
<1> QED  BY <1>2, <1>3 DEF CancelFails

LEMMA QueryFailsPreserves == ASSUME TradeInv, QueryFails PROVE TradeInv'
<1>1. /\ UNCHANGED <<orders, last_order_index, rest, lost, restarts, exchange, strategyVars>>
      /\ phase' = "aborted"
  BY DEF QueryFails, history
<1>2. ExchangeInv' /\ CountsInv'
  BY <1>1, ExchangeAlone
<1> QED  BY <1>1, <1>2, AbortPreserves DEF TradeInv, TradeTypeOK, Stands

\* What the cancellation of order i does to the map and the exchange: the order
\* with the low bits of i's id, if it is another, is an orphan that i replaces.
LEMMA CancelExchange ==
  ASSUME TradeInv, NEW i \in DOMAIN orders \ InProgress, Cancel(i)
  PROVE  /\ ExchangeInv' /\ CountsInv' /\ NextId' = NextId
         /\ phase \in {"filled", "update"}
         /\ DOMAIN exchange' = DOMAIN exchange
         /\ \A j \in DOMAIN exchange' : exchange'[j] \in Statuses
         /\ \A j \in DOMAIN exchange : IsFilled(j) => IsFilled(j)'
         /\ DOMAIN orders' = DOMAIN orders \ {i}
         /\ \A j \in DOMAIN orders' : orders'[j] = orders[j]
         /\ rest' \subseteq DOMAIN orders'
         /\ UNCHANGED <<last_order_index, phase, iterator, owed>>
<1> USE DEF TradeInv
<1> DEFINE c == CancelId(i)
<1>1. /\ phase \in {"filled", "update"} /\ RunningInv
      /\ c \in DOMAIN exchange /\ Stands(c)
      /\ exchange' = [exchange EXCEPT ![c] = "canceled"]
      /\ DOMAIN orders' = DOMAIN orders \ {i}
      /\ \A j \in DOMAIN orders' : orders'[j] = orders[j]
      /\ UNCHANGED <<last_order_index, phase, iterator, owed, lost, restarts>>
  BY DEF Cancel, CanCancel, StrategyRuns, OrdersWithout, Restrict, history
<1>2. rest' \subseteq DOMAIN orders'
  BY <1>1 DEF Cancel, TradeTypeOK
<1>3. /\ ExchangeInv' /\ NextId' = NextId /\ DOMAIN exchange' = DOMAIN exchange
      /\ exchange'[c] = "canceled"
      /\ \A j \in DOMAIN exchange \ {c} : exchange'[j] = exchange[j]
      /\ \A j \in DOMAIN exchange : Stands(j)' => Stands(j)
      /\ \A j \in DOMAIN exchange : IsFilled(j) => IsFilled(j)'
  BY <1>1, StatusChanges DEF Statuses
<1>4. \A j \in DOMAIN exchange' : exchange'[j] \in Statuses
  BY <1>3 DEF TradeTypeOK, Statuses
<1>5. Orphans' \subseteq (Orphans \cup {orders[i]}) \ {c}
  BY <1>1, <1>3 DEF Orphans, Range, Stands
<1>6. CountsInv'
  <2>1. CASE c = orders[i]
    <3>1. Orphans' \subseteq Orphans
      BY <1>5, <2>1
    <3> QED  BY <1>1, <3>1, NoNewOrphans
  <2>2. CASE c # orders[i]
    <3>1. /\ orders[i] \in DOMAIN exchange /\ orders[i] \in Nat
          /\ \A j \in DOMAIN orders : orders[j] \in Nat
      BY TradeAssumption DEF TradeTypeOK, ExchangeInv
    <3>2. c \in Nat /\ c <= orders[i] - IdWidth
      BY <2>2, <3>1, LowBits, TradeAssumption DEF CancelId
    <3>3. ASSUME NEW j \in DOMAIN orders, orders[j] = c PROVE FALSE
      <4>1. j \notin InProgress
        BY <1>1, <3>3 DEF RunningInv, OwedInv, InProgress, IsFilled, Stands
      <4>2. orders[j] - orders[i] \in (1 - 2 * RetryCount)..(2 * RetryCount - 1)
        <5>1. orders[i] - orders[j] \in 1..(2 * RetryCount - 1)
              \/ orders[j] - orders[i] \in 1..(2 * RetryCount - 1)
              \/ i = j
          BY <1>1, <4>1, SlotsInMap DEF RunningInv, IdsInv
        <5> QED  BY <3>1, <5>1, TradeAssumption
      <4> QED  BY <3>1, <3>2, <3>3, <4>2, TradeAssumption
    <3>4. c \in Orphans
      BY <1>1, <3>3 DEF Orphans, Range
    <3>5. Orphans' \subseteq (Orphans \ {c}) \cup {orders[i]}
      BY <1>5
    <3> HIDE DEF c
    <3> QED  BY <1>1, <3>4, <3>5, OrphanReplaced
  <2> QED  BY <2>1, <2>2
<1> QED  BY <1>1, <1>2, <1>3, <1>4, <1>6

LEMMA CancelBuyPreserves == ASSUME TradeInv, CancelBuyOrder PROVE TradeInv'
<1> USE DEF TradeInv
<1> DEFINE i == buy_order.index
<1>1. /\ Due("cancel_buy") /\ "cancel_buy" \in todo /\ Cancel(i)
      /\ buy_order' = None /\ todo' = todo \ {"cancel_buy"}
      /\ UNCHANGED <<sell_order, baseline_price, order_volume, rsi, callVars>>
      /\ RunningInv /\ phase # "aborted"
  BY DEF CancelBuyOrder, CancelBuy, Due, Cancel, StrategyRuns
<1>2. buy_order # None /\ i \in DOMAIN orders \ InProgress
  BY <1>1, SlotsInMap DEF RunningInv, HandlerInv
<1>3. /\ ExchangeInv' /\ CountsInv' /\ NextId' = NextId
      /\ phase \in {"filled", "update"}
      /\ DOMAIN exchange' = DOMAIN exchange
      /\ \A j \in DOMAIN exchange' : exchange'[j] \in Statuses
      /\ \A j \in DOMAIN exchange : IsFilled(j) => IsFilled(j)'
      /\ DOMAIN orders' = DOMAIN orders \ {i}
      /\ \A j \in DOMAIN orders' : orders'[j] = orders[j]
      /\ rest' \subseteq DOMAIN orders'
      /\ UNCHANGED <<last_order_index, phase, iterator, owed>>
  BY <1>1, <1>2, CancelExchange
<1>4. sell_order # None => sell_order.index \in DOMAIN orders' \ InProgress
  BY <1>1, <1>2, <1>3, SlotsInMap DEF RunningInv, IdsInv, TradeTypeOK, ExchangeInv
<1>5. TradeTypeOK'
  BY <1>1, <1>3 DEF TradeTypeOK, StrategyTypeOK, callVars, Statuses
<1>6. BookAgrees'
  <2>1. Tracked = Tracked' \cup {i} /\ i \notin Tracked' /\ InProgress' = InProgress
    BY <1>1, <1>2, <1>3, <1>4 DEF Tracked, InProgress
  <2> QED  BY <1>1, <1>2, <1>3, <2>1 DEF RunningInv, BookAgrees
<1>7. HandlerInv' /\ SlotsFreed' /\ PricesReady'
  BY <1>1, <1>3 DEF RunningInv, HandlerInv, SlotsFreed, PricesReady, callVars
<1>8. OwedInv'
  BY <1>1, <1>2, <1>3 DEF RunningInv, OwedInv, InProgress, TradeTypeOK
<1>9. IdsInv'
  BY <1>1, <1>3, <1>4 DEF RunningInv, IdsInv
<1> QED  BY <1>3, <1>5, <1>6, <1>7, <1>8, <1>9 DEF RunningInv

LEMMA CancelSellPreserves == ASSUME TradeInv, CancelSellOrder PROVE TradeInv'
<1> USE DEF TradeInv
<1> DEFINE i == sell_order.index
<1>1. /\ Due("cancel_sell") /\ "cancel_sell" \in todo /\ Cancel(i)
      /\ sell_order' = None /\ todo' = todo \ {"cancel_sell"}
      /\ UNCHANGED <<buy_order, baseline_price, order_volume, rsi, callVars>>
      /\ RunningInv /\ phase # "aborted"
  BY DEF CancelSellOrder, CancelSell, Due, Cancel, StrategyRuns
<1>2. sell_order # None /\ i \in DOMAIN orders \ InProgress
  BY <1>1, SlotsInMap DEF RunningInv, HandlerInv
<1>3. /\ ExchangeInv' /\ CountsInv' /\ NextId' = NextId
      /\ phase \in {"filled", "update"}
      /\ DOMAIN exchange' = DOMAIN exchange
      /\ \A j \in DOMAIN exchange' : exchange'[j] \in Statuses
      /\ \A j \in DOMAIN exchange : IsFilled(j) => IsFilled(j)'
      /\ DOMAIN orders' = DOMAIN orders \ {i}
      /\ \A j \in DOMAIN orders' : orders'[j] = orders[j]
      /\ rest' \subseteq DOMAIN orders'
      /\ UNCHANGED <<last_order_index, phase, iterator, owed>>
  BY <1>1, <1>2, CancelExchange
<1>4. buy_order # None => buy_order.index \in DOMAIN orders' \ InProgress
  BY <1>1, <1>2, <1>3, SlotsInMap DEF RunningInv, IdsInv, TradeTypeOK, ExchangeInv
<1>5. TradeTypeOK'
  BY <1>1, <1>3 DEF TradeTypeOK, StrategyTypeOK, callVars, Statuses
<1>6. BookAgrees'
  <2>1. Tracked = Tracked' \cup {i} /\ i \notin Tracked' /\ InProgress' = InProgress
    BY <1>1, <1>2, <1>3, <1>4 DEF Tracked, InProgress
  <2> QED  BY <1>1, <1>2, <1>3, <2>1 DEF RunningInv, BookAgrees
<1>7. HandlerInv' /\ SlotsFreed' /\ PricesReady'
  BY <1>1, <1>3 DEF RunningInv, HandlerInv, SlotsFreed, PricesReady, callVars
<1>8. OwedInv'
  BY <1>1, <1>2, <1>3 DEF RunningInv, OwedInv, InProgress, TradeTypeOK
<1>9. IdsInv'
  BY <1>1, <1>3, <1>4 DEF RunningInv, IdsInv
<1> QED  BY <1>3, <1>5, <1>6, <1>7, <1>8, <1>9 DEF RunningInv

\* get_account has returned, and place_initial_orders computes its one order.
LEMMA AccountPreserves ==
  ASSUME TradeInv, NEW a \in Accounts, GetAccount(a)
  PROVE  TradeInv'
<1> USE DEF TradeInv
<1> DEFINE target == TargetPosition(a.balance, a.position)
           gap    == IF target < a.position THEN a.position - target ELSE target - a.position
<1>1. /\ "account" \in todo /\ "cancel_buy" \notin todo /\ "cancel_sell" \notin todo
      /\ order_volume' = target \div GridCount
      /\ call_quantity' \in {order_volume', gap}
      /\ todo' \in {{"buy"}, {"sell"}} /\ call_spread' = 0
      /\ UNCHANGED <<buy_order, sell_order, baseline_price, rsi, call_price>>
      /\ UNCHANGED <<engineVars, exchange, history>>
      /\ phase \in {"filled", "update"}
  BY DEF GetAccount, PlaceInitialOrders, OrderVolume, Due, CallRank, SideTowards, StrategyRuns
<1>2. phase = "update" /\ buy_order = None /\ sell_order = None /\ call_price \in Nat \ {0}
  BY <1>1 DEF RunningInv, HandlerInv, SlotsFreed, PricesReady
<1>3. target \in Nat
  <2>1. a.balance \in Nat /\ a.position \in Nat
    BY TradeAssumption
  <2>2. a.balance + a.position * call_price \in Nat
    BY <1>2, <2>1
  <2>3. (a.balance + a.position * call_price) \div call_price \in Nat
    BY <1>2, <2>2, QuotientIsNatural
  <2> QED  BY <2>3, QuotientIsNatural DEF TargetPosition
<1>4. order_volume' \in Int /\ call_quantity' \in Int
  <2>1. a.position \in Nat
    BY TradeAssumption
  <2>2. target \div GridCount \in Nat
    BY <1>3, QuotientIsNatural, GridAssumption
  <2>3. gap \in Int
    BY <1>3, <2>1
  <2> QED  BY <1>1, <2>2, <2>3
<1>5. ExchangeInv' /\ CountsInv'
  BY <1>1, ExchangeAlone DEF engineVars, history
<1>6. TradeTypeOK'
  BY <1>1, <1>4 DEF TradeTypeOK, StrategyTypeOK, CallRank, engineVars
<1>7. BookAgrees'
  BY <1>1, <1>2 DEF RunningInv, BookAgrees, Tracked, InProgress, engineVars
<1>8. HandlerInv' /\ SlotsFreed' /\ PricesReady' /\ IdsInv'
  BY <1>1, <1>2 DEF HandlerInv, SlotsFreed, PricesReady, IdsInv, engineVars
<1>9. OwedInv'
  BY <1>1, <1>2 DEF RunningInv, OwedInv, IsFilled, engineVars, history
<1> QED  BY <1>1, <1>2, <1>5, <1>6, <1>7, <1>8, <1>9 DEF RunningInv, engineVars

\* The exchange fills an order, in part or as a whole, whatever the process does.
LEMMA FillPreserves ==
  ASSUME TradeInv, NEW id \in DOMAIN exchange, ExchangeFills(id)
  PROVE  TradeInv'
<1> USE DEF TradeInv
<1>1. PICK part \in {"partial", "filled"} : exchange' = [exchange EXCEPT ![id] = part]
  BY DEF ExchangeFills
<1>2. Stands(id) /\ UNCHANGED <<engineVars, history, strategyVars>>
  BY DEF ExchangeFills
<1>3. /\ ExchangeInv' /\ NextId' = NextId /\ DOMAIN exchange' = DOMAIN exchange
      /\ exchange'[id] = part
      /\ \A j \in DOMAIN exchange \ {id} : exchange'[j] = exchange[j]
      /\ \A j \in DOMAIN exchange : Stands(j)' => Stands(j)
      /\ \A j \in DOMAIN exchange : IsFilled(j) => IsFilled(j)'
  BY <1>1, <1>2, StatusChanges DEF Statuses
<1>4. CountsInv'
  <2>1. Orphans' \subseteq Orphans
    BY <1>2, <1>3 DEF Orphans, Range, engineVars
  <2> QED  BY <1>2, <2>1, NoNewOrphans DEF history
<1>5. TradeTypeOK'
  BY <1>2, <1>3 DEF TradeTypeOK, StrategyTypeOK, strategyVars, callVars, engineVars, Statuses
<1>6. phase' = phase /\ (phase = "aborted" => StandInv')
  BY <1>2, <1>3 DEF StandInv, engineVars, TradeTypeOK
<1>7. ASSUME phase # "aborted" PROVE RunningInv'
  <2>1. BookAgrees' /\ HandlerInv' /\ SlotsFreed' /\ PricesReady'
    BY <1>2, <1>7 DEF RunningInv, BookAgrees, Tracked, InProgress, HandlerInv, SlotsFreed,
       PricesReady, strategyVars, callVars, engineVars
  <2>2. OwedInv'
    BY <1>2, <1>3, <1>7
       DEF RunningInv, OwedInv, strategyVars, engineVars, history,
           TradeTypeOK
  <2>3. IdsInv'
    BY <1>2, <1>3, <1>7 DEF RunningInv, IdsInv, strategyVars, engineVars
  <2> QED  BY <2>1, <2>2, <2>3 DEF RunningInv
<1> QED  BY <1>3, <1>4, <1>5, <1>6, <1>7

\* The process is started again: what stood of its map are orphans from now on.
LEMMA RestartPreserves == ASSUME TradeInv, Restart PROVE TradeInv'
<1> USE DEF TradeInv
<1>1. /\ DOMAIN orders' = {} /\ last_order_index' = 0 /\ phase' = "sleep"
      /\ rest' = {} /\ owed' = {} /\ buy_order' = None /\ sell_order' = None
      /\ todo' = {} /\ baseline_price' = 0 /\ order_volume' = None
      /\ call_price' = 0 /\ call_spread' = 0 /\ call_quantity' = 0
      /\ restarts' = restarts + 1 /\ UNCHANGED <<exchange, lost>>
  BY DEF Restart
<1>2. ExchangeInv'
  BY <1>1 DEF ExchangeInv, NextId
<1>3. TradeTypeOK'
  BY <1>1 DEF TradeTypeOK, StrategyTypeOK, Phases
<1>4. CountsInv'
  <2>1. PICK a \in Nat, b \in Nat :
          \A i \in DOMAIN orders : Stands(orders[i]) => i \in {a, b}
    BY StandFromBook DEF StandInv
  <2> DEFINE S == {orders[a], orders[b]}
  <2>2. Orphans' \subseteq Orphans \cup S
    BY <1>1, <2>1 DEF Orphans, Range, Stands
  <2>3. IsFiniteSet(S) /\ Cardinality(S) <= 2
    <3>1. IsFiniteSet({orders[a]}) /\ Cardinality({orders[a]}) = 1
      BY FS_Singleton
    <3>2. /\ IsFiniteSet({orders[a]} \cup {orders[b]})
          /\ Cardinality({orders[a]} \cup {orders[b]}) \in {1, 2}
      BY <3>1, FS_AddElement
    <3>3. S = {orders[a]} \cup {orders[b]}
      OBVIOUS
    <3> QED  BY <3>2, <3>3
  <2>4. lost' \in Nat /\ restarts' \in Nat
        /\ lost' + 2 * restarts' = lost + 2 * restarts + 2
    BY <1>1 DEF CountsInv
  <2> HIDE DEF S
  <2> QED  BY <2>2, <2>3, <2>4, NewOrphansCounted
<1>5. RunningInv'
  BY <1>1 DEF RunningInv, BookAgrees, Tracked, InProgress, HandlerInv, SlotsFreed,
     PricesReady, OwedInv, IdsInv
<1> QED  BY <1>1, <1>2, <1>3, <1>4, <1>5

LEMMA StutterPreserves == ASSUME TradeInv, UNCHANGED vars PROVE TradeInv'
<1>1. UNCHANGED <<engineVars, exchange, history, strategyVars>>
  BY DEF vars
<1>2. TradeTypeOK' /\ ExchangeInv' /\ CountsInv'
  BY <1>1 DEF TradeInv, TradeTypeOK, StrategyTypeOK, ExchangeInv, CountsInv,
     OrphansBounded, Orphans, Stands, NextId, engineVars, history, strategyVars, callVars
<1>3. phase' = phase /\ (phase = "aborted" => StandInv')
  BY <1>1 DEF TradeInv, StandInv, Stands, engineVars
<1>4. phase # "aborted" => RunningInv'
  BY <1>1 DEF TradeInv, RunningInv, BookAgrees, Tracked, InProgress, HandlerInv,
     SlotsFreed, PricesReady, OwedInv, IsFilled, IdsInv, NextId,
     engineVars, history, strategyVars, callVars
<1> QED  BY <1>2, <1>3, <1>4 DEF TradeInv

LEMMA TradeNext == TradeInv /\ [Next]_vars => TradeInv'
<1> SUFFICES ASSUME TradeInv, [Next]_vars PROVE TradeInv'
  OBVIOUS
<1>1. CASE Engine
  BY <1>1, LoopPreserves, ReportPreserves, ErasePreserves, UpdatePreserves DEF Engine
<1>2. CASE Requests
  BY <1>2, PlaceSellPreserves, PlaceBuyPreserves, CreateFailsPreserves, CancelBuyPreserves,
     CancelSellPreserves, CancelFailsPreserves, AccountPreserves, QueryFailsPreserves
     DEF Requests
<1>3. CASE \E id \in DOMAIN exchange : ExchangeFills(id)
  BY <1>3, FillPreserves
<1>4. CASE Restart
  BY <1>4, RestartPreserves
<1>5. CASE UNCHANGED vars
  BY <1>5, StutterPreserves
<1> QED  BY <1>1, <1>2, <1>3, <1>4, <1>5 DEF Next

THEOREM TradeInvariance == Spec => []TradeInv
BY TradeInit, TradeNext, PTL DEF Spec

-----------------------------------------------------------------------------
(* What the invariant gives *)

\* The state of the strategy and of the engine has its types, every order in the map is
\* one the exchange knows, and the loop of update_orders only has keys of the map left.
THEOREM TradeTypes == Spec => []TradeTypeOK
<1>1. TradeInv => TradeTypeOK
  BY DEF TradeInv
<1> QED  BY <1>1, TradeInvariance, PTL

\* Between any two requests, whatever failed before, the engine's map has the orders
\* in the strategy's slots and the one being reported, so TradeBroker::cancel finds
\* the index it looks up.
THEOREM BookAgreement == Spec => []BookAgrees
<1>1. TradeInv => BookAgrees
  BY DEF TradeInv, RunningInv, BookAgrees
<1> QED  BY <1>1, TradeInvariance, PTL

\* Every order that stands on the exchange without the engine's knowledge is
\* accounted for by a lost reply or a restart, although request_until repeats
\* requests that have been carried out and cancel may hit an order with another id.
THEOREM OrphansAreCounted == Spec => []OrphansBounded
<1>1. TradeInv => OrphansBounded
  BY DEF TradeInv, CountsInv
<1> QED  BY <1>1, TradeInvariance, PTL

\* Of what the contract of IBroker speaks of, a step that makes no call changes
\* nothing.
LEMMA ContractStutters ==
  ASSUME UNCHANGED <<last_order_index, orders, phase, iterator>>
  PROVE  UNCHANGED Contract!vars
BY DEF Contract!vars

LEMMA LoopIsSilent ==
  ASSUME WakeUp \/ EndPoll \/ UpdateReturns \/ (\E i \in rest : SkipOrder(i))
         \/ (\E price \in Prices : CallUpdate(price))
  PROVE  UNCHANGED Contract!vars
BY DEF Contract!vars, WakeUp, EndPoll, UpdateReturns, SkipOrder, CallUpdate

LEMMA ReportIsReport ==
  ASSUME TradeInv, NEW i \in rest, ReportFilled(i)
  PROVE  Contract!Report(i) /\ i \in DOMAIN orders
BY DEF Contract!Report, ReportFilled, TradeInv, TradeTypeOK

LEMMA EraseIsEndReport ==
  ASSUME TradeInv, EraseFilled
  PROVE  Contract!EndReport
<1>1. iterator \in Nat
  BY DEF TradeInv, TradeTypeOK, RunningInv, OwedInv, EraseFilled
<1> QED
  BY <1>1 DEF Contract!EndReport, EraseFilled, OrdersWithout, Restrict

LEMMA CreateIsPlace ==
  ASSUME TradeInv, PlaceSellOrder \/ PlaceBuyOrder
  PROVE  Contract!Place
BY DEF Contract!Place, PlaceSellOrder, PlaceBuyOrder, Create

LEMMA CancelIsCancel ==
  ASSUME TradeInv, CancelBuyOrder \/ CancelSellOrder
  PROVE  \E i \in DOMAIN orders : Contract!Cancel(i)
<1>1. PICK slot \in {buy_order, sell_order} :
        slot # None /\ Cancel(slot.index) /\ slot.index \in DOMAIN orders \ InProgress
  BY SlotsInMap
     DEF TradeInv, RunningInv, HandlerInv, CancelBuyOrder, CancelSellOrder, Due, Cancel,
         StrategyRuns
<1>2. slot.index # IF phase = "filled" THEN iterator ELSE -1
  BY <1>1 DEF InProgress, TradeInv, TradeTypeOK
<1>3. Contract!Cancel(slot.index)
  BY <1>1, <1>2, CancelExchange
     DEF Contract!Cancel, Cancel, OrdersWithout, Restrict
<1> QED  BY <1>1, <1>3

\* Until the process is started again, the engine is a broker as IBroker's callers
\* expect it, for any number of orders, lost replies and fills between the steps.
THEOREM TradeKeepsContract == Spec => KeepsContract
<1>1. ASSUME TradeInv, [Next]_vars
      PROVE  [Contract!Next \/ phase' = "aborted" \/ Restart]_(Contract!vars)
  <2>1. CASE Engine
    BY <1>1, <2>1, LoopIsSilent, ReportIsReport, EraseIsEndReport
       DEF Engine, Contract!Next
  <2>2. CASE Requests
    <3>1. CASE PlaceSellOrder \/ PlaceBuyOrder
      BY <1>1, <3>1, CreateIsPlace DEF Contract!Next
    <3>2. CASE CancelBuyOrder \/ CancelSellOrder
      BY <1>1, <3>2, CancelIsCancel DEF Contract!Next
    <3>3. CASE CreateFails \/ CancelFails \/ QueryFails
      BY <3>3 DEF CreateFails, CancelFails, QueryFails
    <3>4. CASE \E a \in Accounts : GetAccount(a)
      BY <3>4, ContractStutters DEF GetAccount, engineVars
    <3> QED  BY <2>2, <3>1, <3>2, <3>3, <3>4 DEF Requests
  <2>3. CASE \E id \in DOMAIN exchange : ExchangeFills(id)
    BY <2>3, ContractStutters DEF ExchangeFills, engineVars
  <2>4. CASE UNCHANGED vars
    BY <2>4, ContractStutters DEF vars, engineVars
  <2> QED  BY <1>1, <2>1, <2>2, <2>3, <2>4 DEF Next
<1> QED  BY <1>1, TradeInvariance, PTL DEF Spec, KeepsContract

\* No other order that stands has the id that is left of an order's when cancel cuts
\* it to its low bits.
IdsDistinguished ==
  \A id \in DOMAIN exchange : \A i \in DOMAIN orders :
    id = orders[i] % IdWidth => id = orders[i] \/ ~Stands(id)

\* Then a cancellation is of the order it is meant for, which stood until then.
LEMMA CancelHitsItsOrder ==
  ASSUME TradeInv, IdsDistinguished, CancelBuyOrder \/ CancelSellOrder
  PROVE  \E j \in DOMAIN orders :
           /\ Stands(orders[j]) /\ exchange'[orders[j]] = "canceled"
           /\ DOMAIN orders' = DOMAIN orders \ {j}
           /\ UNCHANGED <<phase, iterator, history>>
<1>1. PICK j \in DOMAIN orders : Cancel(j)
  BY SlotsInMap
     DEF TradeInv, RunningInv, HandlerInv, CancelBuyOrder, CancelSellOrder, Due, Cancel,
         StrategyRuns
<1>2. CancelId(j) = orders[j] /\ orders[j] \in DOMAIN exchange /\ Stands(orders[j])
  BY <1>1 DEF Cancel, CanCancel, CancelId, IdsDistinguished
<1>3. /\ exchange'[orders[j]] = "canceled" /\ DOMAIN orders' = DOMAIN orders \ {j}
      /\ UNCHANGED <<phase, iterator, history>>
  BY <1>1, <1>2 DEF Cancel, OrdersWithout, Restrict
<1> QED  BY <1>2, <1>3

\* As long as that is so, no order leaves the map but by its report or by its
\* cancellation on the exchange, however fills and cancellations race.
THEOREM DropsAreKnown == Spec /\ []IdsDistinguished => NothingDroppedSilently
<1> DEFINE Known(i) == \/ phase = "filled" /\ i = iterator
                       \/ exchange'[orders[i]] = "canceled"
           KnownDrops == \A i \in DOMAIN orders :
                           restarts' = restarts /\ i \notin DOMAIN orders' => Known(i)
<1>1. ASSUME TradeInv, IdsDistinguished, Next PROVE KnownDrops
  <2>1. CASE UNCHANGED orders
    BY <2>1
  <2>2. CASE EraseFilled
    BY <2>2 DEF EraseFilled, OrdersWithout, Restrict
  <2>3. CASE PlaceSellOrder \/ PlaceBuyOrder
    BY <2>3 DEF PlaceSellOrder, PlaceBuyOrder, Create
  <2>4. CASE CancelBuyOrder \/ CancelSellOrder
    BY <1>1, <2>4, CancelHitsItsOrder
  <2>5. CASE Restart
    BY <1>1, <2>5 DEF Restart, TradeInv, CountsInv
  <2>6. Engine => EraseFilled \/ UNCHANGED orders
    BY DEF Engine, WakeUp, EndPoll, UpdateReturns, SkipOrder, ReportFilled, CallUpdate
  <2>7. Requests => \/ PlaceSellOrder \/ PlaceBuyOrder
                    \/ CancelBuyOrder \/ CancelSellOrder \/ UNCHANGED orders
    BY DEF Requests, CreateFails, CancelFails, GetAccount, QueryFails, engineVars
  <2>8. (\E id \in DOMAIN exchange : ExchangeFills(id)) => UNCHANGED orders
    BY DEF ExchangeFills, engineVars
  <2>9. UNCHANGED vars => UNCHANGED orders
    BY DEF vars, engineVars
  <2> QED  BY <1>1, <2>1, <2>2, <2>3, <2>4, <2>5, <2>6, <2>7, <2>8, <2>9 DEF Next
<1>2. TradeInv /\ IdsDistinguished /\ [Next]_vars => [KnownDrops]_vars
  BY <1>1
<1> QED  BY <1>2, TradeInvariance, PTL DEF Spec, NothingDroppedSilently

\* An order that was filled when the poll began has been reported or is still in the
\* map, and an order leaves the map after its report.
OwedKept ==
  phase # "aborted" =>
    /\ owed \subseteq reported \cup DOMAIN orders
    /\ phase = "filled" => iterator \in reported

LEMMA OwedKeptNext ==
  TradeInv /\ IdsDistinguished /\ OwedKept /\ [Next]_vars => OwedKept'
<1> SUFFICES ASSUME TradeInv, IdsDistinguished, OwedKept, [Next]_vars PROVE OwedKept'
  OBVIOUS
<1>1. CASE Engine
  <2>1. CASE WakeUp \/ EndPoll \/ UpdateReturns
    BY <2>1 DEF WakeUp, EndPoll, UpdateReturns, history, OwedKept
  <2>2. CASE EraseFilled
    BY <2>2 DEF EraseFilled, OrdersWithout, Restrict, history, OwedKept
  <2>3. CASE \E i \in rest : SkipOrder(i)
    BY <2>3 DEF SkipOrder, history, OwedKept
  <2>4. CASE \E i \in rest : ReportFilled(i)
    BY <2>4 DEF ReportFilled, OwedKept
  <2>5. CASE \E price \in Prices : CallUpdate(price)
    BY <2>5 DEF CallUpdate, history, OwedKept
  <2> QED  BY <1>1, <2>1, <2>2, <2>3, <2>4, <2>5 DEF Engine
<1>2. CASE Requests
  <2>1. CASE PlaceSellOrder \/ PlaceBuyOrder
    <3>1. /\ DOMAIN orders' = DOMAIN orders \cup {last_order_index}
          /\ UNCHANGED <<phase, iterator, owed, reported>>
      BY <2>1 DEF PlaceSellOrder, PlaceBuyOrder, Create
    <3> QED  BY <3>1 DEF OwedKept
\* What is cancelled stood, and what is owed is filled.
  <2>2. CASE CancelBuyOrder \/ CancelSellOrder
    <3>1. PICK j \in DOMAIN orders :
            /\ Stands(orders[j]) /\ DOMAIN orders' = DOMAIN orders \ {j}
            /\ UNCHANGED <<phase, iterator, history>>
      BY <2>2, CancelHitsItsOrder
    <3>2. phase # "aborted"
      BY <2>2 DEF CancelBuyOrder, CancelSellOrder, Cancel, StrategyRuns
    <3>3. j \notin owed
      BY <3>1, <3>2 DEF TradeInv, RunningInv, OwedInv, IsFilled, Stands
    <3> QED  BY <3>1, <3>3 DEF OwedKept, history
  <2>3. CASE CreateFails \/ CancelFails \/ QueryFails
    BY <2>3 DEF CreateFails, CancelFails, QueryFails, OwedKept
  <2>4. CASE \E a \in Accounts : GetAccount(a)
    BY <2>4 DEF GetAccount, engineVars, history, OwedKept
  <2> QED  BY <1>2, <2>1, <2>2, <2>3, <2>4 DEF Requests
<1>3. CASE \E id \in DOMAIN exchange : ExchangeFills(id)
  BY <1>3 DEF ExchangeFills, engineVars, history, OwedKept
<1>4. CASE Restart
  BY <1>4 DEF Restart, OwedKept
<1>5. CASE UNCHANGED vars
  BY <1>5 DEF vars, engineVars, history, OwedKept
<1> QED  BY <1>1, <1>2, <1>3, <1>4, <1>5 DEF Next

\* As long as that is so, update_orders, whose loop is over a map that its callbacks
\* change, has reported to the strategy all that was filled when it began.
THEOREM PollsAreComplete == Spec /\ []IdsDistinguished => []PollMissesNothing
<1>1. Init => OwedKept
  BY DEF Init, OwedKept
<1>2. TradeInv /\ OwedKept => PollMissesNothing
  BY DEF TradeInv, RunningInv, OwedInv, OwedKept, PollMissesNothing
<1> QED  BY <1>1, <1>2, OwedKeptNext, TradeInvariance, PTL DEF Spec
=============================================================================
