--------------------------- MODULE BacktestProofs ---------------------------
(***************************************************************************)
(* Theorems about the backtest, for every dataset and every account: of    *)
(* BacktestContext with an arbitrary strategy, and of the program in which *)
(* GridStrategy and BacktestContext agree on the open orders at every step.*)
(***************************************************************************)
EXTENDS GridBacktest, WellFoundedInduction, TLAPS

(* The context, with an arbitrary strategy: every sequence of broker calls that *)
(* does not cancel the order whose fill is being reported                       *)

\* The order update_orders is looking at, or reporting, is in the map.
IteratorInMap ==
  /\ phase = "orders" => iterator \in DOMAIN orders \cup {End}
  /\ phase = "filled" => iterator \in DOMAIN orders

\* No order was placed later than now; while update_orders runs, the orders
\* below last_index were placed before the candle was read.
PlacedInTime ==
  \A i \in DOMAIN orders :
    /\ orders[i].placed <= time
    /\ phase \in {"orders", "filled"} /\ i < last_index => orders[i].placed < time

\* No ask has a negative price.  A bid may: GridStrategy's bid is a spacing below
\* the filled price, whatever that leaves.
AsksNatural ==
  \A i \in DOMAIN orders : orders[i].side = "sell" => orders[i].price \in Nat

ContextInv ==
  ContextTypeOK /\ IteratorInMap /\ PlacedInTime /\ AsksNatural /\ Solvent

-----------------------------------------------------------------------------
(* Lemmas about the operators *)

\* NextKey returns a key after i, or End when there is none.
LEMMA NextKeyIsKey ==
  ASSUME NEW keys \in SUBSET Nat, NEW i \in Int
  PROVE  \/ NextKey(keys, i) = End
         \/ /\ NextKey(keys, i) \in keys
            /\ NextKey(keys, i) > i
<1> DEFINE after == {k \in keys : k > i}
<1>1. CASE after = {}
  BY <1>1 DEF NextKey
<1>2. CASE after # {}
  <2>1. \E k \in after : \A m \in after : k <= m
    <3>1. after \subseteq Nat
      OBVIOUS
    <3>2. PICK k \in after : \A m \in after : <<m, k>> \notin OpToRel(<, Nat)
      BY <1>2, <3>1, WFMin, NatLessThanWellFounded, Zenon
    <3>3. \A m \in after : ~(m < k)
      BY <3>1, <3>2 DEF OpToRel
    <3> QED  BY <3>1, <3>3
  <2>2. Min(after) \in after
    BY <2>1 DEF Min
  <2> QED  BY <1>2, <2>2 DEF NextKey
<1> QED  BY <1>1, <1>2

\* What is left of an amount after the commission is an amount, and no more.
LEMMA CommissionTakes ==
  ASSUME NEW x \in Nat
  PROVE  AfterCommission(x) \in Nat /\ AfterCommission(x) <= x
<1> DEFINE rate == 1000 - CommissionPerMille
<1>1. rate \in 0..1000
  BY ContextAssumption
<1>2. x * rate \in Nat /\ x * rate <= x * 1000
  BY <1>1, SMTT(30)
<1>3. ASSUME NEW y \in Nat, y <= x * 1000
      PROVE  y \div 1000 \in Nat /\ y \div 1000 <= x
  BY <1>3
<1> QED  BY <1>2, <1>3 DEF AfterCommission

\* An execution neither overdraws the account nor makes it worth more at the
\* price it was executed at.
LEMMA ExecutionIsFair ==
  ASSUME NEW o \in Order, ExecutionPrice(o) \in Nat,
         balance \in Nat, position \in Nat, Affordable(o), Execute(o)
  PROVE  /\ balance' \in Nat /\ position' \in Nat
         /\ balance' + position' * ExecutionPrice(o)
              <= balance + position * ExecutionPrice(o)
<1> DEFINE p == ExecutionPrice(o)
           q == o.quantity
<1>1. p \in Nat /\ q \in Nat
  BY DEF Order
<1>2. q * p \in Nat
  BY <1>1
<1>3. CASE o.side = "buy"
  <2>1. balance >= q * p /\ balance' = balance - q * p
        /\ position' = position + AfterCommission(q)
    BY <1>3 DEF Affordable, Execute
  <2>2. AfterCommission(q) \in Nat /\ AfterCommission(q) <= q
    BY <1>1, CommissionTakes
  <2>3. balance' \in Nat /\ position' \in Nat
    BY <1>2, <2>1, <2>2
  <2>4. ASSUME NEW a \in Nat, a <= q
        PROVE  balance - q * p + (position + a) * p <= balance + position * p
    <3>1. a * p <= q * p
      BY <1>1, <2>4
    <3>2. (position + a) * p = position * p + a * p
      BY <1>1
    <3>3. a * p \in Nat /\ position * p \in Nat
      BY <1>1
    <3> HIDE DEF p, q
    <3> QED  BY <3>1, <3>2, <3>3, <1>2
  <2> QED  BY <2>1, <2>2, <2>3, <2>4
<1>4. CASE o.side = "sell"
  <2>1. position >= q /\ position' = position - q
        /\ balance' = balance + AfterCommission(q * p)
    BY <1>4 DEF Affordable, Execute
  <2>2. AfterCommission(q * p) \in Nat /\ AfterCommission(q * p) <= q * p
    BY <1>2, CommissionTakes
  <2>3. balance' \in Nat /\ position' \in Nat
    BY <1>1, <2>1, <2>2
  <2>4. ASSUME NEW a \in Nat, a <= q * p
        PROVE  balance + a + (position - q) * p <= balance + position * p
    <3>1. (position - q) * p = position * p - q * p
      BY <1>1
    <3>2. position * p \in Nat
      BY <1>1
    <3> HIDE DEF p, q
    <3> QED  BY <1>2, <2>4, <3>1, <3>2
  <2> QED  BY <2>1, <2>2, <2>3, <2>4
<1> QED  BY <1>3, <1>4 DEF Order

-----------------------------------------------------------------------------
(* The invariant holds initially and is preserved by every step *)

LEMMA InitInv == ContextInit => ContextInv
<1> SUFFICES ASSUME ContextInit PROVE ContextInv
  OBVIOUS
<1>1. DOMAIN orders = {}
  BY DEF ContextInit
<1> QED
  BY <1>1, ContextAssumption DEF ContextInit, ContextInv, ContextTypeOK, IteratorInMap,
     PlacedInTime, AsksNatural, Solvent, Phases, End

\* What executes, executes at a price that is not negative.
LEMMA PriceIsNatural ==
  ASSUME ContextInv, NEW i \in DOMAIN orders, Reached(orders[i])
  PROVE  ExecutionPrice(orders[i]) \in Nat
<1>1. orders[i] \in Order /\ candle \in Candles
  BY DEF ContextInv, ContextTypeOK
<1>2. candle.low \in Nat /\ candle.close \in Nat
  BY <1>1, ContextAssumption
<1> QED
  BY <1>1, <1>2 DEF Reached, ExecutionPrice, Order, ContextInv, AsksNatural

\* The steps of run and update_orders, with any strategy.
LEMMA EngineInv == ContextInv /\ (Engine \/ EndOfData) => ContextInv'
<1> SUFFICES ASSUME ContextInv, Engine \/ EndOfData PROVE ContextInv'
  OBVIOUS
<1> USE DEF ContextInv, ContextTypeOK, IteratorInMap, PlacedInTime, AsksNatural,
        Solvent, Phases, account
<1>0. DOMAIN orders \in SUBSET Nat /\ End \in Int
  BY DEF End
<1>1. ASSUME NEW i \in Int
      PROVE  \/ NextKey(DOMAIN orders, i) = End
             \/ /\ NextKey(DOMAIN orders, i) \in DOMAIN orders
                /\ NextKey(DOMAIN orders, i) > i
  BY <1>0, NextKeyIsKey
<1>2. CASE NextCandle
  <2>1. \A i \in DOMAIN orders : orders[i].placed \in Nat
    BY DEF Order
  <2>2. iterator' \in DOMAIN orders \cup {End}
    BY <1>0, <1>1, <1>2 DEF NextCandle
  <2>3. time' \in 0..MaxCandles
    BY <1>2, ContextAssumption DEF NextCandle
  <2>4. PlacedInTime'
    BY <1>2, <2>1 DEF NextCandle
  <2> QED  BY <1>0, <1>2, <2>2, <2>3, <2>4 DEF NextCandle
<1>3. CASE SkipOrder
  BY <1>0, <1>1, <1>3 DEF SkipOrder, InPass
<1>4. CASE FillOrder
  <2>1. /\ phase = "orders" /\ iterator \in DOMAIN orders /\ iterator < last_index
        /\ Reached(orders[iterator]) /\ Affordable(orders[iterator])
        /\ Execute(orders[iterator])
    BY <1>4 DEF FillOrder, InPass, Executes
  <2>2. balance' \in Nat /\ position' \in Nat
    BY <2>1, PriceIsNatural, ExecutionIsFair
  <2> QED  BY <1>4, <2>1, <2>2 DEF FillOrder
<1>5. CASE EraseFilled
  <2>1. /\ iterator' \in DOMAIN orders \cup {End}
        /\ iterator' # iterator
    <3>1. iterator \in Nat
      BY <1>0, <1>5 DEF EraseFilled
    <3> QED  BY <1>1, <1>5, <3>1 DEF EraseFilled, End
  <2>2. /\ DOMAIN orders' = DOMAIN orders \ {iterator}
        /\ \A i \in DOMAIN orders' : orders'[i] = orders[i]
    BY <1>5 DEF EraseFilled, OrdersWithout, Restrict
  <2>3. ContextTypeOK'
    BY <1>0, <1>5, <2>1, <2>2 DEF EraseFilled
  <2> QED  BY <1>5, <2>1, <2>2, <2>3 DEF EraseFilled
<1>6. CASE EndPass
  BY <1>6 DEF EndPass
<1>7. CASE EndUpdate
  BY <1>7 DEF EndUpdate
<1>8. CASE EndOfData
  BY <1>8 DEF EndOfData
<1> QED
  BY <1>2, <1>3, <1>4, <1>5, <1>6, <1>7, <1>8 DEF Engine

\* A broker call that places an order.
LEMMA AddOrderInv ==
  ASSUME ContextInv,
         NEW side \in {"buy", "sell"}, NEW type \in {"limit", "market"},
         NEW q \in Nat, NEW price \in Int, side = "sell" => price \in Nat,
         AddOrder(side, type, q, price)
  PROVE  ContextInv'
<1> USE DEF ContextInv, ContextTypeOK, IteratorInMap, PlacedInTime, AsksNatural,
        Solvent, Phases, account
<1> DEFINE o == [side |-> side, type |-> type, quantity |-> q, price |-> price,
                 placed |-> time]
<1>1. o \in Order
  BY ContextAssumption DEF Order
<1>2. last_order_index \notin DOMAIN orders
  OBVIOUS
<1>3. /\ DOMAIN orders' = DOMAIN orders \cup {last_order_index}
      /\ \A j \in DOMAIN orders : orders'[j] = orders[j]
      /\ orders'[last_order_index] = o
  BY <1>2 DEF AddOrder, OrdersWith, NewIndex
<1>4. phase \in {"filled", "update"} /\ phase' = phase
  BY DEF AddOrder, StrategyRuns
<1>5. ContextTypeOK'
  BY <1>1, <1>3, <1>4 DEF AddOrder
<1>6. PlacedInTime'
  BY <1>3, <1>4 DEF AddOrder
<1> QED  BY <1>3, <1>4, <1>5, <1>6 DEF AddOrder

\* A broker call that cancels an order other than the one being reported.
LEMMA CancelOrderInv ==
  ASSUME ContextInv, NEW i \in DOMAIN orders, phase = "filled" => i # iterator,
         CancelOrder(i)
  PROVE  ContextInv'
<1>1. /\ DOMAIN orders' = DOMAIN orders \ {i}
      /\ \A j \in DOMAIN orders' : orders'[j] = orders[j]
  BY DEF CancelOrder, OrdersWithout, Restrict
<1> QED
  BY <1>1 DEF CancelOrder, StrategyRuns, ContextInv, ContextTypeOK, IteratorInMap,
     PlacedInTime, AsksNatural, Solvent, Phases, account

LEMMA UnchangedInv == ContextInv /\ UNCHANGED contextVars => ContextInv'
BY DEF contextVars, ContextInv, ContextTypeOK, IteratorInMap, PlacedInTime,
   AsksNatural, Solvent

LEMMA NextInv == ContextInv /\ [Next]_contextVars => ContextInv'
<1> SUFFICES ASSUME ContextInv, [Next]_contextVars PROVE ContextInv'
  OBVIOUS
<1>1. CASE Engine \/ EndOfData
  BY <1>1, EngineInv
<1>2. CASE AnyStrategy
  BY <1>2, AddOrderInv, CancelOrderInv, ContextAssumption DEF AnyStrategy
<1>3. CASE UNCHANGED contextVars
  BY <1>3, UnchangedInv
<1> QED  BY <1>1, <1>2, <1>3 DEF Next, Returned

-----------------------------------------------------------------------------
(* The theorems *)

THEOREM Invariance == Spec => []ContextInv
BY InitInv, NextInv, PTL DEF Spec

\* The variables keep their types.
THEOREM TypeCorrect == Spec => []ContextTypeOK
<1>1. ContextInv => ContextTypeOK
  BY DEF ContextInv
<1> QED  BY <1>1, Invariance, PTL

\* The account is never overdrawn: execute_buy_order and execute_sell_order
\* check the funds when the order executes.
THEOREM NeverOverdrawn == Spec => []Solvent
<1>1. ContextInv => Solvent
  BY DEF ContextInv
<1> QED  BY <1>1, Invariance, PTL

\* Only FillOrder turns control over to on_order_filled.
LEMMA FillOrderFills ==
  ASSUME ContextInv, Next, phase = "orders", phase' = "filled"
  PROVE  FillOrder /\ iterator \in DOMAIN orders /\ iterator < last_index
<1>1. FillOrder
  BY DEF Next, Engine, NextCandle, SkipOrder, EraseFilled, EndPass, EndUpdate,
     EndOfData, AnyStrategy, AddOrder, CancelOrder, StrategyRuns, Returned, contextVars
<1> QED  BY <1>1 DEF FillOrder, InPass, ContextInv, IteratorInMap

\* update_orders executes only orders that were placed before the candle.
THEOREM LooksBackOnly == Spec => NoLookAhead
<1>1. ContextInv /\ [Next]_contextVars =>
        [phase = "orders" /\ phase' = "filled" =>
           orders[iterator].placed < time]_contextVars
  BY FillOrderFills DEF contextVars, ContextInv, PlacedInTime
<1> QED  BY <1>1, Invariance, PTL DEF Spec, NoLookAhead

\* No execution makes the account worth more at the price it was made at.
THEOREM NoFreeLunch == Spec => FillCreatesNoValue
<1> DEFINE worth == LET p == ExecutionPrice(orders[iterator])
                    IN  balance' + position' * p <= balance + position * p
<1>1. ContextInv /\ [Next]_contextVars =>
        [phase = "orders" /\ phase' = "filled" => worth]_contextVars
  <2> SUFFICES ASSUME ContextInv, Next, phase = "orders", phase' = "filled"
               PROVE  worth
    BY DEF contextVars
  <2>1. /\ Reached(orders[iterator]) /\ Affordable(orders[iterator])
        /\ Execute(orders[iterator]) /\ iterator \in DOMAIN orders
    BY FillOrderFills DEF FillOrder, Executes
  <2>2. orders[iterator] \in Order /\ balance \in Nat /\ position \in Nat
    BY <2>1 DEF ContextInv, ContextTypeOK, Solvent
  <2>3. ExecutionPrice(orders[iterator]) \in Nat
    BY <2>1, PriceIsNatural
  <2> QED  BY <2>1, <2>2, <2>3, ExecutionIsFair
<1> QED  BY <1>1, Invariance, PTL DEF Spec, FillCreatesNoValue

\* The context implements the contract of IBroker: a new order gets a fresh
\* index, only open orders are reported, one at a time, and once.
THEOREM Refinement == Spec => ImplementsContract
<1> DEFINE running == IF phase = "filled" THEN iterator ELSE End
<1>1. ContextInit => Contract!Init
  BY DEF ContextInit, Contract!Init
<1>2. ContextInv /\ [Next]_contextVars => [Contract!Next]_(Contract!vars)
  <2> SUFFICES ASSUME ContextInv, [Next]_contextVars
               PROVE  Contract!Next \/ UNCHANGED Contract!vars
    OBVIOUS
  <2>0. phase = "filled" => iterator \in DOMAIN orders /\ iterator # End
    BY DEF ContextInv, ContextTypeOK, IteratorInMap, End
  <2>1. CASE NextCandle \/ SkipOrder \/ EndPass \/ EndUpdate \/ EndOfData
    BY <2>1 DEF NextCandle, SkipOrder, EndPass, EndUpdate, EndOfData, Contract!vars
  <2>2. CASE FillOrder
    <3>1. iterator \in DOMAIN orders /\ phase = "orders"
      BY <2>2 DEF FillOrder, InPass, ContextInv, IteratorInMap
    <3>2. Contract!Report(iterator)
      BY <2>2, <3>1 DEF FillOrder, Contract!Report
    <3> QED  BY <3>1, <3>2 DEF Contract!Next
  <2>3. CASE EraseFilled
    <3>1. Contract!EndReport
      BY <2>0, <2>3 DEF EraseFilled, OrdersWithout, Restrict, Contract!EndReport
    <3> QED  BY <3>1 DEF Contract!Next
  <2>4. CASE AnyStrategy
    <3>1. ASSUME NEW side, NEW type, NEW q, NEW price, AddOrder(side, type, q, price)
          PROVE  Contract!Place
      BY <3>1 DEF AddOrder, OrdersWith, NewIndex, Contract!Place
    <3>2. ASSUME NEW i \in DOMAIN orders, phase = "filled" => i # iterator, CancelOrder(i)
          PROVE  Contract!Cancel(i)
      <4>1. i # running
        BY <3>2 DEF ContextInv, ContextTypeOK, End
      <4> QED  BY <3>2, <4>1 DEF CancelOrder, OrdersWithout, Restrict, Contract!Cancel
    <3> QED  BY <2>4, <3>1, <3>2 DEF AnyStrategy, Contract!Next
  <2>5. CASE UNCHANGED contextVars
    BY <2>5 DEF contextVars, Contract!vars
  <2> QED  BY <2>1, <2>2, <2>3, <2>4, <2>5 DEF Next, Engine, Returned
<1> QED  BY <1>1, <1>2, Invariance, PTL DEF Spec, ImplementsContract, Contract!Spec

-----------------------------------------------------------------------------
(* GridStrategy in the backtest *)

\* Which calls a handler may still have to make.
HandlerInv ==
  /\ phase \in {"next", "orders", "done"} => todo = {}
  /\ phase = "filled" => "account" \notin todo
  /\ "account" \in todo => "buy" \notin todo /\ "sell" \notin todo
  /\ "cancel_buy" \in todo => buy_order # None
  /\ "cancel_sell" \in todo => sell_order # None

\* What a handler is about to place an order in is empty or will be.
SlotsFreed ==
  /\ todo \cap {"account", "sell", "buy"} # {} /\ buy_order # None =>
       "cancel_buy" \in todo
  /\ todo \cap {"account", "sell"} # {} /\ sell_order # None =>
       "cancel_sell" \in todo

\* What a handler is about to use has been assigned.
ValuesReady ==
  /\ baseline_price \in Nat /\ call_spread \in Nat
  /\ todo # {} => call_price \in Nat \ {0}
  /\ todo \cap {"sell", "buy"} # {} => call_quantity \in Nat
  /\ buy_order # None \/ sell_order # None \/ todo \cap {"sell", "buy"} # {} =>
       order_volume \in Nat
  /\ sell_order # None => sell_order.price > 0

\* The pair stands around one price of one baseline.
PairInv ==
  /\ buy_order # None /\ sell_order # None /\ "cancel_buy" \notin todo =>
       sell_order.price - buy_order.price = 2 * Spacing
  /\ "sell" \in todo /\ "buy" \in todo => call_spread = Spacing
  /\ "buy" \in todo /\ "sell" \notin todo /\ sell_order # None
       /\ "cancel_sell" \notin todo =>
       call_spread = Spacing /\ sell_order.price = call_price + Spacing

\* After a fill nothing that was open when the candle was read stays open.
FillInv ==
  /\ phase = "orders" =>
       \/ last_order_index = last_index
       \/ \A i \in DOMAIN orders : i >= last_index
  /\ phase = "filled" =>
       /\ buy_order # None /\ "cancel_buy" \notin todo => buy_order.index >= last_index
       /\ sell_order # None /\ "cancel_sell" \notin todo => sell_order.index >= last_index

\* An update that finds the index neither missing nor too low returns with an
\* order open: it has one and no call to make, or it will place one.
MarketInv ==
  /\ phase = "update" /\ RsiHasValue(rsi) /\ ~RsiIsLow(rsi) =>
       (todo = {} /\ ~NoOrders) \/ todo \cap {"account", "sell", "buy"} # {}
  /\ phase = "next" /\ time > 0 /\ RsiHasValue(rsi) /\ ~RsiIsLow(rsi) => ~NoOrders

\* While update runs, the order it is about to place can be paid for, or is for an
\* account that may lack the funds.
AffordInv ==
  phase = "update" =>
    /\ "sell" \in todo => call_quantity <= position
    /\ "buy" \in todo => call_quantity * call_price <= balance \/ MayLackFunds

\* The strategy places no market orders.
LimitOrdersOnly == \A i \in DOMAIN orders : orders[i].type = "limit"

GridInv ==
  /\ ContextInv /\ StrategyTypeOK /\ BookAgrees /\ LimitOrdersOnly
  /\ HandlerInv /\ SlotsFreed /\ ValuesReady /\ PairInv /\ FillInv /\ MarketInv

-----------------------------------------------------------------------------
(* What each step needs to know of the state before it *)

\* The two slots hold different orders, both in the map.
LEMMA SlotsInMap ==
  ASSUME StrategyTypeOK, BookAgrees
  PROVE  /\ buy_order # None =>
              /\ buy_order \in OrderInfo
              /\ buy_order.index \in DOMAIN orders \ InProgress
              /\ orders[buy_order.index].side = "buy"
              /\ orders[buy_order.index].price = buy_order.price
         /\ sell_order # None =>
              /\ sell_order \in OrderInfo
              /\ sell_order.index \in DOMAIN orders \ InProgress
              /\ orders[sell_order.index].side = "sell"
              /\ orders[sell_order.index].price = sell_order.price
         /\ buy_order # None /\ sell_order # None =>
              buy_order.index # sell_order.index
         /\ \A i \in DOMAIN orders \ InProgress :
              \/ buy_order # None /\ i = buy_order.index
              \/ sell_order # None /\ i = sell_order.index
BY DEF StrategyTypeOK, BookAgrees, Tracked, Slots

\* A quotient of natural numbers is one.
LEMMA QuotientIsNatural ==
  ASSUME NEW a \in Nat, NEW b \in Nat \ {0}
  PROVE  a \div b \in Nat
OBVIOUS

LEMMA SpacingIsNatural == baseline_price \in Nat => Spacing \in Nat
<1> SUFFICES ASSUME baseline_price \in Nat PROVE Spacing \in Nat
  OBVIOUS
<1>1. baseline_price * SpacingPct \in Nat
  BY GridAssumption
<1> QED  BY <1>1, QuotientIsNatural DEF Spacing

-----------------------------------------------------------------------------
(* The invariant holds initially and is preserved by every step *)

LEMMA GridInitInv == Init => GridInv
<1> SUFFICES ASSUME Init PROVE GridInv
  OBVIOUS
<1>1. ContextInv
  BY InitInv DEF Init
<1>2. buy_order = None /\ sell_order = None /\ todo = {} /\ DOMAIN orders = {}
  BY DEF Init, ContextInit, StrategyInit
<1>3. BookAgrees
  BY <1>2 DEF BookAgrees, Tracked, Slots, InProgress, Init, ContextInit
<1> QED
  BY <1>1, <1>2, <1>3 DEF Init, ContextInit, StrategyInit, GridInv, StrategyTypeOK,
     HandlerInv, SlotsFreed, ValuesReady, PairInv, FillInv, MarketInv,
     LimitOrdersOnly

\* The steps of the loop that leave the strategy alone.
LEMMA LoopInv ==
  ASSUME GridInv, ReadCandle \/ PassOver \/ EndFilled \/ UpdateReturns \/ Finish
  PROVE  GridInv'
<1> USE DEF GridInv
<1>1. ContextInv'
  BY EngineInv DEF Engine, ReadCandle, PassOver, EndFilled, UpdateReturns, Finish
<1>2. UNCHANGED strategyVars /\ todo = {}
  BY DEF HandlerInv, ReadCandle, NextCandle, PassOver, SkipOrder, EndFilled,
     UpdateReturns, Finish, EndOfData
<1>3. StrategyTypeOK' /\ ValuesReady' /\ PairInv' /\ SlotsFreed' /\ HandlerInv'
  BY <1>2 DEF strategyVars, callVars, StrategyTypeOK, ValuesReady, PairInv, SlotsFreed,
     HandlerInv, Spacing
<1>4. BookAgrees'
  <2>1. CASE EndFilled
    <3>1. /\ InProgress = {iterator} /\ InProgress' = {}
          /\ DOMAIN orders' = DOMAIN orders \ {iterator}
          /\ \A i \in DOMAIN orders' : orders'[i] = orders[i]
      BY <2>1 DEF EndFilled, EraseFilled, OrdersWithout, Restrict, InProgress
    <3> QED  BY <1>2, <3>1 DEF strategyVars, BookAgrees, Tracked, Slots
  <2>2. CASE ReadCandle \/ PassOver \/ UpdateReturns \/ Finish
    <3>1. orders' = orders /\ InProgress = {} /\ InProgress' = {}
      BY <2>2 DEF ReadCandle, NextCandle, PassOver, SkipOrder, UpdateReturns, EndUpdate,
         Finish, EndOfData, InProgress
    <3> QED  BY <1>2, <3>1 DEF strategyVars, BookAgrees, Tracked, Slots
  <2> QED  BY <2>1, <2>2
<1>5. FillInv'
  <2>1. CASE EndFilled
    <3>1. \A i \in DOMAIN orders' : i >= last_index
      BY <1>2, <2>1, SlotsInMap DEF EndFilled, EraseFilled, OrdersWithout, Restrict,
         InProgress, FillInv
    <3> QED  BY <2>1, <3>1 DEF EndFilled, EraseFilled, FillInv
  <2>2. CASE ReadCandle
    BY <2>2 DEF ReadCandle, NextCandle, FillInv
  <2>3. CASE PassOver \/ UpdateReturns \/ Finish
    BY <2>3 DEF PassOver, SkipOrder, UpdateReturns, EndUpdate, Finish, EndOfData, FillInv
  <2> QED  BY <2>1, <2>2, <2>3
<1>6. MarketInv'
  BY <1>2 DEF ReadCandle, NextCandle, PassOver, SkipOrder, EndFilled, EraseFilled,
     UpdateReturns, EndUpdate, Finish, EndOfData, strategyVars, MarketInv,
     NoOrders
<1>7. LimitOrdersOnly'
  BY DEF ReadCandle, NextCandle, PassOver, SkipOrder, EndFilled, EraseFilled,
     OrdersWithout, Restrict, UpdateReturns, EndUpdate, Finish, EndOfData, LimitOrdersOnly
<1> QED  BY <1>1, <1>3, <1>4, <1>5, <1>6, <1>7

\* An order executes and on_order_filled is called.
LEMMA FillPreserves == ASSUME GridInv, Fill PROVE GridInv'
<1> USE DEF GridInv
<1>1. ContextInv'
  BY EngineInv DEF Engine, Fill
<1>2. /\ phase = "orders" /\ phase' = "filled" /\ iterator' = iterator
      /\ iterator \in DOMAIN orders /\ iterator < last_index
      /\ UNCHANGED <<orders, last_order_index, last_index, time>>
      /\ Reached(orders[iterator])
  BY DEF Fill, FillOrder, InPass, Executes, ContextInv, IteratorInMap
<1>3. InProgress = {} /\ InProgress' = {iterator}
  BY <1>2 DEF InProgress
\* The filled order is the one in the bid's slot or the one in the ask's.
<1>4. \/ /\ buy_order # None /\ iterator = buy_order.index
         /\ ~Holds(sell_order, iterator)
         /\ call_price' = buy_order.price
         /\ buy_order' = None /\ sell_order' = sell_order
      \/ /\ sell_order # None /\ iterator = sell_order.index
         /\ ~Holds(buy_order, iterator)
         /\ call_price' = sell_order.price
         /\ buy_order' = buy_order /\ sell_order' = None
  BY <1>2, <1>3, SlotsInMap DEF Fill, OnOrderFilled, Holds, SlotAfterFill
<1>5. /\ todo' = CancelAllOrders(buy_order', sell_order') \cup {"sell", "buy"}
      /\ call_spread' = Spacing /\ call_quantity' = order_volume
      /\ UNCHANGED <<baseline_price, order_volume, rsi>>
  BY DEF Fill, OnOrderFilled
<1>6. call_price' \in Nat \ {0}
  <2>1. CASE buy_order # None /\ iterator = buy_order.index /\ call_price' = buy_order.price
    <3>1. orders[iterator] \in Order /\ candle \in Candles
      BY <1>2 DEF ContextInv, ContextTypeOK
    <3>2. orders[iterator].side = "buy" /\ orders[iterator].price = buy_order.price
      BY <2>1, SlotsInMap
    <3>3. candle.low \in Nat \ {0} /\ candle.close \in Nat
      BY <3>1, ContextAssumption
    <3>4. orders[iterator].type = "limit"
      BY <1>2 DEF LimitOrdersOnly
    <3> QED  BY <1>2, <2>1, <3>1, <3>2, <3>3, <3>4 DEF Reached, Order
  <2>2. CASE sell_order # None /\ call_price' = sell_order.price
    BY <2>2 DEF ValuesReady, StrategyTypeOK, OrderInfo
  <2> QED  BY <1>4, <2>1, <2>2
<1>7. StrategyTypeOK'
  BY <1>4, <1>5, <1>6, SpacingIsNatural
     DEF StrategyTypeOK, CancelAllOrders, CallRank, ValuesReady
<1>8. BookAgrees'
  BY <1>2, <1>3, <1>4, SlotsInMap DEF BookAgrees, Tracked, Slots
<1>9. HandlerInv' /\ SlotsFreed'
  BY <1>2, <1>5 DEF HandlerInv, SlotsFreed, CancelAllOrders
<1>10. ValuesReady'
  BY <1>4, <1>5, <1>6, SpacingIsNatural DEF ValuesReady, CancelAllOrders
<1>11. PairInv'
  BY <1>4, <1>5 DEF PairInv, CancelAllOrders, Spacing
<1>12. FillInv' /\ MarketInv'
  BY <1>2, <1>4, <1>5 DEF FillInv, MarketInv, CancelAllOrders
<1>13. LimitOrdersOnly'
  BY <1>2 DEF LimitOrdersOnly
<1> QED  BY <1>1, <1>7, <1>8, <1>9, <1>10, <1>11, <1>12, <1>13

\* The pass is over and update is called.
LEMMA UpdatePreserves == ASSUME GridInv, CallUpdate PROVE GridInv'
<1> USE DEF GridInv
<1>1. ContextInv'
  BY EngineInv DEF Engine, CallUpdate
<1>2. /\ phase = "orders" /\ phase' = "update" /\ todo = {}
      /\ UNCHANGED <<orders, last_order_index, iterator, last_index, time>>
      /\ UNCHANGED <<buy_order, sell_order, order_volume, call_spread, call_quantity>>
      /\ call_price' = candle.close
  BY DEF CallUpdate, EndPass, HandlerInv, Update
<1>3. candle.close \in Nat \ {0}
  BY ContextAssumption DEF ContextInv, ContextTypeOK
\* Either everything is to be cancelled, and perhaps placed anew, or nothing.
<1>4. \/ /\ todo' = {} /\ baseline_price' = baseline_price
         /\ RsiHasValue(rsi') /\ ~RsiIsLow(rsi') => ~NoOrders
      \/ /\ todo' = CancelAllOrders(buy_order, sell_order)
         /\ baseline_price' = baseline_price
         /\ RsiIsLow(rsi')
      \/ /\ todo' = CancelAllOrders(buy_order, sell_order) \cup {"account"}
         /\ baseline_price' = candle.close
  BY <1>2 DEF CallUpdate, Update, StartOver
<1>5. StrategyTypeOK'
  BY <1>2, <1>3, <1>4 DEF StrategyTypeOK, CancelAllOrders, CallRank
<1>6. BookAgrees'
  BY <1>2 DEF BookAgrees, Tracked, Slots, InProgress
<1>7. HandlerInv' /\ SlotsFreed'
  BY <1>2, <1>4 DEF HandlerInv, SlotsFreed, CancelAllOrders
<1>8. ValuesReady'
  BY <1>2, <1>3, <1>4 DEF ValuesReady, CancelAllOrders
<1>9. PairInv'
  BY <1>2, <1>4 DEF PairInv, CancelAllOrders, Spacing
<1>10. FillInv' /\ MarketInv' /\ LimitOrdersOnly'
  BY <1>2, <1>4 DEF FillInv, MarketInv, NoOrders, LimitOrdersOnly
<1> QED  BY <1>1, <1>5, <1>6, <1>7, <1>8, <1>9, <1>10

LEMMA CancelBuyPreserves == ASSUME GridInv, BrokerCancelBuy PROVE GridInv'
<1> USE DEF GridInv
<1> DEFINE index == buy_order.index
<1>1. /\ "cancel_buy" \in todo /\ todo' = todo \ {"cancel_buy"}
      /\ buy_order # None /\ buy_order' = None
      /\ UNCHANGED <<sell_order, baseline_price, order_volume, rsi, call_price,
                     call_spread, call_quantity>>
      /\ phase \in {"filled", "update"}
      /\ UNCHANGED <<phase, iterator, last_order_index, last_index, time>>
  BY DEF BrokerCancelBuy, CancelBuy, Due, callVars, HandlerInv, CancelOrder, StrategyRuns
<1>2. index \in DOMAIN orders /\ (phase = "filled" => index # iterator)
  BY <1>1, SlotsInMap DEF InProgress
<1>3. ContextInv'
  BY <1>2, CancelOrderInv DEF BrokerCancelBuy
<1>4. /\ DOMAIN orders' = DOMAIN orders \ {index}
      /\ \A j \in DOMAIN orders' : orders'[j] = orders[j]
  BY DEF BrokerCancelBuy, CancelOrder, OrdersWithout, Restrict
<1>5. BookAgrees'
  BY <1>1, <1>2, <1>4, SlotsInMap DEF BookAgrees, Tracked, Slots, InProgress
<1>6. StrategyTypeOK' /\ HandlerInv' /\ SlotsFreed' /\ ValuesReady'
  BY <1>1 DEF StrategyTypeOK, HandlerInv, SlotsFreed, ValuesReady
<1>7. PairInv' /\ FillInv' /\ MarketInv'
  BY <1>1 DEF PairInv, FillInv, MarketInv, NoOrders, Spacing
<1>8. LimitOrdersOnly'
  BY <1>4 DEF LimitOrdersOnly
<1> QED  BY <1>3, <1>5, <1>6, <1>7, <1>8

LEMMA CancelSellPreserves == ASSUME GridInv, BrokerCancelSell PROVE GridInv'
<1> USE DEF GridInv
<1> DEFINE index == sell_order.index
<1>1. /\ "cancel_sell" \in todo /\ todo' = todo \ {"cancel_sell"}
      /\ sell_order # None /\ sell_order' = None
      /\ UNCHANGED <<buy_order, baseline_price, order_volume, rsi, call_price,
                     call_spread, call_quantity>>
      /\ phase \in {"filled", "update"}
      /\ UNCHANGED <<phase, iterator, last_order_index, last_index, time>>
  BY DEF BrokerCancelSell, CancelSell, Due, callVars, HandlerInv, CancelOrder, StrategyRuns
<1>2. index \in DOMAIN orders /\ (phase = "filled" => index # iterator)
  BY <1>1, SlotsInMap DEF InProgress
<1>3. ContextInv'
  BY <1>2, CancelOrderInv DEF BrokerCancelSell
<1>4. /\ DOMAIN orders' = DOMAIN orders \ {index}
      /\ \A j \in DOMAIN orders' : orders'[j] = orders[j]
  BY DEF BrokerCancelSell, CancelOrder, OrdersWithout, Restrict
<1>5. BookAgrees'
  BY <1>1, <1>2, <1>4, SlotsInMap DEF BookAgrees, Tracked, Slots, InProgress
<1>6. StrategyTypeOK' /\ HandlerInv' /\ SlotsFreed' /\ ValuesReady'
  BY <1>1 DEF StrategyTypeOK, HandlerInv, SlotsFreed, ValuesReady
<1>7. PairInv' /\ FillInv' /\ MarketInv'
  BY <1>1 DEF PairInv, FillInv, MarketInv, NoOrders, Spacing
<1>8. LimitOrdersOnly'
  BY <1>4 DEF LimitOrdersOnly
<1> QED  BY <1>3, <1>5, <1>6, <1>7, <1>8

LEMMA TargetIsNatural ==
  ASSUME balance \in Nat, position \in Nat, call_price \in Nat \ {0}
  PROVE  TargetPosition(balance, position) \in Nat
<1>1. balance + position * call_price \in Nat
  OBVIOUS
<1>2. (balance + position * call_price) \div call_price \in Nat
  BY <1>1, QuotientIsNatural
<1> QED  BY <1>2, QuotientIsNatural DEF TargetPosition

LEMMA AccountPreserves == ASSUME GridInv, BrokerAccount PROVE GridInv'
<1> USE DEF GridInv
<1>1. /\ "account" \in todo /\ phase \in {"filled", "update"}
      /\ "cancel_buy" \notin todo /\ "cancel_sell" \notin todo
      /\ todo' = {"buy"} \/ todo' = {"sell"}
      /\ UNCHANGED <<buy_order, sell_order, baseline_price, rsi, call_price>>
      /\ call_spread' = 0
      /\ UNCHANGED contextVars
  BY DEF BrokerAccount, PlaceInitialOrders, Due, CallRank, SideTowards, StrategyRuns
<1>2. ContextInv'
  BY <1>1, UnchangedInv
<1>3. buy_order = None /\ sell_order = None
  BY <1>1 DEF SlotsFreed
<1>4. order_volume' \in Nat /\ call_quantity' \in Nat
  <2> DEFINE target == TargetPosition(balance, position)
             gap    == IF target < position THEN position - target ELSE target - position
  <2>1. balance \in Nat /\ position \in Nat /\ call_price \in Nat \ {0}
    BY <1>1 DEF ValuesReady, ContextInv, ContextTypeOK, Solvent
  <2>2. target \in Nat /\ gap \in Nat
    BY <2>1, TargetIsNatural
  <2>3. target \div GridCount \in Nat
    BY <2>2, QuotientIsNatural, GridAssumption
  <2>4. /\ order_volume' = target \div GridCount
        /\ call_quantity' \in {order_volume', gap}
    BY DEF BrokerAccount, PlaceInitialOrders, OrderVolume
  <2> QED  BY <2>2, <2>3, <2>4
<1>5. BookAgrees'
  BY <1>1 DEF contextVars, BookAgrees, Tracked, Slots, InProgress
<1>6. StrategyTypeOK' /\ HandlerInv' /\ SlotsFreed' /\ ValuesReady'
  BY <1>1, <1>3, <1>4 DEF contextVars, StrategyTypeOK, CallRank, HandlerInv, SlotsFreed,
     ValuesReady
<1>7. PairInv' /\ FillInv' /\ MarketInv' /\ LimitOrdersOnly'
  BY <1>1, <1>3 DEF contextVars, PairInv, FillInv, MarketInv, LimitOrdersOnly
<1> QED  BY <1>2, <1>5, <1>6, <1>7

LEMMA SellPreserves == ASSUME GridInv, BrokerLimitSell PROVE GridInv'
<1> USE DEF GridInv
<1> DEFINE price == call_price + call_spread
<1>1. /\ "sell" \in todo /\ todo' = todo \ {"sell"}
      /\ sell_order' = [index |-> last_order_index, price |-> price]
      /\ UNCHANGED <<buy_order, baseline_price, order_volume, rsi, call_price,
                     call_spread, call_quantity>>
      /\ "cancel_buy" \notin todo /\ "cancel_sell" \notin todo
      /\ phase \in {"filled", "update"}
      /\ UNCHANGED <<phase, iterator, last_index, time>>
      /\ last_order_index' = last_order_index + 1
  BY DEF BrokerLimitSell, PlaceSell, Due, CallRank, callVars, AddOrder, StrategyRuns
<1>2. sell_order = None /\ buy_order = None
  BY <1>1 DEF SlotsFreed
<1>3. call_quantity \in Nat /\ price \in Nat \ {0} /\ last_order_index \in Nat
  BY <1>1 DEF ValuesReady, ContextInv, ContextTypeOK
<1>4. ContextInv'
  BY <1>3, AddOrderInv DEF BrokerLimitSell
<1>5. DOMAIN orders \subseteq 0..(last_order_index - 1) /\ last_index <= last_order_index
  BY DEF ContextInv, ContextTypeOK
<1>6. /\ DOMAIN orders' = DOMAIN orders \cup {last_order_index}
      /\ \A j \in DOMAIN orders : orders'[j] = orders[j]
      /\ orders'[last_order_index].side = "sell"
      /\ orders'[last_order_index].type = "limit"
      /\ orders'[last_order_index].price = price
  BY <1>3, <1>5 DEF BrokerLimitSell, AddOrder, OrdersWith, NewIndex
<1>7. phase = "filled" => iterator \in DOMAIN orders
  BY DEF ContextInv, IteratorInMap
<1>8. sell_order' \in OrderInfo /\ sell_order' # None
  BY <1>1, <1>3, GridAssumption DEF OrderInfo
<1>9. BookAgrees'
  <2>1. Tracked' = {last_order_index} /\ InProgress' = InProgress
    BY <1>1, <1>2, <1>8 DEF Tracked, Slots, InProgress
  <2>2. DOMAIN orders = InProgress /\ last_order_index \notin InProgress
    BY <1>2, <1>5, <1>7 DEF BookAgrees, Tracked, Slots, InProgress
  <2> QED  BY <1>1, <1>2, <1>6, <2>1, <2>2 DEF BookAgrees
<1>10. StrategyTypeOK' /\ HandlerInv' /\ SlotsFreed' /\ ValuesReady'
  BY <1>1, <1>2, <1>3, <1>8 DEF StrategyTypeOK, HandlerInv, SlotsFreed, ValuesReady
<1>11. PairInv'
  BY <1>1, <1>2 DEF PairInv, Spacing
<1>12. FillInv' /\ MarketInv'
  <2>1. todo' \subseteq {"buy"}
    BY <1>1 DEF StrategyTypeOK, CallRank, HandlerInv
  <2> QED
    BY <1>1, <1>2, <1>5, <1>8, <2>1 DEF FillInv, MarketInv, NoOrders
<1>13. LimitOrdersOnly'
  BY <1>6 DEF LimitOrdersOnly
<1> QED  BY <1>4, <1>9, <1>10, <1>11, <1>12, <1>13

LEMMA BuyPreserves == ASSUME GridInv, BrokerLimitBuy PROVE GridInv'
<1> USE DEF GridInv
<1> DEFINE price == call_price - call_spread
<1>1. /\ "buy" \in todo /\ todo' = {}
      /\ buy_order' = [index |-> last_order_index, price |-> price]
      /\ UNCHANGED <<sell_order, baseline_price, order_volume, rsi, call_price,
                     call_spread, call_quantity>>
      /\ "cancel_buy" \notin todo /\ "cancel_sell" \notin todo /\ "sell" \notin todo
      /\ phase \in {"filled", "update"}
      /\ UNCHANGED <<phase, iterator, last_index, time>>
      /\ last_order_index' = last_order_index + 1
  <2>1. todo \subseteq DOMAIN CallRank /\ Due("buy")
    BY DEF BrokerLimitBuy, PlaceBuy, StrategyTypeOK
  <2>2. todo = {"buy"}
    BY <2>1 DEF Due, CallRank
  <2> QED
    BY <2>2 DEF BrokerLimitBuy, PlaceBuy, callVars, AddOrder, StrategyRuns
<1>2. buy_order = None
  BY <1>1 DEF SlotsFreed
<1>3. call_quantity \in Nat /\ price \in Int /\ last_order_index \in Nat
  BY <1>1 DEF ValuesReady, ContextInv, ContextTypeOK
<1>4. ContextInv'
  BY <1>3, AddOrderInv DEF BrokerLimitBuy
<1>5. DOMAIN orders \subseteq 0..(last_order_index - 1) /\ last_index <= last_order_index
  BY DEF ContextInv, ContextTypeOK
<1>6. /\ DOMAIN orders' = DOMAIN orders \cup {last_order_index}
      /\ \A j \in DOMAIN orders : orders'[j] = orders[j]
      /\ orders'[last_order_index].side = "buy"
      /\ orders'[last_order_index].type = "limit"
      /\ orders'[last_order_index].price = price
  BY <1>3, <1>5 DEF BrokerLimitBuy, AddOrder, OrdersWith, NewIndex
<1>7. phase = "filled" => iterator \in DOMAIN orders
  BY DEF ContextInv, IteratorInMap
<1>8. buy_order' \in OrderInfo /\ buy_order' # None
  BY <1>1, <1>3, GridAssumption DEF OrderInfo
<1>9. BookAgrees'
  <2>1. /\ Tracked' = Tracked \cup {last_order_index} /\ InProgress' = InProgress
        /\ last_order_index \notin DOMAIN orders
    BY <1>1, <1>2, <1>5, <1>8 DEF Tracked, Slots, InProgress
  <2>2. sell_order # None => sell_order.index \in DOMAIN orders
    BY SlotsInMap
  <2>3. last_order_index \notin InProgress
    BY <1>7, <2>1 DEF InProgress
  <2> QED  BY <1>1, <1>2, <1>6, <2>1, <2>2, <2>3 DEF BookAgrees
<1>10. StrategyTypeOK' /\ HandlerInv' /\ SlotsFreed' /\ ValuesReady'
  BY <1>1, <1>2, <1>3, <1>8 DEF StrategyTypeOK, HandlerInv, SlotsFreed, ValuesReady
<1>11. PairInv'
  BY <1>1, <1>2, <1>3, <1>8, SpacingIsNatural
     DEF PairInv, Spacing, StrategyTypeOK, OrderInfo, ValuesReady
<1>12. FillInv' /\ MarketInv'
  BY <1>1, <1>2, <1>5, <1>8 DEF FillInv, MarketInv, NoOrders
<1>13. LimitOrdersOnly'
  BY <1>6 DEF LimitOrdersOnly
<1> QED  BY <1>4, <1>9, <1>10, <1>11, <1>12, <1>13

LEMMA GridNextInv == GridInv /\ [GridNext]_vars => GridInv'
<1> SUFFICES ASSUME GridInv, [GridNext]_vars PROVE GridInv'
  OBVIOUS
<1>1. CASE UNCHANGED vars
  <2>1. ContextInv'
    BY <1>1, UnchangedInv DEF vars, GridInv
  <2> QED
    BY <1>1, <2>1 DEF vars, contextVars, strategyVars, callVars, GridInv, StrategyTypeOK,
       BookAgrees, Tracked, Slots, InProgress, LimitOrdersOnly, HandlerInv, SlotsFreed,
       ValuesReady, PairInv, FillInv, MarketInv, NoOrders, Spacing
<1> QED
  BY <1>1, LoopInv, FillPreserves, UpdatePreserves, CancelBuyPreserves,
     CancelSellPreserves, AccountPreserves, SellPreserves, BuyPreserves
     DEF GridNext, Loop, Broker, Done

-----------------------------------------------------------------------------
(* The initial order can be paid for *)

\* What an account of b coins' worth of money and x coins can be asked for, with t
\* half of both and q a part of t.  With fewer coins than t, what is missing and q
\* are both covered by the money.  With more, q is not covered only if the account
\* is small against the difference.
LEMMA PartsOfTheAccount ==
  ASSUME NEW b \in Nat, NEW x \in Nat, NEW t \in Nat, NEW q \in Nat,
         t = (x + b) \div 2, q <= t
  PROVE  /\ t >= x => t - x <= b /\ q <= b
         /\ t < x => b < x
         /\ t < x /\ 2 * q <= t /\ b < q => x + b + 1 <= 4 * (x - t)
<1>1. 2 * t <= x + b /\ x + b < 2 * t + 2
  OBVIOUS
<1> QED  BY <1>1

\* The share of one line is a part of the whole, and at most half of it when there
\* are two lines or more.
LEMMA ShareOfOneLine ==
  ASSUME NEW t \in Nat
  PROVE  /\ OrderVolume(t) \in Nat /\ OrderVolume(t) <= t
         /\ GridCount = 1 \/ 2 * OrderVolume(t) <= t
<1> DEFINE q == t \div GridCount
<1>1. q \in Nat /\ GridCount \in Nat \ {0} /\ GridCount * q <= t
  BY GridAssumption
<1> HIDE DEF q
<1>2. q <= GridCount * q
  BY <1>1
<1>3. GridCount >= 2 => 2 * q <= GridCount * q
  BY <1>1
<1> QED  BY <1>1, <1>2, <1>3 DEF q, OrderVolume

\* Multiplying by a price keeps the order of two amounts.
LEMMA ProductsInOrder ==
  ASSUME NEW m \in Nat, NEW n \in Nat, NEW c \in Nat, m <= n
  PROVE  m * c \in Nat /\ m * c <= n * c
<1>1. (n - m) \in Nat /\ (n - m) * c \in Nat
  OBVIOUS
<1>2. (n - m) * c = n * c - m * c
  OBVIOUS
<1> QED  BY <1>1, <1>2

\* The account's value in coins is its coins and what its money buys.
LEMMA ValueInCoins ==
  ASSUME NEW v \in Nat, NEW x \in Nat, NEW c \in Nat \ {0}
  PROVE  /\ v \div c \in Nat /\ (v \div c) * c <= v /\ v < (v \div c) * c + c
         /\ (v + x * c) \div c = x + v \div c
<1> DEFINE b == v \div c
<1>1. b \in Nat /\ b * c <= v /\ v < b * c + c
  BY QuotientIsNatural
<1>2. /\ x * c \in Nat /\ b * c \in Nat
      /\ (x + b) * c = x * c + b * c
      /\ (x + b + 1) * c = x * c + b * c + c
  BY <1>1
<1>3. ASSUME NEW w \in Nat, NEW n \in Nat, n * c <= w, w < (n + 1) * c
      PROVE  w \div c = n
  BY <1>3
<1>4. v + x * c \in Nat /\ x + b \in Nat
  BY <1>1, <1>2
<1>5. (v + x * c) \div c = x + b
  BY <1>1, <1>2, <1>3, <1>4
<1> QED  BY <1>1, <1>5

LEMMA AffordInitially == Init => AffordInv
BY DEF Init, ContextInit, AffordInv

\* place_initial_orders orders no more than the account holds, or the account may
\* lack the funds.
LEMMA AccountAffords ==
  ASSUME GridInv, BrokerAccount
  PROVE  AffordInv'
<1> DEFINE c == call_price
           b == balance \div c
           t == TargetPosition(balance, position)
           q == OrderVolume(t)
           gap == IF t < position THEN position - t ELSE t - position
<1>1. balance \in Nat /\ position \in Nat /\ c \in Nat \ {0}
  <2>1. "account" \in todo
    BY DEF BrokerAccount, PlaceInitialOrders, Due
  <2> QED  BY <2>1 DEF GridInv, ValuesReady, ContextInv, ContextTypeOK, Solvent
<1>2. /\ UNCHANGED <<balance, position, call_price>>
      /\ gap * c < MinNotional => todo' = {"buy"} /\ call_quantity' = q
      /\ ~(gap * c < MinNotional) =>
           call_quantity' = gap /\ todo' = IF t < position THEN {"sell"} ELSE {"buy"}
  BY DEF BrokerAccount, PlaceInitialOrders, SideTowards, contextVars
<1>3. b \in Nat /\ b * c <= balance /\ balance < b * c + c /\ t = (position + b) \div 2
  BY <1>1, ValueInCoins DEF TargetPosition
<1>4. t \in Nat /\ gap \in Nat
  BY <1>1, TargetIsNatural
<1>5. q \in Nat /\ q <= t /\ (GridCount = 1 \/ 2 * q <= t)
  BY <1>4, ShareOfOneLine
<1> HIDE DEF c, b, t, q
<1>6. /\ t >= position => t - position <= b /\ q <= b
      /\ t < position => b < position
      /\ t < position /\ 2 * q <= t /\ b < q => position + b + 1 <= 4 * (position - t)
  BY <1>1, <1>3, <1>4, <1>5, PartsOfTheAccount
<1>7. ASSUME NEW n \in Nat, n <= b PROVE n * c <= balance
  <2>1. n * c \in Nat /\ n * c <= b * c /\ b * c \in Nat
    BY <1>1, <1>3, <1>7, ProductsInOrder
  <2> QED  BY <1>1, <1>3, <2>1
<1>8. ASSUME t < position, gap * c < MinNotional, ~(q * c <= balance)
      PROVE  MayLackFunds
  <2> DEFINE Worth(n) == n * c
  <2>1. b < q
    BY <1>3, <1>5, <1>7, <1>8
  <2>2. /\ Worth(b + 1) = b * c + c /\ b * c \in Nat
        /\ Worth(position + b + 1) = position * c + b * c + c /\ position * c \in Nat
    BY <1>1, <1>3
  <2>3. position * c > balance
    <3>1. b + 1 <= position /\ b + 1 \in Nat
      BY <1>1, <1>3, <1>6, <1>8
    <3>2. Worth(b + 1) <= position * c
      BY <1>1, <3>1, ProductsInOrder
    <3> QED  BY <1>1, <1>3, <2>2, <3>2
  <2>4. GridCount = 1 \/ balance + position * c < 4 * MinNotional
    <3> SUFFICES ASSUME GridCount # 1
                 PROVE  balance + position * c < 4 * MinNotional
      OBVIOUS
    <3>1. position + b + 1 <= 4 * gap
      BY <1>5, <1>6, <1>8, <2>1
    <3>2. Worth(position + b + 1) <= Worth(4 * gap)
      BY <1>1, <1>3, <1>4, <3>1, ProductsInOrder
    <3> HIDE DEF gap
    <3>3. Worth(4 * gap) = 4 * (gap * c) /\ gap * c \in Nat
      BY <1>1, <1>4
    <3> HIDE DEF Worth
    <3> QED  BY <1>1, <1>3, <1>8, <2>2, <3>2, <3>3, GridAssumption
  <2> QED  BY <2>3, <2>4 DEF MayLackFunds, c
<1>9. MayLackFunds' = MayLackFunds
  BY <1>2 DEF MayLackFunds
<1>10. CASE gap * c < MinNotional
  <2>1. q * c <= balance \/ MayLackFunds
    <3>1. t >= position => q * c <= balance
      BY <1>5, <1>6, <1>7
    <3> QED  BY <1>1, <1>4, <1>8, <1>10, <3>1
  <2>2. todo' = {"buy"} /\ call_quantity' = q /\ call_price' = c /\ balance' = balance
    BY <1>2, <1>10 DEF c
  <2> HIDE DEF gap
  <2> QED  BY <1>9, <2>1, <2>2 DEF AffordInv
<1>11. CASE ~(gap * c < MinNotional)
  <2>1. CASE t < position
    <3>1. gap <= position
      BY <1>1, <1>4, <2>1
    <3> HIDE DEF gap
    <3> QED  BY <1>2, <1>11, <2>1, <3>1 DEF AffordInv
  <2>2. CASE ~(t < position)
    <3>1. gap <= b
      BY <1>1, <1>4, <1>6, <2>2
    <3> HIDE DEF gap
    <3>2. gap * c <= balance
      BY <1>4, <1>7, <3>1
    <3>3. todo' = {"buy"} /\ call_quantity' = gap /\ call_price' = c /\ balance' = balance
      BY <1>2, <1>11, <2>2 DEF c
    <3> QED  BY <3>2, <3>3 DEF AffordInv
  <2> QED  BY <2>1, <2>2
<1> QED  BY <1>10, <1>11

LEMMA AffordNext ==
  ASSUME GridInv, AffordInv, [GridNext]_vars
  PROVE  AffordInv'
<1>1. CASE UNCHANGED vars
  BY <1>1 DEF vars, contextVars, strategyVars, AffordInv, MayLackFunds
<1>2. CASE BrokerAccount
  BY <1>2, AccountAffords
\* update has no order to place before it has seen the account.
<1>3. CASE CallUpdate
  BY <1>3 DEF CallUpdate, EndPass, Update, StartOver, CancelAllOrders, GridInv, HandlerInv,
     AffordInv
<1>4. CASE BrokerCancelBuy \/ BrokerCancelSell
  BY <1>4 DEF BrokerCancelBuy, CancelBuy, BrokerCancelSell, CancelSell, CancelOrder,
     account, callVars, AffordInv, MayLackFunds
<1>5. CASE BrokerLimitSell \/ BrokerLimitBuy
  <2>1. /\ phase' = phase /\ todo' \subseteq todo
        /\ balance' = balance /\ position' = position
        /\ UNCHANGED <<call_price, call_quantity>>
    BY <1>5 DEF BrokerLimitSell, PlaceSell, BrokerLimitBuy, PlaceBuy, AddOrder, account,
       callVars
  <2> QED  BY <2>1 DEF AffordInv, MayLackFunds
<1>6. CASE (Loop /\ ~CallUpdate) \/ Finish
  BY <1>6 DEF Loop, ReadCandle, NextCandle, PassOver, SkipOrder, Fill, FillOrder, EndFilled,
     EraseFilled, UpdateReturns, EndUpdate, Finish, EndOfData, AffordInv
<1> QED  BY <1>1, <1>2, <1>3, <1>4, <1>5, <1>6 DEF GridNext, Broker, Done

-----------------------------------------------------------------------------
(* The theorems *)

THEOREM GridInvariance == GridSpec => []GridInv
BY GridInitInv, GridNextInv, PTL DEF GridSpec

\* The variables of the program keep their types; the balances are never
\* negative (execute_buy_order, execute_sell_order).
THEOREM GridTypeCorrect == GridSpec => [](GridTypeOK /\ Solvent)
<1>1. GridInv => GridTypeOK /\ Solvent
  BY DEF GridInv, ContextInv, GridTypeOK
<1> QED  BY <1>1, GridInvariance, PTL

\* What GridStrategy believes to be open is what BacktestContext has open.
THEOREM BookAgreement == GridSpec => []BookAgrees
<1>1. GridInv => BookAgrees
  BY DEF GridInv
<1> QED  BY <1>1, GridInvariance, PTL

\* No assertion of grid_strategy.cc fails.
THEOREM NoAssertionFails == GridSpec => []AssertionsHold
<1>1. GridInv => AssertionsHold
  BY GridAssumption
     DEF GridInv, AssertionsHold, ValuesReady, SlotsFreed, Due, CallRank
<1> QED  BY <1>1, GridInvariance, PTL

\* on_order_filled never takes the order out of the map that update_orders is
\* about to erase: the iterator it holds across the callback stays valid.
THEOREM IteratorStaysValid == GridSpec => []IteratorValid
<1>1. GridInv => IteratorValid
  BY DEF GridInv, ContextInv, IteratorInMap, IteratorValid
<1> QED  BY <1>1, GridInvariance, PTL

\* The bid and the ask stand two spacings of the current baseline apart.
THEOREM PairAroundOnePrice == GridSpec => []TwoSpacingsApart
<1>1. GridInv => TwoSpacingsApart
  BY DEF GridInv, PairInv, TwoSpacingsApart
<1> QED  BY <1>1, GridInvariance, PTL

\* After update the context holds an order unless the strategy's index forbids it.
THEOREM StaysInTheMarket == GridSpec => []InTheMarket
<1>1. ASSUME BookAgrees, ~NoOrders PROVE DOMAIN orders # {}
  BY <1>1 DEF BookAgrees, NoOrders, Tracked, Slots
<1>2. GridInv => InTheMarket
  BY <1>1 DEF GridInv, MarketInv, InTheMarket
<1> QED  BY <1>2, GridInvariance, PTL

\* One candle fills at most one order of the grid.
THEOREM OneFill == GridSpec => OneFillPerCandle
<1>1. GridInv /\ [GridNext]_vars =>
        [phase = "orders" /\ phase' = "filled" => last_order_index = last_index]_vars
  <2> SUFFICES ASSUME GridInv, GridNext, phase = "orders", phase' = "filled"
               PROVE  last_order_index = last_index
    BY DEF vars
  <2>1. FillOrder
    BY DEF GridNext, Loop, Broker, Done, ReadCandle, NextCandle, PassOver, SkipOrder,
       Fill, EndFilled, EraseFilled, CallUpdate, EndPass, UpdateReturns, EndUpdate,
       Finish, EndOfData, BrokerCancelBuy, BrokerCancelSell, CancelOrder, BrokerAccount,
       BrokerLimitSell, BrokerLimitBuy, AddOrder, StrategyRuns, vars, contextVars
  <2>2. iterator \in DOMAIN orders /\ iterator < last_index
    BY <2>1 DEF FillOrder, InPass, GridInv, ContextInv, IteratorInMap
  <2>3. iterator \in Nat /\ last_index \in Nat
    BY <2>2 DEF GridInv, ContextInv, ContextTypeOK
  <2> QED  BY <2>2, <2>3 DEF GridInv, FillInv
<1> QED  BY <1>1, GridInvariance, PTL DEF GridSpec, OneFillPerCandle

\* The one order of place_initial_orders, whichever branch places it and whatever
\* the account and the prices, can be paid for when it is placed, except a purchase
\* for an account with more coins than money that has one grid line or is worth less
\* than four minimum amounts.
THEOREM InitialOrderIsAffordable == GridSpec => []InitialOrderAffordable
<1>1. AffordInv => InitialOrderAffordable
  BY DEF AffordInv, InitialOrderAffordable, Due
<1>2. GridInv /\ AffordInv /\ [GridNext]_vars => AffordInv'
  BY AffordNext
<1> QED  BY <1>1, <1>2, AffordInitially, GridInvariance, PTL DEF GridSpec

-----------------------------------------------------------------------------
(* A candle is bounded *)

\* How many calls the running handler can still make: asking for the account is
\* followed by one order.
CallsLeft ==
  (IF "cancel_buy" \in todo THEN 1 ELSE 0) + (IF "cancel_sell" \in todo THEN 1 ELSE 0) +
  (IF "account" \in todo THEN 2 ELSE 0) +
  (IF "sell" \in todo THEN 1 ELSE 0) + (IF "buy" \in todo THEN 1 ELSE 0)

\* How many steps of the candle there can still be: six for each index that
\* update_orders may still come to and six for update.
CandleStepsLeft ==
  CASE phase = "orders" -> (IF InPass THEN 6 * (last_index - iterator) ELSE 0) + 6
    [] phase = "filled" -> 6 * (last_index - iterator) + CallsLeft + 1
    [] phase = "update" -> CallsLeft + 1
    [] OTHER -> 0

\* A candle has been read and is not dealt with yet.
InCandle == phase \in {"orders", "filled", "update"}

\* The order being reported is below the bound of the loop.
ReportedInPass == phase = "filled" => iterator < last_index

LEMMA ReportedNext ==
  ReportedInPass /\ [GridNext]_vars => ReportedInPass'
BY DEF ReportedInPass, GridNext, Loop, Broker, Done, ReadCandle, NextCandle, PassOver,
   SkipOrder, Fill, FillOrder, InPass, EndFilled, EraseFilled, CallUpdate, EndPass,
   UpdateReturns, EndUpdate, Finish, EndOfData, BrokerCancelBuy, BrokerCancelSell,
   CancelOrder, BrokerAccount, BrokerLimitSell, BrokerLimitBuy, AddOrder, vars, contextVars

\* Past the order it is at, the loop comes nearer to its bound.
LEMMA LoopAdvances ==
  ASSUME GridInv, iterator \in Nat, last_index \in Nat, iterator < last_index,
         phase' = "orders", iterator' = NextKey(DOMAIN orders, iterator),
         last_index' = last_index
  PROVE  CandleStepsLeft' \in 6..(6 * (last_index - iterator))
<1>1. iterator' = End \/ (iterator' \in Nat /\ iterator' > iterator)
  <2>1. DOMAIN orders \subseteq Nat
    BY DEF GridInv, ContextInv, ContextTypeOK
  <2> QED  BY <2>1, NextKeyIsKey
<1> QED  BY <1>1 DEF CandleStepsLeft, InPass

\* A candle is dealt with in a bounded number of steps, although fills make the
\* strategy cancel and place orders in the map that the loop walks: each step in
\* between brings the end nearer, those inside the callbacks too.
THEOREM CandleIsBounded ==
  GridSpec => [][InCandle =>
                   /\ CandleStepsLeft \in 1..(6 * last_index + 6)
                   /\ CandleStepsLeft' \in 0..(CandleStepsLeft - 1)]_vars
<1>1. Init => ReportedInPass
  BY DEF Init, ContextInit, ReportedInPass
<1>2. GridInv /\ ReportedInPass /\ [GridNext]_vars =>
        [InCandle =>
           /\ CandleStepsLeft \in 1..(6 * last_index + 6)
           /\ CandleStepsLeft' \in 0..(CandleStepsLeft - 1)]_vars
  <2> SUFFICES ASSUME GridInv, ReportedInPass, GridNext, InCandle
               PROVE  /\ CandleStepsLeft \in 1..(6 * last_index + 6)
                      /\ CandleStepsLeft' \in 0..(CandleStepsLeft - 1)
    OBVIOUS
  <2>1. /\ last_index \in Nat /\ iterator \in Nat \cup {End}
        /\ phase = "filled" => iterator \in Nat /\ iterator < last_index
        /\ todo \subseteq {"cancel_buy", "cancel_sell", "account", "sell", "buy"}
        /\ "account" \in todo => "buy" \notin todo /\ "sell" \notin todo
    BY DEF GridInv, ContextInv, ContextTypeOK, IteratorInMap, ReportedInPass, End,
       StrategyTypeOK, CallRank, HandlerInv
  <2>2. CallsLeft \in 0..4
    BY <2>1 DEF CallsLeft
  <2> HIDE DEF CallsLeft
  <2>3. CandleStepsLeft \in 1..(6 * last_index + 6)
    BY <2>1, <2>2 DEF CandleStepsLeft, InPass, InCandle, End
  <2>4. CASE PassOver
    <3>1. CandleStepsLeft = 6 * (last_index - iterator) + 6 /\ iterator \in Nat
      BY <2>1, <2>4 DEF PassOver, SkipOrder, InPass, CandleStepsLeft
    <3>2. CandleStepsLeft' \in 6..(6 * (last_index - iterator))
      BY <2>1, <2>4, <3>1, LoopAdvances DEF PassOver, SkipOrder, InPass
    <3> QED  BY <2>1, <2>3, <3>1, <3>2
  <2>5. CASE EndFilled
    <3>1. CandleStepsLeft = 6 * (last_index - iterator) + CallsLeft + 1
      BY <2>5 DEF EndFilled, EraseFilled, CandleStepsLeft
    <3>2. CandleStepsLeft' \in 6..(6 * (last_index - iterator))
      BY <2>1, <2>5, LoopAdvances DEF EndFilled, EraseFilled
    <3> QED  BY <2>1, <2>2, <2>3, <3>1, <3>2
  <2>6. CASE Fill \/ CallUpdate
    <3>1. CallsLeft' \in 0..4
      BY <2>6 DEF Fill, OnOrderFilled, CallUpdate, Update, CancelAllOrders, StartOver,
         EndPass, GridInv, HandlerInv, CallsLeft
    <3> QED
      BY <2>1, <2>3, <2>6, <3>1 DEF Fill, FillOrder, InPass, CallUpdate, EndPass, CandleStepsLeft
  <2>7. CASE UpdateReturns
    BY <2>2, <2>3, <2>7 DEF UpdateReturns, EndUpdate, CandleStepsLeft
  <2>8. CASE Broker
    <3>1. CallsLeft' \in 0..(CallsLeft - 1)
      BY <2>1, <2>8 DEF Broker, BrokerCancelBuy, CancelBuy, BrokerCancelSell, CancelSell,
         BrokerAccount, PlaceInitialOrders, SideTowards, BrokerLimitSell, PlaceSell,
         BrokerLimitBuy, PlaceBuy, Due, CallsLeft
    <3>2. phase \in {"filled", "update"} /\ UNCHANGED <<phase, iterator, last_index>>
      BY <2>8 DEF Broker, BrokerCancelBuy, BrokerCancelSell, BrokerAccount, BrokerLimitSell,
         BrokerLimitBuy, AddOrder, CancelOrder, StrategyRuns, contextVars
    <3> QED  BY <2>1, <2>2, <3>1, <3>2 DEF CandleStepsLeft
  <2> QED
    BY <2>3, <2>4, <2>5, <2>6, <2>7, <2>8 DEF GridNext, Loop, ReadCandle, NextCandle,
       Finish, EndOfData, Done, InCandle
<1> QED  BY <1>1, <1>2, ReportedNext, GridInvariance, PTL DEF GridSpec
=============================================================================
