--------------------------- MODULE BacktestEngine ---------------------------
(***************************************************************************)
(* The second backtest, backtest2/: an engine that keeps every order ever  *)
(* placed with a status, links orders into contingent lists (one triggers  *)
(* the other, one cancels the other, one triggers a pair that cancel each  *)
(* other), and at every candle walks the queue of its active orders.  An   *)
(* order that executes activates and cancels its linked orders while the   *)
(* walk is going on, and what it activates is appended to the queue.       *)
(*                                                                         *)
(* The order of passes and commands is the caller's: BacktestEngine::run   *)
(* is declared and not defined.  Commands come from a strategy's on_event, *)
(* which is not called during a pass.                                      *)
(*                                                                         *)
(* The deque is walked as one that grows at its end: the iterator that     *)
(* push_back invalidates formally still works in the implementation until  *)
(* the walk leaves the block of 64 it started in, and the model stays      *)
(* below that.  Ids start at 1, one more than in the code.                 *)
(***************************************************************************)
EXTENDS Integers, Sequences, SequencesExt, FiniteSets

CONSTANTS
  Candles,      \* the candles of the data: low, high, close price
  Requests,     \* the NewOrder commands a strategy may give: type, side, price
  Quantity,     \* the quantity of every order
  FeePerMille,  \* the commission, 0.1 in the code
  MaxPasses,    \* bound: candles replayed
  MaxOrders     \* bound: orders placed

Types == {"limit", "market", "stop_loss"}
Sides == {"buy", "sell"}

ASSUME EngineAssumption ==
  /\ Candles \subseteq [low : Nat, high : Nat, close : Nat]
  /\ Requests \subseteq [type : Types, side : Sides, price : Nat]
  /\ Quantity \in Nat /\ FeePerMille \in 0..1000
  /\ MaxPasses \in Nat /\ MaxOrders \in Nat

VARIABLES
  orders,        \* orders_
  new_orders,    \* new_orders_: ids of the orders a pass looks at
  order_lists,   \* order_lists_
  base, quote,   \* base_, quote_
  candle,        \* the candle of the running pass
  iter,          \* position of the pass in new_orders; 0 between passes
  passes         \* how many candles have been replayed

vars == <<orders, new_orders, order_lists, base, quote, candle, iter, passes>>

Statuses == {"New", "PendingNew", "Filled", "Canceled"}

\* OrderBase: triggered and canceled are the ids of the linked orders; fills is
\* history, the number of times the order has executed.
\* Mutant: the order is active from the start.
MakeActiveOrder(request, status) ==
  [type |-> request.type, side |-> request.side, price |-> request.price,
   status |-> "New", triggered |-> <<>>, canceled |-> <<>>, fills |-> 0]
MakeOrder(request, status) ==
  [type |-> request.type, side |-> request.side, price |-> request.price,
   status |-> status, triggered |-> <<>>, canceled |-> <<>>, fills |-> 0]

IsStatus(id, status) == orders[id].status = status
WithStatus(o, status) == [o EXCEPT !.status = status]
Executed(o) == [o EXCEPT !.status = "Filled", !.fills = @ + 1]

Init ==
  /\ orders = <<>> /\ new_orders = <<>> /\ order_lists = <<>>
  /\ base = 0 /\ quote = 0
  /\ candle \in Candles
  /\ iter = 0 /\ passes = 0

-----------------------------------------------------------------------------
(* One pass over the active orders (update_new_orders) *)

Reached(o) ==
  \/ o.type = "market"
  \/ o.type = "limit"     /\ o.side = "buy"  /\ candle.low <= o.price
  \/ o.type = "limit"     /\ o.side = "sell" /\ o.price <= candle.high
  \/ o.type = "stop_loss" /\ o.side = "sell" /\ candle.low <= o.price
  \/ o.type = "stop_loss" /\ o.side = "buy"  /\ o.price <= candle.high

ExecutionPrice(o) == IF o.type = "market" THEN candle.close ELSE o.price

AfterFee(x) == (x * (1000 - FeePerMille)) \div 1000

\* on_event(FillOrderEvent): no funds are checked, and the commission is taken from
\* what is received.
\* Mutant: it is taken from the base asset on either side.
SettleInBase(o) ==
  LET amount == Quantity * ExecutionPrice(o)
  IN  IF o.side = "buy"
      THEN base' = base + AfterFee(Quantity) /\ quote' = quote - amount
      ELSE base' = base - (2 * Quantity - AfterFee(Quantity)) /\ quote' = quote + amount
Settle(o) ==
  LET amount == Quantity * ExecutionPrice(o)
  IN  IF o.side = "buy"
      THEN base' = base + AfterFee(Quantity) /\ quote' = quote - amount
      ELSE base' = base - Quantity /\ quote' = quote + AfterFee(amount)

\* The orders after order id has got status Filled: first its triggered orders
\* become New, then its canceled ones Canceled.
\* Mutant: the canceled orders are forgotten.
FilledWithoutCancel(id) ==
  [j \in DOMAIN orders |->
     IF j = id THEN Executed(orders[j])
     ELSE IF Contains(orders[id].triggered, j) THEN WithStatus(orders[j], "New")
     ELSE orders[j]]
Filled(id) ==
  [j \in DOMAIN orders |->
     IF j = id THEN Executed(orders[j])
     ELSE IF Contains(orders[id].canceled, j)
          THEN WithStatus(orders[j], "Canceled")
     ELSE IF Contains(orders[id].triggered, j)
          THEN WithStatus(orders[j], "New")
     ELSE orders[j]]

BeginPass ==
  /\ iter = 0 /\ passes < MaxPasses
  /\ candle' \in Candles
  /\ iter' = 1 /\ passes' = passes + 1
  /\ UNCHANGED <<orders, new_orders, order_lists, base, quote>>

\* The loop looks at the end of the queue anew every time.
InPass == iter \in DOMAIN new_orders

Executes(id) == IsStatus(id, "New") /\ Reached(orders[id])

\* Mutant: the iterator is not advanced.
SkipWithoutAdvance ==
  /\ InPass /\ ~Executes(new_orders[iter])
  /\ UNCHANGED vars
SkipOrder ==
  /\ InPass /\ ~Executes(new_orders[iter])
  /\ iter' = iter + 1
  /\ UNCHANGED <<orders, new_orders, order_lists, base, quote, candle, passes>>

FillOrder ==
  /\ InPass /\ Executes(new_orders[iter])
  /\ LET id == new_orders[iter]
     IN  /\ Settle(orders[id])
         /\ orders' = Filled(id)
         /\ new_orders' = new_orders \o orders[id].triggered
  /\ iter' = iter + 1
  /\ UNCHANGED <<order_lists, candle, passes>>

\* The elements of s at positions K, in their order.
Keep(s, K) ==
  [j \in 1..Cardinality(K) |-> s[CHOOSE k \in K : Cardinality({i \in K : i <= k}) = j]]

\* The orders that are no longer New leave the queue.
EndPass ==
  /\ iter > 0 /\ ~InPass
  /\ new_orders' = Keep(new_orders, {k \in DOMAIN new_orders : IsStatus(new_orders[k], "New")})
  /\ iter' = 0
  /\ UNCHANGED <<orders, order_lists, base, quote, candle, passes>>

Pass == SkipOrder \/ FillOrder \/ EndPass

-----------------------------------------------------------------------------
(* The commands of the Broker interface *)

Account == <<base, quote>>
Cancel(ids) ==
  /\ iter = 0
  /\ orders' = [j \in DOMAIN orders |->
                  IF j \in ids THEN WithStatus(orders[j], "Canceled") ELSE orders[j]]
  /\ UNCHANGED <<new_orders, order_lists, Account, candle, iter, passes>>

\* Neither looks at the status the order has.
CancelOrder(id) == Cancel({id})
CancelOrderList(list) == Cancel(ToSet(order_lists[list]))

\* Orders with the given links are appended; the New ones enter the queue.
NewIds(added) == [k \in DOMAIN added |-> Len(orders) + k]
\* Mutant: orders that wait for their trigger enter it too.
QueuesPending(added) == NewIds(added)
Queued(added) == Keep(NewIds(added), {k \in DOMAIN added : added[k].status = "New"})

Add(added) ==
  /\ iter = 0 /\ Len(orders) + Len(added) <= MaxOrders
  /\ orders' = orders \o added
  /\ new_orders' = new_orders \o Queued(added)
  /\ UNCHANGED <<Account, candle, iter, passes>>

AddList(added) ==
  /\ Add(added)
  /\ order_lists' = Append(order_lists, NewIds(added))

NewOrder(request) ==
  /\ Add(<<MakeOrder(request, "New")>>)
  /\ UNCHANGED order_lists

\* Mutant: the ids are off by one.
TriggersNext(order, ids) == [order EXCEPT !.triggered = [k \in DOMAIN ids |-> ids[k] + 1]]
Triggers(order, ids) == [order EXCEPT !.triggered = ids]
Cancels(order, id) == [order EXCEPT !.canceled = <<id>>]

NewOto(working, pending) ==
  AddList(<<Triggers(MakeOrder(working, "New"), <<Len(orders) + 2>>),
            MakeOrder(pending, "PendingNew")>>)

\* The second leg waits for a trigger that no order gives.
NewOco(above, below) ==
  AddList(<<Cancels(MakeOrder(above, "New"), Len(orders) + 2),
            Cancels(MakeOrder(below, "PendingNew"), Len(orders) + 1)>>)

NewOtoco(working, above, below) ==
  AddList(<<Triggers(MakeOrder(working, "New"), <<Len(orders) + 2, Len(orders) + 3>>),
            Cancels(MakeOrder(above, "PendingNew"), Len(orders) + 3),
            Cancels(MakeOrder(below, "PendingNew"), Len(orders) + 2)>>)

AnyCommand ==
  \/ \E id \in DOMAIN orders : CancelOrder(id)
  \/ \E list \in DOMAIN order_lists : CancelOrderList(list)
  \/ \E r \in Requests : NewOrder(r)
  \/ \E r, s \in Requests : NewOto(r, s) \/ NewOco(r, s)
  \/ \E r, s, t \in Requests : NewOtoco(r, s, t)

-----------------------------------------------------------------------------

\* The caller has no more candles and commands.
Returned == iter = 0 /\ UNCHANGED vars

Next == BeginPass \/ Pass \/ AnyCommand \/ Returned

Spec == Init /\ [][Next]_vars

\* A pass, once begun, is one call that runs to its end.
FairSpec == Spec /\ WF_vars(Pass)

-----------------------------------------------------------------------------
(* Properties *)

Ids == DOMAIN orders

EngineTypeOK ==
  /\ \A id \in Ids :
       /\ orders[id].type \in Types /\ orders[id].side \in Sides
       /\ orders[id].status \in Statuses /\ orders[id].fills \in Nat
       /\ ToSet(orders[id].triggered) \cup ToSet(orders[id].canceled) \subseteq Ids
  /\ ToSet(new_orders) \subseteq Ids
  /\ \A l \in DOMAIN order_lists : ToSet(order_lists[l]) \subseteq Ids
  /\ iter \in 0..(Len(new_orders) + 1)

\* Every active order is in the queue, exactly once, whatever was triggered and
\* cancelled in whatever order: none is lost, none is looked at twice in a pass.
ActiveOrdersQueuedOnce ==
  \A id \in Ids : IsStatus(id, "New") =>
    \E k \in DOMAIN new_orders :
      \A m \in DOMAIN new_orders : new_orders[m] = id <=> m = k

\* No order executes twice, and of two orders that cancel each other at most one
\* executes, even when both are reached by one candle.
OneLegExecutes ==
  \A id \in Ids :
    /\ orders[id].fills <= 1
    /\ orders[id].fills = 1 =>
         \A other \in ToSet(orders[id].canceled) : orders[other].fills = 0

\* Of a list only the first order acts by itself: each other executes only after an
\* order that triggers it has.  So the second leg of an OCO list, which no order
\* triggers (backtest_engine.cc line 136), never executes.
PendingWaitsForTrigger ==
  \A l \in DOMAIN order_lists : \A p \in ToSet(Tail(order_lists[l])) :
    orders[p].fills > 0 =>
      \E id \in Ids : Contains(orders[id].triggered, p) /\ orders[id].fills > 0

\* The assertion of on_event(TriggerOrderEvent), backtest_engine.cc line 57: what
\* an execution activates was waiting for it.
TriggersWerePending ==
  [][\A id \in Ids : orders'[id].status = "New" /\ ~IsStatus(id, "New") =>
       IsStatus(id, "PendingNew")]_vars

\* A pass ends although executions append to the queue it walks.
PassEnds == iter > 0 ~> iter = 0
=============================================================================
