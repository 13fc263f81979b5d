---------------------------- MODULE Strategy001 -----------------------------
(***************************************************************************)
(* Strategy001 (strategy2/strategy001.h) giving its commands to            *)
(* BacktestEngine.  At every event it cancels the open lists in which      *)
(* nothing has executed yet and places one new list: a limit buy that,     *)
(* when it executes, activates a stop below it and a limit sell above it.  *)
(*                                                                         *)
(* The event is made by a caller the repository does not hold: it carries  *)
(* the lists that still have an order New or PendingNew, with the statuses *)
(* of that moment (struct ScheduleTaskEvent).  The price of the buy, the   *)
(* open price less a tenth of the range, is any of BuyPrices.              *)
(***************************************************************************)
EXTENDS BacktestEngine

CONSTANT BuyPrices
ASSUME StrategyAssumption == BuyPrices \subseteq Nat \ {0}

Statuses001(list) == {orders[id].status : id \in ToSet(order_lists[list])}
IsOpen(list) == Statuses001(list) \cap {"New", "PendingNew"} # {}

\* Mutant: every open list is taken for new.
IsOpenList(list) == TRUE
IsNewOrder(list) == "Filled" \notin Statuses001(list)

ListsToCancel == {list \in DOMAIN order_lists : IsOpen(list) /\ IsNewOrder(list)}
\* Mutant: the entry of a list is not cancelled with its legs.
LegsToCancel == UNION {ToSet(Tail(order_lists[list])) : list \in ListsToCancel}
OrdersToCancel == UNION {ToSet(order_lists[list]) : list \in ListsToCancel}

\* The legs stand one unit on either side of the buy (0.05 percent in the code).
Leg(type, price) == [type |-> type, side |-> "sell", price |-> price]

\* The whole handler: nothing happens between its commands.
OnEvent(price) ==
  LET n     == Len(orders)
      entry == MakeOrder([type |-> "limit", side |-> "buy", price |-> price], "New")
      stop  == MakeOrder(Leg("stop_loss", price - 1), "PendingNew")
      exit  == MakeOrder(Leg("limit", price + 1), "PendingNew")
  IN  /\ iter = 0 /\ n + 3 <= MaxOrders
      /\ orders' = [j \in Ids |->
                      IF j \in OrdersToCancel
                      THEN WithStatus(orders[j], "Canceled") ELSE orders[j]]
                   \o <<Triggers(entry, <<n + 2, n + 3>>), Cancels(stop, n + 3),
                        Cancels(exit, n + 2)>>
      /\ new_orders' = Append(new_orders, n + 1)
      /\ order_lists' = Append(order_lists, <<n + 1, n + 2, n + 3>>)
      /\ UNCHANGED <<Account, candle, iter, passes>>

StrategyNext == BeginPass \/ Pass \/ Returned \/ \E price \in BuyPrices : OnEvent(price)

StrategySpec == Init /\ [][StrategyNext]_vars

-----------------------------------------------------------------------------
(* Properties *)

Entry(list) == orders[order_lists[list][1]]
Stop(list)  == orders[order_lists[list][2]]
Exit(list)  == orders[order_lists[list][3]]
Lists == DOMAIN order_lists

\* A bought position is never left without its way out: from the moment the buy
\* has executed both legs are active, until one executes and the other is
\* cancelled.
PositionProtected ==
  \A list \in Lists : Entry(list).fills > 0 =>
    <<Stop(list).status, Exit(list).status>> \in
      {<<"New", "New">>, <<"Filled", "Canceled">>, <<"Canceled", "Filled">>}

\* What a list with orders of these statuses is as a bracket; "broken" is none of
\* Brackets' states.
BracketOf(entry, stop, exit) ==
  LET status == <<entry, stop, exit>>
  IN  IF status = <<"New", "PendingNew", "PendingNew">> THEN "waiting"
      ELSE IF status = <<"Filled", "New", "New">> THEN "held"
      ELSE IF status = <<"Filled", "Filled", "Canceled">> THEN "stopped"
      ELSE IF status = <<"Filled", "Canceled", "Filled">> THEN "taken"
      ELSE IF status = <<"Canceled", "Canceled", "Canceled">> THEN "withdrawn"
      ELSE "broken"
Bracket(list) == BracketOf(Entry(list).status, Stop(list).status, Exit(list).status)

\* The lists live the lives of brackets: one waits at a time, a new one withdraws
\* the one that waits whole and touches no other, a position ends once, and what has
\* executed stays executed, although the engine would cancel an executed order too
\* (backtest_engine.cc line 85) and one candle may enter and end a bracket.
BracketsSpec == INSTANCE Brackets WITH brackets <- [list \in Lists |-> Bracket(list)]
ImplementsBrackets == BracketsSpec!Spec

\* The account is short of the base asset by no more than the commissions of the
\* positions that were closed: each was bought less its commission and sold whole,
\* and nothing checks the funds (backtest_engine.cc lines 42-53).
Held   == {list \in Lists : Bracket(list) = "held"}
Closed == {list \in Lists : Bracket(list) \in {"stopped", "taken"}}
ShortOnlyByCommission ==
  base = Cardinality(Held) * AfterFee(Quantity)
         - Cardinality(Closed) * (Quantity - AfterFee(Quantity))
=============================================================================
