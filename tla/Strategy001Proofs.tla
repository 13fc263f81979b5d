-------------------------- MODULE Strategy001Proofs --------------------------
(***************************************************************************)
(* Theorems about Strategy001 on the engine: for any candles, prices and   *)
(* number of lists, each of its lists lives the life of a bracket.         *)
(***************************************************************************)
EXTENDS Strategy001, BacktestEngineProofs

BracketStates == {"waiting", "held", "stopped", "taken", "withdrawn"}

\* List l owns orders 3l - 2, 3l - 1 and 3l, linked as add_otoco links them.
OwnsInv ==
  /\ Len(orders) = 3 * Len(order_lists)
  /\ \A l \in Lists : order_lists[l] = <<3 * l - 2, 3 * l - 1, 3 * l>>

Chained(l) ==
  /\ Triggered(3 * l - 2) = {3 * l - 1, 3 * l} /\ Canceled(3 * l - 2) = {}
  /\ Triggered(3 * l - 1) = {} /\ Canceled(3 * l - 1) = {3 * l}
  /\ Triggered(3 * l) = {} /\ Canceled(3 * l) = {3 * l - 1}
  /\ orders[3 * l - 2].side = "buy"
  /\ orders[3 * l - 1].side = "sell" /\ orders[3 * l].side = "sell"

BracketInv ==
  /\ OwnsInv
  /\ \A l \in Lists : Chained(l) /\ Bracket(l) \in BracketStates
  /\ \A id \in Ids : orders[id].fills > 0 <=> IsStatus(id, "Filled")

StrategyInv == EngineInv /\ BracketInv /\ ShortOnlyByCommission

LEMMA BracketMeans ==
  ASSUME NEW e, NEW s, NEW x
  PROVE  /\ BracketOf(e, s, x) = "waiting"
              <=> e = "New" /\ s = "PendingNew" /\ x = "PendingNew"
         /\ BracketOf(e, s, x) = "held" <=> e = "Filled" /\ s = "New" /\ x = "New"
         /\ BracketOf(e, s, x) = "stopped" <=> e = "Filled" /\ s = "Filled" /\ x = "Canceled"
         /\ BracketOf(e, s, x) = "taken" <=> e = "Filled" /\ s = "Canceled" /\ x = "Filled"
         /\ BracketOf(e, s, x) = "withdrawn"
              <=> e = "Canceled" /\ s = "Canceled" /\ x = "Canceled"
BY DEF BracketOf

\* Every order belongs to one list.
LEMMA OwnedByOne ==
  ASSUME NEW n \in Nat
  PROVE  /\ \A id \in 1..(3 * n) : \E l \in 1..n : id \in {3 * l - 2, 3 * l - 1, 3 * l}
         /\ \A l \in 1..n : {3 * l - 2, 3 * l - 1, 3 * l} \subseteq 1..(3 * n)
         /\ \A k, l \in 1..n : k # l =>
              {3 * k - 2, 3 * k - 1, 3 * k} \cap {3 * l - 2, 3 * l - 1, 3 * l} = {}
<1>1. ASSUME NEW id \in 1..(3 * n)
      PROVE  \E l \in 1..n : id \in {3 * l - 2, 3 * l - 1, 3 * l}
  <2> DEFINE l == (id + 2) \div 3
  <2>1. l \in 1..n /\ (id = 3 * l - 2 \/ id = 3 * l - 1 \/ id = 3 * l)
    OBVIOUS
  <2> QED  BY <2>1
<1>2. \A l \in 1..n : {3 * l - 2, 3 * l - 1, 3 * l} \subseteq 1..(3 * n)
  OBVIOUS
<1>3. \A k, l \in 1..n : k # l =>
        {3 * k - 2, 3 * k - 1, 3 * k} \cap {3 * l - 2, 3 * l - 1, 3 * l} = {}
  OBVIOUS
<1> QED  BY <1>1, <1>2, <1>3

\* What the invariant says of the orders of a list.
LEMMA ListsShape ==
  ASSUME ShapeInv, OwnsInv
  PROVE  /\ Len(order_lists) \in Nat /\ Lists = 1..Len(order_lists)
         /\ Ids = 1..(3 * Len(order_lists))
         /\ \A l \in Lists :
              /\ Entry(l) = orders[3 * l - 2] /\ Stop(l) = orders[3 * l - 1]
              /\ Exit(l) = orders[3 * l]
              /\ ToSet(order_lists[l]) = {3 * l - 2, 3 * l - 1, 3 * l}
              /\ {3 * l - 2, 3 * l - 1, 3 * l} \subseteq Ids
<1>1. Len(order_lists) \in Nat /\ Lists = 1..Len(order_lists)
  BY LenProperties DEF ShapeInv, Lists
<1>2. Ids = 1..(3 * Len(order_lists))
  BY Shape DEF OwnsInv
<1>3. \A l \in Lists : /\ ToSet(order_lists[l]) = {3 * l - 2, 3 * l - 1, 3 * l}
                       /\ {3 * l - 2, 3 * l - 1, 3 * l} \subseteq Ids
  <2>1. ASSUME NEW l \in Lists
        PROVE  ToSet(order_lists[l]) = {3 * l - 2, 3 * l - 1, 3 * l}
    <3>1. order_lists[l] = <<3 * l - 2, 3 * l - 1, 3 * l>>
      BY DEF OwnsInv
    <3>2. \A a, b, c : ToSet(<<a, b, c>>) = {a, b, c}
      BY FewIds
    <3> QED  BY <3>1, <3>2
  <2>2. \A l \in Lists : {3 * l - 2, 3 * l - 1, 3 * l} \subseteq Ids
    BY <1>1, <1>2, OwnedByOne
  <2> QED  BY <2>1, <2>2
<1>4. \A l \in Lists : /\ Entry(l) = orders[3 * l - 2] /\ Stop(l) = orders[3 * l - 1]
                       /\ Exit(l) = orders[3 * l]
  BY DEF OwnsInv, Entry, Stop, Exit
<1> QED  BY <1>1, <1>2, <1>3, <1>4

\* The states of a bracket, in terms of its orders.
LEMMA BracketStatus ==
  ASSUME OwnsInv, NEW l \in Lists
  PROVE  Bracket(l) = BracketOf(orders[3 * l - 2].status, orders[3 * l - 1].status,
                                orders[3 * l].status)
<1>1. /\ Entry(l) = orders[3 * l - 2] /\ Stop(l) = orders[3 * l - 1]
      /\ Exit(l) = orders[3 * l]
  BY DEF OwnsInv, Entry, Stop, Exit
<1> QED  BY <1>1 DEF Bracket

LEMMA BracketStatusNext ==
  ASSUME OwnsInv', NEW l \in Lists'
  PROVE  Bracket(l)' = BracketOf(orders'[3 * l - 2].status, orders'[3 * l - 1].status,
                                 orders'[3 * l].status)
<1>1. /\ Entry(l)' = orders'[3 * l - 2] /\ Stop(l)' = orders'[3 * l - 1]
      /\ Exit(l)' = orders'[3 * l]
  BY DEF OwnsInv, Entry, Stop, Exit
<1> QED  BY <1>1 DEF Bracket

-----------------------------------------------------------------------------
(* The steps *)

\* A step that keeps the lists, the links and the sides keeps who owns what.
LEMMA ChainsStay ==
  ASSUME ShapeInv, OwnsInv, \A l \in Lists : Chained(l),
         UNCHANGED order_lists, Ids' = Ids, Len(orders') = Len(orders),
         \A j \in Ids : /\ orders'[j].triggered = orders[j].triggered
                        /\ orders'[j].canceled = orders[j].canceled
                        /\ orders'[j].side = orders[j].side
  PROVE  OwnsInv' /\ Lists' = Lists /\ \A l \in Lists : Chained(l)'
<1>1. OwnsInv' /\ Lists' = Lists
  BY DEF OwnsInv, Lists
<1>2. \A j \in Ids : Triggered(j)' = Triggered(j) /\ Canceled(j)' = Canceled(j)
  BY DEF Triggered, Canceled
<1>3. ASSUME NEW l \in Lists PROVE Chained(l)'
  <2>1. 3 * l - 2 \in Ids /\ 3 * l - 1 \in Ids /\ 3 * l \in Ids
    BY ListsShape
  <2> QED  BY <1>2, <2>1 DEF Chained
<1> QED  BY <1>1, <1>3

\* One execution moves one bracket, and activates only what waited.
LEMMA FillMovesOne ==
  ASSUME EngineInv, BracketInv, FillOrder, NEW id, id = new_orders[iter]
  PROVE  /\ BracketInv' /\ Lists' = Lists
         /\ \A j \in Ids : orders'[j].status = "New" /\ ~IsStatus(j, "New") =>
              IsStatus(j, "PendingNew")
         /\ \E l \in Lists :
              /\ \A k \in Lists \ {l} : Bracket(k)' = Bracket(k)
              /\ \/ /\ orders[id].side = "buy"
                    /\ Bracket(l) = "waiting" /\ Bracket(l)' = "held"
                 \/ /\ orders[id].side = "sell"
                    /\ Bracket(l) = "held" /\ Bracket(l)' \in {"stopped", "taken"}
<1>1. /\ id \in Ids /\ IsStatus(id, "New") /\ orders' = Filled(id)
      /\ UNCHANGED order_lists /\ Ids' = Ids
      /\ orders'[id].fills = 1 /\ orders'[id].status = "Filled"
      /\ \A j \in Triggered(id) : orders'[j].status = "New"
      /\ \A j \in Canceled(id) : orders'[j].status = "Canceled"
      /\ \A j \in Ids \ ({id} \cup Triggered(id) \cup Canceled(id)) :
           orders'[j].status = orders[j].status
  BY FillEffect
<1>2. /\ \A j \in Ids : /\ orders'[j].triggered = orders[j].triggered
                        /\ orders'[j].canceled = orders[j].canceled
                        /\ orders'[j].side = orders[j].side
      /\ \A j \in Ids \ {id} : orders'[j].fills = orders[j].fills
  BY FillEffect
<1>3. EngineInv' /\ ShapeInv /\ ShapeInv' /\ OwnsInv /\ \A l \in Lists : Chained(l)
  BY FillPreserves DEF EngineInv, BracketInv
<1>4. Len(orders') = Len(orders)
  BY <1>1, <1>3, Shape, LenProperties DEF Ids, ShapeInv
<1>5. OwnsInv' /\ Lists' = Lists /\ \A l \in Lists : Chained(l)'
  BY <1>1, <1>2, <1>3, <1>4, ChainsStay
<1>6. PICK l \in Lists : id \in {3 * l - 2, 3 * l - 1, 3 * l}
  BY <1>1, <1>3, ListsShape, OwnedByOne
<1> DEFINE e == 3 * l - 2
           s == 3 * l - 1
           x == 3 * l
<1>7. /\ e \in Ids /\ s \in Ids /\ x \in Ids /\ e # s /\ e # x /\ s # x
      /\ id = e \/ id = s \/ id = x
      /\ Triggered(e) = {s, x} /\ Canceled(e) = {}
      /\ Triggered(s) = {} /\ Canceled(s) = {x} /\ Triggered(x) = {} /\ Canceled(x) = {s}
      /\ orders[e].side = "buy" /\ orders[s].side = "sell" /\ orders[x].side = "sell"
      /\ l \in Nat
  BY <1>3, <1>6, ListsShape DEF Chained
<1>8. /\ Bracket(l) = BracketOf(orders[e].status, orders[s].status, orders[x].status)
      /\ Bracket(l)' = BracketOf(orders'[e].status, orders'[s].status, orders'[x].status)
      /\ Bracket(l) \in BracketStates
  BY <1>3, <1>5, BracketStatus, BracketStatusNext DEF BracketInv
<1>9. ASSUME NEW k \in Lists \ {l} PROVE Bracket(k)' = Bracket(k)
  <2>1. /\ {3 * k - 2, 3 * k - 1, 3 * k} \cap {e, s, x} = {}
        /\ {3 * k - 2, 3 * k - 1, 3 * k} \subseteq Ids
    BY <1>3, <1>9, ListsShape, OwnedByOne
  <2>2. {id} \cup Triggered(id) \cup Canceled(id) \subseteq {e, s, x}
    BY <1>7
  <2> HIDE DEF e, s, x
  <2>3. \A j \in {3 * k - 2, 3 * k - 1, 3 * k} : orders'[j].status = orders[j].status
    BY <1>1, <2>1, <2>2
  <2>4. /\ Bracket(k) = BracketOf(orders[3 * k - 2].status, orders[3 * k - 1].status,
                                  orders[3 * k].status)
        /\ Bracket(k)' = BracketOf(orders'[3 * k - 2].status, orders'[3 * k - 1].status,
                                   orders'[3 * k].status)
    BY <1>3, <1>5, <1>9, BracketStatus, BracketStatusNext
  <2> QED  BY <2>3, <2>4
<1> HIDE DEF e, s, x
<1>10. /\ \/ /\ orders[id].side = "buy"
             /\ Bracket(l) = "waiting" /\ Bracket(l)' = "held"
          \/ /\ orders[id].side = "sell"
             /\ Bracket(l) = "held" /\ Bracket(l)' \in {"stopped", "taken"}
       /\ \A j \in {e, s, x} : orders'[j].status = "New" /\ ~IsStatus(j, "New") =>
            IsStatus(j, "PendingNew")
       /\ \A j \in {e, s, x} \ {id} :
            IsStatus(j, "Filled") <=> orders'[j].status = "Filled"
  <2>1. CASE id = e
    <3>1. orders[e].status = "New" /\ orders'[e].status = "Filled"
          /\ orders'[s].status = "New" /\ orders'[x].status = "New"
      BY <1>1, <1>7, <2>1 DEF IsStatus
    <3>2. Bracket(l) = "waiting" /\ orders[s].status = "PendingNew" /\ orders[x].status = "PendingNew"
      BY <1>8, <3>1, BracketMeans DEF BracketStates
    <3>3. Bracket(l)' = "held"
      BY <1>8, <3>1, BracketMeans
    <3> QED  BY <1>7, <2>1, <3>1, <3>2, <3>3 DEF IsStatus
  <2>2. CASE id = s
    <3>1. orders[s].status = "New" /\ orders'[s].status = "Filled"
          /\ orders'[x].status = "Canceled" /\ orders'[e].status = orders[e].status
      BY <1>1, <1>7, <2>2 DEF IsStatus
    <3>2. Bracket(l) = "held" /\ orders[e].status = "Filled" /\ orders[x].status = "New"
      BY <1>8, <3>1, BracketMeans DEF BracketStates
    <3>3. Bracket(l)' = "stopped"
      BY <1>8, <3>1, <3>2, BracketMeans
    <3> QED  BY <1>7, <2>2, <3>1, <3>2, <3>3 DEF IsStatus
  <2>3. CASE id = x
    <3>1. orders[x].status = "New" /\ orders'[x].status = "Filled"
          /\ orders'[s].status = "Canceled" /\ orders'[e].status = orders[e].status
      BY <1>1, <1>7, <2>3 DEF IsStatus
    <3>2. Bracket(l) = "held" /\ orders[e].status = "Filled" /\ orders[s].status = "New"
      BY <1>8, <3>1, BracketMeans DEF BracketStates
    <3>3. Bracket(l)' = "taken"
      BY <1>8, <3>1, <3>2, BracketMeans
    <3> QED  BY <1>7, <2>3, <3>1, <3>2, <3>3 DEF IsStatus
  <2> QED  BY <1>7, <2>1, <2>2, <2>3
<1>11. \A j \in Ids \ {e, s, x} : orders'[j].status = orders[j].status
  BY <1>1, <1>7
<1>12. \A k \in Lists : Bracket(k)' \in BracketStates
  BY <1>9, <1>10 DEF BracketInv, BracketStates
<1>13. \A j \in Ids : orders'[j].fills > 0 <=> orders'[j].status = "Filled"
  <2>1. \A j \in Ids : orders[j].fills > 0 <=> orders[j].status = "Filled"
    BY DEF BracketInv, IsStatus
  <2> QED  BY <1>1, <1>2, <1>10, <1>11, <2>1 DEF IsStatus
<1>14. BracketInv'
  BY <1>1, <1>5, <1>12, <1>13 DEF BracketInv, IsStatus
<1> QED  BY <1>5, <1>9, <1>10, <1>11, <1>14 DEF IsStatus

\* Any step but an execution and an event keeps every bracket.
LEMMA BracketsStay ==
  ASSUME StrategyInv, UNCHANGED <<orders, order_lists, base>>
  PROVE  /\ BracketInv' /\ ShortOnlyByCommission' /\ Lists' = Lists
         /\ \A l \in Lists : Bracket(l)' = Bracket(l)
<1>1. /\ Lists' = Lists /\ Ids' = Ids /\ OwnsInv'
      /\ \A l : Bracket(l)' = Bracket(l)
      /\ \A l : Chained(l)' = Chained(l)
  BY DEF StrategyInv, BracketInv, OwnsInv, Lists, Ids, Bracket, Entry, Stop, Exit, Chained,
         Triggered, Canceled
<1>2. Held' = Held /\ Closed' = Closed
  BY <1>1 DEF Held, Closed
<1>3. ShortOnlyByCommission'
  BY <1>2 DEF StrategyInv, ShortOnlyByCommission
<1>4. BracketInv'
  BY <1>1 DEF StrategyInv, BracketInv, IsStatus
<1> QED  BY <1>1, <1>3, <1>4

\* The lists that an event cancels are those that wait, and it adds one that waits.
LEMMA EventPlaces ==
  ASSUME EngineInv, BracketInv, NEW price \in BuyPrices, OnEvent(price),
         NEW n, n = Len(orders), NEW m, m = Len(order_lists)
  PROVE  /\ EngineInv' /\ BracketInv'
         /\ m \in Nat /\ Lists = 1..m /\ Lists' = 1..(m + 1)
         /\ \A l \in Lists :
              Bracket(l)' = IF Bracket(l) = "waiting" THEN "withdrawn" ELSE Bracket(l)
         /\ Bracket(m + 1)' = "waiting"
         /\ \A j \in Ids : orders'[j].status \in {orders[j].status, "Canceled"}
<1> DEFINE entry == MakeOrder([type |-> "limit", side |-> "buy", price |-> price], "New")
           stop  == MakeOrder(Leg("stop_loss", price - 1), "PendingNew")
           exit  == MakeOrder(Leg("limit", price + 1), "PendingNew")
           added == <<Triggers(entry, <<n + 2, n + 3>>), Cancels(stop, n + 3),
                      Cancels(exit, n + 2)>>
           old == [j \in Ids |-> IF j \in OrdersToCancel
                                 THEN WithStatus(orders[j], "Canceled") ELSE orders[j]]
<1>1. /\ ShapeInv /\ OwnsInv /\ \A l \in Lists : Chained(l) /\ Bracket(l) \in BracketStates
      /\ n \in Nat /\ m \in Nat /\ n = 3 * m /\ Ids = 1..n /\ Lists = 1..m
      /\ \A j \in Ids : orders[j] \in Order
      /\ order_lists \in Seq(Seq(Nat)) /\ new_orders \in Seq(Nat)
  BY ListsShape, Shape DEF EngineInv, BracketInv, OwnsInv, ShapeInv
<1>2. /\ orders' = old \o added /\ new_orders' = Append(new_orders, n + 1)
      /\ order_lists' = Append(order_lists, <<n + 1, n + 2, n + 3>>)
      /\ iter = 0 /\ iter' = 0 /\ n = Len(orders) /\ m = Len(order_lists)
  BY DEF OnEvent
<1>3. /\ entry \in Order /\ entry.status = "New" /\ entry.fills = 0
      /\ entry.triggered = <<>> /\ entry.canceled = <<>> /\ entry.side = "buy"
  <2> DEFINE r == [type |-> "limit", side |-> "buy", price |-> price]
  <2>1. r \in [type : Types, side : Sides, price : Nat] /\ r.side = "buy" /\ "New" \in Statuses
    BY StrategyAssumption DEF Types, Sides, Statuses
  <2> HIDE DEF r
  <2>2. entry = MakeOrder(r, "New")
    BY DEF r
  <2> QED  BY <2>1, <2>2, AnyOrderMade
<1>4. /\ stop \in Order /\ stop.status = "PendingNew" /\ stop.fills = 0
      /\ stop.triggered = <<>> /\ stop.canceled = <<>> /\ stop.side = "sell"
  <2> DEFINE r == Leg("stop_loss", price - 1)
  <2>1. /\ r \in [type : Types, side : Sides, price : Nat] /\ r.side = "sell"
        /\ "PendingNew" \in Statuses
    BY StrategyAssumption DEF Types, Sides, Statuses, Leg
  <2> HIDE DEF r
  <2>2. stop = MakeOrder(r, "PendingNew")
    BY DEF r
  <2> QED  BY <2>1, <2>2, AnyOrderMade
<1>5. /\ exit \in Order /\ exit.status = "PendingNew" /\ exit.fills = 0
      /\ exit.triggered = <<>> /\ exit.canceled = <<>> /\ exit.side = "sell"
  <2> DEFINE r == Leg("limit", price + 1)
  <2>1. /\ r \in [type : Types, side : Sides, price : Nat] /\ r.side = "sell"
        /\ "PendingNew" \in Statuses
    BY StrategyAssumption DEF Types, Sides, Statuses, Leg
  <2> HIDE DEF r
  <2>2. exit = MakeOrder(r, "PendingNew")
    BY DEF r
  <2> QED  BY <2>1, <2>2, AnyOrderMade
<1> HIDE DEF entry, stop, exit
<1>6. Linked(n, added)
  BY <1>1, <1>3, <1>4, <1>5, BracketLinked
<1>7. /\ added \in Seq(Order) /\ Len(added) = 3
      /\ added[1].status = "New" /\ added[1].fills = 0 /\ added[1].side = "buy"
      /\ ToSet(added[1].triggered) = {n + 2, n + 3} /\ ToSet(added[1].canceled) = {}
      /\ added[2].status = "PendingNew" /\ added[2].fills = 0 /\ added[2].side = "sell"
      /\ ToSet(added[2].triggered) = {} /\ ToSet(added[2].canceled) = {n + 3}
      /\ added[3].status = "PendingNew" /\ added[3].fills = 0 /\ added[3].side = "sell"
      /\ ToSet(added[3].triggered) = {} /\ ToSet(added[3].canceled) = {n + 2}
  <2>1. n + 2 \in Nat /\ n + 3 \in Nat /\ <<n + 2, n + 3>> \in Seq(Nat)
    BY <1>1
  <2> DEFINE o == Triggers(entry, <<n + 2, n + 3>>)
             p == Cancels(stop, n + 3)
             q == Cancels(exit, n + 2)
  <2>2. /\ o.status = "New" /\ o.fills = 0 /\ o.side = "buy"
        /\ o.triggered = <<n + 2, n + 3>> /\ o.canceled = <<>>
    BY <1>3, <2>1, TriggersSet
  <2>3. /\ p.status = "PendingNew" /\ p.fills = 0 /\ p.side = "sell"
        /\ p.triggered = <<>> /\ p.canceled = <<n + 3>>
    BY <1>4, <2>1, CancelsSet
  <2>4. /\ q.status = "PendingNew" /\ q.fills = 0 /\ q.side = "sell"
        /\ q.triggered = <<>> /\ q.canceled = <<n + 2>>
    BY <1>5, <2>1, CancelsSet
  <2> HIDE DEF o, p, q
  <2>5. added = <<o, p, q>>
    BY DEF o, p, q
  <2>6. Len(added) = 3 /\ added[1] = o /\ added[2] = p /\ added[3] = q
    BY <2>5
  <2>7. added \in Seq(Order)
    BY <1>6 DEF Linked
  <2> HIDE DEF added
  <2>8. /\ ToSet(o.triggered) = {n + 2, n + 3} /\ ToSet(o.canceled) = {}
        /\ ToSet(p.triggered) = {} /\ ToSet(p.canceled) = {n + 3}
        /\ ToSet(q.triggered) = {} /\ ToSet(q.canceled) = {n + 2}
    BY <2>2, <2>3, <2>4, FewIds
  <2> QED  BY <2>2, <2>3, <2>4, <2>6, <2>7, <2>8
<1> HIDE DEF added
<1>8. ASSUME NEW l \in Lists PROVE l \in ListsToCancel <=> Bracket(l) = "waiting"
  <2> DEFINE e == orders[3 * l - 2].status
             s == orders[3 * l - 1].status
             x == orders[3 * l].status
  <2>1. ToSet(order_lists[l]) = {3 * l - 2, 3 * l - 1, 3 * l}
    BY <1>1, <1>8, ListsShape
  <2>2. Statuses001(l) = {e, s, x}
    BY <2>1 DEF Statuses001
  <2>3. Bracket(l) = BracketOf(e, s, x)
    BY <1>1, <1>8, BracketStatus
  <2> HIDE DEF e, s, x
  <2>4. BracketOf(e, s, x) \in BracketStates
    BY <1>1, <1>8, <2>3
  <2>5. /\ IsOpen(l) <=> \E t \in {e, s, x} : t \in {"New", "PendingNew"}
        /\ IsNewOrder(l) <=> e # "Filled" /\ s # "Filled" /\ x # "Filled"
    BY <2>2 DEF IsOpen, IsNewOrder
  <2>6. \/ BracketOf(e, s, x) = "waiting" /\ e = "New" /\ s = "PendingNew" /\ x = "PendingNew"
        \/ BracketOf(e, s, x) # "waiting" /\ e = "Filled"
        \/ BracketOf(e, s, x) # "waiting" /\ e = "Canceled" /\ s = "Canceled" /\ x = "Canceled"
    BY <2>4, BracketMeans DEF BracketStates
  <2> QED  BY <1>8, <2>3, <2>5, <2>6 DEF ListsToCancel, Lists
<1>9. ASSUME NEW l \in Lists, NEW j \in {3 * l - 2, 3 * l - 1, 3 * l}
      PROVE  j \in OrdersToCancel <=> Bracket(l) = "waiting"
  <2>1. ASSUME NEW k \in Lists, j \in ToSet(order_lists[k]) PROVE k = l
    <3>1. j \in {3 * k - 2, 3 * k - 1, 3 * k}
      BY <1>1, <2>1, ListsShape
    <3>2. k \in 1..m /\ l \in 1..m
      BY <1>1, <1>9, <2>1
    <3> QED  BY <1>1, <1>9, <3>1, <3>2, OwnedByOne
  <2>2. j \in ToSet(order_lists[l])
    BY <1>1, <1>9, ListsShape
  <2>3. ListsToCancel \subseteq Lists
    BY DEF ListsToCancel, Lists
  <2> QED  BY <1>8, <2>1, <2>2, <2>3 DEF OrdersToCancel
<1>10. /\ old \in Seq(Order) /\ Len(old) = n
       /\ \A j \in Ids : old[j] \in {orders[j], WithStatus(orders[j], "Canceled")}
  <2>1. "Canceled" \in Statuses
    BY DEF Statuses
  <2>2. \A j \in 1..n :
          (IF j \in OrdersToCancel THEN WithStatus(orders[j], "Canceled") ELSE orders[j]) \in Order
    BY <1>1, <2>1, StatusSet
  <2>3. old = [j \in 1..n |-> IF j \in OrdersToCancel
                              THEN WithStatus(orders[j], "Canceled") ELSE orders[j]]
    BY <1>1
  <2>4. old \in Seq(Order)
    BY <1>1, <2>2, <2>3, IsASeq
  <2>5. Len(old) = n
    BY <1>1, <2>3, <2>4, LenProperties
  <2> QED  BY <2>4, <2>5
<1>11. \A j \in Ids : old[j] = IF j \in OrdersToCancel
                               THEN WithStatus(orders[j], "Canceled") ELSE orders[j]
  OBVIOUS
<1> HIDE DEF old
<1>12. /\ orders' \in Seq(Order) /\ Len(orders') = n + 3
       /\ \A j \in Ids : orders'[j] = old[j]
       /\ orders'[n + 1] = added[1] /\ orders'[n + 2] = added[2] /\ orders'[n + 3] = added[3]
  <2>1. /\ orders' \in Seq(Order) /\ Len(orders') = n + 3
        /\ \A i \in 1..(n + 3) : orders'[i] = IF i <= n THEN old[i] ELSE added[i - n]
    <3>0. old \in Seq(Order) /\ added \in Seq(Order)
      BY <1>7, <1>10
    <3>1. /\ old \o added \in Seq(Order) /\ Len(old \o added) = Len(old) + Len(added)
          /\ \A i \in 1..(Len(old) + Len(added)) :
               (old \o added)[i] = IF i <= Len(old) THEN old[i] ELSE added[i - Len(old)]
      BY <3>0, ConcatProperties
    <3> QED  BY <1>2, <1>7, <1>10, <3>1
  <2>2. \A j \in 1..n : j \in 1..(n + 3) /\ j <= n
    BY <1>1
  <2>3. \A k \in 1..3 : n + k \in 1..(n + 3) /\ ~(n + k <= n) /\ (n + k) - n = k
    BY <1>1
  <2>4. \A j \in Ids : orders'[j] = old[j]
    BY <1>1, <2>1, <2>2
  <2>5. \A k \in 1..3 : orders'[n + k] = added[k]
    BY <2>1, <2>3
  <2> QED  BY <2>1, <2>4, <2>5
<1>13. ASSUME NEW j \in Ids
       PROVE
         /\ orders'[j] \in {orders[j], WithStatus(orders[j], "Canceled")}
         /\ orders'[j].status = IF j \in OrdersToCancel THEN "Canceled" ELSE orders[j].status
         /\ orders'[j].fills = orders[j].fills /\ orders'[j].side = orders[j].side
         /\ orders'[j].triggered = orders[j].triggered
         /\ orders'[j].canceled = orders[j].canceled
  <2>1. "Canceled" \in Statuses
    BY DEF Statuses
  <2>2. /\ orders[j] \in Order
        /\ orders'[j] = IF j \in OrdersToCancel
                         THEN WithStatus(orders[j], "Canceled") ELSE orders[j]
    BY <1>1, <1>11, <1>12
  <2> QED  BY <2>1, <2>2, StatusSet
<1>14. Ids' = 1..(n + 3)
  BY <1>12, LenProperties DEF Ids
<1>15. /\ order_lists' \in Seq(Seq(Nat)) /\ Len(order_lists') = m + 1
       /\ Lists' = 1..(m + 1)
       /\ \A l \in Lists : order_lists'[l] = order_lists[l]
       /\ order_lists'[m + 1] = <<n + 1, n + 2, n + 3>>
  <2>1. <<n + 1, n + 2, n + 3>> \in Seq(Nat)
    BY <1>1
  <2>2. /\ order_lists' \in Seq(Seq(Nat)) /\ Len(order_lists') = m + 1
        /\ \A l \in 1..m : order_lists'[l] = order_lists[l]
        /\ order_lists'[m + 1] = <<n + 1, n + 2, n + 3>>
    BY <1>1, <1>2, <2>1, AppendProperties
  <2>3. Lists' = 1..(m + 1)
    BY <2>2, LenProperties DEF Lists
  <2> QED  BY <1>1, <2>2, <2>3
<1>16. OwnsInv'
  <2>1. 3 * (m + 1) - 2 = n + 1 /\ 3 * (m + 1) - 1 = n + 2 /\ 3 * (m + 1) = n + 3
    BY <1>1
  <2>2. \A l \in Lists' : l \in Lists \/ l = m + 1
    BY <1>1, <1>15
  <2> QED  BY <1>1, <1>12, <1>15, <2>1, <2>2 DEF OwnsInv
<1>17. EngineInv'
  <2>1. /\ ToSet(<<n + 1, n + 2, n + 3>>) = {n + 1, n + 2, n + 3}
        /\ ToSet(Tail(<<n + 1, n + 2, n + 3>>)) = {n + 2, n + 3}
        /\ Tail(<<n + 1, n + 2, n + 3>>) = <<n + 2, n + 3>>
    BY FewIds
  <2>2. {n + 1, n + 2, n + 3} \subseteq 1..(n + 3) /\ {n + 2, n + 3} = (n + 2)..(n + 3)
    <3>1. n \in Nat
      BY <1>1
    <3> QED  BY <3>1
  <2>3. /\ DOMAIN order_lists = 1..m /\ DOMAIN order_lists' = (1..m) \cup {m + 1}
        /\ m + 1 \notin 1..m
    BY <1>1, <1>15 DEF Lists
  <2> DEFINE last == m + 1
  <2> HIDE DEF last
  <2>4. /\ DOMAIN order_lists' = DOMAIN order_lists \cup {last}
        /\ \A l \in DOMAIN order_lists : order_lists'[l] = order_lists[l]
        /\ ToSet(order_lists'[last]) = {n + 1, n + 2, n + 3}
        /\ ToSet(Tail(order_lists'[last])) = (n + 2)..(n + 3)
    BY <1>15, <2>1, <2>2, <2>3 DEF last, Lists
  <2>5. \A l \in DOMAIN order_lists' : ToSet(order_lists'[l]) \subseteq Ids'
    <3>1. \A l \in DOMAIN order_lists : ToSet(order_lists[l]) \subseteq Ids
      BY <1>1 DEF ShapeInv, EngineTypeOK
    <3>2. Ids \subseteq Ids' /\ {n + 1, n + 2, n + 3} \subseteq Ids'
      BY <1>1, <1>14, <2>2
    <3> QED  BY <2>4, <3>1, <3>2
  <2>6. Pending' = Pending \cup ((n + 2)..(n + 3))
    BY <2>4 DEF Pending
  <2>7. Len(orders') = Len(orders) + Len(added) /\ new_orders' = Append(new_orders, Len(orders) + 1)
    BY <1>2, <1>7, <1>12
  <2>8. /\ Pending' = Pending \cup ((Len(orders) + 2)..(Len(orders) + Len(added)))
        /\ Linked(Len(orders), added)
    BY <1>2, <1>6, <1>7, <2>6
  <2>9. \A k \in 1..Len(added) : orders'[Len(orders) + k] = added[k]
    <3>1. \A k \in 1..Len(added) : k = 1 \/ k = 2 \/ k = 3
      BY <1>7
    <3> QED  BY <1>2, <1>12, <3>1
  <2>10. \A j \in Ids : orders'[j] \in {orders[j], WithStatus(orders[j], "Canceled")}
    BY <1>13
  <2>11. orders' \in Seq(Order) /\ order_lists' \in Seq(Seq(Nat)) /\ iter = 0 /\ iter' = 0
    BY <1>2, <1>12, <1>15
  <2> QED
    BY <2>5, <2>7, <2>8, <2>9, <2>10, <2>11, CommandPreserves
<1>18. ASSUME NEW l \in Lists
       PROVE  /\ Chained(l)'
              /\ Bracket(l)' = IF Bracket(l) = "waiting" THEN "withdrawn" ELSE Bracket(l)
  <2>1. {3 * l - 2, 3 * l - 1, 3 * l} \subseteq Ids
    BY <1>1, ListsShape
  <2>2. Chained(l)'
    <3>1. /\ \A j \in Ids : Triggered(j)' = Triggered(j) /\ Canceled(j)' = Canceled(j)
          /\ \A j \in Ids : orders'[j].side = orders[j].side
      BY <1>13 DEF Triggered, Canceled
    <3>2. 3 * l - 2 \in Ids /\ 3 * l - 1 \in Ids /\ 3 * l \in Ids /\ Chained(l)
      BY <1>1, <2>1
    <3> QED  BY <3>1, <3>2 DEF Chained
  <2>3. /\ Bracket(l) = BracketOf(orders[3 * l - 2].status, orders[3 * l - 1].status,
                                  orders[3 * l].status)
        /\ Bracket(l)' = BracketOf(orders'[3 * l - 2].status, orders'[3 * l - 1].status,
                                   orders'[3 * l].status)
    <3>1. l \in Lists'
      BY <1>1, <1>15
    <3> QED  BY <1>1, <1>16, <3>1, BracketStatus, BracketStatusNext
  <2>4. CASE Bracket(l) = "waiting"
    <3>1. \A j \in {3 * l - 2, 3 * l - 1, 3 * l} : orders'[j].status = "Canceled"
      BY <1>9, <1>13, <2>1, <2>4
    <3> QED  BY <2>2, <2>3, <2>4, <3>1, BracketMeans
  <2>5. CASE Bracket(l) # "waiting"
    <3>1. \A j \in {3 * l - 2, 3 * l - 1, 3 * l} : orders'[j].status = orders[j].status
      BY <1>9, <1>13, <2>1, <2>5
    <3> QED  BY <2>2, <2>3, <2>5, <3>1
  <2> QED  BY <2>4, <2>5
<1>19. Chained(m + 1)' /\ Bracket(m + 1)' = "waiting"
  <2>1. 3 * (m + 1) - 2 = n + 1 /\ 3 * (m + 1) - 1 = n + 2 /\ 3 * (m + 1) = n + 3
    BY <1>1
  <2>2. m + 1 \in Lists'
    BY <1>1, <1>15
  <2>3. Bracket(m + 1)' = BracketOf(orders'[n + 1].status, orders'[n + 2].status,
                                    orders'[n + 3].status)
    <3> DEFINE last == m + 1
    <3>1. last \in Lists' /\ 3 * last - 2 = n + 1 /\ 3 * last - 1 = n + 2 /\ 3 * last = n + 3
      BY <2>1, <2>2
    <3> HIDE DEF last
    <3>2. Bracket(last)' = BracketOf(orders'[3 * last - 2].status, orders'[3 * last - 1].status,
                                     orders'[3 * last].status)
      BY <1>16, <3>1, BracketStatusNext
    <3>3. Bracket(last)' = BracketOf(orders'[n + 1].status, orders'[n + 2].status,
                                     orders'[n + 3].status)
      BY <3>1, <3>2
    <3> QED  BY <3>3 DEF last
  <2>4. Bracket(m + 1)' = "waiting"
    BY <1>7, <1>12, <2>3, BracketMeans
  <2>5. /\ Triggered(n + 1)' = {n + 2, n + 3} /\ Canceled(n + 1)' = {}
        /\ Triggered(n + 2)' = {} /\ Canceled(n + 2)' = {n + 3}
        /\ Triggered(n + 3)' = {} /\ Canceled(n + 3)' = {n + 2}
        /\ orders'[n + 1].side = "buy" /\ orders'[n + 2].side = "sell"
        /\ orders'[n + 3].side = "sell"
    BY <1>7, <1>12 DEF Triggered, Canceled
  <2>6. Chained(m + 1)'
    BY <2>1, <2>5 DEF Chained
  <2> QED  BY <2>4, <2>6
<1>20. \A l \in Lists' : Chained(l)' /\ Bracket(l)' \in BracketStates
  <2>1. \A l \in Lists' : l \in Lists \/ l = m + 1
    BY <1>1, <1>15
  <2> QED  BY <1>1, <1>18, <1>19, <2>1 DEF BracketStates
<1>21. ASSUME NEW j \in Ids' PROVE orders'[j].fills > 0 <=> orders'[j].status = "Filled"
  <2>1. CASE j \in Ids
    <3>1. orders[j].fills > 0 <=> orders[j].status = "Filled"
      BY <2>1 DEF BracketInv, IsStatus
    <3>2. ASSUME j \in OrdersToCancel PROVE orders[j].fills = 0
      <4>1. PICK l \in Lists : j \in {3 * l - 2, 3 * l - 1, 3 * l}
        BY <1>1, <2>1, OwnedByOne
      <4>2. BracketOf(orders[3 * l - 2].status, orders[3 * l - 1].status,
                      orders[3 * l].status) = "waiting"
        BY <1>1, <1>9, <3>2, <4>1, BracketStatus
      <4>3. orders[j].status # "Filled" /\ orders[j].fills \in Nat
        <5>1. /\ orders[3 * l - 2].status = "New" /\ orders[3 * l - 1].status = "PendingNew"
              /\ orders[3 * l].status = "PendingNew"
          BY <4>2, BracketMeans
        <5>2. orders[j] \in Order
          BY <1>1, <2>1
        <5> QED  BY <4>1, <5>1, <5>2 DEF Order
      <4> QED  BY <3>1, <4>3
    <3> QED  BY <1>13, <2>1, <3>1, <3>2
  <2>2. CASE j \notin Ids
    <3>1. j = n + 1 \/ j = n + 2 \/ j = n + 3
      <4>1. n \in Nat /\ j \in 1..(n + 3) /\ j \notin 1..n
        BY <1>1, <1>14, <2>2
      <4> QED  BY <4>1
    <3> QED  BY <1>7, <1>12, <3>1
  <2> QED  BY <2>1, <2>2
<1>22. BracketInv'
  BY <1>16, <1>20, <1>21 DEF BracketInv, IsStatus
<1>23. \A j \in Ids : orders'[j].status \in {orders[j].status, "Canceled"}
  BY <1>13
<1>24. \A l \in Lists :
         Bracket(l)' = IF Bracket(l) = "waiting" THEN "withdrawn" ELSE Bracket(l)
  BY <1>18
<1>25. m \in Nat /\ Lists = 1..m /\ Lists' = 1..(m + 1)
  BY <1>1, <1>15
<1> QED
  BY <1>17, <1>19, <1>22, <1>23, <1>24, <1>25, Zenon

-----------------------------------------------------------------------------
(* The account *)

LEMMA Rates ==
  ASSUME NEW h \in Int
  PROVE  /\ AfterFee(Quantity) \in Int /\ Quantity \in Int
         /\ h * AfterFee(Quantity) \in Int
         /\ h * (Quantity - AfterFee(Quantity)) \in Int
         /\ (h + 1) * AfterFee(Quantity) = h * AfterFee(Quantity) + AfterFee(Quantity)
         /\ (h - 1) * AfterFee(Quantity) = h * AfterFee(Quantity) - AfterFee(Quantity)
         /\ (h + 1) * (Quantity - AfterFee(Quantity))
              = h * (Quantity - AfterFee(Quantity)) + (Quantity - AfterFee(Quantity))
<1>1. Quantity \in Int /\ AfterFee(Quantity) \in Int
  <2>1. Quantity \in Int /\ 1000 - FeePerMille \in Int
    BY EngineAssumption
  <2>2. Quantity * (1000 - FeePerMille) \in Int
    BY <2>1
  <2> QED  BY <2>1, <2>2 DEF AfterFee
<1>2. \A a \in Int : h * a \in Int /\ (h + 1) * a = h * a + a /\ (h - 1) * a = h * a - a
  OBVIOUS
<1>3. Quantity - AfterFee(Quantity) \in Int
  BY <1>1
<1> QED  BY <1>1, <1>2, <1>3

LEMMA FewLists ==
  ASSUME ShapeInv, OwnsInv
  PROVE  /\ IsFiniteSet(Held) /\ IsFiniteSet(Closed)
         /\ Cardinality(Held) \in Nat /\ Cardinality(Closed) \in Nat
<1>1. IsFiniteSet(Lists)
  <2>1. Lists = 1..Len(order_lists) /\ Len(order_lists) \in Nat
    BY ListsShape
  <2> QED  BY <2>1, FS_Interval
<1>2. Held \subseteq Lists /\ Closed \subseteq Lists
  BY DEF Held, Closed
<1> QED  BY <1>1, <1>2, FS_Subset, FS_CardinalityType

\* What an execution pays is what the bracket it moves stands for.
LEMMA FillAccount == ASSUME StrategyInv, FillOrder PROVE ShortOnlyByCommission'
<1>1. PICK id : id = new_orders[iter]
  OBVIOUS
<1>2. PICK l \in Lists :
        /\ \A k \in Lists \ {l} : Bracket(k)' = Bracket(k)
        /\ \/ /\ orders[id].side = "buy"
              /\ Bracket(l) = "waiting" /\ Bracket(l)' = "held"
           \/ /\ orders[id].side = "sell"
              /\ Bracket(l) = "held" /\ Bracket(l)' \in {"stopped", "taken"}
  BY <1>1, FillMovesOne DEF StrategyInv
<1>3. Lists' = Lists
  BY <1>1, FillMovesOne DEF StrategyInv
<1>4. /\ IsFiniteSet(Held) /\ IsFiniteSet(Closed)
      /\ Cardinality(Held) \in Nat /\ Cardinality(Closed) \in Nat
  BY FewLists DEF StrategyInv, EngineInv, BracketInv
<1>5. Settle(orders[id])
  BY <1>1 DEF FillOrder
<1>6. base = Cardinality(Held) * AfterFee(Quantity)
             - Cardinality(Closed) * (Quantity - AfterFee(Quantity))
  BY DEF StrategyInv, ShortOnlyByCommission
<1>7. CASE orders[id].side = "buy"
  <2>1. Bracket(l) = "waiting" /\ Bracket(l)' = "held"
    BY <1>2, <1>7
  <2>2. Held' = Held \cup {l} /\ l \notin Held /\ Closed' = Closed
    BY <1>2, <1>3, <2>1 DEF Held, Closed
  <2>3. base' = base + AfterFee(Quantity)
    BY <1>5, <1>7 DEF Settle
  <2>4. Cardinality(Held \cup {l}) = Cardinality(Held) + 1
    BY <1>4, <2>2, FS_AddElement
  <2>5. (Cardinality(Held) + 1) * AfterFee(Quantity)
          = Cardinality(Held) * AfterFee(Quantity) + AfterFee(Quantity)
    BY <1>4, Rates
  <2> DEFINE a == Cardinality(Held) * AfterFee(Quantity)
             b == Cardinality(Closed) * (Quantity - AfterFee(Quantity))
  <2>6. a \in Int /\ b \in Int /\ AfterFee(Quantity) \in Int
    BY <1>4, Rates
  <2>7. base' = (a + AfterFee(Quantity)) - b
    BY <1>6, <2>3, <2>6
  <2>8. base' = Cardinality(Held') * AfterFee(Quantity)
                - Cardinality(Closed') * (Quantity - AfterFee(Quantity))
    BY <2>2, <2>4, <2>5, <2>7
  <2> QED  BY <2>8 DEF ShortOnlyByCommission, AfterFee
<1>8. CASE orders[id].side = "sell"
  <2>1. Bracket(l) = "held" /\ Bracket(l)' \in {"stopped", "taken"}
    BY <1>2, <1>8
  <2>2. /\ Held' = Held \ {l} /\ l \in Held
        /\ Closed' = Closed \cup {l} /\ l \notin Closed
    BY <1>2, <1>3, <2>1 DEF Held, Closed
  <2>3. base' = base - Quantity
    BY <1>5, <1>8 DEF Settle
  <2>4. /\ Cardinality(Held \ {l}) = Cardinality(Held) - 1
        /\ Cardinality(Closed \cup {l}) = Cardinality(Closed) + 1
    BY <1>4, <2>2, FS_AddElement, FS_RemoveElement
  <2> DEFINE h == Cardinality(Held)
             d == Cardinality(Closed)
  <2>5. h \in Int /\ d \in Int
    BY <1>4
  <2> HIDE DEF h, d
  <2>6. /\ AfterFee(Quantity) \in Int /\ Quantity \in Int
         /\ h * AfterFee(Quantity) \in Int
         /\ (h - 1) * AfterFee(Quantity) = h * AfterFee(Quantity) - AfterFee(Quantity)
    BY <2>5, Rates
  <2>7. /\ d * (Quantity - AfterFee(Quantity)) \in Int
         /\ (d + 1) * (Quantity - AfterFee(Quantity))
              = d * (Quantity - AfterFee(Quantity)) + (Quantity - AfterFee(Quantity))
    BY <2>5, Rates
  <2>8. /\ (Cardinality(Held) - 1) * AfterFee(Quantity)
             = Cardinality(Held) * AfterFee(Quantity) - AfterFee(Quantity)
        /\ (Cardinality(Closed) + 1) * (Quantity - AfterFee(Quantity))
             = Cardinality(Closed) * (Quantity - AfterFee(Quantity))
               + (Quantity - AfterFee(Quantity))
    BY <2>6, <2>7 DEF h, d
  <2> DEFINE a == Cardinality(Held) * AfterFee(Quantity)
             b == Cardinality(Closed) * (Quantity - AfterFee(Quantity))
             c == AfterFee(Quantity)
  <2>9. a \in Int /\ b \in Int /\ c \in Int /\ Quantity \in Int /\ base = a - b
    BY <1>6, <2>6, <2>7 DEF h, d
  <2> HIDE DEF a, b, c
  <2>10. base' = (a - c) - (b + (Quantity - c))
    BY <2>3, <2>9
  <2>11. base' = Cardinality(Held') * AfterFee(Quantity)
                - Cardinality(Closed') * (Quantity - AfterFee(Quantity))
    BY <2>2, <2>4, <2>8, <2>10 DEF a, b, c
  <2> QED  BY <2>11 DEF ShortOnlyByCommission, AfterFee
<1> QED  BY <1>2, <1>7, <1>8

-----------------------------------------------------------------------------
(* The invariant *)

LEMMA StrategyInit == Init => StrategyInv
<1> SUFFICES ASSUME Init PROVE StrategyInv
  OBVIOUS
<1>1. orders = <<>> /\ order_lists = <<>> /\ base = 0
  BY DEF Init
<1>2. DOMAIN orders = {} /\ DOMAIN order_lists = {} /\ Len(orders) = 0 /\ Len(order_lists) = 0
  BY <1>1, EmptySeq
<1>3. BracketInv
  BY <1>2 DEF BracketInv, OwnsInv, Lists, Ids
<1>4. Held = {} /\ Closed = {}
  BY <1>2 DEF Held, Closed, Lists
<1>5. ShortOnlyByCommission
  <2>1. Cardinality({}) = 0
    BY FS_EmptySet
  <2>2. \A a \in Int : 0 * a = 0
    OBVIOUS
  <2>3. 0 * AfterFee(Quantity) = 0 /\ 0 * (Quantity - AfterFee(Quantity)) = 0
    <3>1. 0 \in Int
      OBVIOUS
    <3>2. AfterFee(Quantity) \in Int /\ Quantity - AfterFee(Quantity) \in Int
      BY <3>1, Rates
    <3> QED  BY <2>2, <3>2
  <2> QED  BY <1>1, <1>4, <2>1, <2>3 DEF ShortOnlyByCommission
<1> QED  BY <1>3, <1>5, EngineInit DEF StrategyInv

\* What each step does to the brackets.
LEMMA StrategyStep ==
  ASSUME StrategyInv, [StrategyNext]_vars
  PROVE  /\ StrategyInv'
         /\ \A j \in Ids : orders'[j].status = "New" /\ ~IsStatus(j, "New") =>
              IsStatus(j, "PendingNew")
<1>1. CASE BeginPass \/ SkipOrder \/ Returned \/ UNCHANGED vars
  <2>1. UNCHANGED <<orders, order_lists, base>>
    BY <1>1 DEF BeginPass, SkipOrder, Returned, vars
  <2>2. EngineInv'
    BY <1>1, AlongPreserves DEF StrategyInv
  <2> QED  BY <2>1, <2>2, BracketsStay DEF StrategyInv, IsStatus
<1>2. CASE EndPass
  <2>1. UNCHANGED <<orders, order_lists, base>>
    BY <1>2 DEF EndPass
  <2>2. EngineInv'
    BY <1>2, EndPassPreserves DEF StrategyInv
  <2> QED  BY <2>1, <2>2, BracketsStay DEF StrategyInv, IsStatus
<1>3. CASE FillOrder
  <2>1. PICK id : id = new_orders[iter]
    OBVIOUS
  <2>2. /\ BracketInv'
        /\ \A j \in Ids : orders'[j].status = "New" /\ ~IsStatus(j, "New") =>
             IsStatus(j, "PendingNew")
    BY <1>3, <2>1, FillMovesOne DEF StrategyInv
  <2>3. EngineInv' /\ ShortOnlyByCommission'
    BY <1>3, FillPreserves, FillAccount DEF StrategyInv
  <2> QED  BY <2>2, <2>3 DEF StrategyInv
<1>4. ASSUME NEW price \in BuyPrices, OnEvent(price)
      PROVE  /\ StrategyInv'
             /\ \A j \in Ids : orders'[j].status = "New" /\ ~IsStatus(j, "New") =>
                  IsStatus(j, "PendingNew")
  <2>1. PICK n, m : n = Len(orders) /\ m = Len(order_lists)
    OBVIOUS
  <2>2. /\ EngineInv' /\ BracketInv' /\ m \in Nat /\ Lists = 1..m /\ Lists' = 1..(m + 1)
        /\ \A l \in Lists :
             Bracket(l)' = IF Bracket(l) = "waiting" THEN "withdrawn" ELSE Bracket(l)
        /\ Bracket(m + 1)' = "waiting"
        /\ \A j \in Ids : orders'[j].status \in {orders[j].status, "Canceled"}
    BY <1>4, <2>1, EventPlaces DEF StrategyInv
  <2>3. Lists' = Lists \cup {m + 1}
    BY <2>2
  <2>4. Held' = Held /\ Closed' = Closed
    BY <2>2, <2>3 DEF Held, Closed
  <2>5. base' = base
    BY <1>4 DEF OnEvent, Account
  <2>6. ShortOnlyByCommission'
    BY <2>4, <2>5 DEF StrategyInv, ShortOnlyByCommission
  <2> QED  BY <2>2, <2>6 DEF StrategyInv, IsStatus
<1> QED  BY <1>1, <1>2, <1>3, <1>4 DEF StrategyNext, Pass

-----------------------------------------------------------------------------
(* The refinement: the lists, as brackets *)

AsBrackets == [list \in Lists |-> Bracket(list)]

LEMMA StartsEmpty == Init => AsBrackets = <<>>
<1> SUFFICES ASSUME Init PROVE AsBrackets = <<>>
  OBVIOUS
<1>1. Lists = 1..0
  BY EmptySeq DEF Init, Lists
<1>2. AsBrackets = [list \in 1..0 |-> Bracket(list)]
  BY <1>1 DEF AsBrackets
<1>3. AsBrackets \in Seq(BracketStates)
  <2>1. \A list \in 1..0 : Bracket(list) \in BracketStates
    OBVIOUS
  <2> HIDE DEF BracketStates
  <2> QED  BY <1>2, <2>1, IsASeq
<1>4. Len(AsBrackets) = 0
  BY <1>2, <1>3, LenProperties
<1> QED  BY <1>3, <1>4, EmptySeq

LEMMA StepRefines ==
  ASSUME StrategyInv, [StrategyNext]_vars
  PROVE  [BracketsSpec!Next]_AsBrackets
<1>1. CASE BeginPass \/ SkipOrder \/ Returned \/ EndPass \/ UNCHANGED vars
  <2>1. UNCHANGED <<orders, order_lists, base>>
    BY <1>1 DEF BeginPass, SkipOrder, Returned, EndPass, vars
  <2>2. Lists' = Lists /\ \A l \in Lists : Bracket(l)' = Bracket(l)
    BY <2>1, BracketsStay
  <2>3. AsBrackets' = AsBrackets
    BY <2>2 DEF AsBrackets
  <2> QED  BY <2>3
<1>2. CASE FillOrder
  <2>1. PICK id : id = new_orders[iter]
    OBVIOUS
  <2>2. PICK l \in Lists :
          /\ \A k \in Lists \ {l} : Bracket(k)' = Bracket(k)
          /\ \/ Bracket(l) = "waiting" /\ Bracket(l)' = "held"
             \/ Bracket(l) = "held" /\ Bracket(l)' \in {"stopped", "taken"}
    BY <1>2, <2>1, FillMovesOne DEF StrategyInv
  <2>3. Lists' = Lists
    BY <1>2, <2>1, FillMovesOne DEF StrategyInv
  <2>4. /\ AsBrackets' = [AsBrackets EXCEPT ![l] = Bracket(l)']
        /\ AsBrackets[l] = Bracket(l) /\ DOMAIN AsBrackets = Lists
    BY <2>2, <2>3 DEF AsBrackets
  <2>5. BracketsSpec!Enter(l) \/ BracketsSpec!StopOut(l) \/ BracketsSpec!TakeProfit(l)
    BY <2>2, <2>4 DEF BracketsSpec!Enter, BracketsSpec!StopOut, BracketsSpec!TakeProfit,
                      BracketsSpec!Becomes, AsBrackets
  <2> QED  BY <2>4, <2>5 DEF BracketsSpec!Next, AsBrackets
<1>3. ASSUME NEW price \in BuyPrices, OnEvent(price) PROVE BracketsSpec!Place
  <2>1. PICK n, m : n = Len(orders) /\ m = Len(order_lists)
    OBVIOUS
  <2>2. /\ m \in Nat /\ Lists = 1..m /\ Lists' = 1..(m + 1)
        /\ \A l \in Lists :
             Bracket(l)' = IF Bracket(l) = "waiting" THEN "withdrawn" ELSE Bracket(l)
        /\ Bracket(m + 1)' = "waiting"
    BY <1>3, <2>1, EventPlaces DEF StrategyInv
  <2> DEFINE w == [l \in 1..m |-> IF Bracket(l) = "waiting" THEN "withdrawn" ELSE Bracket(l)]
  <2>3. BracketsSpec!Withdrawn = w
    BY <2>2 DEF BracketsSpec!Withdrawn, AsBrackets
  <2>4. \A l \in 1..m : Bracket(l) \in BracketStates
    BY <2>2 DEF StrategyInv, BracketInv
  <2>5. w \in Seq(BracketStates) /\ Len(w) = m /\ "waiting" \in BracketStates
    <3>1. \A l \in 1..m :
            (IF Bracket(l) = "waiting" THEN "withdrawn" ELSE Bracket(l)) \in BracketStates
      BY <2>4 DEF BracketStates
    <3>2. w \in Seq(BracketStates)
      BY <2>2, <3>1, IsASeq
    <3> QED  BY <2>2, <3>2, LenProperties DEF BracketStates
  <2>6. /\ Append(w, "waiting") \in Seq(BracketStates) /\ Len(Append(w, "waiting")) = m + 1
        /\ \A l \in 1..m : Append(w, "waiting")[l] = w[l]
        /\ Append(w, "waiting")[m + 1] = "waiting"
    <3> HIDE DEF w
    <3> QED  BY <2>5, AppendProperties
  <2>7. AsBrackets' \in Seq(BracketStates) /\ Len(AsBrackets') = m + 1
    <3>1. AsBrackets' = [l \in 1..(m + 1) |-> Bracket(l)']
      BY <2>2 DEF AsBrackets
    <3>2. \A l \in 1..(m + 1) : Bracket(l)' \in BracketStates
      BY <1>3, <2>2, StrategyStep DEF StrategyInv, BracketInv, StrategyNext
    <3>3. m + 1 \in Nat
      BY <2>2
    <3>4. AsBrackets' \in Seq(BracketStates)
      BY <3>1, <3>2, <3>3, IsASeq
    <3> QED  BY <3>1, <3>3, <3>4, LenProperties
  <2>8. \A l \in 1..(m + 1) : AsBrackets'[l] = Append(w, "waiting")[l]
    <3>1. \A l \in 1..(m + 1) : AsBrackets'[l] = Bracket(l)'
      BY <2>2 DEF AsBrackets
    <3>2. \A l \in 1..m : Bracket(l)' = w[l] /\ l \in 1..(m + 1)
      BY <2>2
    <3>3. \A l \in 1..(m + 1) : l \in 1..m \/ l = m + 1
      BY <2>2
    <3> HIDE DEF w
    <3> QED  BY <2>2, <2>6, <3>1, <3>2, <3>3
  <2> HIDE DEF w
  <2>9. AsBrackets' = Append(w, "waiting")
    BY <2>6, <2>7, <2>8, SeqEqual
  <2> QED  BY <2>3, <2>9 DEF BracketsSpec!Place, AsBrackets
<1> QED  BY <1>1, <1>2, <1>3 DEF StrategyNext, Pass, BracketsSpec!Next

-----------------------------------------------------------------------------
(* Theorems *)

\* The inductive invariant of the strategy on the engine.
THEOREM StrategyInvariance == StrategySpec => []StrategyInv
<1>1. StrategyInv /\ [StrategyNext]_vars => StrategyInv'
  BY StrategyStep
<1> QED  BY <1>1, StrategyInit, PTL DEF StrategySpec

\* From the moment the buy of a list has executed its two ways out stand, until one
\* of them executes and the other is cancelled: the triggered and canceled orders of
\* add_otoco (backtest_engine.cc lines 33-40), whatever the strategy cancels.
THEOREM Protection == StrategySpec => []PositionProtected
<1>1. StrategyInv => PositionProtected
  <2> SUFFICES ASSUME StrategyInv, NEW l \in Lists, Entry(l).fills > 0
               PROVE  <<Stop(l).status, Exit(l).status>> \in
                        {<<"New", "New">>, <<"Filled", "Canceled">>, <<"Canceled", "Filled">>}
    BY DEF PositionProtected
  <2>1. /\ Entry(l) = orders[3 * l - 2] /\ 3 * l - 2 \in Ids
    BY ListsShape DEF StrategyInv, EngineInv, BracketInv
  <2>2. Entry(l).status = "Filled"
    BY <2>1 DEF StrategyInv, BracketInv, IsStatus
  <2>3. BracketOf(Entry(l).status, Stop(l).status, Exit(l).status) \in BracketStates
    BY DEF StrategyInv, BracketInv, Bracket
  <2>4. \/ Stop(l).status = "New" /\ Exit(l).status = "New"
        \/ Stop(l).status = "Filled" /\ Exit(l).status = "Canceled"
        \/ Stop(l).status = "Canceled" /\ Exit(l).status = "Filled"
    BY <2>2, <2>3, BracketMeans DEF BracketStates
  <2> QED  BY <2>4
<1> QED  BY <1>1, StrategyInvariance, PTL

\* The account is short of the base asset by the commissions of what was closed and
\* nothing else, for every quantity and commission.
THEOREM ShortByCommission == StrategySpec => []ShortOnlyByCommission
<1>1. StrategyInv => ShortOnlyByCommission
  BY DEF StrategyInv
<1> QED  BY <1>1, StrategyInvariance, PTL

\* The assertion of on_event(TriggerOrderEvent), backtest_engine.cc line 57, holds
\* when Strategy001 gives the commands, although other commands break it.
THEOREM AssertionHolds == StrategySpec => TriggersWerePending
<1>1. StrategyInv /\ [StrategyNext]_vars =>
        [\A id \in Ids : orders'[id].status = "New" /\ ~IsStatus(id, "New") =>
           IsStatus(id, "PendingNew")]_vars
  BY StrategyStep
<1> QED  BY <1>1, StrategyInvariance, PTL DEF StrategySpec, TriggersWerePending

\* The lists of the strategy implement Brackets.
THEOREM BracketsRefined == StrategySpec => ImplementsBrackets
<1>1. Init => BracketsSpec!Init
  BY StartsEmpty DEF BracketsSpec!Init, AsBrackets
<1>2. StrategyInv /\ [StrategyNext]_vars => [BracketsSpec!Next]_AsBrackets
  BY StepRefines
<1> QED
  BY <1>1, <1>2, StrategyInvariance, PTL
     DEF StrategySpec, ImplementsBrackets, BracketsSpec!Spec, AsBrackets
=============================================================================
