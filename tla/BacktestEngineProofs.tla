------------------------ MODULE BacktestEngineProofs ------------------------
(***************************************************************************)
(* Theorems about the engine of contingent orders: whatever commands are   *)
(* given between passes, and whatever its executions trigger and cancel    *)
(* during one, no active order is lost from the queue or is in it twice,   *)
(* of two orders that cancel each other one executes, and an order that    *)
(* waits for another does wait.                                            *)
(***************************************************************************)
EXTENDS BacktestEngine, FunctionTheorems, FiniteSetTheorems, SequenceTheorems, TLAPS

(* The operator Keep: the order of a set of positions is a numbering of it *)

LEMMA Numbering ==
  ASSUME NEW n \in Nat, NEW K \in SUBSET (1..n)
  PROVE  /\ Cardinality(K) \in Nat
         /\ \A k \in K : Cardinality({i \in K : i <= k}) \in 1..Cardinality(K)
         /\ \A k, m \in K : Cardinality({i \in K : i <= k}) = Cardinality({i \in K : i <= m})
                              => k = m
         /\ \A j \in 1..Cardinality(K) : \E k \in K : Cardinality({i \in K : i <= k}) = j
<1> DEFINE Below(k) == {i \in K : i <= k}
           rank == [k \in K |-> Cardinality(Below(k))]
<1>1. IsFiniteSet(K) /\ Cardinality(K) \in Nat
  <2>1. IsFiniteSet(1..n)
    BY FS_Interval
  <2> QED  BY <2>1, FS_Subset, FS_CardinalityType
<1>2. \A k \in K : Cardinality(Below(k)) \in 1..Cardinality(K)
  <2> SUFFICES ASSUME NEW k \in K PROVE Cardinality(Below(k)) \in 1..Cardinality(K)
    OBVIOUS
  <2>1. Below(k) \subseteq K /\ k \in Below(k)
    OBVIOUS
  <2> HIDE DEF Below
  <2>2. IsFiniteSet(Below(k)) /\ Cardinality(Below(k)) <= Cardinality(K)
    BY <1>1, <2>1, FS_Subset
  <2>3. Cardinality(Below(k)) \in Nat /\ Cardinality(Below(k)) # 0
    BY <2>1, <2>2, FS_CardinalityType, FS_EmptySet
  <2> QED  BY <1>1, <2>2, <2>3
<1>3. \A k, m \in K : Cardinality(Below(k)) = Cardinality(Below(m)) => k = m
  <2>1. ASSUME NEW k \in K, NEW m \in K, k < m
        PROVE  Cardinality(Below(k)) # Cardinality(Below(m))
    <3>0. k \in Nat /\ m \in Nat /\ \A i \in K : i \in Nat
      OBVIOUS
    <3>1. Below(k) \subseteq Below(m) /\ Below(m) \subseteq K
      <4>1. \A i \in K : i <= k => i <= m
        BY <2>1, <3>0
      <4> QED  BY <4>1
    <3>3. m \in Below(m) /\ m \notin Below(k)
      BY <2>1, <3>0
    <3> HIDE DEF Below
    <3>2. IsFiniteSet(Below(m))
      BY <1>1, <3>1, FS_Subset
    <3> QED  BY <3>1, <3>2, <3>3, FS_Subset
  <2> HIDE DEF Below
  <2>2. \A k, m \in K : k < m \/ m < k \/ k = m
    OBVIOUS
  <2> QED  BY <2>1, <2>2
<1>4. \A j \in 1..Cardinality(K) : \E k \in K : rank[k] = j
  <2> HIDE DEF Below
  <2>1. rank \in Injection(K, 1..Cardinality(K))
    BY <1>2, <1>3, Fun_IsInj
  <2> HIDE DEF rank
  <2>2. IsFiniteSet(1..Cardinality(K)) /\ Cardinality(1..Cardinality(K)) = Cardinality(K)
    BY <1>1, FS_Interval
  <2>3. rank \in Surjection(K, 1..Cardinality(K))
    BY <2>1, <2>2, FS_Injection
  <2> QED  BY <2>3, Fun_SurjectionProperties
<1> QED  BY <1>1, <1>2, <1>3, <1>4

\* What Keep returns has the elements at the positions that are kept, each once.
LEMMA Kept ==
  ASSUME NEW S, NEW s \in Seq(S), NEW K \in SUBSET DOMAIN s
  PROVE  /\ Keep(s, K) \in Seq(S)
         /\ \A j \in DOMAIN Keep(s, K) : \E k \in K : Keep(s, K)[j] = s[k]
         /\ \A k \in K : \E j \in DOMAIN Keep(s, K) : Keep(s, K)[j] = s[k]
         /\ (\A k, m \in DOMAIN s : s[k] = s[m] => k = m) =>
              \A i, j \in DOMAIN Keep(s, K) : Keep(s, K)[i] = Keep(s, K)[j] => i = j
<1> DEFINE rank(k) == Cardinality({i \in K : i <= k})
           at(j) == CHOOSE k \in K : rank(k) = j
           n == Cardinality(K)
<1>1. DOMAIN s = 1..Len(s) /\ Len(s) \in Nat /\ \A k \in DOMAIN s : s[k] \in S
  BY LenProperties, ElementOfSeq
<1>2. /\ n \in Nat
      /\ \A k \in K : rank(k) \in 1..n
      /\ \A k, m \in K : rank(k) = rank(m) => k = m
      /\ \A j \in 1..n : \E k \in K : rank(k) = j
  BY <1>1, Numbering
<1>3. Keep(s, K) = [j \in 1..n |-> s[at(j)]]
  BY DEF Keep
<1> HIDE DEF rank, n
<1>4. \A j \in 1..n : at(j) \in K /\ rank(at(j)) = j
  BY <1>2
<1>5. \A k \in K : at(rank(k)) = k
  BY <1>2, <1>4
<1> HIDE DEF at
<1>6. DOMAIN Keep(s, K) = 1..n /\ \A j \in 1..n : Keep(s, K)[j] = s[at(j)]
  BY <1>3
<1>7. Keep(s, K) \in Seq(S)
  BY <1>1, <1>2, <1>3, <1>4, IsASeq
<1>8. \A k \in K : Keep(s, K)[rank(k)] = s[k]
  BY <1>2, <1>5, <1>6
<1>9. ASSUME \A k, m \in DOMAIN s : s[k] = s[m] => k = m
      PROVE  \A i, j \in 1..n : Keep(s, K)[i] = Keep(s, K)[j] => i = j
  BY <1>4, <1>6, <1>9
<1> QED  BY <1>2, <1>4, <1>6, <1>7, <1>8, <1>9

-----------------------------------------------------------------------------
(* The inductive invariant *)

Order ==
  [type : Types, side : Sides, price : Nat, status : Statuses,
   triggered : Seq(Nat), canceled : Seq(Nat), fills : Nat]

ShapeInv ==
  /\ orders \in Seq(Order) /\ new_orders \in Seq(Nat)
  /\ order_lists \in Seq(Seq(Nat))
  /\ EngineTypeOK

Triggered(id) == ToSet(orders[id].triggered)
Canceled(id)  == ToSet(orders[id].canceled)

\* The orders of lists, without the first of each.
Pending == UNION {ToSet(Tail(order_lists[l])) : l \in DOMAIN order_lists}

\* How lists link their orders.  An order is triggered by no more than one, which
\* names it once; orders cancel each other, and what triggers one triggers both.
LinksInv ==
  /\ Pending \subseteq Ids
  /\ \A id \in Ids :
       /\ id \notin Triggered(id) \cup Canceled(id)
       /\ Triggered(id) # {} => Canceled(id) = {}
       /\ \A k, m \in DOMAIN orders[id].triggered :
            orders[id].triggered[k] = orders[id].triggered[m] => k = m
       /\ \A other \in Canceled(id) : id \in Canceled(other)
       /\ \A j \in Triggered(id) :
            /\ j \in Pending /\ Canceled(j) \subseteq Triggered(id)
            /\ \A a \in Ids : j \in Triggered(a) => a = id

\* The order has been activated by the execution of another.
Activated(j) == \E a \in Ids : j \in Triggered(a) /\ orders[a].fills > 0

StatusInv ==
  \A id \in Ids :
    /\ orders[id].fills \in {0, 1}
    /\ IsStatus(id, "New") => orders[id].fills = 0
    /\ orders[id].fills = 1 =>
         \A other \in Canceled(id) : orders[other].fills = 0 /\ ~IsStatus(other, "New")

\* An order that waits has never been in the queue, also if it is cancelled.
WaitingInv ==
  \A j \in Pending : ~Activated(j) =>
    orders[j].fills = 0 /\ ~IsStatus(j, "New") /\ j \notin ToSet(new_orders)

QueueInv ==
  /\ \A k, m \in DOMAIN new_orders : new_orders[k] = new_orders[m] => k = m
  /\ \A id \in Ids : IsStatus(id, "New") => id \in ToSet(new_orders)

EngineInv == ShapeInv /\ LinksInv /\ StatusInv /\ WaitingInv /\ QueueInv

\* What a change of status leaves of an order.
LEMMA StatusSet ==
  ASSUME NEW o \in Order, NEW s \in Statuses
  PROVE  /\ WithStatus(o, s) \in Order /\ WithStatus(o, s).status = s
         /\ WithStatus(o, s).fills = o.fills
         /\ WithStatus(o, s).triggered = o.triggered
         /\ WithStatus(o, s).canceled = o.canceled
         /\ WithStatus(o, s).type = o.type /\ WithStatus(o, s).side = o.side
         /\ WithStatus(o, s).price = o.price
BY DEF Order, WithStatus

LEMMA FillSet ==
  ASSUME NEW o \in Order
  PROVE  /\ Executed(o) \in Order /\ Executed(o).status = "Filled"
         /\ Executed(o).fills = o.fills + 1
         /\ Executed(o).triggered = o.triggered
         /\ Executed(o).canceled = o.canceled
         /\ Executed(o).type = o.type /\ Executed(o).side = o.side
         /\ Executed(o).price = o.price
<1>1. o.fills + 1 \in Nat /\ "Filled" \in Statuses
  BY DEF Order, Statuses
<1> QED  BY <1>1 DEF Order, Executed

LEMMA Shape ==
  ASSUME ShapeInv
  PROVE  /\ Ids = 1..Len(orders) /\ Len(orders) \in Nat
         /\ \A id \in Ids :
              /\ orders[id] \in Order
              /\ DOMAIN orders[id].triggered = 1..Len(orders[id].triggered)
              /\ DOMAIN orders[id].canceled = 1..Len(orders[id].canceled)
              /\ \A j : Contains(orders[id].triggered, j) <=> j \in Triggered(id)
              /\ \A j : Contains(orders[id].canceled, j) <=> j \in Canceled(id)
              /\ Triggered(id) \subseteq Ids /\ Canceled(id) \subseteq Ids
         /\ DOMAIN new_orders = 1..Len(new_orders) /\ Len(new_orders) \in Nat
         /\ \A k \in DOMAIN new_orders : new_orders[k] \in Ids
         /\ iter \in 0..(Len(new_orders) + 1)
<1>1. Ids = 1..Len(orders) /\ Len(orders) \in Nat /\ \A id \in Ids : orders[id] \in Order
  BY LenProperties, ElementOfSeq DEF ShapeInv, Ids
<1>2. DOMAIN new_orders = 1..Len(new_orders) /\ Len(new_orders) \in Nat
  BY LenProperties DEF ShapeInv
<1>3. ASSUME NEW id \in Ids
      PROVE  /\ DOMAIN orders[id].triggered = 1..Len(orders[id].triggered)
             /\ DOMAIN orders[id].canceled = 1..Len(orders[id].canceled)
  BY <1>1, <1>3, LenProperties DEF Order
<1>4. ASSUME NEW id \in Ids
      PROVE  /\ \A j : Contains(orders[id].triggered, j) <=> j \in Triggered(id)
             /\ \A j : Contains(orders[id].canceled, j) <=> j \in Canceled(id)
             /\ Triggered(id) \subseteq Ids /\ Canceled(id) \subseteq Ids
  BY <1>3, <1>4 DEF Contains, Triggered, Canceled, ToSet, ShapeInv, EngineTypeOK
<1>5. /\ \A k \in DOMAIN new_orders : new_orders[k] \in Ids
      /\ iter \in 0..(Len(new_orders) + 1)
  BY DEF ShapeInv, EngineTypeOK, ToSet
<1> QED  BY <1>1, <1>2, <1>3, <1>4, <1>5

LEMMA EngineInit == Init => EngineInv
<1> SUFFICES ASSUME Init PROVE EngineInv
  OBVIOUS
<1>1. orders = <<>> /\ new_orders = <<>> /\ order_lists = <<>> /\ iter = 0
  BY DEF Init
<1>2. DOMAIN orders = {} /\ DOMAIN new_orders = {} /\ DOMAIN order_lists = {} /\ Len(new_orders) = 0
  BY <1>1, EmptySeq
<1>3. ShapeInv
  BY <1>1, <1>2, EmptySeq DEF ShapeInv, EngineTypeOK, Ids, ToSet
<1> QED
  BY <1>2, <1>3 DEF EngineInv, LinksInv, StatusInv, WaitingInv, QueueInv, Pending, Ids

\* A step that leaves the links of the orders alone.
LEMMA SameLinks ==
  ASSUME ShapeInv, LinksInv, UNCHANGED order_lists, Ids' = Ids,
         \A id \in Ids : /\ orders'[id].triggered = orders[id].triggered
                         /\ orders'[id].canceled = orders[id].canceled
  PROVE  /\ LinksInv' /\ Pending' = Pending
         /\ \A id \in Ids : Triggered(id)' = Triggered(id) /\ Canceled(id)' = Canceled(id)
<1>1. /\ Pending' = Pending
      /\ \A id \in Ids : Triggered(id)' = Triggered(id) /\ Canceled(id)' = Canceled(id)
  BY DEF Pending, Triggered, Canceled
<1>2. \A id \in Ids : Triggered(id) \subseteq Ids /\ Canceled(id) \subseteq Ids
  BY Shape
<1>3. LinksInv'
  BY <1>1, <1>2 DEF LinksInv
<1> QED  BY <1>1, <1>3

LEMMA EndPassPreserves == ASSUME EngineInv, EndPass PROVE EngineInv'
<1> USE DEF EngineInv
<1> DEFINE K == {k \in DOMAIN new_orders : IsStatus(new_orders[k], "New")}
<1>1. /\ new_orders' = Keep(new_orders, K) /\ iter' = 0
      /\ UNCHANGED <<orders, order_lists>>
  BY DEF EndPass
<1>2. K \in SUBSET DOMAIN new_orders /\ new_orders \in Seq(Nat)
  BY DEF ShapeInv
<1>3. /\ new_orders' \in Seq(Nat)
      /\ \A j \in DOMAIN new_orders' : \E k \in K : new_orders'[j] = new_orders[k]
      /\ \A k \in K : \E j \in DOMAIN new_orders' : new_orders'[j] = new_orders[k]
      /\ \A i, j \in DOMAIN new_orders' : new_orders'[i] = new_orders'[j] => i = j
  <2> HIDE DEF K
  <2> QED  BY <1>1, <1>2, Kept, SMTT(30) DEF QueueInv
<1>4. ToSet(new_orders') \subseteq ToSet(new_orders)
  BY <1>3 DEF ToSet
<1>5. ShapeInv'
  <2>1. EngineTypeOK'
    BY <1>1, <1>3, <1>4, LenProperties DEF ShapeInv, EngineTypeOK, Ids
  <2> QED  BY <1>1, <1>3, <2>1 DEF ShapeInv
<1>6. Pending' = Pending /\ \A id : Triggered(id)' = Triggered(id) /\ Canceled(id)' = Canceled(id)
  BY <1>1 DEF Pending, Triggered, Canceled
<1>7. LinksInv' /\ StatusInv'
  BY <1>1, <1>6 DEF LinksInv, StatusInv, Ids, IsStatus
<1>8. WaitingInv'
  BY <1>1, <1>4, <1>6 DEF WaitingInv, Activated, Ids, IsStatus
<1>9. QueueInv'
  <2>1. ASSUME NEW id \in Ids, IsStatus(id, "New") PROVE id \in ToSet(new_orders')
    <3>1. PICK k \in DOMAIN new_orders : new_orders[k] = id
      BY <2>1 DEF QueueInv, ToSet
    <3>2. PICK j \in DOMAIN new_orders' : new_orders'[j] = new_orders[k]
      BY <1>3, <2>1, <3>1
    <3> QED  BY <3>1, <3>2 DEF ToSet
  <2> QED  BY <1>1, <1>3, <2>1 DEF QueueInv, Ids, IsStatus
<1> QED  BY <1>5, <1>7, <1>8, <1>9

\* Steps that only move the pass along.
LEMMA AlongPreserves ==
  ASSUME EngineInv, BeginPass \/ SkipOrder \/ Returned \/ UNCHANGED vars
  PROVE  EngineInv'
<1> USE DEF EngineInv
<1>1. UNCHANGED <<orders, new_orders, order_lists>> /\ iter' \in 0..(Len(new_orders) + 1)
  BY Shape DEF BeginPass, SkipOrder, InPass, Returned, vars
<1>2. ShapeInv'
  BY <1>1 DEF ShapeInv, EngineTypeOK, Ids
<1>3. Pending' = Pending /\ \A id : Triggered(id)' = Triggered(id) /\ Canceled(id)' = Canceled(id)
  BY <1>1 DEF Pending, Triggered, Canceled
<1>4. LinksInv' /\ StatusInv'
  BY <1>1, <1>3 DEF LinksInv, StatusInv, Ids, IsStatus
<1>5. WaitingInv' /\ QueueInv'
  BY <1>1, <1>3 DEF WaitingInv, Activated, QueueInv, Ids, IsStatus
<1> QED  BY <1>2, <1>4, <1>5

\* Cancelling orders between passes, of whatever status.
LEMMA CancelPreserves == ASSUME EngineInv, NEW ids, Cancel(ids) PROVE EngineInv'
<1> USE DEF EngineInv
<1>1. /\ Ids' = Ids /\ UNCHANGED <<new_orders, order_lists, iter>>
      /\ \A id \in Ids :
           /\ orders'[id].triggered = orders[id].triggered
           /\ orders'[id].canceled = orders[id].canceled
           /\ orders'[id].fills = orders[id].fills
           /\ orders'[id].type = orders[id].type /\ orders'[id].side = orders[id].side
           /\ orders'[id].status \in {orders[id].status, "Canceled"}
           /\ orders'[id] \in Order
  <2>1. Ids' = Ids /\ UNCHANGED <<new_orders, order_lists, iter>>
    BY DEF Cancel, Ids
  <2>2. \A id \in Ids : \/ orders'[id] = orders[id]
                        \/ orders'[id] = WithStatus(orders[id], "Canceled")
    BY DEF Cancel, Ids
  <2>3. ASSUME NEW id \in Ids
        PROVE  /\ orders'[id].triggered = orders[id].triggered
               /\ orders'[id].canceled = orders[id].canceled
               /\ orders'[id].fills = orders[id].fills
               /\ orders'[id].type = orders[id].type /\ orders'[id].side = orders[id].side
               /\ orders'[id].status \in {orders[id].status, "Canceled"}
               /\ orders'[id] \in Order
    <3>1. orders[id] \in Order /\ "Canceled" \in Statuses
      BY Shape DEF Statuses
    <3>2. CASE orders'[id] = orders[id]
      BY <3>1, <3>2
    <3>3. CASE orders'[id] = WithStatus(orders[id], "Canceled")
      BY <3>1, <3>3, StatusSet
    <3> QED  BY <2>2, <3>2, <3>3
  <2> QED  BY <2>1, <2>3
<1>2. ShapeInv'
  <2>1. orders' \in Seq(Order)
    BY <1>1, Shape, IsASeq DEF Cancel, Ids
  <2>2. EngineTypeOK'
    BY <1>1 DEF ShapeInv, EngineTypeOK, Statuses
  <2> QED  BY <1>1, <2>1, <2>2 DEF ShapeInv
<1>3. /\ LinksInv' /\ Pending' = Pending
      /\ \A id \in Ids : Triggered(id)' = Triggered(id) /\ Canceled(id)' = Canceled(id)
  BY <1>1, SameLinks
<1>4. StatusInv'
  <2>1. \A id \in Ids : Canceled(id) \subseteq Ids /\ (IsStatus(id, "New")' => IsStatus(id, "New"))
    BY <1>1, Shape DEF IsStatus
  <2> QED  BY <1>1, <1>3, <2>1 DEF StatusInv
<1>5. WaitingInv'
  BY <1>1, <1>3 DEF WaitingInv, LinksInv, Activated, IsStatus
<1>6. QueueInv'
  BY <1>1 DEF QueueInv, IsStatus
<1> QED  BY <1>2, <1>3, <1>4, <1>5, <1>6

\* An order executes: those it triggers are activated and those it cancels are
\* not active afterwards.
\* What an execution does to the orders: itself, those it triggers, those it cancels.
LEMMA FillEffect ==
  ASSUME EngineInv, FillOrder, NEW id, id = new_orders[iter]
  PROVE  /\ iter \in DOMAIN new_orders /\ id \in Ids /\ IsStatus(id, "New")
         /\ orders' = Filled(id) /\ new_orders' = new_orders \o orders[id].triggered
         /\ iter' = iter + 1 /\ UNCHANGED order_lists /\ Ids' = Ids
         /\ orders[id].fills = 0 /\ orders[id].triggered \in Seq(Nat)
         /\ Triggered(id) \subseteq Ids /\ Canceled(id) \subseteq Ids
         /\ id \notin Triggered(id) /\ id \notin Canceled(id)
         /\ Triggered(id) \cap Canceled(id) = {}
         /\ \A j \in Ids :
              /\ orders'[j].triggered = orders[j].triggered
              /\ orders'[j].canceled = orders[j].canceled
              /\ orders'[j].type = orders[j].type /\ orders'[j].side = orders[j].side
              /\ orders'[j] \in Order
         /\ orders'[id].fills = 1 /\ orders'[id].status = "Filled"
         /\ \A j \in Ids \ {id} : orders'[j].fills = orders[j].fills
         /\ \A j \in Triggered(id) : orders'[j].status = "New"
         /\ \A j \in Canceled(id) : orders'[j].status = "Canceled"
         /\ \A j \in Ids \ ({id} \cup Triggered(id) \cup Canceled(id)) :
              orders'[j].status = orders[j].status
<1> USE DEF EngineInv
<1>1. /\ iter \in DOMAIN new_orders /\ id \in Ids /\ IsStatus(id, "New")
      /\ orders' = Filled(id) /\ new_orders' = new_orders \o orders[id].triggered
      /\ iter' = iter + 1 /\ UNCHANGED order_lists
  BY Shape DEF FillOrder, InPass, Executes
<1>2. /\ orders[id].fills = 0 /\ orders[id].triggered \in Seq(Nat)
      /\ Triggered(id) \subseteq Ids /\ Canceled(id) \subseteq Ids
      /\ id \notin Triggered(id) /\ id \notin Canceled(id)
      /\ Triggered(id) \cap Canceled(id) = {}
  BY <1>1, Shape DEF StatusInv, LinksInv, Order
<1>3. /\ Ids' = Ids
      /\ orders'[id] = Executed(orders[id])
      /\ \A j \in Triggered(id) : orders'[j] = WithStatus(orders[j], "New")
      /\ \A j \in Canceled(id) : orders'[j] = WithStatus(orders[j], "Canceled")
      /\ \A j \in Ids \ ({id} \cup Triggered(id) \cup Canceled(id)) : orders'[j] = orders[j]
  <2>1. /\ \A j : Contains(orders[id].triggered, j) <=> j \in Triggered(id)
        /\ \A j : Contains(orders[id].canceled, j) <=> j \in Canceled(id)
    BY <1>1, Shape
  <2> QED  BY <1>1, <1>2, <2>1 DEF Filled, Ids
<1>4. /\ \A j \in Ids :
           /\ orders'[j].triggered = orders[j].triggered
           /\ orders'[j].canceled = orders[j].canceled
           /\ orders'[j].type = orders[j].type /\ orders'[j].side = orders[j].side
           /\ orders'[j] \in Order
      /\ orders'[id].fills = 1 /\ orders'[id].status = "Filled"
      /\ \A j \in Ids \ {id} : orders'[j].fills = orders[j].fills
      /\ \A j \in Triggered(id) : orders'[j].status = "New"
      /\ \A j \in Canceled(id) : orders'[j].status = "Canceled"
      /\ \A j \in Ids \ ({id} \cup Triggered(id) \cup Canceled(id)) :
           orders'[j].status = orders[j].status
  <2>1. \A j \in Ids : orders[j] \in Order
    BY Shape
  <2>2. {"New", "Canceled"} \subseteq Statuses
    BY DEF Statuses
  <2>3. /\ orders'[id] \in Order /\ orders'[id].status = "Filled"
        /\ orders'[id].fills = orders[id].fills + 1
        /\ orders'[id].triggered = orders[id].triggered
        /\ orders'[id].canceled = orders[id].canceled
        /\ orders'[id].type = orders[id].type /\ orders'[id].side = orders[id].side
    BY <1>1, <1>3, <2>1, FillSet
  <2>4. ASSUME NEW j \in Triggered(id)
        PROVE  /\ orders'[j] \in Order /\ orders'[j].status = "New"
               /\ orders'[j].fills = orders[j].fills
               /\ orders'[j].triggered = orders[j].triggered
               /\ orders'[j].canceled = orders[j].canceled
               /\ orders'[j].type = orders[j].type /\ orders'[j].side = orders[j].side
    <3>1. orders[j] \in Order
      BY <1>2, <2>1
    <3>2. orders'[j] = WithStatus(orders[j], "New")
      BY <1>3
    <3> QED  BY <2>2, <3>1, <3>2, StatusSet
  <2>5. ASSUME NEW j \in Canceled(id)
        PROVE  /\ orders'[j] \in Order /\ orders'[j].status = "Canceled"
               /\ orders'[j].fills = orders[j].fills
               /\ orders'[j].triggered = orders[j].triggered
               /\ orders'[j].canceled = orders[j].canceled
               /\ orders'[j].type = orders[j].type /\ orders'[j].side = orders[j].side
    <3>1. orders[j] \in Order
      BY <1>2, <2>1
    <3>2. orders'[j] = WithStatus(orders[j], "Canceled")
      BY <1>3
    <3> QED  BY <2>2, <3>1, <3>2, StatusSet
  <2>6. \A j \in Ids \ ({id} \cup Triggered(id) \cup Canceled(id)) :
          orders'[j] = orders[j] /\ orders[j] \in Order
    BY <1>3, <2>1
  <2>7. orders'[id].fills = 1
    BY <1>2, <2>3
  <2>8. ASSUME NEW j \in Ids
        PROVE  /\ orders'[j].triggered = orders[j].triggered
               /\ orders'[j].canceled = orders[j].canceled
               /\ orders'[j].type = orders[j].type /\ orders'[j].side = orders[j].side
               /\ orders'[j] \in Order
    BY <2>3, <2>4, <2>5, <2>6
  <2>9. \A j \in Ids \ {id} : orders'[j].fills = orders[j].fills
    BY <2>4, <2>5, <2>6
  <2> QED  BY <2>3, <2>4, <2>5, <2>6, <2>7, <2>8, <2>9
<1> QED  BY <1>1, <1>2, <1>3, <1>4

LEMMA FillPreserves == ASSUME EngineInv, FillOrder PROVE EngineInv'
<1> USE DEF EngineInv
<1> DEFINE id == new_orders[iter]
<1>0. id = new_orders[iter]
  OBVIOUS
<1> HIDE DEF id
<1>1. /\ iter \in DOMAIN new_orders /\ id \in Ids /\ IsStatus(id, "New")
      /\ orders' = Filled(id) /\ new_orders' = new_orders \o orders[id].triggered
      /\ iter' = iter + 1 /\ UNCHANGED order_lists
  BY <1>0, FillEffect
<1>2. /\ orders[id].fills = 0 /\ orders[id].triggered \in Seq(Nat)
      /\ Triggered(id) \subseteq Ids /\ Canceled(id) \subseteq Ids
      /\ id \notin Triggered(id) /\ id \notin Canceled(id)
      /\ Triggered(id) \cap Canceled(id) = {}
  BY <1>0, FillEffect
<1>3. Ids' = Ids
  BY <1>0, FillEffect
<1>4. /\ \A j \in Ids :
           /\ orders'[j].triggered = orders[j].triggered
           /\ orders'[j].canceled = orders[j].canceled
           /\ orders'[j].type = orders[j].type /\ orders'[j].side = orders[j].side
           /\ orders'[j] \in Order
      /\ orders'[id].fills = 1 /\ orders'[id].status = "Filled"
      /\ \A j \in Ids \ {id} : orders'[j].fills = orders[j].fills
      /\ \A j \in Triggered(id) : orders'[j].status = "New"
      /\ \A j \in Canceled(id) : orders'[j].status = "Canceled"
      /\ \A j \in Ids \ ({id} \cup Triggered(id) \cup Canceled(id)) :
           orders'[j].status = orders[j].status
  BY <1>0, FillEffect
<1>5. /\ LinksInv' /\ Pending' = Pending
      /\ \A j \in Ids : Triggered(j)' = Triggered(j) /\ Canceled(j)' = Canceled(j)
  BY <1>1, <1>3, <1>4, SameLinks
\* What is triggered has waited: no other order triggers it, and this one had not
\* executed before.
<1>6. \A j \in Triggered(id) :
        /\ orders[j].fills = 0 /\ j \notin ToSet(new_orders)
        /\ ~IsStatus(j, "New") /\ j \in Pending
  <2>1. \A j \in Triggered(id) : j \in Pending /\ ~Activated(j)
    BY <1>1, <1>2 DEF LinksInv, Activated
  <2> QED  BY <2>1 DEF WaitingInv
<1> DEFINE n == Len(new_orders)
           added == orders[id].triggered
<1>7. /\ n \in Nat /\ Len(added) \in Nat /\ DOMAIN added = 1..Len(added)
      /\ DOMAIN new_orders = 1..n
      /\ new_orders' \in Seq(Nat) /\ Len(new_orders') = n + Len(added)
      /\ DOMAIN new_orders' = 1..(n + Len(added))
      /\ \A k \in 1..n : new_orders'[k] = new_orders[k]
      /\ \A k \in 1..Len(added) : new_orders'[n + k] = added[k]
      /\ \A k \in DOMAIN new_orders' \ 1..n :
           k - n \in DOMAIN added /\ new_orders'[k] = added[k - n]
      /\ Triggered(id) = ToSet(added)
  <2>1. /\ new_orders \in Seq(Nat) /\ added \in Seq(Nat)
        /\ n \in Nat /\ Len(added) \in Nat
        /\ DOMAIN added = 1..Len(added) /\ DOMAIN new_orders = 1..n
    BY <1>1, <1>2, LenProperties DEF ShapeInv
  <2>2. new_orders' = new_orders \o added /\ Triggered(id) = ToSet(added)
    BY <1>1 DEF Triggered
  <2> HIDE DEF n, added
  <2>3. /\ new_orders' \in Seq(Nat)
        /\ Len(new_orders') = n + Len(added)
        /\ \A k \in 1..(n + Len(added)) :
             new_orders'[k] = IF k <= n THEN new_orders[k] ELSE added[k - n]
    BY <2>1, <2>2, ConcatProperties DEF n
  <2>4. DOMAIN new_orders' = 1..(n + Len(added))
    BY <2>3, LenProperties
  <2>5. \A k \in 1..n : new_orders'[k] = new_orders[k]
    BY <2>1, <2>3
  <2>6. \A k \in 1..Len(added) : new_orders'[n + k] = added[k]
    <3> TAKE k \in 1..Len(added)
    <3>1. n + k \in 1..(n + Len(added)) /\ ~(n + k <= n) /\ (n + k) - n = k
      BY <2>1
    <3> QED  BY <2>3, <3>1
  <2>7. \A k \in DOMAIN new_orders' \ 1..n :
          k - n \in DOMAIN added /\ new_orders'[k] = added[k - n]
    BY <2>1, <2>3, <2>4
  <2> QED  BY <2>1, <2>2, <2>3, <2>4, <2>5, <2>6, <2>7
<1>8. ToSet(new_orders') = ToSet(new_orders) \cup Triggered(id)
  <2> HIDE DEF n, added
  <2>1. \A k \in DOMAIN new_orders' : new_orders'[k] \in ToSet(new_orders) \cup Triggered(id)
    BY <1>7 DEF ToSet
  <2>2. \A k \in 1..n : k \in DOMAIN new_orders' /\ new_orders[k] \in ToSet(new_orders')
    <3> TAKE k \in 1..n
    <3>1. k \in DOMAIN new_orders'
      BY <1>7
    <3> QED  BY <1>7, <3>1 DEF ToSet
  <2>3. \A k \in 1..Len(added) : added[k] \in ToSet(new_orders')
    <3> TAKE k \in 1..Len(added)
    <3>1. n + k \in DOMAIN new_orders'
      BY <1>7
    <3> QED  BY <1>7, <3>1 DEF ToSet
  <2>4. ToSet(new_orders') \subseteq ToSet(new_orders) \cup Triggered(id)
    BY <2>1 DEF ToSet
  <2>5. ToSet(new_orders) \subseteq ToSet(new_orders')
    BY <1>7, <2>2 DEF ToSet
  <2>6. ToSet(added) \subseteq ToSet(new_orders')
    BY <1>7, <2>3 DEF ToSet
  <2> QED  BY <1>7, <2>4, <2>5, <2>6
<1>9. ShapeInv'
  <2>1. orders' \in Seq(Order)
    BY <1>1, <1>3, <1>4, Shape, IsASeq DEF Filled, Ids
  <2>2. iter' \in 0..(Len(new_orders') + 1)
    BY <1>1, <1>7, Shape
  <2>3. ToSet(new_orders') \subseteq Ids'
    BY <1>2, <1>3, <1>8 DEF ShapeInv, EngineTypeOK
  <2>4. \A j \in Ids' :
       /\ orders'[j].type \in Types /\ orders'[j].side \in Sides
       /\ orders'[j].status \in Statuses /\ orders'[j].fills \in Nat
       /\ ToSet(orders'[j].triggered) \cup ToSet(orders'[j].canceled) \subseteq Ids'
    BY <1>3, <1>4 DEF ShapeInv, EngineTypeOK, Order
  <2>5. EngineTypeOK'
    BY <1>1, <1>3, <2>2, <2>3, <2>4 DEF ShapeInv, EngineTypeOK
  <2> QED  BY <1>1, <1>7, <2>1, <2>5 DEF ShapeInv
<1>10. StatusInv'
  <2>1. ASSUME NEW j \in Ids PROVE orders'[j].fills \in {0, 1}
    BY <1>4 DEF StatusInv
  <2>2. ASSUME NEW j \in Ids, orders'[j].status = "New" PROVE orders'[j].fills = 0
    <3>1. j # id
      BY <1>4, <2>2
    <3> QED  BY <1>4, <1>6, <2>2, <3>1 DEF StatusInv, IsStatus
  <2>3. ASSUME NEW j \in Ids, orders'[j].fills = 1, NEW other \in Canceled(j)
        PROVE  orders'[other].fills = 0 /\ orders'[other].status # "New"
    <3>1. other \in Ids /\ j \in Canceled(other)
      BY <2>3, Shape DEF LinksInv
    <3>2. CASE j = id
      <4>1. orders[other].fills # 1
        BY <1>1, <3>1, <3>2 DEF StatusInv
      <4> QED  BY <1>2, <1>4, <2>3, <3>1, <3>2, <4>1 DEF StatusInv
    <3>3. CASE j # id
      <4>1. orders[j].fills = 1 /\ orders[other].fills = 0 /\ ~IsStatus(other, "New")
        BY <1>4, <2>3, <3>3 DEF StatusInv
      <4>2. other # id
        BY <1>1, <4>1
      <4>3. other \notin Triggered(id)
        BY <1>1, <1>6, <3>1, <4>1 DEF LinksInv
      <4> QED  BY <1>4, <3>1, <4>1, <4>2, <4>3 DEF IsStatus
    <3> QED  BY <3>2, <3>3
  <2> QED  BY <1>3, <1>5, <2>1, <2>2, <2>3 DEF StatusInv, IsStatus
<1>11. WaitingInv'
  <2> SUFFICES ASSUME NEW j \in Pending, ~Activated(j)'
               PROVE  /\ orders'[j].fills = 0 /\ orders'[j].status # "New"
                      /\ j \notin ToSet(new_orders')
    BY <1>5 DEF WaitingInv, IsStatus
  <2>1. j \in Ids
    BY DEF LinksInv
  <2>2. ~Activated(j) /\ j \notin Triggered(id)
    BY <1>1, <1>3, <1>4, <1>5 DEF Activated
  <2>3. orders[j].fills = 0 /\ ~IsStatus(j, "New") /\ j \notin ToSet(new_orders)
    BY <2>2 DEF WaitingInv
  <2> QED  BY <1>1, <1>4, <1>8, <2>1, <2>2, <2>3 DEF IsStatus
<1>12. QueueInv'
  <2>1. ASSUME NEW k \in DOMAIN new_orders', NEW m \in DOMAIN new_orders',
               new_orders'[k] = new_orders'[m], k < m
        PROVE  FALSE
    <3>0. DOMAIN new_orders = 1..n
      BY Shape
    <3>1. CASE m \in 1..n
      BY <1>7, <2>1, <3>0, <3>1 DEF QueueInv
    <3>2. CASE k \notin 1..n
      <4>1. m \notin 1..n
        BY <1>7, <2>1, <3>2
      <4>2. /\ k - n \in DOMAIN added /\ m - n \in DOMAIN added
            /\ added[k - n] = added[m - n]
        BY <1>7, <2>1, <3>2, <4>1
      <4>3. k - n = m - n
        BY <1>1, <4>2 DEF LinksInv
      <4> QED  BY <1>7, <2>1, <4>3
    <3>3. CASE k \in 1..n /\ m \notin 1..n
      <4>1. new_orders'[k] \in ToSet(new_orders)
        BY <1>7, <3>0, <3>3 DEF ToSet
      <4>2. new_orders'[m] \in Triggered(id)
        BY <1>7, <2>1, <3>3 DEF ToSet
      <4> QED  BY <1>6, <2>1, <4>1, <4>2
    <3> QED  BY <3>1, <3>2, <3>3
  <2>2. \A k, m \in DOMAIN new_orders' : k < m \/ m < k \/ k = m
    BY <1>7, Shape
  <2>3. \A j \in Ids : orders'[j].status = "New" => j \in ToSet(new_orders')
    BY <1>4, <1>8 DEF QueueInv, IsStatus
  <2> QED  BY <1>3, <2>1, <2>2, <2>3 DEF QueueInv, IsStatus
<1> QED  BY <1>5, <1>9, <1>10, <1>11, <1>12

(* New orders *)

\* The orders of one command, to be given the ids after n, are linked among each other
\* and to no others; only the first is active.
Linked(n, added) ==
  LET m == Len(added)
      T(k) == ToSet(added[k].triggered)
      C(k) == ToSet(added[k].canceled)
  IN  /\ added \in Seq(Order) /\ m \in Nat \ {0}
      /\ \A k \in 1..m :
           /\ added[k].fills = 0
           /\ added[k].status = "New" <=> k = 1
           /\ T(k) \subseteq (n + 2)..(n + m) /\ C(k) \subseteq (n + 1)..(n + m)
           /\ k # 1 => T(k) = {}
           /\ n + k \notin C(k)
           /\ T(k) # {} => C(k) = {}
           /\ \A i, j \in DOMAIN added[k].triggered :
                added[k].triggered[i] = added[k].triggered[j] => i = j
           /\ \A c \in C(k) : n + k \in C(c - n)
           /\ \A j \in T(k) : C(j - n) \subseteq T(k)

\* A command appends such orders and may cancel others.
LEMMA CommandPreserves ==
  ASSUME EngineInv, NEW added, Linked(Len(orders), added),
         orders' \in Seq(Order), Len(orders') = Len(orders) + Len(added),
         \A id \in Ids : orders'[id] \in {orders[id], WithStatus(orders[id], "Canceled")},
         \A k \in 1..Len(added) : orders'[Len(orders) + k] = added[k],
         new_orders' = Append(new_orders, Len(orders) + 1),
         order_lists' \in Seq(Seq(Nat)),
         \A l \in DOMAIN order_lists' : ToSet(order_lists'[l]) \subseteq Ids',
         Pending' = Pending \cup (Len(orders) + 2)..(Len(orders) + Len(added)),
         iter = 0, iter' = 0
  PROVE  EngineInv'
<1> USE DEF EngineInv
<1> DEFINE n == Len(orders)
           m == Len(added)
           New == (n + 1)..(n + m)
           T(k) == ToSet(added[k].triggered)
           C(k) == ToSet(added[k].canceled)
<1>1. /\ n \in Nat /\ m \in Nat \ {0}
      /\ Ids = 1..n /\ Ids' = 1..(n + m) /\ Ids' = Ids \cup New /\ Ids \cap New = {}
  BY Shape, LenProperties DEF Linked, Ids
<1>2. \A k \in 1..m :
           /\ added[k].fills = 0
           /\ added[k].status = "New" <=> k = 1
           /\ T(k) \subseteq (n + 2)..(n + m) /\ C(k) \subseteq New
           /\ k # 1 => T(k) = {}
           /\ n + k \notin C(k)
           /\ T(k) # {} => C(k) = {}
           /\ \A i, j \in DOMAIN added[k].triggered :
                added[k].triggered[i] = added[k].triggered[j] => i = j
           /\ \A c \in C(k) : n + k \in C(c - n)
           /\ \A j \in T(k) : C(j - n) \subseteq T(k)
  BY DEF Linked
<1>3. /\ \A id \in New : id - n \in 1..m /\ orders'[id] = added[id - n]
                         /\ n + (id - n) = id /\ (id - n = 1 <=> id = n + 1)
      /\ n + 1 \in New /\ n + 1 \notin Ids
      /\ (n + 2)..(n + m) = New \ {n + 1}
  <2>1. ASSUME NEW id \in New
        PROVE  id - n \in 1..m /\ n + (id - n) = id /\ (id - n = 1 <=> id = n + 1)
    BY <1>1
  <2>2. \A k \in 1..m : orders'[n + k] = added[k]
    OBVIOUS
  <2>3. \A id \in New : orders'[id] = added[id - n]
    BY <2>1, <2>2
  <2>4. /\ n + 1 \in New /\ n + 1 \notin Ids
        /\ (n + 2)..(n + m) = New \ {n + 1}
    BY <1>1
  <2> QED  BY <2>1, <2>3, <2>4
<1>4. \A id \in Ids :
        /\ orders'[id].triggered = orders[id].triggered
        /\ orders'[id].canceled = orders[id].canceled
        /\ orders'[id].fills = orders[id].fills
        /\ orders'[id].status \in {orders[id].status, "Canceled"}
  <2> TAKE id \in Ids
  <2>1. orders[id] \in Order /\ "Canceled" \in Statuses
    BY Shape DEF Statuses
  <2>2. orders'[id] = orders[id] \/ orders'[id] = WithStatus(orders[id], "Canceled")
    OBVIOUS
  <2> QED  BY <2>1, <2>2, StatusSet
<1>5. /\ \A id \in Ids : Triggered(id)' = Triggered(id) /\ Canceled(id)' = Canceled(id)
                         /\ Triggered(id) \subseteq Ids /\ Canceled(id) \subseteq Ids
      /\ \A id \in New : Triggered(id)' = T(id - n) /\ Canceled(id)' = C(id - n)
      /\ \A id \in Ids : Triggered(id)' \cap New = {}
  BY <1>1, <1>3, <1>4, Shape DEF Triggered, Canceled
<1>6. /\ Pending' = Pending \cup (New \ {n + 1}) /\ Pending \subseteq Ids
      /\ \A k \in 1..m : T(k) \subseteq New \ {n + 1}
  BY <1>2, <1>3 DEF LinksInv
<1> HIDE DEF n, m, New, T, C
<1>7. /\ new_orders' \in Seq(Nat) /\ Len(new_orders') = Len(new_orders) + 1
      /\ DOMAIN new_orders' = 1..(Len(new_orders) + 1)
      /\ \A k \in DOMAIN new_orders : new_orders'[k] = new_orders[k]
      /\ new_orders'[Len(new_orders) + 1] = n + 1
      /\ DOMAIN new_orders = 1..Len(new_orders) /\ Len(new_orders) \in Nat
  <2>1. new_orders \in Seq(Nat) /\ n + 1 \in Nat /\ new_orders' = Append(new_orders, n + 1)
    BY <1>1 DEF ShapeInv, n
  <2> QED  BY <2>1, AppendProperties, LenProperties, Shape
<1>8. ToSet(new_orders') = ToSet(new_orders) \cup {n + 1} /\ ToSet(new_orders) \subseteq Ids
  BY <1>7, Shape DEF ToSet
<1>9. ShapeInv'
  <2>1. \A id \in Ids' : orders'[id] \in Order
    BY <1>1, ElementOfSeq, LenProperties DEF Ids
  <2>2. \A id \in Ids' : ToSet(orders'[id].triggered) \cup ToSet(orders'[id].canceled)
                            \subseteq Ids'
    <3>1. \A id \in New : T(id - n) \subseteq Ids' /\ C(id - n) \subseteq Ids'
      BY <1>1, <1>2, <1>3, <1>6
    <3>2. \A id \in Ids : Triggered(id)' \subseteq Ids' /\ Canceled(id)' \subseteq Ids'
      BY <1>1, <1>5
    <3>3. \A id \in New : Triggered(id)' \subseteq Ids' /\ Canceled(id)' \subseteq Ids'
      BY <1>5, <3>1
    <3>4. \A id \in Ids' : Triggered(id)' \subseteq Ids' /\ Canceled(id)' \subseteq Ids'
      BY <1>1, <3>2, <3>3
    <3> QED  BY <3>4 DEF Triggered, Canceled
  <2>3. ToSet(new_orders') \subseteq Ids'
    BY <1>1, <1>3, <1>8
  <2>4. iter' \in 0..(Len(new_orders') + 1)
    BY <1>7
  <2>5. EngineTypeOK'
    BY <2>1, <2>2, <2>3, <2>4 DEF EngineTypeOK, Order
  <2> QED  BY <1>7, <2>5 DEF ShapeInv
<1>10. LinksInv'
  <2>1. Pending' \subseteq Ids'
    BY <1>1, <1>6
  <2>2. ASSUME NEW id \in Ids
        PROVE  /\ id \notin Triggered(id)' \cup Canceled(id)'
               /\ Triggered(id)' # {} => Canceled(id)' = {}
               /\ \A k, i \in DOMAIN orders'[id].triggered :
                    orders'[id].triggered[k] = orders'[id].triggered[i] => k = i
               /\ \A other \in Canceled(id)' : id \in Canceled(other)'
               /\ \A j \in Triggered(id)' :
                    /\ j \in Pending' /\ Canceled(j)' \subseteq Triggered(id)'
                    /\ \A a \in Ids' : j \in Triggered(a)' => a = id
    <3>1. \A a \in New : Triggered(a)' \cap Ids = {}
      BY <1>1, <1>3, <1>5, <1>6, SMTT(30)
    <3>2. /\ id \notin Triggered(id)' \cup Canceled(id)'
          /\ Triggered(id)' # {} => Canceled(id)' = {}
          /\ \A k, i \in DOMAIN orders'[id].triggered :
               orders'[id].triggered[k] = orders'[id].triggered[i] => k = i
      BY <1>4, <1>5, ZenonT(40) DEF LinksInv
    <3>3. \A other \in Canceled(id)' : id \in Canceled(other)'
      BY <1>5 DEF LinksInv
    <3>4. ASSUME NEW j \in Triggered(id)'
          PROVE  /\ j \in Pending' /\ Canceled(j)' \subseteq Triggered(id)'
                 /\ \A a \in Ids' : j \in Triggered(a)' => a = id
      <4>1. j \in Ids /\ j \in Triggered(id)
        BY <1>5
      <4>2. \A a \in Ids : j \in Triggered(a)' => a = id
        BY <1>5, <4>1 DEF LinksInv
      <4>3. \A a \in New : j \notin Triggered(a)'
        BY <3>1, <4>1
      <4>4. j \in Pending' /\ Canceled(j)' \subseteq Triggered(id)'
        BY <1>5, <1>6, <4>1 DEF LinksInv
      <4> QED  BY <1>1, <4>2, <4>3, <4>4
    <3> QED  BY <3>2, <3>3, <3>4
  <2>3. ASSUME NEW id \in New
        PROVE  /\ id \notin Triggered(id)' \cup Canceled(id)'
               /\ Triggered(id)' # {} => Canceled(id)' = {}
               /\ \A k, i \in DOMAIN orders'[id].triggered :
                    orders'[id].triggered[k] = orders'[id].triggered[i] => k = i
               /\ \A other \in Canceled(id)' : id \in Canceled(other)'
               /\ \A j \in Triggered(id)' :
                    /\ j \in Pending' /\ Canceled(j)' \subseteq Triggered(id)'
                    /\ \A a \in Ids' : j \in Triggered(a)' => a = id
    <3> DEFINE k == id - n
    <3>1. k \in 1..m /\ n + k = id /\ (k = 1 <=> id = n + 1) /\ orders'[id] = added[k]
          /\ Triggered(id)' = T(k) /\ Canceled(id)' = C(k)
      BY <1>3, <1>5
    <3> HIDE DEF k
    <3>2. \A c \in C(k) : c \in New /\ Canceled(c)' = C(c - n)
      BY <1>2, <1>5, <3>1
    <3>3. \A j \in T(k) : j \in New /\ Canceled(j)' = C(j - n) /\ j \in Pending'
      BY <1>5, <1>6, <3>1
    <3>4. \A j \in T(k) : \A a \in Ids' : j \in Triggered(a)' => a = id
      <4>1. T(k) # {} => k = 1
        BY <1>2, <3>1
      <4>2. \A a \in New : Triggered(a)' # {} => a = n + 1
        BY <1>2, <1>3, <1>5
      <4> QED  BY <1>1, <1>5, <3>1, <3>3, <4>1, <4>2
    <3>5. id \notin T(k)
      BY <1>2, <1>6, <3>1
    <3>6. id \notin C(k) /\ \A c \in C(k) : id \in Canceled(c)'
      BY <1>2, <3>1, <3>2
    <3>7. \A j \in T(k) : Canceled(j)' \subseteq T(k)
      BY <1>2, <3>1, <3>3
    <3>8. /\ T(k) # {} => C(k) = {}
          /\ \A j, i \in DOMAIN added[k].triggered :
                added[k].triggered[j] = added[k].triggered[i] => j = i
      BY <1>2, <3>1
    <3> QED  BY <3>1, <3>3, <3>4, <3>5, <3>6, <3>7, <3>8
  <2> QED  BY <1>1, <2>1, <2>2, <2>3 DEF LinksInv
<1>11. \A id \in New : orders'[id].fills = 0 /\ (orders'[id].status = "New" <=> id = n + 1)
  BY <1>2, <1>3
<1>12. StatusInv'
  <2>1. ASSUME NEW id \in Ids
        PROVE  /\ orders'[id].fills \in {0, 1}
               /\ orders'[id].status = "New" => orders'[id].fills = 0
               /\ orders'[id].fills = 1 =>
                    \A other \in Canceled(id)' :
                      orders'[other].fills = 0 /\ orders'[other].status # "New"
    <3>1. \A other \in Canceled(id)' : other \in Ids /\ other \in Canceled(id)
      BY <1>5
    <3> QED  BY <1>4, <3>1, ZenonT(40) DEF StatusInv, IsStatus
  <2>2. ASSUME NEW id \in New
        PROVE  /\ orders'[id].fills \in {0, 1}
               /\ orders'[id].status = "New" => orders'[id].fills = 0
               /\ orders'[id].fills # 1
    BY <1>11
  <2> QED  BY <1>1, <2>1, <2>2 DEF StatusInv, IsStatus
<1>13. WaitingInv'
  <2>1. ASSUME NEW j \in Pending, ~Activated(j)'
        PROVE  /\ orders'[j].fills = 0 /\ orders'[j].status # "New"
               /\ j \notin ToSet(new_orders')
    <3>1. j \in Ids /\ j # n + 1
      BY <1>3, <1>6
    <3>2. ~Activated(j)
      BY <1>1, <1>4, <1>5, <2>1 DEF Activated
    <3> QED  BY <1>4, <1>8, <3>1, <3>2 DEF WaitingInv, IsStatus
  <2>2. ASSUME NEW j \in New \ {n + 1}
        PROVE  /\ orders'[j].fills = 0 /\ orders'[j].status # "New"
               /\ j \notin ToSet(new_orders')
    <3>1. j \notin Ids
      BY <1>1
    <3> QED  BY <1>8, <1>11, <3>1
  <2> QED  BY <1>6, <2>1, <2>2 DEF WaitingInv, IsStatus
<1>14. QueueInv'
  <2>1. \A k, i \in DOMAIN new_orders' : new_orders'[k] = new_orders'[i] => k = i
    <3>1. \A k \in DOMAIN new_orders : new_orders'[k] # n + 1
      BY <1>3, <1>7, Shape
    <3>2. \A k \in DOMAIN new_orders' : k \in DOMAIN new_orders \/ k = Len(new_orders) + 1
      BY <1>7
    <3> QED  BY <1>7, <3>1, <3>2 DEF QueueInv
  <2>2. \A id \in Ids' : orders'[id].status = "New" => id \in ToSet(new_orders')
    BY <1>1, <1>4, <1>8, <1>11 DEF QueueInv, IsStatus
  <2> QED  BY <2>1, <2>2 DEF QueueInv, IsStatus
<1> QED  BY <1>9, <1>10, <1>12, <1>13, <1>14

\* The records that commands make.
LEMMA AnyOrderMade ==
  ASSUME NEW r \in [type : Types, side : Sides, price : Nat], NEW st \in Statuses
  PROVE  /\ MakeOrder(r, st) \in Order /\ MakeOrder(r, st).status = st
         /\ MakeOrder(r, st).fills = 0 /\ MakeOrder(r, st).side = r.side
         /\ MakeOrder(r, st).triggered = <<>> /\ MakeOrder(r, st).canceled = <<>>
BY EmptySeq DEF MakeOrder, Order

LEMMA OrderMade ==
  ASSUME NEW r \in Requests, NEW st \in Statuses
  PROVE  /\ MakeOrder(r, st) \in Order /\ MakeOrder(r, st).status = st
         /\ MakeOrder(r, st).fills = 0
         /\ MakeOrder(r, st).triggered = <<>> /\ MakeOrder(r, st).canceled = <<>>
<1>1. r \in [type : Types, side : Sides, price : Nat]
  BY EngineAssumption
<1> QED  BY <1>1, AnyOrderMade

LEMMA TriggersSet ==
  ASSUME NEW o \in Order, NEW ids \in Seq(Nat)
  PROVE  /\ Triggers(o, ids) \in Order /\ Triggers(o, ids).triggered = ids
         /\ Triggers(o, ids).status = o.status /\ Triggers(o, ids).fills = o.fills
         /\ Triggers(o, ids).side = o.side
         /\ Triggers(o, ids).canceled = o.canceled
BY DEF Triggers, Order

LEMMA CancelsSet ==
  ASSUME NEW o \in Order, NEW id \in Nat
  PROVE  /\ Cancels(o, id) \in Order /\ Cancels(o, id).canceled = <<id>>
         /\ Cancels(o, id).status = o.status /\ Cancels(o, id).fills = o.fills
         /\ Cancels(o, id).side = o.side
         /\ Cancels(o, id).triggered = o.triggered
<1>1. <<id>> \in Seq(Nat)
  OBVIOUS
<1> QED  BY <1>1 DEF Cancels, Order

LEMMA FewIds ==
  /\ ToSet(<<>>) = {} /\ DOMAIN <<>> = {}
  /\ \A a : ToSet(<<a>>) = {a} /\ DOMAIN <<a>> = {1}
  /\ \A a, b : ToSet(<<a, b>>) = {a, b} /\ DOMAIN <<a, b>> = {1, 2}
  /\ \A a, b, c : ToSet(<<a, b, c>>) = {a, b, c}
<1>1. ToSet(<<>>) = {} /\ DOMAIN <<>> = {}
  BY EmptySeq DEF ToSet
<1>2. \A a : ToSet(<<a>>) = {a} /\ DOMAIN <<a>> = {1}
  BY DEF ToSet
<1>3. \A a, b : ToSet(<<a, b>>) = {a, b} /\ DOMAIN <<a, b>> = {1, 2}
  BY DEF ToSet
<1>4. \A a, b, c : ToSet(<<a, b, c>>) = {a, b, c}
  BY DEF ToSet
<1> QED  BY <1>1, <1>2, <1>3, <1>4

LEMMA OneLinked ==
  ASSUME NEW n \in Nat, NEW r \in Requests
  PROVE  Linked(n, <<MakeOrder(r, "New")>>)
<1> DEFINE o == MakeOrder(r, "New")
<1>1. o \in Order /\ o.status = "New" /\ o.fills = 0 /\ o.triggered = <<>> /\ o.canceled = <<>>
  BY OrderMade DEF Statuses
<1> HIDE DEF o
<1>2. <<o>> \in Seq(Order) /\ Len(<<o>>) = 1 /\ <<o>>[1] = o
  BY <1>1
<1>3. ToSet(o.triggered) = {} /\ ToSet(o.canceled) = {} /\ DOMAIN o.triggered = {}
  BY <1>1, FewIds
<1> QED  BY <1>1, <1>2, <1>3 DEF Linked, o

LEMMA OtoLinked ==
  ASSUME NEW n \in Nat, NEW r \in Requests, NEW s \in Requests
  PROVE  Linked(n, <<Triggers(MakeOrder(r, "New"), <<n + 2>>), MakeOrder(s, "PendingNew")>>)
<1> DEFINE o == Triggers(MakeOrder(r, "New"), <<n + 2>>)
           p == MakeOrder(s, "PendingNew")
<1>1. /\ o \in Order /\ o.status = "New" /\ o.fills = 0
      /\ o.triggered = <<n + 2>> /\ o.canceled = <<>>
  <2> DEFINE w == MakeOrder(r, "New")
  <2>1. <<n + 2>> \in Seq(Nat) /\ "New" \in Statuses
    BY DEF Statuses
  <2>2. /\ w \in Order /\ w.status = "New" /\ w.fills = 0
        /\ w.triggered = <<>> /\ w.canceled = <<>>
    BY <2>1, OrderMade
  <2> HIDE DEF w
  <2>3. /\ Triggers(w, <<n + 2>>) \in Order /\ Triggers(w, <<n + 2>>).triggered = <<n + 2>>
        /\ Triggers(w, <<n + 2>>).status = w.status /\ Triggers(w, <<n + 2>>).fills = w.fills
        /\ Triggers(w, <<n + 2>>).canceled = w.canceled
    BY <2>1, <2>2, TriggersSet
  <2> QED  BY <2>2, <2>3 DEF w
<1>2. /\ p \in Order /\ p.status = "PendingNew" /\ p.fills = 0
      /\ p.triggered = <<>> /\ p.canceled = <<>>
  BY OrderMade DEF Statuses
<1> HIDE DEF o, p
<1>3. /\ <<o, p>> \in Seq(Order) /\ Len(<<o, p>>) = 2
      /\ <<o, p>>[1] = o /\ <<o, p>>[2] = p
  BY <1>1, <1>2
<1>4. /\ ToSet(o.triggered) = {n + 2} /\ DOMAIN o.triggered = {1} /\ ToSet(o.canceled) = {}
      /\ ToSet(p.triggered) = {} /\ DOMAIN p.triggered = {} /\ ToSet(p.canceled) = {}
  BY <1>1, <1>2, FewIds
<1>5. (n + 2) - n = 2 /\ 1..2 = {1, 2} /\ n + 2 \in (n + 2)..(n + 2)
  OBVIOUS
<1> DEFINE added == <<o, p>>
<1> HIDE DEF added
<1>6. /\ added \in Seq(Order) /\ Len(added) = 2 /\ added[1] = o /\ added[2] = p
      /\ added = <<Triggers(MakeOrder(r, "New"), <<n + 2>>), MakeOrder(s, "PendingNew")>>
  BY <1>3 DEF added, o, p
<1>7. Linked(n, added)
  BY <1>1, <1>2, <1>4, <1>5, <1>6 DEF Linked
<1> QED  BY <1>6, <1>7

LEMMA OcoLinked ==
  ASSUME NEW n \in Nat, NEW r \in Requests, NEW s \in Requests
  PROVE  Linked(n, <<Cancels(MakeOrder(r, "New"), n + 2),
                     Cancels(MakeOrder(s, "PendingNew"), n + 1)>>)
<1> DEFINE o == Cancels(MakeOrder(r, "New"), n + 2)
           p == Cancels(MakeOrder(s, "PendingNew"), n + 1)
<1>1. /\ o \in Order /\ o.status = "New" /\ o.fills = 0
      /\ o.triggered = <<>> /\ o.canceled = <<n + 2>>
  <2>1. n + 2 \in Nat /\ "New" \in Statuses
    BY DEF Statuses
  <2> QED  BY <2>1, OrderMade, CancelsSet
<1>2. /\ p \in Order /\ p.status = "PendingNew" /\ p.fills = 0
      /\ p.triggered = <<>> /\ p.canceled = <<n + 1>>
  <2>1. n + 1 \in Nat /\ "PendingNew" \in Statuses
    BY DEF Statuses
  <2> QED  BY <2>1, OrderMade, CancelsSet, SMTT(30)
<1> HIDE DEF o, p
<1>3. /\ <<o, p>> \in Seq(Order) /\ Len(<<o, p>>) = 2
      /\ <<o, p>>[1] = o /\ <<o, p>>[2] = p
  BY <1>1, <1>2
<1>4. /\ ToSet(o.triggered) = {} /\ DOMAIN o.triggered = {} /\ ToSet(o.canceled) = {n + 2}
      /\ ToSet(p.triggered) = {} /\ DOMAIN p.triggered = {} /\ ToSet(p.canceled) = {n + 1}
  BY <1>1, <1>2, FewIds
<1>5. /\ (n + 2) - n = 2 /\ (n + 1) - n = 1 /\ 1..2 = {1, 2}
      /\ n + 1 \in (n + 1)..(n + 2) /\ n + 2 \in (n + 1)..(n + 2) /\ n + 1 # n + 2
  OBVIOUS
<1> QED  BY <1>1, <1>2, <1>3, <1>4, <1>5, SMTT(30) DEF Linked, o, p

\* A working order with two legs, as lists and Strategy001 make it.
LEMMA BracketLinked ==
  ASSUME NEW n \in Nat, NEW e \in Order, NEW s \in Order, NEW x \in Order,
         e.status = "New" /\ e.fills = 0 /\ e.triggered = <<>> /\ e.canceled = <<>>,
         s.status = "PendingNew" /\ s.fills = 0 /\ s.triggered = <<>>,
         x.status = "PendingNew" /\ x.fills = 0 /\ x.triggered = <<>>
  PROVE  Linked(n, <<Triggers(e, <<n + 2, n + 3>>), Cancels(s, n + 3), Cancels(x, n + 2)>>)
<1> DEFINE o == Triggers(e, <<n + 2, n + 3>>)
           p == Cancels(s, n + 3)
           q == Cancels(x, n + 2)
<1>1. /\ o \in Order /\ o.status = "New" /\ o.fills = 0
      /\ o.triggered = <<n + 2, n + 3>> /\ o.canceled = <<>>
  <2>1. <<n + 2, n + 3>> \in Seq(Nat)
    OBVIOUS
  <2> QED  BY <2>1, TriggersSet
<1>2. /\ p \in Order /\ p.status = "PendingNew" /\ p.fills = 0
      /\ p.triggered = <<>> /\ p.canceled = <<n + 3>>
  <2>1. n + 3 \in Nat
    OBVIOUS
  <2> QED  BY <2>1, CancelsSet
<1>3. /\ q \in Order /\ q.status = "PendingNew" /\ q.fills = 0
      /\ q.triggered = <<>> /\ q.canceled = <<n + 2>>
  <2>1. n + 2 \in Nat
    OBVIOUS
  <2> QED  BY <2>1, CancelsSet
<1> HIDE DEF o, p, q
<1>4. /\ <<o, p, q>> \in Seq(Order) /\ Len(<<o, p, q>>) = 3
      /\ <<o, p, q>>[1] = o /\ <<o, p, q>>[2] = p /\ <<o, p, q>>[3] = q
  BY <1>1, <1>2, <1>3
<1>5. /\ ToSet(o.triggered) = {n + 2, n + 3} /\ ToSet(o.canceled) = {}
      /\ ToSet(p.triggered) = {} /\ DOMAIN p.triggered = {} /\ ToSet(p.canceled) = {n + 3}
      /\ ToSet(q.triggered) = {} /\ DOMAIN q.triggered = {} /\ ToSet(q.canceled) = {n + 2}
  BY <1>1, <1>2, <1>3, FewIds
<1>6. \A i, j \in DOMAIN o.triggered : o.triggered[i] = o.triggered[j] => i = j
  BY <1>1
<1>7. /\ (n + 2) - n = 2 /\ (n + 3) - n = 3 /\ 1..3 = {1, 2, 3}
      /\ {n + 2, n + 3} \subseteq (n + 2)..(n + 3) /\ {n + 2, n + 3} \subseteq (n + 1)..(n + 3)
      /\ n + 2 # n + 3 /\ n + 1 # n + 2 /\ n + 1 # n + 3
  OBVIOUS
<1> DEFINE added == <<o, p, q>>
<1> HIDE DEF added
<1>8. /\ added \in Seq(Order) /\ Len(added) = 3
      /\ added[1] = o /\ added[2] = p /\ added[3] = q
      /\ added = <<Triggers(e, <<n + 2, n + 3>>), Cancels(s, n + 3), Cancels(x, n + 2)>>
  BY <1>4 DEF added, o, p, q
<1>9. Linked(n, added)
  <2> DEFINE T(k) == ToSet(added[k].triggered)
             C(k) == ToSet(added[k].canceled)
  <2>1. /\ T(1) = {n + 2, n + 3} /\ T(2) = {} /\ T(3) = {}
        /\ C(1) = {} /\ C(2) = {n + 3} /\ C(3) = {n + 2}
    BY <1>5, <1>8
  <2>2. \A k \in 1..3 : /\ added[k].fills = 0
                        /\ added[k].status = "New" <=> k = 1
                        /\ \A i, j \in DOMAIN added[k].triggered :
                             added[k].triggered[i] = added[k].triggered[j] => i = j
    BY <1>1, <1>2, <1>3, <1>5, <1>6, <1>7, <1>8
  <2> HIDE DEF T, C
  <2>3. \A k \in 1..3 : /\ T(k) \subseteq (n + 2)..(n + 3) /\ C(k) \subseteq (n + 1)..(n + 3)
                        /\ k # 1 => T(k) = {}
                        /\ T(k) # {} => C(k) = {}
                        /\ n + k \notin C(k)
    BY <1>7, <2>1
  <2>4. \A k \in 1..3 : /\ \A c \in C(k) : n + k \in C(c - n)
                        /\ \A j \in T(k) : C(j - n) \subseteq T(k)
    BY <1>7, <2>1
  <2>6. \A k \in 1..3 :
          /\ T(k) \subseteq (n + 2)..(n + Len(added))
          /\ C(k) \subseteq (n + 1)..(n + Len(added))
    BY <1>8, <2>3
  <2>7. 1..Len(added) = 1..3 /\ Len(added) \in Nat \ {0}
    BY <1>8
  <2> SUFFICES
        ASSUME NEW k \in 1..3
        PROVE  /\ added[k].fills = 0
               /\ added[k].status = "New" <=> k = 1
               /\ T(k) \subseteq (n + 2)..(n + Len(added)) /\ C(k) \subseteq (n + 1)..(n + Len(added))
               /\ k # 1 => T(k) = {}
               /\ n + k \notin C(k)
               /\ T(k) # {} => C(k) = {}
               /\ \A i, j \in DOMAIN added[k].triggered :
                    added[k].triggered[i] = added[k].triggered[j] => i = j
               /\ \A c \in C(k) : n + k \in C(c - n)
               /\ \A j \in T(k) : C(j - n) \subseteq T(k)
    BY <1>8, <2>7, Zenon DEF Linked, T, C
  <2> QED  BY <2>2, <2>3, <2>4, <2>6
<1> QED  BY <1>8, <1>9

\* Of the orders of a command the first enters the queue.
LEMMA FirstIsQueued ==
  ASSUME NEW added, Linked(Len(orders), added), Len(orders) \in Nat
  PROVE  Queued(added) = <<Len(orders) + 1>>
<1> DEFINE s == NewIds(added)
           K == {k \in DOMAIN added : added[k].status = "New"}
<1>1. DOMAIN added = 1..Len(added) /\ Len(added) \in Nat \ {0}
  BY LenProperties DEF Linked
<1>2. K = {1}
  BY <1>1 DEF Linked
<1>3. s \in Seq(Nat) /\ DOMAIN s = DOMAIN added /\ s[1] = Len(orders) + 1
  BY <1>1, IsASeq DEF NewIds
<1>4. \A k, m \in DOMAIN s : s[k] = s[m] => k = m
  BY <1>1 DEF NewIds
<1>5. K \in SUBSET DOMAIN s
  BY <1>3
<1>6. Queued(added) = Keep(s, K)
  BY DEF Queued
<1> HIDE DEF s, K
<1>7. /\ Keep(s, K) \in Seq(Nat)
      /\ \A j \in DOMAIN Keep(s, K) : \E k \in K : Keep(s, K)[j] = s[k]
      /\ \A k \in K : \E j \in DOMAIN Keep(s, K) : Keep(s, K)[j] = s[k]
      /\ \A i, j \in DOMAIN Keep(s, K) : Keep(s, K)[i] = Keep(s, K)[j] => i = j
  BY <1>3, <1>4, <1>5, Kept
<1> DEFINE q == Keep(s, K)
<1>8. DOMAIN q = 1..Len(q) /\ Len(q) \in Nat
  BY <1>7, LenProperties
<1> HIDE DEF q
<1>9. /\ \A j \in DOMAIN q : q[j] = Len(orders) + 1
      /\ \A i, j \in DOMAIN q : i = j
      /\ \E j \in DOMAIN q : TRUE
  BY <1>2, <1>3, <1>7 DEF q
<1>10. Len(q) = 1
  <2>1. 1 \in DOMAIN q /\ Len(q) \in DOMAIN q
    BY <1>8, <1>9
  <2> QED  BY <1>9, <2>1
<1>11. q = <<Len(orders) + 1>>
  BY <1>7, <1>8, <1>9, <1>10 DEF q
<1> QED  BY <1>6, <1>11 DEF q

LEMMA PendingOfList ==
  ASSUME NEW added, Linked(Len(orders), added), Len(orders) \in Nat
  PROVE  /\ NewIds(added) \in Seq(Nat)
         /\ ToSet(NewIds(added)) = (Len(orders) + 1)..(Len(orders) + Len(added))
         /\ ToSet(Tail(NewIds(added))) = (Len(orders) + 2)..(Len(orders) + Len(added))
<1> DEFINE s == NewIds(added)
           n == Len(orders)
           m == Len(added)
<1>1. DOMAIN added = 1..m /\ m \in Nat \ {0} /\ n \in Nat
  BY LenProperties DEF Linked
<1>2. s \in Seq(Nat) /\ DOMAIN s = 1..m /\ Len(s) = m /\ \A k \in 1..m : s[k] = n + k
  BY <1>1, IsASeq DEF NewIds
<1> HIDE DEF s, n, m
<1>3. s # <<>>
  BY <1>1, <1>2, EmptySeq
<1>4. /\ Tail(s) \in Seq(Nat) /\ Len(Tail(s)) = m - 1
      /\ \A k \in 1..(m - 1) : Tail(s)[k] = n + (k + 1)
  BY <1>1, <1>2, <1>3, HeadTailProperties
<1>5. DOMAIN Tail(s) = 1..(m - 1)
  BY <1>4, LenProperties
<1>6. ToSet(s) = (n + 1)..(n + m)
  <2>1. \A id \in (n + 1)..(n + m) : id - n \in 1..m /\ n + (id - n) = id
    BY <1>1
  <2>2. \A id \in (n + 1)..(n + m) : id = s[id - n]
    BY <1>2, <2>1
  <2>3. \A k \in 1..m : s[k] \in (n + 1)..(n + m)
    BY <1>1, <1>2
  <2> QED  BY <1>2, <2>1, <2>2, <2>3 DEF ToSet
<1>7. ToSet(Tail(s)) = (n + 2)..(n + m)
  <2>1. \A id \in (n + 2)..(n + m) : id - n - 1 \in 1..(m - 1) /\ n + (id - n - 1 + 1) = id
    BY <1>1
  <2>2. \A id \in (n + 2)..(n + m) : id = Tail(s)[id - n - 1]
    BY <1>4, <2>1
  <2>3. \A k \in 1..(m - 1) : Tail(s)[k] \in (n + 2)..(n + m)
    BY <1>1, <1>4
  <2> QED  BY <1>5, <2>1, <2>2, <2>3, ZenonT(40) DEF ToSet
<1> QED  BY <1>2, <1>6, <1>7 DEF s, n, m

\* A command that appends orders, in a list or alone.
LEMMA AddPreserves ==
  ASSUME EngineInv, NEW added, Linked(Len(orders), added), Add(added),
         \/ order_lists' = Append(order_lists, NewIds(added))
         \/ UNCHANGED order_lists /\ Len(added) = 1
  PROVE  EngineInv'
<1> DEFINE n == Len(orders)
           m == Len(added)
<1>1. /\ orders \in Seq(Order) /\ added \in Seq(Order) /\ n \in Nat /\ m \in Nat \ {0}
      /\ Ids = 1..n /\ new_orders \in Seq(Nat) /\ order_lists \in Seq(Seq(Nat))
      /\ Pending \subseteq Ids
      /\ \A l \in DOMAIN order_lists : ToSet(order_lists[l]) \subseteq Ids
  BY Shape DEF EngineInv, ShapeInv, Linked, LinksInv, EngineTypeOK
<1>2. orders' = orders \o added /\ iter = 0 /\ iter' = 0
      /\ new_orders' = new_orders \o Queued(added)
  BY DEF Add
<1>3. /\ orders' \in Seq(Order) /\ Len(orders') = n + m
      /\ \A i \in 1..(n + m) : orders'[i] = IF i <= n THEN orders[i] ELSE added[i - n]
  BY <1>1, <1>2, ConcatProperties
<1>4. Ids' = 1..(n + m)
  BY <1>3, LenProperties DEF Ids
<1>5. new_orders' = Append(new_orders, n + 1)
  <2>1. Queued(added) = <<n + 1>>
    BY <1>1, FirstIsQueued
  <2>2. n + 1 \in Nat
    BY <1>1
  <2>3. Append(new_orders, n + 1) = new_orders \o <<n + 1>>
    BY <1>1, <2>2, AppendIsConcat
  <2> QED  BY <1>2, <2>1, <2>3
<1>6. /\ \A id \in Ids : orders'[id] = orders[id]
      /\ \A k \in 1..m : orders'[n + k] = added[k]
  <2>1. \A id \in Ids : orders'[id] = orders[id]
    BY <1>1, <1>3
  <2>2. \A k \in 1..m : n + k \in 1..(n + m) /\ ~(n + k <= n) /\ (n + k) - n = k
    BY <1>1
  <2> QED  BY <1>3, <2>1, <2>2
<1>7. /\ order_lists' \in Seq(Seq(Nat))
      /\ \A l \in DOMAIN order_lists' : ToSet(order_lists'[l]) \subseteq Ids'
      /\ Pending' = Pending \cup (n + 2)..(n + m)
  <2>1. CASE UNCHANGED order_lists /\ m = 1
    <3>1. Pending' = Pending /\ (n + 2)..(n + m) = {}
      BY <1>1, <2>1 DEF Pending
    <3> QED  BY <1>1, <1>4, <2>1, <3>1
  <2>2. CASE order_lists' = Append(order_lists, NewIds(added))
    <3> DEFINE ids == NewIds(added)
               last == Len(order_lists) + 1
    <3>1. /\ ids \in Seq(Nat)
          /\ ToSet(ids) = (n + 1)..(n + m) /\ ToSet(Tail(ids)) = (n + 2)..(n + m)
      BY <1>1, PendingOfList
    <3> HIDE DEF ids
    <3>2. /\ order_lists' \in Seq(Seq(Nat)) /\ Len(order_lists') = last
          /\ \A l \in 1..Len(order_lists) : order_lists'[l] = order_lists[l]
          /\ order_lists'[last] = ids
          /\ DOMAIN order_lists = 1..Len(order_lists) /\ Len(order_lists) \in Nat
      BY <1>1, <2>2, <3>1, AppendProperties, LenProperties DEF ids
    <3>3. DOMAIN order_lists' = DOMAIN order_lists \cup {last} /\ last \notin DOMAIN order_lists
      BY <3>2, LenProperties
    <3>4. Pending' = Pending \cup ToSet(Tail(ids))
      BY <3>2, <3>3 DEF Pending
    <3>5. \A l \in DOMAIN order_lists' : ToSet(order_lists'[l]) \subseteq Ids'
      BY <1>1, <1>4, <3>1, <3>2, <3>3, SMTT(30)
    <3> QED  BY <3>1, <3>2, <3>4, <3>5
  <2> QED  BY <2>1, <2>2
<1> QED  BY <1>2, <1>3, <1>5, <1>6, <1>7, CommandPreserves

LEMMA EngineNext == EngineInv /\ [Next]_vars => EngineInv'
<1> SUFFICES ASSUME EngineInv, [Next]_vars PROVE EngineInv'
  OBVIOUS
<1> DEFINE n == Len(orders)
<1>0. n \in Nat
  BY Shape DEF EngineInv
<1>1. CASE BeginPass \/ SkipOrder \/ Returned \/ UNCHANGED vars
  BY <1>1, AlongPreserves
<1>2. CASE FillOrder
  BY <1>2, FillPreserves
<1>3. CASE EndPass
  BY <1>3, EndPassPreserves
<1>4. ASSUME NEW id, CancelOrder(id) PROVE EngineInv'
  BY <1>4, CancelPreserves DEF CancelOrder
<1>5. ASSUME NEW list, CancelOrderList(list) PROVE EngineInv'
  BY <1>5, CancelPreserves DEF CancelOrderList
<1>6. ASSUME NEW r \in Requests, NewOrder(r) PROVE EngineInv'
  <2> DEFINE added == <<MakeOrder(r, "New")>>
  <2>1. Linked(n, added) /\ Len(added) = 1
    BY <1>0, OneLinked
  <2> HIDE DEF added
  <2> QED  BY <1>6, <2>1, AddPreserves DEF NewOrder, added
<1>7. ASSUME NEW r \in Requests, NEW s \in Requests, NewOto(r, s) PROVE EngineInv'
  <2> DEFINE added == <<Triggers(MakeOrder(r, "New"), <<n + 2>>), MakeOrder(s, "PendingNew")>>
  <2>1. Linked(n, added)
    BY <1>0, OtoLinked
  <2>2. Add(added) /\ order_lists' = Append(order_lists, NewIds(added))
    BY <1>7 DEF NewOto, AddList
  <2> HIDE DEF added
  <2> QED  BY <2>1, <2>2, AddPreserves
<1>8. ASSUME NEW r \in Requests, NEW s \in Requests, NewOco(r, s) PROVE EngineInv'
  <2> DEFINE added == <<Cancels(MakeOrder(r, "New"), n + 2),
                        Cancels(MakeOrder(s, "PendingNew"), n + 1)>>
  <2>1. Linked(n, added)
    BY <1>0, OcoLinked
  <2>2. Add(added) /\ order_lists' = Append(order_lists, NewIds(added))
    BY <1>8 DEF NewOco, AddList
  <2> HIDE DEF added
  <2> QED  BY <2>1, <2>2, AddPreserves
<1>9. ASSUME NEW r \in Requests, NEW s \in Requests, NEW t \in Requests, NewOtoco(r, s, t)
      PROVE  EngineInv'
  <2> DEFINE added == <<Triggers(MakeOrder(r, "New"), <<n + 2, n + 3>>),
                        Cancels(MakeOrder(s, "PendingNew"), n + 3),
                        Cancels(MakeOrder(t, "PendingNew"), n + 2)>>
  <2>1. Linked(n, added)
    <3>1. {"New", "PendingNew"} \subseteq Statuses
      BY DEF Statuses
    <3> QED  BY <1>0, <3>1, OrderMade, BracketLinked
  <2>2. Add(added) /\ order_lists' = Append(order_lists, NewIds(added))
    BY <1>9 DEF NewOtoco, AddList
  <2> HIDE DEF added
  <2> QED  BY <2>1, <2>2, AddPreserves
<1> QED
  BY <1>1, <1>2, <1>3, <1>4, <1>5, <1>6, <1>7, <1>8, <1>9 DEF Next, Pass, AnyCommand

-----------------------------------------------------------------------------
(* Theorems *)

\* The inductive invariant, of every run of passes and commands.
THEOREM EngineInvariance == Spec => []EngineInv
BY EngineInit, EngineNext, PTL DEF Spec

\* Every id that an order links to, that a list names or that the queue holds is an
\* order's, and the position of the pass stays within one of the queue, however far
\* executions extend it (add_order and new_orders_, backtest_engine.cc lines 7-20).
THEOREM EngineTypes == Spec => []EngineTypeOK
<1>1. EngineInv => EngineTypeOK
  BY DEF EngineInv, ShapeInv
<1> QED  BY <1>1, EngineInvariance, PTL

\* No active order is lost from the queue and none is in it twice, although
\* executions append to the queue and a pass removes from it.
THEOREM NoneLost == Spec => []ActiveOrdersQueuedOnce
<1>1. EngineInv => ActiveOrdersQueuedOnce
  <2> SUFFICES ASSUME EngineInv, NEW id \in Ids, IsStatus(id, "New")
               PROVE  \E k \in DOMAIN new_orders :
                        \A m \in DOMAIN new_orders : new_orders[m] = id <=> m = k
    BY DEF ActiveOrdersQueuedOnce
  <2>1. PICK k \in DOMAIN new_orders : new_orders[k] = id
    BY DEF EngineInv, QueueInv, ToSet
  <2> QED  BY <2>1 DEF EngineInv, QueueInv
<1> QED  BY <1>1, EngineInvariance, PTL

\* No order executes twice, and of two orders that cancel each other one executes:
\* the canceled_orders of on_event(FillOrderEvent) keep what they are for.
THEOREM OneLeg == Spec => []OneLegExecutes
<1>1. EngineInv => OneLegExecutes
  <2> SUFFICES ASSUME EngineInv, NEW id \in Ids
               PROVE  /\ orders[id].fills <= 1
                      /\ orders[id].fills = 1 =>
                           \A other \in ToSet(orders[id].canceled) : orders[other].fills = 0
    BY DEF OneLegExecutes
  <2> QED  BY DEF EngineInv, StatusInv, Canceled
<1> QED  BY <1>1, EngineInvariance, PTL

\* An order of a list other than the first executes only after one that triggers it:
\* the status PendingNew holds, whatever is cancelled meanwhile.
THEOREM PendingWaits == Spec => []PendingWaitsForTrigger
<1>1. EngineInv => PendingWaitsForTrigger
  <2> SUFFICES ASSUME EngineInv, NEW l \in DOMAIN order_lists,
                      NEW p \in ToSet(Tail(order_lists[l])), orders[p].fills > 0
               PROVE  \E id \in Ids : Contains(orders[id].triggered, p) /\ orders[id].fills > 0
    BY DEF PendingWaitsForTrigger
  <2>1. p \in Pending /\ p \in Ids
    BY DEF Pending, EngineInv, LinksInv
  <2>2. Activated(p)
    BY <2>1 DEF EngineInv, WaitingInv
  <2> QED  BY <2>2, Shape DEF Activated, EngineInv
<1> QED  BY <1>1, EngineInvariance, PTL

-----------------------------------------------------------------------------
(* A pass is bounded *)

\* How many steps of the running pass there can still be.
PassStepsLeft == IF iter = 0 THEN 0 ELSE Len(orders) + 2 - iter

\* A queue that holds nothing twice is no longer than there are orders.
LEMMA QueueFits == EngineInv => Len(new_orders) <= Len(orders)
<1> SUFFICES ASSUME EngineInv PROVE Len(new_orders) <= Len(orders)
  OBVIOUS
<1> DEFINE n == Len(new_orders)
           m == Len(orders)
           queued == [k \in 1..n |-> new_orders[k]]
<1>1. /\ n \in Nat /\ m \in Nat /\ DOMAIN new_orders = 1..n
      /\ \A k \in 1..n : new_orders[k] \in 1..m
  BY Shape DEF EngineInv
<1>2. \A k, j \in 1..n : new_orders[k] = new_orders[j] => k = j
  BY <1>1 DEF EngineInv, QueueInv
<1> HIDE DEF n, m
<1>3. queued \in Injection(1..n, 1..m)
  BY <1>1, <1>2, Fun_IsInj
<1> HIDE DEF queued
<1>4. /\ IsFiniteSet(1..n) /\ Cardinality(1..n) = n
      /\ IsFiniteSet(1..m) /\ Cardinality(1..m) = m
  BY <1>1, FS_Interval
<1> QED  BY <1>3, <1>4, FS_Injection DEF n, m

\* A pass cannot go on for ever, nor longer than there are orders: while one runs
\* nothing else happens, and every step of it brings its end nearer, also a step that
\* appends to the queue it walks (the loop of update_new_orders, which compares
\* with the queue's end anew each time).
THEOREM PassIsBounded ==
  Spec => [][iter > 0 =>
               /\ PassStepsLeft \in 1..(Len(orders) + 1)
               /\ PassStepsLeft' \in 0..(PassStepsLeft - 1)]_vars
<1>1. EngineInv /\ [Next]_vars =>
        [iter > 0 =>
           /\ PassStepsLeft \in 1..(Len(orders) + 1)
           /\ PassStepsLeft' \in 0..(PassStepsLeft - 1)]_vars
  <2> SUFFICES ASSUME EngineInv, Next, iter > 0
               PROVE  /\ PassStepsLeft \in 1..(Len(orders) + 1)
                      /\ PassStepsLeft' \in 0..(PassStepsLeft - 1)
    OBVIOUS
  <2>1. /\ Len(orders) \in Nat /\ Len(new_orders) \in Nat
        /\ iter \in 1..(Len(new_orders) + 1) /\ Len(new_orders) <= Len(orders)
        /\ DOMAIN new_orders = 1..Len(new_orders)
    BY Shape, QueueFits DEF EngineInv
  <2>2. PassStepsLeft = Len(orders) + 2 - iter
    BY <2>1 DEF PassStepsLeft
  <2>3. Pass
    <3>1. ~AnyCommand
      <4>1. \A ids : ~Cancel(ids)
        BY <2>1 DEF Cancel
      <4>2. \A added : ~Add(added)
        BY <2>1 DEF Add
      <4> QED
        BY <4>1, <4>2, Zenon DEF AnyCommand, CancelOrder, CancelOrderList, NewOrder, NewOto,
           NewOco, NewOtoco, AddList
    <3> QED  BY <2>1, <3>1 DEF Next, BeginPass, Returned
  <2>4. CASE SkipOrder
    BY <2>1, <2>2, <2>4, SMTT(30) DEF SkipOrder, InPass, PassStepsLeft
  <2>5. CASE FillOrder
    <3>1. iter \in DOMAIN new_orders /\ iter' = iter + 1 /\ Ids' = Ids
      BY <2>5, FillEffect
    <3>2. DOMAIN orders' = 1..Len(orders') /\ Len(orders') \in Nat
      BY <2>5, FillPreserves, LenProperties DEF EngineInv, ShapeInv
    <3>3. DOMAIN orders = 1..Len(orders)
      BY Shape DEF EngineInv, Ids
    <3>4. Len(orders') = Len(orders)
      <4>1. \A a, b \in Nat : 1..a = 1..b => a = b
        <5>1. ASSUME NEW a \in Nat, NEW b \in Nat, 1..a = 1..b
              PROVE  a <= b
          <6>1. a = 0 \/ a \in 1..b
            BY <5>1
          <6> QED  BY <6>1
        <5> QED  BY <5>1
      <4> QED  BY ONLY <2>1, <3>1, <3>2, <3>3, <4>1 DEF Ids
    <3> QED  BY <2>1, <2>2, <3>1, <3>4 DEF PassStepsLeft
  <2>6. CASE EndPass
    BY <2>1, <2>2, <2>6 DEF EndPass, PassStepsLeft
  <2> QED  BY <2>3, <2>4, <2>5, <2>6 DEF Pass
<1> QED  BY <1>1, EngineInvariance, PTL DEF Spec
=============================================================================
