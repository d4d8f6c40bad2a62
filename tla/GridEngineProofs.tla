-------------------------- MODULE GridEngineProofs --------------------------
(***************************************************************************)
(* Theorems about GridEngine for any number of coroutines, with manual     *)
(* orders and exchange faults or without; GridSerialProofs has what needs  *)
(* engine calls that come one at a time.                                   *)
(***************************************************************************)
EXTENDS GridEngine, FiniteSetTheorems, WellFoundedInduction, TLAPS

(***************************************************************************)
(* The types, the numbers of the orders and what the levels name.          *)
(***************************************************************************)
Op == {"none", "activate", "pause", "resume", "close", "tick", "buyFilled", "forceBuy",
       "forceSell"}

TaskRecord ==
  [pc    : {"idle", "disarm", "disarmed", "call", "placed", "cancel", "cancelled", "clear"},
   op    : Op,
   rest  : SUBSET Action,
   id    : OrderId \cup {NoId},
   price : Price \cup {NoPrice}]

Types ==
  /\ grid \in DOMAIN GRID_TRANSITIONS
  /\ level \in [Level -> LevelRecord]
  /\ breaker \in Breaker(Day) /\ day \in Day
  /\ orders \in [OrderId -> OrderRecord \cup {Absent}]
  /\ task \in [Task -> TaskRecord]

Placed  == {i \in OrderId : orders[i].state # "absent"}
Gapless == \E n \in 0 .. MaxOrders : Placed = 1 .. n

(* A busy coroutine has something to do; the order it has placed is for    *)
(* the action at hand; a tick that disarms remembers its price.            *)
AtWork(t) ==
  /\ task[t].pc # "idle" <=> task[t].rest # {}
  /\ task[t].pc = "placed" =>
       /\ task[t].id \in OrderId
       /\ orders[task[t].id].level = Now(t).level /\ orders[task[t].id].side = Side(t)
  /\ task[t].pc \in {"disarm", "disarmed"} => task[t].price \in Price

NamesInv == Types /\ Gapless /\ NamesOwnOrders /\ \A t \in Task : AtWork(t)

(* What is known of a breaker. *)
Knows(b) ==
  /\ b \in Breaker(Day)
  /\ b.date # NoDate => b.open # NoPrice
  /\ b.triggered =>
       /\ b.date # NoDate /\ b.open # NoPrice /\ b.bottom # NoPrice
       /\ Dropped(b, b.bottom)

BreakerInv == NamesInv /\ Knows(breaker)

-----------------------------------------------------------------------------
(* Choosing the next action, and the next pending level.                   *)

(* A set of naturals that is not empty has a least member. *)
LEMMA LeastMember ==
  ASSUME NEW S \in SUBSET Nat, S # {}
  PROVE  \E p \in S : \A q \in S : p <= q
<1>1. IsWellFoundedOn(OpToRel(<, Nat), Nat)
  BY NatLessThanWellFounded
<1>2. PICK p \in S : \A q \in S : ~(<<q, p>> \in OpToRel(<, Nat))
  BY <1>1, WFMin
<1>3. ASSUME NEW q \in S PROVE p <= q
  <2>1. ~(q < p)
    BY <1>2 DEF OpToRel
  <2> QED
    BY <2>1
<1> QED
  BY <1>3

(* The next action of a plan is one of its actions. *)
LEMMA HeadOfPlan ==
  ASSUME NEW rest \in SUBSET Action, rest # {}
  PROVE  Head(rest) \in rest /\ Head(rest) \in Action
<1> DEFINE S == {a.level : a \in rest}
<1>1. S \in SUBSET Nat /\ S # {}
  BY LevelAssumption DEF Action
<1>2. PICK p \in S : \A q \in S : p <= q
  BY <1>1, LeastMember
<1>3. PICK a \in rest : a.level = p
  OBVIOUS
<1>4. \A b \in rest : a.level <= b.level
  BY <1>2, <1>3
<1> QED
  BY <1>3, <1>4 DEF Head

(* So is the next pending level one of them. *)
LEMMA LeastPending ==
  ASSUME NEW ls \in SUBSET Level, \E l \in ls : Pending(l)
  PROVE  (CHOOSE k \in {j \in ls : Pending(j)} : \A m \in {j \in ls : Pending(j)} : k <= m)
           \in {j \in ls : Pending(j)}
<1> DEFINE S == {j \in ls : Pending(j)}
<1>1. S \in SUBSET Nat /\ S # {}
  BY LevelAssumption
<1>2. PICK p \in S : \A q \in S : p <= q
  BY <1>1, LeastMember
<1> QED
  BY <1>2

(* The records of the state. *)
LEMMA Fields ==
  ASSUME Types
  PROVE  /\ \A t \in Task :
              /\ task[t] \in TaskRecord /\ task[t].rest \in SUBSET Action
              /\ task[t].id \in OrderId \cup {NoId}
         /\ \A l \in Level :
              /\ level[l] \in LevelRecord
              /\ level[l].buy \in OrderId \cup {NoId} /\ level[l].sell \in OrderId \cup {NoId}
              /\ level[l].status \in {"WAITING", "OPEN", "FILLED", "TP_HIT", "CANCELLED"}
         /\ \A i \in OrderId : orders[i].state # "absent" <=> orders[i] \in OrderRecord
         /\ \A i \in OrderId : orders[i].side \in {"buy", "sell"} => orders[i] \in OrderRecord
         /\ NoId \notin OrderId
<1>1. NoId \notin OrderId
  BY DEF NoId, OrderId
<1> QED
  BY <1>1 DEF Types, TaskRecord, LevelRecord, OrderRecord, Absent

(* The plans are sets of actions. *)
LEMMA Plans ==
  ASSUME Types
  PROVE  /\ \A price, skip : Buys(price, skip) \in SUBSET Action
         /\ \A price : Sells(price) \in SUBSET Action /\ PlanInitial(price) \in SUBSET Action
         /\ PlanCancelAll \in SUBSET Action
         /\ \A l \in Level : \A k \in {"buy", "sell", "forceBuy", "forceSell"} : Do(l, k) \in Action
         /\ \A l \in Level, i \in OrderId : Undo(l, "cancelBuy", i) \in Action
<1>1. \A l \in Level : \A k \in {"buy", "sell", "forceBuy", "forceSell"} : Do(l, k) \in Action
  BY DEF Do, Action
<1>2. \A l \in Level, i \in OrderId \cup {NoId} :
        Undo(l, "cancelBuy", i) \in Action /\ Undo(l, "cancelSell", i) \in Action
  BY DEF Undo, Action
<1>3. PlanCancelAll \in SUBSET Action
  BY <1>2, Fields DEF PlanCancelAll
<1> QED
  BY <1>1, <1>2, <1>3 DEF Buys, Sells, PlanInitial

(* The first call of a plan. *)
LEMMA BeginType ==
  ASSUME Types, NEW rest \in SUBSET Action, rest # {},
         NEW op \in Op
  PROVE  /\ Begin(op, rest) \in TaskRecord
         /\ Begin(op, rest).pc \in {"cancel", "clear", "call"}
         /\ Begin(op, rest).op = op /\ Begin(op, rest).rest = rest
<1> DEFINE a == Head(rest)
<1>1. a \in Action /\ Named(a) \in OrderId \cup {NoId} /\ a.id \in OrderId \cup {NoId}
  BY HeadOfPlan, Fields DEF Named, Action
<1>2. Begin(op, rest) =
        IF a.kind \in {"cancelBuy", "cancelSell"}
        THEN [Idle EXCEPT !.pc = "cancel", !.op = op, !.rest = rest, !.id = a.id]
        ELSE IF a.kind \in {"forceBuy", "forceSell"} /\ Named(a) # NoId
        THEN [Idle EXCEPT !.pc = "clear", !.op = op, !.rest = rest, !.id = Named(a)]
        ELSE [Idle EXCEPT !.pc = "call", !.op = op, !.rest = rest]
  BY DEF Begin
<1> HIDE DEF a
<1> QED
  BY <1>1, <1>2 DEF Idle, TaskRecord, Op

LEMMA IdleType == Idle \in TaskRecord /\ Idle.pc = "idle" /\ Idle.rest = {} /\ Idle.op = "none"
                    /\ Idle.id = NoId
BY DEF Idle, TaskRecord, Op

(* How a coroutine goes on. *)
LEMMA ContinueEffect ==
  ASSUME Types, NEW t \in Task, NEW rest \in SUBSET Action,
         NEW status \in DOMAIN GRID_TRANSITIONS,
         NEW op \in Op,
         Continue(t, op, rest, status)
  PROVE  /\ task' \in [Task -> TaskRecord] /\ \A u \in Task \ {t} : task'[u] = task[u]
         /\ grid' \in DOMAIN GRID_TRANSITIONS
         /\ task'[t].rest = rest /\ task'[t].pc \in {"idle", "cancel", "clear", "call"}
         /\ task'[t].pc # "idle" <=> rest # {}
         /\ rest = {} => task'[t] = Idle
         /\ rest # {} => task'[t] = Begin(op, rest)
<1>1. task \in [Task -> TaskRecord]
  BY DEF Types
<1>2. grid' \in DOMAIN GRID_TRANSITIONS
  BY DEF Continue, GRID_TRANSITIONS
<1>3. CASE rest = {}
  <2>1. task' = [task EXCEPT ![t] = Idle]
    BY <1>3 DEF Continue
  <2> QED
    BY <1>1, <1>2, <1>3, <2>1, IdleType
<1>4. CASE rest # {}
  <2>1. task' = [task EXCEPT ![t] = Begin(op, rest)]
    BY <1>4 DEF Continue
  <2>2. /\ Begin(op, rest) \in TaskRecord /\ Begin(op, rest).pc \in {"cancel", "clear", "call"}
        /\ Begin(op, rest).rest = rest
    BY <1>4, BeginType
  <2> QED
    BY <1>1, <1>2, <1>4, <2>1, <2>2
<1> QED
  BY <1>3, <1>4

-----------------------------------------------------------------------------
(* What a step does to the orders and the names.                           *)

(* The orders placed keep their level and their side. *)
OrdersGrow ==
  \A i \in Placed : orders'[i].level = orders[i].level /\ orders'[i].side = orders[i].side

(* A name is kept, dropped, or that of an order of the level.              *)
NamesMove ==
  \A l \in Level :
    /\ level'[l].buy \in {level[l].buy, NoId}
         \/ (orders'[level'[l].buy].level = l /\ orders'[level'[l].buy].side = "buy")
    /\ level'[l].sell \in {level[l].sell, NoId}
         \/ (orders'[level'[l].sell].level = l /\ orders'[level'[l].sell].side = "sell")

(* What a level names, and what a coroutine has placed, exists. *)
LEMMA NamedIsPlaced ==
  ASSUME NamesInv
  PROVE  /\ \A l \in Level : /\ level[l].buy # NoId => level[l].buy \in Placed
                             /\ level[l].sell # NoId => level[l].sell \in Placed
         /\ \A t \in Task : task[t].pc = "placed" => task[t].id \in Placed
<1>1. Types /\ NamesOwnOrders /\ \A t \in Task : AtWork(t)
  BY DEF NamesInv
<1>2. \A t \in Task : Side(t) \in {"buy", "sell"}
  BY DEF Side
<1> QED
  BY <1>1, <1>2, Fields DEF NamesOwnOrders, AtWork, Placed

LEMMA NamesKept ==
  ASSUME NamesInv, Types', Gapless', OrdersGrow, NamesMove,
         \A t \in Task : task'[t] = task[t] \/ AtWork(t)'
  PROVE  NamesInv'
<1>1. NamesOwnOrders'
  BY NamedIsPlaced DEF NamesMove, NamesInv, NamesOwnOrders, OrdersGrow
<1>2. ASSUME NEW t \in Task, task'[t] = task[t] PROVE AtWork(t)'
  <2>1. Now(t)' = Now(t) /\ Side(t)' = Side(t)
    BY <1>2 DEF Now, Side
  <2>2. AtWork(t)
    BY DEF NamesInv
  <2>3. task[t].pc = "placed" => task[t].id \in Placed
    BY NamedIsPlaced
  <2> QED
    BY <1>2, <2>1, <2>2, <2>3 DEF AtWork, OrdersGrow
<1> QED
  BY <1>1, <1>2 DEF NamesInv

(* The number the exchange gives an order is not in use. *)
LEMMA NextIdFree ==
  ASSUME Gapless, NextId \in OrderId
  PROVE  NextId \notin Placed /\ Placed \cup {NextId} = 1 .. NextId
<1>1. PICK n \in 0 .. MaxOrders : Placed = 1 .. n
  BY DEF Gapless
<1>2. Cardinality(Placed) = n
  BY <1>1, FS_Interval, BoundAssumption
<1>3. NextId = n + 1
  BY <1>2, BoundAssumption DEF NextId, Placed
<1> QED
  BY <1>1, <1>3, BoundAssumption

(* A step that leaves the set of orders alone. *)
LEMMA SameOrders ==
  ASSUME Types, Gapless,
         \A i \in OrderId :
           /\ orders'[i].level = orders[i].level /\ orders'[i].side = orders[i].side
           /\ orders'[i].state = "absent" <=> orders[i].state = "absent"
  PROVE  OrdersGrow /\ Gapless' /\ Placed' = Placed
<1>1. Placed' = Placed
  BY DEF Placed
<1>2. OrdersGrow
  BY DEF OrdersGrow, Placed
<1>3. Gapless'
  BY <1>1 DEF Gapless
<1> QED
  BY <1>1, <1>2, <1>3

(* The exchange changes the state of an order, or reports it.              *)
LEMMA WithdrawEffect ==
  ASSUME Types, NEW i \in OrderId \cup {NoId}, Withdraw(i)
  PROVE  /\ orders' \in [OrderId -> OrderRecord \cup {Absent}]
         /\ \A j \in OrderId :
              /\ orders'[j].level = orders[j].level /\ orders'[j].side = orders[j].side
              /\ orders'[j].told = orders[j].told
              /\ orders'[j].state = IF j = i /\ orders[j].state = "live" THEN "cancelled"
                                    ELSE orders[j].state
              /\ j # i => orders'[j] = orders[j]
<1>1. orders \in [OrderId -> OrderRecord \cup {Absent}]
  BY DEF Types
<1>2. CASE i \notin OrderId
  <2>1. orders' = orders
    BY <1>1, <1>2 DEF Withdraw
  <2> QED
    BY <1>1, <1>2, <2>1
<1>3. CASE i \in OrderId
  <2> DEFINE o == [orders[i] EXCEPT !.state = IF orders[i].state = "live" THEN "cancelled"
                                              ELSE orders[i].state]
  <2>1. orders' = [orders EXCEPT ![i] = o]
    BY <1>1, <1>3 DEF Withdraw
  <2>2. /\ o \in OrderRecord \cup {Absent} /\ o.level = orders[i].level
        /\ o.side = orders[i].side /\ o.told = orders[i].told
        /\ o.state = IF orders[i].state = "live" THEN "cancelled" ELSE orders[i].state
    <3>1. orders[i] = Absent \/ orders[i] \in OrderRecord
      BY <1>1, <1>3
    <3>2. CASE orders[i] = Absent
      BY <3>2 DEF Absent
    <3>3. CASE orders[i] \in OrderRecord
      BY <3>3 DEF OrderRecord
    <3> QED
      BY <3>1, <3>2, <3>3
  <2> HIDE DEF o
  <2> QED
    BY <1>1, <1>3, <2>1, <2>2
<1> QED
  BY <1>2, <1>3

LEMMA FillsEffect ==
  ASSUME Types, NEW i \in OrderId, OrderFills(i)
  PROVE  /\ orders' \in [OrderId -> OrderRecord \cup {Absent}]
         /\ orders[i] \in OrderRecord /\ orders[i].state = "live"
         /\ orders'[i].level = orders[i].level /\ orders'[i].side = orders[i].side
         /\ orders'[i].told = orders[i].told /\ orders'[i].state = "filled"
         /\ \A j \in OrderId \ {i} : orders'[j] = orders[j]
<1>1. orders \in [OrderId -> OrderRecord \cup {Absent}] /\ orders[i].state = "live"
  BY DEF Types, OrderFills
<1>2. orders[i] \in OrderRecord
  BY <1>1, Fields
<1> DEFINE o == [orders[i] EXCEPT !.state = "filled"]
<1>3. orders' = [orders EXCEPT ![i] = o]
  BY <1>1 DEF OrderFills
<1>4. /\ o \in OrderRecord /\ o.level = orders[i].level /\ o.side = orders[i].side
      /\ o.told = orders[i].told /\ o.state = "filled"
  BY <1>2 DEF OrderRecord
<1> HIDE DEF o
<1> QED
  BY <1>1, <1>2, <1>3, <1>4

LEMMA ToldEffect ==
  ASSUME Types, NEW i \in OrderId, orders[i].state = "filled", Told(i)
  PROVE  /\ orders' \in [OrderId -> OrderRecord \cup {Absent}]
         /\ orders[i] \in OrderRecord /\ orders'[i].told
         /\ orders'[i].level = orders[i].level /\ orders'[i].side = orders[i].side
         /\ orders'[i].state = orders[i].state
         /\ \A j \in OrderId \ {i} : orders'[j] = orders[j]
<1>1. orders \in [OrderId -> OrderRecord \cup {Absent}]
  BY DEF Types
<1>2. orders[i] \in OrderRecord
  BY <1>1, Fields
<1> DEFINE o == [orders[i] EXCEPT !.told = TRUE]
<1>3. orders' = [orders EXCEPT ![i] = o]
  BY <1>1 DEF Told
<1>4. /\ o \in OrderRecord /\ o.level = orders[i].level /\ o.side = orders[i].side
      /\ o.told = TRUE /\ o.state = orders[i].state
  BY <1>2 DEF OrderRecord
<1> HIDE DEF o
<1> QED
  BY <1>1, <1>2, <1>3, <1>4

(* The exchange takes a new order, for the action at hand. *)
LEMMA PlacesEffect ==
  ASSUME NamesInv, NEW t \in Task, ExchangePlaces(t)
  PROVE  /\ orders' \in [OrderId -> OrderRecord \cup {Absent}]
         /\ NextId \in OrderId \ Placed /\ Gapless' /\ OrdersGrow
         /\ Now(t) \in task[t].rest /\ Now(t) \in Action
         /\ orders'[NextId] = [level |-> Now(t).level, side |-> Side(t), state |-> "live",
                               told |-> FALSE]
         /\ \A j \in OrderId \ {NextId} : orders'[j] = orders[j]
         /\ task' \in [Task -> TaskRecord] /\ \A u \in Task \ {t} : task'[u] = task[u]
         /\ task'[t].pc = "placed" /\ task'[t].id = NextId
         /\ task'[t].rest = task[t].rest /\ task'[t].op = task[t].op
<1>1. /\ Types /\ Gapless /\ NextId \in OrderId /\ NextId \notin Placed
      /\ Placed \cup {NextId} = 1 .. NextId
  BY NextIdFree DEF NamesInv, ExchangePlaces
<1> DEFINE n == NextId
           o == [level |-> Now(t).level, side |-> Side(t), state |-> "live", told |-> FALSE]
           rec == [task[t] EXCEPT !.pc = "placed", !.id = n]
<1>2. Now(t) \in task[t].rest /\ Now(t) \in Action
  <2>1. task[t].rest \in SUBSET Action /\ task[t].rest # {}
    BY <1>1, Fields DEF NamesInv, AtWork, ExchangePlaces
  <2> QED
    BY <2>1, HeadOfPlan DEF Now
<1>3. o \in OrderRecord /\ o.state = "live"
  BY <1>2 DEF OrderRecord, Action, Side
<1>4. /\ rec \in TaskRecord /\ rec.pc = "placed" /\ rec.id = n /\ rec.rest = task[t].rest
      /\ rec.op = task[t].op
  BY <1>1, Fields DEF TaskRecord
<1>5. /\ orders' = [orders EXCEPT ![n] = o] /\ task' = [task EXCEPT ![t] = rec]
      /\ orders \in [OrderId -> OrderRecord \cup {Absent}] /\ task \in [Task -> TaskRecord]
  BY <1>1 DEF ExchangePlaces, Types
<1>6. n = NextId /\ o = [level |-> Now(t).level, side |-> Side(t), state |-> "live",
                         told |-> FALSE]
  OBVIOUS
<1> HIDE DEF n, o, rec
<1>7. /\ orders' \in [OrderId -> OrderRecord \cup {Absent}]
      /\ orders'[n] = o /\ \A j \in OrderId \ {n} : orders'[j] = orders[j]
  BY <1>1, <1>3, <1>5, <1>6
<1>8. /\ task' \in [Task -> TaskRecord] /\ \A u \in Task \ {t} : task'[u] = task[u]
      /\ task'[t] = rec
  BY <1>4, <1>5
<1>9. Placed' = 1 .. n
  <2>1. Placed' = Placed \cup {n}
    BY <1>1, <1>3, <1>6, <1>7 DEF Placed
  <2> QED
    BY <1>1, <1>6, <2>1
<1>10. Gapless'
  BY <1>1, <1>6, <1>9, BoundAssumption DEF Gapless, OrderId
<1>11. OrdersGrow
  BY <1>1, <1>6, <1>7 DEF OrdersGrow, Placed
<1> QED
  BY <1>1, <1>2, <1>4, <1>6, <1>7, <1>8, <1>10, <1>11

-----------------------------------------------------------------------------
(* The breaker.                                                            *)

LEMMA BreakerFields ==
  ASSUME NEW b, Knows(b)
  PROVE  /\ b.mode \in ResumeMode \cup {"none"} /\ b.triggered \in BOOLEAN
         /\ b.date \in Day \cup {NoDate} /\ b.open \in Price \cup {NoPrice}
         /\ b.bottom \in Price \cup {NoPrice}
         /\ b.open \in Nat /\ b.bottom \in Nat
<1>1. /\ b.mode \in ResumeMode \cup {"none"} /\ b.triggered \in BOOLEAN
      /\ b.date \in Day \cup {NoDate} /\ b.open \in Price \cup {NoPrice}
      /\ b.bottom \in Price \cup {NoPrice}
  BY DEF Knows, Breaker
<1>2. Price \cup {NoPrice} \subseteq Nat
  BY PriceAssumption DEF NoPrice
<1> QED
  BY <1>1, <1>2

(* A new day clears the breaker; the first only dates it. *)
LEMMA NewDayKnows ==
  ASSUME NEW b, Knows(b), NEW price \in Price, NEW today \in Day
  PROVE  /\ Knows(CheckNewDay(b, price, today))
         /\ CheckNewDay(b, price, today).date = today
         /\ CheckNewDay(b, price, today).date # NoDate
         /\ CheckNewDay(b, price, today).open # NoPrice
         /\ CheckNewDay(b, price, today).mode = b.mode
<1> DEFINE c == CheckNewDay(b, price, today)
<1>0. price # NoPrice /\ today # NoDate /\ b \in Breaker(Day)
  BY PriceAssumption DEF NoPrice, NoDate, Day, Knows
<1>1. CASE b.date = today
  <2>1. c = b
    BY <1>1 DEF CheckNewDay
  <2> QED
    BY <1>0, <1>1, <2>1 DEF Knows
<1>2. CASE b.date # today /\ b.date = NoDate
  <2> DEFINE d == [b EXCEPT !.date = today,
                            !.open = IF b.open = NoPrice THEN price ELSE b.open]
  <2>1. c = d
    BY <1>2 DEF CheckNewDay
  <2>2. /\ d \in Breaker(Day) /\ d.date = today /\ d.open # NoPrice /\ d.mode = b.mode
        /\ d.triggered = b.triggered
    BY <1>0 DEF Breaker
  <2>3. ~b.triggered
    BY <1>2 DEF Knows
  <2> QED
    BY <1>0, <2>1, <2>2, <2>3 DEF Knows
<1>3. CASE b.date # today /\ b.date # NoDate
  <2> DEFINE d == [b EXCEPT !.date = today, !.open = price,
                            !.triggered = FALSE, !.bottom = NoPrice]
  <2>1. c = d
    BY <1>3 DEF CheckNewDay
  <2>2. /\ d \in Breaker(Day) /\ d.date = today /\ d.open # NoPrice /\ d.mode = b.mode
        /\ d.triggered = FALSE
    BY <1>0 DEF Breaker
  <2> QED
    BY <1>0, <2>1, <2>2 DEF Knows
<1> QED
  BY <1>1, <1>2, <1>3

(* A drop to the threshold triggers it at that price. *)
LEMMA TriggerKnows ==
  ASSUME NEW b, Knows(b), NEW price \in Price, b.date # NoDate, b.open # NoPrice,
         ShouldTrigger(b, price)
  PROVE  /\ Knows(Trigger(b, price)) /\ Trigger(b, price).triggered
         /\ Trigger(b, price).mode = b.mode
<1> DEFINE d == Trigger(b, price)
<1>1. Dropped(b, price) /\ b \in Breaker(Day) /\ price # NoPrice
  BY PriceAssumption DEF ShouldTrigger, Knows, NoPrice
<1>2. /\ d \in Breaker(Day) /\ d.triggered = TRUE /\ d.bottom = price /\ d.date = b.date
      /\ d.open = b.open /\ d.mode = b.mode
  BY <1>1 DEF Trigger, Breaker
<1> HIDE DEF d
<1>3. Dropped(d, price)
  BY <1>1, <1>2 DEF Dropped
<1> QED
  BY <1>1, <1>2, <1>3 DEF Knows, d

(* A lower price of a triggered breaker is a deeper drop. *)
LEMMA BottomKnows ==
  ASSUME NEW b, Knows(b), NEW price \in Price
  PROVE  /\ Knows(UpdateBottom(b, price))
         /\ UpdateBottom(b, price).triggered = b.triggered
         /\ UpdateBottom(b, price).mode = b.mode
<1>0. b \in Breaker(Day) /\ price # NoPrice /\ price \in Nat
  BY PriceAssumption DEF Knows, NoPrice
<1>1. CASE b.triggered /\ (b.bottom = NoPrice \/ price < b.bottom)
  <2> DEFINE d == [b EXCEPT !.bottom = price]
  <2>1. UpdateBottom(b, price) = d
    BY <1>1 DEF UpdateBottom
  <2>2. /\ d \in Breaker(Day) /\ d.triggered = b.triggered /\ d.bottom = price
        /\ d.date = b.date /\ d.open = b.open /\ d.mode = b.mode
    BY <1>0 DEF Breaker
  <2> HIDE DEF d
  <2>3. Dropped(b, b.bottom) /\ price < b.bottom /\ b.open \in Nat /\ b.bottom \in Nat
    BY <1>1, BreakerFields DEF Knows
  <2>4. Dropped(b, price)
    <3> DEFINE x == Threshold * b.open
    <3>1. b.bottom <= b.open /\ (b.open - b.bottom) * 100 >= x
      BY <2>3 DEF Dropped
    <3>2. x \in Nat
      BY <2>3, PercentAssumption
    <3> HIDE DEF x
    <3>3. price <= b.open /\ (b.open - price) * 100 >= x
      BY <1>0, <2>3, <3>1, <3>2
    <3> QED
      BY <3>3 DEF Dropped, x
  <2>5. Dropped(d, price)
    BY <2>2, <2>4 DEF Dropped
  <2> QED
    BY <1>0, <1>1, <2>1, <2>2, <2>5 DEF Knows
<1>2. CASE ~(b.triggered /\ (b.bottom = NoPrice \/ price < b.bottom))
  BY <1>2 DEF UpdateBottom
<1> QED
  BY <1>1, <1>2

LEMMA ResetKnows ==
  ASSUME NEW b, Knows(b)
  PROVE  Knows(Reset(b)) /\ ~Reset(b).triggered /\ Reset(b).mode = b.mode
<1> DEFINE d == [b EXCEPT !.triggered = FALSE]
<1>1. b \in Breaker(Day)
  BY DEF Knows
<1>2. /\ d \in Breaker(Day) /\ d.triggered = FALSE /\ d.date = b.date /\ d.open = b.open
      /\ d.mode = b.mode
  BY <1>1 DEF Breaker
<1> QED
  BY <1>2 DEF Knows, Reset

(* What a tick decides: to sell what it holds, and to buy nothing, or everywhere (not tripped, *)
(* the breaker at rest), or on the widened levels only.                                        *)
TickPlans(t, price, tripped) ==
  \E bids : /\ \/ bids = {}
               \/ bids = Buys(price, {}) /\ ~tripped /\ ~breaker'.triggered
               \/ /\ bids = Buys(price, {l \in Level : l % Widen # 0})
                  /\ ~tripped /\ breaker'.mode = "widen_step"
            /\ bids \cup Sells(price) \in SUBSET Action
            /\ Continue(t, "tick", bids \cup Sells(price), grid)

LEMMA DecideEffect ==
  ASSUME Types, NEW t \in Task, NEW price \in Price, NEW b, Knows(b), NEW tripped \in BOOLEAN,
         Decide(t, price, b, tripped)
  PROVE  Knows(breaker') /\ TickPlans(t, price, tripped)
<1> DEFINE low  == UpdateBottom(b, price)
           skip == IF b.triggered /\ b.mode = "widen_step"
                   THEN {l \in Level : l % Widen # 0} ELSE {}
           resumes(ta) == /\ b.triggered
                          /\ IF b.mode = "trailing_buy" THEN ShouldResumeTrailing(low, price) ELSE ta
           buying(ta) == /\ ~tripped
                         /\ IF b.triggered THEN b.mode = "widen_step" \/ resumes(ta) ELSE ta
           bids(ta) == IF buying(ta) THEN Buys(price, skip) ELSE {}
<1>1. PICK ta \in BOOLEAN :
        /\ breaker' = IF resumes(ta) THEN Reset(low) ELSE low
        /\ Continue(t, "tick", bids(ta) \cup Sells(price), grid)
  BY Zenon DEF Decide
<1>2. /\ Knows(low) /\ low.triggered = b.triggered /\ low.mode = b.mode
      /\ Knows(Reset(low)) /\ ~Reset(low).triggered /\ Reset(low).mode = b.mode
  BY BottomKnows, ResetKnows
<1>3. /\ Knows(breaker') /\ breaker'.mode = b.mode
      /\ resumes(ta) \/ ~b.triggered => ~breaker'.triggered
  <2> HIDE DEF low, resumes
  <2> QED
    BY <1>1, <1>2
<1>4. bids(ta) \cup Sells(price) \in SUBSET Action
  BY Plans
<1>5. \/ bids(ta) = {}
      \/ bids(ta) = Buys(price, {}) /\ ~tripped /\ ~breaker'.triggered
      \/ /\ bids(ta) = Buys(price, {l \in Level : l % Widen # 0})
         /\ ~tripped /\ breaker'.mode = "widen_step"
  <2>1. CASE b.triggered /\ b.mode = "widen_step" /\ ~tripped
    <3>1. skip = {l \in Level : l % Widen # 0} /\ buying(ta)
      BY <2>1
    <3> HIDE DEF skip, buying
    <3> QED
      BY <1>3, <2>1, <3>1
  <2>2. CASE ~(b.triggered /\ b.mode = "widen_step") /\ buying(ta)
    <3>1. skip = {} /\ (resumes(ta) \/ ~b.triggered) /\ ~tripped
      BY <2>2
    <3> HIDE DEF skip, buying, resumes
    <3> QED
      BY <1>3, <2>2, <3>1
  <2>3. CASE ~buying(ta)
    BY <2>3
  <2> QED
    BY <2>1, <2>2, <2>3
<1> QED
  BY <1>1, <1>3, <1>4, <1>5 DEF TickPlans

-----------------------------------------------------------------------------
(* Every step keeps names and breaker.                                     *)

(* What the coroutine is told to cancel next when it disarms. *)
LEMMA DisarmEffect ==
  ASSUME Types, NEW t \in Task, NEW price \in Price, NEW ls \in SUBSET Level,
         \E l \in ls : Pending(l), Disarm(t, price, ls)
  PROVE  /\ task' \in [Task -> TaskRecord] /\ \A u \in Task \ {t} : task'[u] = task[u]
         /\ task'[t].pc = "disarm" /\ task'[t].op = "tick" /\ task'[t].price = price
         /\ task'[t].rest # {}
         /\ \A a \in task'[t].rest : a.kind = "cancelBuy"
<1> DEFINE l == CHOOSE k \in {j \in ls : Pending(j)} : \A m \in {j \in ls : Pending(j)} : k <= m
           a == Undo(l, "cancelBuy", level[l].buy)
           rec == [Idle EXCEPT !.pc = "disarm", !.op = "tick", !.price = price,
                               !.id = level[l].buy, !.rest = {a}]
<1>1. l \in ls /\ Pending(l)
  BY LeastPending
<1>2. task' = [task EXCEPT ![t] = rec] /\ task \in [Task -> TaskRecord]
  BY DEF Disarm, Types
<1> HIDE DEF l
<1>3. level[l].buy \in OrderId
  BY <1>1, Fields DEF Pending
<1>4. a \in Action /\ a.kind = "cancelBuy"
  BY <1>1, <1>3 DEF Undo, Action
<1> HIDE DEF a
<1>5. /\ rec \in TaskRecord /\ rec.pc = "disarm" /\ rec.op = "tick" /\ rec.price = price
      /\ rec.rest = {a}
  BY <1>3, <1>4 DEF Idle, TaskRecord, Op
<1> HIDE DEF rec
<1>6. /\ task' \in [Task -> TaskRecord] /\ \A u \in Task \ {t} : task'[u] = task[u]
      /\ task'[t] = rec
  BY <1>2, <1>5
<1> QED
  BY <1>4, <1>5, <1>6

(* A step of a coroutine t that leaves orders and levels alone, and after  *)
(* which t has not placed anything.                                        *)
LEMMA QuietStep ==
  ASSUME BreakerInv, NEW t \in Task, UNCHANGED <<level, orders, day>>,
         task' \in [Task -> TaskRecord], \A u \in Task \ {t} : task'[u] = task[u],
         task'[t].pc # "idle" <=> task'[t].rest # {},
         task'[t].pc # "placed",
         task'[t].pc \in {"disarm", "disarmed"} => task'[t].price \in Price,
         grid' \in DOMAIN GRID_TRANSITIONS, Knows(breaker')
  PROVE  BreakerInv'
<1>1. Types'
  BY DEF BreakerInv, NamesInv, Types, Knows
<1>2. OrdersGrow /\ Gapless' /\ NamesMove
  BY DEF OrdersGrow, NamesMove, BreakerInv, NamesInv, Gapless, Placed
<1>3. AtWork(t)'
  BY DEF AtWork
<1>4. \A u \in Task : task'[u] = task[u] \/ AtWork(u)'
  BY <1>3
<1>5. NamesInv'
  BY <1>1, <1>2, <1>4, NamesKept DEF BreakerInv
<1> QED
  BY <1>5 DEF BreakerInv, Knows

(* Calls that only make a plan. *)
LEMMA ContinuesKeep ==
  ASSUME BreakerInv, NEW t \in Task, UNCHANGED <<level, orders, day>>,
         NEW rest \in SUBSET Action, NEW status \in DOMAIN GRID_TRANSITIONS,
         NEW op \in Op,
         Continue(t, op, rest, status), Knows(breaker')
  PROVE  BreakerInv'
<1>1. /\ task' \in [Task -> TaskRecord] /\ \A u \in Task \ {t} : task'[u] = task[u]
      /\ grid' \in DOMAIN GRID_TRANSITIONS
      /\ task'[t].rest = rest /\ task'[t].pc \in {"idle", "cancel", "clear", "call"}
      /\ task'[t].pc # "idle" <=> rest # {}
  BY ContinueEffect DEF BreakerInv, NamesInv
<1> QED
  BY <1>1, QuietStep

LEMMA CallsKeep ==
  ASSUME BreakerInv, NEW t \in Task,
         \/ \E price \in Price : ResumeGrid(t, price) \/ ActivateGrid(t, price)
         \/ PauseGrid(t) \/ CloseAllGridOrders(t)
         \/ \E l \in Level : ForceBuy(t, l)
         \/ ForceSell(t)
  PROVE  BreakerInv'
<1>1. /\ Types /\ Knows(breaker) /\ grid \in DOMAIN GRID_TRANSITIONS
      /\ "active" \in DOMAIN GRID_TRANSITIONS
  BY DEF BreakerInv, NamesInv, Types, GRID_TRANSITIONS
<1>2. ASSUME NEW price \in Price, ResumeGrid(t, price) PROVE BreakerInv'
  <2>1. Plan(price, {}) \in SUBSET Action
    BY <1>1, Plans DEF Plan
  <2>2. Knows(breaker')
    BY <1>1, <1>2 DEF ResumeGrid
  <2> QED
    BY <1>1, <1>2, <2>1, <2>2, ContinuesKeep DEF ResumeGrid, Op
<1>3. ASSUME NEW price \in Price, ActivateGrid(t, price) PROVE BreakerInv'
  <2>1. PlanInitial(price) \in SUBSET Action
    BY <1>1, Plans
  <2>2. Knows(breaker')
    BY <1>1, <1>3 DEF ActivateGrid
  <2> QED
    BY <1>1, <1>3, <2>1, <2>2, ContinuesKeep DEF ActivateGrid, Op
<1>4. CASE PauseGrid(t)
  <2>1. PlanCancelAll \in SUBSET Action /\ Knows(breaker')
    BY <1>1, <1>4, Plans DEF PauseGrid
  <2> QED
    BY <1>1, <1>4, <2>1, ContinuesKeep DEF PauseGrid, Op
<1>5. CASE CloseAllGridOrders(t)
  <2>1. PlanCancelAll \in SUBSET Action /\ Knows(breaker')
    BY <1>1, <1>5, Plans DEF CloseAllGridOrders
  <2> QED
    BY <1>1, <1>5, <2>1, ContinuesKeep DEF CloseAllGridOrders, Op
<1>6. ASSUME NEW l \in Level, ForceBuy(t, l) PROVE BreakerInv'
  <2>1. {Do(l, "forceBuy")} \in SUBSET Action /\ Knows(breaker')
    BY <1>1, <1>6, Plans DEF ForceBuy
  <2> QED
    BY <1>1, <1>6, <2>1, ContinuesKeep DEF ForceBuy, Op
<1>7. CASE ForceSell(t)
  <2>1. PICK ls \in SUBSET Level : Continue(t, "forceSell", {Do(l, "forceSell") : l \in ls}, grid)
    BY <1>7 DEF ForceSell
  <2>2. {Do(l, "forceSell") : l \in ls} \in SUBSET Action /\ Knows(breaker')
    BY <1>1, <1>7, Plans DEF ForceSell
  <2>3. UNCHANGED <<level, orders, day>>
    BY <1>7 DEF ForceSell
  <2> QED
    BY <1>1, <2>1, <2>2, <2>3, ContinuesKeep DEF Op
<1> QED
  BY <1>2, <1>3, <1>4, <1>5, <1>6, <1>7

(* A tick: the breaker, and the plan or the first bid to disarm. *)
LEMMA TickEffect ==
  ASSUME BreakerInv, NEW t \in Task, NEW price \in Price, OnPriceUpdate(t, price)
  PROVE  /\ task[t].pc = "idle" /\ grid = "active" /\ UNCHANGED <<level, day, orders>>
         /\ Knows(breaker')
         /\ \/ \E l \in Level : Pending(l) /\ Disarm(t, price, Level) /\ grid' = grid
            \/ \E b : \E tripped \in BOOLEAN : Knows(b) /\ Decide(t, price, b, tripped)
<1> DEFINE b == IF breaker.mode = "none" THEN breaker ELSE CheckNewDay(breaker, price, day)
           trips == breaker.mode # "none" /\ ShouldTrigger(b, price)
<1>1. /\ task[t].pc = "idle" /\ grid = "active" /\ UNCHANGED <<level, day, orders>>
      /\ IF trips /\ \E l \in Level : Pending(l)
         THEN breaker' = Trigger(b, price) /\ Disarm(t, price, Level) /\ UNCHANGED grid
         ELSE Decide(t, price, IF trips THEN Trigger(b, price) ELSE b, trips)
  BY Zenon DEF OnPriceUpdate
<1>2. Types /\ Knows(breaker) /\ day \in Day
  BY DEF BreakerInv, NamesInv, Types
<1>3. Knows(b) /\ (breaker.mode # "none" => b.date # NoDate /\ b.open # NoPrice)
  BY <1>2, NewDayKnows
<1>4. trips => Knows(Trigger(b, price))
  <2> HIDE DEF b
  <2> QED
    BY <1>3, TriggerKnows
<1> HIDE DEF b
<1>5. CASE trips /\ \E l \in Level : Pending(l)
  <2> HIDE DEF trips
  <2> QED
    BY <1>1, <1>4, <1>5
<1>6. CASE ~(trips /\ \E l \in Level : Pending(l))
  <2> DEFINE c == IF trips THEN Trigger(b, price) ELSE b
  <2>1. Knows(c) /\ Decide(t, price, c, trips) /\ trips \in BOOLEAN
    BY <1>1, <1>3, <1>4, <1>6
  <2> HIDE DEF c, trips
  <2>2. Knows(breaker')
    BY <1>2, <2>1, DecideEffect
  <2> QED
    BY <1>1, <2>1, <2>2
<1> QED
  BY <1>5, <1>6

LEMMA DecideKeeps ==
  ASSUME BreakerInv, NEW t \in Task, NEW price \in Price, NEW b, Knows(b),
         NEW tripped \in BOOLEAN, Decide(t, price, b, tripped), UNCHANGED <<level, orders, day>>
  PROVE  BreakerInv'
<1>1. Types /\ grid \in DOMAIN GRID_TRANSITIONS
  BY DEF BreakerInv, NamesInv, Types
<1>2. TickPlans(t, price, tripped) /\ Knows(breaker')
  BY <1>1, DecideEffect
<1>3. PICK bids : /\ bids \cup Sells(price) \in SUBSET Action
                  /\ Continue(t, "tick", bids \cup Sells(price), grid)
  BY <1>2 DEF TickPlans
<1> QED
  BY <1>1, <1>2, <1>3, ContinuesKeep DEF Op

LEMMA DisarmKeeps ==
  ASSUME BreakerInv, NEW t \in Task, NEW price \in Price, NEW ls \in SUBSET Level,
         \E l \in ls : Pending(l), Disarm(t, price, ls), UNCHANGED <<level, orders, day, grid>>,
         Knows(breaker')
  PROVE  BreakerInv'
<1>1. Types /\ grid' \in DOMAIN GRID_TRANSITIONS
  BY DEF BreakerInv, NamesInv, Types
<1>2. /\ task' \in [Task -> TaskRecord] /\ \A u \in Task \ {t} : task'[u] = task[u]
      /\ task'[t].pc = "disarm" /\ task'[t].price = price /\ task'[t].rest # {}
  BY <1>1, DisarmEffect
<1> QED
  BY <1>1, <1>2, QuietStep

LEMMA TickKeeps ==
  ASSUME BreakerInv, NEW t \in Task, NEW price \in Price, OnPriceUpdate(t, price)
  PROVE  BreakerInv'
<1>1. UNCHANGED <<level, day, orders>> /\ Knows(breaker')
  BY TickEffect
<1>2. ASSUME NEW l \in Level, Pending(l), Disarm(t, price, Level), grid' = grid PROVE BreakerInv'
  BY <1>1, <1>2, DisarmKeeps
<1>3. ASSUME NEW b, NEW tripped \in BOOLEAN, Knows(b), Decide(t, price, b, tripped)
      PROVE  BreakerInv'
  BY <1>1, <1>3, DecideKeeps
<1> QED
  BY <1>2, <1>3, TickEffect

(* A step of a coroutine, with what it may change. *)
LEMMA AnyStep ==
  ASSUME BreakerInv, NEW t \in Task, day' \in Day,
         orders' \in [OrderId -> OrderRecord \cup {Absent}], OrdersGrow, Gapless',
         level' \in [Level -> LevelRecord], NamesMove,
         task' \in [Task -> TaskRecord], \A u \in Task \ {t} : task'[u] = task[u],
         task'[t] = task[t] \/ AtWork(t)',
         grid' \in DOMAIN GRID_TRANSITIONS, Knows(breaker')
  PROVE  BreakerInv'
<1>1. Types'
  BY DEF Types, Knows
<1>2. \A u \in Task : task'[u] = task[u] \/ AtWork(u)'
  OBVIOUS
<1>3. NamesInv'
  BY <1>1, <1>2, NamesKept DEF BreakerInv
<1> QED
  BY <1>3 DEF BreakerInv, Knows

(* Levels that keep or drop their names. *)
LEMMA NamesDropped ==
  ASSUME \A l \in Level : /\ level'[l].buy \in {level[l].buy, NoId}
                          /\ level'[l].sell \in {level[l].sell, NoId}
  PROVE  NamesMove
BY DEF NamesMove

(* Giving up, or going on with nothing placed, is at work as it should be. *)
LEMMA IdleAtWork ==
  ASSUME NEW t \in Task,
         \/ task'[t] = Idle
         \/ /\ task'[t].pc \in {"idle", "call", "clear", "cancel", "cancelled"}
            /\ task'[t].pc # "idle" <=> task'[t].rest # {}
  PROVE  AtWork(t)'
BY IdleType DEF AtWork

LEMMA RaiseEffect ==
  ASSUME Types, NEW t \in Task, Raise(t)
  PROVE  /\ task' \in [Task -> TaskRecord] /\ \A u \in Task \ {t} : task'[u] = task[u]
         /\ task'[t] = Idle /\ grid' \in DOMAIN GRID_TRANSITIONS /\ grid' = grid
<1>1. task' = [task EXCEPT ![t] = Idle] /\ grid' = grid
  BY DEF Raise
<1> QED
  BY <1>1, IdleType DEF Types

(* A coroutine that moves on within its action. *)
MovesTo(t, pc, id) ==
  /\ task' \in [Task -> TaskRecord] /\ \A u \in Task \ {t} : task'[u] = task[u]
  /\ task'[t].pc = pc /\ task'[t].id = id
  /\ task'[t].rest = task[t].rest /\ task'[t].op = task[t].op /\ task'[t].price = task[t].price

LEMMA PcEffect ==
  ASSUME Types, NEW t \in Task, NEW pc \in {"disarmed", "cancelled"},
         task' = [task EXCEPT ![t].pc = pc]
  PROVE  MovesTo(t, pc, task[t].id)
<1> DEFINE rec == [task[t] EXCEPT !.pc = pc]
<1>1. task \in [Task -> TaskRecord] /\ task[t] \in TaskRecord
  BY DEF Types
<1>2. /\ rec \in TaskRecord /\ rec.pc = pc /\ rec.id = task[t].id /\ rec.rest = task[t].rest
      /\ rec.op = task[t].op /\ rec.price = task[t].price
  BY <1>1 DEF TaskRecord
<1>3. task' = [task EXCEPT ![t] = rec]
  BY <1>1
<1> HIDE DEF rec
<1>4. /\ task' \in [Task -> TaskRecord] /\ \A u \in Task \ {t} : task'[u] = task[u]
      /\ task'[t] = rec
  BY <1>1, <1>2, <1>3
<1> QED
  BY <1>2, <1>4 DEF MovesTo

LEMMA ClearEffect ==
  ASSUME Types, NEW t \in Task, ForceClears(t) \/ ForceClearFails(t)
  PROVE  MovesTo(t, "call", NoId)
<1> DEFINE rec == [task[t] EXCEPT !.pc = "call", !.id = NoId]
<1>1. task \in [Task -> TaskRecord] /\ task[t] \in TaskRecord
  BY DEF Types
<1>2. /\ rec \in TaskRecord /\ rec.pc = "call" /\ rec.id = NoId /\ rec.rest = task[t].rest
      /\ rec.op = task[t].op /\ rec.price = task[t].price
  BY <1>1 DEF TaskRecord
<1>3. task' = [task EXCEPT ![t] = rec]
  BY <1>1 DEF ForceClears, ForceClearFails
<1> HIDE DEF rec
<1>4. /\ task' \in [Task -> TaskRecord] /\ \A u \in Task \ {t} : task'[u] = task[u]
      /\ task'[t] = rec
  BY <1>1, <1>2, <1>3
<1> QED
  BY <1>2, <1>4 DEF MovesTo

(* The exchange acts on a cancel, and the coroutine moves on.              *)
LEMMA WithdrawnKeep ==
  ASSUME BreakerInv, NEW t \in Task, task[t].pc # "idle",
         Withdraw(task[t].id) \/ orders' = orders,
         NEW pc \in {"disarmed", "cancelled", "call"}, NEW id, MovesTo(t, pc, id),
         pc = "disarmed" => task[t].price \in Price,
         UNCHANGED <<grid, level, breaker, day>>
  PROVE  BreakerInv'
<1>1. Types /\ Gapless /\ AtWork(t)
  BY DEF BreakerInv, NamesInv
<1>2. /\ orders' \in [OrderId -> OrderRecord \cup {Absent}]
      /\ \A j \in OrderId :
           /\ orders'[j].level = orders[j].level /\ orders'[j].side = orders[j].side
           /\ orders'[j].state = "absent" <=> orders[j].state = "absent"
  <2>1. CASE orders' = orders
    BY <1>1, <2>1 DEF Types
  <2>2. CASE Withdraw(task[t].id)
    <3>1. task[t].id \in OrderId \cup {NoId}
      BY <1>1, Fields
    <3> QED
      BY <1>1, <2>2, <3>1, WithdrawEffect
  <2> QED
    BY <2>1, <2>2
<1>3. OrdersGrow /\ Gapless'
  BY <1>1, <1>2, SameOrders
<1>4. level' \in [Level -> LevelRecord] /\ NamesMove
  BY <1>1, NamesDropped DEF Types
<1>5. AtWork(t)'
  BY <1>1 DEF AtWork, MovesTo
<1>6. /\ grid' \in DOMAIN GRID_TRANSITIONS /\ Knows(breaker') /\ day' \in Day
  BY <1>1 DEF Types, BreakerInv
<1> QED
  BY <1>2, <1>3, <1>4, <1>5, <1>6, AnyStep DEF MovesTo

(* An order is named, a name is dropped, a level moves on. *)
LEMMA LevelsKeep ==
  ASSUME BreakerInv, NEW t \in Task, UNCHANGED <<orders, day>>,
         level' \in [Level -> LevelRecord], NamesMove,
         task' \in [Task -> TaskRecord], \A u \in Task \ {t} : task'[u] = task[u],
         task'[t] = task[t] \/ AtWork(t)',
         grid' \in DOMAIN GRID_TRANSITIONS, Knows(breaker')
  PROVE  BreakerInv'
<1>1. Types /\ Gapless
  BY DEF BreakerInv, NamesInv
<1>2. OrdersGrow /\ Gapless' /\ day' \in Day /\ orders' \in [OrderId -> OrderRecord \cup {Absent}]
  BY <1>1, SameOrders DEF Types
<1> QED
  BY <1>2, AnyStep

(* The level of the action at hand gets one record. *)
LEMMA LevelEffect ==
  ASSUME Types, NEW l \in Level, NEW lv \in LevelRecord, level' = [level EXCEPT ![l] = lv]
  PROVE  /\ level' \in [Level -> LevelRecord] /\ level'[l] = lv
         /\ \A k \in Level \ {l} : level'[k] = level[k]
BY DEF Types

LEMMA NameType ==
  ASSUME NEW lv \in LevelRecord, NEW side \in {"buy", "sell"}, NEW id \in OrderId \cup {NoId}
  PROVE  /\ Name(lv, side, id) \in LevelRecord /\ Name(lv, side, id).status = lv.status
         /\ side = "buy" => Name(lv, side, id).buy = id /\ Name(lv, side, id).sell = lv.sell
         /\ side = "sell" => Name(lv, side, id).sell = id /\ Name(lv, side, id).buy = lv.buy
BY DEF Name, LevelRecord

LEMMA StatusType ==
  ASSUME NEW lv \in LevelRecord,
         NEW s \in {"WAITING", "OPEN", "FILLED", "TP_HIT", "CANCELLED"}
  PROVE  LET new == [lv EXCEPT !.status = s] IN
           new \in LevelRecord /\ new.status = s /\ new.buy = lv.buy /\ new.sell = lv.sell
BY DEF LevelRecord

(* Now(t), for a coroutine at work. *)
LEMMA NowInPlan ==
  ASSUME NamesInv, NEW t \in Task, task[t].pc # "idle"
  PROVE  /\ Now(t) \in task[t].rest /\ Now(t) \in Action /\ Now(t).level \in Level
         /\ Side(t) \in {"buy", "sell"} /\ Later(t) \in SUBSET Action
<1>1. task[t].rest \in SUBSET Action /\ task[t].rest # {}
  BY Fields DEF NamesInv, AtWork
<1>2. Now(t) \in task[t].rest /\ Now(t) \in Action
  BY <1>1, HeadOfPlan DEF Now
<1> QED
  BY <1>1, <1>2 DEF Action, Side, Later

LEMMA OpOfPlan ==
  ASSUME NamesInv, NEW t \in Task
  PROVE  task[t].op \in Op
BY Fields DEF NamesInv, TaskRecord, Op

(* The exchange's half of a cancel, and a forced order that clears the way. *)
LEMMA CancellingKeeps ==
  ASSUME BreakerInv, NEW t \in Task,
         ExchangeDisarms(t) \/ ExchangeCancels(t) \/ ForceClears(t) \/ ForceClearFails(t)
  PROVE  BreakerInv'
<1>1. Types /\ AtWork(t)
  BY DEF BreakerInv, NamesInv
<1>2. CASE ExchangeDisarms(t)
  <2>1. MovesTo(t, "disarmed", task[t].id)
    BY <1>1, <1>2, PcEffect DEF ExchangeDisarms
  <2> QED
    BY <1>1, <1>2, <2>1, WithdrawnKeep DEF ExchangeDisarms, AtWork
<1>3. CASE ExchangeCancels(t)
  <2>1. MovesTo(t, "cancelled", task[t].id)
    BY <1>1, <1>3, PcEffect DEF ExchangeCancels
  <2> QED
    BY <1>1, <1>3, <2>1, WithdrawnKeep DEF ExchangeCancels
<1>4. CASE ForceClears(t) \/ ForceClearFails(t)
  <2>1. MovesTo(t, "call", NoId)
    BY <1>1, <1>4, ClearEffect
  <2>2. /\ task[t].pc = "clear" /\ UNCHANGED <<grid, level, breaker, day>>
        /\ Withdraw(task[t].id) \/ orders' = orders
    BY <1>4 DEF ForceClears, ForceClearFails
  <2> QED
    BY <1>1, <2>1, <2>2, WithdrawnKeep
<1> QED
  BY <1>2, <1>3, <1>4

(* A call that raises loses its plan. *)
LEMMA RaisesKeep ==
  ASSUME BreakerInv, NEW t \in Task, PlaceFails(t) \/ CancelFails(t)
  PROVE  BreakerInv'
<1>1. Raise(t) /\ UNCHANGED <<level, breaker, day, orders>>
  BY DEF PlaceFails, CancelFails
<1>2. Types
  BY DEF BreakerInv, NamesInv
<1>3. /\ task' \in [Task -> TaskRecord] /\ \A u \in Task \ {t} : task'[u] = task[u]
      /\ task'[t] = Idle /\ grid' \in DOMAIN GRID_TRANSITIONS
  BY <1>1, <1>2, RaiseEffect
<1>4. AtWork(t)'
  BY <1>3, IdleAtWork
<1>5. level' \in [Level -> LevelRecord] /\ NamesMove /\ Knows(breaker')
  BY <1>1, <1>2, NamesDropped DEF Types, BreakerInv
<1> QED
  BY <1>1, <1>3, <1>4, <1>5, LevelsKeep

(* The exchange takes an order. *)
LEMMA PlacesKeep ==
  ASSUME BreakerInv, NEW t \in Task, ExchangePlaces(t)
  PROVE  BreakerInv'
<1>1. NamesInv /\ Types /\ AtWork(t)
  BY DEF BreakerInv, NamesInv
<1>2. /\ orders' \in [OrderId -> OrderRecord \cup {Absent}]
      /\ NextId \in OrderId /\ Gapless' /\ OrdersGrow
      /\ Now(t) \in task[t].rest
      /\ orders'[NextId] = [level |-> Now(t).level, side |-> Side(t), state |-> "live",
                            told |-> FALSE]
      /\ task' \in [Task -> TaskRecord] /\ \A u \in Task \ {t} : task'[u] = task[u]
      /\ task'[t].pc = "placed" /\ task'[t].id = NextId
      /\ task'[t].rest = task[t].rest
  BY <1>1, PlacesEffect
<1>3. UNCHANGED <<grid, level, breaker, day>>
  BY DEF ExchangePlaces
<1>4. Now(t)' = Now(t) /\ Side(t)' = Side(t)
  BY <1>2 DEF Now, Side
<1>5. AtWork(t)'
  BY <1>2, <1>4 DEF AtWork
<1>6. /\ level' \in [Level -> LevelRecord] /\ NamesMove /\ Knows(breaker') /\ day' \in Day
      /\ grid' \in DOMAIN GRID_TRANSITIONS
  BY <1>1, <1>3, NamesDropped DEF Types, BreakerInv
<1> QED
  BY <1>2, <1>5, <1>6, AnyStep

(* The end of an action on level l: it takes the record lv, and the plan   *)
(* goes on or is lost.                                                     *)
LEMMA RecordedKeeps ==
  ASSUME BreakerInv, NEW t \in Task, NEW l \in Level, NEW lv \in LevelRecord,
         level' = [level EXCEPT ![l] = lv], UNCHANGED <<breaker, day, orders>>,
         lv.buy \in {level[l].buy, NoId}
           \/ (orders[lv.buy].level = l /\ orders[lv.buy].side = "buy"),
         lv.sell \in {level[l].sell, NoId}
           \/ (orders[lv.sell].level = l /\ orders[lv.sell].side = "sell"),
         \/ Raise(t)
         \/ \E rest \in SUBSET Action :
            \E op \in Op : Continue(t, op, rest, grid)
  PROVE  BreakerInv'
<1>1. Types /\ grid \in DOMAIN GRID_TRANSITIONS
  BY DEF BreakerInv, NamesInv, Types
<1>2. /\ level' \in [Level -> LevelRecord] /\ level'[l] = lv
      /\ \A k \in Level \ {l} : level'[k] = level[k]
  BY <1>1, LevelEffect
<1>3. NamesMove
  BY <1>2 DEF NamesMove
<1>4. Knows(breaker')
  BY DEF BreakerInv
<1>5. CASE Raise(t)
  <2>1. /\ task' \in [Task -> TaskRecord] /\ \A u \in Task \ {t} : task'[u] = task[u]
        /\ task'[t] = Idle /\ grid' \in DOMAIN GRID_TRANSITIONS
    BY <1>1, <1>5, RaiseEffect
  <2>2. AtWork(t)'
    BY <2>1, IdleAtWork
  <2> QED
    BY <1>2, <1>3, <1>4, <2>1, <2>2, LevelsKeep
<1>6. ASSUME NEW rest \in SUBSET Action,
             NEW op \in Op, Continue(t, op, rest, grid)
      PROVE  BreakerInv'
  <2>1. /\ task' \in [Task -> TaskRecord] /\ \A u \in Task \ {t} : task'[u] = task[u]
        /\ grid' \in DOMAIN GRID_TRANSITIONS
        /\ task'[t].rest = rest /\ task'[t].pc \in {"idle", "cancel", "clear", "call"}
        /\ task'[t].pc # "idle" <=> rest # {}
    BY <1>1, <1>6, ContinueEffect
  <2>2. AtWork(t)'
    BY <2>1, IdleAtWork
  <2> QED
    BY <1>2, <1>3, <1>4, <2>1, <2>2, LevelsKeep
<1> QED
  BY <1>5, <1>6

LEMMA OrderRecordedKeeps ==
  ASSUME BreakerInv, NEW t \in Task, OrderRecorded(t)
  PROVE  BreakerInv'
<1> DEFINE l == Now(t).level
           named == Name(level[l], Side(t), task[t].id)
           opened == [named EXCEPT !.status = "OPEN"]
           opens == Now(t).kind # "forceSell"
           lv == IF opens /\ LevelAllows(l, "OPEN") THEN opened ELSE named
<1>1. /\ task[t].pc = "placed" /\ level' = [level EXCEPT ![l] = lv]
      /\ IF opens /\ ~LevelAllows(l, "OPEN")
         THEN Raise(t) ELSE Continue(t, task[t].op, Later(t), grid)
      /\ UNCHANGED <<breaker, day, orders>>
  BY Zenon DEF OrderRecorded
<1>2. NamesInv /\ Types /\ AtWork(t)
  BY DEF BreakerInv, NamesInv
<1>3. l \in Level /\ Side(t) \in {"buy", "sell"} /\ Later(t) \in SUBSET Action
  BY <1>1, <1>2, NowInPlan
<1>4. level[l] \in LevelRecord /\ task[t].id \in OrderId
  BY <1>1, <1>2, <1>3, Fields DEF AtWork
<1>5. /\ named \in LevelRecord
      /\ Side(t) = "buy" => named.buy = task[t].id /\ named.sell = level[l].sell
      /\ Side(t) = "sell" => named.sell = task[t].id /\ named.buy = level[l].buy
  BY <1>3, <1>4, NameType
<1>6. orders[task[t].id].level = l /\ orders[task[t].id].side = Side(t)
  BY <1>1, <1>2 DEF AtWork
<1> HIDE DEF named, l
<1>7. opened \in LevelRecord /\ opened.buy = named.buy /\ opened.sell = named.sell
  BY <1>5, StatusType
<1>8. lv \in LevelRecord /\ lv.buy = named.buy /\ lv.sell = named.sell
  BY <1>5, <1>7
<1>9. \/ Raise(t)
      \/ \E rest \in SUBSET Action :
         \E op \in Op : Continue(t, op, rest, grid)
  BY <1>1, <1>2, <1>3, OpOfPlan DEF AtWork
<1> HIDE DEF lv
<1> QED
  BY <1>1, <1>3, <1>5, <1>6, <1>8, <1>9, RecordedKeeps

LEMMA CancelRecordedKeeps ==
  ASSUME BreakerInv, NEW t \in Task, CancelRecorded(t)
  PROVE  BreakerInv'
<1> DEFINE l == Now(t).level
           freed == Name(level[l], Side(t), NoId)
           off == [freed EXCEPT !.status = "CANCELLED"]
           lv == IF LevelAllows(l, "CANCELLED") THEN off ELSE freed
<1>1. /\ task[t].pc = "cancelled" /\ level' = [level EXCEPT ![l] = lv]
      /\ IF LevelAllows(l, "CANCELLED") THEN Continue(t, task[t].op, Later(t), grid) ELSE Raise(t)
      /\ UNCHANGED <<breaker, day, orders>>
  BY Zenon DEF CancelRecorded
<1>2. NamesInv /\ Types
  BY DEF BreakerInv, NamesInv
<1>3. l \in Level /\ Side(t) \in {"buy", "sell"} /\ Later(t) \in SUBSET Action
  BY <1>1, <1>2, NowInPlan
<1>4. level[l] \in LevelRecord
  BY <1>2, <1>3, Fields
<1>5. /\ freed \in LevelRecord
      /\ freed.buy \in {level[l].buy, NoId} /\ freed.sell \in {level[l].sell, NoId}
  BY <1>3, <1>4, NameType
<1> HIDE DEF freed, l
<1>6. off \in LevelRecord /\ off.buy = freed.buy /\ off.sell = freed.sell
  BY <1>5, StatusType
<1>7. lv \in LevelRecord /\ lv.buy = freed.buy /\ lv.sell = freed.sell
  BY <1>5, <1>6
<1>8. \/ Raise(t)
      \/ \E rest \in SUBSET Action : \E op \in Op : Continue(t, op, rest, grid)
  BY <1>1, <1>2, <1>3, OpOfPlan
<1> HIDE DEF lv
<1> QED
  BY <1>1, <1>3, <1>5, <1>7, <1>8, RecordedKeeps

(* The tick goes on to the next pending level, or to its plan.             *)
LEMMA DisarmNextEffect ==
  ASSUME Types, Knows(breaker), NEW t \in Task, task[t].price \in Price, DisarmNext(t)
  PROVE  /\ task' \in [Task -> TaskRecord] /\ \A u \in Task \ {t} : task'[u] = task[u]
         /\ AtWork(t)'
         /\ grid' \in DOMAIN GRID_TRANSITIONS /\ Knows(breaker')
<1> DEFINE ls == {l \in Level : l > Now(t).level}
<1>1. ls \in SUBSET Level /\ grid \in DOMAIN GRID_TRANSITIONS
  BY DEF Types
<1>2. IF \E l \in ls : Pending(l)
      THEN Disarm(t, task[t].price, ls) /\ UNCHANGED <<grid, breaker>>
      ELSE Decide(t, task[t].price, breaker, TRUE)
  BY Zenon DEF DisarmNext
<1> HIDE DEF ls
<1>3. CASE \E l \in ls : Pending(l)
  <2>1. /\ task' \in [Task -> TaskRecord] /\ \A u \in Task \ {t} : task'[u] = task[u]
        /\ task'[t].pc = "disarm" /\ task'[t].price = task[t].price /\ task'[t].rest # {}
    BY <1>1, <1>2, <1>3, DisarmEffect
  <2>2. AtWork(t)'
    BY <2>1 DEF AtWork
  <2> QED
    BY <1>1, <1>2, <1>3, <2>1, <2>2
<1>4. CASE ~\E l \in ls : Pending(l)
  <2>1. PICK bids : /\ bids \cup Sells(task[t].price) \in SUBSET Action
                    /\ Continue(t, "tick", bids \cup Sells(task[t].price), grid)
    <3>1. TickPlans(t, task[t].price, TRUE)
      BY <1>2, <1>4, DecideEffect
    <3> QED
      BY <3>1 DEF TickPlans
  <2>2. /\ task' \in [Task -> TaskRecord] /\ \A u \in Task \ {t} : task'[u] = task[u]
        /\ grid' \in DOMAIN GRID_TRANSITIONS
        /\ task'[t].pc \in {"idle", "cancel", "clear", "call"}
        /\ task'[t].pc # "idle" <=> task'[t].rest # {}
    <3>1. "tick" \in Op
      BY DEF Op
    <3> DEFINE plan == bids \cup Sells(task[t].price)
    <3> HIDE DEF plan
    <3>2. plan \in SUBSET Action /\ Continue(t, "tick", plan, grid)
      BY <2>1 DEF plan
    <3> QED
      BY <1>1, <3>1, <3>2, ContinueEffect
  <2>3. AtWork(t)'
    BY <2>2, IdleAtWork
  <2>4. Knows(breaker')
    BY <1>2, <1>4, DecideEffect
  <2> QED
    BY <2>2, <2>3, <2>4
<1> QED
  BY <1>3, <1>4

LEMMA DisarmFailsKeeps ==
  ASSUME BreakerInv, NEW t \in Task, DisarmFails(t)
  PROVE  BreakerInv'
<1>1. /\ task[t].price \in Price /\ DisarmNext(t) /\ UNCHANGED <<level, orders, day>>
      /\ Types /\ Knows(breaker)
  BY DEF DisarmFails, BreakerInv, NamesInv, AtWork
<1>2. level' \in [Level -> LevelRecord] /\ NamesMove
  BY <1>1, NamesDropped DEF Types
<1>3. /\ task' \in [Task -> TaskRecord] /\ \A u \in Task \ {t} : task'[u] = task[u]
      /\ AtWork(t)'
      /\ grid' \in DOMAIN GRID_TRANSITIONS /\ Knows(breaker')
  BY <1>1, DisarmNextEffect
<1> QED
  BY <1>1, <1>2, <1>3, LevelsKeep

(* The level forgets the bid, and the tick goes on. *)
LEMMA DisarmedKeeps ==
  ASSUME BreakerInv, NEW t \in Task, Disarmed(t)
  PROVE  BreakerInv'
<1> DEFINE l == Now(t).level
           lv == [level[l] EXCEPT !.buy = NoId]
<1>1. /\ task[t].pc = "disarmed" /\ level' = [level EXCEPT ![l].buy = NoId] /\ DisarmNext(t)
      /\ UNCHANGED <<day, orders>>
  BY Zenon DEF Disarmed
<1>2. NamesInv /\ Types /\ Knows(breaker) /\ task[t].price \in Price
  BY <1>1 DEF BreakerInv, NamesInv, AtWork
<1>3. l \in Level
  BY <1>1, <1>2, NowInPlan
<1>4. level[l] \in LevelRecord
  BY <1>2, <1>3, Fields
<1>5. level' = [level EXCEPT ![l] = lv]
  BY <1>1
<1>6. lv \in LevelRecord /\ lv.buy = NoId /\ lv.sell = level[l].sell
  BY <1>4 DEF LevelRecord
<1> HIDE DEF l, lv
<1>7. /\ level' \in [Level -> LevelRecord] /\ level'[l] = lv
      /\ \A k \in Level \ {l} : level'[k] = level[k]
  BY <1>2, <1>3, <1>5, <1>6, LevelEffect
<1>8. NamesMove
  BY <1>6, <1>7, NamesDropped
<1>9. /\ task' \in [Task -> TaskRecord] /\ \A u \in Task \ {t} : task'[u] = task[u]
      /\ AtWork(t)'
      /\ grid' \in DOMAIN GRID_TRANSITIONS /\ Knows(breaker')
  BY <1>1, <1>2, DisarmNextEffect
<1> QED
  BY <1>1, <1>7, <1>8, <1>9, LevelsKeep

(* A fill callback finds a filled order of its level. *)
LEMMA UntoldEffect ==
  ASSUME Types, Gapless, NEW i \in OrderId, NEW side \in {"buy", "sell"}, Untold(i, side), Told(i)
  PROVE  /\ orders' \in [OrderId -> OrderRecord \cup {Absent}]
         /\ OrdersGrow /\ Gapless' /\ orders[i].level \in Level
<1>1. /\ orders' \in [OrderId -> OrderRecord \cup {Absent}]
      /\ orders[i] \in OrderRecord
      /\ orders'[i].level = orders[i].level /\ orders'[i].side = orders[i].side
      /\ orders'[i].state = orders[i].state
      /\ \A j \in OrderId \ {i} : orders'[j] = orders[j]
  BY ToldEffect DEF Untold
<1>2. \A j \in OrderId : /\ orders'[j].level = orders[j].level /\ orders'[j].side = orders[j].side
                         /\ orders'[j].state = orders[j].state
  BY <1>1
<1> QED
  BY <1>1, <1>2, SameOrders DEF OrderRecord

LEMMA BuyFilledKeeps ==
  ASSUME BreakerInv, NEW t \in Task, NEW i \in OrderId, OnBuyFilled(t, i)
  PROVE  BreakerInv'
<1> DEFINE l == orders[i].level
           lv == [level[l] EXCEPT !.status = "FILLED", !.buy = NoId]
<1>1. /\ task[t].pc = "idle" /\ Untold(i, "buy") /\ Told(i) /\ UNCHANGED <<breaker, day>>
      /\ \/ /\ level' = [level EXCEPT ![l] = lv]
            /\ Continue(t, "buyFilled", IF grid = "active" THEN {Do(l, "sell")} ELSE {}, grid)
         \/ UNCHANGED <<level, task, grid>>
  BY DEF OnBuyFilled
<1>2. Types /\ Gapless /\ NamesInv /\ grid \in DOMAIN GRID_TRANSITIONS
  BY DEF BreakerInv, NamesInv, Types
<1>3. /\ orders' \in [OrderId -> OrderRecord \cup {Absent}]
      /\ OrdersGrow /\ Gapless' /\ l \in Level
  BY <1>1, <1>2, UntoldEffect
<1>4. level[l] \in LevelRecord /\ {Do(l, "sell")} \in SUBSET Action /\ "buyFilled" \in Op
  BY <1>2, <1>3, Fields, Plans DEF Op
<1>5. lv \in LevelRecord /\ lv.buy = NoId /\ lv.sell = level[l].sell
  BY <1>4 DEF LevelRecord
<1>6. Knows(breaker') /\ day' \in Day
  BY <1>1, <1>2 DEF Types, BreakerInv
<1> HIDE DEF l, lv
<1>7. CASE UNCHANGED <<level, task, grid>>
  <2>1. /\ level' \in [Level -> LevelRecord] /\ NamesMove /\ grid' \in DOMAIN GRID_TRANSITIONS
        /\ task' \in [Task -> TaskRecord] /\ \A u \in Task : task'[u] = task[u]
    BY <1>2, <1>7, NamesDropped DEF Types
  <2> QED
    BY <1>3, <1>6, <2>1, AnyStep
<1>8. CASE /\ level' = [level EXCEPT ![l] = lv]
           /\ Continue(t, "buyFilled", IF grid = "active" THEN {Do(l, "sell")} ELSE {}, grid)
  <2> DEFINE plan == IF grid = "active" THEN {Do(l, "sell")} ELSE {}
  <2>1. plan \in SUBSET Action /\ Continue(t, "buyFilled", plan, grid)
    BY <1>4, <1>8
  <2> HIDE DEF plan
  <2>2. /\ task' \in [Task -> TaskRecord] /\ \A u \in Task \ {t} : task'[u] = task[u]
        /\ grid' \in DOMAIN GRID_TRANSITIONS
        /\ task'[t].pc \in {"idle", "cancel", "clear", "call"}
        /\ task'[t].pc # "idle" <=> task'[t].rest # {}
    BY <1>2, <1>4, <2>1, ContinueEffect
  <2>3. AtWork(t)'
    BY <2>2, IdleAtWork
  <2>4. /\ level' \in [Level -> LevelRecord] /\ level'[l] = lv
        /\ \A k \in Level \ {l} : level'[k] = level[k]
    BY <1>2, <1>3, <1>5, <1>8, LevelEffect
  <2>5. NamesMove
    BY <1>5, <2>4, NamesDropped
  <2> QED
    BY <1>3, <1>6, <2>2, <2>3, <2>4, <2>5, AnyStep
<1> QED
  BY <1>1, <1>7, <1>8

LEMMA SellFilledKeeps ==
  ASSUME BreakerInv, NEW t \in Task, NEW i \in OrderId, OnSellFilled(t, i)
  PROVE  BreakerInv'
<1> DEFINE l == orders[i].level
           sold == [level[l] EXCEPT !.status = IF grid = "active" THEN "WAITING" ELSE "TP_HIT",
                                    !.sell = NoId]
           lv == IF LevelAllows(l, "TP_HIT") THEN sold ELSE level[l]
<1>1. /\ task[t].pc = "idle" /\ Untold(i, "sell") /\ Told(i)
      /\ level' = [level EXCEPT ![l] = lv] /\ UNCHANGED <<grid, breaker, day, task>>
  BY DEF OnSellFilled
<1>2. Types /\ Gapless /\ NamesInv
  BY DEF BreakerInv, NamesInv
<1>3. /\ orders' \in [OrderId -> OrderRecord \cup {Absent}]
      /\ OrdersGrow /\ Gapless' /\ l \in Level
  BY <1>1, <1>2, UntoldEffect
<1>4. level[l] \in LevelRecord
  BY <1>2, <1>3, Fields
<1>5. sold \in LevelRecord /\ sold.buy = level[l].buy /\ sold.sell = NoId
  BY <1>4 DEF LevelRecord
<1>6. /\ lv \in LevelRecord /\ lv.buy \in {level[l].buy, NoId}
      /\ lv.sell \in {level[l].sell, NoId}
  BY <1>4, <1>5
<1> HIDE DEF l, lv
<1>7. /\ level' \in [Level -> LevelRecord] /\ level'[l] = lv
      /\ \A k \in Level \ {l} : level'[k] = level[k]
  BY <1>1, <1>2, <1>3, <1>6, LevelEffect
<1>8. NamesMove
  BY <1>6, <1>7, NamesDropped
<1>9. /\ Knows(breaker') /\ day' \in Day /\ task' \in [Task -> TaskRecord]
      /\ \A u \in Task : task'[u] = task[u] /\ grid' \in DOMAIN GRID_TRANSITIONS
  BY <1>1, <1>2 DEF Types, BreakerInv
<1> QED
  BY <1>3, <1>7, <1>8, <1>9, AnyStep

(* What the market and the calendar do. *)
LEMMA MarketKeeps ==
  ASSUME BreakerInv, (\E i \in OrderId : OrderFills(i)) \/ NewDay \/ UNCHANGED vars
  PROVE  BreakerInv'
<1>1. Types /\ Gapless /\ NamesInv
  BY DEF BreakerInv, NamesInv
<1>2. UNCHANGED <<grid, level, breaker, task>>
  BY DEF OrderFills, NewDay, vars
<1>3. day' \in Day
  <2>1. day \in Day /\ MaxDay \in Nat
    BY <1>1, BoundAssumption DEF Types
  <2>2. day' = day \/ (day < MaxDay /\ day' = day + 1)
    BY DEF OrderFills, NewDay, vars
  <2> QED
    BY <2>1, <2>2 DEF Day
<1>4. /\ orders' \in [OrderId -> OrderRecord \cup {Absent}]
      /\ \A j \in OrderId :
           /\ orders'[j].level = orders[j].level /\ orders'[j].side = orders[j].side
           /\ orders'[j].state = "absent" <=> orders[j].state = "absent"
  <2>1. ASSUME NEW i \in OrderId, OrderFills(i) PROVE <1>4!1 /\ <1>4!2
    BY <1>1, <2>1, FillsEffect
  <2>2. CASE orders' = orders
    BY <1>1, <2>2 DEF Types
  <2> QED
    BY <2>1, <2>2 DEF NewDay, vars
<1>5. OrdersGrow /\ Gapless'
  BY <1>1, <1>4, SameOrders
<1>6. NamesMove
  BY <1>2, NamesDropped
<1>7. Types'
  BY <1>1, <1>2, <1>3, <1>4 DEF Types
<1>8. NamesInv'
  BY <1>1, <1>2, <1>5, <1>6, <1>7, NamesKept
<1> QED
  BY <1>2, <1>8 DEF BreakerInv, Knows

LEMMA InitBreakerInv == Init => BreakerInv
<1> SUFFICES ASSUME Init PROVE BreakerInv
  OBVIOUS
<1>1. PICK mode \in Modes, open \in Price \cup {NoPrice} : breaker = NewBreaker(mode, open)
  BY DEF Init
<1>2. Knows(breaker)
  BY <1>1, ModeAssumption DEF Knows, NewBreaker, Breaker, NoDate, NoPrice
<1>3. Types
  BY <1>2, IdleType, BoundAssumption
     DEF Init, Types, Knows, Day, NewLevel, LevelRecord, NoId, GRID_TRANSITIONS
<1>4. Placed = {} /\ Gapless
  <2>1. Placed = {}
    BY DEF Init, Absent, Placed
  <2>2. Placed = 1 .. 0 /\ 0 \in 0 .. MaxOrders
    BY <2>1, BoundAssumption
  <2> QED
    BY <2>1, <2>2 DEF Gapless
<1>5. NamesOwnOrders
  BY DEF Init, NewLevel, NamesOwnOrders
<1>6. \A t \in Task : AtWork(t)
  BY IdleType DEF Init, AtWork
<1> QED
  BY <1>2, <1>3, <1>4, <1>5, <1>6 DEF NamesInv, BreakerInv

LEMMA NextBreakerInv == BreakerInv /\ [Next]_vars => BreakerInv'
<1> SUFFICES ASSUME BreakerInv, [Next]_vars PROVE BreakerInv'
  OBVIOUS
<1>1. ASSUME NEW t \in Task, Call(t) PROVE BreakerInv'
  BY <1>1, CallsKeep, TickKeeps, BuyFilledKeeps, SellFilledKeeps DEF Call
<1>2. ASSUME NEW t \in Task, Proceed(t) PROVE BreakerInv'
  BY <1>2, CancellingKeeps, RaisesKeep, PlacesKeep, OrderRecordedKeeps, CancelRecordedKeeps,
     DisarmedKeeps, DisarmFailsKeeps DEF Proceed
<1> QED
  BY <1>1, <1>2, MarketKeeps DEF Next

(* Whatever coroutines interleave and however the exchange fails, the      *)
(* invariant of names and breaker holds.                                   *)
THEOREM NamesAndBreaker == Spec => []BreakerInv
BY InitBreakerInv, NextBreakerInv, PTL DEF Spec

(* _place_order and _cancel_order: a level never names another level's     *)
(* order, nor an order of the other side.                                  *)
THEOREM LevelsNameOwnOrders == Spec => []NamesOwnOrders
<1>1. BreakerInv => NamesOwnOrders
  BY DEF BreakerInv, NamesInv
<1> QED
  BY <1>1, NamesAndBreaker, PTL

(* DailyDropCircuitBreaker: triggered means that the low it has recorded   *)
(* is a fall of at least the threshold from an open it knows, over every   *)
(* rollover, reset and concurrent tick.                                    *)
THEOREM TriggeredKnowsLow == Spec => []BreakerKnowsLow
<1>1. BreakerInv => BreakerKnowsLow
  BY DEF BreakerInv, Knows, BreakerKnowsLow
<1> QED
  BY <1>1, NamesAndBreaker, PTL

(* GridEngine's variables keep their types. *)
THEOREM TypeCorrect == Spec => []TypeOK
<1>1. BreakerInv => TypeOK
  BY Fields DEF BreakerInv, NamesInv, Types, AtWork, TypeOK
<1> QED
  BY <1>1, NamesAndBreaker, PTL

=============================================================================
