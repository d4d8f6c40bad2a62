-------------------------- MODULE GridSerialProofs --------------------------
(***************************************************************************)
(* Theorems about GridEngine when engine calls come one at a time, the     *)
(* exchange answers and nothing is ordered by hand, as in the runs that    *)
(* check them.  GridConcurrent and GridForce show what is lost without.    *)
(***************************************************************************)
EXTENDS GridEngineProofs

OneCall == \E t : Task = {t}
Serial  == OneCall /\ Manual = FALSE /\ ExchangeFaults = FALSE

(***************************************************************************)
(* The inductive invariant.  Every order of a level but one is settled,    *)
(* and what the level has bought less what it has sold follows from its    *)
(* status and that order.                                                  *)
(***************************************************************************)
Settled(i) == orders[i].state # "live" /\ (orders[i].state = "filled" => orders[i].told)
Others(l, i) == \A j \in OrderId \ {i} : orders[j].level = l => Settled(j)

Bought(l) == Count(l, "buy", "filled")
Sold(l)   == Count(l, "sell", "filled")

Bids(l, i) ==
  /\ i \in OrderId /\ orders[i].level = l /\ orders[i].side = "buy"
  /\ ~orders[i].told /\ Others(l, i)
  /\ IF orders[i].state = "filled" THEN Bought(l) = Sold(l) + 1 ELSE Bought(l) = Sold(l)

Offers(l, i) ==
  /\ i \in OrderId /\ orders[i].level = l /\ orders[i].side = "sell"
  /\ ~orders[i].told /\ Others(l, i)
  /\ IF orders[i].state = "filled" THEN Bought(l) = Sold(l) ELSE Bought(l) = Sold(l) + 1

(* A level when order p has been placed for it and not yet recorded. *)
Sound(l, p) ==
  /\ level[l].status = "OPEN" =>
       \E i \in OrderId :
         \/ level[l].buy = i /\ level[l].sell = NoId /\ Bids(l, i)
         \/ level[l].buy = NoId /\ level[l].sell = i /\ Offers(l, i)
  /\ level[l].status # "OPEN" => level[l].buy = NoId /\ level[l].sell = NoId
  /\ level[l].status \in {"WAITING", "TP_HIT"} =>
       IF p = NoId THEN Others(l, NoId) /\ Bought(l) = Sold(l) ELSE Bids(l, p)
  /\ level[l].status = "FILLED" =>
       IF p = NoId THEN Others(l, NoId) /\ Bought(l) = Sold(l) + 1 ELSE Offers(l, p)
  /\ level[l].status = "CANCELLED" =>
       /\ \A j \in OrderId : orders[j].level = l => orders[j].state # "live"
       /\ Sold(l) <= Bought(l) /\ Bought(l) <= Sold(l) + 1

Placing(t, l) == IF task[t].pc = "placed" /\ Now(t).level = l THEN task[t].id ELSE NoId

(* An action suits its level, and it is the only one for it. *)
Suits(a) ==
  \/ a.kind = "buy"  /\ level[a.level].status \in {"WAITING", "TP_HIT"}
  \/ a.kind = "sell" /\ level[a.level].status = "FILLED"
  \/ /\ a.kind = "cancelBuy" /\ level[a.level].status = "OPEN"
     /\ a.id = level[a.level].buy /\ a.id # NoId
  \/ /\ a.kind = "cancelSell" /\ level[a.level].status = "OPEN"
     /\ a.id = level[a.level].sell /\ level[a.level].buy = NoId

Suited(plan) ==
  /\ \A a \in plan : Suits(a)
  /\ \A a, b \in plan : a.level = b.level => a = b

Planned(t) ==
  /\ Suited(task[t].rest)
  /\ task[t].pc \in {"idle", "call", "placed", "cancel", "cancelled"}
  /\ task[t].pc \in {"call", "placed"} => Now(t).kind \in {"buy", "sell"}
  /\ task[t].pc \in {"cancel", "cancelled"} =>
       Now(t).kind \in {"cancelBuy", "cancelSell"} /\ task[t].id = Now(t).id
  /\ task[t].pc = "cancelled" => orders[task[t].id].state # "live"
  /\ task[t].pc = "idle" => task[t].op = "none"
  /\ task[t].op = "pause" =>
       \A l \in Level : level[l].status = "OPEN" <=> \E a \in task[t].rest : a.level = l

Paused ==
  grid = "paused" => /\ \A l \in Level : level[l].status # "OPEN"
                     /\ \A t \in Task : task[t].pc = "idle"

Sounds ==
  \A t \in Task, l \in Level, p \in OrderId \cup {NoId} : p = Placing(t, l) => Sound(l, p)

SerialInv == BreakerInv /\ Paused /\ Sounds /\ \A t \in Task : Planned(t)

(* What a tick has left to bid, the breaker lets it bid. *)
Held(l) == breaker.triggered => breaker.mode = "widen_step" /\ l % Widen = 0

Lets(plan) == \A a \in plan : a.kind = "sell" \/ (a.kind = "buy" /\ Held(a.level))

HeldBids ==
  \A t \in Task :
    task[t].op = "tick" /\ task[t].pc \notin {"disarm", "disarmed"} => Lets(task[t].rest)

-----------------------------------------------------------------------------
(* A tick's bids and the breaker.                                          *)

(* Coroutines that drop actions of their plan, or do something else. *)
LEMMA HeldKept ==
  ASSUME HeldBids, UNCHANGED breaker,
         \A t \in Task :
           \/ task'[t].op # "tick"
           \/ task'[t].pc \in {"disarm", "disarmed"}
           \/ /\ task'[t].op = task[t].op /\ task'[t].rest \subseteq task[t].rest
              /\ task[t].pc \notin {"disarm", "disarmed"}
  PROVE  HeldBids'
BY DEF HeldBids, Lets, Held

LEMMA ContinueHeld ==
  ASSUME Types, NEW t \in Task, NEW rest \in SUBSET Action,
         NEW status \in DOMAIN GRID_TRANSITIONS, NEW op \in Op,
         Continue(t, op, rest, status)
  PROVE  /\ \A u \in Task \ {t} : task'[u] = task[u]
         /\ task'[t].op \in {op, "none"} /\ task'[t].rest = rest
         /\ task'[t].pc \in {"idle", "cancel", "clear", "call"}
<1>1. /\ \A u \in Task \ {t} : task'[u] = task[u]
      /\ task'[t].rest = rest /\ task'[t].pc \in {"idle", "cancel", "clear", "call"}
      /\ rest = {} => task'[t] = Idle
      /\ rest # {} => task'[t] = Begin(op, rest)
  BY ContinueEffect
<1>2. CASE rest = {}
  BY <1>1, <1>2, IdleType
<1>3. CASE rest # {}
  <2>1. Begin(op, rest).op = op
    BY <1>3, BeginType
  <2> QED
    BY <1>1, <1>3, <2>1
<1> QED
  BY <1>2, <1>3

(* The plan of a tick that has decided. *)
LEMMA DecideHeld ==
  ASSUME BreakerInv, OneCall, NEW t \in Task, NEW price \in Price, NEW b, Knows(b),
         NEW tripped \in BOOLEAN, Decide(t, price, b, tripped)
  PROVE  HeldBids'
<1>1. Types /\ grid \in DOMAIN GRID_TRANSITIONS /\ "tick" \in Op
  BY DEF BreakerInv, NamesInv, Types, Op
<1>2. PICK bids : /\ \/ bids = {}
                     \/ bids = Buys(price, {}) /\ ~tripped /\ ~breaker'.triggered
                     \/ /\ bids = Buys(price, {l \in Level : l % Widen # 0})
                        /\ ~tripped /\ breaker'.mode = "widen_step"
                  /\ bids \cup Sells(price) \in SUBSET Action
                  /\ Continue(t, "tick", bids \cup Sells(price), grid)
  <2>1. TickPlans(t, price, tripped)
    BY <1>1, DecideEffect
  <2> QED
    BY <2>1 DEF TickPlans
<1> DEFINE plan == bids \cup Sells(price)
<1>3. \A a \in Sells(price) : a.kind = "sell"
  BY DEF Sells, Do
<1>4. /\ \A a \in Buys(price, {}) : a.kind = "buy"
      /\ \A a \in Buys(price, {l \in Level : l % Widen # 0}) :
           a.kind = "buy" /\ a.level % Widen = 0
  BY DEF Buys, Do
<1>5. \A a \in plan : \/ a.kind = "sell"
                      \/ /\ a.kind = "buy"
                         /\ breaker'.triggered => breaker'.mode = "widen_step" /\ a.level % Widen = 0
  BY <1>2, <1>3, <1>4
<1> HIDE DEF plan
<1>6. plan \in SUBSET Action /\ Continue(t, "tick", plan, grid)
  BY <1>2 DEF plan
<1>7. task'[t].rest = plan /\ \A u \in Task : u = t
  BY <1>1, <1>6, ContinueHeld DEF OneCall
<1>8. Lets(task[t].rest)'
  BY <1>5, <1>7 DEF Lets, Held
<1> QED
  BY <1>7, <1>8 DEF HeldBids

LEMMA DisarmHeld ==
  ASSUME BreakerInv, OneCall, NEW t \in Task, NEW price \in Price, NEW ls \in SUBSET Level,
         \E l \in ls : Pending(l), Disarm(t, price, ls)
  PROVE  HeldBids'
<1>1. task'[t].pc = "disarm" /\ \A u \in Task : u = t
  BY DisarmEffect DEF BreakerInv, NamesInv, OneCall
<1> QED
  BY <1>1 DEF HeldBids

(* The steps of a tick that end in a decision. *)
LEMMA TicksHeld ==
  ASSUME BreakerInv, OneCall, NEW t \in Task,
         (\E price \in Price : OnPriceUpdate(t, price)) \/ Disarmed(t) \/ DisarmFails(t)
  PROVE  HeldBids'
<1>1. ASSUME NEW price \in Price, OnPriceUpdate(t, price) PROVE HeldBids'
  <2>1. CASE \E l \in Level : Pending(l) /\ Disarm(t, price, Level)
    BY <2>1, DisarmHeld
  <2>2. ASSUME NEW b, NEW tripped \in BOOLEAN, Knows(b), Decide(t, price, b, tripped)
        PROVE  HeldBids'
    BY <2>2, DecideHeld
  <2> QED
    BY <1>1, <2>1, <2>2, TickEffect
<1>2. CASE Disarmed(t) \/ DisarmFails(t)
  <2> DEFINE ls == {l \in Level : l > Now(t).level}
  <2>1. task[t].pc \in {"disarm", "disarmed"} /\ DisarmNext(t)
    BY <1>2 DEF Disarmed, DisarmFails
  <2>2. IF \E l \in ls : Pending(l)
        THEN Disarm(t, task[t].price, ls) /\ UNCHANGED <<grid, breaker>>
        ELSE Decide(t, task[t].price, breaker, TRUE)
    BY <2>1, Zenon DEF DisarmNext
  <2>3. task[t].price \in Price /\ Knows(breaker) /\ ls \in SUBSET Level
    BY <2>1 DEF BreakerInv, NamesInv, AtWork
  <2> HIDE DEF ls
  <2>4. CASE \E l \in ls : Pending(l)
    BY <2>2, <2>3, <2>4, DisarmHeld
  <2>5. CASE ~\E l \in ls : Pending(l)
    BY <2>2, <2>3, <2>5, DecideHeld
  <2> QED
    BY <2>4, <2>5
<1> QED
  BY <1>1, <1>2

(* A call that goes on with its plan, or starts one that is not a tick's.  *)
LEMMA ContinuesHeld ==
  ASSUME HeldBids, Types, NEW t \in Task, NEW rest \in SUBSET Action, NEW op \in Op,
         Continue(t, op, rest, grid) \/ Continue(t, op, rest, "active"), UNCHANGED breaker,
         \/ op # "tick"
         \/ /\ op = task[t].op /\ rest \subseteq task[t].rest
            /\ task[t].pc \notin {"disarm", "disarmed"}
  PROVE  HeldBids'
<1>1. grid \in DOMAIN GRID_TRANSITIONS /\ "active" \in DOMAIN GRID_TRANSITIONS
  BY DEF Types, GRID_TRANSITIONS
<1>2. /\ \A u \in Task \ {t} : task'[u] = task[u]
      /\ task'[t].op \in {op, "none"} /\ task'[t].rest = rest
  BY <1>1, ContinueHeld
<1>3. ASSUME NEW u \in Task
      PROVE  \/ task'[u].op # "tick"
             \/ task'[u].pc \in {"disarm", "disarmed"}
             \/ /\ task'[u].op = task[u].op /\ task'[u].rest \subseteq task[u].rest
                /\ task[u].pc \notin {"disarm", "disarmed"}
  BY <1>2
<1> QED
  BY <1>3, HeldKept

LEMMA CallsHeld ==
  ASSUME HeldBids, NamesInv, NEW t \in Task,
         \/ \E price \in Price : ResumeGrid(t, price) \/ ActivateGrid(t, price)
         \/ PauseGrid(t) \/ CloseAllGridOrders(t)
         \/ \E i \in OrderId : OnBuyFilled(t, i) \/ OnSellFilled(t, i)
         \/ \E l \in Level : ForceBuy(t, l)
         \/ ForceSell(t)
  PROVE  HeldBids'
<1>1. Types /\ UNCHANGED breaker
  BY DEF NamesInv, ResumeGrid, ActivateGrid, PauseGrid, CloseAllGridOrders, OnBuyFilled,
         OnSellFilled, ForceBuy, ForceSell
<1>2. \A op \in {"activate", "pause", "resume", "close", "buyFilled", "forceBuy", "forceSell"} :
        op \in Op /\ op # "tick"
  BY DEF Op
<1>3. ASSUME NEW price \in Price, ResumeGrid(t, price) PROVE HeldBids'
  <2>1. Plan(price, {}) \in SUBSET Action
    BY <1>1, Plans DEF Plan
  <2>2. Continue(t, "resume", Plan(price, {}), "active")
    BY <1>3 DEF ResumeGrid
  <2> QED
    BY <1>1, <1>2, <2>1, <2>2, ContinuesHeld
<1>4. ASSUME NEW price \in Price, ActivateGrid(t, price) PROVE HeldBids'
  <2>1. PlanInitial(price) \in SUBSET Action
    BY <1>1, Plans
  <2>2. Continue(t, "activate", PlanInitial(price), "active")
    BY <1>4 DEF ActivateGrid
  <2> QED
    BY <1>1, <1>2, <2>1, <2>2, ContinuesHeld
<1>5. CASE PauseGrid(t) \/ CloseAllGridOrders(t)
  <2>1. PlanCancelAll \in SUBSET Action
    BY <1>1, Plans
  <2>2. Continue(t, "pause", PlanCancelAll, grid) \/ Continue(t, "close", PlanCancelAll, grid)
    BY <1>5 DEF PauseGrid, CloseAllGridOrders
  <2> QED
    BY <1>1, <1>2, <2>1, <2>2, ContinuesHeld
<1>6. ASSUME NEW i \in OrderId, OnBuyFilled(t, i) PROVE HeldBids'
  <2> DEFINE l == orders[i].level
             plan == IF grid = "active" THEN {Do(l, "sell")} ELSE {}
  <2>1. l \in Level
    <3>1. orders[i] \in OrderRecord
      BY <1>1, <1>6, Fields DEF OnBuyFilled, Untold
    <3> QED
      BY <3>1 DEF OrderRecord
  <2>2. plan \in SUBSET Action
    BY <1>1, <2>1, Plans
  <2>3. Continue(t, "buyFilled", plan, grid) \/ task' = task
    BY <1>6 DEF OnBuyFilled
  <2> HIDE DEF plan
  <2>4. CASE Continue(t, "buyFilled", plan, grid)
    BY <1>1, <1>2, <2>2, <2>4, ContinuesHeld
  <2>5. CASE task' = task
    BY <1>1, <2>5, HeldKept
  <2> QED
    BY <2>3, <2>4, <2>5
<1>7. ASSUME NEW i \in OrderId, OnSellFilled(t, i) PROVE HeldBids'
  BY <1>1, <1>7, HeldKept DEF OnSellFilled
<1>8. ASSUME NEW l \in Level, ForceBuy(t, l) PROVE HeldBids'
  <2>1. {Do(l, "forceBuy")} \in SUBSET Action
    BY <1>1, Plans
  <2>2. Continue(t, "forceBuy", {Do(l, "forceBuy")}, grid)
    BY <1>8 DEF ForceBuy
  <2> QED
    BY <1>1, <1>2, <2>1, <2>2, ContinuesHeld
<1>9. CASE ForceSell(t)
  <2>1. PICK ls \in SUBSET Level : Continue(t, "forceSell", {Do(l, "forceSell") : l \in ls}, grid)
    BY <1>9 DEF ForceSell
  <2> DEFINE plan == {Do(l, "forceSell") : l \in ls}
  <2>2. plan \in SUBSET Action /\ Continue(t, "forceSell", plan, grid)
    BY <1>1, <2>1, Plans
  <2> HIDE DEF plan
  <2> QED
    BY <1>1, <1>2, <2>2, ContinuesHeld
<1> QED
  BY <1>3, <1>4, <1>5, <1>6, <1>7, <1>8, <1>9

LEMMA ProceedsHeld ==
  ASSUME HeldBids, NamesInv, NEW t \in Task,
         \/ ExchangeDisarms(t) \/ ExchangePlaces(t) \/ ExchangeCancels(t)
         \/ PlaceFails(t) \/ CancelFails(t) \/ ForceClears(t) \/ ForceClearFails(t)
         \/ OrderRecorded(t) \/ CancelRecorded(t)
  PROVE  HeldBids'
<1>1. Types /\ UNCHANGED breaker
  BY DEF NamesInv, ExchangeDisarms, ExchangePlaces, ExchangeCancels, PlaceFails, CancelFails,
         ForceClears, ForceClearFails, OrderRecorded, CancelRecorded
<1>2. CASE ExchangeDisarms(t)
  <2>1. MovesTo(t, "disarmed", task[t].id)
    BY <1>1, <1>2, PcEffect DEF ExchangeDisarms
  <2> QED
    BY <1>1, <1>2, <2>1, HeldKept DEF MovesTo, ExchangeDisarms
<1>3. CASE ExchangePlaces(t)
  <2>1. /\ \A u \in Task \ {t} : task'[u] = task[u]
        /\ task'[t].rest = task[t].rest /\ task'[t].op = task[t].op
    BY <1>3, PlacesEffect
  <2> QED
    BY <1>1, <1>3, <2>1, HeldKept DEF ExchangePlaces
<1>4. CASE ExchangeCancels(t)
  <2>1. MovesTo(t, "cancelled", task[t].id)
    BY <1>1, <1>4, PcEffect DEF ExchangeCancels
  <2> QED
    BY <1>1, <1>4, <2>1, HeldKept DEF MovesTo, ExchangeCancels
<1>5. CASE Raise(t)
  <2>1. \A u \in Task \ {t} : task'[u] = task[u]
    BY <1>1, <1>5, RaiseEffect
  <2>2. task'[t].op = "none"
    BY <1>1, <1>5, RaiseEffect, IdleType
  <2> QED
    BY <1>1, <2>1, <2>2, HeldKept
<1>6. CASE ForceClears(t) \/ ForceClearFails(t)
  <2>1. MovesTo(t, "call", NoId) /\ task[t].pc = "clear"
    BY <1>1, <1>6, ClearEffect DEF ForceClears, ForceClearFails
  <2> QED
    BY <1>1, <2>1, HeldKept DEF MovesTo
<1>7. CASE OrderRecorded(t) \/ CancelRecorded(t)
  <2>1. /\ task[t].pc \in {"placed", "cancelled"}
        /\ Raise(t) \/ Continue(t, task[t].op, Later(t), grid)
    BY <1>7, Zenon DEF OrderRecorded, CancelRecorded
  <2>2. Later(t) \in SUBSET Action /\ task[t].op \in Op /\ Later(t) \subseteq task[t].rest
    BY <1>1, <2>1, NowInPlan, OpOfPlan DEF Later
  <2> QED
    BY <1>1, <1>5, <2>1, <2>2, ContinuesHeld
<1> QED
  BY <1>2, <1>3, <1>4, <1>5, <1>6, <1>7 DEF PlaceFails, CancelFails

LEMMA NextHeldBids == ASSUME OneCall PROVE BreakerInv /\ HeldBids /\ [Next]_vars => HeldBids'
<1> SUFFICES ASSUME BreakerInv, HeldBids, [Next]_vars PROVE HeldBids'
  OBVIOUS
<1>1. NamesInv
  BY DEF BreakerInv
<1>2. ASSUME NEW t \in Task, Call(t) PROVE HeldBids'
  BY <1>1, <1>2, TicksHeld, CallsHeld DEF Call
<1>3. ASSUME NEW t \in Task, Proceed(t) PROVE HeldBids'
  BY <1>1, <1>3, TicksHeld, ProceedsHeld DEF Proceed
<1>4. CASE (\E i \in OrderId : OrderFills(i)) \/ NewDay \/ UNCHANGED vars
  BY <1>4 DEF OrderFills, NewDay, vars, HeldBids, Lets, Held
<1> QED
  BY <1>2, <1>3, <1>4 DEF Next

(* Only ExchangePlaces makes an order, and the step's action says which. *)
LEMMA OrderMade ==
  ASSUME BreakerInv, [Next]_vars, NEW i \in OrderId,
         orders[i].state = "absent", orders'[i].side = "buy"
  PROVE  \E t \in Task : ExchangePlaces(t) /\ i = NextId /\ Side(t) = "buy"
<1>1. Types /\ NamesInv
  BY DEF BreakerInv, NamesInv
<1>2. orders[i].side # "buy"
  BY <1>1, Fields DEF Types, OrderRecord
<1>3. ASSUME NEW j \in OrderId \cup {NoId}, Withdraw(j) PROVE FALSE
  BY <1>1, <1>2, <1>3, WithdrawEffect
<1>4. ASSUME NEW j \in OrderId, OrderFills(j) PROVE FALSE
  BY <1>1, <1>2, <1>4, FillsEffect
<1>5. ASSUME NEW j \in OrderId, NEW t \in Task, OnBuyFilled(t, j) \/ OnSellFilled(t, j) PROVE FALSE
  BY <1>1, <1>2, <1>5, ToldEffect DEF OnBuyFilled, OnSellFilled, Untold
<1>6. orders' # orders
  BY <1>2
<1>7. ASSUME NEW t \in Task, Call(t) PROVE FALSE
  BY <1>5, <1>6, <1>7 DEF Call, ResumeGrid, ActivateGrid, PauseGrid, CloseAllGridOrders, ForceBuy,
                          ForceSell, OnPriceUpdate
<1>8. ASSUME NEW t \in Task, Proceed(t) PROVE ExchangePlaces(t)
  <2>1. task[t].id \in OrderId \cup {NoId}
    BY <1>1, Fields
  <2> QED
    BY <1>3, <1>6, <1>8, <2>1
       DEF Proceed, ExchangeDisarms, Disarmed, DisarmFails, OrderRecorded, PlaceFails,
           ExchangeCancels, CancelRecorded, CancelFails, ForceClears, ForceClearFails
<1>9. PICK t \in Task : ExchangePlaces(t)
  BY <1>4, <1>6, <1>7, <1>8 DEF Next, NewDay, vars
<1>10. /\ orders'[NextId] = [level |-> Now(t).level, side |-> Side(t), state |-> "live",
                             told |-> FALSE]
       /\ \A j \in OrderId \ {NextId} : orders'[j] = orders[j]
  BY <1>1, <1>9, PlacesEffect
<1> QED
  BY <1>2, <1>9, <1>10

(* While the breaker is triggered, a tick places no bid but those that     *)
(* WIDEN_STEP allows: its plan was made by the breaker's own verdict, and  *)
(* nothing moves the breaker until the plan is done.                       *)
THEOREM TriggeredHoldsBuys == ASSUME OneCall PROVE Spec => BreakerHoldsBuys
<1>1. Init => HeldBids
  BY IdleType DEF Init, HeldBids
<1>2. BreakerInv /\ HeldBids /\ [Next]_vars => HeldBids'
  BY NextHeldBids
<1>3. BreakerInv /\ HeldBids /\ [Next]_vars =>
        [\A i \in OrderId, t \in Task :
           orders[i].state = "absent" /\ orders'[i].side = "buy" /\ task[t].op = "tick"
             /\ task'[t].id = i
             => \/ ~breaker.triggered
                \/ breaker.mode = "widen_step" /\ orders'[i].level % Widen = 0]_vars
  <2> SUFFICES ASSUME BreakerInv, HeldBids, [Next]_vars, NEW i \in OrderId, NEW t \in Task,
                      orders[i].state = "absent", orders'[i].side = "buy", task[t].op = "tick"
               PROVE  Held(orders'[i].level)
    BY DEF Held
  <2>1. ExchangePlaces(t) /\ i = NextId /\ Side(t) = "buy"
    BY OrderMade DEF OneCall
  <2>2. /\ Now(t) \in task[t].rest
        /\ orders'[NextId] = [level |-> Now(t).level, side |-> Side(t), state |-> "live",
                              told |-> FALSE]
    <3>1. NamesInv
      BY DEF BreakerInv
    <3> QED
      BY <2>1, <3>1, PlacesEffect
  <2>3. Now(t).kind # "sell"
    BY <2>1 DEF Side
  <2>4. Lets(task[t].rest)
    BY <2>1 DEF HeldBids, ExchangePlaces
  <2> QED
    BY <2>1, <2>2, <2>3, <2>4 DEF Lets
<1> QED
  BY <1>1, <1>2, <1>3, NamesAndBreaker, PTL DEF Spec, BreakerHoldsBuys

-----------------------------------------------------------------------------
(* Counting filled orders.                                                 *)

LEMMA CountNat ==
  ASSUME NEW l, NEW side, NEW state
  PROVE  Count(l, side, state) \in Nat
<1> DEFINE S == {i \in OrderId : /\ orders[i].level = l
                                 /\ orders[i].side = side
                                 /\ orders[i].state = state}
<1>1. IsFiniteSet(OrderId) /\ S \subseteq OrderId
  BY FS_Interval, BoundAssumption DEF OrderId
<1>2. IsFiniteSet(S)
  BY <1>1, FS_Subset
<1>3. Cardinality(S) \in Nat
  BY <1>2, FS_CardinalityType
<1> QED
  BY <1>2, <1>3 DEF Count

(* A step that fills nothing. *)
LEMMA SameFilled ==
  ASSUME \A j \in OrderId :
           /\ orders'[j].state = "filled" <=> orders[j].state = "filled"
           /\ orders[j].state = "filled" =>
                orders'[j].level = orders[j].level /\ orders'[j].side = orders[j].side
  PROVE  \A l : Bought(l)' = Bought(l) /\ Sold(l)' = Sold(l)
<1>1. ASSUME NEW l, NEW side PROVE Count(l, side, "filled")' = Count(l, side, "filled")
  <2> DEFINE S == {i \in OrderId : /\ orders[i].level = l
                                   /\ orders[i].side = side
                                   /\ orders[i].state = "filled"}
  <2>1. S' = S
    OBVIOUS
  <2>2. Cardinality(S)' = Cardinality(S)
    BY <2>1
  <2> QED
    BY <2>2 DEF Count
<1> QED
  BY <1>1 DEF Bought, Sold

(* A fill is one more filled order of its level and side. *)
LEMMA OneFilled ==
  ASSUME Types, NEW i \in OrderId, OrderFills(i), NEW l, NEW side
  PROVE  Count(l, side, "filled")' =
           IF l = orders[i].level /\ side = orders[i].side
           THEN Count(l, side, "filled") + 1 ELSE Count(l, side, "filled")
<1> DEFINE S == {j \in OrderId : /\ orders[j].level = l
                                 /\ orders[j].side = side
                                 /\ orders[j].state = "filled"}
<1>1. /\ orders[i].state = "live" /\ orders'[i].state = "filled"
      /\ orders'[i].level = orders[i].level /\ orders'[i].side = orders[i].side
      /\ \A j \in OrderId \ {i} : orders'[j] = orders[j]
  BY FillsEffect
<1>2. IsFiniteSet(S) /\ i \notin S
  <2>1. IsFiniteSet(S)
    <3>1. IsFiniteSet(OrderId) /\ S \subseteq OrderId
      BY FS_Interval, BoundAssumption DEF OrderId
    <3> QED
      BY <3>1, FS_Subset
  <2>2. i \notin S
    BY <1>1
  <2> QED
    BY <2>1, <2>2
<1>3. S' = IF l = orders[i].level /\ side = orders[i].side THEN S \cup {i} ELSE S
  BY <1>1
<1>4. Cardinality(S \cup {i}) = Cardinality(S) + 1
  BY <1>2, FS_AddElement
<1>5. Count(l, side, "filled") = Cardinality(S) /\ Count(l, side, "filled")' = Cardinality(S')
  BY DEF Count
<1> HIDE DEF S
<1> QED
  BY <1>3, <1>4, <1>5

-----------------------------------------------------------------------------
(* What a level's soundness depends on.                                    *)

Mine(l, j) == orders[j].state # "absent" /\ orders[j].level = l

LEMMA SoundKept ==
  ASSUME Types, NEW l \in Level, NEW p \in OrderId \cup {NoId}, Sound(l, p),
         level'[l] = level[l],
         \A j \in OrderId : orders'[j] = orders[j] \/ (~Mine(l, j) /\ ~Mine(l, j)')
  PROVE  Sound(l, p)'
<1>1. Bought(l)' = Bought(l) /\ Sold(l)' = Sold(l)
  <2>1. ASSUME NEW side PROVE Count(l, side, "filled")' = Count(l, side, "filled")
    <3> DEFINE S == {i \in OrderId : /\ orders[i].level = l
                                     /\ orders[i].side = side
                                     /\ orders[i].state = "filled"}
    <3>1. S' = S
      BY DEF Mine
    <3>2. Cardinality(S)' = Cardinality(S)
      BY <3>1
    <3> QED
      BY <3>2 DEF Count
  <2> QED
    BY <2>1 DEF Bought, Sold
<1>2. \A i \in OrderId : orders[i].side \in {"buy", "sell"} /\ orders[i].level = l =>
                           orders'[i] = orders[i]
  BY Fields DEF Mine
<1>3. \A i \in OrderId \cup {NoId} : Others(l, i) => Others(l, i)'
  BY DEF Others, Settled, Mine
<1>4. \A i \in OrderId : (Bids(l, i) => Bids(l, i)') /\ (Offers(l, i) => Offers(l, i)')
  BY <1>1, <1>2, <1>3 DEF Bids, Offers
<1>5. (\A j \in OrderId : orders[j].level = l => orders[j].state # "live")
        => \A j \in OrderId : orders'[j].level = l => orders'[j].state # "live"
  BY DEF Mine
<1> QED
  BY <1>1, <1>3, <1>4, <1>5 DEF Sound

-----------------------------------------------------------------------------
(* Plans.                                                                  *)

Kinds == {"buy", "sell", "cancelBuy", "cancelSell"}

LEMMA PlacingId ==
  ASSUME Types, NEW t \in Task, NEW l
  PROVE  /\ Placing(t, l) \in OrderId \cup {NoId}
         /\ task[t].pc # "placed" => Placing(t, l) = NoId
BY Fields DEF Placing

(* What the level's own orders are, in a word. *)
LEMMA LevelSound ==
  ASSUME SerialInv, NEW t \in Task, NEW l \in Level
  PROVE  \E p \in OrderId \cup {NoId} : p = Placing(t, l) /\ Sound(l, p)
BY PlacingId DEF SerialInv, BreakerInv, NamesInv, Sounds

(* The planner's plans suit the levels. *)
LEMMA PlansSuit ==
  ASSUME SerialInv, OneCall
  PROVE  /\ \A price : Suited(PlanInitial(price)) /\ Suited(Sells(price))
         /\ \A price, skip : Suited(Buys(price, skip) \cup Sells(price))
         /\ Suited(PlanCancelAll)
         /\ \A l \in Level : level[l].status = "OPEN" <=> \E a \in PlanCancelAll : a.level = l
<1>1. \A price, skip : Suited(Buys(price, skip) \cup Sells(price))
  BY DEF Suited, Suits, Buys, Sells, Do
<1>2. \A price : Suited(PlanInitial(price)) /\ Suited(Sells(price))
  BY DEF Suited, Suits, PlanInitial, Sells, Do
<1>3. PICK t : Task = {t}
  BY DEF OneCall
<1>4. ASSUME NEW l \in Level, level[l].status = "OPEN"
      PROVE  level[l].buy # NoId \/ (level[l].buy = NoId /\ level[l].sell # NoId)
  <2>1. PICK p \in OrderId \cup {NoId} : Sound(l, p)
    BY <1>3, LevelSound
  <2>2. NoId \notin OrderId
    BY DEF NoId, OrderId
  <2> QED
    BY <1>4, <2>1, <2>2 DEF Sound
<1> DEFINE undo(l) == IF level[l].buy # NoId THEN Undo(l, "cancelBuy", level[l].buy)
                                             ELSE Undo(l, "cancelSell", level[l].sell)
<1>5. PlanCancelAll = {undo(l) : l \in {k \in Level : level[k].status = "OPEN"}}
  BY <1>4 DEF PlanCancelAll
<1>6. ASSUME NEW l \in Level, level[l].status = "OPEN"
      PROVE  undo(l).level = l /\ Suits(undo(l))
  BY <1>4, <1>6 DEF Undo, Suits
<1> HIDE DEF undo
<1>7. Suited(PlanCancelAll)
  BY <1>5, <1>6 DEF Suited
<1>8. \A l \in Level : level[l].status = "OPEN" <=> \E a \in PlanCancelAll : a.level = l
  BY <1>5, <1>6
<1> QED
  BY <1>1, <1>2, <1>7, <1>8

(* The first call of a plan of the planner's. *)
LEMMA BeginSerial ==
  ASSUME Types, NEW rest \in SUBSET Action, rest # {}, \A a \in rest : a.kind \in Kinds,
         NEW op \in Op
  PROVE  /\ Begin(op, rest).pc \in {"call", "cancel"}
         /\ Begin(op, rest).pc = "call" => Head(rest).kind \in {"buy", "sell"}
         /\ Begin(op, rest).pc = "cancel" =>
              Head(rest).kind \in {"cancelBuy", "cancelSell"} /\ Begin(op, rest).id = Head(rest).id
         /\ Begin(op, rest).op = op /\ Begin(op, rest).rest = rest
<1> DEFINE a == Head(rest)
<1>1. a.kind \in Kinds
  BY HeadOfPlan
<1>2. Begin(op, rest) =
        IF a.kind \in {"cancelBuy", "cancelSell"}
        THEN [Idle EXCEPT !.pc = "cancel", !.op = op, !.rest = rest, !.id = a.id]
        ELSE IF a.kind \in {"forceBuy", "forceSell"} /\ Named(a) # NoId
        THEN [Idle EXCEPT !.pc = "clear", !.op = op, !.rest = rest, !.id = Named(a)]
        ELSE [Idle EXCEPT !.pc = "call", !.op = op, !.rest = rest]
  BY DEF Begin
<1> HIDE DEF a
<1>3. CASE a.kind \in {"cancelBuy", "cancelSell"}
  BY <1>2, <1>3 DEF Idle, a
<1>4. CASE a.kind \in {"buy", "sell"}
  BY <1>2, <1>4 DEF Idle, a
<1> QED
  BY <1>1, <1>3, <1>4 DEF Kinds

(* A plan that suits the levels as the step leaves them. *)
LEMMA PlanBegun ==
  ASSUME Types, NEW t \in Task, Task = {t}, NEW rest \in SUBSET Action,
         NEW status \in DOMAIN GRID_TRANSITIONS, NEW op \in Op, Continue(t, op, rest, status),
         Suited(rest)',
         op = "pause" => \A l \in Level : level'[l].status = "OPEN" <=> \E a \in rest : a.level = l,
         status = "paused" => rest = {} /\ \A l \in Level : level'[l].status # "OPEN"
  PROVE  /\ Planned(t)' /\ Paused'
         /\ \A l : Placing(t, l)' = NoId
<1>1. \A a \in rest : a.kind \in Kinds
  BY DEF Suited, Suits, Kinds
<1>2. /\ task'[t].rest = rest /\ (task'[t].pc # "idle" <=> rest # {})
      /\ task'[t].pc \in {"idle", "cancel", "clear", "call"}
      /\ rest = {} => task'[t] = Idle
      /\ rest # {} => task'[t] = Begin(op, rest)
  BY ContinueEffect
<1>3. Now(t)' = Head(rest)
  BY <1>2 DEF Now
<1>4. /\ task'[t].pc \in {"idle", "call", "cancel"}
      /\ task'[t].pc = "call" => Head(rest).kind \in {"buy", "sell"}
      /\ task'[t].pc = "cancel" =>
           Head(rest).kind \in {"cancelBuy", "cancelSell"} /\ task'[t].id = Head(rest).id
      /\ task'[t].op \in {"none", op} /\ (task'[t].pc = "idle" => task'[t].op = "none")
  <2>1. CASE rest = {}
    BY <1>2, <2>1, IdleType
  <2>2. CASE rest # {}
    BY <1>1, <1>2, <2>2, BeginSerial
  <2> QED
    BY <2>1, <2>2
<1>5. Suited(task[t].rest)'
  BY <1>2 DEF Suited
<1>6. Planned(t)'
  BY <1>2, <1>3, <1>4, <1>5 DEF Planned
<1>7. grid' = status \/ (rest = {} /\ op = "pause")
  BY DEF Continue
<1>8. Paused'
  BY <1>2, <1>7 DEF Paused
<1>9. \A l : Placing(t, l)' = NoId
  BY <1>4 DEF Placing
<1> QED
  BY <1>6, <1>8, <1>9

-----------------------------------------------------------------------------
(* Calls, when coroutines come one at a time.                              *)

(* A step at level k alone. *)
LEMMA SoundsMoved ==
  ASSUME SerialInv, NEW t \in Task, Task = {t}, NEW k \in Level,
         \A l \in Level \ {k} : level'[l] = level[l] /\ Placing(t, l)' = Placing(t, l),
         \A j \in OrderId : \/ orders'[j] = orders[j]
                            \/ /\ orders[j].state = "absent" \/ orders[j].level = k
                               /\ orders'[j].state = "absent" \/ orders'[j].level = k,
         \A p \in OrderId \cup {NoId} : p = Placing(t, k)' => Sound(k, p)'
  PROVE  Sounds'
<1>1. Types /\ Sounds
  BY DEF SerialInv, BreakerInv, NamesInv
<1>2. ASSUME NEW l \in Level \ {k}, NEW p \in OrderId \cup {NoId}, p = Placing(t, l)'
      PROVE  Sound(l, p)'
  <2>1. Sound(l, p)
    BY <1>1, <1>2 DEF Sounds
  <2>2. \A j \in OrderId : orders'[j] = orders[j] \/ (~Mine(l, j) /\ ~Mine(l, j)')
    BY DEF Mine
  <2> QED
    BY <1>1, <2>1, <2>2, SoundKept
<1>3. ASSUME NEW l \in Level, NEW p \in OrderId \cup {NoId}, p = Placing(t, l)'
      PROVE  Sound(l, p)'
  BY <1>2, <1>3
<1> QED
  BY <1>3 DEF Sounds

(* A step that leaves levels and orders alone. *)
LEMMA SoundsSame ==
  ASSUME SerialInv, NEW t \in Task, Task = {t}, UNCHANGED <<level, orders>>,
         \A l \in Level : Placing(t, l)' = Placing(t, l)
  PROVE  Sounds'
<1>1. Types /\ Sounds
  BY DEF SerialInv, BreakerInv, NamesInv
<1>2. ASSUME NEW l \in Level, NEW p \in OrderId \cup {NoId}, p = Placing(t, l)'
      PROVE  Sound(l, p)'
  <2>1. Sound(l, p)
    BY <1>1, <1>2 DEF Sounds
  <2> QED
    BY <1>1, <2>1, SoundKept
<1> QED
  BY <1>2 DEF Sounds

LEMMA StartsSerial ==
  ASSUME SerialInv, BreakerInv', NEW t \in Task, Task = {t}, task[t].pc = "idle",
         UNCHANGED <<level, orders>>,
         NEW rest \in SUBSET Action, NEW op \in Op, NEW status \in {grid, "active"},
         Continue(t, op, rest, status), Suited(rest),
         op = "pause" => \A l \in Level : level[l].status = "OPEN" <=> \E a \in rest : a.level = l,
         status = "paused" => rest = {}
  PROVE  SerialInv'
<1>1. Types /\ status \in DOMAIN GRID_TRANSITIONS
  BY DEF SerialInv, BreakerInv, NamesInv, Types, GRID_TRANSITIONS
<1>2. Suited(rest)'
  BY DEF Suited, Suits
<1>3. status = "paused" => \A l \in Level : level'[l].status # "OPEN"
  BY DEF SerialInv, Paused
<1>4. Planned(t)' /\ Paused' /\ \A l : Placing(t, l)' = NoId
  BY <1>1, <1>2, <1>3, PlanBegun
<1>5. \A l : Placing(t, l) = NoId
  BY <1>1, PlacingId
<1>6. Sounds'
  BY <1>4, <1>5, SoundsSame
<1> QED
  BY <1>4, <1>6 DEF SerialInv

LEMMA CallsSerial ==
  ASSUME SerialInv, BreakerInv', NEW t \in Task, Task = {t},
         \/ \E price \in Price : ResumeGrid(t, price) \/ ActivateGrid(t, price)
         \/ PauseGrid(t) \/ CloseAllGridOrders(t)
  PROVE  SerialInv'
<1>1. /\ Types /\ OneCall /\ BreakerInv
      /\ UNCHANGED <<level, orders>> /\ task[t].pc = "idle"
  BY DEF SerialInv, BreakerInv, NamesInv, OneCall, ResumeGrid, ActivateGrid, PauseGrid,
         CloseAllGridOrders
<1>2. {"activate", "pause", "resume", "close"} \subseteq Op
  BY DEF Op
<1>3. ASSUME NEW price \in Price, ResumeGrid(t, price) PROVE SerialInv'
  <2>1. Plan(price, {}) \in SUBSET Action /\ Suited(Plan(price, {}))
    BY <1>1, Plans, PlansSuit DEF Plan
  <2>2. Continue(t, "resume", Plan(price, {}), "active")
    BY <1>3 DEF ResumeGrid
  <2> QED
    BY <1>1, <1>2, <2>1, <2>2, StartsSerial
<1>4. ASSUME NEW price \in Price, ActivateGrid(t, price) PROVE SerialInv'
  <2>1. PlanInitial(price) \in SUBSET Action /\ Suited(PlanInitial(price))
    BY <1>1, Plans, PlansSuit
  <2>2. Continue(t, "activate", PlanInitial(price), "active")
    BY <1>4 DEF ActivateGrid
  <2> QED
    BY <1>1, <1>2, <2>1, <2>2, StartsSerial
<1>5. CASE PauseGrid(t) \/ CloseAllGridOrders(t)
  <2>1. /\ PlanCancelAll \in SUBSET Action /\ Suited(PlanCancelAll)
        /\ \A l \in Level : level[l].status = "OPEN" <=> \E a \in PlanCancelAll : a.level = l
    BY <1>1, Plans, PlansSuit
  <2>2. grid = "paused" => PlanCancelAll = {}
    <3>1. \A a \in PlanCancelAll : level[a.level].status = "OPEN" /\ a.level \in Level
      BY <2>1 DEF Action
    <3> QED
      BY <3>1 DEF SerialInv, Paused
  <2>3. Continue(t, "pause", PlanCancelAll, grid) \/ Continue(t, "close", PlanCancelAll, grid)
    BY <1>5 DEF PauseGrid, CloseAllGridOrders
  <2> QED
    BY <1>1, <1>2, <2>1, <2>2, <2>3, StartsSerial
<1> QED
  BY <1>3, <1>4, <1>5

LEMMA DecideSerial ==
  ASSUME SerialInv, BreakerInv', NEW t \in Task, Task = {t}, task[t].pc = "idle",
         UNCHANGED <<level, orders>>, grid = "active",
         NEW price \in Price, NEW b, Knows(b), NEW tripped \in BOOLEAN,
         Decide(t, price, b, tripped)
  PROVE  SerialInv'
<1>1. BreakerInv /\ Types /\ OneCall /\ "tick" \in Op
  BY DEF SerialInv, BreakerInv, NamesInv, OneCall, Op
<1>2. TickPlans(t, price, tripped)
  BY <1>1, DecideEffect
<1>3. PICK bids : /\ bids = {} \/ \E skip : bids = Buys(price, skip)
                  /\ bids \cup Sells(price) \in SUBSET Action
                  /\ Continue(t, "tick", bids \cup Sells(price), grid)
  BY <1>2 DEF TickPlans
<1> DEFINE plan == bids \cup Sells(price)
<1>4. Suited(plan)
  <2>1. bids = {} => plan = Sells(price)
    OBVIOUS
  <2> QED
    BY <1>1, <1>3, <2>1, PlansSuit
<1>5. plan \in SUBSET Action /\ Continue(t, "tick", plan, grid)
  BY <1>3
<1> HIDE DEF plan
<1> QED
  BY <1>1, <1>4, <1>5, StartsSerial

(* No level that waits names a bid, so a tick has nothing to disarm. *)
LEMMA TickSerial ==
  ASSUME SerialInv, BreakerInv', NEW t \in Task, Task = {t},
         NEW price \in Price, OnPriceUpdate(t, price)
  PROVE  SerialInv'
<1>1. BreakerInv
  BY DEF SerialInv
<1>2. /\ task[t].pc = "idle" /\ grid = "active" /\ UNCHANGED <<level, day, orders>>
      /\ \/ \E l \in Level : Pending(l) /\ Disarm(t, price, Level) /\ grid' = grid
         \/ \E b : \E tripped \in BOOLEAN : Knows(b) /\ Decide(t, price, b, tripped)
  BY <1>1, TickEffect
<1>3. ASSUME NEW l \in Level PROVE ~Pending(l)
  <2>1. PICK p \in OrderId \cup {NoId} : Sound(l, p)
    BY LevelSound
  <2> QED
    BY <2>1 DEF Sound, Pending
<1>4. ASSUME NEW b, NEW tripped \in BOOLEAN, Knows(b), Decide(t, price, b, tripped)
      PROVE  SerialInv'
  BY <1>2, <1>4, DecideSerial
<1> QED
  BY <1>2, <1>3, <1>4

-----------------------------------------------------------------------------
(* A plan at work.                                                         *)

(* The action at hand, and the rest of the plan. *)
LEMMA AtHand ==
  ASSUME SerialInv, NEW t \in Task, task[t].pc # "idle"
  PROVE  /\ Now(t) \in task[t].rest /\ Now(t) \in Action /\ Now(t).level \in Level
         /\ Suits(Now(t)) /\ Now(t).kind \in Kinds
         /\ Later(t) \in SUBSET Action /\ task[t].op \in Op
         /\ \A a \in Later(t) : Suits(a) /\ a.level # Now(t).level /\ a.level \in Level
         /\ \A a, b \in Later(t) : a.level = b.level => a = b
<1>1. NamesInv /\ Planned(t)
  BY DEF SerialInv, BreakerInv
<1>2. /\ Now(t) \in task[t].rest /\ Now(t) \in Action /\ Now(t).level \in Level
      /\ Later(t) \in SUBSET Action
  BY <1>1, NowInPlan
<1>3. Suited(task[t].rest)
  BY <1>1 DEF Planned
<1>4. Suits(Now(t)) /\ Now(t).kind \in Kinds
  BY <1>2, <1>3 DEF Suited, Suits, Kinds
<1>5. \A a \in Later(t) : Suits(a) /\ a.level # Now(t).level
  BY <1>2, <1>3 DEF Suited, Later
<1>6. \A a, b \in Later(t) : a.level = b.level => a = b
  BY <1>3 DEF Suited, Later
<1>7. \A a \in Later(t) : a.level \in Level
  BY <1>2 DEF Action
<1> QED
  BY <1>1, <1>2, <1>4, <1>5, <1>6, <1>7, OpOfPlan

(* The exchange takes the order: the level bids or offers, untold.         *)
LEMMA PlacesSerial ==
  ASSUME SerialInv, BreakerInv', NEW t \in Task, Task = {t}, ExchangePlaces(t)
  PROVE  SerialInv'
<1>1. NamesInv /\ Types /\ Planned(t) /\ task[t].pc = "call" /\ Sounds /\ Paused
  BY DEF SerialInv, BreakerInv, NamesInv, ExchangePlaces
<1> PICK k \in Level : k = Now(t).level
  BY <1>1, AtHand
<1> PICK n \in OrderId : n = NextId
  BY <1>1, PlacesEffect
<1>2. /\ n \notin Placed
      /\ orders'[n] = [level |-> Now(t).level, side |-> Side(t), state |-> "live", told |-> FALSE]
      /\ \A j \in OrderId \ {n} : orders'[j] = orders[j]
      /\ task'[t].pc = "placed" /\ task'[t].id = n
      /\ task'[t].rest = task[t].rest /\ task'[t].op = task[t].op
  BY <1>1, PlacesEffect
<1>3. UNCHANGED <<grid, level, breaker, day>>
  BY DEF ExchangePlaces
<1>4. Now(t)' = Now(t)
  BY <1>2 DEF Now
<1>5. Suits(Now(t)) /\ Now(t).kind \in {"buy", "sell"}
  BY <1>1, AtHand DEF Planned
<1>6. \A l \in Level : Placing(t, l) = NoId /\ Placing(t, l)' = IF l = k THEN n ELSE NoId
  BY <1>1, <1>2, <1>4 DEF Placing
<1>7. Bought(k)' = Bought(k) /\ Sold(k)' = Sold(k)
  BY <1>2, SameFilled DEF Placed
<1>8. Sound(k, NoId)
  BY <1>1, <1>6 DEF Sounds
<1>9. Others(k, NoId) => Others(k, n)'
  BY <1>2 DEF Others, Settled, NoId, OrderId
<1>10. n # NoId
  BY DEF NoId, OrderId
<1>11. Sound(k, n)'
  <2>1. CASE Now(t).kind = "buy"
    <3>1. level[k].status \in {"WAITING", "TP_HIT"} /\ Side(t) = "buy"
      BY <1>5, <2>1 DEF Suits, Side
    <3>2. Bids(k, n)'
      BY <1>2, <1>7, <1>8, <1>9, <3>1 DEF Sound, Bids
    <3> QED
      BY <1>3, <1>8, <1>10, <3>1, <3>2 DEF Sound
  <2>2. CASE Now(t).kind = "sell"
    <3>1. level[k].status = "FILLED" /\ Side(t) = "sell"
      BY <1>5, <2>2 DEF Suits, Side
    <3>2. Offers(k, n)'
      BY <1>2, <1>7, <1>8, <1>9, <3>1 DEF Sound, Offers
    <3> QED
      BY <1>3, <1>8, <1>10, <3>1, <3>2 DEF Sound
  <2> QED
    BY <1>5, <2>1, <2>2
<1>12. Sounds'
  <2>1. \A l \in Level \ {k} : level'[l] = level[l] /\ Placing(t, l)' = Placing(t, l)
    BY <1>3, <1>6
  <2>2. \A j \in OrderId : \/ orders'[j] = orders[j]
                           \/ /\ orders[j].state = "absent" \/ orders[j].level = k
                              /\ orders'[j].state = "absent" \/ orders'[j].level = k
    BY <1>2 DEF Placed
  <2>3. \A p \in OrderId \cup {NoId} : p = Placing(t, k)' => Sound(k, p)'
    BY <1>6, <1>11
  <2> QED
    BY <2>1, <2>2, <2>3, SoundsMoved
<1>13. Planned(t)'
  <2>1. Suited(task[t].rest)'
    BY <1>1, <1>2, <1>3 DEF Planned, Suited, Suits
  <2> QED
    BY <1>1, <1>2, <1>3, <1>4, <1>5, <2>1 DEF Planned
<1>14. Paused'
  BY <1>1, <1>3 DEF Paused
<1> QED
  BY <1>12, <1>13, <1>14 DEF SerialInv

(* The exchange withdraws the order, or finds it filled.                   *)
LEMMA CancelsSerial ==
  ASSUME SerialInv, BreakerInv', NEW t \in Task, Task = {t}, ExchangeCancels(t)
  PROVE  SerialInv'
<1>1. NamesInv /\ Types /\ Planned(t) /\ task[t].pc = "cancel" /\ Sounds /\ Paused
  BY DEF SerialInv, BreakerInv, NamesInv, ExchangeCancels
<1> PICK k \in Level : k = Now(t).level
  BY <1>1, AtHand
<1>2. /\ Suits(Now(t)) /\ Now(t).kind \in {"cancelBuy", "cancelSell"}
      /\ task[t].id = Now(t).id
  BY <1>1, AtHand DEF Planned
<1>3. MovesTo(t, "cancelled", task[t].id)
  BY <1>1, PcEffect DEF ExchangeCancels
<1>4. Now(t)' = Now(t)
  BY <1>3 DEF Now, MovesTo
<1>5. \A l \in Level : Placing(t, l) = NoId /\ Placing(t, l)' = NoId
  BY <1>1, <1>3 DEF Placing, MovesTo
<1>6. UNCHANGED <<grid, level, breaker, day>>
  BY DEF ExchangeCancels
<1>7. Sound(k, NoId) /\ level[k].status = "OPEN"
  BY <1>1, <1>2, <1>5 DEF Sounds, Suits
<1>8. PICK i \in OrderId : \/ level[k].buy = i /\ level[k].sell = NoId /\ Bids(k, i)
                           \/ level[k].buy = NoId /\ level[k].sell = i /\ Offers(k, i)
  BY <1>7 DEF Sound
<1>9. task[t].id = i
  BY <1>2, <1>8 DEF Suits, NoId, OrderId
<1>10. \A j \in OrderId :
         /\ orders'[j].level = orders[j].level /\ orders'[j].side = orders[j].side
         /\ orders'[j].told = orders[j].told
         /\ orders'[j].state = IF j = i /\ orders[j].state = "live" THEN "cancelled"
                               ELSE orders[j].state
         /\ j # i => orders'[j] = orders[j]
  <2>1. Withdraw(i)
    BY <1>9 DEF ExchangeCancels
  <2> QED
    BY <1>1, <2>1, WithdrawEffect
<1>11. Bought(k)' = Bought(k) /\ Sold(k)' = Sold(k)
  BY <1>10, SameFilled
<1>12. Sound(k, NoId)'
  <2>1. Others(k, i) => Others(k, i)'
    BY <1>10 DEF Others, Settled
  <2>2. (Bids(k, i) => Bids(k, i)') /\ (Offers(k, i) => Offers(k, i)')
    BY <1>10, <1>11, <2>1 DEF Bids, Offers
  <2> QED
    BY <1>6, <1>7, <1>8, <2>2 DEF Sound
<1>13. Sounds'
  <2>1. \A l \in Level \ {k} : level'[l] = level[l] /\ Placing(t, l)' = Placing(t, l)
    BY <1>5, <1>6
  <2>2. orders[i].level = k
    BY <1>8 DEF Bids, Offers
  <2>3. \A j \in OrderId : \/ orders'[j] = orders[j]
                           \/ /\ orders[j].state = "absent" \/ orders[j].level = k
                              /\ orders'[j].state = "absent" \/ orders'[j].level = k
    BY <1>10, <2>2
  <2>4. \A p \in OrderId \cup {NoId} : p = Placing(t, k)' => Sound(k, p)'
    BY <1>5, <1>12
  <2> QED
    BY <2>1, <2>3, <2>4, SoundsMoved
<1>14. Planned(t)'
  <2>1. Suited(task[t].rest)'
    BY <1>1, <1>3, <1>6 DEF Planned, Suited, Suits, MovesTo
  <2>2. orders'[task'[t].id].state # "live"
    BY <1>3, <1>9, <1>10 DEF MovesTo
  <2> QED
    BY <1>1, <1>2, <1>3, <1>4, <1>6, <2>1, <2>2 DEF Planned, MovesTo
<1>15. Paused'
  BY <1>1, <1>6 DEF Paused
<1> QED
  BY <1>13, <1>14, <1>15 DEF SerialInv

(* The level the step ends an action of, the others and the orders as they *)
(* were, and the coroutine on to the rest of its plan.                     *)
LEMMA RecordedSerial ==
  ASSUME SerialInv, BreakerInv', NEW t \in Task, Task = {t}, task[t].pc # "idle",
         NEW k \in Level, k = Now(t).level,
         level' \in [Level -> LevelRecord], \A l \in Level \ {k} : level'[l] = level[l],
         orders' = orders, Sound(k, NoId)',
         task[t].op = "pause" => level'[k].status # "OPEN",
         Continue(t, task[t].op, Later(t), grid)
  PROVE  SerialInv'
<1>1. NamesInv /\ Types /\ Planned(t) /\ Sounds /\ Paused /\ grid \in DOMAIN GRID_TRANSITIONS
  BY DEF SerialInv, BreakerInv, NamesInv, Types
<1> PICK rest \in SUBSET Action : rest = Later(t)
  BY AtHand
<1>2. /\ task[t].op \in Op
      /\ \A a \in rest : Suits(a) /\ a.level # k /\ a.level \in Level
      /\ \A a, b \in rest : a.level = b.level => a = b
  BY AtHand
<1>3. Suited(rest)'
  BY <1>2 DEF Suited, Suits
<1>4. grid # "paused"
  BY <1>1 DEF Paused
<1>5. task[t].op = "pause" => \A l \in Level : level'[l].status = "OPEN" <=> \E a \in rest : a.level = l
  <2> SUFFICES ASSUME task[t].op = "pause", NEW l \in Level
               PROVE  level'[l].status = "OPEN" <=> \E a \in rest : a.level = l
    OBVIOUS
  <2>1. CASE l = k
    BY <1>2, <2>1
  <2>2. CASE l # k
    <3>1. level[l].status = "OPEN" <=> \E a \in task[t].rest : a.level = l
      BY <1>1 DEF Planned
    <3>2. \A a \in task[t].rest : a \in rest \/ a.level = k
      BY DEF Later
    <3>3. rest \subseteq task[t].rest
      BY DEF Later
    <3> QED
      BY <2>2, <3>1, <3>2, <3>3
  <2> QED
    BY <2>1, <2>2
<1>6. Planned(t)' /\ Paused' /\ \A l : Placing(t, l)' = NoId
  BY <1>1, <1>2, <1>3, <1>4, <1>5, PlanBegun
<1>7. \A l \in Level \ {k} : Placing(t, l) = NoId
  BY DEF Placing
<1>8. Sounds'
  BY <1>6, <1>7, SoundsMoved
<1> QED
  BY <1>6, <1>8 DEF SerialInv

(* The level opens: it may, being flat or holding. *)
LEMMA OpenEffect ==
  ASSUME SerialInv, NEW t \in Task, OrderRecorded(t)
  PROVE  \E k \in Level, p \in OrderId :
           /\ k = Now(t).level /\ p = task[t].id /\ p = Placing(t, k) /\ Sound(k, p)
           /\ level' \in [Level -> LevelRecord] /\ \A l \in Level \ {k} : level'[l] = level[l]
           /\ level'[k].status = "OPEN"
           /\ \/ /\ level[k].status \in {"WAITING", "TP_HIT"}
                 /\ level'[k].buy = p /\ level'[k].sell = NoId
              \/ /\ level[k].status = "FILLED"
                 /\ level'[k].buy = NoId /\ level'[k].sell = p
           /\ orders' = orders
           /\ Continue(t, task[t].op, Later(t), grid)
<1>1. NamesInv /\ Types /\ Planned(t) /\ Sounds /\ task[t].pc = "placed" /\ AtWork(t)
  BY DEF SerialInv, BreakerInv, NamesInv, OrderRecorded
<1> PICK k \in Level : k = Now(t).level
  BY <1>1, AtHand
<1> PICK p \in OrderId : p = task[t].id
  BY <1>1 DEF AtWork
<1>2. p = Placing(t, k) /\ Sound(k, p)
  BY <1>1 DEF Placing, Sounds
<1>3. Suits(Now(t)) /\ Now(t).kind \in {"buy", "sell"}
  BY <1>1, AtHand DEF Planned
<1>4. /\ level[k].status \in {"WAITING", "TP_HIT", "FILLED"}
      /\ level[k].status = "FILLED" => Side(t) = "sell"
      /\ level[k].status # "FILLED" => Side(t) = "buy"
      /\ Side(t) \in {"buy", "sell"}
  BY <1>3 DEF Suits, Side
<1>5. LevelAllows(k, "OPEN")
  BY <1>4 DEF LevelAllows, LEVEL_TRANSITIONS
<1> DEFINE named == Name(level[k], Side(t), p)
           lv == [named EXCEPT !.status = "OPEN"]
<1>6. /\ level' = [level EXCEPT ![k] = lv] /\ orders' = orders
      /\ Continue(t, task[t].op, Later(t), grid)
  BY <1>3, <1>5 DEF OrderRecorded
<1>7. level[k] \in LevelRecord
  BY <1>1, Fields
<1>8. level[k].buy = NoId /\ level[k].sell = NoId
  BY <1>2, <1>4 DEF Sound
<1>9. /\ named \in LevelRecord
      /\ Side(t) = "buy" => named.buy = p /\ named.sell = NoId
      /\ Side(t) = "sell" => named.sell = p /\ named.buy = NoId
  BY <1>4, <1>7, <1>8, NameType
<1> HIDE DEF named
<1>10. lv \in LevelRecord /\ lv.status = "OPEN" /\ lv.buy = named.buy /\ lv.sell = named.sell
  BY <1>9, StatusType
<1> HIDE DEF lv
<1>11. /\ level' \in [Level -> LevelRecord] /\ level'[k] = lv
       /\ \A l \in Level \ {k} : level'[l] = level[l]
  BY <1>1, <1>6, <1>10, LevelEffect
<1>12. \/ /\ level[k].status \in {"WAITING", "TP_HIT"}
          /\ level'[k].buy = p /\ level'[k].sell = NoId
       \/ /\ level[k].status = "FILLED"
          /\ level'[k].buy = NoId /\ level'[k].sell = p
  BY <1>4, <1>9, <1>10, <1>11
<1> QED
  BY <1>2, <1>6, <1>10, <1>11, <1>12

LEMMA OpensSerial ==
  ASSUME SerialInv, BreakerInv', NEW t \in Task, Task = {t}, OrderRecorded(t)
  PROVE  SerialInv'
<1> PICK k \in Level, p \in OrderId :
           /\ k = Now(t).level /\ p = task[t].id /\ p = Placing(t, k) /\ Sound(k, p)
           /\ level' \in [Level -> LevelRecord] /\ \A l \in Level \ {k} : level'[l] = level[l]
           /\ level'[k].status = "OPEN"
           /\ \/ /\ level[k].status \in {"WAITING", "TP_HIT"}
                 /\ level'[k].buy = p /\ level'[k].sell = NoId
              \/ /\ level[k].status = "FILLED"
                 /\ level'[k].buy = NoId /\ level'[k].sell = p
           /\ orders' = orders
           /\ Continue(t, task[t].op, Later(t), grid)
  BY OpenEffect
<1>1. p # NoId
  BY DEF NoId, OrderId
<1>2. Bought(k)' = Bought(k) /\ Sold(k)' = Sold(k)
  BY DEF Bought, Sold, Count
<1>3. (Bids(k, p) => Bids(k, p)') /\ (Offers(k, p) => Offers(k, p)')
  BY <1>2 DEF Bids, Offers, Others, Settled
<1>4. Sound(k, NoId)'
  BY <1>1, <1>3 DEF Sound
<1>5. task[t].pc # "idle"
  BY DEF OrderRecorded
<1>6. task[t].op # "pause"
  <2>1. Now(t) \in task[t].rest /\ Planned(t)
    BY <1>5, AtHand DEF SerialInv
  <2> QED
    BY <2>1 DEF Planned
<1> QED
  BY <1>4, <1>5, <1>6, RecordedSerial

(* The level is off: its order, found dead or filled, is forgotten. *)
LEMMA OffEffect ==
  ASSUME SerialInv, NEW t \in Task, CancelRecorded(t)
  PROVE  \E k \in Level :
           /\ k = Now(t).level /\ Sound(k, NoId) /\ level[k].status = "OPEN"
           /\ \E i \in OrderId :
                /\ i = task[t].id
                /\ \/ level[k].buy = i /\ Bids(k, i)
                   \/ level[k].buy = NoId /\ Offers(k, i)
           /\ level' \in [Level -> LevelRecord] /\ \A l \in Level \ {k} : level'[l] = level[l]
           /\ level'[k] = [status |-> "CANCELLED", buy |-> NoId, sell |-> NoId]
           /\ orders' = orders
           /\ Continue(t, task[t].op, Later(t), grid)
<1>1. NamesInv /\ Types /\ Planned(t) /\ Sounds /\ task[t].pc = "cancelled"
  BY DEF SerialInv, BreakerInv, NamesInv, CancelRecorded
<1> PICK k \in Level : k = Now(t).level
  BY <1>1, AtHand
<1>2. Sound(k, NoId)
  BY <1>1 DEF Placing, Sounds
<1>3. /\ Suits(Now(t)) /\ Now(t).kind \in {"cancelBuy", "cancelSell"}
      /\ task[t].id = Now(t).id
  BY <1>1, AtHand DEF Planned
<1>4. level[k].status = "OPEN"
  BY <1>3 DEF Suits
<1>5. PICK i \in OrderId : \/ level[k].buy = i /\ level[k].sell = NoId /\ Bids(k, i)
                           \/ level[k].buy = NoId /\ level[k].sell = i /\ Offers(k, i)
  BY <1>2, <1>4 DEF Sound
<1>6. /\ task[t].id = i /\ Side(t) \in {"buy", "sell"}
      /\ level[k].buy = i => Side(t) = "buy" /\ level[k].sell = NoId
      /\ level[k].buy = NoId => Side(t) = "sell"
  BY <1>3, <1>5 DEF Suits, Side, NoId, OrderId
<1>7. LevelAllows(k, "CANCELLED")
  BY <1>4 DEF LevelAllows, LEVEL_TRANSITIONS
<1> DEFINE freed == Name(level[k], Side(t), NoId)
           lv == [freed EXCEPT !.status = "CANCELLED"]
<1>8. /\ level' = [level EXCEPT ![k] = lv] /\ orders' = orders
      /\ Continue(t, task[t].op, Later(t), grid)
  BY <1>7 DEF CancelRecorded
<1>9. level[k] \in LevelRecord
  BY <1>1, Fields
<1>10. freed \in LevelRecord /\ freed.buy = NoId /\ freed.sell = NoId
  BY <1>5, <1>6, <1>9, NameType
<1> HIDE DEF freed
<1>11. lv \in LevelRecord /\ lv.status = "CANCELLED" /\ lv.buy = NoId /\ lv.sell = NoId
  BY <1>10, StatusType
<1> HIDE DEF lv
<1>12. lv = [status |-> "CANCELLED", buy |-> NoId, sell |-> NoId]
  BY <1>11 DEF LevelRecord
<1>13. /\ level' \in [Level -> LevelRecord] /\ level'[k] = lv
       /\ \A l \in Level \ {k} : level'[l] = level[l]
  BY <1>1, <1>8, <1>11, LevelEffect
<1> QED
  BY <1>2, <1>4, <1>5, <1>6, <1>8, <1>12, <1>13

LEMMA OffsSerial ==
  ASSUME SerialInv, BreakerInv', NEW t \in Task, Task = {t}, CancelRecorded(t)
  PROVE  SerialInv'
<1> PICK k \in Level :
           /\ k = Now(t).level /\ Sound(k, NoId) /\ level[k].status = "OPEN"
           /\ \E i \in OrderId :
                /\ i = task[t].id
                /\ \/ level[k].buy = i /\ Bids(k, i)
                   \/ level[k].buy = NoId /\ Offers(k, i)
           /\ level' \in [Level -> LevelRecord] /\ \A l \in Level \ {k} : level'[l] = level[l]
           /\ level'[k] = [status |-> "CANCELLED", buy |-> NoId, sell |-> NoId]
           /\ orders' = orders
           /\ Continue(t, task[t].op, Later(t), grid)
  BY OffEffect
<1> PICK i \in OrderId : /\ i = task[t].id
                         /\ \/ level[k].buy = i /\ Bids(k, i)
                            \/ level[k].buy = NoId /\ Offers(k, i)
  OBVIOUS
<1>1. task[t].pc = "cancelled" /\ orders[i].state # "live"
  BY DEF SerialInv, Planned, CancelRecorded
<1>2. /\ Bought(k)' = Bought(k) /\ Sold(k)' = Sold(k) /\ Bought(k) \in Nat /\ Sold(k) \in Nat
  <2>1. Bought(k)' = Bought(k) /\ Sold(k)' = Sold(k)
    BY DEF Bought, Sold, Count
  <2>2. Bought(k) \in Nat /\ Sold(k) \in Nat
    BY CountNat DEF Bought, Sold
  <2> QED
    BY <2>1, <2>2
<1>3. Others(k, i) /\ Bought(k) \in {Sold(k), Sold(k) + 1}
  BY DEF Bids, Offers
<1>4. \A j \in OrderId : orders'[j].level = k => orders'[j].state # "live"
  BY <1>1, <1>3 DEF Others, Settled
<1>5. Sold(k)' <= Bought(k)' /\ Bought(k)' <= Sold(k)' + 1
  BY <1>2, <1>3
<1>6. Sound(k, NoId)'
  BY <1>4, <1>5 DEF Sound
<1> QED
  BY <1>1, <1>6, RecordedSerial

(* A refused order: the rest of the plan is lost, the levels are sound.    *)
LEMMA RefusedSerial ==
  ASSUME SerialInv, BreakerInv', NEW t \in Task, Task = {t}, ExchangeFaults = FALSE,
         PlaceFails(t)
  PROVE  SerialInv'
<1>1. /\ Types /\ Paused /\ task[t].pc = "call" /\ Raise(t)
      /\ UNCHANGED <<level, breaker, day, orders>>
  BY DEF SerialInv, BreakerInv, NamesInv, PlaceFails
<1>2. task'[t] = Idle /\ grid' = grid
  BY <1>1, RaiseEffect
<1>3. \A l : Placing(t, l) = NoId /\ Placing(t, l)' = NoId
  BY <1>1, <1>2, IdleType DEF Placing
<1>4. Sounds'
  BY <1>1, <1>3, SoundsSame
<1>5. Planned(t)'
  BY <1>2, IdleType DEF Planned, Suited
<1>6. Paused'
  BY <1>1, <1>2 DEF Paused
<1> QED
  BY <1>4, <1>5, <1>6 DEF SerialInv

(* Which order of a level may be live, or filled and not yet reported.     *)
LEMMA Unsettled ==
  ASSUME SerialInv, NEW t \in Task, NEW i \in OrderId, orders[i] \in OrderRecord, ~Settled(i),
         NEW k, k = orders[i].level
  PROVE  /\ k \in Level /\ orders[i].side \in {"buy", "sell"}
         /\ \E p \in OrderId \cup {NoId} :
              /\ p = Placing(t, k) /\ Sound(k, p)
              /\ \/ level[k].status = "OPEN" /\ level[k].buy = i /\ level[k].sell = NoId /\ Bids(k, i)
                 \/ level[k].status = "OPEN" /\ level[k].buy = NoId /\ level[k].sell = i /\ Offers(k, i)
                 \/ level[k].status \in {"WAITING", "TP_HIT"} /\ p = i /\ Bids(k, i)
                 \/ level[k].status = "FILLED" /\ p = i /\ Offers(k, i)
                 \/ level[k].status = "CANCELLED" /\ orders[i].state = "filled" /\ ~orders[i].told
<1>1. k \in Level /\ orders[i].side \in {"buy", "sell"} /\ NamesInv /\ Types
  BY DEF OrderRecord, SerialInv, BreakerInv, NamesInv
<1> PICK p \in OrderId \cup {NoId} : p = Placing(t, k) /\ Sound(k, p)
  BY <1>1, LevelSound
<1>2. /\ \A j \in OrderId \cup {NoId} : Others(k, j) => j = i
      /\ \A j \in OrderId : Bids(k, j) \/ Offers(k, j) => j = i
  BY DEF Others, Bids, Offers
<1>3. level[k].status \in {"WAITING", "OPEN", "FILLED", "TP_HIT", "CANCELLED"} /\ i # NoId
  BY <1>1, Fields
<1>4. CASE level[k].status = "OPEN"
  BY <1>1, <1>2, <1>4 DEF Sound
<1>5. CASE level[k].status \in {"WAITING", "TP_HIT"}
  BY <1>1, <1>2, <1>3, <1>5 DEF Sound
<1>6. CASE level[k].status = "FILLED"
  BY <1>1, <1>2, <1>3, <1>6 DEF Sound
<1>7. CASE level[k].status = "CANCELLED"
  BY <1>1, <1>7 DEF Sound, Settled
<1> QED
  BY <1>1, <1>3, <1>4, <1>5, <1>6, <1>7

(* An order fills: its level has bought, or sold, one more.                *)
LEMMA FillsSerial ==
  ASSUME SerialInv, BreakerInv', NEW t \in Task, Task = {t}, NEW i \in OrderId, OrderFills(i)
  PROVE  SerialInv'
<1>1. Types /\ Paused /\ Planned(t) /\ UNCHANGED <<grid, level, task>>
  BY DEF SerialInv, BreakerInv, NamesInv, OrderFills
<1>2. /\ orders[i] \in OrderRecord /\ orders[i].state = "live"
      /\ orders'[i].level = orders[i].level /\ orders'[i].side = orders[i].side
      /\ orders'[i].told = orders[i].told /\ orders'[i].state = "filled"
      /\ \A j \in OrderId \ {i} : orders'[j] = orders[j]
  BY <1>1, FillsEffect
<1> PICK k : k = orders[i].level
  OBVIOUS
<1>3. k \in Level /\ ~Settled(i)
  BY <1>2 DEF OrderRecord, Settled
<1>4. PICK p \in OrderId \cup {NoId} :
        /\ p = Placing(t, k) /\ Sound(k, p)
        /\ \/ level[k].status = "OPEN" /\ level[k].buy = i /\ level[k].sell = NoId /\ Bids(k, i)
           \/ level[k].status = "OPEN" /\ level[k].buy = NoId /\ level[k].sell = i /\ Offers(k, i)
           \/ level[k].status \in {"WAITING", "TP_HIT"} /\ p = i /\ Bids(k, i)
           \/ level[k].status = "FILLED" /\ p = i /\ Offers(k, i)
  BY <1>2, <1>3, Unsettled
<1>5. \A l : Placing(t, l)' = Placing(t, l)
  BY <1>1 DEF Placing, Now
<1>6. /\ orders[i].side = "buy" => Bought(k)' = Bought(k) + 1 /\ Sold(k)' = Sold(k)
      /\ orders[i].side = "sell" => Bought(k)' = Bought(k) /\ Sold(k)' = Sold(k) + 1
  BY <1>1, OneFilled DEF Bought, Sold
<1>7. Others(k, i) => Others(k, i)'
  BY <1>2 DEF Others, Settled
<1>8. Bids(k, i) => Bids(k, i)'
  BY <1>2, <1>6, <1>7 DEF Bids
<1>9. Bought(k) \in Nat /\ Sold(k) \in Nat
  BY CountNat DEF Bought, Sold
<1>10. Offers(k, i) => Offers(k, i)'
  BY <1>2, <1>6, <1>7, <1>9 DEF Offers
<1>11. Sound(k, p)'
  <2>1. i # NoId
    BY DEF NoId, OrderId
  <2> QED
    BY <1>1, <1>4, <1>8, <1>10, <2>1 DEF Sound
<1>12. Sounds'
  <2>1. \A j \in OrderId : \/ orders'[j] = orders[j]
                           \/ /\ orders[j].state = "absent" \/ orders[j].level = k
                              /\ orders'[j].state = "absent" \/ orders'[j].level = k
    BY <1>2
  <2>2. \A q \in OrderId \cup {NoId} : q = Placing(t, k)' => Sound(k, q)'
    BY <1>4, <1>5, <1>11
  <2> QED
    BY <1>1, <1>3, <1>5, <2>1, <2>2, SoundsMoved
<1>13. Planned(t)'
  <2>1. Suited(task[t].rest)' /\ Now(t)' = Now(t)
    BY <1>1 DEF Planned, Suited, Suits, Now
  <2>2. task[t].pc = "cancelled" => orders'[task[t].id].state # "live"
    <3> SUFFICES ASSUME task[t].pc = "cancelled" PROVE orders'[task[t].id].state # "live"
      OBVIOUS
    <3>1. /\ Suits(Now(t)) /\ Now(t).level \in Level /\ task[t].id = Now(t).id
          /\ Now(t).kind \in {"cancelBuy", "cancelSell"}
      BY <1>1, AtHand DEF Planned
    <3>2. PICK q \in OrderId \cup {NoId} : Sound(Now(t).level, q)
      BY <3>1, LevelSound
    <3>3. task[t].id \in OrderId
      BY <3>1, <3>2 DEF Suits, Sound
    <3> QED
      BY <1>1, <1>2, <3>3 DEF Planned
  <2> QED
    BY <1>1, <2>1, <2>2 DEF Planned
<1>14. Paused'
  BY <1>1 DEF Paused
<1> QED
  BY <1>12, <1>13, <1>14 DEF SerialInv

(* A fill is reported: the order is its level's, or the level is off.      *)
LEMMA ToldSerial ==
  ASSUME SerialInv, NEW t \in Task, task[t].pc = "idle", NEW i \in OrderId,
         NEW side \in {"buy", "sell"}, Untold(i, side), Told(i)
  PROVE  \E k \in Level :
           /\ k = orders[i].level /\ Sound(k, NoId) /\ Placing(t, k) = NoId
           /\ \/ /\ side = "buy" /\ level[k].status = "OPEN"
                 /\ level[k].buy = i /\ level[k].sell = NoId /\ Bids(k, i)
              \/ /\ side = "sell" /\ level[k].status = "OPEN"
                 /\ level[k].buy = NoId /\ level[k].sell = i /\ Offers(k, i)
              \/ level[k].status = "CANCELLED"
           /\ orders[i].state = "filled"
           /\ \A j \in OrderId : /\ orders'[j].level = orders[j].level
                                 /\ orders'[j].side = orders[j].side
                                 /\ orders'[j].state = orders[j].state
                                 /\ j # i => orders'[j] = orders[j]
           /\ orders'[i].told
           /\ Bought(k)' = Bought(k) /\ Sold(k)' = Sold(k)
<1>1. Types /\ orders[i].state = "filled" /\ ~Settled(i) /\ orders[i].side = side
  BY DEF SerialInv, BreakerInv, NamesInv, Untold, Settled
<1>2. /\ orders[i] \in OrderRecord /\ orders'[i].told
      /\ orders'[i].level = orders[i].level /\ orders'[i].side = orders[i].side
      /\ orders'[i].state = orders[i].state
      /\ \A j \in OrderId \ {i} : orders'[j] = orders[j]
  BY <1>1, ToldEffect
<1> PICK k : k = orders[i].level
  OBVIOUS
<1>3. \A l : Placing(t, l) = NoId
  BY DEF Placing
<1>4. i # NoId
  BY DEF NoId, OrderId
<1>5. /\ k \in Level /\ Sound(k, NoId)
      /\ \/ level[k].status = "OPEN" /\ level[k].buy = i /\ level[k].sell = NoId /\ Bids(k, i)
         \/ level[k].status = "OPEN" /\ level[k].buy = NoId /\ level[k].sell = i /\ Offers(k, i)
         \/ level[k].status = "CANCELLED"
  BY <1>1, <1>2, <1>3, <1>4, Unsettled
<1>6. \A j \in OrderId : /\ orders'[j].level = orders[j].level
                         /\ orders'[j].side = orders[j].side
                         /\ orders'[j].state = orders[j].state
                         /\ j # i => orders'[j] = orders[j]
  BY <1>2
<1>7. Bought(k)' = Bought(k) /\ Sold(k)' = Sold(k)
  BY <1>6, SameFilled
<1>8. (Bids(k, i) => side = "buy") /\ (Offers(k, i) => side = "sell")
  BY <1>1 DEF Bids, Offers
<1> QED
  BY <1>1, <1>2, <1>3, <1>5, <1>6, <1>7, <1>8

(* A level keeps its record when an order is reported that it has disowned. *)
LEMMA DisownedSound ==
  ASSUME NEW k \in Level, Sound(k, NoId), level[k].status = "CANCELLED",
         level'[k] = level[k],
         \A j \in OrderId : /\ orders'[j].level = orders[j].level
                            /\ orders'[j].state = orders[j].state,
         Bought(k)' = Bought(k), Sold(k)' = Sold(k)
  PROVE  Sound(k, NoId)'
BY DEF Sound

LEMMA BuyFilledSerial ==
  ASSUME SerialInv, BreakerInv', NEW t \in Task, Task = {t}, NEW i \in OrderId, OnBuyFilled(t, i)
  PROVE  SerialInv'
<1>1. /\ Types /\ Paused /\ Planned(t) /\ task[t].pc = "idle" /\ Untold(i, "buy") /\ Told(i)
      /\ grid \in DOMAIN GRID_TRANSITIONS
  BY DEF SerialInv, BreakerInv, NamesInv, OnBuyFilled, Types
<1>2. PICK k \in Level :
           /\ k = orders[i].level /\ Sound(k, NoId) /\ Placing(t, k) = NoId
           /\ \/ /\ level[k].status = "OPEN"
                 /\ level[k].buy = i /\ level[k].sell = NoId /\ Bids(k, i)
              \/ level[k].status = "CANCELLED"
           /\ orders[i].state = "filled"
           /\ \A j \in OrderId : /\ orders'[j].level = orders[j].level
                                 /\ orders'[j].side = orders[j].side
                                 /\ orders'[j].state = orders[j].state
                                 /\ j # i => orders'[j] = orders[j]
           /\ orders'[i].told
           /\ Bought(k)' = Bought(k) /\ Sold(k)' = Sold(k)
  BY <1>1, ToldSerial
<1>3. level[k] \in LevelRecord /\ \A l : Placing(t, l) = NoId
  BY <1>1, Fields DEF Placing
<1>4. \A j \in OrderId : \/ orders'[j] = orders[j]
                         \/ /\ orders[j].state = "absent" \/ orders[j].level = k
                            /\ orders'[j].state = "absent" \/ orders'[j].level = k
  BY <1>2
<1>5. CASE level[k].status = "OPEN"
  <2> DEFINE lv == [level[k] EXCEPT !.status = "FILLED", !.buy = NoId]
             plan == IF grid = "active" THEN {Do(k, "sell")} ELSE {}
  <2>1. LevelAllows(k, "FILLED")
    BY <1>5 DEF LevelAllows, LEVEL_TRANSITIONS
  <2>2. level' = [level EXCEPT ![k] = lv] /\ Continue(t, "buyFilled", plan, grid)
    BY <1>2, <2>1 DEF OnBuyFilled
  <2>3. lv \in LevelRecord /\ lv.status = "FILLED" /\ lv.buy = NoId /\ lv.sell = NoId
    BY <1>2, <1>3, <1>5 DEF LevelRecord
  <2> HIDE DEF lv
  <2>4. /\ level' \in [Level -> LevelRecord] /\ level'[k] = lv
        /\ \A l \in Level \ {k} : level'[l] = level[l]
    BY <1>1, <2>2, <2>3, LevelEffect
  <2> PICK rest : rest = plan
    OBVIOUS
  <2>5. rest \in SUBSET Action /\ "buyFilled" \in Op
    BY <1>1, Plans DEF Op
  <2>6. Suited(rest)'
    BY <2>3, <2>4 DEF Suited, Suits, Do
  <2>7. grid = "paused" => rest = {} /\ \A l \in Level : level'[l].status # "OPEN"
    BY <1>1, <2>3, <2>4 DEF Paused
  <2>8. Continue(t, "buyFilled", rest, grid)
    BY <2>2
  <2>9. Planned(t)' /\ Paused' /\ \A l : Placing(t, l)' = NoId
    BY <1>1, <2>5, <2>6, <2>7, <2>8, PlanBegun
  <2>10. Sound(k, NoId)'
    <3>1. Others(k, NoId)'
      BY <1>2, <1>5 DEF Bids, Others, Settled
    <3>2. Bought(k) = Sold(k) + 1
      BY <1>2, <1>5 DEF Bids
    <3> QED
      BY <1>2, <2>3, <2>4, <3>1, <3>2 DEF Sound
  <2>11. Sounds'
    BY <1>3, <1>4, <2>4, <2>9, <2>10, SoundsMoved
  <2> QED
    BY <2>9, <2>11 DEF SerialInv
<1>6. CASE level[k].status = "CANCELLED"
  <2>1. ~LevelAllows(k, "FILLED")
    BY <1>6 DEF LevelAllows, LEVEL_TRANSITIONS
  <2>2. UNCHANGED <<level, task, grid>>
    BY <1>2, <2>1 DEF OnBuyFilled
  <2>3. Sound(k, NoId)' /\ \A l : Placing(t, l)' = NoId
    BY <1>1, <1>2, <1>6, <2>2, DisownedSound DEF Placing
  <2>4. Sounds'
    BY <1>3, <1>4, <2>2, <2>3, SoundsMoved
  <2>5. Planned(t)'
    BY <1>1, <2>2 DEF Planned, Suited, Suits
  <2>6. Paused'
    BY <1>1, <2>2 DEF Paused
  <2> QED
    BY <2>4, <2>5, <2>6 DEF SerialInv
<1> QED
  BY <1>2, <1>5, <1>6

LEMMA SellFilledSerial ==
  ASSUME SerialInv, BreakerInv', NEW t \in Task, Task = {t}, NEW i \in OrderId, OnSellFilled(t, i)
  PROVE  SerialInv'
<1>1. /\ Types /\ Paused /\ Planned(t) /\ task[t].pc = "idle" /\ Untold(i, "sell") /\ Told(i)
      /\ UNCHANGED <<grid, task>> /\ AtWork(t)
  BY DEF SerialInv, BreakerInv, NamesInv, OnSellFilled
<1>2. PICK k \in Level :
           /\ k = orders[i].level /\ Sound(k, NoId) /\ Placing(t, k) = NoId
           /\ \/ /\ level[k].status = "OPEN"
                 /\ level[k].buy = NoId /\ level[k].sell = i /\ Offers(k, i)
              \/ level[k].status = "CANCELLED"
           /\ orders[i].state = "filled"
           /\ \A j \in OrderId : /\ orders'[j].level = orders[j].level
                                 /\ orders'[j].side = orders[j].side
                                 /\ orders'[j].state = orders[j].state
                                 /\ j # i => orders'[j] = orders[j]
           /\ orders'[i].told
           /\ Bought(k)' = Bought(k) /\ Sold(k)' = Sold(k)
  BY <1>1, ToldSerial
<1>3. level[k] \in LevelRecord /\ task[t].rest = {} /\ \A l : Placing(t, l) = NoId
  BY <1>1, Fields DEF Placing, AtWork
<1>4. \A j \in OrderId : \/ orders'[j] = orders[j]
                         \/ /\ orders[j].state = "absent" \/ orders[j].level = k
                            /\ orders'[j].state = "absent" \/ orders'[j].level = k
  BY <1>2
<1>5. /\ \A l \in Level \ {k} : level'[l] = level[l]
      /\ level'[k].status # "OPEN" /\ Sound(k, NoId)'
  <2>1. CASE level[k].status = "OPEN"
    <3> DEFINE s == IF grid = "active" THEN "WAITING" ELSE "TP_HIT"
               lv == [level[k] EXCEPT !.status = s, !.sell = NoId]
    <3>1. LevelAllows(k, "TP_HIT")
      BY <2>1 DEF LevelAllows, LEVEL_TRANSITIONS
    <3>2. level' = [level EXCEPT ![k] = lv]
      BY <1>2, <3>1 DEF OnSellFilled
    <3>3. /\ lv \in LevelRecord /\ lv.status \in {"WAITING", "TP_HIT"}
          /\ lv.buy = NoId /\ lv.sell = NoId
      BY <1>2, <1>3, <2>1 DEF LevelRecord
    <3> HIDE DEF lv
    <3>4. /\ level' \in [Level -> LevelRecord] /\ level'[k] = lv
          /\ \A l \in Level \ {k} : level'[l] = level[l]
      BY <1>1, <3>2, <3>3, LevelEffect
    <3>5. Others(k, NoId)'
      BY <1>2, <2>1 DEF Offers, Others, Settled
    <3>6. Bought(k) = Sold(k)
      BY <1>2, <2>1 DEF Offers
    <3> QED
      BY <1>2, <3>3, <3>4, <3>5, <3>6 DEF Sound
  <2>2. CASE level[k].status = "CANCELLED"
    <3>1. ~LevelAllows(k, "TP_HIT")
      BY <2>2 DEF LevelAllows, LEVEL_TRANSITIONS
    <3>2. level' = level
      BY <1>1, <1>2, <3>1 DEF OnSellFilled, Types
    <3> QED
      BY <1>2, <2>2, <3>2, DisownedSound
  <2> QED
    BY <1>2, <2>1, <2>2
<1>6. \A l : Placing(t, l)' = NoId
  BY <1>1 DEF Placing
<1>7. Sounds'
  BY <1>3, <1>4, <1>5, <1>6, SoundsMoved
<1>8. Planned(t)'
  BY <1>1, <1>3 DEF Planned, Suited
<1>9. Paused'
  BY <1>1, <1>5 DEF Paused
<1> QED
  BY <1>7, <1>8, <1>9 DEF SerialInv

-----------------------------------------------------------------------------
(* The invariant, and what it says of the orders.                          *)

LEMMA InitSerialInv == ASSUME OneCall PROVE Init => SerialInv
<1> SUFFICES ASSUME Init PROVE SerialInv
  OBVIOUS
<1>1. BreakerInv /\ Types
  BY InitBreakerInv DEF BreakerInv, NamesInv
<1>2. \A t \in Task : Planned(t)
  BY IdleType DEF Init, Planned, Suited
<1>3. Paused
  BY DEF Init, Paused
<1>4. \A t \in Task, l \in Level : Placing(t, l) = NoId
  BY IdleType DEF Init, Placing
<1>5. \A l \in Level : Bought(l) = 0 /\ Sold(l) = 0
  <2>1. ASSUME NEW l, NEW side PROVE Count(l, side, "filled") = 0
    <3>1. {i \in OrderId : /\ orders[i].level = l
                           /\ orders[i].side = side
                           /\ orders[i].state = "filled"} = {}
      BY DEF Init, Absent
    <3> QED
      BY <3>1, FS_EmptySet DEF Count
  <2> QED
    BY <2>1 DEF Bought, Sold
<1>6. \A l \in Level : Sound(l, NoId)
  BY <1>5 DEF Init, Sound, NewLevel, Others, Settled, Absent
<1> QED
  BY <1>1, <1>2, <1>3, <1>4, <1>6 DEF SerialInv, Sounds

(* What the single coroutine never does here.                              *)
LEMMA NeverSerial ==
  ASSUME SerialInv, Serial, NEW t \in Task
  PROVE  /\ ~ExchangeDisarms(t) /\ ~Disarmed(t) /\ ~DisarmFails(t)
         /\ ~ForceClears(t) /\ ~ForceClearFails(t) /\ ~CancelFails(t)
         /\ ~ForceSell(t) /\ \A l \in Level : ~ForceBuy(t, l)
<1>1. task[t].pc \in {"idle", "call", "placed", "cancel", "cancelled"}
  BY DEF SerialInv, Planned
<1>2. ~Clashes(t)
  BY DEF Serial, OneCall, Clashes
<1> QED
  BY <1>1, <1>2 DEF ExchangeDisarms, Disarmed, DisarmFails, ForceClears, ForceClearFails,
                    CancelFails, ForceSell, ForceBuy, Serial

LEMMA NextSerialInv == ASSUME Serial PROVE SerialInv /\ [Next]_vars => SerialInv'
<1> SUFFICES ASSUME SerialInv, [Next]_vars PROVE SerialInv'
  OBVIOUS
<1>1. BreakerInv'
  BY NextBreakerInv DEF SerialInv
<1> PICK t : Task = {t}
  BY DEF Serial, OneCall
<1>2. t \in Task /\ \A u \in Task : u = t
  OBVIOUS
<1>3. CASE Call(t)
  BY <1>1, <1>2, <1>3, NeverSerial, CallsSerial, TickSerial, BuyFilledSerial, SellFilledSerial
     DEF Call
<1>4. CASE Proceed(t)
  BY <1>1, <1>2, <1>4, NeverSerial, PlacesSerial, OpensSerial, RefusedSerial, CancelsSerial,
     OffsSerial DEF Proceed, Serial
<1>5. ASSUME NEW i \in OrderId, OrderFills(i) PROVE SerialInv'
  BY <1>1, <1>2, <1>5, FillsSerial
<1>6. CASE NewDay \/ UNCHANGED vars
  <2>1. UNCHANGED <<grid, level, orders, task>>
    BY <1>6 DEF NewDay, vars
  <2>2. \A l \in Level : Placing(t, l)' = Placing(t, l)
    BY <2>1 DEF Placing, Now
  <2>3. Sounds'
    BY <1>2, <2>1, <2>2, SoundsSame
  <2>4. \A u \in Task : Planned(u)'
    BY <2>1 DEF SerialInv, Planned, Suited, Suits, Now
  <2>5. Paused'
    BY <2>1 DEF SerialInv, Paused
  <2> QED
    BY <1>1, <2>3, <2>4, <2>5 DEF SerialInv
<1> QED
  BY <1>2, <1>3, <1>4, <1>5, <1>6 DEF Next

THEOREM SerialInvariant == ASSUME Serial PROVE Spec => []SerialInv
<1>1. OneCall
  BY DEF Serial
<1>2. Init => SerialInv
  BY <1>1, InitSerialInv
<1>3. SerialInv /\ [Next]_vars => SerialInv'
  BY NextSerialInv
<1> QED
  BY <1>2, <1>3, PTL DEF Spec

(* At most one order of a level is live, and it is the one it works with.  *)
LEMMA LiveOrders ==
  ASSUME Types, NEW l, NEW i \in OrderId \cup {NoId}, Others(l, i), NEW side
  PROVE  /\ Count(l, side, "live") \in {0, 1}
         /\ \/ Count(l, side, "live") = 0
            \/ i \in OrderId /\ orders[i].state = "live" /\ orders[i].side = side
<1> DEFINE S == {j \in OrderId : /\ orders[j].level = l
                                 /\ orders[j].side = side
                                 /\ orders[j].state = "live"}
<1>1. S \subseteq {i}
  BY DEF Others, Settled
<1>2. Count(l, side, "live") = Cardinality(S)
  BY DEF Count
<1>3. Cardinality({}) = 0 /\ Cardinality({i}) = 1
  BY FS_EmptySet, FS_Singleton
<1>4. S = {} \/ (S = {i} /\ i \in S)
  BY <1>1
<1> QED
  BY <1>2, <1>3, <1>4

(* So nothing is oversold, and nothing bought twice.                       *)
LEMMA SoundLevel ==
  ASSUME Types, NEW l \in Level, NEW p \in OrderId \cup {NoId}, Sound(l, p)
  PROVE  /\ Count(l, "sell", "live") + Sold(l) <= Bought(l)
         /\ Count(l, "buy", "live") + Bought(l) <= 1 + Sold(l)
<1>1. Bought(l) \in Nat /\ Sold(l) \in Nat
  BY CountNat DEF Bought, Sold
<1> DEFINE livebuys == Count(l, "buy", "live")
           livesells == Count(l, "sell", "live")
<1> HIDE DEF livebuys, livesells
<1>2. ASSUME NEW i \in OrderId, Bids(l, i)
      PROVE  livesells + Sold(l) <= Bought(l) /\ livebuys + Bought(l) <= 1 + Sold(l)
  <2>1. /\ livesells = 0 /\ livebuys \in {0, 1}
        /\ livebuys = 1 => orders[i].state = "live"
    BY <1>2, LiveOrders DEF Bids, livebuys, livesells
  <2> QED
    BY <1>1, <1>2, <2>1 DEF Bids
<1>3. ASSUME NEW i \in OrderId, Offers(l, i)
      PROVE  livesells + Sold(l) <= Bought(l) /\ livebuys + Bought(l) <= 1 + Sold(l)
  <2>1. /\ livebuys = 0 /\ livesells \in {0, 1}
        /\ livesells = 1 => orders[i].state = "live"
    BY <1>3, LiveOrders DEF Offers, livebuys, livesells
  <2> QED
    BY <1>1, <1>3, <2>1 DEF Offers
<1>4. ASSUME Others(l, NoId), Bought(l) \in {Sold(l), Sold(l) + 1}
      PROVE  livesells + Sold(l) <= Bought(l) /\ livebuys + Bought(l) <= 1 + Sold(l)
  <2>1. livebuys = 0 /\ livesells = 0
    BY <1>4, LiveOrders DEF livebuys, livesells, NoId, OrderId
  <2> QED
    BY <1>1, <1>4, <2>1
<1>5. ASSUME level[l].status = "CANCELLED"
      PROVE  livesells + Sold(l) <= Bought(l) /\ livebuys + Bought(l) <= 1 + Sold(l)
  <2>1. {j \in OrderId : orders[j].level = l /\ orders[j].state = "live"} = {}
    BY <1>5 DEF Sound
  <2>2. livebuys = 0 /\ livesells = 0
    <3>1. ASSUME NEW side PROVE Count(l, side, "live") = 0
      <4>1. {j \in OrderId : /\ orders[j].level = l
                             /\ orders[j].side = side
                             /\ orders[j].state = "live"} = {}
        BY <2>1
      <4> QED
        BY <4>1, FS_EmptySet DEF Count
    <3> QED
      BY <3>1 DEF livebuys, livesells
  <2>3. Sold(l) <= Bought(l) /\ Bought(l) <= Sold(l) + 1
    BY <1>5 DEF Sound
  <2> QED
    BY <1>1, <2>2, <2>3
<1>6. level[l].status \in {"WAITING", "OPEN", "FILLED", "TP_HIT", "CANCELLED"}
  BY Fields
<1>7. livesells + Sold(l) <= Bought(l) /\ livebuys + Bought(l) <= 1 + Sold(l)
  <2>1. CASE level[l].status = "OPEN"
    BY <1>2, <1>3, <2>1 DEF Sound
  <2>2. CASE level[l].status \in {"WAITING", "TP_HIT", "FILLED"} /\ p = NoId
    BY <1>4, <2>2 DEF Sound
  <2>3. CASE level[l].status \in {"WAITING", "TP_HIT", "FILLED"} /\ p # NoId
    BY <1>2, <1>3, <2>3 DEF Sound
  <2> QED
    BY <1>5, <1>6, <2>1, <2>2, <2>3
<1> QED
  BY <1>7 DEF livebuys, livesells

LEMMA SoundCounts == ASSUME Serial PROVE SerialInv => NoOversell /\ OneExposure
<1> SUFFICES ASSUME SerialInv PROVE NoOversell /\ OneExposure
  OBVIOUS
<1>1. PICK t \in Task : Types
  BY DEF Serial, OneCall, SerialInv, BreakerInv, NamesInv
<1>2. ASSUME NEW l \in Level
      PROVE  /\ Count(l, "sell", "live") + Sold(l) <= Bought(l)
             /\ Count(l, "buy", "live") + Bought(l) <= 1 + Sold(l)
  BY <1>1, LevelSound, SoundLevel
<1> QED
  BY <1>2 DEF NoOversell, OneExposure, Bought, Sold

(* GridEngine: the exchange never works a sell of what a level does not    *)
(* hold, whatever fills while calls are under way.                         *)
THEOREM NeverOversells == ASSUME Serial PROVE Spec => []NoOversell
BY SoundCounts, SerialInvariant, PTL

(* GridEngine: a level never bids for, or holds, more than one quantity.   *)
THEOREM NeverBuysTwice == ASSUME Serial PROVE Spec => []OneExposure
BY SoundCounts, SerialInvariant, PTL

(* pause_grid: once it returns, and until the grid is active again, there  *)
(* is no order of the grid on the market.                                  *)
THEOREM PauseLeavesNothing == ASSUME Serial PROVE Spec => []PausedIsQuiet
<1>1. SerialInv => PausedIsQuiet
  <2> SUFFICES ASSUME SerialInv, grid = "paused", NEW i \in OrderId, orders[i].state = "live"
               PROVE  FALSE
    BY DEF PausedIsQuiet
  <2>1. PICK t \in Task : Types /\ Paused
    BY DEF Serial, OneCall, SerialInv, BreakerInv, NamesInv
  <2>2. orders[i] \in OrderRecord /\ ~Settled(i)
    BY <2>1, Fields DEF Settled
  <2> PICK k : k = orders[i].level
    OBVIOUS
  <2>3. k \in Level
    BY <2>2 DEF OrderRecord
  <2>4. task[t].pc = "idle" /\ level[k].status # "OPEN"
    BY <2>1, <2>3 DEF Paused
  <2>5. Placing(t, k) = NoId /\ i # NoId
    BY <2>4 DEF Placing, NoId, OrderId
  <2> QED
    BY <2>1, <2>2, <2>4, <2>5, Unsettled
<1> QED
  BY <1>1, SerialInvariant, PTL

-----------------------------------------------------------------------------
(* The levels implement GridCycle.                                         *)

(* A level's record after a step, and the move of the cycle it makes.      *)
Moves(l) ==
  \E m \in Cycle!Moves : /\ Phase(level[l]) = m[1] /\ Phase(level'[l]) = m[2]
                         /\ \A k \in Level \ {l} : level'[k] = level[k]

LEMMA PhaseOf ==
  ASSUME NEW lv
  PROVE  /\ lv.status \in {"WAITING", "TP_HIT"} => Phase(lv) = "flat"
         /\ lv.status = "FILLED" => Phase(lv) = "held"
         /\ lv.status = "CANCELLED" => Phase(lv) = "off"
         /\ lv.status = "OPEN" /\ lv.buy # NoId => Phase(lv) = "bid"
         /\ lv.status = "OPEN" /\ lv.buy = NoId => Phase(lv) = "offered"
BY DEF Phase

LEMMA OpensMove ==
  ASSUME SerialInv, NEW t \in Task, OrderRecorded(t)
  PROVE  \E l \in Level : Moves(l)
<1> PICK k \in Level, p \in OrderId :
           /\ \A l \in Level \ {k} : level'[l] = level[l]
           /\ level'[k].status = "OPEN"
           /\ \/ level[k].status \in {"WAITING", "TP_HIT"} /\ level'[k].buy = p
              \/ level[k].status = "FILLED" /\ level'[k].buy = NoId
  BY OpenEffect
<1>1. p # NoId
  BY DEF NoId, OrderId
<1>2. \/ Phase(level[k]) = "flat" /\ Phase(level'[k]) = "bid"
      \/ Phase(level[k]) = "held" /\ Phase(level'[k]) = "offered"
  BY <1>1, PhaseOf
<1>3. <<"flat", "bid">> \in Cycle!Moves /\ <<"held", "offered">> \in Cycle!Moves
  BY DEF Cycle!Moves
<1> QED
  BY <1>2, <1>3 DEF Moves

LEMMA OffsMove ==
  ASSUME SerialInv, NEW t \in Task, CancelRecorded(t)
  PROVE  \E l \in Level : Moves(l)
<1> PICK k \in Level :
           /\ level[k].status = "OPEN"
           /\ \A l \in Level \ {k} : level'[l] = level[l]
           /\ level'[k] = [status |-> "CANCELLED", buy |-> NoId, sell |-> NoId]
  BY OffEffect
<1>1. Phase(level[k]) \in {"bid", "offered"} /\ Phase(level'[k]) = "off"
  BY PhaseOf
<1>2. <<"bid", "off">> \in Cycle!Moves /\ <<"offered", "off">> \in Cycle!Moves
  BY DEF Cycle!Moves
<1> QED
  BY <1>1, <1>2 DEF Moves

LEMMA FilledMove ==
  ASSUME SerialInv, NEW t \in Task, NEW i \in OrderId, OnBuyFilled(t, i) \/ OnSellFilled(t, i)
  PROVE  level' = level \/ \E l \in Level : Moves(l)
<1>1. Types /\ task[t].pc = "idle" /\ Told(i) /\ (Untold(i, "buy") \/ Untold(i, "sell"))
  BY DEF SerialInv, BreakerInv, NamesInv, OnBuyFilled, OnSellFilled
<1>2. <<"bid", "held">> \in Cycle!Moves /\ <<"offered", "flat">> \in Cycle!Moves
  BY DEF Cycle!Moves
<1>3. ASSUME NEW k \in Level, NEW lv, level' = [level EXCEPT ![k] = lv]
      PROVE  level'[k] = lv /\ \A l \in Level \ {k} : level'[l] = level[l]
  BY <1>1, <1>3 DEF Types
<1>4. CASE OnBuyFilled(t, i)
  <2>1. PICK k \in Level :
          /\ k = orders[i].level
          /\ \/ level[k].status = "OPEN" /\ level[k].buy = i
             \/ level[k].status = "CANCELLED"
    <3>1. Untold(i, "buy") /\ Told(i)
      BY <1>4 DEF OnBuyFilled
    <3> QED
      BY <1>1, <3>1, ToldSerial
  <2>2. CASE level[k].status = "OPEN" /\ level[k].buy = i
    <3> DEFINE lv == [level[k] EXCEPT !.status = "FILLED", !.buy = NoId]
    <3>1. LevelAllows(k, "FILLED")
      BY <2>2 DEF LevelAllows, LEVEL_TRANSITIONS
    <3>2. level' = [level EXCEPT ![k] = lv]
      BY <1>4, <2>1, <3>1 DEF OnBuyFilled
    <3>3. level[k] \in LevelRecord
      BY <1>1, Fields
    <3>4. lv.status = "FILLED"
      BY <3>3 DEF LevelRecord
    <3> HIDE DEF lv
    <3>5. Phase(level[k]) = "bid" /\ Phase(lv) = "held"
      BY <2>2, <3>4, PhaseOf DEF NoId, OrderId
    <3>6. level'[k] = lv /\ \A l \in Level \ {k} : level'[l] = level[l]
      BY <1>3, <3>2
    <3> QED
      BY <1>2, <3>5, <3>6 DEF Moves
  <2>3. CASE level[k].status = "CANCELLED"
    BY <1>4, <2>1, <2>3 DEF OnBuyFilled, LevelAllows, LEVEL_TRANSITIONS
  <2> QED
    BY <2>1, <2>2, <2>3
<1>5. CASE OnSellFilled(t, i)
  <2>1. PICK k \in Level :
          /\ k = orders[i].level
          /\ \/ level[k].status = "OPEN" /\ level[k].buy = NoId
             \/ level[k].status = "CANCELLED"
    <3>1. Untold(i, "sell") /\ Told(i)
      BY <1>5 DEF OnSellFilled
    <3> QED
      BY <1>1, <3>1, ToldSerial
  <2>2. CASE level[k].status = "OPEN" /\ level[k].buy = NoId
    <3> DEFINE s == IF grid = "active" THEN "WAITING" ELSE "TP_HIT"
               lv == [level[k] EXCEPT !.status = s, !.sell = NoId]
    <3>1. LevelAllows(k, "TP_HIT")
      BY <2>2 DEF LevelAllows, LEVEL_TRANSITIONS
    <3>2. level' = [level EXCEPT ![k] = lv]
      BY <1>5, <2>1, <3>1 DEF OnSellFilled
    <3>3. level[k] \in LevelRecord
      BY <1>1, Fields
    <3>4. lv.status \in {"WAITING", "TP_HIT"}
      BY <3>3 DEF LevelRecord
    <3> HIDE DEF lv
    <3>5. Phase(level[k]) = "offered" /\ Phase(lv) = "flat"
      BY <2>2, <3>4, PhaseOf
    <3>6. level'[k] = lv /\ \A l \in Level \ {k} : level'[l] = level[l]
      BY <1>3, <3>2
    <3> QED
      BY <1>2, <3>5, <3>6 DEF Moves
  <2>3. CASE level[k].status = "CANCELLED"
    BY <1>1, <1>5, <2>1, <2>3 DEF OnSellFilled, LevelAllows, LEVEL_TRANSITIONS, Types
  <2> QED
    BY <2>1, <2>2, <2>3
<1> QED
  BY <1>4, <1>5

LEMMA StepsMove ==
  ASSUME Serial, SerialInv, [Next]_vars
  PROVE  level' = level \/ \E l \in Level : Moves(l)
<1>1. ASSUME NEW t \in Task, Call(t) PROVE level' = level \/ \E l \in Level : Moves(l)
  BY <1>1, FilledMove, NeverSerial
     DEF Call, ResumeGrid, ActivateGrid, PauseGrid, CloseAllGridOrders, OnPriceUpdate
<1>2. ASSUME NEW t \in Task, Proceed(t) PROVE level' = level \/ \E l \in Level : Moves(l)
  BY <1>2, OpensMove, OffsMove, NeverSerial
     DEF Proceed, ExchangePlaces, PlaceFails, ExchangeCancels
<1> QED
  BY <1>1, <1>2 DEF Next, OrderFills, NewDay, vars

(* GridEngine's levels go through GridCycle's phases and no others: a      *)
(* level is bought, held, offered and sold in turn, or taken off.          *)
THEOREM LevelsFollowCycle == ASSUME Serial PROVE Spec => ImplementsCycle
<1> DEFINE phase == [l \in Level |-> Phase(level[l])]
<1>1. Init => Cycle!Init
  <2> SUFFICES ASSUME Init PROVE Cycle!Init
    OBVIOUS
  <2>1. \A l \in Level : Phase(level[l]) = "flat"
    BY PhaseOf DEF Init, NewLevel
  <2> QED
    BY <2>1 DEF Cycle!Init
<1>2. SerialInv /\ [Next]_vars => [Cycle!Next]_phase
  <2> SUFFICES ASSUME SerialInv, [Next]_vars PROVE Cycle!Next \/ phase' = phase
    OBVIOUS
  <2>1. CASE level' = level
    BY <2>1
  <2>2. ASSUME NEW l \in Level, Moves(l) PROVE Cycle!Next
    <3>1. PICK m \in Cycle!Moves : /\ Phase(level[l]) = m[1] /\ Phase(level'[l]) = m[2]
                                   /\ \A k \in Level \ {l} : level'[k] = level[k]
      BY <2>2 DEF Moves
    <3>2. phase[l] = m[1] /\ phase' = [phase EXCEPT ![l] = m[2]]
      BY <3>1
    <3> QED
      BY <3>2 DEF Cycle!Next
  <2> QED
    BY <2>1, <2>2, StepsMove
<1>3. Spec => []SerialInv
  BY SerialInvariant
<1> QED
  BY <1>1, <1>2, <1>3, PTL DEF Spec, ImplementsCycle, Cycle!Spec

=============================================================================
