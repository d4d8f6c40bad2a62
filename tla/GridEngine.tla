----------------------------- MODULE GridEngine -----------------------------
(***************************************************************************)
(* src/backend/engine/grid: GridEngine with its planner, state store and   *)
(* circuit breaker, for one grid instance without a profit lock.  Engine   *)
(* calls are asyncio coroutines: a step is the code between two awaits,    *)
(* and an await of the execution engine is two steps, the exchange acting  *)
(* and the coroutine resuming.  Orders rest at one price and fill whole.   *)
(*                                                                         *)
(* The execution engine is seen through its interface (OrderExecution      *)
(* models it): cancel_order returns normally for an order that is already  *)
(* filled or cancelled, and raises for one that is being cancelled.        *)
(***************************************************************************)
EXTENDS CircuitBreaker, FiniteSets

CONSTANTS
  Level,              \* level indices
  BuyPrice, SellPrice,
  Modes,              \* what breaker_configs may ask for: resume modes, or "none"
  Widen,              \* widen_multiplier
  Task,               \* coroutines that may be inside the engine at one time
  MaxOrders, MaxDay,  \* bounds: orders ever placed, days simulated
  Manual,             \* TRUE: force_buy and force_sell are used
  ExchangeFaults      \* TRUE: answers get lost and cancels fail

ASSUME LevelAssumption == Level \subseteq Nat /\ IsFiniteSet(Level)
ASSUME LevelPriceAssumption ==
  /\ BuyPrice \in [Level -> Nat]
  /\ SellPrice \in [Level -> Nat]
  /\ \A l \in Level : BuyPrice[l] < SellPrice[l]
ASSUME ModeAssumption == Modes \subseteq ResumeMode \cup {"none"}
ASSUME BoundAssumption == Widen \in Nat \ {0} /\ MaxOrders \in Nat /\ MaxDay \in Nat \ {0}
ASSUME FlagAssumption  == Manual \in BOOLEAN /\ ExchangeFaults \in BOOLEAN

VARIABLES
  grid,      \* GridState.status
  level,     \* GridState.levels: status, buy_order_id, sell_order_id
  breaker,   \* _breakers[instance_id]
  day,       \* the UTC date
  orders,    \* the exchange: every order placed for this grid
  task       \* what each coroutine is doing

vars == <<grid, level, breaker, day, orders, task>>

NoId    == 0
OrderId == 1 .. MaxOrders
Day     == 1 .. MaxDay

GRID_TRANSITIONS ==
  [idle        |-> {"initialized"},
   initialized |-> {"active", "error"},
   active      |-> {"paused", "completed", "error"},
   paused      |-> {"active", "completed", "error"},
   error       |-> {"active", "paused"},
   completed   |-> {}]

LEVEL_TRANSITIONS ==
  [WAITING   |-> {"OPEN", "CANCELLED"},
   OPEN      |-> {"FILLED", "CANCELLED", "WAITING", "TP_HIT"},
   FILLED    |-> {"OPEN", "TP_HIT", "CANCELLED"},
   TP_HIT    |-> {"WAITING", "OPEN"},
   CANCELLED |-> {"WAITING"}]

GridAllows(status) == status \in GRID_TRANSITIONS[grid]
(* Mutant: a level takes any status it is given. *)
LevelAllowsAll(l, status) == TRUE
LevelAllows(l, status) == status \in LEVEL_TRANSITIONS[level[l].status]

Absent == [level |-> 0, side |-> "none", state |-> "absent", told |-> FALSE]
Idle   == [pc |-> "idle", op |-> "none", rest |-> {}, id |-> NoId, price |-> NoPrice]

NewLevel == [status |-> "WAITING", buy |-> NoId, sell |-> NoId]

(* After initialize_grid, with the breaker the screening store installed.  *)
Init ==
  /\ grid = "initialized"
  /\ level = [l \in Level |-> NewLevel]
  /\ \E mode \in Modes, open \in Price \cup {NoPrice} :
       breaker = NewBreaker(mode, open)
  /\ day = 1
  /\ orders = [i \in OrderId |-> Absent]
  /\ task = [t \in Task |-> Idle]

-----------------------------------------------------------------------------
(* GridPlanner                                                             *)

Do(l, kind)   == [level |-> l, kind |-> kind, id |-> NoId]
Undo(l, kind, id) == [level |-> l, kind |-> kind, id |-> id]

(* Mutant: a level whose order was cancelled bids again. *)
BuysCancelled(price, skip) ==
  {Do(l, "buy") : l \in {k \in Level \ skip :
      \/ level[k].status \in {"WAITING", "CANCELLED"} /\ price <= BuyPrice[k]
      \/ level[k].status = "TP_HIT"}}

(* Mutant: the widened step is not applied. *)
BuysEveryLevel(price, skip) ==
  {Do(l, "buy") : l \in {k \in Level :
      \/ level[k].status = "WAITING" /\ price <= BuyPrice[k]
      \/ level[k].status = "TP_HIT"}}

Buys(price, skip) ==
  {Do(l, "buy") : l \in {k \in Level \ skip :
      \/ level[k].status = "WAITING" /\ price <= BuyPrice[k]
      \/ level[k].status = "TP_HIT"}}

(* Mutant: a level that still bids is taken to hold something. *)
SellsOpen(price) ==
  {Do(l, "sell") : l \in {k \in Level : /\ level[k].status \in {"FILLED", "OPEN"}
                                       /\ price >= SellPrice[k]}}

Sells(price) ==
  {Do(l, "sell") : l \in {k \in Level : level[k].status = "FILLED" /\ price >= SellPrice[k]}}

Plan(price, skip) == Buys(price, skip) \cup Sells(price)

PlanInitial(price) ==
  {Do(l, "buy") : l \in {k \in Level : level[k].status = "WAITING" /\ price > BuyPrice[k]}}

(* Mutant: only bids are cancelled. *)
PlanCancelBuys ==
  {Undo(l, "cancelBuy", level[l].buy) :
     l \in {k \in Level : level[k].status = "OPEN" /\ level[k].buy # NoId}}

(* One cancel per OPEN level: its buy if it names one, else its sell. *)
PlanCancelAll ==
  {IF level[l].buy # NoId THEN Undo(l, "cancelBuy", level[l].buy)
                          ELSE Undo(l, "cancelSell", level[l].sell) :
     l \in {k \in Level : /\ level[k].status = "OPEN"
                          /\ level[k].buy # NoId \/ level[k].sell # NoId}}

-----------------------------------------------------------------------------
(* How a coroutine works through its plan, one action after another.       *)

Head(rest) == CHOOSE a \in rest : \A b \in rest : a.level <= b.level
Now(t)     == Head(task[t].rest)
Later(t)   == task[t].rest \ {Now(t)}

Side(t)    == IF Now(t).kind \in {"buy", "forceBuy", "cancelBuy"} THEN "buy" ELSE "sell"
Named(a)   == IF a.kind = "forceBuy" THEN level[a.level].buy ELSE level[a.level].sell

(* An action's first call: a forced order first cancels the one the level   *)
(* names, if it names one.                                                  *)
Begin(op, rest) ==
  LET a == Head(rest) IN
  IF a.kind \in {"cancelBuy", "cancelSell"}
  THEN [Idle EXCEPT !.pc = "cancel", !.op = op, !.rest = rest, !.id = a.id]
  ELSE IF a.kind \in {"forceBuy", "forceSell"} /\ Named(a) # NoId
  THEN [Idle EXCEPT !.pc = "clear", !.op = op, !.rest = rest, !.id = Named(a)]
  ELSE [Idle EXCEPT !.pc = "call", !.op = op, !.rest = rest]

(* status is the grid's before the call ends; pause_grid ends by pausing.  *)
Continue(t, op, rest, status) ==
  /\ task' = [task EXCEPT ![t] = IF rest = {} THEN Idle ELSE Begin(op, rest)]
  /\ grid' = IF rest = {} /\ op = "pause" /\ GridAllows("paused") THEN "paused" ELSE status

(* Mutant: an error keeps the rest of the plan. *)
RaiseKeepsPlan(t) == task' = [task EXCEPT ![t].pc = "idle"] /\ UNCHANGED grid
Raise(t) == task' = [task EXCEPT ![t] = Idle] /\ UNCHANGED grid

-----------------------------------------------------------------------------
(* Grid lifecycle                                                          *)

(* From "initialized", and from "paused" too: the transition table allows it. *)
ActivateGrid(t, price) ==
  /\ task[t].pc = "idle"
  /\ GridAllows("active")
  /\ Continue(t, "activate", PlanInitial(price), "active")
  /\ UNCHANGED <<level, breaker, day, orders>>

(* A paused grid cancels once more and then cannot go to PAUSED again. *)
PauseGrid(t) ==
  /\ task[t].pc = "idle"
  /\ Continue(t, "pause", PlanCancelAll, grid)
  /\ UNCHANGED <<level, breaker, day, orders>>

ResumeGrid(t, price) ==
  /\ task[t].pc = "idle"
  /\ GridAllows("active")
  /\ Continue(t, "resume", Plan(price, {}), "active")
  /\ UNCHANGED <<level, breaker, day, orders>>

CloseAllGridOrders(t) ==
  /\ task[t].pc = "idle"
  /\ Continue(t, "close", PlanCancelAll, grid)
  /\ UNCHANGED <<level, breaker, day, orders>>

-----------------------------------------------------------------------------
(* on_price_update                                                         *)

(* The plan, the resume mode and the TA verdict ta, after any cancels. *)
Decide(t, price, b, tripped) ==
  \E ta \in BOOLEAN :
    LET low     == UpdateBottom(b, price)
        skip    == IF b.triggered /\ b.mode = "widen_step"
                   THEN {l \in Level : l % Widen # 0} ELSE {}
        resumed == /\ b.triggered
                   /\ IF b.mode = "trailing_buy" THEN ShouldResumeTrailing(low, price) ELSE ta
        buying  == /\ ~tripped
                   /\ IF b.triggered THEN b.mode = "widen_step" \/ resumed ELSE ta
    IN /\ breaker' = IF resumed THEN Reset(low) ELSE low
       /\ Continue(t, "tick", (IF buying THEN Buys(price, skip) ELSE {}) \cup Sells(price), grid)

Pending(l) == level[l].status = "WAITING" /\ level[l].buy # NoId

(* _cancel_all_pending_buys goes on to the next WAITING level of ls. *)
Disarm(t, price, ls) ==
  LET l == CHOOSE k \in {j \in ls : Pending(j)} : \A m \in {j \in ls : Pending(j)} : k <= m IN
  task' = [task EXCEPT ![t] =
    [Idle EXCEPT !.pc = "disarm", !.op = "tick", !.price = price, !.id = level[l].buy,
                 !.rest = {Undo(l, "cancelBuy", level[l].buy)}]]

OnPriceUpdate(t, price) ==
  LET b == IF breaker.mode = "none" THEN breaker ELSE CheckNewDay(breaker, price, day)
      trips == breaker.mode # "none" /\ ShouldTrigger(b, price)
  IN
  /\ task[t].pc = "idle"
  /\ grid = "active"
  /\ IF trips /\ \E l \in Level : Pending(l)
     THEN breaker' = Trigger(b, price) /\ Disarm(t, price, Level) /\ UNCHANGED grid
     ELSE Decide(t, price, IF trips THEN Trigger(b, price) ELSE b, trips)
  /\ UNCHANGED <<level, day, orders>>

-----------------------------------------------------------------------------
(* _cancel_all_pending_buys, one level after another, swallowing errors.   *)

(* A cancel call, the exchange's half.  An order that no longer works is   *)
(* left alone and the call returns all the same.                           *)
Withdraw(i) == orders' = [orders EXCEPT ![i].state = IF @ = "live" THEN "cancelled" ELSE @]

(* The order the coroutine has asked the execution engine to cancel. *)
Cancelling(t) ==
  IF task[t].pc \in {"disarm", "disarmed", "clear", "cancel", "cancelled"}
  THEN task[t].id ELSE NoId

(* Another coroutine is cancelling the same order: one of the calls raises. *)
Clashes(t) == \E u \in Task \ {t} : Cancelling(u) = Cancelling(t)

ExchangeDisarms(t) ==
  /\ task[t].pc = "disarm"
  /\ ~Clashes(t)
  /\ Withdraw(task[t].id)
  /\ task' = [task EXCEPT ![t].pc = "disarmed"]
  /\ UNCHANGED <<grid, level, breaker, day>>

(* On to the next pending level; after the last, the tick goes on.         *)
DisarmNext(t) ==
  LET ls == {l \in Level : l > Now(t).level} IN
  IF \E l \in ls : Pending(l)
  THEN Disarm(t, task[t].price, ls) /\ UNCHANGED <<grid, breaker>>
  ELSE Decide(t, task[t].price, breaker, TRUE)

Disarmed(t) ==
  /\ task[t].pc = "disarmed"
  /\ level' = [level EXCEPT ![Now(t).level].buy = NoId]
  /\ DisarmNext(t)
  /\ UNCHANGED <<day, orders>>

DisarmFails(t) ==
  /\ task[t].pc \in {"disarm", "disarmed"}
  /\ ExchangeFaults \/ (task[t].pc = "disarm" /\ Clashes(t))
  /\ DisarmNext(t)
  /\ UNCHANGED <<level, day, orders>>

-----------------------------------------------------------------------------
(* _place_order                                                            *)

(* Mutant: every order id goes to buy_order_id. *)
NameBuy(lv, side, id) == [lv EXCEPT !.buy = id]
Name(lv, side, id) ==
  IF side = "buy" THEN [lv EXCEPT !.buy = id] ELSE [lv EXCEPT !.sell = id]

NextId == 1 + Cardinality({i \in OrderId : orders[i].state # "absent"})

ExchangePlaces(t) ==
  /\ task[t].pc = "call"
  /\ NextId \in OrderId
  /\ orders' = [orders EXCEPT ![NextId] =
                  [level |-> Now(t).level, side |-> Side(t), state |-> "live", told |-> FALSE]]
  /\ task' = [task EXCEPT ![t] = [@ EXCEPT !.pc = "placed", !.id = NextId]]
  /\ UNCHANGED <<grid, level, breaker, day>>

(* The execution engine refuses, or fails: the rest of the plan is lost. *)
PlaceFails(t) ==
  /\ \/ task[t].pc = "call"
     \/ task[t].pc = "placed" /\ ExchangeFaults
  /\ Raise(t)
  /\ UNCHANGED <<level, breaker, day, orders>>

(* The level names the order first and changes status second: a status     *)
(* that may not go to OPEN raises, and the rest of the plan is lost.        *)
(* force_sell does not change the status.                                   *)
OrderRecorded(t) ==
  LET l == Now(t).level
      opens == Now(t).kind # "forceSell"
      named == Name(level[l], Side(t), task[t].id)
  IN
  /\ task[t].pc = "placed"
  /\ level' = [level EXCEPT ![l] =
                 IF opens /\ LevelAllows(l, "OPEN") THEN [named EXCEPT !.status = "OPEN"] ELSE named]
  /\ IF opens /\ ~LevelAllows(l, "OPEN")
     THEN Raise(t) ELSE Continue(t, task[t].op, Later(t), grid)
  /\ UNCHANGED <<breaker, day, orders>>

-----------------------------------------------------------------------------
(* _cancel_order                                                           *)

ExchangeCancels(t) ==
  /\ task[t].pc = "cancel"
  /\ ~Clashes(t)
  /\ Withdraw(task[t].id)
  /\ task' = [task EXCEPT ![t].pc = "cancelled"]
  /\ UNCHANGED <<grid, level, breaker, day>>

(* The level forgets the order, then goes to CANCELLED if it may. *)
CancelRecorded(t) ==
  LET l == Now(t).level
      freed == Name(level[l], Side(t), NoId)
  IN
  /\ task[t].pc = "cancelled"
  /\ level' = [level EXCEPT ![l] =
                 IF LevelAllows(l, "CANCELLED") THEN [freed EXCEPT !.status = "CANCELLED"] ELSE freed]
  /\ IF LevelAllows(l, "CANCELLED")
     THEN Continue(t, task[t].op, Later(t), grid) ELSE Raise(t)
  /\ UNCHANGED <<breaker, day, orders>>

CancelFails(t) ==
  /\ task[t].pc \in {"cancel", "cancelled"}
  /\ ExchangeFaults \/ (task[t].pc = "cancel" /\ Clashes(t))
  /\ Raise(t)
  /\ UNCHANGED <<level, breaker, day, orders>>

-----------------------------------------------------------------------------
(* Fill callbacks: they name the level, not the order that filled.         *)

Told(i) == orders' = [orders EXCEPT ![i].told = TRUE]
Untold(i, side) == orders[i].state = "filled" /\ ~orders[i].told /\ orders[i].side = side

OnBuyFilled(t, i) ==
  LET l == orders[i].level IN
  /\ task[t].pc = "idle"
  /\ Untold(i, "buy")
  /\ Told(i)
  /\ IF LevelAllows(l, "FILLED")
     THEN /\ level' = [level EXCEPT ![l] = [@ EXCEPT !.status = "FILLED", !.buy = NoId]]
          /\ Continue(t, "buyFilled", IF grid = "active" THEN {Do(l, "sell")} ELSE {}, grid)
     ELSE UNCHANGED <<level, task, grid>>
  /\ UNCHANGED <<breaker, day>>

OnSellFilled(t, i) ==
  LET l == orders[i].level IN
  /\ task[t].pc = "idle"
  /\ Untold(i, "sell")
  /\ Told(i)
  /\ level' = [level EXCEPT ![l] =
       IF LevelAllows(l, "TP_HIT")
       THEN [@ EXCEPT !.status = IF grid = "active" THEN "WAITING" ELSE "TP_HIT", !.sell = NoId]
       ELSE @]
  /\ UNCHANGED <<grid, breaker, day, task>>

-----------------------------------------------------------------------------
(* Manual orders.  Without a level, force_buy takes the first WAITING one   *)
(* below the price, which is one of the levels tried here.                  *)

ForceBuy(t, l) ==
  /\ Manual
  /\ task[t].pc = "idle"
  /\ grid = "active"
  /\ level[l].status # "FILLED"
  /\ Continue(t, "forceBuy", {Do(l, "forceBuy")}, grid)
  /\ UNCHANGED <<level, breaker, day, orders>>

(* One FILLED level, or all of them. *)
ForceSell(t) ==
  LET filled == {l \in Level : level[l].status = "FILLED"} IN
  /\ Manual
  /\ task[t].pc = "idle"
  /\ grid = "active"
  /\ \E ls \in {{l} : l \in filled} \cup ({filled} \ {{}}) :
       Continue(t, "forceSell", {Do(l, "forceSell") : l \in ls}, grid)
  /\ UNCHANGED <<level, breaker, day, orders>>

(* The order the level named is cancelled; an error is swallowed. *)
ForceClears(t) ==
  /\ task[t].pc = "clear"
  /\ ~Clashes(t)
  /\ Withdraw(task[t].id)
  /\ task' = [task EXCEPT ![t] = [@ EXCEPT !.pc = "call", !.id = NoId]]
  /\ UNCHANGED <<grid, level, breaker, day>>

ForceClearFails(t) ==
  /\ task[t].pc = "clear"
  /\ ExchangeFaults \/ Clashes(t)
  /\ task' = [task EXCEPT ![t] = [@ EXCEPT !.pc = "call", !.id = NoId]]
  /\ UNCHANGED <<grid, level, breaker, day, orders>>

-----------------------------------------------------------------------------
OrderFills(i) ==
  /\ orders[i].state = "live"
  /\ orders' = [orders EXCEPT ![i].state = "filled"]
  /\ UNCHANGED <<grid, level, breaker, day, task>>

NewDay ==
  /\ day < MaxDay
  /\ day' = day + 1
  /\ UNCHANGED <<grid, level, breaker, orders, task>>

Call(t) ==
  \/ \E price \in Price :
       ResumeGrid(t, price) \/ ActivateGrid(t, price) \/ OnPriceUpdate(t, price)
  \/ PauseGrid(t) \/ CloseAllGridOrders(t)
  \/ \E i \in OrderId : OnBuyFilled(t, i) \/ OnSellFilled(t, i)
  \/ \E l \in Level : ForceBuy(t, l)
  \/ ForceSell(t)

Proceed(t) ==
  \/ ExchangeDisarms(t) \/ Disarmed(t)       \/ DisarmFails(t)
  \/ ExchangePlaces(t)  \/ OrderRecorded(t)  \/ PlaceFails(t)
  \/ ExchangeCancels(t) \/ CancelRecorded(t) \/ CancelFails(t)
  \/ ForceClears(t)     \/ ForceClearFails(t)

Next ==
  \/ \E t \in Task : Call(t) \/ Proceed(t)
  \/ \E i \in OrderId : OrderFills(i)
  \/ NewDay

Spec == Init /\ [][Next]_vars

-----------------------------------------------------------------------------
(* Properties                                                              *)

LevelRecord ==
  [status : {"WAITING", "OPEN", "FILLED", "TP_HIT", "CANCELLED"},
   buy : OrderId \cup {NoId}, sell : OrderId \cup {NoId}]
OrderRecord ==
  [level : Level, side : {"buy", "sell"}, state : {"live", "filled", "cancelled"},
   told : BOOLEAN]
Action ==
  [level : Level, id : OrderId \cup {NoId},
   kind : {"buy", "sell", "cancelBuy", "cancelSell", "forceBuy", "forceSell"}]

(* Every variable has its type; a busy coroutine has something left to do. *)
TypeOK ==
  /\ grid \in DOMAIN GRID_TRANSITIONS
  /\ level \in [Level -> LevelRecord]
  /\ breaker \in Breaker(Day)
  /\ day \in Day
  /\ \A i \in OrderId : orders[i] = Absent \/ orders[i] \in OrderRecord
  /\ \A t \in Task :
       /\ task[t].rest \in SUBSET Action
       /\ task[t].id \in OrderId \cup {NoId}
       /\ task[t].pc # "idle" <=> task[t].rest # {}

Count(l, side, state) ==
  Cardinality({i \in OrderId : /\ orders[i].level = l
                               /\ orders[i].side = side
                               /\ orders[i].state = state})

(* The exchange never works a sell of what the level does not hold, however *)
(* late the fill callbacks arrive and whatever the ticks find meanwhile.    *)
NoOversell == \A l \in Level : Count(l, "sell", "live") + Count(l, "sell", "filled")
                                 <= Count(l, "buy", "filled")

(* A level is never bought twice: what it holds and what it bids for come   *)
(* to one quantity at most.                                                 *)
OneExposure == \A l \in Level :
  Count(l, "buy", "live") + Count(l, "buy", "filled") <= 1 + Count(l, "sell", "filled")

(* A paused grid with nothing in progress has no order left on the market,  *)
(* even if a plan failed half way or an order filled while it was paused.   *)
PausedIsQuiet ==
  grid = "paused" /\ (\A t \in Task : task[t].pc = "idle")
    => \A i \in OrderId : orders[i].state # "live"

(* While the breaker is triggered a tick adds no bid, but in WIDEN_STEP,    *)
(* where it bids at every Widen-th level only.                              *)
BreakerHoldsBuys ==
  [][\A i \in OrderId, t \in Task :
       orders[i].state = "absent" /\ orders'[i].side = "buy" /\ task[t].op = "tick" /\ task'[t].id = i
         => \/ ~breaker.triggered
            \/ breaker.mode = "widen_step" /\ orders'[i].level % Widen = 0]_vars

(* A triggered breaker knows the low of the fall that triggered it.         *)
BreakerKnowsLow ==
  breaker.triggered =>
    /\ breaker.date # NoDate /\ breaker.open # NoPrice /\ breaker.bottom # NoPrice
    /\ Dropped(breaker, breaker.bottom)

(* What a level names is an order this engine placed at this level on that  *)
(* side, and no order is named by two levels.                               *)
NamesOwnOrders ==
  \A l \in Level :
    /\ level[l].buy # NoId =>
         orders[level[l].buy].level = l /\ orders[level[l].buy].side = "buy"
    /\ level[l].sell # NoId =>
         orders[level[l].sell].level = l /\ orders[level[l].sell].side = "sell"

Phase(lv) ==
  CASE lv.status = "OPEN"      -> IF lv.buy # NoId THEN "bid" ELSE "offered"
    [] lv.status = "FILLED"    -> "held"
    [] lv.status = "CANCELLED" -> "off"
    [] OTHER                   -> "flat"

Cycle == INSTANCE GridCycle WITH phase <- [l \in Level |-> Phase(level[l])]

(* Every level goes through the cycle that GridCycle promises.              *)
ImplementsCycle == Cycle!Spec
=============================================================================
