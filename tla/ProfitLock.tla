----------------------------- MODULE ProfitLock -----------------------------
(***************************************************************************)
(* src/backend/engine/profit_lock: the ProfitLockEngine with its policy,   *)
(* state machine and store, for one lock key holding one long position.    *)
(* Calls are asyncio coroutines: a step is the code between two awaits,    *)
(* and an await of the execution engine is two steps.                      *)
(*                                                                         *)
(* A coroutine keeps the ProfitLockState object it found; enable puts a    *)
(* new one in the store.  Objects are told apart by the number gen.        *)
(***************************************************************************)
EXTENDS Naturals, FiniteSets

CONSTANTS
  Price,              \* the prices the market may quote
  TriggerPct, TrailPct, CapPct,   \* percentages; a cap of 0 is no cap
  Task,               \* coroutines that may be inside the engine at one time
  MaxGen, MaxOrders,  \* bounds: calls of enable, orders ever placed
  ExchangeFaults      \* TRUE: answers get lost and cancels fail

ASSUME PriceAssumption == Price \subseteq Nat \ {0}
ASSUME PercentAssumption ==
  /\ TriggerPct \in Nat \ {0}
  /\ TrailPct \in 1 .. 99
  /\ CapPct \in Nat
ASSUME BoundAssumption == MaxGen \in Nat /\ MaxOrders \in Nat /\ ExchangeFaults \in BOOLEAN

VARIABLES
  lock,     \* the state in the store
  orders,   \* the exchange: every lock order placed
  task      \* what each coroutine is doing

vars == <<lock, orders, task>>

NoId    == 0
NoPrice == 0
OrderId == 1 .. MaxOrders

TRANSITIONS ==
  [disabled   |-> {"monitoring", "cancelled"},
   monitoring |-> {"triggered", "disabled", "cancelled", "error"},
   triggered  |-> {"triggered", "executing", "disabled", "cancelled", "error"},
   executing  |-> {"locked", "triggered", "disabled", "cancelled", "error"},
   locked     |-> {"monitoring", "disabled", "cancelled"},
   cancelled  |-> {"disabled", "monitoring"},
   error      |-> {"monitoring", "triggered", "disabled"}]

Allowed(status) == lock.gen # 0 /\ status \in TRANSITIONS[lock.status]

(* Lock prices are in hundredths, so a percentage of a price is exact. *)
Profit(entry, price, pct) == price >= entry /\ (price - entry) * 100 >= pct * entry
LockPrice(high) == high * (100 - TrailPct)

Absent == [gen |-> 0, state |-> "absent", told |-> FALSE]
Idle   == [pc |-> "idle", gen |-> 0, id |-> NoId]

Init ==
  /\ lock = [gen |-> 0, status |-> "disabled", enabled |-> FALSE, entry |-> NoPrice,
             high |-> NoPrice, price |-> NoPrice, order |-> NoId]
  /\ orders = [i \in OrderId |-> Absent]
  /\ task = [t \in Task |-> Idle]

Finish(t) == task' = [task EXCEPT ![t] = Idle]

-----------------------------------------------------------------------------
(* enable, disable, on_position_update                                     *)

(* Whatever the lock was doing, a fresh state takes its place. *)
Enable(entry) ==
  /\ lock.gen < MaxGen
  /\ lock' = [gen |-> lock.gen + 1, status |-> "monitoring", enabled |-> TRUE, entry |-> entry,
              high |-> entry, price |-> NoPrice, order |-> NoId]
  /\ UNCHANGED <<orders, task>>

(* The store's state goes to DISABLED; the rest is written to the state of *)
(* the given gen, which an enable may have replaced.                       *)
SwitchOff(gen) ==
  lock' = IF ~Allowed("disabled") THEN lock
          ELSE IF lock.gen = gen
               THEN [lock EXCEPT !.status = "disabled", !.enabled = FALSE, !.order = NoId]
               ELSE [lock EXCEPT !.status = "disabled"]

Disable(t) ==
  /\ task[t].pc = "idle"
  /\ lock.gen # 0
  /\ IF lock.status = "executing" /\ lock.order # NoId
     THEN task' = [task EXCEPT ![t] = [pc |-> "cancel", gen |-> lock.gen, id |-> lock.order]]
          /\ UNCHANGED lock
     ELSE SwitchOff(lock.gen) /\ UNCHANGED task
  /\ UNCHANGED orders

ExchangeCancels(t) ==
  /\ task[t].pc = "cancel"
  /\ orders' = [orders EXCEPT ![task[t].id].state = IF @ = "live" THEN "cancelled" ELSE @]
  /\ task' = [task EXCEPT ![t].pc = "cancelled"]
  /\ UNCHANGED lock

(* An error of the cancel is swallowed. *)
DisableEnds(t) ==
  /\ \/ task[t].pc = "cancelled"
     \/ task[t].pc = "cancel" /\ ExchangeFaults
  /\ SwitchOff(task[t].gen)
  /\ Finish(t)
  /\ UNCHANGED orders

OnPositionUpdate(entry) ==
  /\ lock.gen # 0
  /\ lock' = [lock EXCEPT !.entry = entry]
  /\ UNCHANGED <<orders, task>>

-----------------------------------------------------------------------------
(* on_price_update: the policy's decisions and their handlers              *)

Watching == lock.enabled /\ lock.status \in {"monitoring", "triggered"}
Capped(price) == CapPct > 0 /\ Profit(lock.entry, price, CapPct)
High(price)   == IF price > lock.high THEN price ELSE lock.high

(* Mutant: the handler stores the lock price but not the new high. *)
RaisedLockOnly(price) == [lock EXCEPT !.price = LockPrice(High(price))]

(* The lock with the high and the lock price of a price taken into account. *)
Raised(price) == [lock EXCEPT !.high = High(price), !.price = LockPrice(High(price))]

TriggerLock(price) ==
  /\ Watching /\ ~Capped(price)
  /\ lock.status = "monitoring"
  /\ Profit(lock.entry, price, TriggerPct)
  /\ lock' = [Raised(price) EXCEPT !.status = "triggered"]
  /\ UNCHANGED <<orders, task>>

Trails(price) ==
  lock.status = "triggered" /\ price > lock.high /\ LockPrice(price) > lock.price

UpdateLock(price) ==
  /\ Watching /\ ~Capped(price)
  /\ Trails(price)
  /\ lock' = Raised(price)
  /\ UNCHANGED <<orders, task>>

(* Mutant: an order is placed without going to EXECUTING. *)
PlaceLockOrderUnguarded(t) ==
  /\ task[t].pc = "idle"
  /\ Allowed("executing")
  /\ task' = [task EXCEPT ![t] = [pc |-> "place", gen |-> lock.gen, id |-> NoId]]
  /\ UNCHANGED <<lock, orders>>

(* A state that may not go to EXECUTING raises, MONITORING among them: a   *)
(* cap reached before the trigger sells nothing.                           *)
PlaceLockOrder(t) ==
  /\ task[t].pc = "idle"
  /\ Allowed("executing")
  /\ lock' = [lock EXCEPT !.status = "executing"]
  /\ task' = [task EXCEPT ![t] = [pc |-> "place", gen |-> lock.gen, id |-> NoId]]
  /\ UNCHANGED orders

ExecuteLock(t, price) ==
  /\ Watching
  /\ \/ Capped(price)
     \/ lock.status = "triggered" /\ ~Trails(price) /\ price * 100 <= lock.price
  /\ PlaceLockOrder(t)

(* execute_lock: asks neither the policy nor enabled. *)
ExecuteManually(t) == lock.gen # 0 /\ PlaceLockOrder(t)

-----------------------------------------------------------------------------
(* _place_lock_order, from the await on                                    *)

NextId == 1 + Cardinality({i \in OrderId : orders[i].state # "absent"})

ExchangePlaces(t) ==
  /\ task[t].pc = "place"
  /\ NextId \in OrderId
  /\ orders' = [orders EXCEPT ![NextId] = [gen |-> task[t].gen, state |-> "live", told |-> FALSE]]
  /\ task' = [task EXCEPT ![t] = [@ EXCEPT !.pc = "placed", !.id = NextId]]
  /\ UNCHANGED lock

(* The id goes to the state the coroutine holds, in the store or not. *)
OrderRecorded(t) ==
  /\ task[t].pc = "placed"
  /\ lock' = IF lock.gen = task[t].gen THEN [lock EXCEPT !.order = task[t].id] ELSE lock
  /\ Finish(t)
  /\ UNCHANGED orders

(* Mutant: the error is reported and the status is left alone. *)
PlaceFailsQuietly(t) ==
  /\ \/ task[t].pc = "place"
     \/ task[t].pc = "placed" /\ ExchangeFaults
  /\ Finish(t)
  /\ UNCHANGED <<lock, orders>>

(* The state in the store goes to ERROR, if it may. *)
PlaceFails(t) ==
  /\ \/ task[t].pc = "place"
     \/ task[t].pc = "placed" /\ ExchangeFaults
  /\ lock' = IF Allowed("error") THEN [lock EXCEPT !.status = "error"] ELSE lock
  /\ Finish(t)
  /\ UNCHANGED orders

-----------------------------------------------------------------------------
(* on_order_filled, on_order_cancelled: reports of the order the lock names. *)

(* Mutant: any order of the account is taken for the lock's own. *)
ConcernsAny(i) == lock.gen # 0 /\ lock.status = "executing"

Concerns(i) == lock.gen # 0 /\ lock.order = i /\ lock.status = "executing"

Reported(i, state) ==
  /\ orders[i].state = state /\ ~orders[i].told
  /\ orders' = [orders EXCEPT ![i].told = TRUE]
  /\ UNCHANGED task

(* Mutant: the status of the order is taken for that of the lock. *)
OnOrderFilledCopies(i) ==
  /\ Reported(i, "filled")
  /\ lock' = IF Concerns(i) THEN [lock EXCEPT !.status = orders[i].state, !.order = NoId] ELSE lock

OnOrderFilled(i) ==
  /\ Reported(i, "filled")
  /\ lock' = IF Concerns(i) THEN [lock EXCEPT !.status = "locked", !.order = NoId] ELSE lock

(* Mutant: trailing starts over from the entry. *)
OnOrderCancelledAnew(i) ==
  /\ Reported(i, "cancelled")
  /\ lock' = IF Concerns(i)
             THEN [lock EXCEPT !.status = "triggered", !.order = NoId,
                               !.high = lock.entry, !.price = LockPrice(lock.entry)]
             ELSE lock

OnOrderCancelled(i) ==
  /\ Reported(i, "cancelled")
  /\ lock' = IF Concerns(i) THEN [lock EXCEPT !.status = "triggered", !.order = NoId] ELSE lock

(* An order fills, or its account holder cancels it. *)
OrderEnds(i) ==
  /\ orders[i].state = "live"
  /\ \E state \in {"filled", "cancelled"} : orders' = [orders EXCEPT ![i].state = state]
  /\ UNCHANGED <<lock, task>>

-----------------------------------------------------------------------------
Next ==
  \/ \E price \in Price :
       \/ Enable(price) \/ OnPositionUpdate(price)
       \/ TriggerLock(price) \/ UpdateLock(price)
       \/ \E t \in Task : ExecuteLock(t, price)
  \/ \E t \in Task :
       \/ Disable(t) \/ ExchangeCancels(t) \/ DisableEnds(t)
       \/ ExecuteManually(t)
       \/ ExchangePlaces(t) \/ OrderRecorded(t) \/ PlaceFails(t)
  \/ \E i \in OrderId : OnOrderFilled(i) \/ OnOrderCancelled(i) \/ OrderEnds(i)

Spec == Init /\ [][Next]_vars

-----------------------------------------------------------------------------
(* Properties                                                              *)

LockRecord ==
  [gen : 0 .. MaxGen, status : DOMAIN TRANSITIONS, enabled : BOOLEAN,
   entry : Price \cup {NoPrice}, high : Price \cup {NoPrice},
   price : Nat, order : OrderId \cup {NoId}]
OrderRecord ==
  [gen : 0 .. MaxGen, state : {"absent", "live", "filled", "cancelled"}, told : BOOLEAN]
TaskRecord ==
  [pc : {"idle", "cancel", "cancelled", "place", "placed"}, gen : 0 .. MaxGen,
   id : OrderId \cup {NoId}]

(* Every variable has its type. *)
TypeOK ==
  /\ lock \in LockRecord
  /\ orders \in [OrderId -> OrderRecord]
  /\ task \in [Task -> TaskRecord]

(* A position is put up for sale once: no two orders of one enabled lock    *)
(* work or have filled, however ticks, manual executions, disables, lost    *)
(* answers and late reports interleave.                                     *)
OneExit ==
  \A g \in 1 .. MaxGen :
    Cardinality({i \in OrderId : orders[i].gen = g /\ orders[i].state \in {"live", "filled"}}) <= 1

(* A lock that says LOCKED has sold: an order of this very lock is filled,  *)
(* never one of the lock that enable replaced.                              *)
LockedIsSold ==
  lock.status = "locked" =>
    \E i \in OrderId : orders[i].gen = lock.gen /\ orders[i].state = "filled"

(* The lock price of a position never falls.                                *)
LockRatchets ==
  [][lock'.gen = lock.gen => lock'.price >= lock.price]_vars

(* The lock price is always the trail below the highest price the lock has  *)
(* seen since it triggered, although policy and handlers each compute one.  *)
LockTrailsHigh == lock.price # NoPrice => lock.price = LockPrice(lock.high)

(* An EXECUTING lock is being carried out: its order is being placed, or it *)
(* names the order, which no one has replaced.                              *)
ExecutingHasOrder ==
  lock.status = "executing" =>
    \/ \E t \in Task : task[t].pc \in {"place", "placed"} /\ task[t].gen = lock.gen
    \/ lock.order # NoId /\ orders[lock.order].gen = lock.gen

(* A tick at or above the cap starts the sale of a watched position: a call  *)
(* of on_price_update that raises instead is one that ExecuteLock cannot     *)
(* take.                                                                     *)
CapSells ==
  \A price \in Price :
    Watching /\ Capped(price) /\ (\E t \in Task : task[t].pc = "idle")
      => ENABLED (\E t \in Task : ExecuteLock(t, price))
=============================================================================
