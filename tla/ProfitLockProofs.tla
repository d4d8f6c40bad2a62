-------------------------- MODULE ProfitLockProofs --------------------------
(***************************************************************************)
(* Theorems about ProfitLock, for every set of prices and coroutines,      *)
(* every percentage and any number of enables and orders, with faults or   *)
(* without.                                                                *)
(***************************************************************************)
EXTENDS ProfitLock, FiniteSetTheorems, TLAPS

(***************************************************************************)
(* OneExit is not inductive: it says nothing of the order a coroutine is   *)
(* about to place.  The invariant follows an order of one lock from the    *)
(* transition to EXECUTING until the lock names it.                        *)
(***************************************************************************)

(* An order of the lock numbered g that works or has filled. *)
Out(g, i) == orders[i].gen = g /\ orders[i].state \in {"live", "filled"}

(* A coroutine in the middle of placing an order for that lock. *)
Placing(g, t) == task[t].gen = g /\ task[t].pc \in {"place", "placed"}

(* Nobody knows of a lock before enable made it. *)
Known ==
  /\ \A i \in OrderId : orders[i].gen <= lock.gen
  /\ \A t \in Task : task[t].gen <= lock.gen

(* A lock that may still go to EXECUTING has nothing out and nothing coming. *)
ReadyIsClear ==
  lock.status \in {"monitoring", "triggered"} =>
    /\ lock.order = NoId
    /\ \A t \in Task : ~Placing(lock.gen, t)
    /\ \A i \in OrderId : ~Out(lock.gen, i)

(* The order an EXECUTING lock names is the only one of it. *)
NamedIsOnly ==
  lock.status = "executing" /\ lock.order # NoId =>
    /\ \A t \in Task : ~Placing(lock.gen, t)
    /\ \A i \in OrderId : Out(lock.gen, i) => i = lock.order

(* One coroutine at a time places an order for a lock, and until it is back *)
(* there is no other order of that lock.                                    *)
PlacingAlone ==
  \A t \in Task :
    task[t].pc \in {"place", "placed"} =>
      /\ \A u \in Task : Placing(task[t].gen, u) => u = t
      /\ \A i \in OrderId :
           Out(task[t].gen, i) => task[t].pc = "placed" /\ i = task[t].id

(* OneExit, order by order. *)
OneOut == \A g \in 1 .. MaxGen : \A i, j \in OrderId : Out(g, i) /\ Out(g, j) => i = j

IInv == TypeOK /\ Known /\ ReadyIsClear /\ NamedIsOnly /\ PlacingAlone /\ OneOut

-----------------------------------------------------------------------------
(* Type correctness.                                                       *)

(* The statuses the state machine has transitions for. *)
LEMMA StatusNames ==
  DOMAIN TRANSITIONS =
    {"disabled", "monitoring", "triggered", "executing", "locked", "cancelled", "error"}
BY DEF TRANSITIONS

(* A lock price is a number of hundredths. *)
LEMMA LockPriceType == \A high \in Nat : LockPrice(high) \in Nat
<1> TAKE high \in Nat
<1>1. 100 - TrailPct \in Nat
  BY PercentAssumption
<1> QED
  BY <1>1 DEF LockPrice

(* Idle is a task record. *)
LEMMA IdleType == Idle \in TaskRecord /\ Idle.pc = "idle" /\ Idle.gen = 0
BY BoundAssumption DEF Idle, TaskRecord, NoId

(* What TypeOK says of each field of the lock. *)
LEMMA LockFields ==
  ASSUME TypeOK
  PROVE  /\ lock.gen \in 0 .. MaxGen /\ lock.status \in DOMAIN TRANSITIONS
         /\ lock.enabled \in BOOLEAN
         /\ lock.entry \in Price \cup {NoPrice} /\ lock.high \in Price \cup {NoPrice}
         /\ lock.price \in Nat /\ lock.order \in OrderId \cup {NoId}
BY DEF TypeOK, LockRecord

(* Taking a price into account keeps the type of the lock and moves only   *)
(* the high and the lock price.                                            *)
LEMMA RaisedEffect ==
  ASSUME TypeOK, NEW price \in Price
  PROVE  /\ Raised(price) \in LockRecord
         /\ High(price) \in Price \cup {NoPrice} /\ High(price) \in Nat
         /\ Raised(price).gen = lock.gen /\ Raised(price).status = lock.status
         /\ Raised(price).order = lock.order
         /\ Raised(price).high = High(price) /\ Raised(price).price = LockPrice(High(price))
<1>1. High(price) \in Price \cup {NoPrice} /\ High(price) \in Nat
  <2>1. lock.high \in Price \cup {NoPrice}
    BY LockFields
  <2>2. Price \cup {NoPrice} \subseteq Nat
    BY PriceAssumption DEF NoPrice
  <2>3. High(price) \in Price \cup {NoPrice}
    BY <2>1 DEF High
  <2> QED
    BY <2>2, <2>3
<1>2. LockPrice(High(price)) \in Nat
  BY <1>1, LockPriceType
<1>3. lock \in LockRecord
  BY DEF TypeOK
<1>4. Raised(price) \in LockRecord
  BY <1>1, <1>2, <1>3 DEF Raised, LockRecord
<1> QED
  BY <1>1, <1>3, <1>4 DEF Raised, LockRecord

(* A transition the state machine allows starts from a lock in the store,  *)
(* and only a TRIGGERED one goes to EXECUTING.                             *)
LEMMA AllowedExecuting ==
  ASSUME TypeOK, Allowed("executing")
  PROVE  lock.status = "triggered" /\ lock.gen \in 1 .. MaxGen
<1>1. lock.status \in DOMAIN TRANSITIONS /\ lock.gen \in 0 .. MaxGen /\ lock.gen # 0
  BY DEF TypeOK, LockRecord, Allowed
<1>2. "executing" \in TRANSITIONS[lock.status]
  BY DEF Allowed
<1>3. lock.status = "triggered"
  BY <1>1, <1>2, StatusNames DEF TRANSITIONS
<1> QED
  BY <1>1, <1>3, BoundAssumption

(* Init establishes the types. *)
LEMMA InitType == Init => TypeOK
<1> SUFFICES ASSUME Init PROVE TypeOK
  OBVIOUS
<1>1. lock \in LockRecord
  BY StatusNames, BoundAssumption DEF Init, LockRecord, NoPrice, NoId
<1>2. orders \in [OrderId -> OrderRecord]
  BY BoundAssumption DEF Init, OrderRecord, Absent
<1>3. task \in [Task -> TaskRecord]
  BY IdleType DEF Init
<1> QED
  BY <1>1, <1>2, <1>3 DEF TypeOK

(* Going idle. *)
LEMMA FinishEffect ==
  ASSUME TypeOK, NEW t \in Task, Finish(t)
  PROVE  /\ task' \in [Task -> TaskRecord]
         /\ task'[t].pc = "idle" /\ task'[t].gen = 0
         /\ \A u \in Task \ {t} : task'[u] = task[u]
BY IdleType DEF TypeOK, Finish

(* Every step of the engine and of the exchange keeps the types. *)
LEMMA StepType == TypeOK /\ [Next]_vars => TypeOK'
<1> SUFFICES ASSUME TypeOK, [Next]_vars PROVE TypeOK'
  OBVIOUS
<1> USE StatusNames
<1>1. ASSUME NEW price \in Price, Enable(price) PROVE TypeOK'
  <2>1. lock.gen + 1 \in 0 .. MaxGen
    BY <1>1, LockFields, BoundAssumption DEF Enable
  <2>2. lock' \in LockRecord
    BY <1>1, <2>1 DEF Enable, LockRecord, NoPrice, NoId
  <2> QED
    BY <1>1, <2>2 DEF Enable, TypeOK
<1>2. ASSUME NEW price \in Price, OnPositionUpdate(price) PROVE TypeOK'
  BY <1>2 DEF OnPositionUpdate, TypeOK, LockRecord
<1>3. ASSUME NEW price \in Price, TriggerLock(price) PROVE TypeOK'
  BY <1>3, RaisedEffect DEF TriggerLock, TypeOK, LockRecord
<1>4. ASSUME NEW price \in Price, UpdateLock(price) PROVE TypeOK'
  BY <1>4, RaisedEffect DEF UpdateLock, TypeOK
<1>5. ASSUME NEW t \in Task, PlaceLockOrder(t) PROVE TypeOK'
  <2>1. lock' \in LockRecord
    BY <1>5 DEF PlaceLockOrder, TypeOK, LockRecord
  <2>2. [pc |-> "place", gen |-> lock.gen, id |-> NoId] \in TaskRecord
    BY LockFields DEF TaskRecord
  <2>3. task' \in [Task -> TaskRecord]
    BY <1>5, <2>2 DEF PlaceLockOrder, TypeOK
  <2> QED
    BY <1>5, <2>1, <2>3 DEF PlaceLockOrder, TypeOK
<1>6. ASSUME NEW gen, SwitchOff(gen) PROVE lock' \in LockRecord
  BY <1>6 DEF SwitchOff, TypeOK, LockRecord
<1>7. ASSUME NEW t \in Task, Disable(t) PROVE TypeOK'
  <2>1. [pc |-> "cancel", gen |-> lock.gen, id |-> lock.order] \in TaskRecord
    BY LockFields DEF TaskRecord
  <2> QED
    BY <1>6, <1>7, <2>1 DEF Disable, TypeOK
<1>8. ASSUME NEW t \in Task, ExchangeCancels(t) PROVE TypeOK'
  <2>1. orders' \in [OrderId -> OrderRecord]
    <3>1. \A i \in OrderId : [orders[i] EXCEPT !.state = IF orders[i].state = "live"
                                                        THEN "cancelled"
                                                        ELSE orders[i].state] \in OrderRecord
      BY DEF TypeOK, OrderRecord
    <3> QED
      BY <1>8, <3>1 DEF ExchangeCancels, TypeOK
  <2>2. task' \in [Task -> TaskRecord]
    <3>1. [task[t] EXCEPT !.pc = "cancelled"] \in TaskRecord
      BY DEF TypeOK, TaskRecord
    <3> QED
      BY <1>8, <3>1 DEF ExchangeCancels, TypeOK
  <2> QED
    BY <1>8, <2>1, <2>2 DEF ExchangeCancels, TypeOK
<1>9. ASSUME NEW t \in Task, DisableEnds(t) PROVE TypeOK'
  BY <1>6, <1>9, FinishEffect DEF DisableEnds, TypeOK
<1>10. ASSUME NEW t \in Task, ExchangePlaces(t) PROVE TypeOK'
  <2>1. orders' \in [OrderId -> OrderRecord]
    BY <1>10 DEF ExchangePlaces, TypeOK, OrderRecord, TaskRecord
  <2>2. task' \in [Task -> TaskRecord]
    BY <1>10 DEF ExchangePlaces, TypeOK, TaskRecord
  <2> QED
    BY <1>10, <2>1, <2>2 DEF ExchangePlaces, TypeOK
<1>11. ASSUME NEW t \in Task, OrderRecorded(t) PROVE TypeOK'
  <2>1. lock' \in LockRecord
    BY <1>11 DEF OrderRecorded, TypeOK, LockRecord, TaskRecord
  <2> QED
    BY <1>11, <2>1, FinishEffect DEF OrderRecorded, TypeOK
<1>12. ASSUME NEW t \in Task, PlaceFails(t) PROVE TypeOK'
  <2>1. lock' \in LockRecord
    BY <1>12 DEF PlaceFails, TypeOK, LockRecord
  <2> QED
    BY <1>12, <2>1, FinishEffect DEF PlaceFails, TypeOK
<1>13. ASSUME NEW i \in OrderId, OnOrderFilled(i) \/ OnOrderCancelled(i) PROVE TypeOK'
  <2>1. orders' \in [OrderId -> OrderRecord] /\ task' = task
    <3>1. [orders[i] EXCEPT !.told = TRUE] \in OrderRecord
      BY DEF TypeOK, OrderRecord
    <3>2. orders' = [orders EXCEPT ![i] = [orders[i] EXCEPT !.told = TRUE]] /\ task' = task
      BY <1>13 DEF OnOrderFilled, OnOrderCancelled, Reported
    <3> QED
      BY <3>1, <3>2 DEF TypeOK
  <2>2. lock' \in LockRecord
    <3>1. \/ lock' = lock
          \/ lock' = [lock EXCEPT !.status = "locked", !.order = NoId]
          \/ lock' = [lock EXCEPT !.status = "triggered", !.order = NoId]
      BY <1>13 DEF OnOrderFilled, OnOrderCancelled
    <3>2. lock \in LockRecord
      BY DEF TypeOK
    <3>3. ASSUME NEW s \in DOMAIN TRANSITIONS
          PROVE  [lock EXCEPT !.status = s, !.order = NoId] \in LockRecord
      BY <3>2 DEF LockRecord
    <3> QED
      BY <3>1, <3>2, <3>3
  <2> QED
    BY <2>1, <2>2 DEF TypeOK
<1>14. ASSUME NEW i \in OrderId, OrderEnds(i) PROVE TypeOK'
  BY <1>14 DEF OrderEnds, TypeOK, OrderRecord
<1>15. CASE UNCHANGED vars
  BY <1>15 DEF vars, TypeOK
<1> QED
  BY <1>1, <1>2, <1>3, <1>4, <1>5, <1>7, <1>8, <1>9, <1>10, <1>11, <1>12, <1>13, <1>14, <1>15
  DEF Next, ExecuteLock, ExecuteManually

(* Every variable has its type, in every behaviour of the engine. *)
THEOREM TypeCorrect == Spec => []TypeOK
<1>1. Init => TypeOK
  BY InitType
<1>2. TypeOK /\ [Next]_vars => TypeOK'
  BY StepType
<1> QED
  BY <1>1, <1>2, PTL DEF Spec

-----------------------------------------------------------------------------
(* One exit.                                                               *)

(* Init establishes the invariant. *)
LEMMA InitIInv == Init => IInv
<1> SUFFICES ASSUME Init PROVE IInv
  OBVIOUS
<1>1. /\ lock.gen = 0 /\ lock.status = "disabled"
      /\ \A i \in OrderId : orders[i].gen = 0 /\ orders[i].state = "absent"
      /\ \A t \in Task : task[t].gen = 0 /\ task[t].pc = "idle"
  BY IdleType DEF Init, Absent
<1> QED
  BY <1>1, InitType
  DEF IInv, Known, ReadyIsClear, NamedIsOnly, PlacingAlone, OneOut, Out, Placing

(* Nothing goes out, and no coroutine starts to place. *)
NothingNew ==
  /\ \A g \in Nat, i \in OrderId : Out(g, i)' => Out(g, i)
  /\ \A i \in OrderId : orders'[i].gen = orders[i].gen
  /\ \A t \in Task : \/ task'[t] = task[t]
                     \/ task'[t].pc \notin {"place", "placed"} /\ task'[t].gen <= lock.gen

(* A lock is no readier than it was, and names no other order. *)
NoReadier ==
  /\ lock'.gen = lock.gen
  /\ lock'.status \in {"monitoring", "triggered"} =>
       lock.status \in {"monitoring", "triggered"} /\ lock'.order = lock.order
  /\ lock'.status = "executing" => lock.status = "executing" /\ lock'.order = lock.order

(* The numbers of locks are naturals. *)
LEMMA Numbers ==
  ASSUME TypeOK
  PROVE  /\ lock.gen \in Nat
         /\ \A i \in OrderId : orders[i].gen \in Nat
         /\ \A t \in Task : task[t].gen \in Nat /\ task[t].id \in OrderId \cup {NoId}
BY LockFields, BoundAssumption DEF TypeOK, OrderRecord, TaskRecord

(* The part of the invariant about coroutines and orders outlives such a step. *)
LEMMA NothingNewKeeps ==
  ASSUME IInv, TypeOK', NothingNew, lock'.gen = lock.gen
  PROVE  Known' /\ PlacingAlone' /\ OneOut'
<1>1. Known'
  BY DEF NothingNew, IInv, Known
<1>2. PlacingAlone'
  <2> SUFFICES ASSUME NEW t \in Task, task'[t].pc \in {"place", "placed"}
               PROVE  /\ \A u \in Task : Placing(task[t].gen, u)' => u = t
                      /\ \A i \in OrderId :
                           Out(task[t].gen, i)' => task'[t].pc = "placed" /\ i = task'[t].id
    BY DEF PlacingAlone
  <2>1. task'[t] = task[t] /\ task[t].gen \in Nat
    BY Numbers DEF NothingNew, IInv
  <2>2. ASSUME NEW u \in Task, Placing(task[t].gen, u)' PROVE u = t
    <3>1. task'[u] = task[u]
      BY <2>2 DEF Placing, NothingNew
    <3> QED
      BY <2>1, <2>2, <3>1 DEF Placing, IInv, PlacingAlone
  <2>3. ASSUME NEW i \in OrderId, Out(task[t].gen, i)' PROVE Out(task[t].gen, i)
    BY <2>1, <2>3 DEF NothingNew, Out
  <2> QED
    BY <2>1, <2>2, <2>3 DEF IInv, PlacingAlone
<1>3. OneOut'
  BY BoundAssumption DEF NothingNew, IInv, OneOut
<1> QED
  BY <1>1, <1>2, <1>3

(* The whole invariant outlives it when the lock is no readier either. *)
LEMMA NoReadierKeeps ==
  ASSUME IInv, TypeOK', NothingNew, NoReadier
  PROVE  IInv'
<1>1. lock.gen \in Nat
  BY Numbers DEF IInv
<1>2. \A t \in Task : Placing(lock.gen, t)' => Placing(lock.gen, t)
  BY DEF Placing, NothingNew, NoReadier
<1>3. \A i \in OrderId : Out(lock.gen, i)' => Out(lock.gen, i)
  BY <1>1 DEF NothingNew, NoReadier, Out
<1>4. ReadyIsClear'
  BY <1>2, <1>3 DEF NoReadier, IInv, ReadyIsClear, Placing, Out
<1>5. NamedIsOnly'
  BY <1>2, <1>3 DEF NoReadier, IInv, NamedIsOnly, Placing, Out
<1> QED
  BY <1>4, <1>5, NothingNewKeeps DEF IInv, NoReadier

(* A new lock has no order and nobody places one for it. *)
LEMMA EnableKeeps ==
  ASSUME IInv, TypeOK', NEW price \in Price, Enable(price)
  PROVE  IInv'
<1>1. /\ lock'.gen = lock.gen + 1 /\ lock'.status = "monitoring" /\ lock'.order = NoId
      /\ UNCHANGED <<orders, task>>
  BY DEF Enable
<1>2. /\ lock.gen \in Nat
      /\ \A i \in OrderId : orders[i].gen \in Nat /\ orders[i].gen <= lock.gen
      /\ \A t \in Task : task[t].gen \in Nat /\ task[t].gen <= lock.gen
  BY Numbers DEF IInv, Known
<1>3. Known'
  BY <1>1, <1>2 DEF Known
<1>4. ReadyIsClear'
  BY <1>1, <1>2 DEF ReadyIsClear, Placing, Out
<1>5. NamedIsOnly'
  BY <1>1 DEF NamedIsOnly
<1>6. PlacingAlone' /\ OneOut'
  BY <1>1 DEF IInv, PlacingAlone, OneOut, Placing, Out
<1> QED
  BY <1>3, <1>4, <1>5, <1>6 DEF IInv

(* A lock that goes to EXECUTING has nothing out, and this coroutine alone. *)
LEMMA PlaceLockOrderKeeps ==
  ASSUME IInv, TypeOK', NEW t \in Task, PlaceLockOrder(t)
  PROVE  IInv'
<1>1. lock.status = "triggered" /\ lock.gen \in Nat
  BY AllowedExecuting, Numbers DEF IInv, PlaceLockOrder
<1>2. /\ lock.order = NoId
      /\ \A u \in Task : ~Placing(lock.gen, u)
      /\ \A i \in OrderId : ~Out(lock.gen, i)
  BY <1>1 DEF IInv, ReadyIsClear
<1>3. /\ lock'.gen = lock.gen /\ lock'.status = "executing" /\ lock'.order = lock.order
      /\ orders' = orders
  BY DEF PlaceLockOrder, IInv, TypeOK, LockRecord
<1>4. /\ task'[t].pc = "place" /\ task'[t].gen = lock.gen
      /\ \A u \in Task \ {t} : task'[u] = task[u]
  BY DEF PlaceLockOrder, IInv, TypeOK
<1>5. Known'
  BY <1>1, <1>3, <1>4 DEF IInv, Known
<1>6. ReadyIsClear' /\ NamedIsOnly'
  BY <1>2, <1>3 DEF ReadyIsClear, NamedIsOnly
<1>7. PlacingAlone'
  BY <1>2, <1>3, <1>4 DEF IInv, PlacingAlone, Placing, Out
<1>8. OneOut'
  BY <1>3 DEF IInv, OneOut, Out
<1> QED
  BY <1>5, <1>6, <1>7, <1>8 DEF IInv

(* The order a coroutine places is the only one of its lock. *)
LEMMA ExchangePlacesKeeps ==
  ASSUME IInv, TypeOK', NEW t \in Task, ExchangePlaces(t)
  PROVE  IInv'
<1> DEFINE n == NextId
           g == task[t].gen
<1>1. /\ n \in OrderId /\ lock' = lock /\ task[t].pc = "place"
      /\ orders'[n] = [gen |-> g, state |-> "live", told |-> FALSE]
      /\ \A i \in OrderId \ {n} : orders'[i] = orders[i]
  BY DEF ExchangePlaces, IInv, TypeOK
<1>2. /\ task'[t].pc = "placed" /\ task'[t].id = n /\ task'[t].gen = g
      /\ \A u \in Task \ {t} : task'[u] = task[u]
  BY DEF ExchangePlaces, IInv, TypeOK, TaskRecord
<1> HIDE DEF n
<1>3. /\ \A u \in Task : Placing(g, u) => u = t
      /\ \A i \in OrderId : ~Out(g, i)
  BY <1>1 DEF IInv, PlacingAlone
<1>4. g \in Nat /\ g <= lock.gen
  BY Numbers DEF IInv, Known
<1>5. Known'
  BY <1>1, <1>2, <1>4 DEF IInv, Known
<1>6. ReadyIsClear'
  BY <1>1, <1>2 DEF IInv, ReadyIsClear, Placing, Out
<1>7. NamedIsOnly'
  BY <1>1, <1>2 DEF IInv, NamedIsOnly, Placing, Out
<1>8. PlacingAlone'
  BY <1>1, <1>2, <1>3 DEF IInv, PlacingAlone, Placing, Out
<1>9. OneOut'
  BY <1>1, <1>3 DEF IInv, OneOut, Out
<1> QED
  BY <1>5, <1>6, <1>7, <1>8, <1>9 DEF IInv

(* The lock that learns the id of its order has no other. *)
LEMMA OrderRecordedKeeps ==
  ASSUME IInv, TypeOK', NEW t \in Task, OrderRecorded(t)
  PROVE  IInv'
<1>1. /\ task[t].pc = "placed" /\ orders' = orders
      /\ lock'.gen = lock.gen /\ lock'.status = lock.status
      /\ lock'.order = IF lock.gen = task[t].gen THEN task[t].id ELSE lock.order
  BY DEF OrderRecorded, IInv, TypeOK, LockRecord
<1>2. /\ task'[t].pc = "idle" /\ task'[t].gen = 0
      /\ \A u \in Task \ {t} : task'[u] = task[u]
  BY FinishEffect DEF OrderRecorded, IInv
<1>3. NothingNew
  BY <1>1, <1>2, Numbers DEF NothingNew, Out, IInv
<1>4. ReadyIsClear'
  BY <1>1, <1>2 DEF IInv, ReadyIsClear, Placing, Out
<1>5. NamedIsOnly'
  BY <1>1, <1>2 DEF IInv, NamedIsOnly, PlacingAlone, Placing, Out
<1> QED
  BY <1>1, <1>3, <1>4, <1>5, NothingNewKeeps DEF IInv

(* The order that was cancelled was the only one of the lock. *)
LEMMA OnOrderCancelledKeeps ==
  ASSUME IInv, TypeOK', NEW i \in OrderId, OnOrderCancelled(i)
  PROVE  IInv'
<1>1. /\ orders[i].state = "cancelled" /\ task' = task
      /\ \A j \in OrderId : orders'[j].gen = orders[j].gen /\ orders'[j].state = orders[j].state
  BY DEF OnOrderCancelled, Reported, IInv, TypeOK, OrderRecord
<1>2. NothingNew
  BY <1>1 DEF NothingNew, Out
<1>3. CASE ~Concerns(i)
  BY <1>2, <1>3, NoReadierKeeps DEF OnOrderCancelled, NoReadier
<1>4. CASE Concerns(i)
  <2>1. /\ lock'.gen = lock.gen /\ lock'.status = "triggered" /\ lock'.order = NoId
        /\ lock.status = "executing" /\ lock.order = i /\ i # NoId
    BY <1>4 DEF OnOrderCancelled, Concerns, IInv, TypeOK, LockRecord, OrderId, NoId
  <2>2. /\ \A t \in Task : ~Placing(lock.gen, t)
        /\ \A j \in OrderId : ~Out(lock.gen, j)
    BY <1>1, <2>1 DEF IInv, NamedIsOnly, Out
  <2>3. ReadyIsClear' /\ NamedIsOnly'
    BY <1>1, <2>1, <2>2 DEF ReadyIsClear, NamedIsOnly, Placing, Out
  <2> QED
    BY <1>2, <2>1, <2>3, NothingNewKeeps DEF IInv
<1> QED
  BY <1>3, <1>4

(* Every step keeps the invariant. *)
LEMMA StepIInv == IInv /\ [Next]_vars => IInv'
<1> SUFFICES ASSUME IInv, [Next]_vars PROVE IInv'
  OBVIOUS
<1>0. TypeOK /\ TypeOK'
  BY StepType DEF IInv
<1>1. ASSUME NEW price \in Price, Enable(price) PROVE IInv'
  BY <1>0, <1>1, EnableKeeps
<1>2. ASSUME NEW price \in Price, OnPositionUpdate(price) PROVE IInv'
  <2>1. NothingNew /\ NoReadier
    BY <1>0, <1>2 DEF OnPositionUpdate, NothingNew, NoReadier, Out, TypeOK, LockRecord
  <2> QED
    BY <1>0, <2>1, NoReadierKeeps
<1>3. ASSUME NEW price \in Price, TriggerLock(price) PROVE IInv'
  <2>1. /\ lock'.gen = lock.gen /\ lock.status = "monitoring" /\ lock'.status = "triggered"
        /\ lock'.order = lock.order
    BY <1>0, <1>3, RaisedEffect DEF TriggerLock, LockRecord
  <2>2. NothingNew /\ NoReadier
    BY <1>3, <2>1 DEF TriggerLock, NothingNew, NoReadier, Out
  <2> QED
    BY <1>0, <2>2, NoReadierKeeps
<1>4. ASSUME NEW price \in Price, UpdateLock(price) PROVE IInv'
  <2>1. NothingNew /\ NoReadier
    BY <1>0, <1>4, RaisedEffect DEF UpdateLock, NothingNew, NoReadier, Out
  <2> QED
    BY <1>0, <2>1, NoReadierKeeps
<1>5. ASSUME NEW t \in Task, PlaceLockOrder(t) PROVE IInv'
  BY <1>0, <1>5, PlaceLockOrderKeeps
<1>6. ASSUME NEW gen, SwitchOff(gen) PROVE NoReadier
  <2>1. /\ lock'.gen = lock.gen
        /\ lock' = lock \/ lock'.status = "disabled"
    BY <1>0, <1>6 DEF SwitchOff, TypeOK, LockRecord
  <2> QED
    BY <2>1 DEF NoReadier
<1>7. ASSUME NEW t \in Task, Disable(t) PROVE IInv'
  <2>1. NoReadier
    BY <1>6, <1>7 DEF Disable, NoReadier
  <2>2. NothingNew
    BY <1>0, <1>7, Numbers DEF Disable, NothingNew, Out, TypeOK
  <2> QED
    BY <1>0, <2>1, <2>2, NoReadierKeeps
<1>8. ASSUME NEW t \in Task, ExchangeCancels(t) PROVE IInv'
  <2>1. \A i \in OrderId : /\ orders'[i].gen = orders[i].gen
                           /\ orders'[i].state \in {"live", "filled"} => orders'[i] = orders[i]
    BY <1>0, <1>8 DEF ExchangeCancels, TypeOK, OrderRecord
  <2>2. \A u \in Task : \/ task'[u] = task[u]
                        \/ task'[u].pc = "cancelled" /\ task'[u].gen = task[u].gen
    BY <1>0, <1>8 DEF ExchangeCancels, TypeOK, TaskRecord
  <2>3. NothingNew /\ NoReadier
    BY <1>8, <2>1, <2>2 DEF ExchangeCancels, NothingNew, NoReadier, Out, IInv, Known
  <2> QED
    BY <1>0, <2>3, NoReadierKeeps
<1>9. ASSUME NEW t \in Task, DisableEnds(t) PROVE IInv'
  <2>1. NothingNew
    BY <1>0, <1>9, FinishEffect, Numbers DEF DisableEnds, NothingNew, Out
  <2> QED
    BY <1>0, <1>6, <1>9, <2>1, NoReadierKeeps DEF DisableEnds
<1>10. ASSUME NEW t \in Task, ExchangePlaces(t) PROVE IInv'
  BY <1>0, <1>10, ExchangePlacesKeeps
<1>11. ASSUME NEW t \in Task, OrderRecorded(t) PROVE IInv'
  BY <1>0, <1>11, OrderRecordedKeeps
<1>12. ASSUME NEW t \in Task, PlaceFails(t) PROVE IInv'
  <2>1. NothingNew
    BY <1>0, <1>12, FinishEffect, Numbers DEF PlaceFails, NothingNew, Out
  <2>2. NoReadier
    BY <1>0, <1>12 DEF PlaceFails, NoReadier, TypeOK, LockRecord
  <2> QED
    BY <1>0, <2>1, <2>2, NoReadierKeeps
<1>13. ASSUME NEW i \in OrderId, OnOrderFilled(i) PROVE IInv'
  <2>1. \A j \in OrderId : orders'[j].gen = orders[j].gen /\ orders'[j].state = orders[j].state
    BY <1>0, <1>13 DEF OnOrderFilled, Reported, TypeOK, OrderRecord
  <2>2. NothingNew
    BY <1>13, <2>1 DEF OnOrderFilled, Reported, NothingNew, Out
  <2>3. NoReadier
    BY <1>0, <1>13 DEF OnOrderFilled, NoReadier, TypeOK, LockRecord
  <2> QED
    BY <1>0, <2>2, <2>3, NoReadierKeeps
<1>14. ASSUME NEW i \in OrderId, OnOrderCancelled(i) PROVE IInv'
  BY <1>0, <1>14, OnOrderCancelledKeeps
<1>15. ASSUME NEW i \in OrderId, OrderEnds(i) PROVE IInv'
  <2>1. \A j \in OrderId :
          /\ orders'[j].gen = orders[j].gen
          /\ orders'[j].state \in {"live", "filled"} => orders[j].state \in {"live", "filled"}
    BY <1>0, <1>15 DEF OrderEnds, TypeOK, OrderRecord
  <2>2. NothingNew /\ NoReadier
    BY <1>15, <2>1 DEF OrderEnds, NothingNew, NoReadier, Out
  <2> QED
    BY <1>0, <2>2, NoReadierKeeps
<1>16. CASE UNCHANGED vars
  <2>1. NothingNew /\ NoReadier
    BY <1>16 DEF vars, NothingNew, NoReadier, Out
  <2> QED
    BY <1>0, <2>1, NoReadierKeeps
<1> QED
  BY <1>1, <1>2, <1>3, <1>4, <1>5, <1>7, <1>8, <1>9, <1>10, <1>11, <1>12, <1>13, <1>14, <1>15,
     <1>16
  DEF Next, ExecuteLock, ExecuteManually

(* A set whose members are all equal has at most one of them. *)
LEMMA AtMostOne ==
  ASSUME NEW S, \A x, y \in S : x = y
  PROVE  Cardinality(S) <= 1
<1>1. CASE S = {}
  BY <1>1, FS_EmptySet
<1>2. CASE S # {}
  <2>1. PICK x : S = {x}
    BY <1>2
  <2> QED
    BY <2>1, FS_Singleton
<1> QED
  BY <1>1, <1>2

(* A lock puts its position up for sale once, for any number of coroutines, *)
(* enables and orders, and any percentages: however ticks, manual           *)
(* executions, disables, failures and late reports interleave.              *)
THEOREM SellsOnce == Spec => []OneExit
<1>1. Init => IInv
  BY InitIInv
<1>2. IInv /\ [Next]_vars => IInv'
  BY StepIInv
<1>3. IInv => OneExit
  <2> SUFFICES ASSUME IInv, NEW g \in 1 .. MaxGen
               PROVE  Cardinality({i \in OrderId : orders[i].gen = g
                                                   /\ orders[i].state \in {"live", "filled"}}) <= 1
    BY DEF OneExit
  <2> QED
    BY AtMostOne DEF IInv, OneOut, Out
<1> QED
  BY <1>1, <1>2, <1>3, PTL DEF Spec

-----------------------------------------------------------------------------
(* The trail.                                                              *)

(* A lock that has not triggered has no lock price. *)
MonitoringUnpriced == lock.status = "monitoring" => lock.price = NoPrice

TrailInv == TypeOK /\ MonitoringUnpriced /\ LockTrailsHigh

(* The prices of the lock stand, and it did not start to monitor. *)
PricesKept ==
  /\ lock'.price = lock.price /\ lock'.high = lock.high
  /\ lock'.status = "monitoring" => lock.status = "monitoring"

(* Only enabling, triggering and trailing touch the prices. *)
LEMMA PricesMove ==
  ASSUME TypeOK, [Next]_vars
  PROVE  PricesKept \/ \E price \in Price : Enable(price) \/ TriggerLock(price) \/ UpdateLock(price)
<1> USE DEF PricesKept, TypeOK, LockRecord
<1>1. ASSUME NEW price \in Price, OnPositionUpdate(price) PROVE PricesKept
  BY <1>1 DEF OnPositionUpdate
<1>2. ASSUME NEW t \in Task, PlaceLockOrder(t) PROVE PricesKept
  BY <1>2 DEF PlaceLockOrder
<1>3. ASSUME NEW gen, SwitchOff(gen) PROVE PricesKept
  BY <1>3 DEF SwitchOff
<1>4. ASSUME NEW t \in Task, Disable(t) \/ DisableEnds(t) PROVE PricesKept
  BY <1>3, <1>4 DEF Disable, DisableEnds
<1>5. ASSUME NEW t \in Task, ExchangeCancels(t) \/ ExchangePlaces(t) PROVE PricesKept
  BY <1>5 DEF ExchangeCancels, ExchangePlaces
<1>6. ASSUME NEW t \in Task, OrderRecorded(t) PROVE PricesKept
  BY <1>6 DEF OrderRecorded
<1>7. ASSUME NEW t \in Task, PlaceFails(t) PROVE PricesKept
  BY <1>7 DEF PlaceFails
<1>8. ASSUME NEW i \in OrderId, OnOrderFilled(i) \/ OnOrderCancelled(i) PROVE PricesKept
  BY <1>8 DEF OnOrderFilled, OnOrderCancelled
<1>9. ASSUME NEW i \in OrderId, OrderEnds(i) PROVE PricesKept
  BY <1>9 DEF OrderEnds
<1>10. CASE UNCHANGED vars
  BY <1>10 DEF vars
<1> QED
  BY <1>1, <1>2, <1>4, <1>5, <1>6, <1>7, <1>8, <1>9, <1>10
  DEF Next, ExecuteLock, ExecuteManually

(* A step keeps the lock price on the trail, and raises it if it moves it. *)
LEMMA StepTrail ==
  ASSUME TrailInv, [Next]_vars
  PROVE  TrailInv' /\ (lock'.gen = lock.gen => lock'.price >= lock.price)
<1>1. TypeOK /\ TypeOK' /\ lock.price \in Nat /\ lock.gen \in Nat
  BY StepType, LockFields, BoundAssumption DEF TrailInv
<1>2. CASE PricesKept
  BY <1>1, <1>2 DEF TrailInv, PricesKept, MonitoringUnpriced, LockTrailsHigh
<1>3. ASSUME NEW price \in Price, Enable(price)
      PROVE  TrailInv' /\ lock'.gen # lock.gen
  BY <1>1, <1>3 DEF Enable, TrailInv, MonitoringUnpriced, LockTrailsHigh
<1>4. ASSUME NEW price \in Price, TriggerLock(price)
      PROVE  TrailInv' /\ lock'.price >= lock.price
  <2>1. /\ lock'.status = "triggered" /\ lock.price = NoPrice
        /\ lock'.high = High(price) /\ lock'.price = LockPrice(High(price))
    BY <1>1, <1>4, RaisedEffect DEF TriggerLock, TrailInv, MonitoringUnpriced, LockRecord
  <2>2. lock'.price \in Nat
    BY <1>1, <2>1, RaisedEffect, LockPriceType
  <2> QED
    BY <1>1, <2>1, <2>2 DEF TrailInv, MonitoringUnpriced, LockTrailsHigh, NoPrice
<1>5. ASSUME NEW price \in Price, UpdateLock(price)
      PROVE  TrailInv' /\ lock'.price >= lock.price
  <2>1. /\ lock'.status = "triggered"
        /\ lock'.high = High(price) /\ lock'.price = LockPrice(High(price))
    BY <1>1, <1>5, RaisedEffect DEF UpdateLock, Trails
  <2>2. High(price) = price /\ LockPrice(price) > lock.price
    BY <1>5 DEF UpdateLock, Trails, High
  <2>3. lock'.price \in Nat
    BY <1>1, <2>1, RaisedEffect, LockPriceType
  <2>4. lock'.price >= lock.price
    BY <1>1, <2>1, <2>2, <2>3
  <2> QED
    BY <1>1, <2>1, <2>4 DEF TrailInv, MonitoringUnpriced, LockTrailsHigh
<1> QED
  BY <1>1, <1>2, <1>3, <1>4, <1>5, PricesMove DEF PricesKept

(* Init establishes the trail invariant. *)
LEMMA InitTrail == Init => TrailInv
BY InitType DEF Init, TrailInv, MonitoringUnpriced, LockTrailsHigh

(* Policy and handlers agree: the lock price is the trail below the high,   *)
(* for every percentage and every sequence of ticks and position updates.   *)
THEOREM TrailsTheHigh == Spec => []LockTrailsHigh
<1>1. Init => TrailInv
  BY InitTrail
<1>2. TrailInv /\ [Next]_vars => TrailInv'
  BY StepTrail
<1>3. TrailInv => LockTrailsHigh
  BY DEF TrailInv
<1> QED
  BY <1>1, <1>2, <1>3, PTL DEF Spec

(* The lock price of an enabled lock never falls, whatever happens to its   *)
(* order: a cancelled exit goes on trailing from where it was.              *)
THEOREM NeverFalls == Spec => LockRatchets
<1>1. Init => TrailInv
  BY InitTrail
<1>2. TrailInv /\ [Next]_vars => TrailInv'
  BY StepTrail
<1>3. TrailInv /\ [Next]_vars => [lock'.gen = lock.gen => lock'.price >= lock.price]_vars
  BY StepTrail
<1> QED
  BY <1>1, <1>2, <1>3, PTL DEF Spec, LockRatchets
-----------------------------------------------------------------------------
(* The order a lock names.                                                  *)

(* The exchange numbers its orders without a gap. *)
Placed == {i \in OrderId : orders[i].state # "absent"}
Gapless == \E n \in 0 .. MaxOrders : Placed = 1 .. n

(* A coroutine that has placed an order knows one of its own lock. *)
PlacedKnown ==
  \A t \in Task : task[t].pc = "placed" => task[t].id \in Placed /\ orders[task[t].id].gen = task[t].gen

(* The order a lock names is its own, whatever its status. *)
NamedIsOwn == lock.order # NoId => lock.order \in Placed /\ orders[lock.order].gen = lock.gen

(* Only a lock that enable made executes. *)
ExecutingIsMade == lock.status = "executing" => lock.gen # 0

SaleInv ==
  /\ TypeOK /\ Gapless /\ PlacedKnown /\ NamedIsOwn /\ ExecutingIsMade
  /\ ExecutingHasOrder /\ LockedIsSold

(* Orders stay where they are, belong to the lock they were placed for and, *)
(* once filled, stay filled.                                                *)
OrdersStand ==
  \A i \in Placed : /\ i \in Placed' /\ orders'[i].gen = orders[i].gen
                    /\ orders[i].state = "filled" => orders'[i].state = "filled"

(* The number the exchange gives an order is not in use. *)
LEMMA NextIdFree ==
  ASSUME Gapless, NextId \in OrderId
  PROVE  NextId \notin Placed /\ Placed \cup {NextId} = 1 .. NextId
<1>1. PICK n \in 0 .. MaxOrders : Placed = 1 .. n
  BY DEF Gapless
<1>2. Cardinality(Placed) = n
  BY <1>1, FS_Interval, BoundAssumption
<1>3. NextId = n + 1
  BY <1>2, BoundAssumption DEF NextId, Placed
<1> QED
  BY <1>1, <1>3, BoundAssumption

(* Only the exchange's placing adds an order, and it overwrites none. *)
LEMMA StepOrders ==
  ASSUME TypeOK, Gapless, [Next]_vars
  PROVE  OrdersStand /\ Gapless'
<1>1. ASSUME NEW i \in OrderId, \A j \in OrderId \ {i} : orders'[j] = orders[j],
             orders'[i].gen = orders[i].gen,
             orders'[i].state = "absent" <=> orders[i].state = "absent",
             orders[i].state = "filled" => orders'[i].state = "filled"
      PROVE  OrdersStand /\ Gapless'
  <2>1. Placed' = Placed
    BY <1>1 DEF Placed
  <2> QED
    BY <1>1, <2>1 DEF OrdersStand, Gapless, Placed
<1>2. CASE UNCHANGED orders
  BY <1>2 DEF OrdersStand, Gapless, Placed
<1>3. ASSUME NEW t \in Task, ExchangeCancels(t) PROVE OrdersStand /\ Gapless'
  <2> DEFINE c == task[t].id
  <2>1. CASE c \in OrderId
    <3>1. /\ orders'[c].gen = orders[c].gen
          /\ orders'[c].state = IF orders[c].state = "live" THEN "cancelled" ELSE orders[c].state
          /\ \A j \in OrderId \ {c} : orders'[j] = orders[j]
      BY <1>3, <2>1 DEF ExchangeCancels, TypeOK, OrderRecord
    <3> QED
      BY <1>1, <2>1, <3>1
  <2>2. CASE c \notin OrderId
    <3>1. orders' = orders
      BY <1>3, <2>2 DEF ExchangeCancels, TypeOK
    <3> QED
      BY <1>2, <3>1
  <2> QED
    BY <2>1, <2>2
<1>4. ASSUME NEW t \in Task, ExchangePlaces(t) PROVE OrdersStand /\ Gapless'
  <2> DEFINE n == NextId
  <2>1. /\ n \in OrderId /\ n \notin Placed /\ Placed \cup {n} = 1 .. n
    BY <1>4, NextIdFree DEF ExchangePlaces
  <2>2. orders'[n].state = "live" /\ \A j \in OrderId \ {n} : orders'[j] = orders[j]
    BY <1>4, <2>1 DEF ExchangePlaces, TypeOK
  <2> HIDE DEF n
  <2>3. Placed' = Placed \cup {n}
    BY <2>1, <2>2 DEF Placed
  <2> QED
    BY <2>1, <2>2, <2>3, BoundAssumption DEF OrdersStand, Gapless, Placed, OrderId
<1>5. ASSUME NEW i \in OrderId, OnOrderFilled(i) \/ OnOrderCancelled(i)
      PROVE  OrdersStand /\ Gapless'
  <2>1. /\ orders'[i].gen = orders[i].gen /\ orders'[i].state = orders[i].state
        /\ \A j \in OrderId \ {i} : orders'[j] = orders[j]
    BY <1>5 DEF OnOrderFilled, OnOrderCancelled, Reported, TypeOK, OrderRecord
  <2> QED
    BY <1>1, <2>1
<1>6. ASSUME NEW i \in OrderId, OrderEnds(i) PROVE OrdersStand /\ Gapless'
  <2>1. /\ orders'[i].gen = orders[i].gen /\ orders[i].state = "live"
        /\ orders'[i].state \in {"filled", "cancelled"}
        /\ \A j \in OrderId \ {i} : orders'[j] = orders[j]
    BY <1>6 DEF OrderEnds, TypeOK, OrderRecord
  <2> QED
    BY <1>1, <2>1
<1> QED
  BY <1>2, <1>3, <1>4, <1>5, <1>6
  DEF Next, vars, Enable, OnPositionUpdate, TriggerLock, UpdateLock, ExecuteLock,
      ExecuteManually, PlaceLockOrder, Disable, DisableEnds, OrderRecorded, PlaceFails

(* The lock the store holds keeps its number and the order it names, and    *)
(* did not just become EXECUTING or LOCKED.                                 *)
NamesNothingNew ==
  /\ lock'.order \in {lock.order, NoId}
  /\ lock'.gen = lock.gen
  /\ lock'.status = "executing" => lock.status = "executing" /\ lock'.order = lock.order
  /\ lock'.status = "locked" => lock.status = "locked"

(* No coroutine knows an order it did not know, and those that place for an *)
(* EXECUTING lock go on.                                                    *)
KnowsNothingNew ==
  /\ \A t \in Task : task'[t].pc = "placed" => task'[t] = task[t]
  /\ lock'.status = "executing" =>
       \A t \in Task : Placing(lock.gen, t) => task'[t] = task[t]

(* A step that names nothing new keeps the invariant. *)
LEMMA NothingNamedKeeps ==
  ASSUME SaleInv, TypeOK', OrdersStand, Gapless', NamesNothingNew, KnowsNothingNew
  PROVE  SaleInv'
<1>1. PlacedKnown'
  BY DEF KnowsNothingNew, SaleInv, PlacedKnown, OrdersStand
<1>2. NamedIsOwn'
  BY DEF NamesNothingNew, SaleInv, NamedIsOwn, OrdersStand
<1>3. ExecutingHasOrder'
  <2> SUFFICES ASSUME lock'.status = "executing" PROVE ExecutingHasOrder'
    BY DEF ExecutingHasOrder
  <2>1. lock.status = "executing" /\ lock'.order = lock.order /\ lock'.gen = lock.gen
    BY DEF NamesNothingNew
  <2>2. CASE \E t \in Task : Placing(lock.gen, t)
    BY <2>1, <2>2 DEF KnowsNothingNew, Placing, ExecutingHasOrder
  <2>3. CASE lock.order # NoId
    BY <2>1, <2>3, <1>2 DEF NamedIsOwn, ExecutingHasOrder
  <2> QED
    BY <2>1, <2>2, <2>3 DEF SaleInv, ExecutingHasOrder, Placing
<1>4. LockedIsSold'
  BY DEF NamesNothingNew, SaleInv, LockedIsSold, OrdersStand, Placed
<1>5. ExecutingIsMade'
  BY DEF NamesNothingNew, SaleInv, ExecutingIsMade
<1> QED
  BY <1>1, <1>2, <1>3, <1>4, <1>5 DEF SaleInv

(* A coroutine that moves, or goes idle, without having placed an order. *)
LEMMA MovesOneTask ==
  ASSUME TypeOK, NEW t \in Task, \A u \in Task \ {t} : task'[u] = task[u],
         task'[t].pc # "placed",
         lock'.status # "executing" \/ ~Placing(lock.gen, t)
  PROVE  KnowsNothingNew
BY DEF KnowsNothingNew

(* Every step keeps the invariant. *)
LEMMA StepSale == SaleInv /\ [Next]_vars => SaleInv'
<1> SUFFICES ASSUME SaleInv, [Next]_vars PROVE SaleInv'
  OBVIOUS
<1>0. TypeOK /\ TypeOK' /\ OrdersStand /\ Gapless' /\ lock.gen \in Nat
  BY StepType, StepOrders, Numbers DEF SaleInv
<1>a. ASSUME NamesNothingNew, UNCHANGED task PROVE SaleInv'
  BY <1>0, <1>a, NothingNamedKeeps DEF KnowsNothingNew
<1>1. ASSUME NEW price \in Price, Enable(price) PROVE SaleInv'
  <2>1. /\ lock'.order = NoId /\ lock'.status = "monitoring" /\ UNCHANGED <<orders, task>>
    BY <1>1 DEF Enable
  <2> QED
    BY <1>0, <2>1
    DEF SaleInv, PlacedKnown, NamedIsOwn, ExecutingIsMade, ExecutingHasOrder, LockedIsSold, Placed
<1>2. ASSUME NEW price \in Price, OnPositionUpdate(price) PROVE SaleInv'
  BY <1>0, <1>2, <1>a DEF OnPositionUpdate, NamesNothingNew, TypeOK, LockRecord
<1>3. ASSUME NEW price \in Price, TriggerLock(price) \/ UpdateLock(price) PROVE SaleInv'
  <2>1. /\ lock'.gen = lock.gen /\ lock'.order = lock.order
        /\ lock'.status \in {"triggered", lock.status} /\ UNCHANGED task
    BY <1>0, <1>3, RaisedEffect DEF TriggerLock, UpdateLock, LockRecord
  <2> QED
    BY <2>1, <1>a DEF NamesNothingNew
<1>4. ASSUME NEW t \in Task, PlaceLockOrder(t) PROVE SaleInv'
  <2>1. /\ lock'.gen = lock.gen /\ lock'.status = "executing" /\ lock'.order = lock.order
        /\ orders' = orders
    BY <1>0, <1>4 DEF PlaceLockOrder, TypeOK, LockRecord
  <2>2. /\ task'[t].pc = "place" /\ task'[t].gen = lock.gen
        /\ \A u \in Task \ {t} : task'[u] = task[u]
    BY <1>0, <1>4 DEF PlaceLockOrder, TypeOK
  <2>3. PlacedKnown' /\ NamedIsOwn'
    BY <2>1, <2>2 DEF SaleInv, PlacedKnown, NamedIsOwn, Placed
  <2>4. ExecutingHasOrder' /\ LockedIsSold'
    BY <2>1, <2>2 DEF ExecutingHasOrder, LockedIsSold
  <2>5. ExecutingIsMade'
    BY <1>0, <1>4, <2>1, AllowedExecuting DEF PlaceLockOrder, ExecutingIsMade
  <2> QED
    BY <1>0, <2>3, <2>4, <2>5 DEF SaleInv
<1>5. ASSUME NEW gen, SwitchOff(gen)
      PROVE  NamesNothingNew /\ (lock' = lock \/ lock'.status = "disabled")
  BY <1>0, <1>5 DEF SwitchOff, NamesNothingNew, TypeOK, LockRecord
<1>6. ASSUME NEW t \in Task, Disable(t) PROVE SaleInv'
  <2>1. CASE UNCHANGED task
    BY <1>5, <1>6, <1>a, <2>1 DEF Disable, NamesNothingNew
  <2>2. CASE ~UNCHANGED task
    <3>1. UNCHANGED lock /\ task[t].pc = "idle" /\ task'[t].pc = "cancel"
          /\ \A u \in Task \ {t} : task'[u] = task[u]
      BY <1>0, <1>6, <2>2 DEF Disable, TypeOK
    <3>2. KnowsNothingNew
      BY <1>0, <3>1, MovesOneTask DEF Placing
    <3> QED
      BY <1>0, <3>1, <3>2, NothingNamedKeeps DEF NamesNothingNew
  <2> QED
    BY <2>1, <2>2
<1>7. ASSUME NEW t \in Task, ExchangeCancels(t) PROVE SaleInv'
  <2>1. /\ UNCHANGED lock /\ task[t].pc = "cancel" /\ task'[t].pc = "cancelled"
        /\ \A u \in Task \ {t} : task'[u] = task[u]
    BY <1>0, <1>7 DEF ExchangeCancels, TypeOK, TaskRecord
  <2>2. KnowsNothingNew
    BY <1>0, <2>1, MovesOneTask DEF Placing
  <2> QED
    BY <1>0, <2>1, <2>2, NothingNamedKeeps DEF NamesNothingNew
<1>8. ASSUME NEW t \in Task, DisableEnds(t) PROVE SaleInv'
  <2>1. /\ task[t].pc \in {"cancel", "cancelled"} /\ task'[t].pc = "idle"
        /\ \A u \in Task \ {t} : task'[u] = task[u]
    BY <1>0, <1>8, FinishEffect DEF DisableEnds
  <2>2. KnowsNothingNew
    BY <1>0, <2>1, MovesOneTask DEF Placing
  <2> QED
    BY <1>0, <1>5, <1>8, <2>2, NothingNamedKeeps DEF DisableEnds
<1>9. ASSUME NEW t \in Task, ExchangePlaces(t) PROVE SaleInv'
  <2> DEFINE n == NextId
  <2>1. n \in OrderId /\ UNCHANGED lock /\ task[t].pc = "place"
    BY <1>9 DEF ExchangePlaces
  <2>2. orders'[n].gen = task[t].gen /\ orders'[n].state = "live"
    BY <1>0, <1>9 DEF ExchangePlaces, TypeOK
  <2>3. /\ task'[t].pc = "placed" /\ task'[t].gen = task[t].gen /\ task'[t].id = n
        /\ \A u \in Task \ {t} : task'[u] = task[u]
    BY <1>0, <1>9 DEF ExchangePlaces, TypeOK, TaskRecord
  <2> HIDE DEF n
  <2>4. PlacedKnown'
    BY <1>0, <2>1, <2>2, <2>3 DEF SaleInv, PlacedKnown, OrdersStand, Placed
  <2>5. NamedIsOwn'
    BY <1>0, <2>1 DEF SaleInv, NamedIsOwn, OrdersStand
  <2>6. ExecutingHasOrder'
    <3>1. ASSUME NEW u \in Task, Placing(lock.gen, u) PROVE Placing(lock.gen, u)'
      BY <2>1, <2>3, <3>1 DEF Placing
    <3> QED
      BY <2>1, <2>5, <3>1 DEF SaleInv, ExecutingHasOrder, Placing, NamedIsOwn
  <2>7. LockedIsSold'
    BY <1>0, <2>1 DEF SaleInv, LockedIsSold, OrdersStand, Placed
  <2> QED
    BY <1>0, <2>1, <2>4, <2>5, <2>6, <2>7 DEF SaleInv, ExecutingIsMade
<1>10. ASSUME NEW t \in Task, OrderRecorded(t) PROVE SaleInv'
  <2>1. /\ task[t].pc = "placed" /\ task'[t].pc = "idle" /\ orders' = orders
        /\ \A u \in Task \ {t} : task'[u] = task[u]
    BY <1>0, <1>10, FinishEffect DEF OrderRecorded
  <2>2. CASE lock.gen = task[t].gen
    <3>1. /\ lock'.gen = lock.gen /\ lock'.status = lock.status /\ lock'.order = task[t].id
      BY <1>0, <1>10, <2>2 DEF OrderRecorded, TypeOK, LockRecord
    <3>2. task[t].id \in Placed /\ orders[task[t].id].gen = lock.gen /\ task[t].id # NoId
      BY <2>1, <2>2 DEF SaleInv, PlacedKnown, Placed, OrderId, NoId
    <3>3. PlacedKnown' /\ NamedIsOwn' /\ LockedIsSold'
      BY <2>1, <3>1, <3>2 DEF SaleInv, PlacedKnown, NamedIsOwn, LockedIsSold, Placed
    <3>4. ExecutingHasOrder'
      BY <2>1, <3>1, <3>2 DEF ExecutingHasOrder
    <3> QED
      BY <1>0, <3>1, <3>3, <3>4 DEF SaleInv, ExecutingIsMade
  <2>3. CASE lock.gen # task[t].gen
    <3>1. lock' = lock
      BY <1>10, <2>3 DEF OrderRecorded
    <3>2. KnowsNothingNew
      BY <1>0, <2>1, <2>3, MovesOneTask DEF Placing
    <3> QED
      BY <1>0, <3>1, <3>2, NothingNamedKeeps DEF NamesNothingNew
  <2> QED
    BY <2>2, <2>3
<1>11. ASSUME NEW t \in Task, PlaceFails(t) PROVE SaleInv'
  <2>1. task'[t].pc = "idle" /\ \A u \in Task \ {t} : task'[u] = task[u]
    BY <1>0, <1>11, FinishEffect DEF PlaceFails
  <2>2. /\ NamesNothingNew
        /\ lock.gen # 0 => lock'.status # "executing"
    BY <1>0, <1>11, StatusNames DEF PlaceFails, NamesNothingNew, TypeOK, LockRecord, Allowed, TRANSITIONS
  <2>3. task[t].pc \in {"place", "placed"}
    BY <1>11 DEF PlaceFails
  <2>4. lock'.status # "executing"
    BY <2>2 DEF SaleInv, ExecutingIsMade, NamesNothingNew
  <2>5. KnowsNothingNew
    BY <1>0, <2>1, <2>4, MovesOneTask
  <2> QED
    BY <1>0, <2>2, <2>5, NothingNamedKeeps
<1>12. ASSUME NEW i \in OrderId, OnOrderFilled(i) PROVE SaleInv'
  <2>1. orders[i].state = "filled" /\ task' = task
    BY <1>12 DEF OnOrderFilled, Reported
  <2>2. CASE ~Concerns(i)
    BY <1>12, <1>a, <2>1, <2>2 DEF OnOrderFilled, NamesNothingNew
  <2>3. CASE Concerns(i)
    <3>1. /\ lock'.status = "locked" /\ lock'.order = NoId /\ lock'.gen = lock.gen
          /\ lock.order = i /\ i # NoId
      BY <1>0, <1>12, <2>3 DEF OnOrderFilled, Concerns, TypeOK, LockRecord, OrderId, NoId
    <3>2. i \in Placed /\ orders[i].gen = lock.gen
      BY <3>1 DEF SaleInv, NamedIsOwn
    <3>3. LockedIsSold'
      BY <1>0, <2>1, <3>1, <3>2 DEF LockedIsSold, OrdersStand
    <3>4. PlacedKnown'
      BY <1>0, <2>1 DEF SaleInv, PlacedKnown, OrdersStand
    <3>5. NamedIsOwn' /\ ExecutingIsMade' /\ ExecutingHasOrder'
      BY <3>1 DEF NamedIsOwn, ExecutingIsMade, ExecutingHasOrder
    <3> QED
      BY <1>0, <3>3, <3>4, <3>5 DEF SaleInv
  <2> QED
    BY <2>2, <2>3
<1>13. ASSUME NEW i \in OrderId, OnOrderCancelled(i) PROVE SaleInv'
  <2>1. NamesNothingNew /\ task' = task
    BY <1>0, <1>13 DEF OnOrderCancelled, Reported, NamesNothingNew, TypeOK, LockRecord
  <2> QED
    BY <1>a, <2>1
<1>14. ASSUME NEW i \in OrderId, OrderEnds(i) PROVE SaleInv'
  BY <1>a, <1>14 DEF OrderEnds, NamesNothingNew
<1>15. CASE UNCHANGED vars
  BY <1>a, <1>15 DEF vars, NamesNothingNew
<1> QED
  BY <1>1, <1>2, <1>3, <1>4, <1>6, <1>7, <1>8, <1>9, <1>10, <1>11, <1>12, <1>13, <1>14, <1>15
  DEF Next, ExecuteLock, ExecuteManually

(* Init establishes the invariant. *)
LEMMA InitSale == Init => SaleInv
<1> SUFFICES ASSUME Init PROVE SaleInv
  OBVIOUS
<1>1. /\ lock.status = "disabled" /\ lock.order = NoId
      /\ \A i \in OrderId : orders[i].state = "absent"
      /\ \A t \in Task : task[t].pc = "idle"
  BY IdleType DEF Init, Absent
<1>2. Placed = 1 .. 0
  BY <1>1 DEF Placed
<1>3. Gapless
  BY <1>2, BoundAssumption DEF Gapless
<1> QED
  BY <1>1, <1>3, InitType
  DEF SaleInv, PlacedKnown, NamedIsOwn, ExecutingIsMade, ExecutingHasOrder, LockedIsSold

(* A lock that says LOCKED has sold its own position, for any number of      *)
(* coroutines, enables and orders: a report of an order of the lock that     *)
(* enable replaced does not lock the new one.                                *)
THEOREM LockedHasSold == Spec => []LockedIsSold
<1>1. SaleInv => LockedIsSold
  BY DEF SaleInv
<1> QED
  BY <1>1, InitSale, StepSale, PTL DEF Spec

(* An EXECUTING lock is being carried out: no interleaving of disables,      *)
(* failures and late answers leaves it waiting for an order nobody places.   *)
THEOREM ExecutingIsCarriedOut == Spec => []ExecutingHasOrder
<1>1. SaleInv => ExecutingHasOrder
  BY DEF SaleInv
<1> QED
  BY <1>1, InitSale, StepSale, PTL DEF Spec

=============================================================================
