------------------------ MODULE OrderExecutionProofs ------------------------
(***************************************************************************)
(* Theorems about OrderExecution, for every number of requests, coroutines *)
(* and retries and every quantity, with faults or without.                 *)
(***************************************************************************)
EXTENDS OrderExecution, FiniteSetTheorems, TLAPS

(* The program counters of place_order, and of the calls on a known order. *)
Placing == {"place", "placed", "backoff"}
Holding == {"cancel", "cancelDone", "query", "queried"}

(* An order that is cancelled, or was said to be. *)
Settled(x) == x.phase = "cancelled" \/ (x.phase # "absent" /\ x.told = "cancelled")

(* The exchange taking a cancel, moving an order by itself, and the ends of *)
(* calls that change no order.                                             *)
TakesCancel(t)  == ExchangeCancels(t) \/ ExchangeAcknowledges(t)
MovesByItself(o) == ExchangeFills(o) \/ ExchangeDecides(o)
CallEnds(t)     == \/ CancelRaises(t) \/ CancelTimesOut(t) \/ SweepEnds(t)
                   \/ QueryFails(t) \/ QueryNotFound(t)

(***************************************************************************)
(* Type correctness.  TypeOK is not inductive: a coroutine reads           *)
(* tracked[req].eid after an await, so the order must still have one.      *)
(***************************************************************************)

(* An order the exchange has answered for has its exchange_order_id. *)
Answered == \A r \in Request :
  tracked[r].status \in Status \ {"PENDING", "SUBMITTING", "FAILED"} =>
    tracked[r].eid \in ExchangeOrder

(* What a coroutine holds across its awaits. *)
Held == \A t \in Task :
  /\ task[t].pc \in Placing => task[t].req \in Request /\ task[t].attempt # 0
  /\ task[t].pc = "placed" => /\ task[t].eid = <<task[t].req, task[t].attempt>>
                              /\ task[t].answer \in Status
  /\ task[t].pc = "backoff" => task[t].attempt < MaxRetries
  /\ task[t].pc \in Holding => /\ task[t].req \in Request
                               /\ task[t].key \in OrderId
                               /\ task[t].eid \in ExchangeOrder
                               /\ tracked[task[t].req].eid \in ExchangeOrder
  /\ task[t].pc = "queried" => task[t].answer \in Status
  /\ task[t].pc \in {"sweepCancel", "sweepDone"} => task[t].eid \in ExchangeOrder

TypeInv == TypeOK /\ Answered /\ Held

(* Idle is a task record. *)
LEMMA IdleType == Idle \in TaskRecord /\ Idle.pc = "idle"
BY RetriesAssumption, QuantityAssumption DEF Idle, TaskRecord, PCs

(* The status an exchange record is reported under is a status. *)
LEMMA ReportedType == \A x \in ExchangeRecord : Reported(x) \in Status
BY DEF Reported, Status, ExchangeRecord

(* Attempts are numbered from one. *)
LEMMA FirstAttempt == 1 \in 0 .. MaxRetries /\ 1 \in 1 .. MaxRetries
BY RetriesAssumption

(* Init establishes the type invariant. *)
LEMMA InitType == Init => TypeInv
<1> SUFFICES ASSUME Init PROVE TypeInv
  OBVIOUS
<1>1. TypeOK
  BY IdleType, RetriesAssumption, QuantityAssumption
  DEF Init, TypeOK, ExchangeRecord, TrackedOrder, Untracked, OrderId
<1>2. Answered
  BY DEF Init, Answered, Untracked, Status
<1>3. Held
  BY DEF Init, Held, Idle, Placing, Holding
<1> QED
  BY <1>1, <1>2, <1>3 DEF TypeInv

-----------------------------------------------------------------------------
(* What the helpers do to the task table and to the tracked orders.        *)

(* Every coroutine but t, every request but r, is where it was. *)
OthersKeep(t)  == \A u \in Task \ {t} : task'[u] = task[u]
RequestKept(r) == \A q \in Request \ {r} : tracked'[q] = tracked[q]

(* What t keeps when only its program counter and its answer move. *)
CallKept(t) == /\ task'[t].req = task[t].req
               /\ task'[t].key = task[t].key
               /\ task'[t].attempt = task[t].attempt

(* A coroutine that gets a new record is the only one that moves. *)
LEMMA TaskMoves ==
  ASSUME TypeOK, NEW t \in Task, NEW rec \in TaskRecord, task' = [task EXCEPT ![t] = rec]
  PROVE  task' \in [Task -> TaskRecord] /\ task'[t] = rec /\ OthersKeep(t)
BY DEF TypeOK, OthersKeep

(* Finishing a call leaves an idle coroutine. *)
LEMMA FinishEffect ==
  ASSUME TypeOK, NEW t \in Task, Finish(t)
  PROVE  task' \in [Task -> TaskRecord] /\ task'[t].pc = "idle" /\ OthersKeep(t)
BY IdleType DEF TypeOK, Finish, OthersKeep

(* Going to a program counter changes nothing else. *)
LEMMA GotoEffect ==
  ASSUME TypeOK, NEW t \in Task, NEW pc \in PCs, Goto(t, pc)
  PROVE  /\ task' \in [Task -> TaskRecord]
         /\ task'[t].pc = pc /\ CallKept(t) /\ OthersKeep(t)
         /\ task'[t].eid = task[t].eid /\ task'[t].rest = task[t].rest
         /\ task'[t].answer = task[t].answer /\ task'[t].filled = task[t].filled
BY DEF TypeOK, Goto, OthersKeep, CallKept, TaskRecord

(* Assigning a status leaves the result alone. *)
LEMMA StatusEffect ==
  ASSUME TypeOK, NEW r \in Request, NEW s \in Status,
         tracked' = [tracked EXCEPT ![r].status = s]
  PROVE  /\ tracked' \in [Request -> TrackedOrder]
         /\ tracked'[r].status = s /\ RequestKept(r)
         /\ tracked'[r].eid = tracked[r].eid /\ tracked'[r].filled = tracked[r].filled
BY DEF TypeOK, TrackedOrder, RequestKept

(* An update gives the order of the task, or the one its key finds, the    *)
(* answer's status, after the state machine has been asked.                *)
Updated(t, status, eid, filled) == \A q \in Request :
  \/ tracked'[q] = tracked[q]
  \/ /\ Allowed(task[t].req, status)
     /\ q = task[t].req
     /\ tracked'[q].status = status
     /\ tracked'[q].eid = tracked[q].eid
     /\ tracked'[q].filled = tracked[q].filled
  \/ /\ Allowed(task[t].req, status)
     /\ q = Find(task[t].key)
     /\ tracked'[q].status = status
     /\ tracked'[q].eid = eid
     /\ tracked'[q].filled = filled

(* Update has that effect and ends the call. *)
LEMMA UpdateEffect ==
  ASSUME TypeOK, NEW t \in Task, NEW s \in Status, NEW e \in ExchangeOrder,
         NEW n \in 0 .. Quantity, Update(t, s, e, n)
  PROVE  /\ tracked' \in [Request -> TrackedOrder] /\ Updated(t, s, e, n)
         /\ task' \in [Task -> TaskRecord] /\ task'[t].pc = "idle" /\ OthersKeep(t)
         /\ UNCHANGED <<orders, index>>
<1> DEFINE r == task[t].req
           f == Find(task[t].key)
<1>1. CASE Allowed(r, s)
  <2>1. /\ tracked' = [q \in Request |->
                        IF q = f THEN [status |-> s, eid |-> e, filled |-> n]
                        ELSE IF q = r THEN [tracked[q] EXCEPT !.status = s]
                                      ELSE tracked[q]]
        /\ Finish(t) /\ UNCHANGED <<orders, index>>
    BY <1>1 DEF Update
  <2>2. tracked' \in [Request -> TrackedOrder]
    BY <2>1 DEF TypeOK, TrackedOrder
  <2>3. Updated(t, s, e, n)
    BY <1>1, <2>1 DEF TypeOK, TrackedOrder, Updated
  <2> QED
    BY <2>1, <2>2, <2>3, FinishEffect
<1>2. CASE ~Allowed(r, s)
  <2>1. Finish(t) /\ UNCHANGED <<orders, index, tracked>>
    BY <1>2 DEF Update, Raise
  <2> QED
    BY <2>1, FinishEffect DEF TypeOK, Updated
<1> QED
  BY <1>1, <1>2
(* place_order begins. *)
LEMMA PlaceOrderEffect ==
  ASSUME TypeOK, NEW t \in Task, NEW r \in Request, PlaceOrder(t, r)
  PROVE  /\ TypeOK' /\ exch' = exch /\ OthersKeep(t) /\ RequestKept(r)
         /\ task'[t].pc = "place" /\ task'[t].req = r /\ task'[t].attempt = 1
         /\ tracked'[r].status = "SUBMITTING"
         /\ tracked'[r].eid = tracked[r].eid /\ tracked'[r].filled = tracked[r].filled
<1>1. /\ tracked' \in [Request -> TrackedOrder]
      /\ tracked'[r].status = "SUBMITTING" /\ RequestKept(r)
      /\ tracked'[r].eid = tracked[r].eid /\ tracked'[r].filled = tracked[r].filled
  BY StatusEffect DEF PlaceOrder, Status
<1>2. LocalId(r) \in OrderId
  BY RetriesAssumption DEF LocalId, OrderId
<1>3. /\ task' \in [Task -> TaskRecord] /\ OthersKeep(t)
      /\ task'[t].pc = "place" /\ task'[t].req = r /\ task'[t].attempt = 1
  <2>1. task' = [task EXCEPT ![t] = [Idle EXCEPT !.pc = "place", !.req = r, !.attempt = 1]]
    BY DEF PlaceOrder
  <2> QED
    BY <2>1, IdleType, FirstAttempt DEF TypeOK, TaskRecord, PCs, OthersKeep
<1> QED
  BY <1>1, <1>2, <1>3 DEF PlaceOrder, TypeOK

(* The answer to a placement: the state of the order, of which "pending"   *)
(* is kept in mind, or "open" and no fill.                                 *)
AnswersFor(x, status, filled) ==
  \/ status = "OPEN" /\ filled = 0
  \/ /\ status = Reported(x) /\ filled = x.filled
     /\ x.phase = "pending" => x.told = "pending"

(* The exchange takes the order of the current attempt. *)
LEMMA AcceptEffect ==
  ASSUME TypeInv, NEW t \in Task, ExchangeAccepts(t)
  PROVE  \E x \in ExchangeRecord : LET o == <<task[t].req, task[t].attempt>> IN
         /\ TypeOK' /\ UNCHANGED <<orders, index, tracked>> /\ OthersKeep(t) /\ CallKept(t)
         /\ o \in ExchangeOrder /\ task[t].pc = "place" /\ task[t].req \in Request
         /\ exch' = [exch EXCEPT ![o] = x] /\ x.phase # "absent"
         /\ task'[t].pc = "placed" /\ task'[t].eid = o
         /\ task'[t].answer \in Status /\ AnswersFor(x, task'[t].answer, task'[t].filled)
<1> DEFINE o == <<task[t].req, task[t].attempt>>
<1>1. task[t].pc = "place" /\ task[t].req \in Request /\ o \in ExchangeOrder
  BY RetriesAssumption DEF ExchangeAccepts, TypeInv, TypeOK, Held, TaskRecord, Placing, ExchangeOrder
<1>2. PICK x \in ExchangeRecord, status \in Status, filled \in 0 .. Quantity :
        /\ x.phase # "absent" /\ AnswersFor(x, status, filled)
        /\ exch' = [exch EXCEPT ![o] = x]
        /\ task' = [task EXCEPT ![t] = [@ EXCEPT !.pc = "placed", !.eid = o,
                                          !.answer = status, !.filled = filled]]
  <2>1. PICK y \in [phase : {"live", "pending", "cancelled", "rejected"}, filled : 0 .. Quantity],
             asked \in BOOLEAN :
          /\ exch' = [exch EXCEPT ![o] =
                        [phase |-> y.phase, filled |-> y.filled,
                         told |-> IF ~asked /\ y.phase = "pending" THEN "pending" ELSE "nothing"]]
          /\ task' = [task EXCEPT ![t] = [@ EXCEPT !.pc = "placed", !.eid = o,
                                    !.answer = IF asked THEN "OPEN" ELSE Reported(y),
                                    !.filled = IF asked THEN 0 ELSE y.filled]]
    BY DEF ExchangeAccepts
  <2> DEFINE told == IF ~asked /\ y.phase = "pending" THEN "pending" ELSE "nothing"
             x == [phase |-> y.phase, filled |-> y.filled, told |-> told]
             status == IF asked THEN "OPEN" ELSE Reported(y)
             filled == IF asked THEN 0 ELSE y.filled
  <2>2. /\ y.phase \in {"live", "pending", "cancelled", "rejected"} /\ y.filled \in 0 .. Quantity
        /\ asked \in BOOLEAN
    BY <2>1
  <2>3. x \in ExchangeRecord /\ x.phase # "absent"
    BY <2>2 DEF ExchangeRecord
  <2>4. Reported(x) = Reported(y)
    BY DEF Reported
  <2>5. status \in Status /\ filled \in 0 .. Quantity
    <3>1. Reported(x) \in Status
      BY <2>3, ReportedType
    <3>2. "OPEN" \in Status /\ 0 \in 0 .. Quantity
      BY QuantityAssumption DEF Status
    <3> QED
      BY <2>2, <2>4, <3>1, <3>2
  <2>6. AnswersFor(x, status, filled)
    BY <2>2, <2>4 DEF AnswersFor
  <2>7. /\ exch' = [exch EXCEPT ![o] = x]
        /\ task' = [task EXCEPT ![t] = [@ EXCEPT !.pc = "placed", !.eid = o,
                                          !.answer = status, !.filled = filled]]
    BY <2>1
  <2> HIDE DEF x, status, filled
  <2> QED
    BY <2>3, <2>5, <2>6, <2>7
<1>4. /\ task' \in [Task -> TaskRecord] /\ OthersKeep(t) /\ CallKept(t)
      /\ task'[t].pc = "placed" /\ task'[t].eid = o
      /\ task'[t].answer = status /\ task'[t].filled = filled
  <2> HIDE DEF o
  <2> DEFINE rec == [task[t] EXCEPT !.pc = "placed", !.eid = o,
                                    !.answer = status, !.filled = filled]
  <2>1. task[t] \in TaskRecord
    BY DEF TypeInv, TypeOK
  <2>2. /\ rec.pc = "placed" /\ rec.eid = o
        /\ rec.answer = status /\ rec.filled = filled
        /\ rec.req = task[t].req /\ rec.key = task[t].key /\ rec.attempt = task[t].attempt
    BY <2>1 DEF TaskRecord
  <2>3. rec \in TaskRecord
    BY <1>1, <1>2, <2>1 DEF TaskRecord, PCs
  <2>4. task' = [task EXCEPT ![t] = rec]
    BY <1>2
  <2> HIDE DEF rec
  <2>5. task' \in [Task -> TaskRecord] /\ task'[t] = rec /\ OthersKeep(t)
    BY <2>3, <2>4, TaskMoves DEF TypeInv
  <2> QED
    BY <2>2, <2>5 DEF CallKept
<1>5. UNCHANGED <<orders, index, tracked>>
  BY DEF ExchangeAccepts
<1>6. exch' \in [ExchangeOrder -> ExchangeRecord]
  BY <1>1, <1>2 DEF TypeInv, TypeOK
<1>7. TypeOK'
  BY <1>4, <1>5, <1>6 DEF TypeInv, TypeOK
<1> QED
  BY <1>1, <1>2, <1>4, <1>5, <1>7

(* The answer of the exchange arrives. *)
LEMMA PlaceReturnsEffect ==
  ASSUME TypeInv, NEW t \in Task, PlaceReturns(t)
  PROVE  LET r == task[t].req IN
         /\ TypeOK' /\ exch' = exch /\ OthersKeep(t) /\ RequestKept(r)
         /\ r \in Request /\ task[t].pc = "placed" /\ task'[t].pc = "idle"
         /\ task[t].eid = <<r, task[t].attempt>> /\ task[t].eid \in ExchangeOrder
         /\ orders' = [orders EXCEPT ![LocalId(r)] = NoRequest, ![Name(task[t].eid)] = r]
         /\ index' = [index EXCEPT ![r] = Name(task[t].eid)]
         /\ \/ /\ tracked'[r].status = task[t].answer
               /\ Allowed(r, task[t].answer)
               /\ tracked'[r].eid = task[t].eid
               /\ tracked'[r].filled = task[t].filled
            \/ /\ tracked'[r].status = "FAILED"
               /\ tracked'[r].eid = tracked[r].eid
               /\ tracked'[r].filled = tracked[r].filled
<1> DEFINE r == task[t].req
<1>1. /\ task[t].pc = "placed" /\ r \in Request /\ task[t].answer \in Status
      /\ task[t].eid = <<r, task[t].attempt>> /\ task[t].eid \in ExchangeOrder
      /\ task[t].filled \in 0 .. Quantity
  <2>1. task[t].pc = "placed"
    BY DEF PlaceReturns
  <2>2. /\ r \in Request /\ task[t].attempt # 0
        /\ task[t].eid = <<r, task[t].attempt>> /\ task[t].answer \in Status
    BY <2>1 DEF TypeInv, Held, Placing
  <2>3. task[t].attempt \in 0 .. MaxRetries /\ task[t].filled \in 0 .. Quantity
    BY DEF TypeInv, TypeOK, TaskRecord
  <2>4. <<r, task[t].attempt>> \in ExchangeOrder
    BY <2>2, <2>3, RetriesAssumption DEF ExchangeOrder
  <2> QED
    BY <2>1, <2>2, <2>3, <2>4
<1>2. task' \in [Task -> TaskRecord] /\ task'[t].pc = "idle" /\ OthersKeep(t)
  BY FinishEffect DEF PlaceReturns, TypeInv
<1>3. Name(task[t].eid) \in OrderId
  BY <1>1 DEF Name, OrderId, ExchangeOrder
<1>4. /\ orders' = [orders EXCEPT ![LocalId(r)] = NoRequest, ![Name(task[t].eid)] = r]
      /\ index' = [index EXCEPT ![r] = Name(task[t].eid)]
      /\ exch' = exch
  BY DEF PlaceReturns
<1>5. /\ orders' \in [OrderId -> Request \cup {NoRequest}]
      /\ index' \in [Request -> OrderId \cup {NoKey}]
  BY <1>1, <1>3, <1>4 DEF TypeInv, TypeOK
<1>6. CASE Allowed(r, task[t].answer)
  <2>1. tracked' = [tracked EXCEPT ![r] = [status |-> task[t].answer, eid |-> task[t].eid,
                                           filled |-> task[t].filled]]
    BY <1>6 DEF PlaceReturns
  <2>2. /\ tracked' \in [Request -> TrackedOrder] /\ RequestKept(r)
        /\ tracked'[r].status = task[t].answer
        /\ tracked'[r].eid = task[t].eid /\ tracked'[r].filled = task[t].filled
    BY <1>1, <2>1 DEF TypeInv, TypeOK, TrackedOrder, RequestKept
  <2> QED
    BY <1>1, <1>2, <1>4, <1>5, <1>6, <2>2 DEF TypeInv, TypeOK
<1>7. CASE ~Allowed(r, task[t].answer)
  <2>1. tracked' = [tracked EXCEPT ![r].status = "FAILED"]
    BY <1>7 DEF PlaceReturns
  <2>2. /\ tracked' \in [Request -> TrackedOrder] /\ RequestKept(r)
        /\ tracked'[r].status = "FAILED"
        /\ tracked'[r].eid = tracked[r].eid /\ tracked'[r].filled = tracked[r].filled
    BY <1>1, <2>1, StatusEffect DEF TypeInv, Status
  <2> QED
    BY <1>1, <1>2, <1>4, <1>5, <2>2 DEF TypeInv, TypeOK
<1> QED
  BY <1>6, <1>7
(* A placement that is refused, or interrupted, backs off or fails. *)
LEMMA PlaceFailsEffect ==
  ASSUME TypeInv, NEW t \in Task, PlaceRefused(t) \/ PlaceInterrupted(t)
  PROVE  /\ TypeOK' /\ UNCHANGED <<exch, orders, index>> /\ OthersKeep(t)
         /\ task[t].pc \in Placing /\ task[t].req \in Request
         /\ \/ /\ task'[t].pc = "backoff" /\ CallKept(t) /\ UNCHANGED tracked
               /\ task[t].attempt < MaxRetries
            \/ /\ task'[t].pc = "idle" /\ RequestKept(task[t].req)
               /\ tracked'[task[t].req].status = "FAILED"
               /\ tracked'[task[t].req].eid = tracked[task[t].req].eid
               /\ tracked'[task[t].req].filled = tracked[task[t].req].filled
<1> DEFINE r == task[t].req
<1>1. /\ task[t].pc \in Placing /\ UNCHANGED <<exch, orders, index>>
      /\ \/ Goto(t, "backoff") /\ UNCHANGED tracked /\ task[t].attempt < MaxRetries
         \/ Finish(t) /\ tracked' = [tracked EXCEPT ![r].status = "FAILED"]
  BY DEF PlaceRefused, PlaceInterrupted, Placing
<1>2. r \in Request
  BY <1>1 DEF TypeInv, Held
<1>3. CASE Goto(t, "backoff") /\ UNCHANGED tracked /\ task[t].attempt < MaxRetries
  <2>1. task' \in [Task -> TaskRecord] /\ task'[t].pc = "backoff" /\ CallKept(t) /\ OthersKeep(t)
    BY <1>3, GotoEffect DEF PCs, TypeInv
  <2> QED
    BY <1>1, <1>2, <1>3, <2>1 DEF TypeInv, TypeOK
<1>4. CASE Finish(t) /\ tracked' = [tracked EXCEPT ![r].status = "FAILED"]
  <2>1. task' \in [Task -> TaskRecord] /\ task'[t].pc = "idle" /\ OthersKeep(t)
    BY <1>4, FinishEffect DEF TypeInv
  <2>2. /\ tracked' \in [Request -> TrackedOrder]
        /\ tracked'[r].status = "FAILED" /\ RequestKept(r)
        /\ tracked'[r].eid = tracked[r].eid /\ tracked'[r].filled = tracked[r].filled
    BY <1>2, <1>4, StatusEffect DEF TypeInv, Status
  <2> QED
    BY <1>1, <1>2, <2>1, <2>2 DEF TypeInv, TypeOK
<1> QED
  BY <1>1, <1>3, <1>4

(* The backoff is over: the next attempt has a number of its own. *)
LEMMA RetryEffect ==
  ASSUME TypeInv, NEW t \in Task, PlaceRetries(t)
  PROVE  /\ TypeOK' /\ UNCHANGED <<exch, orders, index, tracked>> /\ OthersKeep(t)
         /\ task[t].pc = "backoff" /\ task'[t].pc = "place"
         /\ task[t].req \in Request /\ task'[t].req = task[t].req
         /\ task'[t].attempt = task[t].attempt + 1
<1>1. task[t].pc = "backoff" /\ UNCHANGED <<exch, orders, index, tracked>>
  BY DEF PlaceRetries
<1>2. task[t].req \in Request /\ task[t].attempt < MaxRetries
  BY <1>1 DEF TypeInv, Held, Placing
<1>3. task[t].attempt \in 0 .. MaxRetries
  BY DEF TypeInv, TypeOK, TaskRecord
<1>4. task[t].attempt + 1 \in 0 .. MaxRetries
  BY <1>2, <1>3, RetriesAssumption
<1>5. task' = [task EXCEPT ![t] = [Idle EXCEPT !.pc = "place", !.req = task[t].req,
                                                !.attempt = task[t].attempt + 1]]
  BY DEF PlaceRetries
<1>6. /\ task' \in [Task -> TaskRecord] /\ OthersKeep(t)
      /\ task'[t].pc = "place" /\ task'[t].req = task[t].req
      /\ task'[t].attempt = task[t].attempt + 1
  BY <1>2, <1>4, <1>5, IdleType DEF TypeInv, TypeOK, TaskRecord, PCs, OthersKeep
<1> QED
  BY <1>1, <1>2, <1>6 DEF TypeInv, TypeOK

(* cancel_order begins: the order it found was being worked on. *)
LEMMA CancelOrderEffect ==
  ASSUME TypeInv, NEW t \in Task, NEW k \in OrderId, CancelOrder(t, k)
  PROVE  LET r == Find(k) IN
         /\ TypeOK' /\ UNCHANGED <<exch, orders, index>> /\ OthersKeep(t) /\ RequestKept(r)
         /\ r \in Request /\ r = orders[k] /\ tracked[r].eid \in ExchangeOrder
         /\ task'[t].pc = "cancel" /\ task'[t].req = r /\ task'[t].key = k
         /\ task'[t].eid = tracked[r].eid
         /\ Allowed(r, "CANCELLING") /\ tracked'[r].status = "CANCELLING"
         /\ tracked'[r].eid = tracked[r].eid /\ tracked'[r].filled = tracked[r].filled
<1> DEFINE r == Find(k)
<1>1. r \in Request /\ r = orders[k]
  BY DEF CancelOrder, Find, TypeInv, TypeOK
<1>2. Allowed(r, "CANCELLING") /\ UNCHANGED <<exch, orders, index>>
  BY DEF CancelOrder
<1>3. tracked[r].status \in {"OPEN", "PARTIALLY_FILLED"}
  BY <1>2 DEF Allowed, TRANSITIONS
<1>4. tracked[r].eid \in ExchangeOrder
  BY <1>1, <1>3 DEF TypeInv, Answered, Status
<1>5. tracked' = [tracked EXCEPT ![r].status = "CANCELLING"]
  BY DEF CancelOrder
<1>6. /\ tracked' \in [Request -> TrackedOrder]
      /\ tracked'[r].status = "CANCELLING" /\ RequestKept(r)
      /\ tracked'[r].eid = tracked[r].eid /\ tracked'[r].filled = tracked[r].filled
  BY <1>1, <1>5, StatusEffect DEF TypeInv, Status
<1>7. task' = [task EXCEPT ![t] = [Idle EXCEPT !.pc = "cancel", !.req = r, !.key = k,
                                                !.eid = tracked[r].eid]]
  BY DEF CancelOrder
<1>8. /\ task' \in [Task -> TaskRecord] /\ OthersKeep(t)
      /\ task'[t].pc = "cancel" /\ task'[t].req = r /\ task'[t].key = k
      /\ task'[t].eid = tracked[r].eid
  BY <1>1, <1>4, <1>7, IdleType DEF TypeInv, TypeOK, TaskRecord, PCs, OthersKeep
<1> QED
  BY <1>1, <1>2, <1>4, <1>6, <1>8 DEF TypeInv, TypeOK

(* sync_order begins: the order it found has been on the exchange. *)
LEMMA SyncOrderEffect ==
  ASSUME TypeInv, NEW t \in Task, NEW k \in OrderId, SyncOrder(t, k)
  PROVE  LET r == Find(k) IN
         /\ TypeOK' /\ UNCHANGED <<exch, orders, index, tracked>> /\ OthersKeep(t)
         /\ r \in Request /\ r = orders[k] /\ tracked[r].eid \in ExchangeOrder
         /\ task'[t].pc = "query" /\ task'[t].req = r /\ task'[t].key = k
         /\ task'[t].eid = tracked[r].eid
<1> DEFINE r == Find(k)
<1>1. r \in Request /\ r = orders[k]
  BY DEF SyncOrder, Find, TypeInv, TypeOK
<1>2. tracked[r].eid \in ExchangeOrder
  BY <1>1 DEF SyncOrder, TypeInv, TypeOK, TrackedOrder
<1>3. task' = [task EXCEPT ![t] = [Idle EXCEPT !.pc = "query", !.req = r, !.key = k,
                                                !.eid = tracked[r].eid]]
  BY DEF SyncOrder
<1>4. /\ task' \in [Task -> TaskRecord] /\ OthersKeep(t)
      /\ task'[t].pc = "query" /\ task'[t].req = r /\ task'[t].key = k
      /\ task'[t].eid = tracked[r].eid
  BY <1>1, <1>2, <1>3, IdleType DEF TypeInv, TypeOK, TaskRecord, PCs, OthersKeep
<1> QED
  BY <1>1, <1>2, <1>4 DEF SyncOrder, TypeInv, TypeOK
(* The exchange takes a cancel: the order is settled, no fill is undone and *)
(* none but a working order changes its phase.                             *)
LEMMA TakesCancelEffect ==
  ASSUME TypeInv, NEW t \in Task, TakesCancel(t)
  PROVE  \E x \in ExchangeRecord : LET o == task[t].eid IN
         /\ TypeOK' /\ UNCHANGED <<orders, index, tracked>> /\ OthersKeep(t) /\ CallKept(t)
         /\ o \in ExchangeOrder /\ exch[o].phase # "absent"
         /\ exch' = [exch EXCEPT ![o] = x]
         /\ Settled(x) /\ x.filled = exch[o].filled
         /\ x.phase = exch[o].phase \/ (Working(o) /\ x.phase # "absent")
         /\ x.told = exch[o].told \/ x.told = "cancelled"
         /\ task'[t].eid = task[t].eid
         /\ \/ task[t].pc = "cancel" /\ task'[t].pc = "cancelDone"
            \/ task[t].pc = "sweepCancel" /\ task'[t].pc = "sweepDone"
<1> DEFINE o == task[t].eid
           pc == IF task[t].pc = "cancel" THEN "cancelDone" ELSE "sweepDone"
<1>1. /\ task[t].pc \in {"cancel", "sweepCancel"} /\ Goto(t, pc)
      /\ UNCHANGED <<orders, index, tracked>>
  BY DEF TakesCancel, ExchangeCancels, ExchangeAcknowledges
<1>2. o \in ExchangeOrder /\ exch[o] \in ExchangeRecord
  BY <1>1 DEF TypeInv, TypeOK, Held, Holding
<1>3. pc \in PCs
  BY DEF PCs
<1>4. /\ task' \in [Task -> TaskRecord] /\ task'[t].pc = pc
      /\ CallKept(t) /\ OthersKeep(t) /\ task'[t].eid = o
  BY <1>1, <1>3, GotoEffect DEF TypeInv
<1>5. PICK x \in ExchangeRecord :
        /\ exch' = [exch EXCEPT ![o] = x] /\ exch[o].phase # "absent"
        /\ Settled(x) /\ x.filled = exch[o].filled
        /\ x.phase = exch[o].phase \/ (Working(o) /\ x.phase # "absent")
        /\ x.told = exch[o].told \/ x.told = "cancelled"
  <2>1. CASE ExchangeCancels(t)
    <3> DEFINE x == [exch[o] EXCEPT !.phase = "cancelled"]
    <3>1. /\ x \in ExchangeRecord /\ x.phase = "cancelled"
          /\ x.filled = exch[o].filled /\ x.told = exch[o].told
      BY <1>2 DEF ExchangeRecord
    <3>2. exch' = [exch EXCEPT ![o] = x] /\ Working(o) /\ exch[o].phase # "absent"
      BY <2>1 DEF ExchangeCancels, Working
    <3> HIDE DEF x
    <3> QED
      BY <3>1, <3>2 DEF Settled
  <2>2. CASE ExchangeAcknowledges(t)
    <3>1. PICK phase \in {exch[o].phase} \cup (IF Working(o) THEN {"pending"} ELSE {}) :
            exch' = [exch EXCEPT ![o] = [@ EXCEPT !.phase = phase, !.told = "cancelled"]]
      BY <2>2 DEF ExchangeAcknowledges
    <3> DEFINE x == [exch[o] EXCEPT !.phase = phase, !.told = "cancelled"]
    <3>2. phase = exch[o].phase \/ (phase = "pending" /\ Working(o))
      BY <3>1
    <3>3. /\ x \in ExchangeRecord /\ x.phase = phase
          /\ x.filled = exch[o].filled /\ x.told = "cancelled"
      BY <1>2, <3>2 DEF ExchangeRecord
    <3>4. exch' = [exch EXCEPT ![o] = x] /\ exch[o].phase # "absent"
      BY <2>2, <3>1 DEF ExchangeAcknowledges
    <3> HIDE DEF x
    <3> QED
      BY <3>2, <3>3, <3>4 DEF Settled
  <2> QED
    BY <2>1, <2>2 DEF TakesCancel
<1>6. exch' \in [ExchangeOrder -> ExchangeRecord]
  BY <1>2, <1>5 DEF TypeInv, TypeOK
<1>7. TypeOK'
  BY <1>1, <1>4, <1>6 DEF TypeInv, TypeOK
<1>8. \/ task[t].pc = "cancel" /\ task'[t].pc = "cancelDone"
      \/ task[t].pc = "sweepCancel" /\ task'[t].pc = "sweepDone"
  BY <1>1, <1>4
<1> QED
  BY <1>1, <1>2, <1>4, <1>5, <1>7, <1>8

(* A cancel that was refused or interrupted asks for the order's state. *)
LEMMA AskEffect ==
  ASSUME TypeInv, NEW t \in Task, CancelRefused(t) \/ CancelInterrupted(t)
  PROVE  /\ TypeOK' /\ UNCHANGED <<exch, orders, index, tracked>>
         /\ OthersKeep(t) /\ CallKept(t)
         /\ task[t].pc \in Holding /\ task'[t].pc = "query"
         /\ task'[t].eid = tracked[task[t].req].eid
<1>1. task[t].pc \in Holding /\ AskForState(t)
  BY DEF CancelRefused, CancelInterrupted, Holding
<1>2. tracked[task[t].req].eid \in ExchangeOrder
  BY <1>1 DEF TypeInv, Held
<1>3. /\ UNCHANGED <<exch, orders, index, tracked>>
      /\ task' = [task EXCEPT ![t] = [@ EXCEPT !.pc = "query", !.eid = tracked[task[t].req].eid]]
  BY <1>1 DEF AskForState
<1>4. /\ task' \in [Task -> TaskRecord] /\ OthersKeep(t) /\ CallKept(t)
      /\ task'[t].pc = "query" /\ task'[t].eid = tracked[task[t].req].eid
  <2> DEFINE e == tracked[task[t].req].eid
  <2>1. e \in ExchangeOrder
    BY <1>2
  <2>2. task' = [task EXCEPT ![t] = [@ EXCEPT !.pc = "query", !.eid = e]]
    BY <1>3
  <2> HIDE DEF e
  <2> DEFINE rec == [task[t] EXCEPT !.pc = "query", !.eid = e]
  <2>3. task[t] \in TaskRecord
    BY DEF TypeInv, TypeOK
  <2>4. /\ rec.pc = "query" /\ rec.eid = e
        /\ rec.req = task[t].req /\ rec.key = task[t].key /\ rec.attempt = task[t].attempt
    BY <2>3 DEF TaskRecord
  <2>5. rec \in TaskRecord
    BY <2>1, <2>3 DEF TaskRecord, PCs
  <2>6. task' = [task EXCEPT ![t] = rec]
    BY <2>2
  <2> HIDE DEF rec
  <2>7. task' \in [Task -> TaskRecord] /\ task'[t] = rec /\ OthersKeep(t)
    BY <2>5, <2>6, TaskMoves DEF TypeInv
  <2>8. CallKept(t) /\ task'[t].pc = "query" /\ task'[t].eid = e
    BY <2>4, <2>7 DEF CallKept
  <2> QED
    BY <2>7, <2>8 DEF e
<1> QED
  BY <1>1, <1>3, <1>4 DEF TypeInv, TypeOK

(* The exchange reports the state of an order. *)
LEMMA ReportEffect ==
  ASSUME TypeInv, NEW t \in Task, ExchangeReports(t)
  PROVE  /\ TypeOK' /\ UNCHANGED <<exch, orders, index, tracked>>
         /\ OthersKeep(t) /\ CallKept(t)
         /\ task[t].pc = "query" /\ task'[t].pc = "queried"
         /\ task[t].eid \in ExchangeOrder /\ task'[t].eid = task[t].eid
         /\ task'[t].answer = Reported(exch[task[t].eid]) /\ task'[t].answer \in Status
         /\ task'[t].filled = exch[task[t].eid].filled
<1> DEFINE status == Reported(exch[task[t].eid])
           filled == exch[task[t].eid].filled
<1>1. /\ task[t].pc = "query" /\ UNCHANGED <<exch, orders, index, tracked>>
      /\ task' = [task EXCEPT ![t] = [@ EXCEPT !.pc = "queried", !.answer = status,
                                                !.filled = filled]]
  BY DEF ExchangeReports
<1>2. task[t].eid \in ExchangeOrder
  BY <1>1 DEF TypeInv, Held, Holding
<1>3. exch[task[t].eid] \in ExchangeRecord
  BY <1>2 DEF TypeInv, TypeOK
<1>4. status \in Status /\ filled \in 0 .. Quantity
  BY <1>3, ReportedType DEF ExchangeRecord
<1>5. /\ task' \in [Task -> TaskRecord] /\ OthersKeep(t) /\ CallKept(t)
      /\ task'[t].pc = "queried" /\ task'[t].eid = task[t].eid
      /\ task'[t].answer = status /\ task'[t].filled = filled
  <2> HIDE DEF status, filled
  <2> DEFINE rec == [task[t] EXCEPT !.pc = "queried", !.answer = status, !.filled = filled]
  <2>1. task[t] \in TaskRecord
    BY DEF TypeInv, TypeOK
  <2>2. /\ rec.pc = "queried" /\ rec.eid = task[t].eid
        /\ rec.answer = status /\ rec.filled = filled
        /\ rec.req = task[t].req /\ rec.key = task[t].key /\ rec.attempt = task[t].attempt
    BY <2>1 DEF TaskRecord
  <2>3. rec \in TaskRecord
    BY <1>4, <2>1 DEF TaskRecord, PCs
  <2>4. task' = [task EXCEPT ![t] = rec]
    BY <1>1
  <2> HIDE DEF rec
  <2>5. task' \in [Task -> TaskRecord] /\ task'[t] = rec /\ OthersKeep(t)
    BY <2>3, <2>4, TaskMoves DEF TypeInv
  <2> QED
    BY <2>2, <2>5 DEF CallKept
<1> QED
  BY <1>1, <1>2, <1>4, <1>5 DEF TypeInv, TypeOK

(* The answer to a cancel or to a query updates the tracked order. *)
LEMMA AnswerEffect ==
  ASSUME TypeInv, NEW t \in Task, CancelReturns(t) \/ QueryReturns(t)
  PROVE  \E s \in Status, n \in 0 .. Quantity :
         /\ TypeOK' /\ UNCHANGED <<exch, orders, index>> /\ OthersKeep(t)
         /\ task[t].req \in Request /\ task[t].eid \in ExchangeOrder
         /\ task'[t].pc = "idle"
         /\ \/ /\ task[t].pc = "cancelDone"
               /\ s = "CANCELLED" /\ n = tracked[task[t].req].filled
               /\ Updated(t, s, tracked[task[t].req].eid, n)
            \/ /\ task[t].pc = "queried"
               /\ s = task[t].answer /\ n = task[t].filled
               /\ Updated(t, s, task[t].eid, n)
<1>1. CASE CancelReturns(t)
  <2>1. /\ task[t].pc = "cancelDone" /\ exch' = exch
        /\ Update(t, "CANCELLED", tracked[task[t].req].eid, tracked[task[t].req].filled)
    BY <1>1 DEF CancelReturns
  <2>2. /\ task[t].req \in Request /\ task[t].eid \in ExchangeOrder
        /\ tracked[task[t].req].eid \in ExchangeOrder
    BY <2>1 DEF TypeInv, Held, Holding
  <2>3. tracked[task[t].req].filled \in 0 .. Quantity
    BY <2>2 DEF TypeInv, TypeOK, TrackedOrder
  <2>4. "CANCELLED" \in Status
    BY DEF Status
  <2>5. /\ tracked' \in [Request -> TrackedOrder]
        /\ task' \in [Task -> TaskRecord] /\ task'[t].pc = "idle" /\ OthersKeep(t)
        /\ UNCHANGED <<orders, index>>
        /\ Updated(t, "CANCELLED", tracked[task[t].req].eid, tracked[task[t].req].filled)
    BY <2>1, <2>2, <2>3, <2>4, UpdateEffect DEF TypeInv
  <2>6. TypeOK'
    BY <2>1, <2>5 DEF TypeInv, TypeOK
  <2> QED
    BY <2>1, <2>2, <2>3, <2>4, <2>5, <2>6
<1>2. CASE QueryReturns(t)
  <2>1. /\ task[t].pc = "queried" /\ exch' = exch
        /\ Update(t, task[t].answer, task[t].eid, task[t].filled)
    BY <1>2 DEF QueryReturns
  <2>2. /\ task[t].req \in Request /\ task[t].eid \in ExchangeOrder
        /\ task[t].answer \in Status
    BY <2>1 DEF TypeInv, Held, Holding
  <2>3. task[t].filled \in 0 .. Quantity
    BY DEF TypeInv, TypeOK, TaskRecord
  <2>4. /\ tracked' \in [Request -> TrackedOrder]
        /\ task' \in [Task -> TaskRecord] /\ task'[t].pc = "idle" /\ OthersKeep(t)
        /\ UNCHANGED <<orders, index>>
        /\ Updated(t, task[t].answer, task[t].eid, task[t].filled)
    BY <2>1, <2>2, <2>3, UpdateEffect DEF TypeInv
  <2>5. TypeOK'
    BY <2>1, <2>4 DEF TypeInv, TypeOK
  <2> QED
    BY <2>1, <2>2, <2>3, <2>4, <2>5
<1> QED
  BY <1>1, <1>2
(* A call that raises, or a sweep that is done, changes no order. *)
LEMMA EndsEffect ==
  ASSUME TypeOK, NEW t \in Task, CallEnds(t)
  PROVE  /\ TypeOK' /\ UNCHANGED <<exch, orders, index, tracked>> /\ OthersKeep(t)
         /\ task'[t].pc = "idle"
<1>1. Finish(t) /\ UNCHANGED <<exch, orders, index, tracked>>
  BY DEF CallEnds, CancelRaises, CancelTimesOut, QueryFails, QueryNotFound, SweepEnds, Raise
<1> QED
  BY <1>1, FinishEffect DEF TypeOK

(* Between two cancels a sweep changes no order. *)
LEMMA SweepMovesEffect ==
  ASSUME TypeOK, NEW t \in Task,
         CancelAllOrders(t) \/ SweepNext(t) \/ SweepRefused(t) \/ SweepInterrupted(t)
  PROVE  /\ TypeOK' /\ UNCHANGED <<exch, orders, index, tracked>> /\ OthersKeep(t)
         /\ \/ task'[t].pc \in {"idle", "sweep"}
            \/ task'[t].pc = "sweepCancel" /\ task'[t].eid \in ExchangeOrder
<1>1. UNCHANGED <<exch, orders, index, tracked>>
  BY DEF CancelAllOrders, SweepNext, SweepRefused, SweepInterrupted
<1>2. ASSUME CancelAllOrders(t)
      PROVE  task' \in [Task -> TaskRecord] /\ OthersKeep(t) /\ task'[t].pc = "sweep"
  <2> DEFINE working == {o \in ExchangeOrder : Working(o)}
  <2>1. working \in SUBSET ExchangeOrder
    OBVIOUS
  <2>2. task' = [task EXCEPT ![t] = [Idle EXCEPT !.pc = "sweep", !.rest = working]]
    BY <1>2 DEF CancelAllOrders
  <2> HIDE DEF working
  <2> QED
    BY <2>1, <2>2, IdleType DEF TypeOK, TaskRecord, PCs, OthersKeep
<1>3. ASSUME SweepNext(t)
      PROVE  /\ task' \in [Task -> TaskRecord] /\ OthersKeep(t)
             /\ task'[t].pc = "sweepCancel" /\ task'[t].eid \in ExchangeOrder
  <2>1. task[t].rest \in SUBSET ExchangeOrder
    BY DEF TypeOK, TaskRecord
  <2>2. PICK o \in task[t].rest :
          task' = [task EXCEPT ![t] = [@ EXCEPT !.pc = "sweepCancel", !.eid = o,
                                                !.rest = task[t].rest \ {o}]]
    BY <1>3 DEF SweepNext
  <2>3. o \in ExchangeOrder /\ task[t].rest \ {o} \in SUBSET ExchangeOrder
    BY <2>1
  <2> DEFINE others == task[t].rest \ {o}
  <2>4. task' = [task EXCEPT ![t] = [@ EXCEPT !.pc = "sweepCancel", !.eid = o, !.rest = others]]
    BY <2>2
  <2>5. others \in SUBSET ExchangeOrder
    BY <2>3
  <2> HIDE DEF others
  <2> DEFINE rec == [task[t] EXCEPT !.pc = "sweepCancel", !.eid = o, !.rest = others]
  <2>6. rec \in TaskRecord /\ rec.pc = "sweepCancel" /\ rec.eid = o
    <3>1. task[t] \in TaskRecord
      BY DEF TypeOK
    <3>2. rec.pc = "sweepCancel" /\ rec.eid = o
      BY <3>1 DEF TaskRecord
    <3>3. rec \in TaskRecord
      BY <2>3, <2>5, <3>1 DEF TaskRecord, PCs
    <3> QED
      BY <3>2, <3>3
  <2>7. task' = [task EXCEPT ![t] = rec]
    BY <2>4
  <2> HIDE DEF rec
  <2> QED
    BY <2>3, <2>6, <2>7 DEF TypeOK, OthersKeep
<1>4. ASSUME SweepRefused(t) \/ SweepInterrupted(t)
      PROVE  task' \in [Task -> TaskRecord] /\ OthersKeep(t) /\ task'[t].pc \in {"idle", "sweep"}
  <2>1. Goto(t, "sweep") \/ Finish(t)
    BY <1>4 DEF SweepRefused, SweepInterrupted
  <2>2. "sweep" \in PCs
    BY DEF PCs
  <2> QED
    BY <2>1, <2>2, GotoEffect, FinishEffect
<1> QED
  BY <1>1, <1>2, <1>3, <1>4 DEF TypeOK

(* A cancel of the sweep is acknowledged. *)
LEMMA SweepReturnsEffect ==
  ASSUME TypeOK, NEW t \in Task, SweepReturns(t)
  PROVE  LET r == Find(Name(task[t].eid)) IN
         /\ TypeOK' /\ UNCHANGED <<exch, orders, index>> /\ OthersKeep(t)
         /\ task[t].pc = "sweepDone" /\ task'[t].pc \in {"idle", "sweep"}
         /\ \/ UNCHANGED tracked
            \/ /\ r # NoRequest /\ Allowed(r, "CANCELLED")
               /\ tracked' = [tracked EXCEPT ![r].status = "CANCELLED"]
<1> DEFINE r == Find(Name(task[t].eid))
<1>1. /\ task[t].pc = "sweepDone" /\ UNCHANGED <<exch, orders, index>>
      /\ Goto(t, "sweep") \/ Finish(t)
      /\ \/ UNCHANGED tracked
         \/ /\ r # NoRequest /\ Allowed(r, "CANCELLED")
            /\ tracked' = [tracked EXCEPT ![r].status = "CANCELLED"]
  BY DEF SweepReturns
<1>2. "sweep" \in PCs
  BY DEF PCs
<1>3. task' \in [Task -> TaskRecord] /\ OthersKeep(t) /\ task'[t].pc \in {"idle", "sweep"}
  BY <1>1, <1>2, GotoEffect, FinishEffect
<1>4. tracked' \in [Request -> TrackedOrder]
  BY <1>1 DEF TypeOK, TrackedOrder, Status
<1> QED
  BY <1>1, <1>3, <1>4 DEF TypeOK

(* A fill never exceeds the ordered quantity, and the exchange decides only *)
(* about working orders.                                                   *)
LEMMA MovesByItselfEffect ==
  ASSUME TypeOK, NEW o \in ExchangeOrder, MovesByItself(o)
  PROVE  \E x \in ExchangeRecord :
         /\ TypeOK' /\ UNCHANGED <<orders, index, tracked, task>> /\ Working(o)
         /\ exch' = [exch EXCEPT ![o] = x]
         /\ x.phase # "absent" /\ exch[o].filled <= x.filled /\ x.told = exch[o].told
<1>1. /\ Working(o) /\ UNCHANGED <<orders, index, tracked, task>>
      /\ exch[o] \in ExchangeRecord /\ exch[o].filled \in 0 .. Quantity
  BY DEF MovesByItself, ExchangeFills, ExchangeDecides, TypeOK, ExchangeRecord
<1>2. PICK x \in ExchangeRecord :
        /\ exch' = [exch EXCEPT ![o] = x]
        /\ x.phase # "absent" /\ exch[o].filled <= x.filled /\ x.told = exch[o].told
  <2>1. CASE ExchangeFills(o)
    <3> DEFINE x == [exch[o] EXCEPT !.filled = @ + 1]
    <3>1. exch[o].filled + 1 \in 0 .. Quantity /\ exch[o].filled <= exch[o].filled + 1
      BY <1>1, QuantityAssumption DEF Working, ExchangeRecord
    <3>2. /\ x \in ExchangeRecord /\ x.filled = exch[o].filled + 1
          /\ x.phase = exch[o].phase /\ x.told = exch[o].told
      BY <1>1, <3>1 DEF ExchangeRecord
    <3>3. exch' = [exch EXCEPT ![o] = x] /\ exch[o].phase # "absent"
      BY <1>1, <2>1 DEF ExchangeFills, Working
    <3> HIDE DEF x
    <3> QED
      BY <3>1, <3>2, <3>3
  <2>2. CASE ExchangeDecides(o)
    <3>1. PICK phase \in {"live", "cancelled"} : exch' = [exch EXCEPT ![o].phase = phase]
      BY <2>2 DEF ExchangeDecides
    <3> DEFINE x == [exch[o] EXCEPT !.phase = phase]
    <3>2. /\ x \in ExchangeRecord /\ x.filled = exch[o].filled
          /\ x.phase = phase /\ x.told = exch[o].told
      BY <1>1, <3>1 DEF ExchangeRecord
    <3>3. exch' = [exch EXCEPT ![o] = x] /\ exch[o].filled <= exch[o].filled
      BY <1>1, <3>1, QuantityAssumption
    <3> HIDE DEF x
    <3> QED
      BY <3>1, <3>2, <3>3
  <2> QED
    BY <2>1, <2>2 DEF MovesByItself
<1>3. exch' \in [ExchangeOrder -> ExchangeRecord]
  BY <1>2 DEF TypeOK
<1> QED
  BY <1>1, <1>2, <1>3 DEF TypeOK

-----------------------------------------------------------------------------
(* The type invariant is preserved by every step. *)
LEMMA TypeStep == TypeInv /\ [Next]_vars => TypeInv'
<1> SUFFICES ASSUME TypeInv, [Next]_vars PROVE TypeInv'
  OBVIOUS
<1> USE DEF Placing, Holding
<1>1. ASSUME NEW t \in Task, NEW r \in Request, PlaceOrder(t, r) PROVE TypeInv'
  BY <1>1, PlaceOrderEffect DEF TypeInv, TypeOK, Answered, Held, OthersKeep, RequestKept, Status
<1>2. ASSUME NEW t \in Task, ExchangeAccepts(t) PROVE TypeInv'
  <2>1. PICK x \in ExchangeRecord :
          /\ TypeOK' /\ UNCHANGED tracked /\ OthersKeep(t) /\ CallKept(t)
          /\ task[t].pc = "place"
          /\ task'[t].pc = "placed" /\ task'[t].eid = <<task[t].req, task[t].attempt>>
          /\ task'[t].answer \in Status
    BY <1>2, AcceptEffect
  <2>2. Answered'
    BY <2>1 DEF TypeInv, Answered
  <2>3. Held'
    BY <2>1 DEF TypeInv, Held, OthersKeep, CallKept
  <2> QED
    BY <2>1, <2>2, <2>3 DEF TypeInv
<1>3. ASSUME NEW t \in Task, PlaceReturns(t) PROVE TypeInv'
  BY <1>3, PlaceReturnsEffect DEF TypeInv, Answered, Held, OthersKeep, RequestKept, Status
<1>4. ASSUME NEW t \in Task, PlaceRefused(t) \/ PlaceInterrupted(t) PROVE TypeInv'
  BY <1>4, PlaceFailsEffect DEF TypeInv, Answered, Held, OthersKeep, RequestKept, CallKept, Status
<1>5. ASSUME NEW t \in Task, PlaceRetries(t) PROVE TypeInv'
  BY <1>5, RetryEffect DEF TypeInv, TypeOK, TaskRecord, Answered, Held, OthersKeep
<1>6. ASSUME NEW t \in Task, NEW k \in OrderId, CancelOrder(t, k) PROVE TypeInv'
  BY <1>6, CancelOrderEffect DEF TypeInv, Answered, Held, OthersKeep, RequestKept
<1>7. ASSUME NEW t \in Task, NEW k \in OrderId, SyncOrder(t, k) PROVE TypeInv'
  BY <1>7, SyncOrderEffect DEF TypeInv, Answered, Held, OthersKeep
<1>8. ASSUME NEW t \in Task, TakesCancel(t) PROVE TypeInv'
  <2>1. Answered'
    BY <1>8, TakesCancelEffect DEF TypeInv, Answered
  <2>2. Held'
    <3>1. /\ \A u \in Task \ {t} : task'[u] = task[u]
          /\ tracked' = tracked /\ task'[t].req = task[t].req /\ task'[t].key = task[t].key
          /\ task'[t].eid = task[t].eid /\ task[t].eid \in ExchangeOrder
          /\ \/ task[t].pc = "cancel" /\ task'[t].pc = "cancelDone"
             \/ task[t].pc = "sweepCancel" /\ task'[t].pc = "sweepDone"
      BY <1>8, TakesCancelEffect DEF OthersKeep, CallKept
    <3>2. Held
      BY DEF TypeInv
    <3> QED
      BY <3>1, <3>2 DEF Held, Placing, Holding
  <2> QED
    BY <1>8, <2>1, <2>2, TakesCancelEffect DEF TypeInv
<1>9. ASSUME NEW t \in Task, CancelRefused(t) \/ CancelInterrupted(t) PROVE TypeInv'
  BY <1>9, AskEffect DEF TypeInv, Answered, Held, OthersKeep, CallKept
<1>10. ASSUME NEW t \in Task, ExchangeReports(t) PROVE TypeInv'
  BY <1>10, ReportEffect DEF TypeInv, Answered, Held, OthersKeep, CallKept
<1>11. ASSUME NEW t \in Task, CancelReturns(t) \/ QueryReturns(t) PROVE TypeInv'
  BY <1>11, AnswerEffect DEF TypeInv, Answered, Held, OthersKeep, Updated
<1>12. ASSUME NEW t \in Task, CallEnds(t) PROVE TypeInv'
  BY <1>12, EndsEffect DEF TypeInv, Answered, Held, OthersKeep
<1>13. ASSUME NEW t \in Task,
              CancelAllOrders(t) \/ SweepNext(t) \/ SweepRefused(t) \/ SweepInterrupted(t)
       PROVE  TypeInv'
  BY <1>13, SweepMovesEffect DEF TypeInv, Answered, Held, OthersKeep
<1>14. ASSUME NEW t \in Task, SweepReturns(t) PROVE TypeInv'
  <2> DEFINE r == Find(Name(task[t].eid))
  <2>1. /\ TypeOK' /\ OthersKeep(t) /\ task[t].pc = "sweepDone"
        /\ task'[t].pc \in {"idle", "sweep"}
        /\ \/ UNCHANGED tracked
           \/ /\ r # NoRequest /\ Allowed(r, "CANCELLED")
              /\ tracked' = [tracked EXCEPT ![r].status = "CANCELLED"]
    BY <1>14, SweepReturnsEffect DEF TypeInv
  <2>2. CASE UNCHANGED tracked
    BY <2>1, <2>2 DEF TypeInv, Answered, Held, OthersKeep
  <2>3. CASE /\ r # NoRequest /\ Allowed(r, "CANCELLED")
             /\ tracked' = [tracked EXCEPT ![r].status = "CANCELLED"]
    <3>1. task[t].eid \in ExchangeOrder
      BY <2>1 DEF TypeInv, Held
    <3>2. r \in Request
      BY <2>3, <3>1 DEF Find, Name, OrderId, ExchangeOrder, TypeInv, TypeOK
    <3>3. tracked[r].status \in {"OPEN", "PARTIALLY_FILLED", "CANCELLING"}
      BY <2>3 DEF Allowed, TRANSITIONS
    <3>4. tracked[r].eid \in ExchangeOrder
      BY <3>2, <3>3 DEF TypeInv, Answered, Status
    <3>5. RequestKept(r) /\ tracked'[r].eid = tracked[r].eid
      BY <2>3, <3>2, StatusEffect DEF TypeInv, Status
    <3> QED
      BY <2>1, <3>2, <3>4, <3>5 DEF TypeInv, Answered, Held, OthersKeep, RequestKept
  <2> QED
    BY <2>1, <2>2, <2>3
<1>15. ASSUME NEW o \in ExchangeOrder, MovesByItself(o) PROVE TypeInv'
  BY <1>15, MovesByItselfEffect DEF TypeInv, Answered, Held
<1>16. CASE UNCHANGED vars
  BY <1>16 DEF vars, TypeInv, TypeOK, Answered, Held
<1> QED
  BY <1>1, <1>2, <1>3, <1>4, <1>5, <1>6, <1>7, <1>8, <1>9, <1>10, <1>11, <1>12, <1>13,
     <1>14, <1>15, <1>16 DEF Next, Call, Proceed, Fault, TakesCancel, MovesByItself, CallEnds

(* Every variable keeps its type, with faults or without. *)
THEOREM TypeCorrect == Spec => []TypeOK
<1>1. TypeInv => TypeOK
  BY DEF TypeInv
<1> QED
  BY InitType, TypeStep, <1>1, PTL DEF Spec
-----------------------------------------------------------------------------
(***************************************************************************)
(* Truthfulness, for exchanges that name every order.  Then no two orders  *)
(* share a key, and Truthful becomes inductive once it says what every     *)
(* coroutine holds while it awaits: which order it is about, what was      *)
(* answered, and that no later attempt has been sent.                      *)
(***************************************************************************)

(* A status and a filled quantity that an exchange record bears out. *)
Agrees(status, filled, x) ==
  /\ status = "FILLED" => x.filled = Quantity
  /\ status = "CANCELLED" => Settled(x)
  /\ status = "REJECTED" => x.phase = "rejected"
  /\ filled <= x.filled

(* An order table entry belongs to the request of its key, and to the      *)
(* exchange order that request tracks unless its answer was not acceptable. *)
KeysOwned ==
  /\ orders[NoName] = NoRequest
  /\ \A r \in Request, n \in 0 .. MaxRetries : orders[<<r, n>>] \in {NoRequest, r}
  /\ \A r \in Request, n \in 1 .. MaxRetries : orders[<<r, n>>] = r =>
       \/ tracked[r].eid = <<r, n>>
       \/ tracked[r].eid = NoOrder /\ tracked[r].status = "FAILED"

(* A request nobody has used has no order anywhere. *)
Unused == \A r \in Request : index[r] = NoKey =>
  /\ tracked[r].eid = NoOrder /\ tracked[r].status = "NONE"
  /\ \A n \in 1 .. MaxRetries : exch[<<r, n>>].phase = "absent"
  /\ \A t \in Task : task[t].pc \in Placing => task[t].req # r

(* What the tracker says of an order, the exchange bears out. *)
TrackedTrue == \A r \in Request : tracked[r].eid # NoOrder =>
  /\ exch[tracked[r].eid].phase # "absent"
  /\ Agrees(tracked[r].status, tracked[r].filled, exch[tracked[r].eid])

(* One coroutine places the order of a request, and no attempt after its   *)
(* own has reached the exchange.                                           *)
PlacingAlone == \A t \in Task : task[t].pc \in Placing =>
  /\ index[task[t].req] # NoKey
  /\ tracked[task[t].req].eid = NoOrder
  /\ tracked[task[t].req].status = "SUBMITTING"
  /\ \A n \in 1 .. MaxRetries :
       n > task[t].attempt \/ (n = task[t].attempt /\ task[t].pc = "place") =>
         exch[<<task[t].req, n>>].phase = "absent"
  /\ task[t].pc = "placed" => /\ exch[task[t].eid].phase # "absent"
                              /\ Agrees(task[t].answer, task[t].filled, exch[task[t].eid])
  /\ \A u \in Task : task[u].pc \in Placing /\ task[u].req = task[t].req => u = t

(* A cancel or a query is about the order its request still tracks. *)
HoldingTrue == \A t \in Task :
  /\ task[t].pc \in Holding =>
       /\ tracked[task[t].req].eid = task[t].eid
       /\ \E n \in 0 .. MaxRetries : task[t].key = <<task[t].req, n>>
  /\ task[t].pc = "queried" => Agrees(task[t].answer, task[t].filled, exch[task[t].eid])
  /\ task[t].pc \in {"cancelDone", "sweepDone"} => Settled(exch[task[t].eid])

IInv == TypeInv /\ KeysOwned /\ Unused /\ TrackedTrue /\ PlacingAlone /\ HoldingTrue
(* The exchange never takes back an order, a fill, an outcome or a word. *)
Forward == \A o \in ExchangeOrder : exch[o].phase # "absent" =>
  /\ exch'[o].phase # "absent"
  /\ exch[o].filled <= exch'[o].filled
  /\ exch[o].filled = Quantity => exch'[o].filled = Quantity
  /\ exch[o].phase \in {"cancelled", "rejected"} => exch'[o].phase = exch[o].phase
  /\ exch[o].told = "cancelled" => exch'[o].told = "cancelled"

(* What the exchange once bore out stays borne out. *)
LEMMA AgreesStable ==
  ASSUME TypeOK, TypeOK', Forward, NEW o \in ExchangeOrder, exch[o].phase # "absent",
         NEW s \in Status \cup {"NONE"}, NEW n \in 0 .. Quantity, Agrees(s, n, exch[o])
  PROVE  Agrees(s, n, exch'[o])
<1>1. exch[o].filled \in 0 .. Quantity /\ exch'[o].filled \in 0 .. Quantity
  BY DEF TypeOK, ExchangeRecord
<1>2. /\ exch[o].filled <= exch'[o].filled
      /\ exch[o].filled = Quantity => exch'[o].filled = Quantity
      /\ exch[o].phase \in {"cancelled", "rejected"} => exch'[o].phase = exch[o].phase
      /\ Settled(exch[o]) => Settled(exch'[o])
  BY DEF Forward, Settled
<1>3. n <= exch'[o].filled
  BY <1>1, <1>2, QuantityAssumption DEF Agrees
<1> QED
  BY <1>2, <1>3 DEF Agrees

(* The report of an order agrees with it. *)
LEMMA ReportAgrees ==
  \A x \in ExchangeRecord : Agrees(Reported(x), x.filled, x)
<1> SUFFICES ASSUME NEW x \in ExchangeRecord PROVE Agrees(Reported(x), x.filled, x)
  OBVIOUS
<1>1. x.filled <= x.filled
  BY QuantityAssumption DEF ExchangeRecord
<1>2. /\ Reported(x) = "FILLED" => x.filled = Quantity
      /\ Reported(x) = "CANCELLED" => Settled(x)
      /\ Reported(x) = "REJECTED" => x.phase = "rejected"
  BY DEF Reported, Settled
<1> QED
  BY <1>1, <1>2 DEF Agrees

(* So does the answer to a placement, "open" and unfilled or not. *)
LEMMA AnswerAgrees ==
  ASSUME NEW x \in ExchangeRecord, NEW s, NEW n, AnswersFor(x, s, n)
  PROVE  Agrees(s, n, x)
<1>1. CASE s = Reported(x) /\ n = x.filled
  BY <1>1, ReportAgrees
<1>2. CASE s = "OPEN" /\ n = 0
  BY <1>2, QuantityAssumption DEF Agrees, ExchangeRecord
<1> QED
  BY <1>1, <1>2 DEF AnswersFor

(* The initial states satisfy the invariant. *)
LEMMA InitIInv == Init => IInv
<1> SUFFICES ASSUME Init PROVE IInv
  OBVIOUS
<1>1. TypeInv
  BY InitType
<1>2. KeysOwned
  <2>1. \A r \in Request, n \in 0 .. MaxRetries : <<r, n>> \in OrderId
    BY DEF OrderId
  <2>2. \A k \in OrderId : orders[k] = NoRequest
    BY DEF Init
  <2>3. NoName \in OrderId /\ \A n \in 1 .. MaxRetries : n \in 0 .. MaxRetries
    BY RetriesAssumption DEF OrderId
  <2> QED
    BY <2>1, <2>2, <2>3, NoneAssumption DEF KeysOwned
<1>3. Unused
  BY DEF Init, Unused, Untracked, Idle, Placing, ExchangeOrder
<1>4. TrackedTrue /\ PlacingAlone /\ HoldingTrue
  BY DEF Init, TrackedTrue, PlacingAlone, HoldingTrue, Untracked, Idle, Placing, Holding
<1> QED
  BY <1>1, <1>2, <1>3, <1>4 DEF IInv

(* The invariant implies what the tracker promises. *)
LEMMA IInvTruthful == IInv => Truthful
<1> SUFFICES ASSUME IInv, NEW r \in Request
             PROVE  LET o == tracked[r].eid IN
                    /\ tracked[r].status = "FILLED" => o # NoOrder /\ exch[o].filled = Quantity
                    /\ tracked[r].status = "CANCELLED" =>
                         o # NoOrder /\ (exch[o].phase = "cancelled" \/ exch[o].told = "cancelled")
                    /\ tracked[r].status = "REJECTED" => o # NoOrder /\ exch[o].phase = "rejected"
                    /\ o # NoOrder => tracked[r].filled <= exch[o].filled
  BY DEF Truthful
<1>1. tracked[r].status \in {"FILLED", "CANCELLED", "REJECTED"} => tracked[r].eid # NoOrder
  BY NoneAssumption DEF IInv, TypeInv, Answered, Status, ExchangeOrder
<1> QED
  BY <1>1 DEF IInv, TrackedTrue, Agrees, Settled

(* As the exchange moves forward, what is known of its orders stays true. *)
LEMMA KnownStaysTrue ==
  ASSUME IInv, TypeOK', Forward
  PROVE  /\ \A q \in Request : tracked[q].eid # NoOrder =>
              /\ exch'[tracked[q].eid].phase # "absent"
              /\ Agrees(tracked[q].status, tracked[q].filled, exch'[tracked[q].eid])
         /\ \A u \in Task : task[u].pc = "placed" =>
              /\ exch'[task[u].eid].phase # "absent"
              /\ Agrees(task[u].answer, task[u].filled, exch'[task[u].eid])
         /\ \A u \in Task : task[u].pc = "queried" =>
              Agrees(task[u].answer, task[u].filled, exch'[task[u].eid])
         /\ \A u \in Task : task[u].pc \in {"cancelDone", "sweepDone"} =>
              Settled(exch'[task[u].eid])
<1>1. TypeOK
  BY DEF IInv, TypeInv
<1>2. ASSUME NEW q \in Request, tracked[q].eid # NoOrder
      PROVE  /\ exch'[tracked[q].eid].phase # "absent"
             /\ Agrees(tracked[q].status, tracked[q].filled, exch'[tracked[q].eid])
  <2>1. /\ tracked[q].eid \in ExchangeOrder /\ tracked[q].status \in Status \cup {"NONE"}
        /\ tracked[q].filled \in 0 .. Quantity
    BY <1>1, <1>2 DEF TypeOK, TrackedOrder
  <2>2. /\ exch[tracked[q].eid].phase # "absent"
        /\ Agrees(tracked[q].status, tracked[q].filled, exch[tracked[q].eid])
    BY <1>2 DEF IInv, TrackedTrue
  <2> QED
    BY <1>1, <2>1, <2>2, AgreesStable DEF Forward
<1>3. ASSUME NEW u \in Task
      PROVE  /\ task[u].answer \in Status \cup {"NONE"} /\ task[u].filled \in 0 .. Quantity
             /\ task[u].pc \in {"placed", "queried", "cancelDone", "sweepDone"} =>
                  task[u].eid \in ExchangeOrder
  <2>1. task[u].answer \in Status \cup {"NONE"} /\ task[u].filled \in 0 .. Quantity
    BY <1>1 DEF TypeOK, TaskRecord
  <2>2. ASSUME task[u].pc = "placed" PROVE task[u].eid \in ExchangeOrder
    <3>1. /\ task[u].req \in Request /\ task[u].attempt # 0
          /\ task[u].eid = <<task[u].req, task[u].attempt>>
      BY <2>2 DEF IInv, TypeInv, Held, Placing
    <3>2. task[u].attempt \in 0 .. MaxRetries
      BY <1>1 DEF TypeOK, TaskRecord
    <3> QED
      BY <3>1, <3>2, RetriesAssumption DEF ExchangeOrder
  <2>3. task[u].pc \in {"queried", "cancelDone", "sweepDone"} => task[u].eid \in ExchangeOrder
    BY DEF IInv, TypeInv, Held, Holding
  <2> QED
    BY <2>1, <2>2, <2>3
<1>4. ASSUME NEW u \in Task, task[u].pc = "placed"
      PROVE  /\ exch'[task[u].eid].phase # "absent"
             /\ Agrees(task[u].answer, task[u].filled, exch'[task[u].eid])
  <2>1. /\ exch[task[u].eid].phase # "absent"
        /\ Agrees(task[u].answer, task[u].filled, exch[task[u].eid])
    BY <1>4 DEF IInv, PlacingAlone, Placing
  <2> QED
    BY <1>1, <1>3, <1>4, <2>1, AgreesStable DEF Forward
<1>5. ASSUME NEW u \in Task, task[u].pc = "queried"
      PROVE  Agrees(task[u].answer, task[u].filled, exch'[task[u].eid])
  <2>1. task[u].eid \in ExchangeOrder
    BY <1>3, <1>5
  <2>2. /\ Agrees(task[u].answer, task[u].filled, exch[task[u].eid])
        /\ task[u].req \in Request /\ tracked[task[u].req].eid = task[u].eid
    BY <1>5 DEF IInv, TypeInv, Held, HoldingTrue, Holding
  <2>3. exch[task[u].eid].phase # "absent"
    BY <2>1, <2>2, NoneAssumption DEF IInv, TrackedTrue, ExchangeOrder
  <2> QED
    BY <1>1, <1>3, <2>1, <2>2, <2>3, AgreesStable
<1>6. ASSUME NEW u \in Task, task[u].pc \in {"cancelDone", "sweepDone"}
      PROVE  Settled(exch'[task[u].eid])
  <2>1. Settled(exch[task[u].eid]) /\ task[u].eid \in ExchangeOrder
    BY <1>3, <1>6 DEF IInv, HoldingTrue
  <2> QED
    BY <2>1 DEF Forward, Settled
<1> QED
  BY <1>2, <1>4, <1>5, <1>6

(* A step of t that leaves the exchange and the tables alone, and the       *)
(* tracked orders agreeing with the exchange, ends in t holding nothing.    *)
LEMMA ReleaseIInv ==
  ASSUME IInv, TypeInv', NEW t \in Task, UNCHANGED <<exch, orders, index>>, OthersKeep(t),
         task'[t].pc \in {"idle", "sweep", "sweepCancel"},
         \A q \in Request :
           \/ tracked'[q] = tracked[q]
           \/ /\ tracked[q].eid # NoOrder /\ tracked'[q].eid = tracked[q].eid
              /\ Agrees(tracked'[q].status, tracked'[q].filled, exch[tracked[q].eid])
  PROVE  IInv'
<1>1. KeysOwned'
  BY DEF IInv, KeysOwned
<1>2. Unused'
  BY DEF IInv, Unused, OthersKeep, Placing
<1>3. TrackedTrue'
  BY DEF IInv, TrackedTrue
<1>4. PlacingAlone'
  <2> SUFFICES ASSUME NEW u \in Task, task'[u].pc \in Placing
               PROVE  u # t /\ task'[u] = task[u] /\ task[u].req \in Request
                      /\ tracked'[task[u].req] = tracked[task[u].req]
    BY DEF IInv, PlacingAlone, OthersKeep, Placing
  <2>1. u # t /\ task'[u] = task[u]
    BY DEF OthersKeep, Placing
  <2>2. task[u].req \in Request
    BY <2>1 DEF IInv, TypeInv, Held
  <2>3. tracked[task[u].req].eid = NoOrder
    BY <2>1 DEF IInv, PlacingAlone
  <2> QED
    BY <2>1, <2>2, <2>3
<1>5. HoldingTrue'
  <2> SUFFICES ASSUME NEW u \in Task
               PROVE  /\ task'[u].pc \in Holding =>
                           /\ tracked'[task'[u].req].eid = task'[u].eid
                           /\ \E n \in 0 .. MaxRetries : task'[u].key = <<task'[u].req, n>>
                      /\ task'[u].pc = "queried" =>
                           Agrees(task'[u].answer, task'[u].filled, exch'[task'[u].eid])
                      /\ task'[u].pc \in {"cancelDone", "sweepDone"} =>
                           Settled(exch'[task'[u].eid])
    BY DEF HoldingTrue
  <2>1. CASE u = t
    BY <2>1 DEF Holding
  <2>2. CASE u # t
    <3>1. task'[u] = task[u]
      BY <2>2 DEF OthersKeep
    <3>2. task[u].pc \in Holding => tracked'[task[u].req].eid = tracked[task[u].req].eid
      BY DEF IInv, TypeInv, Held
    <3> QED
      BY <3>1, <3>2 DEF IInv, HoldingTrue
  <2> QED
    BY <2>1, <2>2
<1> QED
  BY <1>1, <1>2, <1>3, <1>4, <1>5 DEF IInv
(* Answers, sweeps and failed calls keep the invariant. *)
LEMMA AnswerIInv ==
  ASSUME IInv, TypeInv', NEW t \in Task, CancelReturns(t) \/ QueryReturns(t)
  PROVE  IInv'
<1>1. PICK s \in Status, n \in 0 .. Quantity :
        /\ UNCHANGED <<exch, orders, index>> /\ OthersKeep(t)
        /\ task[t].req \in Request /\ task'[t].pc = "idle"
        /\ \/ /\ task[t].pc = "cancelDone"
              /\ s = "CANCELLED" /\ n = tracked[task[t].req].filled
              /\ Updated(t, s, tracked[task[t].req].eid, n)
           \/ /\ task[t].pc = "queried"
              /\ s = task[t].answer /\ n = task[t].filled
              /\ Updated(t, s, task[t].eid, n)
  BY AnswerEffect DEF IInv
<1> DEFINE r == task[t].req
           e == tracked[r].eid
<1>2. /\ e = task[t].eid /\ e \in ExchangeOrder /\ e # NoOrder
      /\ Find(task[t].key) \in {NoRequest, r}
  <2>1. task[t].pc \in Holding
    BY <1>1 DEF Holding
  <2>2. /\ e = task[t].eid /\ e \in ExchangeOrder
        /\ \E m \in 0 .. MaxRetries : task[t].key = <<r, m>>
    BY <2>1 DEF IInv, TypeInv, Held, HoldingTrue
  <2> QED
    BY <1>1, <2>2, NoneAssumption DEF Find, IInv, KeysOwned, ExchangeOrder
<1>3. /\ exch[e].filled \in 0 .. Quantity /\ tracked[r].filled \in 0 .. Quantity
      /\ Agrees(tracked[r].status, tracked[r].filled, exch[e])
  BY <1>1, <1>2 DEF IInv, TypeInv, TypeOK, ExchangeRecord, TrackedOrder, TrackedTrue
<1>4. Updated(t, s, e, n) /\ Agrees(s, n, exch[e])
  BY <1>1, <1>2, <1>3 DEF IInv, HoldingTrue, Agrees
<1>5. Agrees(s, tracked[r].filled, exch[e])
  BY <1>3, <1>4 DEF Agrees
<1>6. \A q \in Request :
        \/ tracked'[q] = tracked[q]
        \/ /\ tracked[q].eid # NoOrder /\ tracked'[q].eid = tracked[q].eid
           /\ Agrees(tracked'[q].status, tracked'[q].filled, exch[tracked[q].eid])
  BY <1>2, <1>4, <1>5, NoneAssumption DEF Updated
<1> QED
  BY <1>1, <1>6, ReleaseIInv

(* The acknowledged cancel of a sweep keeps the invariant. *)
LEMMA SweepReturnsIInv ==
  ASSUME NamesOrders, IInv, TypeInv', NEW t \in Task, SweepReturns(t)
  PROVE  IInv'
<1> DEFINE o == task[t].eid
           r == Find(Name(o))
<1>1. /\ UNCHANGED <<exch, orders, index>> /\ OthersKeep(t)
      /\ task[t].pc = "sweepDone" /\ task'[t].pc \in {"idle", "sweep"}
      /\ \/ UNCHANGED tracked
         \/ /\ r # NoRequest /\ Allowed(r, "CANCELLED")
            /\ tracked' = [tracked EXCEPT ![r].status = "CANCELLED"]
  BY SweepReturnsEffect DEF IInv, TypeInv
<1>2. CASE UNCHANGED tracked
  BY <1>1, <1>2, ReleaseIInv
<1>3. CASE /\ r # NoRequest /\ Allowed(r, "CANCELLED")
           /\ tracked' = [tracked EXCEPT ![r].status = "CANCELLED"]
  <2>1. o \in ExchangeOrder /\ Settled(exch[o])
    BY <1>1 DEF IInv, TypeInv, Held, HoldingTrue
  <2>2. PICK q \in Request, n \in 1 .. MaxRetries : o = <<q, n>>
    BY <2>1 DEF ExchangeOrder
  <2>3. r = q /\ r = orders[<<q, n>>] /\ r \in Request
    BY <1>3, <2>2, RetriesAssumption DEF Find, Name, IInv, KeysOwned
  <2>4. tracked[r].status # "FAILED"
    BY <1>3 DEF Allowed, TRANSITIONS
  <2>5. tracked[r].eid = o
    BY <2>2, <2>3, <2>4 DEF IInv, KeysOwned
  <2>6. /\ tracked'[r].status = "CANCELLED" /\ RequestKept(r)
        /\ tracked'[r].eid = tracked[r].eid /\ tracked'[r].filled = tracked[r].filled
    BY <1>3, <2>3, StatusEffect DEF IInv, TypeInv, Status
  <2>7. o # NoOrder
    BY <2>1, NoneAssumption DEF ExchangeOrder
  <2>8. Agrees("CANCELLED", tracked[r].filled, exch[o])
    BY <2>1, <2>3, <2>5, <2>7 DEF IInv, TrackedTrue, Agrees
  <2> QED
    BY <1>1, <2>3, <2>5, <2>6, <2>7, <2>8, ReleaseIInv DEF RequestKept
<1> QED
  BY <1>1, <1>2, <1>3

(* A call on a known order begins, or asks for its state: what the          *)
(* coroutine then holds is what its request tracks.                        *)
LEMMA HoldIInv ==
  ASSUME IInv, TypeInv', NEW t \in Task, UNCHANGED <<exch, orders, index>>, OthersKeep(t),
         task'[t].pc \in {"cancel", "query"}, task'[t].req \in Request,
         task'[t].eid = tracked[task'[t].req].eid,
         \E n \in 0 .. MaxRetries : task'[t].key = <<task'[t].req, n>>,
         \A q \in Request :
           \/ tracked'[q] = tracked[q]
           \/ /\ tracked[q].eid # NoOrder /\ tracked'[q].eid = tracked[q].eid
              /\ tracked'[q].status = "CANCELLING" /\ tracked'[q].filled = tracked[q].filled
  PROVE  IInv'
<1>1. KeysOwned'
  BY DEF IInv, KeysOwned
<1>2. Unused'
  BY DEF IInv, Unused, OthersKeep, Placing
<1>3. TrackedTrue'
  BY DEF IInv, TrackedTrue, Agrees
<1>4. PlacingAlone'
  <2> SUFFICES ASSUME NEW u \in Task, task'[u].pc \in Placing
               PROVE  u # t /\ task'[u] = task[u] /\ task[u].req \in Request
                      /\ tracked'[task[u].req] = tracked[task[u].req]
    BY DEF IInv, PlacingAlone, OthersKeep, Placing
  <2>1. u # t /\ task'[u] = task[u]
    BY DEF OthersKeep, Placing
  <2>2. task[u].req \in Request
    BY <2>1 DEF IInv, TypeInv, Held
  <2>3. tracked[task[u].req].eid = NoOrder
    BY <2>1 DEF IInv, PlacingAlone
  <2> QED
    BY <2>1, <2>2, <2>3
<1>5. HoldingTrue'
  <2> SUFFICES ASSUME NEW u \in Task
               PROVE  /\ task'[u].pc \in Holding =>
                           /\ tracked'[task'[u].req].eid = task'[u].eid
                           /\ \E n \in 0 .. MaxRetries : task'[u].key = <<task'[u].req, n>>
                      /\ task'[u].pc = "queried" =>
                           Agrees(task'[u].answer, task'[u].filled, exch'[task'[u].eid])
                      /\ task'[u].pc \in {"cancelDone", "sweepDone"} =>
                           Settled(exch'[task'[u].eid])
    BY DEF HoldingTrue
  <2>1. CASE u = t
    BY <2>1
  <2>2. CASE u # t
    <3>1. task'[u] = task[u]
      BY <2>2 DEF OthersKeep
    <3>2. task[u].pc \in Holding => tracked'[task[u].req].eid = tracked[task[u].req].eid
      BY DEF IInv, TypeInv, Held
    <3> QED
      BY <3>1, <3>2 DEF IInv, HoldingTrue
  <2> QED
    BY <2>1, <2>2
<1> QED
  BY <1>1, <1>2, <1>3, <1>4, <1>5 DEF IInv
(* A first use of a request_id keeps the invariant. *)
LEMMA PlaceOrderIInv ==
  ASSUME IInv, TypeInv', NEW t \in Task, NEW r \in Request, PlaceOrder(t, r)
  PROVE  IInv'
<1>1. /\ exch' = exch /\ OthersKeep(t) /\ RequestKept(r)
      /\ task'[t].pc = "place" /\ task'[t].req = r /\ task'[t].attempt = 1
      /\ tracked'[r].status = "SUBMITTING"
      /\ tracked'[r].eid = tracked[r].eid /\ tracked'[r].filled = tracked[r].filled
  BY PlaceOrderEffect DEF IInv, TypeInv
<1>2. /\ index[r] = NoKey
      /\ orders' = [orders EXCEPT ![<<r, 0>>] = r]
      /\ index' = [index EXCEPT ![r] = <<r, 0>>]
  BY DEF PlaceOrder, LocalId
<1>3. /\ tracked[r].eid = NoOrder
      /\ \A n \in 1 .. MaxRetries : exch[<<r, n>>].phase = "absent"
      /\ \A u \in Task : task[u].pc \in Placing => task[u].req # r
  BY <1>2 DEF IInv, Unused
<1>4. <<r, 0>> \in OrderId /\ <<r, 0>> # NoKey /\ <<r, 0>> # NoName
  BY RetriesAssumption, NoneAssumption DEF OrderId
<1>5. KeysOwned'
  <2>1. orders'[NoName] = NoRequest
    BY <1>2, <1>4 DEF IInv, KeysOwned, TypeInv, TypeOK, OrderId
  <2>2. \A q \in Request, n \in 0 .. MaxRetries : orders'[<<q, n>>] \in {NoRequest, q}
    <3> SUFFICES ASSUME NEW q \in Request, NEW n \in 0 .. MaxRetries
                 PROVE  orders'[<<q, n>>] \in {NoRequest, q}
      OBVIOUS
    <3>1. <<q, n>> \in OrderId /\ orders[<<q, n>>] \in {NoRequest, q}
      BY DEF IInv, KeysOwned, OrderId
    <3>2. CASE <<q, n>> = <<r, 0>>
      BY <1>2, <3>1, <3>2 DEF IInv, TypeInv, TypeOK
    <3>3. CASE <<q, n>> # <<r, 0>>
      BY <1>2, <3>1, <3>3 DEF IInv, TypeInv, TypeOK
    <3> QED
      BY <3>2, <3>3
  <2>3. ASSUME NEW q \in Request, NEW n \in 1 .. MaxRetries, orders'[<<q, n>>] = q
        PROVE  q # r /\ orders[<<q, n>>] = q
    <3>1. n # 0 /\ <<q, n>> # <<r, 0>> /\ <<q, n>> \in OrderId
      BY RetriesAssumption DEF OrderId
    <3>2. orders[<<q, n>>] = q
      BY <1>2, <2>3, <3>1 DEF IInv, TypeInv, TypeOK
    <3>3. tracked[q].eid = <<q, n>> \/ tracked[q].status = "FAILED"
      BY <3>2 DEF IInv, KeysOwned
    <3>4. tracked[r].status # "FAILED"
      BY <1>2 DEF IInv, Unused
    <3> QED
      BY <1>3, <3>2, <3>3, <3>4, NoneAssumption
  <2> QED
    BY <1>1, <2>1, <2>2, <2>3 DEF KeysOwned, IInv, RequestKept
<1>6. Unused'
  BY <1>1, <1>2, <1>4 DEF IInv, Unused, TypeInv, TypeOK, OthersKeep, RequestKept
<1>7. TrackedTrue'
  BY <1>1, <1>3 DEF IInv, TrackedTrue, RequestKept
<1>8. PlacingAlone'
  BY <1>1, <1>2, <1>3, <1>4 DEF IInv, PlacingAlone, TypeInv, TypeOK, Held, OthersKeep, RequestKept
<1>9. HoldingTrue'
  BY <1>1, <1>3 DEF IInv, HoldingTrue, OthersKeep, RequestKept, Holding, TypeInv, Held
<1> QED
  BY <1>5, <1>6, <1>7, <1>8, <1>9 DEF IInv
(* The exchange taking an order keeps the invariant: nothing knew the order. *)
LEMMA AcceptIInv ==
  ASSUME IInv, TypeInv', NEW t \in Task, ExchangeAccepts(t)
  PROVE  IInv'
<1> DEFINE r == task[t].req
           o == <<r, task[t].attempt>>
<1>1. PICK x \in ExchangeRecord :
        /\ UNCHANGED <<orders, index, tracked>> /\ OthersKeep(t) /\ CallKept(t)
        /\ o \in ExchangeOrder /\ task[t].pc = "place" /\ r \in Request
        /\ exch' = [exch EXCEPT ![o] = x] /\ x.phase # "absent"
        /\ task'[t].pc = "placed" /\ task'[t].eid = o
        /\ AnswersFor(x, task'[t].answer, task'[t].filled)
  BY AcceptEffect DEF IInv
<1>2. task[t].attempt \in 1 .. MaxRetries
  BY <1>1 DEF ExchangeOrder
<1>3. exch[o].phase = "absent" /\ exch'[o] = x
  BY <1>1, <1>2 DEF IInv, PlacingAlone, Placing, TypeInv, TypeOK
<1>4. \A p \in ExchangeOrder : p # o => exch'[p] = exch[p]
  BY <1>1 DEF IInv, TypeInv, TypeOK
<1>5. Forward
  <2> SUFFICES ASSUME NEW p \in ExchangeOrder, exch[p].phase # "absent"
               PROVE  exch'[p] = exch[p] /\ exch[p].filled <= exch[p].filled
    BY DEF Forward
  <2>1. exch'[p] = exch[p]
    BY <1>3, <1>4
  <2>2. exch[p].filled \in 0 .. Quantity
    BY DEF IInv, TypeInv, TypeOK, ExchangeRecord
  <2> QED
    BY <2>1, <2>2, QuantityAssumption
<1>6. KeysOwned'
  BY <1>1 DEF IInv, KeysOwned
<1>7. Unused'
  <2> SUFFICES ASSUME NEW q \in Request, index[q] = NoKey
               PROVE  /\ tracked[q].eid = NoOrder /\ tracked[q].status = "NONE"
                      /\ \A n \in 1 .. MaxRetries : exch'[<<q, n>>].phase = "absent"
                      /\ \A u \in Task : task'[u].pc \in Placing => task'[u].req # q
    BY <1>1 DEF Unused
  <2>1. q # r
    BY <1>1 DEF IInv, PlacingAlone, Placing
  <2>2. \A n \in 1 .. MaxRetries : <<q, n>> \in ExchangeOrder /\ <<q, n>> # o
    BY <2>1 DEF ExchangeOrder
  <2>3. \A n \in 1 .. MaxRetries : exch'[<<q, n>>].phase = "absent"
    BY <1>4, <2>2 DEF IInv, Unused
  <2> QED
    BY <1>1, <2>1, <2>3 DEF IInv, Unused, OthersKeep, CallKept
<1>8. TrackedTrue'
  BY <1>1, <1>5, KnownStaysTrue DEF TypeInv, TrackedTrue
<1>9. PlacingAlone'
  <2> SUFFICES ASSUME NEW u \in Task, task'[u].pc \in Placing
               PROVE  /\ index[task'[u].req] # NoKey
                      /\ tracked[task'[u].req].eid = NoOrder
                      /\ tracked[task'[u].req].status = "SUBMITTING"
                      /\ \A n \in 1 .. MaxRetries :
                           n > task'[u].attempt \/ (n = task'[u].attempt /\ task'[u].pc = "place") =>
                             exch'[<<task'[u].req, n>>].phase = "absent"
                      /\ task'[u].pc = "placed" =>
                           /\ exch'[task'[u].eid].phase # "absent"
                           /\ Agrees(task'[u].answer, task'[u].filled, exch'[task'[u].eid])
                      /\ \A v \in Task : task'[v].pc \in Placing /\ task'[v].req = task'[u].req => v = u
    BY <1>1 DEF PlacingAlone
  <2>1. \A v \in Task : /\ task'[v].req = task[v].req /\ task'[v].attempt = task[v].attempt
                        /\ task'[v].pc \in Placing => task[v].pc \in Placing
    BY <1>1 DEF OthersKeep, CallKept, Placing
  <2>2. /\ index[task'[u].req] # NoKey
        /\ tracked[task'[u].req].eid = NoOrder
        /\ tracked[task'[u].req].status = "SUBMITTING"
        /\ \A v \in Task : task'[v].pc \in Placing /\ task'[v].req = task'[u].req => v = u
    BY <2>1 DEF IInv, PlacingAlone
  <2>3. ASSUME NEW n \in 1 .. MaxRetries,
               n > task'[u].attempt \/ (n = task'[u].attempt /\ task'[u].pc = "place")
        PROVE  exch'[<<task'[u].req, n>>].phase = "absent"
    <3>1. task[u].req \in Request /\ <<task[u].req, n>> \in ExchangeOrder
      BY <2>1 DEF IInv, TypeInv, Held, ExchangeOrder
    <3>2. exch[<<task[u].req, n>>].phase = "absent"
      BY <1>1, <2>1, <2>3 DEF IInv, PlacingAlone, OthersKeep
    <3>3. <<task[u].req, n>> # o
      <4>1. CASE u = t
        BY <1>1, <1>2, <2>1, <2>3, <4>1, RetriesAssumption
      <4>2. CASE u # t
        BY <1>1, <2>1, <2>2, <4>2 DEF Placing
      <4> QED
        BY <4>1, <4>2
    <3> QED
      BY <1>4, <2>1, <3>1, <3>2, <3>3
  <2>4. ASSUME task'[u].pc = "placed"
        PROVE  /\ exch'[task'[u].eid].phase # "absent"
               /\ Agrees(task'[u].answer, task'[u].filled, exch'[task'[u].eid])
    <3>1. CASE u = t
      BY <1>1, <1>3, <3>1, AnswerAgrees
    <3>2. CASE u # t
      BY <1>1, <1>5, <2>4, <3>2, KnownStaysTrue DEF TypeInv, OthersKeep
    <3> QED
      BY <3>1, <3>2
  <2> QED
    BY <2>2, <2>3, <2>4
<1>10. HoldingTrue'
  <2>1. \A u \in Task : task'[u].pc \in Holding \cup {"sweepDone"} => task'[u] = task[u]
    BY <1>1 DEF OthersKeep, Holding
  <2> QED
    BY <1>1, <1>5, <2>1, KnownStaysTrue DEF IInv, TypeInv, HoldingTrue, Holding
<1> QED
  BY <1>6, <1>7, <1>8, <1>9, <1>10 DEF IInv
(* The answer arriving under the exchange's name keeps the invariant. *)
LEMMA PlaceReturnsIInv ==
  ASSUME NamesOrders, IInv, TypeInv', NEW t \in Task, PlaceReturns(t)
  PROVE  IInv'
<1> DEFINE r == task[t].req
           o == task[t].eid
<1>1. /\ exch' = exch /\ OthersKeep(t) /\ RequestKept(r)
      /\ r \in Request /\ task[t].pc = "placed" /\ task'[t].pc = "idle"
      /\ o = <<r, task[t].attempt>> /\ o \in ExchangeOrder
      /\ orders' = [orders EXCEPT ![<<r, 0>>] = NoRequest, ![o] = r]
      /\ index' = [index EXCEPT ![r] = o]
      /\ \/ /\ tracked'[r].status = task[t].answer
            /\ tracked'[r].eid = o /\ tracked'[r].filled = task[t].filled
         \/ /\ tracked'[r].status = "FAILED"
            /\ tracked'[r].eid = tracked[r].eid /\ tracked'[r].filled = tracked[r].filled
  BY PlaceReturnsEffect DEF IInv, Name, LocalId
<1>2. /\ tracked[r].eid = NoOrder /\ tracked[r].status = "SUBMITTING" /\ index[r] # NoKey
      /\ exch[o].phase # "absent" /\ Agrees(task[t].answer, task[t].filled, exch[o])
      /\ \A u \in Task : task[u].pc \in Placing /\ task[u].req = r => u = t
  BY <1>1 DEF IInv, PlacingAlone, Placing
<1>3. task[t].attempt \in 1 .. MaxRetries /\ o # NoOrder /\ o # NoKey /\ o # NoName
  BY <1>1, RetriesAssumption, NoneAssumption DEF ExchangeOrder
<1>4. <<r, 0>> \in OrderId /\ o \in OrderId /\ NoName \in OrderId /\ <<r, 0>> # NoName
  BY <1>1, <1>3, RetriesAssumption, NoneAssumption DEF OrderId
<1>5. \A k \in OrderId : \/ k = o /\ orders'[k] = r
                         \/ k # o /\ orders'[k] \in {NoRequest, orders[k]}
                              /\ (k # <<r, 0>> => orders'[k] = orders[k])
  BY <1>1, <1>4 DEF IInv, TypeInv, TypeOK
<1>6. KeysOwned'
  <2>1. orders'[NoName] = NoRequest
    BY <1>3, <1>4, <1>5 DEF IInv, KeysOwned
  <2>2. ASSUME NEW q \in Request, NEW n \in 0 .. MaxRetries
        PROVE  orders'[<<q, n>>] \in {NoRequest, q}
    <3>1. <<q, n>> \in OrderId
      BY DEF OrderId
    <3>2. CASE <<q, n>> = o
      <4>1. q = r
        BY <1>1, <3>2
      <4>2. orders'[o] = r
        BY <1>4, <1>5
      <4> QED
        BY <3>2, <4>1, <4>2
    <3>3. CASE <<q, n>> # o
      BY <1>5, <3>1, <3>3 DEF IInv, KeysOwned
    <3> QED
      BY <3>2, <3>3
  <2>3. ASSUME NEW q \in Request, NEW n \in 1 .. MaxRetries, orders'[<<q, n>>] = q
        PROVE  \/ tracked'[q].eid = <<q, n>>
               \/ tracked'[q].eid = NoOrder /\ tracked'[q].status = "FAILED"
    <3>1. <<q, n>> \in OrderId /\ <<q, n>> # <<r, 0>>
      BY RetriesAssumption DEF OrderId
    <3>2. CASE <<q, n>> = o
      BY <1>1, <1>2, <3>2
    <3>3. CASE <<q, n>> # o
      <4>1. orders[<<q, n>>] = q
        BY <1>5, <2>3, <3>1, <3>3
      <4>2. \/ tracked[q].eid = <<q, n>>
            \/ tracked[q].eid = NoOrder /\ tracked[q].status = "FAILED"
        BY <4>1 DEF IInv, KeysOwned
      <4>3. <<q, n>> # NoOrder
        BY NoneAssumption
      <4>4. q # r
        BY <1>2, <4>2, <4>3
      <4> QED
        BY <1>1, <4>2, <4>4 DEF RequestKept
    <3> QED
      BY <3>2, <3>3
  <2> QED
    BY <2>1, <2>2, <2>3 DEF KeysOwned
<1>7. \A q \in Request : q # r => index'[q] = index[q]
  BY <1>1 DEF IInv, TypeInv, TypeOK
<1>8. index'[r] = o
  BY <1>1 DEF IInv, TypeInv, TypeOK
<1>9. Unused'
  BY <1>1, <1>3, <1>7, <1>8 DEF IInv, Unused, OthersKeep, RequestKept, Placing
<1>10. TrackedTrue'
  BY <1>1, <1>2 DEF IInv, TrackedTrue, RequestKept
<1>11. PlacingAlone'
  <2> SUFFICES ASSUME NEW u \in Task, task'[u].pc \in Placing
               PROVE  /\ u # t /\ task'[u] = task[u]
                      /\ index'[task[u].req] = index[task[u].req]
                      /\ tracked'[task[u].req] = tracked[task[u].req]
    <3>1. PlacingAlone /\ exch' = exch
      BY <1>1 DEF IInv
    <3> QED
      BY <3>1 DEF PlacingAlone
  <2>1. u # t /\ task'[u] = task[u]
    BY <1>1 DEF OthersKeep, Placing
  <2>2. task[u].req \in Request /\ task[u].req # r
    BY <1>2, <2>1 DEF IInv, TypeInv, Held
  <2> QED
    BY <1>1, <1>7, <2>1, <2>2 DEF RequestKept
<1>12. HoldingTrue'
  <2>1. ASSUME NEW u \in Task, task'[u].pc \in Holding \cup {"sweepDone"}
        PROVE  task'[u] = task[u]
               /\ (task[u].pc \in Holding => tracked'[task[u].req].eid = tracked[task[u].req].eid)
    <3>1. task'[u] = task[u]
      BY <1>1, <2>1 DEF OthersKeep, Holding
    <3>2. ASSUME task[u].pc \in Holding PROVE task[u].req \in Request \ {r}
      <4>1. task[u].req \in Request /\ tracked[task[u].req].eid \in ExchangeOrder
        BY <3>2 DEF IInv, TypeInv, Held
      <4> QED
        BY <1>2, <4>1, NoneAssumption DEF ExchangeOrder
    <3> QED
      BY <1>1, <3>1, <3>2 DEF RequestKept
  <2>2. HoldingTrue /\ exch' = exch
    BY <1>1 DEF IInv
  <2> QED
    BY <2>1, <2>2 DEF HoldingTrue, Holding
<1> QED
  BY <1>6, <1>9, <1>10, <1>11, <1>12 DEF IInv

(* A placement that backs off, tries again or fails keeps the invariant. *)
LEMMA PlaceFailsIInv ==
  ASSUME IInv, TypeInv', NEW t \in Task,
         PlaceRefused(t) \/ PlaceInterrupted(t) \/ PlaceRetries(t)
  PROVE  IInv'
<1> DEFINE r == task[t].req
<1>1. /\ UNCHANGED <<exch, orders, index>> /\ OthersKeep(t) /\ RequestKept(r)
      /\ r \in Request /\ task[t].pc \in Placing
      /\ tracked'[r].eid = tracked[r].eid
      /\ \/ task'[t].pc = "idle" /\ tracked'[r].status = "FAILED"
         \/ /\ tracked' = tracked /\ task'[t].req = r
            /\ \/ task'[t].pc = "backoff" /\ task'[t].attempt = task[t].attempt
               \/ /\ task'[t].pc = "place" /\ task[t].pc = "backoff"
                  /\ task'[t].attempt = task[t].attempt + 1
  BY PlaceFailsEffect, RetryEffect DEF IInv, RequestKept, CallKept, Placing
<1>2. task[t].attempt \in 0 .. MaxRetries
  BY DEF IInv, TypeInv, TypeOK, TaskRecord
<1>3. /\ tracked[r].eid = NoOrder /\ index[r] # NoKey /\ tracked[r].status = "SUBMITTING"
      /\ \A n \in 1 .. MaxRetries : n > task[t].attempt => exch[<<r, n>>].phase = "absent"
      /\ \A u \in Task : task[u].pc \in Placing /\ task[u].req = r => u = t
  BY <1>1 DEF IInv, PlacingAlone
<1>4. KeysOwned'
  BY <1>1, <1>3, NoneAssumption DEF IInv, KeysOwned, RequestKept
<1>5. Unused'
  BY <1>1, <1>3 DEF IInv, Unused, OthersKeep, RequestKept, Placing
<1>6. TrackedTrue'
  BY <1>1, <1>3 DEF IInv, TrackedTrue, RequestKept
<1>7. PlacingAlone'
  <2>1. \A u \in Task : task'[u].pc \in Placing =>
          /\ task[u].pc \in Placing /\ task'[u].req = task[u].req /\ task[u].req \in Request
          /\ tracked'[task[u].req] = tracked[task[u].req]
    <3> SUFFICES ASSUME NEW u \in Task, task'[u].pc \in Placing
                 PROVE  /\ task[u].pc \in Placing /\ task'[u].req = task[u].req
                        /\ task[u].req \in Request
                        /\ tracked'[task[u].req] = tracked[task[u].req]
      OBVIOUS
    <3>1. CASE u = t
      BY <1>1, <3>1 DEF Placing
    <3>2. CASE u # t
      <4>1. task'[u] = task[u] /\ task[u].req \in Request
        BY <1>1, <3>2 DEF OthersKeep, IInv, TypeInv, Held
      <4> QED
        BY <1>1, <1>3, <3>2, <4>1 DEF RequestKept
    <3> QED
      BY <3>1, <3>2
  <2> SUFFICES ASSUME NEW u \in Task, task'[u].pc \in Placing
               PROVE  /\ \A n \in 1 .. MaxRetries :
                           n > task'[u].attempt \/ (n = task'[u].attempt /\ task'[u].pc = "place") =>
                             exch[<<task[u].req, n>>].phase = "absent"
                      /\ task'[u].pc = "placed" => task'[u] = task[u]
    BY <1>1, <2>1 DEF IInv, PlacingAlone
  <2>2. CASE u = t
    <3>1. ASSUME NEW n \in 1 .. MaxRetries,
                 n > task'[t].attempt \/ (n = task'[t].attempt /\ task'[t].pc = "place")
          PROVE  n > task[t].attempt
      BY <1>1, <1>2, <2>2, <3>1, RetriesAssumption DEF Placing
    <3>2. task'[t].pc # "placed"
      BY <1>1
    <3> QED
      BY <1>3, <2>2, <3>1, <3>2
  <2>3. CASE u # t
    BY <1>1, <2>1, <2>3 DEF IInv, PlacingAlone, OthersKeep
  <2> QED
    BY <2>2, <2>3
<1>8. HoldingTrue'
  <2>1. ASSUME NEW u \in Task, task'[u].pc \in Holding \cup {"sweepDone"}
        PROVE  task'[u] = task[u]
               /\ (task[u].pc \in Holding => tracked'[task[u].req].eid = tracked[task[u].req].eid)
    <3>1. task'[u] = task[u]
      BY <1>1, <2>1 DEF OthersKeep, Holding
    <3>2. task[u].pc \in Holding => task[u].req \in Request
      BY DEF IInv, TypeInv, Held
    <3> QED
      BY <1>1, <3>1, <3>2 DEF RequestKept
  <2> QED
    BY <1>1, <2>1 DEF IInv, HoldingTrue, Holding
<1> QED
  BY <1>4, <1>5, <1>6, <1>7, <1>8 DEF IInv
(* The exchange working on an order it has already taken, by a fill or a    *)
(* cancel, keeps the invariant.                                            *)
LEMMA ExchangeIInv ==
  ASSUME IInv, TypeInv', UNCHANGED <<orders, index, tracked>>, Forward,
         \A o \in ExchangeOrder : exch[o].phase = "absent" => exch'[o] = exch[o],
         \A u \in Task :
           \/ task'[u] = task[u]
           \/ /\ task'[u].req = task[u].req /\ task'[u].key = task[u].key
              /\ task'[u].eid = task[u].eid
              /\ \/ task[u].pc = "cancel" /\ task'[u].pc = "cancelDone"
                 \/ task[u].pc = "sweepCancel" /\ task'[u].pc = "sweepDone"
              /\ Settled(exch'[task[u].eid])
           \/ /\ task'[u].req = task[u].req /\ task'[u].key = task[u].key
              /\ task'[u].eid = task[u].eid
              /\ task[u].pc = "query" /\ task'[u].pc = "queried"
              /\ Agrees(task'[u].answer, task'[u].filled, exch'[task[u].eid])
  PROVE  IInv'
<1>1. KeysOwned'
  BY DEF IInv, KeysOwned
<1>2. \A r \in Request, n \in 1 .. MaxRetries :
        exch[<<r, n>>].phase = "absent" => exch'[<<r, n>>].phase = "absent"
  BY DEF ExchangeOrder
<1>3. \A u \in Task : task'[u].pc \in Placing => task'[u] = task[u]
  BY DEF Placing
<1>4. Unused'
  BY <1>2, <1>3 DEF IInv, Unused
<1>5. TrackedTrue'
  BY KnownStaysTrue DEF TypeInv, TrackedTrue
<1>6. PlacingAlone'
  <2> SUFFICES ASSUME NEW u \in Task, task'[u].pc \in Placing
               PROVE  /\ task[u].req \in Request
                      /\ \A n \in 1 .. MaxRetries :
                           n > task[u].attempt \/ (n = task[u].attempt /\ task[u].pc = "place") =>
                             exch'[<<task[u].req, n>>].phase = "absent"
                      /\ task[u].pc = "placed" =>
                           /\ exch'[task[u].eid].phase # "absent"
                           /\ Agrees(task[u].answer, task[u].filled, exch'[task[u].eid])
    BY <1>3 DEF IInv, PlacingAlone
  <2>1. task'[u] = task[u] /\ task[u].req \in Request
    BY <1>3 DEF IInv, TypeInv, Held
  <2> QED
    BY <1>2, <2>1, KnownStaysTrue DEF TypeInv, IInv, PlacingAlone
<1>7. HoldingTrue'
  <2> SUFFICES ASSUME NEW u \in Task
               PROVE  /\ task'[u].pc \in Holding =>
                           /\ tracked[task'[u].req].eid = task'[u].eid
                           /\ \E n \in 0 .. MaxRetries : task'[u].key = <<task'[u].req, n>>
                      /\ task'[u].pc = "queried" =>
                           Agrees(task'[u].answer, task'[u].filled, exch'[task'[u].eid])
                      /\ task'[u].pc \in {"cancelDone", "sweepDone"} =>
                           Settled(exch'[task'[u].eid])
    BY DEF HoldingTrue
  <2>1. CASE task'[u] = task[u]
    BY <2>1, KnownStaysTrue DEF TypeInv, IInv, HoldingTrue
  <2>2. CASE task'[u] # task[u]
    BY <2>2 DEF IInv, HoldingTrue, Holding
  <2> QED
    BY <2>1, <2>2
<1> QED
  BY <1>1, <1>4, <1>5, <1>6, <1>7 DEF IInv

(* The exchange stays where it is when nothing changes it. *)
LEMMA StaysForward == ASSUME TypeOK, exch' = exch PROVE Forward
<1>1. \A o \in ExchangeOrder : exch[o].filled <= exch[o].filled
  BY QuantityAssumption DEF TypeOK, ExchangeRecord
<1> QED
  BY <1>1 DEF Forward

(* A cancel, a report and a fill are such steps. *)
LEMMA ExchangeStepsIInv ==
  ASSUME IInv, TypeInv',
         \/ \E t \in Task : TakesCancel(t) \/ ExchangeReports(t)
         \/ \E o \in ExchangeOrder : MovesByItself(o)
  PROVE  IInv'
<1>1. TypeOK /\ TypeInv
  BY DEF IInv, TypeInv
<1>2. ASSUME NEW t \in Task, TakesCancel(t) PROVE IInv'
  <2> DEFINE o == task[t].eid
  <2>1. PICK x \in ExchangeRecord :
          /\ UNCHANGED <<orders, index, tracked>> /\ OthersKeep(t) /\ CallKept(t)
          /\ o \in ExchangeOrder /\ exch[o].phase # "absent" /\ task'[t].eid = o
          /\ exch' = [exch EXCEPT ![o] = x]
          /\ Settled(x) /\ x.filled = exch[o].filled
          /\ x.phase = exch[o].phase \/ (Working(o) /\ x.phase # "absent")
          /\ x.told = exch[o].told \/ x.told = "cancelled"
          /\ \/ task[t].pc = "cancel" /\ task'[t].pc = "cancelDone"
             \/ task[t].pc = "sweepCancel" /\ task'[t].pc = "sweepDone"
    BY <1>1, <1>2, TakesCancelEffect
  <2>2. /\ exch'[o] = x
        /\ \A p \in ExchangeOrder : p # o => exch'[p] = exch[p]
    BY <1>1, <2>1 DEF TypeOK
  <2>3. x.phase # exch[o].phase => exch[o].phase \in {"live", "pending"}
    BY <2>1 DEF Working
  <2>4. \A p \in ExchangeOrder : exch[p].filled <= exch[p].filled
    BY <1>1, QuantityAssumption DEF TypeOK, ExchangeRecord
  <2>5. Forward
    BY <2>1, <2>2, <2>3, <2>4 DEF Forward
  <2> QED
    BY <2>1, <2>2, <2>3, <2>5, ExchangeIInv DEF OthersKeep, CallKept
<1>3. ASSUME NEW t \in Task, ExchangeReports(t) PROVE IInv'
  <2> DEFINE o == task[t].eid
  <2>1. /\ UNCHANGED <<exch, orders, index, tracked>> /\ OthersKeep(t) /\ CallKept(t)
        /\ o \in ExchangeOrder /\ task'[t].eid = o
        /\ task[t].pc = "query" /\ task'[t].pc = "queried"
        /\ task'[t].answer = Reported(exch[o]) /\ task'[t].filled = exch[o].filled
    BY <1>1, <1>3, ReportEffect
  <2>2. Agrees(task'[t].answer, task'[t].filled, exch'[o])
    BY <1>1, <2>1, ReportAgrees DEF TypeOK
  <2>3. Forward
    BY <1>1, <2>1, StaysForward
  <2> QED
    BY <2>1, <2>2, <2>3, ExchangeIInv DEF OthersKeep, CallKept
<1>4. ASSUME NEW o \in ExchangeOrder, MovesByItself(o) PROVE IInv'
  <2>1. PICK x \in ExchangeRecord :
          /\ UNCHANGED <<orders, index, tracked, task>> /\ Working(o)
          /\ exch' = [exch EXCEPT ![o] = x]
          /\ x.phase # "absent" /\ exch[o].filled <= x.filled /\ x.told = exch[o].told
    BY <1>1, <1>4, MovesByItselfEffect
  <2>2. /\ exch'[o] = x
        /\ \A p \in ExchangeOrder : p # o => exch'[p] = exch[p]
    BY <1>1, <2>1 DEF TypeOK
  <2>3. exch[o].phase \in {"live", "pending"} /\ exch[o].filled # Quantity
    BY <1>1, <2>1, QuantityAssumption DEF Working, TypeOK, ExchangeRecord
  <2>4. \A p \in ExchangeOrder : exch[p].filled <= exch[p].filled
    BY <1>1, QuantityAssumption DEF TypeOK, ExchangeRecord
  <2>5. Forward
    BY <2>1, <2>2, <2>3, <2>4 DEF Forward
  <2> QED
    BY <2>1, <2>2, <2>3, <2>5, ExchangeIInv
<1> QED
  BY <1>2, <1>3, <1>4

(* The calls that hold an order they found begin, or go on to ask for its   *)
(* state, without disturbing the invariant.                                *)
LEMMA HoldStepsIInv ==
  ASSUME IInv, TypeInv', NEW t \in Task,
         \/ CancelRefused(t) \/ CancelInterrupted(t)
         \/ \E k \in OrderId : CancelOrder(t, k) \/ SyncOrder(t, k)
  PROVE  IInv'
<1>1. TypeInv
  BY DEF IInv
<1>2. ASSUME NEW k \in OrderId, NEW r \in Request, r = orders[k]
      PROVE  \E n \in 0 .. MaxRetries : k = <<r, n>>
  <2>1. k # NoName
    BY <1>2, NoneAssumption DEF IInv, KeysOwned
  <2>2. PICK q \in Request, n \in 0 .. MaxRetries : k = <<q, n>>
    BY <2>1 DEF OrderId
  <2> QED
    BY <1>2, <2>2, NoneAssumption DEF IInv, KeysOwned
<1>3. CASE CancelRefused(t) \/ CancelInterrupted(t)
  <2>1. /\ UNCHANGED <<exch, orders, index, tracked>> /\ OthersKeep(t) /\ CallKept(t)
        /\ task[t].pc \in Holding /\ task'[t].pc = "query"
        /\ task'[t].eid = tracked[task[t].req].eid
    BY <1>1, <1>3, AskEffect
  <2>2. /\ task[t].req \in Request
        /\ \E n \in 0 .. MaxRetries : task[t].key = <<task[t].req, n>>
    BY <2>1 DEF IInv, TypeInv, Held, HoldingTrue
  <2> QED
    BY <2>1, <2>2, HoldIInv DEF CallKept
<1>4. ASSUME NEW k \in OrderId, CancelOrder(t, k) PROVE IInv'
  <2> DEFINE r == Find(k)
  <2>1. /\ UNCHANGED <<exch, orders, index>> /\ OthersKeep(t) /\ RequestKept(r)
        /\ r \in Request /\ r = orders[k] /\ tracked[r].eid \in ExchangeOrder
        /\ task'[t].pc = "cancel" /\ task'[t].req = r /\ task'[t].key = k
        /\ task'[t].eid = tracked[r].eid
        /\ tracked'[r].status = "CANCELLING"
        /\ tracked'[r].eid = tracked[r].eid /\ tracked'[r].filled = tracked[r].filled
    BY <1>1, <1>4, CancelOrderEffect
  <2>2. tracked[r].eid # NoOrder
    BY <2>1, NoneAssumption DEF ExchangeOrder
  <2>3. \A q \in Request :
           \/ tracked'[q] = tracked[q]
           \/ /\ tracked[q].eid # NoOrder /\ tracked'[q].eid = tracked[q].eid
              /\ tracked'[q].status = "CANCELLING" /\ tracked'[q].filled = tracked[q].filled
    BY <2>1, <2>2 DEF RequestKept
  <2> HIDE DEF r
  <2> QED
    BY <1>2, <2>1, <2>3, HoldIInv
<1>5. ASSUME NEW k \in OrderId, SyncOrder(t, k) PROVE IInv'
  <2> DEFINE r == Find(k)
  <2>1. /\ UNCHANGED <<exch, orders, index, tracked>> /\ OthersKeep(t)
        /\ r \in Request /\ r = orders[k]
        /\ task'[t].pc = "query" /\ task'[t].req = r /\ task'[t].key = k
        /\ task'[t].eid = tracked[r].eid
    BY <1>1, <1>5, SyncOrderEffect
  <2> HIDE DEF r
  <2> QED
    BY <1>2, <2>1, HoldIInv
<1> QED
  BY <1>3, <1>4, <1>5

(* The invariant is preserved by every step. *)
LEMMA StepIInv == ASSUME NamesOrders PROVE IInv /\ [Next]_vars => IInv'
<1> SUFFICES ASSUME IInv, [Next]_vars PROVE IInv'
  OBVIOUS
<1>1. TypeInv'
  BY TypeStep DEF IInv
<1>2. ASSUME NEW t \in Task, NEW r \in Request, PlaceOrder(t, r) PROVE IInv'
  BY <1>1, <1>2, PlaceOrderIInv
<1>3. ASSUME NEW t \in Task, ExchangeAccepts(t) PROVE IInv'
  BY <1>1, <1>3, AcceptIInv
<1>4. ASSUME NEW t \in Task, PlaceReturns(t) PROVE IInv'
  BY <1>1, <1>4, PlaceReturnsIInv
<1>5. ASSUME NEW t \in Task, PlaceRefused(t) \/ PlaceInterrupted(t) \/ PlaceRetries(t)
      PROVE  IInv'
  BY <1>1, <1>5, PlaceFailsIInv
<1>6. ASSUME NEW t \in Task,
             \/ CancelRefused(t) \/ CancelInterrupted(t)
             \/ \E k \in OrderId : CancelOrder(t, k) \/ SyncOrder(t, k)
      PROVE  IInv'
  BY <1>1, <1>6, HoldStepsIInv
<1>7. ASSUME \/ \E t \in Task : TakesCancel(t) \/ ExchangeReports(t)
             \/ \E o \in ExchangeOrder : MovesByItself(o)
      PROVE  IInv'
  BY <1>1, <1>7, ExchangeStepsIInv
<1>8. ASSUME NEW t \in Task, CancelReturns(t) \/ QueryReturns(t) PROVE IInv'
  BY <1>1, <1>8, AnswerIInv
<1>9. ASSUME NEW t \in Task, CallEnds(t) PROVE IInv'
  <2>1. UNCHANGED <<exch, orders, index, tracked>> /\ OthersKeep(t) /\ task'[t].pc = "idle"
    BY <1>9, EndsEffect DEF IInv, TypeInv
  <2> QED
    BY <1>1, <2>1, ReleaseIInv
<1>10. ASSUME NEW t \in Task,
              CancelAllOrders(t) \/ SweepNext(t) \/ SweepRefused(t) \/ SweepInterrupted(t)
       PROVE  IInv'
  <2>1. /\ UNCHANGED <<exch, orders, index, tracked>> /\ OthersKeep(t)
        /\ task'[t].pc \in {"idle", "sweep", "sweepCancel"}
    BY <1>10, SweepMovesEffect DEF IInv, TypeInv
  <2> QED
    BY <1>1, <2>1, ReleaseIInv
<1>11. ASSUME NEW t \in Task, SweepReturns(t) PROVE IInv'
  BY <1>1, <1>11, SweepReturnsIInv
<1>12. ASSUME UNCHANGED vars PROVE IInv'
  BY <1>1, <1>12 DEF vars, IInv, KeysOwned, Unused, TrackedTrue, PlacingAlone, HoldingTrue
<1> QED
  BY <1>2, <1>3, <1>4, <1>5, <1>6, <1>7, <1>8, <1>9, <1>10, <1>11, <1>12
  DEF Next, Call, Proceed, Fault, TakesCancel, MovesByItself, CallEnds

(* On an exchange that names the orders it is sent, what the tracker        *)
(* reports as over is over on the exchange, or the exchange has said it     *)
(* was, and every fill it reports happened, for any number of concurrent    *)
(* calls, retries and lost answers.                                        *)
THEOREM TrackerIsTruthful == ASSUME NamesOrders PROVE Spec => []Truthful
BY InitIInv, StepIInv, IInvTruthful, PTL DEF Spec

-----------------------------------------------------------------------------
(***************************************************************************)
(* OrderExecution implements OrderLifecycle, its request index leads every *)
(* request to its own order, and, when no answer is lost, no order is      *)
(* forgotten and no request is ordered twice.  All of it for exchanges     *)
(* that name every order (NamesOrders), any number of requests, coroutines *)
(* and retries and every quantity; what needs ~ExchangeFaults says so.     *)
(***************************************************************************)

(* What an exchange may report of an order. *)
Verdict == {"PENDING", "OPEN", "PARTIALLY_FILLED", "FILLED", "CANCELLED", "REJECTED"}

(* The answer a coroutine holds is a report, never a status of its own. *)
Answers == \A t \in Task : task[t].pc \in {"placed", "queried"} => task[t].answer \in Verdict

(* A request's index entry leads to the order of that request. *)
LifeInv == IInv /\ Answers /\ OwnResult

LEMMA ReportIsVerdict == \A x \in ExchangeRecord : Reported(x) \in Verdict
BY DEF Reported, Verdict

(* The request and the attempt of an exchange order are told apart from    *)
(* those of any other, and from the local placeholder.                     *)
LEMMA KeyOf ==
  ASSUME NEW r \in Request
  PROVE  /\ LocalId(r) \in OrderId /\ LocalId(r) # NoName
         /\ \A n \in 1 .. MaxRetries : /\ <<r, n>> \in OrderId /\ <<r, n>> # NoName
                                       /\ <<r, n>> # LocalId(r)
         /\ \A n \in 1 .. MaxRetries : <<r, n>> \in ExchangeOrder
<1>1. 0 \in 0 .. MaxRetries /\ \A n \in 1 .. MaxRetries : n \in 0 .. MaxRetries /\ n # 0
  BY RetriesAssumption
<1>2. \A n \in 0 .. MaxRetries : <<r, n>> \in OrderId /\ <<r, n>> # NoName
  BY NoneAssumption DEF OrderId
<1>3. \A n \in 1 .. MaxRetries : <<r, n>> # LocalId(r)
  BY <1>1 DEF LocalId
<1> QED
  BY <1>1, <1>2, <1>3 DEF LocalId, ExchangeOrder

(* Who answers with what: only the exchange writes an answer. *)
LEMMA AnswersStep == ASSUME IInv, Answers, [Next]_vars PROVE Answers'
<1>1. TypeInv /\ TypeOK
  BY DEF IInv, TypeInv
<1>2. ASSUME NEW t \in Task, OthersKeep(t),
             \/ task'[t].pc \notin {"placed", "queried"}
             \/ task'[t].answer \in Verdict
      PROVE  Answers'
  BY <1>2 DEF Answers, OthersKeep
<1>3. ASSUME NEW t \in Task, NEW r \in Request, PlaceOrder(t, r) PROVE Answers'
  BY <1>1, <1>2, <1>3, PlaceOrderEffect
<1>4. ASSUME NEW t \in Task, ExchangeAccepts(t) PROVE Answers'
  <2>1. PICK x \in ExchangeRecord :
          OthersKeep(t) /\ AnswersFor(x, task'[t].answer, task'[t].filled)
    BY <1>1, <1>4, AcceptEffect
  <2> QED
    BY <1>2, <2>1, ReportIsVerdict DEF AnswersFor, Verdict
<1>5. ASSUME NEW t \in Task, PlaceReturns(t) PROVE Answers'
  BY <1>1, <1>2, <1>5, PlaceReturnsEffect
<1>6. ASSUME NEW t \in Task, PlaceRefused(t) \/ PlaceInterrupted(t) PROVE Answers'
  BY <1>1, <1>2, <1>6, PlaceFailsEffect
<1>7. ASSUME NEW t \in Task, PlaceRetries(t) PROVE Answers'
  BY <1>1, <1>2, <1>7, RetryEffect
<1>8. ASSUME NEW t \in Task, NEW k \in OrderId, CancelOrder(t, k) PROVE Answers'
  BY <1>1, <1>2, <1>8, CancelOrderEffect
<1>9. ASSUME NEW t \in Task, NEW k \in OrderId, SyncOrder(t, k) PROVE Answers'
  BY <1>1, <1>2, <1>9, SyncOrderEffect
<1>10. ASSUME NEW t \in Task, TakesCancel(t) PROVE Answers'
  BY <1>1, <1>2, <1>10, TakesCancelEffect
<1>11. ASSUME NEW t \in Task, CancelRefused(t) \/ CancelInterrupted(t) PROVE Answers'
  BY <1>1, <1>2, <1>11, AskEffect
<1>12. ASSUME NEW t \in Task, ExchangeReports(t) PROVE Answers'
  <2>1. /\ OthersKeep(t) /\ task[t].eid \in ExchangeOrder
        /\ task'[t].answer = Reported(exch[task[t].eid])
    BY <1>1, <1>12, ReportEffect
  <2>2. exch[task[t].eid] \in ExchangeRecord
    BY <1>1, <2>1 DEF TypeOK
  <2> QED
    BY <1>2, <2>1, <2>2, ReportIsVerdict
<1>13. ASSUME NEW t \in Task, CancelReturns(t) \/ QueryReturns(t) PROVE Answers'
  BY <1>1, <1>2, <1>13, AnswerEffect
<1>14. ASSUME NEW t \in Task, CallEnds(t) PROVE Answers'
  BY <1>1, <1>2, <1>14, EndsEffect
<1>15. ASSUME NEW t \in Task,
              CancelAllOrders(t) \/ SweepNext(t) \/ SweepRefused(t) \/ SweepInterrupted(t)
       PROVE  Answers'
  BY <1>1, <1>2, <1>15, SweepMovesEffect
<1>16. ASSUME NEW t \in Task, SweepReturns(t) PROVE Answers'
  BY <1>1, <1>2, <1>16, SweepReturnsEffect
<1>17. ASSUME NEW o \in ExchangeOrder, MovesByItself(o) PROVE Answers'
  BY <1>1, <1>17, MovesByItselfEffect DEF Answers
<1>18. CASE UNCHANGED vars
  BY <1>18 DEF vars, Answers
<1> QED
  BY <1>3, <1>4, <1>5, <1>6, <1>7, <1>8, <1>9, <1>10, <1>11, <1>12, <1>13, <1>14, <1>15,
     <1>16, <1>17, <1>18 DEF Next, Call, Proceed, Fault, TakesCancel, MovesByItself, CallEnds


-----------------------------------------------------------------------------
(* What the steps do to the tracked orders.                                *)

(* The answer to a cancel or a query moves the order it was asked about,   *)
(* and no other, to a status the state machine allows and the exchange     *)
(* bears out.                                                              *)
LEMMA AnswerMoves ==
  ASSUME IInv, Answers, NEW t \in Task, CancelReturns(t) \/ QueryReturns(t)
  PROVE  /\ UNCHANGED <<exch, orders, index>> /\ OthersKeep(t) /\ task'[t].pc = "idle"
         /\ task[t].pc \in Holding
         /\ \E r \in Request, s \in Verdict, n \in 0 .. Quantity :
              /\ RequestKept(r)
              /\ \/ tracked'[r] = tracked[r]
                 \/ /\ Allowed(r, s) /\ tracked'[r].status = s
                    /\ tracked'[r].eid = tracked[r].eid /\ tracked[r].eid \in ExchangeOrder
                    /\ Agrees(s, n, exch[tracked[r].eid])
<1>1. PICK s \in Status, n \in 0 .. Quantity :
        /\ UNCHANGED <<exch, orders, index>> /\ OthersKeep(t)
        /\ task[t].req \in Request /\ task'[t].pc = "idle"
        /\ \/ /\ task[t].pc = "cancelDone"
              /\ s = "CANCELLED" /\ n = tracked[task[t].req].filled
              /\ Updated(t, s, tracked[task[t].req].eid, n)
           \/ /\ task[t].pc = "queried"
              /\ s = task[t].answer /\ n = task[t].filled
              /\ Updated(t, s, task[t].eid, n)
  BY AnswerEffect DEF IInv
<1> DEFINE r == task[t].req
           e == tracked[r].eid
<1>2. /\ e = task[t].eid /\ e \in ExchangeOrder /\ e # NoOrder
      /\ Find(task[t].key) \in {NoRequest, r} /\ task[t].pc \in Holding
  <2>1. task[t].pc \in Holding
    BY <1>1 DEF Holding
  <2>2. /\ e = task[t].eid /\ e \in ExchangeOrder
        /\ \E m \in 0 .. MaxRetries : task[t].key = <<r, m>>
    BY <2>1 DEF IInv, TypeInv, Held, HoldingTrue
  <2> QED
    BY <1>1, <2>1, <2>2, NoneAssumption DEF Find, IInv, KeysOwned, ExchangeOrder
<1>3. Updated(t, s, e, n) /\ s \in Verdict
  BY <1>1, <1>2 DEF Answers, Verdict
<1>4. Agrees(s, n, exch[e])
  <2>1. CASE task[t].pc = "queried"
    BY <1>1, <1>2, <2>1 DEF IInv, HoldingTrue
  <2>2. CASE task[t].pc = "cancelDone"
    BY <1>1, <1>2, <2>2 DEF IInv, HoldingTrue, TrackedTrue, Agrees
  <2> QED
    BY <1>1, <2>1, <2>2
<1>5. \A q \in Request : q # r => tracked'[q] = tracked[q]
  BY <1>1, <1>2, <1>3, NoneAssumption DEF Updated
<1>6. \/ tracked'[r] = tracked[r]
      \/ Allowed(r, s) /\ tracked'[r].status = s /\ tracked'[r].eid = e
  BY <1>1, <1>3 DEF Updated
<1>7. RequestKept(r)
  BY <1>5 DEF RequestKept
<1> HIDE DEF r
<1>8. r \in Request
  BY <1>1 DEF r
<1> QED
  BY <1>1, <1>2, <1>3, <1>4, <1>6, <1>7, <1>8

(* The acknowledged cancel of a sweep moves the order that was cancelled.  *)
LEMMA SweepMoves ==
  ASSUME NamesOrders, IInv, NEW t \in Task, SweepReturns(t)
  PROVE  /\ UNCHANGED <<exch, orders, index>> /\ OthersKeep(t)
         /\ task[t].pc = "sweepDone" /\ task'[t].pc \in {"idle", "sweep"}
         /\ \/ UNCHANGED tracked
            \/ \E r \in Request :
                 /\ RequestKept(r) /\ Allowed(r, "CANCELLED")
                 /\ tracked'[r].status = "CANCELLED"
                 /\ tracked'[r].eid = tracked[r].eid /\ tracked[r].eid \in ExchangeOrder
                 /\ Settled(exch[tracked[r].eid])
<1> DEFINE o == task[t].eid
           r == Find(Name(o))
<1>1. /\ UNCHANGED <<exch, orders, index>> /\ OthersKeep(t)
      /\ task[t].pc = "sweepDone" /\ task'[t].pc \in {"idle", "sweep"}
      /\ \/ UNCHANGED tracked
         \/ /\ r # NoRequest /\ Allowed(r, "CANCELLED")
            /\ tracked' = [tracked EXCEPT ![r].status = "CANCELLED"]
  BY SweepReturnsEffect DEF IInv, TypeInv
<1>2. CASE UNCHANGED tracked
  BY <1>1, <1>2
<1>3. CASE /\ r # NoRequest /\ Allowed(r, "CANCELLED")
           /\ tracked' = [tracked EXCEPT ![r].status = "CANCELLED"]
  <2>1. o \in ExchangeOrder /\ Settled(exch[o])
    BY <1>1 DEF IInv, TypeInv, Held, HoldingTrue
  <2>2. PICK q \in Request, n \in 1 .. MaxRetries : o = <<q, n>>
    BY <2>1 DEF ExchangeOrder
  <2>3. r = q /\ r = orders[<<q, n>>] /\ r \in Request
    BY <1>3, <2>2, RetriesAssumption DEF Find, Name, IInv, KeysOwned
  <2>4. tracked[r].status # "FAILED"
    BY <1>3 DEF Allowed, TRANSITIONS
  <2>5. tracked[r].eid = o
    BY <2>2, <2>3, <2>4 DEF IInv, KeysOwned
  <2>6. /\ tracked'[r].status = "CANCELLED" /\ RequestKept(r)
        /\ tracked'[r].eid = tracked[r].eid
    BY <1>3, <2>3, StatusEffect DEF IInv, TypeInv, Status
  <2> HIDE DEF r, o
  <2> QED
    BY <1>1, <1>3, <2>1, <2>3, <2>5, <2>6
<1> QED
  BY <1>1, <1>2, <1>3


(* How a status moves: the request is submitted, its submission fails, or  *)
(* the state machine has allowed a report or the beginning of a cancel.    *)
StatusMoves(r) ==
  \/ tracked[r].status = "NONE" /\ tracked'[r].status = "SUBMITTING"
  \/ tracked[r].status = "SUBMITTING" /\ tracked'[r].status = "FAILED"
  \/ /\ Allowed(r, tracked'[r].status)
     /\ tracked'[r].status \in Verdict \cup {"CANCELLING"}

(* Every step moves at most one status, and only that way. *)
LEMMA StepMovesOne ==
  ASSUME NamesOrders, IInv, Answers, [Next]_vars
  PROVE  \/ tracked' = tracked
         \/ \E r \in Request : RequestKept(r) /\ (tracked'[r] = tracked[r] \/ StatusMoves(r))
<1> DEFINE Goal == \/ tracked' = tracked
                   \/ \E r \in Request : /\ RequestKept(r)
                                         /\ tracked'[r] = tracked[r] \/ StatusMoves(r)
<1>1. TypeInv /\ TypeOK
  BY DEF IInv, TypeInv
<1>2. ASSUME NEW t \in Task, NEW r \in Request, PlaceOrder(t, r) PROVE Goal
  <2>1. index[r] = NoKey
    BY <1>2 DEF PlaceOrder
  <2>2. tracked[r].status = "NONE"
    BY <2>1 DEF IInv, Unused
  <2> QED
    BY <1>1, <1>2, <2>2, PlaceOrderEffect DEF StatusMoves
<1>3. ASSUME NEW t \in Task, PlaceReturns(t) PROVE Goal
  <2> DEFINE r == task[t].req
  <2>1. /\ r \in Request /\ task[t].pc = "placed" /\ RequestKept(r)
        /\ \/ tracked'[r].status = task[t].answer /\ Allowed(r, task[t].answer)
           \/ tracked'[r].status = "FAILED"
    BY <1>1, <1>3, PlaceReturnsEffect
  <2>2. tracked[r].status = "SUBMITTING" /\ task[t].answer \in Verdict
    BY <2>1 DEF IInv, PlacingAlone, Placing, Answers
  <2>3. StatusMoves(r)
    BY <2>1, <2>2 DEF StatusMoves
  <2> HIDE DEF r
  <2> QED
    BY <2>1, <2>3
<1>4. ASSUME NEW t \in Task, PlaceRefused(t) \/ PlaceInterrupted(t) PROVE Goal
  <2> DEFINE r == task[t].req
  <2>1. /\ r \in Request /\ task[t].pc \in Placing
        /\ \/ tracked' = tracked
           \/ RequestKept(r) /\ tracked'[r].status = "FAILED"
    BY <1>1, <1>4, PlaceFailsEffect
  <2>2. tracked[r].status = "SUBMITTING"
    BY <2>1 DEF IInv, PlacingAlone
  <2>3. tracked' = tracked \/ (RequestKept(r) /\ StatusMoves(r))
    BY <2>1, <2>2 DEF StatusMoves
  <2> HIDE DEF r
  <2> QED
    BY <2>1, <2>3
<1>5. ASSUME NEW t \in Task, NEW k \in OrderId, CancelOrder(t, k) PROVE Goal
  <2> DEFINE r == Find(k)
  <2>1. /\ r \in Request /\ RequestKept(r)
        /\ Allowed(r, "CANCELLING") /\ tracked'[r].status = "CANCELLING"
    BY <1>1, <1>5, CancelOrderEffect
  <2>2. StatusMoves(r)
    BY <2>1 DEF StatusMoves
  <2> HIDE DEF r
  <2> QED
    BY <2>1, <2>2
<1>6. ASSUME NEW t \in Task, CancelReturns(t) \/ QueryReturns(t) PROVE Goal
  <2>1. PICK r \in Request, s \in Verdict :
          /\ RequestKept(r)
          /\ tracked'[r] = tracked[r] \/ (Allowed(r, s) /\ tracked'[r].status = s)
    BY <1>6, AnswerMoves
  <2> QED
    BY <2>1 DEF StatusMoves
<1>7. ASSUME NEW t \in Task, SweepReturns(t) PROVE Goal
  <2>1. \/ UNCHANGED tracked
        \/ \E r \in Request : /\ RequestKept(r) /\ Allowed(r, "CANCELLED")
                              /\ tracked'[r].status = "CANCELLED"
    BY <1>7, SweepMoves
  <2> QED
    BY <2>1 DEF StatusMoves, Verdict
<1>8. ASSUME \/ \E t \in Task : \/ ExchangeAccepts(t) \/ PlaceRetries(t) \/ TakesCancel(t)
                                \/ CancelRefused(t) \/ CancelInterrupted(t)
                                \/ ExchangeReports(t) \/ CallEnds(t)
                                \/ CancelAllOrders(t) \/ SweepNext(t)
                                \/ SweepRefused(t) \/ SweepInterrupted(t)
                                \/ \E k \in OrderId : SyncOrder(t, k)
             \/ \E o \in ExchangeOrder : MovesByItself(o)
             \/ UNCHANGED vars
      PROVE  tracked' = tracked
  BY <1>8 DEF ExchangeAccepts, PlaceRetries, ExchangeCancels, CancelRefused, CancelInterrupted,
     TakesCancel, ExchangeAcknowledges, MovesByItself, ExchangeDecides, CallEnds, CancelRaises, QueryNotFound,
     AskForState, ExchangeReports, CancelTimesOut, QueryFails, SweepEnds, CancelAllOrders,
     SweepNext, SweepRefused, SweepInterrupted, SyncOrder, ExchangeFills, Raise, vars
<1> QED
  BY <1>2, <1>3, <1>4, <1>5, <1>6, <1>7, <1>8 DEF Next, Call, Proceed, Fault, TakesCancel, MovesByItself, CallEnds

(* The phase of a status. *)
LEMMA PhaseOf ==
  /\ Phase("NONE") = "new" /\ Phase("SUBMITTING") = "submitting" /\ Phase("FAILED") = "failed"
  /\ Phase("FILLED") = "filled" /\ Phase("CANCELLED") = "cancelled"
  /\ Phase("REJECTED") = "rejected"
  /\ \A s \in {"OPEN", "PARTIALLY_FILLED", "CANCELLING", "PENDING"} : Phase(s) = "working"
BY DEF Phase

(* The moves of a request in its lifecycle. *)
LEMMA PhasesMove ==
  ASSUME NEW r \in Request, StatusMoves(r)
  PROVE  LET p == Phase(tracked[r].status)
             q == Phase(tracked'[r].status)
         IN  \/ p = "new" /\ q = "submitting"
             \/ p = "submitting" /\ q \in {"working", "filled", "rejected", "failed"}
             \/ p = "working" /\ q \in {"working", "filled", "cancelled"}
<1>1. CASE tracked[r].status = "NONE" /\ tracked'[r].status = "SUBMITTING"
  BY <1>1, PhaseOf
<1>2. CASE tracked[r].status = "SUBMITTING" /\ tracked'[r].status = "FAILED"
  BY <1>2, PhaseOf
<1>3. ASSUME NEW x, NEW y, x = tracked[r].status, y = tracked'[r].status,
             Allowed(r, y), y \in Verdict \cup {"CANCELLING"}
      PROVE  \/ Phase(x) = "submitting" /\ Phase(y) \in {"working", "filled", "rejected", "failed"}
             \/ Phase(x) = "working" /\ Phase(y) \in {"working", "filled", "cancelled"}
  <2>1. \/ x = "SUBMITTING" /\ y \in {"OPEN", "PARTIALLY_FILLED", "FILLED", "REJECTED"}
        \/ /\ x \in {"OPEN", "PARTIALLY_FILLED", "CANCELLING"}
           /\ y \in {"PARTIALLY_FILLED", "FILLED", "CANCELLING", "CANCELLED"}
    BY <1>3 DEF Allowed, TRANSITIONS, Verdict
  <2> QED
    BY <2>1, PhaseOf
<1> QED
  BY <1>1, <1>2, <1>3 DEF StatusMoves


-----------------------------------------------------------------------------
(* The request index.                                                      *)

(* A request whose index entry leads to its order keeps it while other     *)
(* entries of the order table move.                                        *)
LEMMA IndexKept ==
  ASSUME IInv, OwnResult, NEW r \in Request, NEW q \in Request, q # r, index[q] # NoKey,
         index'[q] = index[q],
         \A k \in OrderId : k # LocalId(r) /\ (\A n \in 1 .. MaxRetries : k # <<r, n>>) =>
           orders'[k] = orders[k]
  PROVE  orders'[index'[q]] = q
<1>1. index[q] \in OrderId /\ orders[index[q]] = q
  BY DEF IInv, TypeInv, TypeOK, OwnResult
<1>2. index[q] # LocalId(r)
  <2>1. orders[LocalId(r)] \in {NoRequest, r}
    BY RetriesAssumption DEF IInv, KeysOwned, LocalId
  <2> QED
    BY <1>1, <2>1, NoneAssumption
<1>3. ASSUME NEW n \in 1 .. MaxRetries PROVE index[q] # <<r, n>>
  <2>1. orders[<<r, n>>] \in {NoRequest, r}
    BY RetriesAssumption DEF IInv, KeysOwned
  <2> QED
    BY <1>1, <2>1, NoneAssumption
<1> QED
  BY <1>1, <1>2, <1>3

LEMMA OwnResultStep == ASSUME NamesOrders, IInv, OwnResult, [Next]_vars PROVE OwnResult'
<1>1. TypeInv /\ TypeOK
  BY DEF IInv, TypeInv
<1>2. ASSUME NEW t \in Task, NEW r \in Request, PlaceOrder(t, r) PROVE OwnResult'
  <2>1. /\ orders' = [orders EXCEPT ![LocalId(r)] = r]
        /\ index' = [index EXCEPT ![r] = LocalId(r)]
    BY <1>2 DEF PlaceOrder
  <2>2. orders'[LocalId(r)] = r /\ index'[r] = LocalId(r)
    BY <1>1, <2>1, KeyOf DEF TypeOK
  <2>3. ASSUME NEW q \in Request, q # r, index'[q] # NoKey PROVE orders'[index'[q]] = q
    <3>1. index'[q] = index[q]
      BY <1>1, <2>1, <2>3 DEF TypeOK
    <3>2. \A k \in OrderId : k # LocalId(r) => orders'[k] = orders[k]
      BY <1>1, <2>1 DEF TypeOK
    <3> QED
      BY <2>3, <3>1, <3>2, IndexKept
  <2> QED
    BY <2>2, <2>3 DEF OwnResult
<1>3. ASSUME NEW t \in Task, PlaceReturns(t) PROVE OwnResult'
  <2>1. PICK r \in Request : r = task[t].req
    BY <1>1, <1>3, PlaceReturnsEffect
  <2>2. PICK o \in ExchangeOrder : o = task[t].eid /\ o = <<r, task[t].attempt>>
    BY <1>1, <1>3, <2>1, PlaceReturnsEffect
  <2>3. /\ orders' = [orders EXCEPT ![LocalId(r)] = NoRequest, ![o] = r]
        /\ index' = [index EXCEPT ![r] = o]
    BY <1>3, <2>1, <2>2 DEF PlaceReturns, Name
  <2>4. PICK n \in 1 .. MaxRetries : o = <<r, n>>
    BY <2>2 DEF ExchangeOrder
  <2>5. o \in OrderId /\ o # LocalId(r)
    BY <2>4, KeyOf
  <2>6. orders'[o] = r /\ index'[r] = o
    BY <1>1, <2>3, <2>5 DEF TypeOK
  <2>7. ASSUME NEW q \in Request, q # r, index'[q] # NoKey PROVE orders'[index'[q]] = q
    <3>1. index'[q] = index[q]
      BY <1>1, <2>3, <2>7 DEF TypeOK
    <3>2. \A k \in OrderId : k # LocalId(r) /\ k # o => orders'[k] = orders[k]
      BY <1>1, <2>3 DEF TypeOK
    <3> QED
      BY <2>4, <2>7, <3>1, <3>2, IndexKept
  <2> QED
    BY <2>6, <2>7 DEF OwnResult
<1>4. ASSUME NEW t \in Task,
             \/ ExchangeAccepts(t) \/ PlaceRefused(t) \/ PlaceInterrupted(t) \/ PlaceRetries(t)
             \/ TakesCancel(t) \/ CancelRefused(t) \/ CancelInterrupted(t)
             \/ ExchangeReports(t) \/ CallEnds(t) \/ CancelAllOrders(t) \/ SweepNext(t)
             \/ SweepRefused(t) \/ SweepInterrupted(t) \/ SweepReturns(t)
             \/ \E k \in OrderId : SyncOrder(t, k) \/ CancelOrder(t, k)
      PROVE  OwnResult'
  <2>1. UNCHANGED <<orders, index>>
    BY <1>4 DEF ExchangeAccepts, PlaceRefused, PlaceInterrupted, PlaceRetries, ExchangeCancels,
       TakesCancel, ExchangeAcknowledges, CallEnds, CancelRaises, QueryNotFound,
       CancelRefused, CancelInterrupted, AskForState, ExchangeReports, CancelTimesOut,
       QueryFails, SweepEnds, CancelAllOrders, SweepNext, SweepRefused, SweepInterrupted,
       SweepReturns, SyncOrder, CancelOrder, Raise
  <2> QED
    BY <2>1 DEF OwnResult
<1>5. ASSUME NEW t \in Task, CancelReturns(t) \/ QueryReturns(t) PROVE OwnResult'
  <2>1. UNCHANGED <<orders, index>>
    BY <1>1, <1>5, AnswerEffect
  <2> QED
    BY <2>1 DEF OwnResult
<1>6. ASSUME NEW o \in ExchangeOrder, MovesByItself(o) PROVE OwnResult'
  BY <1>6 DEF MovesByItself, ExchangeFills, ExchangeDecides, OwnResult
<1>7. CASE UNCHANGED vars
  BY <1>7 DEF vars, OwnResult
<1> QED
  BY <1>2, <1>3, <1>4, <1>5, <1>6, <1>7 DEF Next, Call, Proceed, Fault, TakesCancel, MovesByItself, CallEnds

LEMMA InitLifeInv == Init => LifeInv
<1> SUFFICES ASSUME Init PROVE LifeInv
  OBVIOUS
<1>1. Answers
  BY DEF Init, Idle, Answers
<1>2. OwnResult
  BY DEF Init, OwnResult
<1> QED
  BY <1>1, <1>2, InitIInv DEF LifeInv

LEMMA StepLifeInv == ASSUME NamesOrders PROVE LifeInv /\ [Next]_vars => LifeInv'
BY StepIInv, AnswersStep, OwnResultStep DEF LifeInv

LEMMA LifeInvariant == ASSUME NamesOrders PROVE Spec => []LifeInv
BY InitLifeInv, StepLifeInv, PTL DEF Spec

(* place_order's idempotency: through the request index and the re-keyed   *)
(* order table a repeated request_id gets the result of its own order, and *)
(* no other request's, however the retries and re-keyings interleave.      *)
THEOREM RequestFindsOwnOrder == ASSUME NamesOrders PROVE Spec => []OwnResult
<1>1. LifeInv => OwnResult
  BY DEF LifeInv
<1> QED
  BY <1>1, LifeInvariant, PTL

(* ExecutionEngine: whatever coroutines place, cancel, sync and sweep, a   *)
(* request is submitted once, settles at most once, and an outcome that    *)
(* was reported is never replaced.                                         *)
THEOREM EngineFollowsLifecycle == ASSUME NamesOrders PROVE Spec => ImplementsLifecycle
<1> DEFINE phase == [r \in Request |-> Phase(tracked[r].status)]
<1>1. Init => Lifecycle!Init
  <2> SUFFICES ASSUME Init PROVE Lifecycle!Init
    OBVIOUS
  <2>1. \A r \in Request : Phase(tracked[r].status) = "new"
    BY PhaseOf DEF Init, Untracked
  <2> QED
    BY <2>1 DEF Lifecycle!Init
<1>2. LifeInv /\ [Next]_vars => [Lifecycle!Next]_phase
  <2> SUFFICES ASSUME LifeInv, [Next]_vars PROVE Lifecycle!Next \/ phase' = phase
    OBVIOUS
  <2>1. CASE tracked' = tracked
    BY <2>1
  <2>2. ASSUME NEW r \in Request, RequestKept(r), tracked'[r] = tracked[r] \/ StatusMoves(r)
        PROVE  Lifecycle!Next \/ phase' = phase
    <3> DEFINE p == Phase(tracked[r].status)
               q == Phase(tracked'[r].status)
    <3>1. phase[r] = p /\ phase' = [phase EXCEPT ![r] = q]
      BY <2>2 DEF RequestKept
    <3>2. CASE q = p
      <4>1. \A u \in Request : Phase(tracked'[u].status) = Phase(tracked[u].status)
        BY <2>2, <3>2 DEF RequestKept
      <4> QED
        BY <4>1
    <3>3. CASE q # p
      <4>1. \/ p = "new" /\ q = "submitting"
            \/ p = "submitting" /\ q \in {"working", "filled", "rejected", "failed"}
            \/ p = "working" /\ q \in {"filled", "cancelled"}
        BY <2>2, <3>3, PhasesMove
      <4> HIDE DEF p, q, phase
      <4>2. \/ Lifecycle!Submit(r) \/ Lifecycle!Accept(r)
            \/ Lifecycle!Conclude(r) \/ Lifecycle!Settle(r)
        BY <3>1, <4>1 DEF Lifecycle!Submit, Lifecycle!Accept, Lifecycle!Conclude,
           Lifecycle!Settle, phase
      <4> QED
        BY <4>2 DEF Lifecycle!Next
    <3> QED
      BY <3>2, <3>3
  <2> QED
    BY <2>1, <2>2, StepMovesOne DEF LifeInv
<1> QED
  BY <1>1, <1>2, LifeInvariant, PTL DEF Spec, ImplementsLifecycle, Lifecycle!Spec


-----------------------------------------------------------------------------
(* What holds when every call is answered: without faults a placement is   *)
(* never repeated, so the exchange has no order the engine gave up on.     *)

FirstAttempts == /\ \A t \in Task : task[t].pc \in Placing => /\ task[t].attempt = 1
                                                              /\ task[t].pc # "backoff"
                 /\ \A r \in Request, n \in 1 .. MaxRetries :
                      n # 1 => exch[<<r, n>>].phase = "absent"

(* A placement answered "pending" is remembered as one. *)
PendingTold == \A t \in Task :
  task[t].pc = "placed" /\ task[t].answer = "PENDING" => exch[task[t].eid].told # "nothing"

LosslessInv == IInv /\ Answers /\ FirstAttempts /\ NoForgottenOrder /\ PendingTold

(* The step of the exchange that takes an order. *)
LEMMA AcceptLossless ==
  ASSUME LosslessInv, IInv', Answers', NEW t \in Task, ExchangeAccepts(t)
  PROVE  LosslessInv'
<1>1. \E x \in ExchangeRecord :
        /\ TypeOK' /\ UNCHANGED <<orders, index, tracked>> /\ OthersKeep(t) /\ CallKept(t)
        /\ <<task[t].req, task[t].attempt>> \in ExchangeOrder
        /\ task[t].pc = "place" /\ task[t].req \in Request
        /\ exch' = [exch EXCEPT ![<<task[t].req, task[t].attempt>>] = x]
        /\ task'[t].pc = "placed" /\ task'[t].eid = <<task[t].req, task[t].attempt>>
        /\ AnswersFor(x, task'[t].answer, task'[t].filled)
  <2>1. TypeInv
    BY DEF LosslessInv, IInv
  <2> QED
    BY <2>1, AcceptEffect
<1>2. PICK o \in ExchangeOrder, x \in ExchangeRecord :
        /\ o = <<task[t].req, task[t].attempt>>
        /\ TypeOK' /\ UNCHANGED <<orders, index, tracked>> /\ OthersKeep(t) /\ CallKept(t)
        /\ task[t].pc = "place" /\ task[t].req \in Request
        /\ exch' = [exch EXCEPT ![o] = x]
        /\ task'[t].pc = "placed" /\ task'[t].eid = o
        /\ AnswersFor(x, task'[t].answer, task'[t].filled)
  BY <1>1
<1>3. task[t].attempt = 1
  BY <1>2 DEF LosslessInv, FirstAttempts, Placing
<1>4. \A p \in ExchangeOrder : p # o => exch'[p] = exch[p]
  BY <1>2 DEF LosslessInv, IInv, TypeInv, TypeOK
<1>5. FirstAttempts'
  <2>1. ASSUME NEW u \in Task, task'[u].pc \in Placing
        PROVE  task'[u].attempt = 1 /\ task'[u].pc # "backoff"
    BY <1>2, <1>3, <2>1 DEF LosslessInv, FirstAttempts, OthersKeep, CallKept
  <2>2. ASSUME NEW r \in Request, NEW n \in 1 .. MaxRetries, n # 1
        PROVE  exch'[<<r, n>>].phase = "absent"
    <3>1. <<r, n>> \in ExchangeOrder /\ <<r, n>> # o
      BY <1>2, <1>3, <2>2, KeyOf
    <3> QED
      BY <1>4, <2>2, <3>1 DEF LosslessInv, FirstAttempts
  <2> QED
    BY <2>1, <2>2 DEF FirstAttempts
<1>6. NoForgottenOrder'
  <2> SUFFICES ASSUME NEW p \in ExchangeOrder, Working(p)'
               PROVE  \/ tracked'[p[1]].eid = p /\ tracked'[p[1]].status \in Active
                      \/ \E u \in Task : task'[u].pc = "placed" /\ task'[u].eid = p
                      \/ exch'[p].told # "nothing"
    BY DEF NoForgottenOrder
  <2>1. CASE p = o
    BY <1>2, <2>1
  <2>2. CASE p # o
    <3>1. Working(p)
      BY <1>4, <2>2 DEF Working
    <3>2. \A u \in Task : task[u].pc = "placed" => task'[u] = task[u]
      BY <1>2 DEF OthersKeep
    <3> QED
      BY <1>2, <1>4, <2>2, <3>1, <3>2 DEF LosslessInv, NoForgottenOrder
  <2> QED
    BY <2>1, <2>2
<1>7. PendingTold'
  <2> SUFFICES ASSUME NEW u \in Task, task'[u].pc = "placed", task'[u].answer = "PENDING"
               PROVE  exch'[task'[u].eid].told # "nothing"
    BY DEF PendingTold
  <2>1. exch'[o] = x
    BY <1>2 DEF LosslessInv, IInv, TypeInv, TypeOK
  <2>2. CASE u = t
    <3>1. Reported(x) = "PENDING" /\ (x.phase = "pending" => x.told = "pending")
      BY <1>2, <2>2 DEF AnswersFor
    <3>2. x.phase = "pending"
      BY <3>1 DEF Reported
    <3> QED
      BY <1>2, <2>1, <2>2, <3>1, <3>2
  <2>3. CASE u # t
    <3>1. task'[u] = task[u]
      BY <1>2, <2>3 DEF OthersKeep
    <3>2. /\ task[u].eid = <<task[u].req, task[u].attempt>> /\ task[u].req \in Request
          /\ task[u].attempt # 0 /\ task[u].attempt \in 0 .. MaxRetries
      BY <3>1 DEF LosslessInv, IInv, TypeInv, TypeOK, TaskRecord, Held, Placing
    <3>3. task[u].eid \in ExchangeOrder
      BY <3>2, RetriesAssumption DEF ExchangeOrder
    <3>4. exch[task[u].eid].phase # "absent"
      BY <3>1 DEF LosslessInv, IInv, PlacingAlone, Placing
    <3>5. exch[o].phase = "absent"
      BY <1>2, <1>3, RetriesAssumption DEF LosslessInv, IInv, PlacingAlone, Placing
    <3>6. exch'[task[u].eid] = exch[task[u].eid]
      BY <1>4, <3>3, <3>4, <3>5
    <3> QED
      BY <3>1, <3>6 DEF LosslessInv, PendingTold
  <2> QED
    BY <2>2, <2>3
<1> QED
  BY <1>5, <1>6, <1>7 DEF LosslessInv

(* A step that takes no order of its own, and sends none, keeps the        *)
(* attempts.                                                               *)
LEMMA FirstAttemptsKept ==
  ASSUME LosslessInv,
         \A r \in Request, n \in 1 .. MaxRetries :
           exch[<<r, n>>].phase = "absent" => exch'[<<r, n>>].phase = "absent",
         \A u \in Task : \/ task'[u] = task[u]
                         \/ task'[u].pc \notin Placing
                         \/ task'[u].attempt = 1 /\ task'[u].pc # "backoff"
  PROVE  FirstAttempts'
<1>1. \A u \in Task : task'[u].pc \in Placing => task'[u].attempt = 1 /\ task'[u].pc # "backoff"
  BY DEF LosslessInv, FirstAttempts
<1>2. \A r \in Request, n \in 1 .. MaxRetries : n # 1 => exch'[<<r, n>>].phase = "absent"
  BY DEF LosslessInv, FirstAttempts
<1> QED
  BY <1>1, <1>2 DEF FirstAttempts


(* What the exchange says is over it no longer works on, unless it only    *)
(* said that it was cancelled.                                             *)
LEMMA VerdictActive ==
  ASSUME NEW s \in Verdict, NEW n, NEW o \in ExchangeOrder, Agrees(s, n, exch[o]), Working(o)
  PROVE  s \in Active \/ exch[o].told # "nothing"
<1>1. exch[o].phase \in {"live", "pending"} /\ exch[o].filled # Quantity
  BY QuantityAssumption DEF Working
<1> QED
  BY <1>1 DEF Agrees, Settled, Verdict, Active

(* A step of a coroutine that is not about to receive the answer to its    *)
(* placement loses no order: it moves the status of a request whose order  *)
(* is not on the exchange, is over there, or is still worked on.           *)
LEMMA EngineLossless ==
  ASSUME LosslessInv, IInv', Answers', exch' = exch, NEW t \in Task, OthersKeep(t),
         task[t].pc # "placed",
         task'[t].pc \in Placing => task'[t].attempt = 1 /\ task'[t].pc = "place",
         \A q \in Request :
           \/ tracked'[q] = tracked[q]
           \/ tracked[q].eid = NoOrder
           \/ /\ tracked'[q].eid = tracked[q].eid
              /\ \/ tracked'[q].status \in Active \/ ~Working(tracked[q].eid)
                 \/ exch[tracked[q].eid].told # "nothing"
  PROVE  LosslessInv'
<1>1. FirstAttempts'
  BY DEF LosslessInv, FirstAttempts, OthersKeep
<1>2. NoForgottenOrder'
  <2> SUFFICES ASSUME NEW o \in ExchangeOrder, Working(o)'
               PROVE  \/ tracked'[o[1]].eid = o /\ tracked'[o[1]].status \in Active
                      \/ \E u \in Task : task'[u].pc = "placed" /\ task'[u].eid = o
                      \/ exch'[o].told # "nothing"
    BY DEF NoForgottenOrder
  <2>1. Working(o)
    BY DEF Working
  <2>2. CASE \E u \in Task : task[u].pc = "placed" /\ task[u].eid = o
    BY <2>2 DEF OthersKeep
  <2>3. CASE tracked[o[1]].eid = o /\ tracked[o[1]].status \in Active
    <3>1. o[1] \in Request /\ o # NoOrder
      BY NoneAssumption DEF ExchangeOrder
    <3> QED
      BY <2>1, <2>3, <3>1
  <2> QED
    BY <2>1, <2>2, <2>3 DEF LosslessInv, NoForgottenOrder
<1>3. PendingTold'
  BY DEF LosslessInv, PendingTold, OthersKeep, Placing
<1> QED
  BY <1>1, <1>2, <1>3 DEF LosslessInv

(* The answer to a placement: the order it reports as open is tracked.     *)
LEMMA PlaceReturnsLossless ==
  ASSUME NamesOrders, LosslessInv, IInv', Answers', NEW t \in Task, PlaceReturns(t)
  PROVE  LosslessInv'
<1>1. TypeInv
  BY DEF LosslessInv, IInv
<1>2. PICK r \in Request : r = task[t].req
  BY <1>1, PlaceReturnsEffect
<1>3. /\ exch' = exch /\ OthersKeep(t) /\ RequestKept(r)
      /\ task[t].pc = "placed" /\ task'[t].pc = "idle" /\ task[t].eid \in ExchangeOrder
      /\ task[t].eid = <<r, task[t].attempt>>
      /\ \/ /\ tracked'[r].status = task[t].answer
            /\ Allowed(r, task[t].answer)
            /\ tracked'[r].eid = task[t].eid
         \/ tracked'[r].status = "FAILED"
  BY <1>1, <1>2, PlaceReturnsEffect
<1>4. /\ tracked[r].eid = NoOrder /\ tracked[r].status = "SUBMITTING"
      /\ task[t].answer \in Verdict
      /\ Agrees(task[t].answer, task[t].filled, exch[task[t].eid])
      /\ \A u \in Task : task[u].pc \in Placing /\ task[u].req = r => u = t
  BY <1>2, <1>3 DEF LosslessInv, IInv, PlacingAlone, Placing, Answers
<1>5. FirstAttempts'
  BY <1>3 DEF LosslessInv, FirstAttempts, OthersKeep, Placing
<1>6. ASSUME Working(task[t].eid), exch[task[t].eid].told = "nothing"
      PROVE  tracked'[r].eid = task[t].eid /\ tracked'[r].status \in Active
  <2>1. task[t].answer \in Active /\ task[t].answer # "PENDING"
    BY <1>3, <1>4, <1>6, VerdictActive DEF LosslessInv, PendingTold
  <2>2. task[t].answer \in {"OPEN", "PARTIALLY_FILLED"}
    BY <1>4, <2>1 DEF Verdict, Active
  <2>3. Allowed(r, task[t].answer)
    BY <1>4, <2>2 DEF Allowed, TRANSITIONS
  <2>4. PlaceReturns(t) => tracked' = [tracked EXCEPT ![r] =
                 [status |-> task[t].answer, eid |-> task[t].eid, filled |-> task[t].filled]]
    BY <1>2, <2>3 DEF PlaceReturns
  <2> QED
    BY <1>1, <2>1, <2>4 DEF TypeInv, TypeOK
<1>7. NoForgottenOrder'
  <2> SUFFICES ASSUME NEW o \in ExchangeOrder, Working(o)'
               PROVE  \/ tracked'[o[1]].eid = o /\ tracked'[o[1]].status \in Active
                      \/ \E u \in Task : task'[u].pc = "placed" /\ task'[u].eid = o
                      \/ exch'[o].told # "nothing"
    BY DEF NoForgottenOrder
  <2>1. Working(o)
    BY <1>3 DEF Working
  <2>2. o[1] \in Request /\ o # NoOrder
    BY NoneAssumption DEF ExchangeOrder
  <2>3. CASE o = task[t].eid
    BY <1>3, <1>6, <2>1, <2>3
  <2>4. CASE o # task[t].eid /\ tracked[o[1]].eid = o /\ tracked[o[1]].status \in Active
    <3>1. o[1] # r
      BY <1>4, <2>2, <2>4
    <3> QED
      BY <1>3, <2>2, <2>4, <3>1 DEF RequestKept
  <2>5. ASSUME NEW u \in Task, task[u].pc = "placed", task[u].eid = o, o # task[t].eid
        PROVE  task'[u].pc = "placed" /\ task'[u].eid = o
    BY <1>3, <2>5 DEF OthersKeep
  <2> QED
    BY <1>3, <2>1, <2>3, <2>4, <2>5 DEF LosslessInv, NoForgottenOrder
<1>8. PendingTold'
  BY <1>3 DEF LosslessInv, PendingTold, OthersKeep
<1> QED
  BY <1>5, <1>7, <1>8 DEF LosslessInv

(* A cancel or a fill on the exchange starts no work. *)
LEMMA ExchangeLossless ==
  ASSUME LosslessInv, IInv', Answers',
         \/ \E t \in Task : TakesCancel(t)
         \/ \E o \in ExchangeOrder : MovesByItself(o)
  PROVE  LosslessInv'
<1>1. TypeInv /\ TypeOK
  BY DEF LosslessInv, IInv, TypeInv
<1>2. /\ tracked' = tracked
      /\ \E p \in ExchangeOrder :
           /\ \A q \in ExchangeOrder \ {p} : exch'[q] = exch[q]
           /\ exch[p].phase # "absent" /\ exch'[p].phase # "absent"
           /\ Working(p)' => Working(p)
           /\ exch'[p].told \in {exch[p].told, "cancelled"}
      /\ \A u \in Task : task[u].pc \in Placing \/ task'[u].pc \in Placing => task'[u] = task[u]
  <2>1. ASSUME NEW t \in Task, TakesCancel(t) PROVE <1>2!:
    <3>1. PICK p \in ExchangeOrder : p = task[t].eid
      BY <1>1, <2>1, TakesCancelEffect
    <3>2. PICK x \in ExchangeRecord :
            /\ tracked' = tracked /\ OthersKeep(t) /\ exch[p].phase # "absent"
            /\ exch' = [exch EXCEPT ![p] = x] /\ x.filled = exch[p].filled
            /\ x.phase = exch[p].phase \/ (Working(p) /\ x.phase # "absent")
            /\ x.told = exch[p].told \/ x.told = "cancelled"
            /\ \/ task[t].pc = "cancel" /\ task'[t].pc = "cancelDone"
               \/ task[t].pc = "sweepCancel" /\ task'[t].pc = "sweepDone"
      BY <1>1, <2>1, <3>1, TakesCancelEffect
    <3>3. (\A q \in ExchangeOrder \ {p} : exch'[q] = exch[q]) /\ exch'[p] = x
      BY <1>1, <3>2 DEF TypeOK
    <3>4. \A u \in Task : task[u].pc \in Placing \/ task'[u].pc \in Placing => task'[u] = task[u]
      BY <3>2 DEF OthersKeep, Placing
    <3>5. Working(p)' => Working(p)
      BY <3>2, <3>3 DEF Working
    <3> QED
      BY <3>2, <3>3, <3>4, <3>5
  <2>2. ASSUME NEW p \in ExchangeOrder, MovesByItself(p) PROVE <1>2!:
    <3>1. PICK x \in ExchangeRecord :
            /\ UNCHANGED <<tracked, task>> /\ Working(p)
            /\ exch' = [exch EXCEPT ![p] = x] /\ x.phase # "absent" /\ x.told = exch[p].told
      BY <1>1, <2>2, MovesByItselfEffect
    <3>2. (\A q \in ExchangeOrder \ {p} : exch'[q] = exch[q]) /\ exch'[p] = x
      BY <1>1, <3>1 DEF TypeOK
    <3>3. exch[p].phase # "absent"
      BY <3>1 DEF Working
    <3> QED
      BY <3>1, <3>2, <3>3
  <2> QED
    BY <2>1, <2>2
<1>3. \A o \in ExchangeOrder : Working(o)' => Working(o)
  BY <1>2 DEF Working
<1>4. \A o \in ExchangeOrder : /\ exch[o].phase = "absent" => exch'[o].phase = "absent"
                               /\ exch[o].told # "nothing" => exch'[o].told # "nothing"
  BY <1>2
<1>5. FirstAttempts'
  <2>1. \A r \in Request, n \in 1 .. MaxRetries : <<r, n>> \in ExchangeOrder
    BY KeyOf
  <2> QED
    BY <1>2, <1>4, <2>1, FirstAttemptsKept
<1>6. NoForgottenOrder'
  <2>1. \A u \in Task : task[u].pc = "placed" => task'[u] = task[u]
    BY <1>2 DEF Placing
  <2> QED
    BY <1>2, <1>3, <1>4, <2>1 DEF LosslessInv, NoForgottenOrder
<1>7. PendingTold'
  <2> SUFFICES ASSUME NEW u \in Task, task'[u].pc = "placed", task'[u].answer = "PENDING"
               PROVE  exch'[task'[u].eid].told # "nothing"
    BY DEF PendingTold
  <2>1. task'[u] = task[u]
    BY <1>2 DEF Placing
  <2>2. /\ task[u].eid = <<task[u].req, task[u].attempt>> /\ task[u].req \in Request
        /\ task[u].attempt # 0 /\ task[u].attempt \in 0 .. MaxRetries
    BY <1>1, <2>1 DEF TypeInv, TypeOK, TaskRecord, Held, Placing
  <2>3. task[u].eid \in ExchangeOrder
    BY <2>2, RetriesAssumption DEF ExchangeOrder
  <2>4. exch[task[u].eid].told # "nothing"
    BY <2>1 DEF LosslessInv, PendingTold
  <2>5. exch'[task[u].eid].told # "nothing"
    BY <1>4, <2>3, <2>4
  <2> QED
    BY <2>1, <2>5
<1> QED
  BY <1>5, <1>6, <1>7 DEF LosslessInv


LEMMA StepLossless ==
  ASSUME NamesOrders, ~ExchangeFaults PROVE LosslessInv /\ [Next]_vars => LosslessInv'
<1> SUFFICES ASSUME LosslessInv, [Next]_vars PROVE LosslessInv'
  OBVIOUS
<1>1. IInv /\ TypeInv /\ TypeOK /\ Answers
  BY DEF LosslessInv, IInv, TypeInv
<1>2. IInv' /\ Answers'
  BY <1>1, StepIInv, AnswersStep
<1>3. ASSUME NEW t \in Task, NEW r \in Request, PlaceOrder(t, r) PROVE LosslessInv'
  <2>1. /\ exch' = exch /\ OthersKeep(t) /\ RequestKept(r)
        /\ task'[t].pc = "place" /\ task'[t].attempt = 1
    BY <1>1, <1>3, PlaceOrderEffect
  <2>2. task[t].pc = "idle" /\ index[r] = NoKey
    BY <1>3 DEF PlaceOrder
  <2>3. tracked[r].eid = NoOrder
    BY <1>1, <2>2 DEF IInv, Unused
  <2> QED
    BY <1>2, <2>1, <2>2, <2>3, EngineLossless DEF RequestKept
<1>4. ASSUME NEW t \in Task, PlaceRefused(t) PROVE LosslessInv'
  <2>1. task[t].pc = "place"
    BY <1>4 DEF PlaceRefused
  <2>2. PICK r \in Request : r = task[t].req
    BY <1>1, <1>4, PlaceFailsEffect
  <2>3. exch' = exch /\ OthersKeep(t) /\ Finish(t)
    BY <1>1, <1>4, PlaceFailsEffect DEF PlaceRefused
  <2>4. task'[t].pc = "idle"
    BY <1>1, <2>3, FinishEffect
  <2>5. tracked[r].eid = NoOrder /\ RequestKept(r)
    BY <1>1, <1>4, <2>1, <2>2 DEF IInv, PlacingAlone, Placing, PlaceRefused, TypeOK, RequestKept
  <2> QED
    BY <1>2, <2>1, <2>3, <2>4, <2>5, EngineLossless DEF RequestKept, Placing
<1>5. ASSUME NEW t \in Task, PlaceRetries(t) PROVE FALSE
  BY <1>5 DEF PlaceRetries, LosslessInv, FirstAttempts, Placing
<1>6. ASSUME NEW t \in Task, NEW k \in OrderId, CancelOrder(t, k) PROVE LosslessInv'
  <2>1. PICK r \in Request : r = Find(k)
    BY <1>1, <1>6, CancelOrderEffect
  <2>2. /\ exch' = exch /\ OthersKeep(t) /\ RequestKept(r) /\ task'[t].pc = "cancel"
        /\ tracked'[r].status = "CANCELLING" /\ tracked'[r].eid = tracked[r].eid
    BY <1>1, <1>6, <2>1, CancelOrderEffect
  <2>3. task[t].pc = "idle"
    BY <1>6 DEF CancelOrder
  <2> QED
    BY <1>2, <2>2, <2>3, EngineLossless DEF RequestKept, Active, Placing
<1>7. ASSUME NEW t \in Task, CancelReturns(t) \/ QueryReturns(t) PROVE LosslessInv'
  <2>1. exch' = exch /\ OthersKeep(t) /\ task'[t].pc = "idle" /\ task[t].pc \in Holding
    BY <1>1, <1>7, AnswerMoves
  <2>2. PICK r \in Request, s \in Verdict, n \in 0 .. Quantity :
              /\ RequestKept(r)
              /\ \/ tracked'[r] = tracked[r]
                 \/ /\ tracked'[r].status = s
                    /\ tracked'[r].eid = tracked[r].eid /\ tracked[r].eid \in ExchangeOrder
                    /\ Agrees(s, n, exch[tracked[r].eid])
    BY <1>1, <1>7, AnswerMoves
  <2>3. \/ tracked'[r] = tracked[r]
        \/ /\ tracked'[r].eid = tracked[r].eid
           /\ \/ tracked'[r].status \in Active \/ ~Working(tracked[r].eid)
              \/ exch[tracked[r].eid].told # "nothing"
    BY <2>2, VerdictActive
  <2> QED
    BY <1>2, <2>1, <2>2, <2>3, EngineLossless DEF RequestKept, Holding, Placing
<1>8. ASSUME NEW t \in Task, SweepReturns(t) PROVE LosslessInv'
  <2>1. /\ exch' = exch /\ OthersKeep(t)
        /\ task[t].pc = "sweepDone" /\ task'[t].pc \in {"idle", "sweep"}
    BY <1>1, <1>8, SweepMoves
  <2>2. \/ tracked' = tracked
        \/ \E r \in Request : /\ RequestKept(r) /\ tracked'[r].eid = tracked[r].eid
                              /\ Settled(exch[tracked[r].eid])
    BY <1>1, <1>8, SweepMoves
  <2>3. \A q \in Request : \/ tracked'[q] = tracked[q]
                           \/ /\ tracked'[q].eid = tracked[q].eid
                              /\ \/ ~Working(tracked[q].eid)
                                 \/ exch[tracked[q].eid].told # "nothing"
    BY <2>2 DEF RequestKept, Working, Settled
  <2> QED
    BY <1>2, <2>1, <2>3, EngineLossless DEF Placing
<1>9. ASSUME NEW t \in Task, UNCHANGED <<exch, tracked>>, OthersKeep(t),
             task[t].pc # "placed", task'[t].pc \notin Placing
      PROVE  LosslessInv'
  BY <1>2, <1>9, EngineLossless
<1>10. ASSUME NEW t \in Task, NEW k \in OrderId, SyncOrder(t, k) PROVE LosslessInv'
  <2>1. UNCHANGED <<exch, tracked>> /\ OthersKeep(t) /\ task'[t].pc = "query"
    BY <1>1, <1>10, SyncOrderEffect
  <2> QED
    BY <1>9, <1>10, <2>1 DEF SyncOrder, Placing
<1>11. ASSUME NEW t \in Task, CancelRefused(t) PROVE LosslessInv'
  <2>1. UNCHANGED <<exch, tracked>> /\ OthersKeep(t) /\ task'[t].pc = "query"
    BY <1>1, <1>11, AskEffect
  <2> QED
    BY <1>9, <1>11, <2>1 DEF CancelRefused, Placing
<1>12. ASSUME NEW t \in Task, ExchangeReports(t) PROVE LosslessInv'
  <2>1. /\ UNCHANGED <<exch, tracked>> /\ OthersKeep(t)
        /\ task[t].pc = "query" /\ task'[t].pc = "queried"
    BY <1>1, <1>12, ReportEffect
  <2> QED
    BY <1>9, <2>1 DEF Placing
<1>13. ASSUME NEW t \in Task, CallEnds(t) PROVE LosslessInv'
  <2>1. UNCHANGED <<exch, tracked>> /\ OthersKeep(t) /\ task'[t].pc = "idle"
    BY <1>1, <1>13, EndsEffect
  <2> QED
    BY <1>9, <1>13, <2>1 DEF CallEnds, CancelRaises, CancelTimesOut, SweepEnds, QueryFails,
       QueryNotFound, Placing
<1>14. ASSUME NEW t \in Task, CancelAllOrders(t) \/ SweepNext(t) \/ SweepRefused(t)
       PROVE  LosslessInv'
  <2>1. /\ UNCHANGED <<exch, tracked>> /\ OthersKeep(t)
        /\ task'[t].pc \in {"idle", "sweep", "sweepCancel"}
    BY <1>1, <1>14, SweepMovesEffect
  <2>2. task[t].pc # "placed"
    BY <1>14 DEF CancelAllOrders, SweepNext, SweepRefused
  <2> QED
    BY <1>9, <2>1, <2>2 DEF Placing
<1>15. ASSUME UNCHANGED vars PROVE LosslessInv'
  BY <1>2, <1>15 DEF vars, LosslessInv, FirstAttempts, NoForgottenOrder, PendingTold, Working
<1>16. ASSUME NEW t \in Task, Fault(t) PROVE FALSE
  BY <1>16 DEF Fault, PlaceInterrupted, CancelInterrupted, CancelTimesOut, QueryFails,
     SweepInterrupted
<1>17. ASSUME NEW t \in Task, ExchangeAccepts(t) PROVE LosslessInv'
  BY <1>2, <1>17, AcceptLossless
<1>18. ASSUME NEW t \in Task, PlaceReturns(t) PROVE LosslessInv'
  BY <1>2, <1>18, PlaceReturnsLossless
<1>19. ASSUME \/ \E t \in Task : TakesCancel(t)
              \/ \E o \in ExchangeOrder : MovesByItself(o)
       PROVE  LosslessInv'
  BY <1>2, <1>19, ExchangeLossless
<1> QED
  BY <1>3, <1>4, <1>5, <1>6, <1>7, <1>8, <1>10, <1>11, <1>12, <1>13, <1>14, <1>15, <1>16,
     <1>17, <1>18, <1>19 DEF Next, Call, Proceed, TakesCancel, MovesByItself, CallEnds

LEMMA LosslessInvariant == ASSUME NamesOrders, ~ExchangeFaults PROVE Spec => []LosslessInv
<1>1. Init => LosslessInv
  <2> SUFFICES ASSUME Init PROVE LosslessInv
    OBVIOUS
  <2>1. Answers
    BY DEF Init, Idle, Answers
  <2>2. FirstAttempts
    BY KeyOf DEF Init, Idle, FirstAttempts, Placing
  <2>3. NoForgottenOrder
    BY DEF Init, NoForgottenOrder, Working
  <2>4. PendingTold
    BY DEF Init, Idle, PendingTold
  <2> QED
    BY <2>1, <2>2, <2>3, <2>4, InitIInv DEF LosslessInv
<1> QED
  BY <1>1, StepLossless, PTL DEF Spec

(* place_order, when every call is answered: what works on the exchange is *)
(* what the engine still works on, or what the exchange called pending or  *)
(* cancelled before it was over, through every interleaving of cancels,    *)
(* syncs, sweeps and fills.                                                *)
THEOREM NothingForgotten ==
  ASSUME NamesOrders, ~ExchangeFaults PROVE Spec => []NoForgottenOrder
<1>1. LosslessInv => NoForgottenOrder
  BY DEF LosslessInv
<1> QED
  BY <1>1, LosslessInvariant, PTL

(* place_order, when every call is answered: a request_id puts at most one *)
(* order on the exchange.  ExchangeFaults is what breaks it: the retry     *)
(* loop alone sends no second order.                                       *)
THEOREM OrderedOnce ==
  ASSUME NamesOrders, ~ExchangeFaults PROVE Spec => []OneOrderPerRequest
<1>1. LosslessInv => OneOrderPerRequest
  <2> SUFFICES ASSUME LosslessInv, NEW r \in Request
               PROVE  Cardinality({n \in 1 .. MaxRetries :
                                     exch[<<r, n>>].phase \notin {"absent", "rejected"}}) <= 1
    BY DEF OneOrderPerRequest
  <2> DEFINE sent == {n \in 1 .. MaxRetries : exch[<<r, n>>].phase \notin {"absent", "rejected"}}
  <2>1. sent \subseteq {1}
    BY DEF LosslessInv, FirstAttempts
  <2> HIDE DEF sent
  <2>2. IsFiniteSet({1}) /\ Cardinality({1}) = 1
    BY FS_Singleton
  <2>3. IsFiniteSet(sent) /\ Cardinality(sent) <= Cardinality({1})
    BY <2>1, <2>2, FS_Subset
  <2>4. Cardinality(sent) <= 1
    BY <2>2, <2>3
  <2> QED
    BY <2>4 DEF sent
<1> QED
  BY <1>1, LosslessInvariant, PTL

=============================================================================
