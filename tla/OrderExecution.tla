--------------------------- MODULE OrderExecution ---------------------------
(***************************************************************************)
(* src/backend/engine/execution: the ExecutionEngine facade with its       *)
(* OrderTracker, OrderExecutor and OrderStateMachine, for one exchange     *)
(* account.  Engine calls are asyncio coroutines of one event loop: a step *)
(* of the model is the code a coroutine runs between two awaits, and every *)
(* await of the adapter is two steps, the exchange acting on the call and  *)
(* the coroutine resuming with the answer.                                 *)
(*                                                                         *)
(* The exchange behind IExchangeAdapter is external: it is modelled by     *)
(* what the engine can observe of it through any of the five adapters.     *)
(* Some answer "open" whatever became of a placement, and "cancelled" for  *)
(* a cancel that was refused or is only under way.                         *)
(***************************************************************************)
EXTENDS Naturals, FiniteSets

CONSTANTS
  Request,        \* the request_id idempotency keys callers use
  Task,           \* coroutines that may be inside the engine at one time
  MaxRetries,     \* OrderExecutor.max_retries
  Quantity,       \* the ordered quantity, in units of one fill
  NamesOrders,    \* TRUE: the exchange makes up a client order id when none is
                  \* sent (Binance); FALSE: it answers "" (Bybit, OKX)
  ExchangeFaults, \* TRUE: answers get lost, calls time out or are rate limited
  NoRequest, NoKey, NoOrder, NoName   \* None, and the empty order_id

ASSUME RetriesAssumption  == MaxRetries \in Nat \ {0}
ASSUME QuantityAssumption == Quantity \in Nat \ {0}
ASSUME FlagsAssumption    == /\ NamesOrders \in BOOLEAN
                             /\ ExchangeFaults \in BOOLEAN
ASSUME NoneAssumption     ==
  /\ NoRequest \notin Request
  /\ NoName \notin Request \X (0 .. MaxRetries)
  /\ NoKey \notin (Request \X (0 .. MaxRetries)) \cup {NoName}
  /\ NoOrder \notin Request \X (1 .. MaxRetries)

VARIABLES
  exch,      \* the exchange: what became of the order each attempt sent
  orders,    \* OrderTracker._orders: order_id -> tracked order
  index,     \* OrderTracker._request_index: request_id -> order_id
  tracked,   \* the TrackedOrder each request created
  task       \* what each coroutine is doing

vars == <<exch, orders, index, tracked, task>>

(***************************************************************************)
(* The exchange knows an order by the request and the attempt that sent    *)
(* it; the tracker by an order_id, which is the local placeholder          *)
(* <<r, 0>> until the exchange has answered.                               *)
(***************************************************************************)
ExchangeOrder == Request \X (1 .. MaxRetries)
LocalId(r)    == <<r, 0>>
OrderId       == (Request \X (0 .. MaxRetries)) \cup {NoName}
(* Mutant: no exchange names the orders it is sent without a client id. *)
Nameless(o)   == NoName
Name(o)       == IF NamesOrders THEN o ELSE NoName

Status == {"PENDING", "SUBMITTING", "OPEN", "PARTIALLY_FILLED", "FILLED",
           "CANCELLING", "CANCELLED", "REJECTED", "FAILED"}

Active   == {"PENDING", "SUBMITTING", "OPEN", "PARTIALLY_FILLED", "CANCELLING"}

(* Mutant: a submission may not come back partially filled. *)
TRANSITIONSNoPartial ==
  [PENDING          |-> {"SUBMITTING"},
   SUBMITTING       |-> {"OPEN", "FILLED", "REJECTED", "FAILED"},
   OPEN             |-> {"PARTIALLY_FILLED", "FILLED", "CANCELLING", "CANCELLED"},
   PARTIALLY_FILLED |-> {"PARTIALLY_FILLED", "FILLED", "CANCELLING", "CANCELLED"},
   CANCELLING       |-> {"CANCELLED", "FILLED", "PARTIALLY_FILLED"},
   FAILED           |-> {"SUBMITTING"},
   FILLED           |-> {},
   CANCELLED        |-> {},
   REJECTED         |-> {}]

TRANSITIONS ==
  [PENDING          |-> {"SUBMITTING"},
   SUBMITTING       |-> {"OPEN", "PARTIALLY_FILLED", "FILLED", "REJECTED", "FAILED"},
   OPEN             |-> {"PARTIALLY_FILLED", "FILLED", "CANCELLING", "CANCELLED"},
   PARTIALLY_FILLED |-> {"PARTIALLY_FILLED", "FILLED", "CANCELLING", "CANCELLED"},
   CANCELLING       |-> {"CANCELLED", "FILLED", "PARTIALLY_FILLED"},
   FAILED           |-> {"SUBMITTING"},
   FILLED           |-> {},
   CANCELLED        |-> {},
   REJECTED         |-> {}]

(* Mutant: a status is assigned without asking the state machine. *)
AllowedUnchecked(r, target) == tracked[r].status # "NONE"

Allowed(r, target) ==
  tracked[r].status \in DOMAIN TRANSITIONS /\ target \in TRANSITIONS[tracked[r].status]

Untracked == [status |-> "NONE", eid |-> NoOrder, filled |-> 0]
Idle      == [pc |-> "idle", req |-> NoRequest, key |-> NoKey, attempt |-> 0,
              eid |-> NoOrder, answer |-> "NONE", filled |-> 0, rest |-> {}]

(* The status a report of an order maps to (map_exchange_status).  An      *)
(* order that waits for its trigger or whose cancel is under way is        *)
(* "pending".                                                              *)
Reported(x) ==
  CASE x.phase = "cancelled" -> "CANCELLED"
    [] x.phase = "rejected"  -> "REJECTED"
    [] x.phase = "pending" /\ x.filled < Quantity -> "PENDING"
    [] OTHER -> IF x.filled = Quantity THEN "FILLED"
                ELSE IF x.filled = 0 THEN "OPEN" ELSE "PARTIALLY_FILLED"

Working(o) == exch[o].phase \in {"live", "pending"} /\ exch[o].filled < Quantity

(* told is what an answer has said of the order that is not so, or that a  *)
(* placement has no transition for.                                        *)
Init ==
  /\ exch = [o \in ExchangeOrder |-> [phase |-> "absent", filled |-> 0, told |-> "nothing"]]
  /\ orders = [k \in OrderId |-> NoRequest]
  /\ index = [r \in Request |-> NoKey]
  /\ tracked = [r \in Request |-> Untracked]
  /\ task = [t \in Task |-> Idle]

Goto(t, pc)  == task' = [task EXCEPT ![t].pc = pc]
Finish(t)    == task' = [task EXCEPT ![t] = Idle]
Raise(t)     == Finish(t) /\ UNCHANGED <<orders, index, tracked>>

-----------------------------------------------------------------------------
(* place_order                                                             *)

(* A known request_id returns its cached result and changes nothing, as do *)
(* a missing adapter and a request that does not validate.                 *)
PlaceOrder(t, r) ==
  /\ task[t].pc = "idle"
  /\ index[r] = NoKey
  /\ orders' = [orders EXCEPT ![LocalId(r)] = r]
  /\ index' = [index EXCEPT ![r] = LocalId(r)]
  /\ tracked' = [tracked EXCEPT ![r].status = "SUBMITTING"]
  /\ task' = [task EXCEPT ![t] = [Idle EXCEPT !.pc = "place", !.req = r, !.attempt = 1]]
  /\ UNCHANGED exch

(* The exchange creates the order: resting, waiting for its trigger,       *)
(* crossed by some fills, expired at once, or refused in an answer that    *)
(* raises nothing.  The adapter's result has the order's status, or "open" *)
(* and no fill (Bybit, OKX and Hyperliquid).                               *)
ExchangeAccepts(t) ==
  LET o == <<task[t].req, task[t].attempt>> IN
  /\ task[t].pc = "place"
  /\ \E x \in [phase : {"live", "pending", "cancelled", "rejected"}, filled : 0 .. Quantity],
        asked \in BOOLEAN :
       /\ x.phase = "rejected" => x.filled = 0
       /\ x.phase \in {"pending", "cancelled"} => x.filled < Quantity
       /\ exch' = [exch EXCEPT ![o] =
                     [phase |-> x.phase, filled |-> x.filled,
                      told |-> IF ~asked /\ x.phase = "pending" THEN "pending" ELSE "nothing"]]
       /\ task' = [task EXCEPT ![t] = [@ EXCEPT !.pc = "placed", !.eid = o,
                                 !.answer = IF asked THEN "OPEN" ELSE Reported(x),
                                 !.filled = IF asked THEN 0 ELSE x.filled]]
  /\ UNCHANGED <<orders, index, tracked>>

(* The answer arrives: the tracked order moves to the exchange's name.  An *)
(* answer SUBMITTING cannot go to lands in the handler, whose update looks *)
(* the order up under the local id that re_key has just removed.           *)
PlaceReturns(t) ==
  LET r == task[t].req
      status == task[t].answer IN
  /\ task[t].pc = "placed"
  /\ orders' = [orders EXCEPT ![LocalId(r)] = NoRequest, ![Name(task[t].eid)] = r]
  /\ index' = [index EXCEPT ![r] = Name(task[t].eid)]
  /\ IF Allowed(r, status)
     THEN tracked' = [tracked EXCEPT ![r] =
                        [status |-> status, eid |-> task[t].eid, filled |-> task[t].filled]]
     ELSE tracked' = [tracked EXCEPT ![r].status = "FAILED"]
  /\ Finish(t)
  /\ UNCHANGED exch

(* The exchange refuses for good: insufficient balance, invalid price. *)
PlaceRefused(t) ==
  /\ task[t].pc = "place"
  /\ tracked' = [tracked EXCEPT ![task[t].req].status = "FAILED"]
  /\ Finish(t)
  /\ UNCHANGED <<exch, orders, index>>

(* Mutant: the last attempt is retried once more. *)
PlaceInterruptedOffByOne(t) ==
  /\ ExchangeFaults
  /\ task[t].pc \in {"place", "placed"}
  /\ IF task[t].attempt <= MaxRetries
     THEN Goto(t, "backoff") /\ UNCHANGED tracked
     ELSE Finish(t) /\ tracked' = [tracked EXCEPT ![task[t].req].status = "FAILED"]
  /\ UNCHANGED <<exch, orders, index>>

(* A rate limit, a timeout or a lost connection: the executor cannot tell  *)
(* whether the exchange has the order.                                     *)
PlaceInterrupted(t) ==
  /\ ExchangeFaults
  /\ task[t].pc \in {"place", "placed"}
  /\ IF task[t].attempt < MaxRetries
     THEN Goto(t, "backoff") /\ UNCHANGED tracked
     ELSE Finish(t) /\ tracked' = [tracked EXCEPT ![task[t].req].status = "FAILED"]
  /\ UNCHANGED <<exch, orders, index>>

(* Mutant: the retry loop does not count its attempts. *)
PlaceRetriesUncounted(t) ==
  /\ task[t].pc = "backoff"
  /\ Goto(t, "place")
  /\ UNCHANGED <<exch, orders, index, tracked>>

(* The backoff sleep is over: send again, with no client order id that     *)
(* would let the exchange recognise the order.                             *)
PlaceRetries(t) ==
  /\ task[t].pc = "backoff"
  /\ task' = [task EXCEPT ![t] = [Idle EXCEPT !.pc = "place", !.req = task[t].req,
                                              !.attempt = task[t].attempt + 1]]
  /\ UNCHANGED <<exch, orders, index, tracked>>

-----------------------------------------------------------------------------
(* cancel_order                                                            *)

(* The tracked order that tracker.get finds under an order_id. *)
Find(k) == orders[k]

(* An unknown order raises, a terminal one returns its result, and a       *)
(* status that may not go to CANCELLING raises: none changes the state.    *)
CancelOrder(t, k) ==
  /\ task[t].pc = "idle"
  /\ Find(k) # NoRequest
  /\ Allowed(Find(k), "CANCELLING")
  /\ tracked' = [tracked EXCEPT ![Find(k)].status = "CANCELLING"]
  /\ task' = [task EXCEPT ![t] = [Idle EXCEPT !.pc = "cancel", !.req = Find(k),
                                              !.key = k, !.eid = tracked[Find(k)].eid]]
  /\ UNCHANGED <<exch, orders, index>>

ExchangeCancels(t) ==
  /\ task[t].pc \in {"cancel", "sweepCancel"}
  /\ Working(task[t].eid)
  /\ exch' = [exch EXCEPT ![task[t].eid].phase = "cancelled"]
  /\ Goto(t, IF task[t].pc = "cancel" THEN "cancelDone" ELSE "sweepDone")
  /\ UNCHANGED <<orders, index, tracked>>

(* A cancel the adapter returns from as from any other, though the order   *)
(* is as it was, or only on its way out: PENDING_CANCEL, a refusal inside  *)
(* a 200 (OKX, Bybit), an answer nobody looks at (Hyperliquid).            *)
ExchangeAcknowledges(t) ==
  LET o == task[t].eid IN
  /\ task[t].pc \in {"cancel", "sweepCancel"}
  /\ exch[o].phase # "absent"
  /\ \E phase \in {exch[o].phase} \cup (IF Working(o) THEN {"pending"} ELSE {}) :
       exch' = [exch EXCEPT ![o] = [@ EXCEPT !.phase = phase, !.told = "cancelled"]]
  /\ Goto(t, IF task[t].pc = "cancel" THEN "cancelDone" ELSE "sweepDone")
  /\ UNCHANGED <<orders, index, tracked>>

(* tracker.update looks the order up again under the caller's order_id and *)
(* assigns the status without asking the state machine.                    *)
Update(t, status, eid, filled) ==
  LET r == task[t].req IN
  IF Allowed(r, status)
  THEN /\ tracked' = [q \in Request |->
                       IF q = Find(task[t].key)
                       THEN [status |-> status, eid |-> eid, filled |-> filled]
                       ELSE IF q = r THEN [tracked[q] EXCEPT !.status = status]
                                     ELSE tracked[q]]
       /\ Finish(t)
       /\ UNCHANGED <<orders, index>>
  ELSE Raise(t)

(* The cancelled result keeps the filled quantity the engine last knew. *)
CancelReturns(t) ==
  /\ task[t].pc = "cancelDone"
  /\ Update(t, "CANCELLED", tracked[task[t].req].eid, tracked[task[t].req].filled)
  /\ UNCHANGED exch

(* An ExchangeError (wrapped as OrderExecutionError) or OrderAlreadyFilled *)
(* makes the engine ask for the order's state: the order is no longer      *)
(* working, or the exchange or the connection failed.  An order unknown to *)
(* the exchange is an OrderNotFound, and not an ExchangeError: CancelRaises.*)
AskForState(t) ==
  /\ task' = [task EXCEPT ![t] = [@ EXCEPT !.pc = "query",
                                           !.eid = tracked[task[t].req].eid]]
  /\ UNCHANGED <<exch, orders, index, tracked>>

(* Mutant: a refused cancel counts as an accepted one. *)
CancelRefusedIgnored(t) ==
  /\ task[t].pc = "cancel"
  /\ ~Working(task[t].eid)
  /\ Goto(t, "cancelDone")
  /\ UNCHANGED <<exch, orders, index, tracked>>

CancelRefused(t) ==
  /\ task[t].pc = "cancel"
  /\ ~Working(task[t].eid)
  /\ AskForState(t)

CancelInterrupted(t) ==
  /\ ExchangeFaults
  /\ task[t].pc \in {"cancel", "cancelDone"}
  /\ AskForState(t)

(* OrderNotFound, like a refused key, leaves cancel_order with the order   *)
(* in CANCELLING.                                                          *)
CancelRaises(t) ==
  /\ task[t].pc = "cancel"
  /\ Raise(t)
  /\ UNCHANGED exch

(* So does a TimeoutError, when the exchange has carried it out or not. *)
CancelTimesOut(t) ==
  /\ ExchangeFaults
  /\ task[t].pc = "cancelDone"
  /\ Raise(t)
  /\ UNCHANGED exch

-----------------------------------------------------------------------------
(* sync_order, and the second half of a refused cancel_order               *)

(* An order without exchange_order_id makes the exchange raise. *)
SyncOrder(t, k) ==
  /\ task[t].pc = "idle"
  /\ Find(k) # NoRequest
  /\ tracked[Find(k)].eid # NoOrder
  /\ task' = [task EXCEPT ![t] = [Idle EXCEPT !.pc = "query", !.req = Find(k),
                                              !.key = k, !.eid = tracked[Find(k)].eid]]
  /\ UNCHANGED <<exch, orders, index, tracked>>

ExchangeReports(t) ==
  /\ task[t].pc = "query"
  /\ task' = [task EXCEPT ![t] = [@ EXCEPT !.pc = "queried",
                                           !.answer = Reported(exch[task[t].eid]),
                                           !.filled = exch[task[t].eid].filled]]
  /\ UNCHANGED <<exch, orders, index, tracked>>

(* Hyperliquid lists open orders only, and any exchange may know no more   *)
(* of an order that is over: OrderNotFound.                                *)
QueryNotFound(t) ==
  /\ task[t].pc = "query"
  /\ ~Working(task[t].eid)
  /\ Raise(t)
  /\ UNCHANGED exch

QueryReturns(t) ==
  /\ task[t].pc = "queried"
  /\ Update(t, task[t].answer, task[t].eid, task[t].filled)
  /\ UNCHANGED exch

QueryFails(t) ==
  /\ ExchangeFaults
  /\ task[t].pc \in {"query", "queried"}
  /\ Raise(t)
  /\ UNCHANGED exch

-----------------------------------------------------------------------------
(* cancel_all_orders                                                       *)

CancelAllOrders(t) ==
  /\ task[t].pc = "idle"
  /\ \E o \in ExchangeOrder : Working(o)
  /\ task' = [task EXCEPT ![t] = [Idle EXCEPT !.pc = "sweep",
                                              !.rest = {o \in ExchangeOrder : Working(o)}]]
  /\ UNCHANGED <<exch, orders, index, tracked>>

(* Mutant: the order the loop is at stays in its list. *)
SweepStays(t) ==
  /\ task[t].pc = "sweep"
  /\ \E o \in task[t].rest : task' = [task EXCEPT ![t] = [@ EXCEPT !.pc = "sweepCancel", !.eid = o]]
  /\ UNCHANGED <<exch, orders, index, tracked>>

SweepNext(t) ==
  /\ task[t].pc = "sweep"
  /\ \E o \in task[t].rest :
       task' = [task EXCEPT ![t] = [@ EXCEPT !.pc = "sweepCancel", !.eid = o,
                                             !.rest = task[t].rest \ {o}]]
  /\ UNCHANGED <<exch, orders, index, tracked>>

SweepEnds(t) ==
  /\ task[t].pc = "sweep"
  /\ task[t].rest = {}
  /\ Raise(t)
  /\ UNCHANGED exch

(* An OrderExecutionError skips the order; any other error, OrderNotFound  *)
(* among them, ends the sweep.                                             *)
SweepRefused(t) ==
  /\ task[t].pc = "sweepCancel"
  /\ ~Working(task[t].eid)
  /\ Goto(t, "sweep") \/ Finish(t)
  /\ UNCHANGED <<exch, orders, index, tracked>>

SweepInterrupted(t) ==
  /\ ExchangeFaults
  /\ task[t].pc \in {"sweepCancel", "sweepDone"}
  /\ Goto(t, "sweep") \/ Finish(t)
  /\ UNCHANGED <<exch, orders, index, tracked>>

(* The status moves, the cached result does not; a status that may not go  *)
(* to CANCELLED raises out of the loop.                                    *)
SweepReturns(t) ==
  LET r == Find(Name(task[t].eid)) IN
  /\ task[t].pc = "sweepDone"
  /\ \/ /\ r = NoRequest
        /\ Goto(t, "sweep")
        /\ UNCHANGED tracked
     \/ /\ r # NoRequest
        /\ Allowed(r, "CANCELLED")
        /\ Goto(t, "sweep")
        /\ tracked' = [tracked EXCEPT ![r].status = "CANCELLED"]
     \/ /\ r # NoRequest
        /\ ~Allowed(r, "CANCELLED")
        /\ Finish(t)
        /\ UNCHANGED tracked
  /\ UNCHANGED <<exch, orders, index>>

-----------------------------------------------------------------------------
(* The market fills a working order by one unit. *)
ExchangeFills(o) ==
  /\ Working(o)
  /\ exch' = [exch EXCEPT ![o].filled = @ + 1]
  /\ UNCHANGED <<orders, index, tracked, task>>

(* A pending order is triggered or filled on, or its cancel comes through. *)
ExchangeDecides(o) ==
  /\ exch[o].phase = "pending" /\ Working(o)
  /\ \E phase \in {"live", "cancelled"} : exch' = [exch EXCEPT ![o].phase = phase]
  /\ UNCHANGED <<orders, index, tracked, task>>

(* A coroutine that has begun a call, the exchange answering included. *)
Proceed(t) ==
  \/ ExchangeAccepts(t)  \/ PlaceReturns(t)  \/ PlaceRefused(t)
  \/ PlaceRetries(t)     \/ ExchangeCancels(t) \/ ExchangeAcknowledges(t)
  \/ CancelReturns(t)    \/ CancelRefused(t)   \/ CancelRaises(t)
  \/ ExchangeReports(t)  \/ QueryNotFound(t)   \/ QueryReturns(t)
  \/ SweepNext(t)        \/ SweepEnds(t)       \/ SweepRefused(t)
  \/ SweepReturns(t)

Fault(t) ==
  \/ PlaceInterrupted(t) \/ CancelInterrupted(t) \/ CancelTimesOut(t)
  \/ QueryFails(t)       \/ SweepInterrupted(t)

Call(t) ==
  \/ \E r \in Request : PlaceOrder(t, r)
  \/ \E k \in OrderId : CancelOrder(t, k) \/ SyncOrder(t, k)
  \/ CancelAllOrders(t)

Next ==
  \/ \E t \in Task : Call(t) \/ Proceed(t) \/ Fault(t)
  \/ \E o \in ExchangeOrder : ExchangeFills(o) \/ ExchangeDecides(o)

Spec == Init /\ [][Next]_vars

(* The event loop resumes every coroutine whose call was answered, and the *)
(* exchange answers every call or the transport gives up on it.  Nobody is *)
(* bound to make another call, and no order is bound to fill.              *)
FairSpec == Spec /\ \A t \in Task : WF_vars(Proceed(t))

-----------------------------------------------------------------------------
(* Properties                                                              *)

PCs == {"idle", "place", "placed", "backoff", "cancel", "cancelDone", "query",
        "queried", "sweep", "sweepCancel", "sweepDone"}

ExchangeRecord ==
  [phase : {"absent", "live", "pending", "cancelled", "rejected"}, filled : 0 .. Quantity,
   told : {"nothing", "pending", "cancelled"}]
TrackedOrder ==
  [status : Status \cup {"NONE"}, eid : ExchangeOrder \cup {NoOrder}, filled : 0 .. Quantity]
TaskRecord ==
  [pc : PCs, req : Request \cup {NoRequest}, key : OrderId \cup {NoKey},
   attempt : 0 .. MaxRetries, eid : ExchangeOrder \cup {NoOrder},
   answer : Status \cup {"NONE"}, filled : 0 .. Quantity, rest : SUBSET ExchangeOrder]

(* Every variable has its type: orders and index only ever name each other, *)
(* no fill exceeds the quantity, no attempt exceeds max_retries.            *)
TypeOK ==
  /\ exch \in [ExchangeOrder -> ExchangeRecord]
  /\ orders \in [OrderId -> Request \cup {NoRequest}]
  /\ index \in [Request -> OrderId \cup {NoKey}]
  /\ tracked \in [Request -> TrackedOrder]
  /\ task \in [Task -> TaskRecord]

(* What the tracker reports as over is over on the exchange, and it never   *)
(* reports a fill that did not happen, however late the answers to cancel,  *)
(* sync and sweep calls arrive and in whatever order the calls interleave.  *)
(* The one way to be wrong is an exchange that answers a cancel it has not  *)
(* carried out: cancel_order does not look at what the answer says.         *)
Truthful ==
  \A r \in Request :
    LET o == tracked[r].eid IN
    /\ tracked[r].status = "FILLED" => o # NoOrder /\ exch[o].filled = Quantity
    /\ tracked[r].status = "CANCELLED" =>
         o # NoOrder /\ (exch[o].phase = "cancelled" \/ exch[o].told = "cancelled")
    /\ tracked[r].status = "REJECTED" => o # NoOrder /\ exch[o].phase = "rejected"
    /\ o # NoOrder => tracked[r].filled <= exch[o].filled

(* A request_id that was used leads, through the request index and the      *)
(* re-keyed order table, to the order that request created: the duplicate   *)
(* request gets its own result back and no other request's.                 *)
OwnResult ==
  \A r \in Request : index[r] # NoKey => orders[index[r]] = r

(* An order working on the exchange is one the engine still works on, or    *)
(* one whose answer a coroutine of place_order has yet to receive, or one   *)
(* of which the exchange has said what no transition allows for: "pending"  *)
(* to a placement, "cancelled" before it was.                               *)
NoForgottenOrder ==
  \A o \in ExchangeOrder : Working(o) =>
    \/ tracked[o[1]].eid = o /\ tracked[o[1]].status \in Active
    \/ \E t \in Task : task[t].pc = "placed" /\ task[t].eid = o
    \/ exch[o].told # "nothing"

(* A request_id puts at most one order on the exchange, retries included.   *)
OneOrderPerRequest ==
  \A r \in Request :
    Cardinality({n \in 1 .. MaxRetries : exch[<<r, n>>].phase \notin {"absent", "rejected"}}) <= 1

(* Every submission ends: the retry loop is bounded and each failure path   *)
(* takes the order out of SUBMITTING.                                       *)
PlacementSettles ==
  \A r \in Request : tracked[r].status = "SUBMITTING" ~> tracked[r].status # "SUBMITTING"

(* Every call returns: no retry, sweep or query of a refused cancel goes on *)
(* for ever.                                                                *)
CallsReturn == \A t \in Task : task[t].pc # "idle" ~> task[t].pc = "idle"

(* No order stays in CANCELLING: the cancel is acknowledged, or the order's *)
(* state is fetched and it leaves CANCELLING that way.                      *)
CancelSettles ==
  \A r \in Request : tracked[r].status = "CANCELLING" ~> tracked[r].status # "CANCELLING"

(* The lifecycle the engine promises for each request (OrderLifecycle).     *)
Phase(status) ==
  CASE status = "NONE"       -> "new"
    [] status = "SUBMITTING" -> "submitting"
    [] status = "FILLED"     -> "filled"
    [] status = "CANCELLED"  -> "cancelled"
    [] status = "REJECTED"   -> "rejected"
    [] status = "FAILED"     -> "failed"
    [] OTHER                 -> "working"

Lifecycle == INSTANCE OrderLifecycle
               WITH phase <- [r \in Request |-> Phase(tracked[r].status)]

(* Every step of the engine is a step of that lifecycle, or leaves it.      *)
ImplementsLifecycle == Lifecycle!Spec
=============================================================================
