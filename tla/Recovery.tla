------------------------------ MODULE Recovery ------------------------------
(***************************************************************************)
(* src/backend/engine/recovery: the order queue of ConnectionRecovery, the *)
(* three layers RecoveryCoordinator runs for an instance, and the grid     *)
(* reconciliation of RuntimeReconciler for one level.  No await in these   *)
(* calls suspends, so each call is one step.                               *)
(***************************************************************************)
EXTENDS Naturals, Sequences, SequencesExt, FiniteSets

CONSTANTS
  Venue,     \* exchanges
  Order,     \* orders callers may queue
  Bot,       \* registered instances
  Symbol,    \* symbols the exchange may hold positions in
  Shared,    \* state recovery and reconciler use one PortfolioManager
  None       \* no id, no position

VARIABLES
  venue_up,    \* _exchange_connected
  order_queue, \* _order_queue, each with the exchange it is for
  calls,       \* how often place_order_fn was called for an order
  fate,        \* history: "new", "queued", "placed" or "dropped"
  book,        \* the position state recovery's portfolio has of an instance
  held,        \* symbols the exchange holds positions in, by instance
  recovery,    \* RecoveryStatus.state
  checkpoint,  \* phase of the saved checkpoint
  level,       \* a grid level: its status and order ids
  live,        \* what the exchange lists: order -> status
  found        \* what the reconciliation reported

queueVars == <<venue_up, order_queue, calls, fate>>
coordVars == <<book, held, recovery, checkpoint>>
gridVars  == <<level, live, found>>
recVars   == <<queueVars, coordVars, gridVars>>

(* The levels a grid snapshot can hold. *)
Snapshot ==
  [status : {"WAITING", "TP_HIT"}, buy : {"none"}, sell : {"none"}]
  \cup [status : {"OPEN", "CANCELLED"}, buy : {"buy"}, sell : {"none"}]
  \cup [status : {"FILLED"}, buy : {"none"}, sell : {"sell", "none"}]

Ids         == {"buy", "sell", "other"}
Listed      == {"absent", "pending", "open", "partially_filled", "filled", "cancelled",
                "rejected", "expired"}

Init ==
  /\ venue_up = [v \in Venue |-> TRUE]
  /\ order_queue = <<>>
  /\ calls = [o \in Order |-> 0] /\ fate = [o \in Order |-> "new"]
  /\ book = [b \in Bot |-> None]
  /\ held = [b \in Bot |-> {}]
  /\ recovery = [b \in Bot |-> "idle"] /\ checkpoint = [b \in Bot |-> "none"]
  /\ level = [status |-> "WAITING", buy |-> "none", sell |-> "none"]
  /\ live = [id \in Ids |-> "absent"]
  /\ found = [done |-> FALSE, missing |-> FALSE, orphans |-> {}]

-----------------------------------------------------------------------------
Disconnect(v) ==
  /\ venue_up[v]
  /\ venue_up' = [venue_up EXCEPT ![v] = FALSE]
  /\ UNCHANGED <<order_queue, calls, fate, coordVars, gridVars>>

QueueOrder(o, v) ==
  /\ fate[o] = "new"
  /\ order_queue' = Append(order_queue, [order |-> o, venue |-> v])
  /\ fate' = [fate EXCEPT ![o] = "queued"]
  /\ UNCHANGED <<venue_up, calls, coordVars, gridVars>>

(* Mutant: the queue is not cleared. *)
QueueKept    == order_queue
QueueCleared == <<>>

Waiting == {order_queue[n].order : n \in DOMAIN order_queue}

(* on_exchange_reconnect replays the whole queue, orders for other         *)
(* exchanges included; a replay that raises is logged and dropped.         *)
Reconnect(v) ==
  /\ ~venue_up[v]
  /\ venue_up' = [venue_up EXCEPT ![v] = TRUE]
  /\ calls' = [o \in Order |-> IF o \in Waiting THEN calls[o] + 1 ELSE calls[o]]
  /\ \E raised \in SUBSET Waiting :
       fate' = [o \in Order |-> IF o \notin Waiting THEN fate[o]
                                ELSE IF o \in raised THEN "dropped" ELSE "placed"]
  /\ order_queue' = QueueCleared
  /\ UNCHANGED <<coordVars, gridVars>>

-----------------------------------------------------------------------------
(* The exchange's positions move between recoveries. *)
ExchangeMoves(b, s) ==
  /\ held' = [held EXCEPT ![b] = s]
  /\ UNCHANGED <<book, recovery, checkpoint, queueVars, gridVars>>

(* recover_portfolio registers positions under the instance's id until one *)
(* is refused because the id is taken; the refusal is swallowed.           *)
Rebuilt(b) == IF book[b] # None \/ held[b] = {} THEN book[b] ELSE CHOOSE s \in held[b] : TRUE

(* reconcile_portfolio is always given no exchange positions, and the      *)
(* positions of every instance: each is stale, and closed if the           *)
(* reconciler's portfolio has it.                                          *)
ReconciledBook(b) ==
  IF Shared THEN [c \in Bot |-> None] ELSE [book EXCEPT ![b] = Rebuilt(b)]

RecoverInstance(b) ==
  \E redis, postgres, process \in BOOLEAN :
    LET errors == (IF redis /\ postgres THEN 0 ELSE 1) + (IF process THEN 0 ELSE 1) IN
    /\ book' = ReconciledBook(b)
    /\ recovery' = [recovery EXCEPT ![b] = IF errors > 2 THEN "failed" ELSE "completed"]
    /\ checkpoint' = [checkpoint EXCEPT ![b] = IF errors = 0 THEN "none" ELSE "reconciliation"]
    /\ UNCHANGED <<held, queueVars, gridVars>>

-----------------------------------------------------------------------------
Of(listed, id)     == IF id = "none" THEN "absent" ELSE listed[id]
(* Any listed order that is neither filled nor cancelled.                  *)
IsLive(listed, id) == Of(listed, id) \notin {"absent", "filled", "cancelled"}

(* Mutant: the level goes back to WAITING but keeps the cancelled id. *)
BuyCheckedIdKept(l, x) ==
  IF Of(x, l.buy) = "filled" THEN [l EXCEPT !.status = "FILLED"]
  ELSE IF Of(x, l.buy) = "cancelled" /\ l.status = "OPEN"
       THEN [l EXCEPT !.status = "WAITING"]
  ELSE l
BuyChecked(l, x) ==
  IF Of(x, l.buy) = "filled" THEN [l EXCEPT !.status = "FILLED"]
  ELSE IF Of(x, l.buy) = "cancelled" /\ l.status = "OPEN"
       THEN [l EXCEPT !.status = "WAITING", !.buy = "none"]
  ELSE l

SellChecked(l, x) ==
  IF Of(x, l.sell) = "filled" THEN [l EXCEPT !.status = "TP_HIT"]
  ELSE IF Of(x, l.sell) = "cancelled" /\ l.status = "OPEN" THEN [l EXCEPT !.sell = "none"]
  ELSE l

FindMissing(l, x) ==
  /\ l.status = "OPEN"
  /\ \E id \in {l.buy, l.sell} \ {"none"} : ~IsLive(x, id)

FindOrphans(l, x) == {id \in Ids : IsLive(x, id) /\ id \notin {l.buy, l.sell}}

(* A snapshot older than what the exchange lists: the session that saved   *)
(* it may have placed, filled or cancelled orders since.                   *)
ReconcileGrid ==
  /\ ~found.done
  /\ \E s \in Snapshot, x \in [Ids -> Listed] :
       LET l == SellChecked(BuyChecked(s, x), x) IN
       /\ level' = l /\ live' = x
       /\ found' = [done |-> TRUE, missing |-> FindMissing(l, x), orphans |-> FindOrphans(l, x)]
  /\ UNCHANGED <<queueVars, coordVars>>

QueueStep == \E v \in Venue : Disconnect(v) \/ Reconnect(v) \/ \E o \in Order : QueueOrder(o, v)
CoordStep == \E b \in Bot : RecoverInstance(b) \/ \E s \in SUBSET Symbol : ExchangeMoves(b, s)

Next == QueueStep \/ CoordStep \/ ReconcileGrid
Spec == Init /\ [][Next]_recVars

-----------------------------------------------------------------------------
(* A queued order is handed to place_order at most once, through any       *)
(* number of disconnects and reconnects of any exchange, and an order that *)
(* waits has not been handed over yet.                                     *)
ReplayedOnce ==
  \A o \in Order :
    /\ calls[o] = (IF fate[o] \in {"placed", "dropped"} THEN 1 ELSE 0)
    /\ o \in Waiting <=> fate[o] = "queued"

(* What the exchange may still fill, and what it never will. *)
Works(id)  == Of(live, id) \in {"pending", "open", "partially_filled"}
Fallen(id) == Of(live, id) \in {"rejected", "expired"}

(* After a grid reconciliation the level agrees with what the exchange     *)
(* lists: a filled entry or exit shows, an OPEN level's order works or is  *)
(* reported missing, unless it was rejected or has expired, which          *)
(* reconciler.py:73-77 takes for working, a WAITING level names no order,  *)
(* and every working order is named by the level or reported as an orphan. *)
GridAgrees ==
  found.done =>
    /\ Of(live, level.sell) = "filled" => level.status = "TP_HIT"
    /\ Of(live, level.buy) = "filled" => level.status = "FILLED"
    /\ level.status = "OPEN" /\ ~found.missing /\ ~Fallen(level.buy) => Works(level.buy)
    /\ level.status = "WAITING" => level.buy = "none" /\ level.sell = "none"
    /\ \A id \in Ids : Works(id) => id \in {level.buy, level.sell} \cup found.orphans
=============================================================================
