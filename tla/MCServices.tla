----------------------------- MODULE MCServices -----------------------------
(***************************************************************************)
(* The services around the trading core, checked in one run.  They share   *)
(* no state, so a behaviour lets one part, its focus, move: the states     *)
(* are the union of the parts' states instead of their product.            *)
(***************************************************************************)
EXTENDS Integers, Sequences, FiniteSets

CONSTANTS
  Focus,   \* the parts that may move
  Job, Pass, MaxRetries, Part, Venue, Order, Bot, Symbol, None, Shared,
  Trader, Coin, Lot, Quote, MaxNotional, MaxPerCoin, MaxTotal, MaxOpen,
  MaxFills, NoPos, Channel, Worker, MaxSends, MaxNotes, Topic, Request,
  MaxConns, Tries, Ticket, Feed, Actor, MaxSockets, MaxTries, Key,
  Consumer, MaxSubs, Invoice, Member, Payment, MaxDay, MaxCharges,
  NeedsKey, NoMember, ScreenCoin, Tier, DayScale, MinSamples, Lookback,
  Series, Closing, MaxDays, MaxPasses, MaxEvents, Visitor, Editor, Owner, MaxEdits,
  MaxUpdates, Capital, GroupSize, CustomSteps, Bound, MaxGrids, Client,
  Customer, System, BuiltinPreset, BuiltinGroup, MaxRows, MaxByHand

VARIABLES
  focus,   \* the part this behaviour is about
  retry_queue, retry_count, outcome, hand, sched, entries, checks, results,
  checking, ghost, venue_up, order_queue, calls, fate, book, held,
  recovery, checkpoint, level, live, found, position, cash, price, ordered,
  allowed, rule, registered, working, sender, notes, pending, attempts,
  delivered, verdict, batch, tally, counted, handlers, listener, conn,
  conns, closing, remote, joining, sending, missed, waiters, asked, venue,
  keys, skewed, cached, exchBook, call, reply, style, ws, sockets, open,
  running, remembered, feeds, callbacks, actor, gaveUp, hub, started,
  logical, subMap, handedOut, consumer, status, aged, cachedPrice,
  relinking, overlapped, invoices, keyed, payment, succeeded, taken,
  lost, today, subs, bought, affiliates, referredBy, thresholds, candles,
  pass, begun, events, probe, mode, modeCache, cacheLock, visit, edit,
  edits, loadOverlapped, loadFailed, steps, template, update, updates,
  plan, presetRows, groupRows, accountRows, session, raced, byHand,
  namesakes

(* The closes an exchange answers with: a long fall. *)
LongFall == {<<100, 80, 60, 45, 30, 20>>}

(* What the constants of the screening and the setup may be: continuation  *)
(* rates, windows of at least a day, whole closes; whole prices, capitals  *)
(* and sizes, none of which the code lets be zero.                         *)
ScreenAssumption ==
  /\ Tier \subseteq {70, 80, 90} /\ Tier # {} /\ DayScale \in Nat \ {0}
  /\ MinSamples \in Nat \ {0} /\ Lookback \in Nat \ {0}
  /\ IsFiniteSet(ScreenCoin) /\ Series \subseteq Seq(Int) /\ Closing \subseteq Int
  /\ MaxDays \in Nat

SetupAssumption ==
  /\ Bound \subseteq Nat \ {0} /\ MaxGrids \in Nat
  /\ Capital \subseteq Nat /\ GroupSize \subseteq Nat \ {0} /\ CustomSteps \in Nat \ {0}

(* The other services: finite sets where something is counted, whole       *)
(* quantities and limits, and values that stand for nobody.                *)
ServiceAssumption ==
  /\ MaxSockets \in Nat /\ IsFiniteSet(Feed) /\ IsFiniteSet(Consumer) /\ Key # {}
  /\ System \notin Customer /\ IsFiniteSet(Trader)
  /\ Lot \subseteq Nat \ {0} /\ Quote \subseteq Nat \ {0}
  /\ MaxPerCoin \in Int /\ MaxTotal \in Int /\ MaxOpen \in Int
  /\ IsFiniteSet(Invoice) /\ IsFiniteSet(Payment) /\ IsFiniteSet(Member) /\ NoMember \notin Member

ASSUME ConstantsAssumption == ScreenAssumption /\ SetupAssumption /\ ServiceAssumption

Bg == INSTANCE BackgroundTasks
Rec == INSTANCE Recovery
Risk == INSTANCE RiskGate
Note == INSTANCE Notification
Bus == INSTANCE RedisBus
Ex == INSTANCE ExchangeAdapter
St == INSTANCE ExchangeStreams
Hub == INSTANCE MarketHub
Saas == INSTANCE Saas
Scr == INSTANCE BreakerScreening
Set == INSTANCE InstanceSetup
Cat == INSTANCE Catalogue

bgVars == <<retry_queue, retry_count, outcome, hand, sched, entries,
            checks, results, checking, ghost>>
recVars == <<venue_up, order_queue, calls, fate, book, held, recovery,
             checkpoint, level, live, found>>
riskVars == <<position, cash, price, ordered, allowed>>
noteVars == <<rule, registered, working, sender, notes, pending, attempts,
              delivered, verdict, batch, tally, counted>>
busVars == <<handlers, listener, conn, conns, closing, remote, joining,
             sending, missed, waiters, asked>>
exVars == <<venue, keys, skewed, cached, exchBook, call, reply>>
streamVars == <<style, ws, sockets, open, running, remembered, feeds,
                callbacks, actor, gaveUp>>
hubVars == <<hub, started, logical, subMap, handedOut, consumer, status,
             aged, cachedPrice, relinking, overlapped>>
saasVars == <<invoices, keyed, payment, succeeded, taken, lost, today,
              subs, bought, affiliates, referredBy>>
screenVars == <<thresholds, candles, pass, begun, events, probe>>
setupVars == <<mode, modeCache, cacheLock, visit, edit, edits,
               loadOverlapped, loadFailed, steps, template, update,
               updates, plan>>
catalogueVars == <<presetRows, groupRows, accountRows, session, raced,
                   byHand, namesakes>>

vars == <<focus, bgVars, recVars, riskVars, noteVars, busVars, exVars,
          streamVars, hubVars, saasVars, screenVars, setupVars,
          catalogueVars>>

(* What the steps of one component leave alone. *)
BesideBg == <<focus, recVars, riskVars, noteVars, busVars, exVars,
              streamVars, hubVars, saasVars, screenVars, setupVars,
              catalogueVars>>
BesideRec == <<focus, bgVars, riskVars, noteVars, busVars, exVars,
               streamVars, hubVars, saasVars, screenVars, setupVars,
               catalogueVars>>
BesideRisk == <<focus, bgVars, recVars, noteVars, busVars, exVars,
                streamVars, hubVars, saasVars, screenVars, setupVars,
                catalogueVars>>
BesideNote == <<focus, bgVars, recVars, riskVars, busVars, exVars,
                streamVars, hubVars, saasVars, screenVars, setupVars,
                catalogueVars>>
BesideBus == <<focus, bgVars, recVars, riskVars, noteVars, exVars,
               streamVars, hubVars, saasVars, screenVars, setupVars,
               catalogueVars>>
BesideEx == <<focus, bgVars, recVars, riskVars, noteVars, busVars,
              streamVars, hubVars, saasVars, screenVars, setupVars,
              catalogueVars>>
BesideSt == <<focus, bgVars, recVars, riskVars, noteVars, busVars, exVars,
              hubVars, saasVars, screenVars, setupVars, catalogueVars>>
BesideHub == <<focus, bgVars, recVars, riskVars, noteVars, busVars, exVars,
               streamVars, saasVars, screenVars, setupVars, catalogueVars>>
BesideSaas == <<focus, bgVars, recVars, riskVars, noteVars, busVars,
                exVars, streamVars, hubVars, screenVars, setupVars,
                catalogueVars>>
BesideScr == <<focus, bgVars, recVars, riskVars, noteVars, busVars, exVars,
               streamVars, hubVars, saasVars, setupVars, catalogueVars>>
BesideSet == <<focus, bgVars, recVars, riskVars, noteVars, busVars, exVars,
               streamVars, hubVars, saasVars, screenVars, catalogueVars>>
BesideCat == <<focus, bgVars, recVars, riskVars, noteVars, busVars, exVars,
               streamVars, hubVars, saasVars, screenVars, setupVars>>

Init ==
  /\ focus \in Focus
  /\ Bg!Init
  /\ Rec!Init
  /\ Risk!Init
  /\ Note!Init
  /\ Bus!Init
  /\ Ex!Init
  /\ St!Init
  /\ Hub!Init
  /\ Saas!Init
  /\ Scr!Init
  /\ Set!Init
  /\ Cat!Init
  /\ focus # "notifying" => sender  \* else every part starts in both states

Retrying ==
  /\ focus = "retrying" /\ Bg!RetryPart
  /\ UNCHANGED BesideBg

Heartbeat ==
  /\ focus = "heartbeat" /\ Bg!HeartStep
  /\ UNCHANGED BesideBg

Queueing ==
  /\ focus = "queueing" /\ Rec!QueueStep
  /\ UNCHANGED BesideRec

Recovering ==
  /\ focus = "recovering" /\ Rec!CoordStep
  /\ UNCHANGED BesideRec

Reconciling ==
  /\ focus = "reconciling" /\ Rec!ReconcileGrid
  /\ UNCHANGED BesideRec

Gating ==
  /\ focus = "gating" /\ Risk!Next
  /\ UNCHANGED BesideRisk

Notifying ==
  /\ focus = "notifying" /\ Note!Next
  /\ UNCHANGED BesideNote

Publishing ==
  /\ focus = "publishing" /\ Bus!Next
  /\ UNCHANGED BesideBus

Calling ==
  /\ focus = "calling" /\ Ex!Next
  /\ UNCHANGED BesideEx

Streaming ==
  /\ focus = "streaming" /\ St!Next
  /\ UNCHANGED BesideSt

Sharing ==
  /\ focus = "sharing" /\ Hub!Next
  /\ UNCHANGED BesideHub

Billing ==
  /\ focus = "billing" /\ Saas!BillingStep
  /\ UNCHANGED BesideSaas

Subscribing ==
  /\ focus = "subscribing" /\ Saas!SubscriptionStep
  /\ UNCHANGED BesideSaas

Referring ==
  /\ focus = "referring" /\ Saas!ReferralStep
  /\ UNCHANGED BesideSaas

Screening ==
  /\ focus = "screening" /\ Scr!StoreStep
  /\ UNCHANGED BesideScr

Analyzing ==
  /\ focus = "analyzing" /\ Scr!ScreenOne
  /\ UNCHANGED BesideScr

Moding ==
  /\ focus = "moding" /\ Set!ModeStep
  /\ UNCHANGED BesideSet

Stepping ==
  /\ focus = "stepping" /\ Set!StepsStep
  /\ UNCHANGED BesideSet

Planning ==
  /\ focus = "planning" /\ Set!PlanStep
  /\ UNCHANGED BesideSet

Listing ==
  /\ focus = "listing" /\ Cat!PresetStep
  /\ UNCHANGED BesideCat

Grouping ==
  /\ focus = "grouping" /\ Cat!GroupStep
  /\ UNCHANGED BesideCat

Linking ==
  /\ focus = "linking" /\ Cat!AccountStep
  /\ UNCHANGED BesideCat

Next ==
  \/ Retrying
  \/ Heartbeat
  \/ Queueing
  \/ Recovering
  \/ Reconciling
  \/ Gating
  \/ Notifying
  \/ Publishing
  \/ Calling
  \/ Streaming
  \/ Sharing
  \/ Billing
  \/ Subscribing
  \/ Referring
  \/ Screening
  \/ Analyzing
  \/ Moding
  \/ Stepping
  \/ Planning
  \/ Listing
  \/ Grouping
  \/ Linking

Spec == Init /\ [][Next]_vars

-----------------------------------------------------------------------------
(* A submitted job waits in exactly one place, the queue or one run's      *)
(* hand, until it ends; it is tried at most MaxRetries times, and it is    *)
(* given up or a dead letter only after that many failures, however runs   *)
(* of process_queue overlap and whatever the scheduler does to the task.   *)
(* HeartbeatMonitor reports no component that is not registered, except    *)
(* one that was unregistered while its check was awaited.                  *)
TasksAccounted == Bg!TasksAccounted

(* A queued order is handed to place_order at most once, through any       *)
(* number of disconnects and reconnects of any exchange, and an order that *)
(* waits has not been handed over yet.                                     *)
ReplayedOnce == Rec!ReplayedOnce

(* After a grid reconciliation the level agrees with what the exchange     *)
(* lists: a filled entry or exit shows, an OPEN level's order works or is  *)
(* reported missing, unless it was rejected or has expired, a WAITING      *)
(* level names no order, and every working order is named by the level or  *)
(* reported as an orphan.                                                  *)
GridAgrees == Rec!GridAgrees

(* The books balance for longs and shorts: what a position has realised is *)
(* the money its booked fills moved plus what it still holds at its        *)
(* average entry, and it is closed exactly when it holds nothing.          *)
BooksBalance == Risk!BooksBalance

(* An order that passed check_order_risk keeps the portfolio within the    *)
(* limits when it fills, unless a price, another fill or a forced close    *)
(* came between the check and the fill.                                    *)
GateHolds == Risk!GateHolds

(* A notification waits in one place until it is settled; success over a   *)
(* channel that has something to send with means the recipient got it, and *)
(* nobody gets it more than MaxSends times.  Once no call is under way the *)
(* service and its queue agree on what was sent and what failed, unless a  *)
(* call was cancelled; a queue with nothing to send with counts neither,   *)
(* and sends nothing, while the service counts the failures.               *)
NotifyAccounted == Note!NotifyAccounted

(* A listening bus gets every channel somebody subscribed to, however      *)
(* subscriptions, broken connections, restarts and closes interleave,      *)
(* unless the subscriber's own command is under way or raised, or came     *)
(* after a close that a new listener overlapped had dropped its pubsub;    *)
(* and a future waits only for a request that may still be answered, or    *)
(* one whose publication raised or whose caller was cancelled.             *)
BusCovers == Bus!BusCovers

(* What a call reports as over is over on the exchange, and what it        *)
(* reports as filled is filled; a cancel_all that returns leaves none of   *)
(* the orders that were open when it began working as before.  Left out is *)
(* the call whose answer carried a refusal the adapter does not read,      *)
(* which only Bybit, OKX and Hyperliquid send.                             *)
HonestAnswer == Ex!HonestAnswer

(* place_order creates the order it reports and no other, through retries  *)
(* and the resend after a clock synchronisation, except for the requests   *)
(* whose answer was lost: those it reports as an error or not at all.  A   *)
(* refusal it does not read it reports as an open order, and creates none. *)
NoUnexplainedOrder == Ex!NoUnexplainedOrder

(* Once nobody is inside connect(), a registered callback has its stream   *)
(* on the open socket, whatever broke and however connects and             *)
(* subscriptions overlapped, unless the last connect ran out of tries.     *)
(* The adapters whose streams are never forgotten are left out: there a    *)
(* stream subscribed to again after an unsubscribe is taken for a          *)
(* duplicate and never sent.                                               *)
StreamsServed == St!StreamsServed

(* Consumers of one stream share one subscription: it is open exactly as   *)
(* long as somebody holds it, whoever comes, goes or fails in between and  *)
(* whatever the connection does.  A key whose first subscribers overlapped *)
(* is left out: the second overwrites the first one's entry.               *)
OneFeedPerStream == Hub!OneFeedPerStream

(* When no payment of it waits and none raised after the money was taken,  *)
(* a "paid" invoice was charged and a charged one shows "paid" or the      *)
(* "failed" of a later try: a cancel_invoice that overtakes the charge     *)
(* never leaves a charged invoice cancelled, and successful payments never *)
(* exceed the charges that took money.  However upgrades, cancellations,   *)
(* expiries and renewals follow one another, a subscription never ends     *)
(* before the days paid for are over, and an affiliate's referral count is *)
(* the size of its downline.                                               *)
SaasBooks == Saas!SaasBooks

(* However passes, overrides, deadlocks and shutdowns interleave, a stored *)
(* threshold is the smallest drop its closes bear out, or the fallback     *)
(* when they bear out none; a pass has stored every rate before the one it *)
(* is at, so what interrupts it loses that rate only; and a breaker is     *)
(* never set up without a threshold and a known resume mode.               *)
ThresholdsJustified == Scr!ThresholdsJustified

(* Once no change is under way, the cached strategy modes are the          *)
(* committed ones, whoever rolled back or came in between.  Two ways to a  *)
(* stale cache are left out: a load that ran during the change, which may  *)
(* cache what it read before the commit, and a load that failed.           *)
CacheCurrent == Set!CacheCurrent

(* However updates of an instance's averaging steps overlap, each is there *)
(* as a whole or not at all and no step number twice; the levels made of   *)
(* the steps never rise and sell above what they buy at; an even grid's    *)
(* levels rise and sell within the range; and a money plan that is         *)
(* accepted buys for at least the minimum, spends no more than the capital *)
(* and leaves less than a cent per layer, while one that is refused with   *)
(* fewer coins than a group it fits lacks the minimum.                     *)
SetupSound == Set!SetupSound

(* Through every order of listings, edits, deletions and re-seedings, a    *)
(* built-in preset or group is there once at most and a user has one live  *)
(* account, so that get_by_name and the check for an account never meet    *)
(* two rows, unless two such requests overlapped or somebody gave a row    *)
(* the name by hand; and what a user owns is never marked built in.        *)
OneOfEach == Cat!OneOfEach
=============================================================================
