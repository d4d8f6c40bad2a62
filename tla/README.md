# Utos: a TLA+ model of the trading backend

Utos (`src/backend`) runs trading bots: a process per trading instance feeds
market prices to a grid engine, which places and cancels orders through an
execution engine and an exchange adapter.  All of it is asyncio on one event
loop, in one server process.  This directory models the engines and the services
around them, checks the models with TLC and proves all but a few of the checked
properties, for every value of the constants, with TLAPS.

## The system

| Component (`src/backend/...`) | State it keeps | Operations | What is hard | What makes it correct |
|---|---|---|---|---|
| Execution engine (`engine/execution`) | tracked orders by order id, request index, retry loop | `place_order`, `cancel_order`, `cancel_all_orders`, `sync_order` | awaits of the exchange, lost answers, retries, re-keying, late answers | one order per request, truthful statuses, nothing forgotten, nothing stuck |
| Grid engine (`engine/grid`) | grid status, levels with their order ids, configuration per instance | initialize, activate, pause, resume, close, `on_price_update`, `on_buy_filled`, `on_sell_filled`, `force_buy`, `force_sell` | fills arrive late and name a level, plans are worked through across awaits, errors drop the rest of a plan | never sell what is not held, never buy a level twice, nothing working when paused |
| Circuit breaker (`engine/grid/circuit_breaker.py`) | triggered, day, day's open, low | `check_new_day`, `trigger`, `update_bottom`, `reset` | day rollover, boundary prices, three resume modes | no bids of ticks while triggered, the low belongs to the fall |
| Profit lock (`engine/profit_lock`) | one lock per filled level: state, highest profit, lock price, order id | enable, disable, price, position, order filled or cancelled | disable and fills during the await of the lock order | at most one exit order, it is never lost |
| Process manager (`engine/trading`) | registry, process objects, Redis lock, rows | create, prepare, start, pause, resume, stop, delete, recover | awaits between check and write, swallowed failures, lock expiry, crash and restart | registry, subscription, grid and row agree; one process per bot |
| Recovery (`engine/recovery`) | order queue, connection states, portfolio, grid snapshots | queue, disconnect, reconnect, recover, reconcile | replay, partial listings, orders that moved while away | nothing replayed twice, the grid agrees with the exchange |
| Market hub (`market`) | cache, consumers, streams, connector | subscribe, unsubscribe, fan out, reconnect | overlapping first subscribers, failed opens | one stream per key, open while somebody holds it |
| Background tasks (`engine/scheduler`) | retry queue, dead letters, heartbeats | submit, process, replay, check | copy-and-clear queues, cancelled runs | every job is in one place until it ends |
| Notifications (`engine/notification`) | rules, queue, counters of two layers | notify, process, retry | overlapping dispatches | sent once, counted once |
| Event bus (`events`) | handlers, listener task, response futures | subscribe, request, listen, close | broken connections | a listener hears every subscribed channel |
| Risk engine (`engine/risk`) | positions, capital, limits | check, fill, close, price | checks made before fills arrive | books balance, the gate holds |
| Adapters (`exchanges/adapters`, `http_client.py`) | session, clock offset | every call of the adapter interface | five APIs, retries of lost answers | an answer says what happened |
| Streams (`exchanges/websocket_manager.py`) | socket, remembered subscriptions | connect, subscribe, unsubscribe, disconnect | several connects at once | a registered callback gets its stream |
| Breaker screening (`services/*screen*`, `daily_drop_analyzer.py`) | thresholds table, cached candles | rescreen, override, read | two passes on one table, shutdown in the middle | a stored threshold follows from its candles |
| Setup (`strategy_mode_store.py`, averaging steps, calculators) | mode cache, steps, plans | load, edit, replace, calculate | cache against transactions, concurrent replacement | cache current, steps whole, plans affordable |
| Catalogue (presets, coin groups, exchange accounts) | rows | seed, list, create, change, delete | seeding by the first reader, no unique constraint | a built-in once, an account once |
| Commercial services (`services/saas`) | invoices, subscriptions, affiliates | pay, cancel, upgrade, renew, refer | providers that await | charges and invoices agree |

The API calls the process manager, which builds a grid and subscribes it to the
market hub; the hub calls `on_price_update`; the grid engine calls the execution
engine; that calls an exchange adapter; the profit lock calls the execution
engine and is driven by the grid engine's ticks and fills.  At this commit
nothing in the backend but its tests delivers fills to the grid engine, so the
models let a fill callback come at any time after the fill.

## Modules

| Module | Models |
|---|---|
| `OrderLifecycle` | abstract: the life of one request, from new to filled, cancelled, rejected or failed |
| `OrderExecution` | `ExecutionEngine`, `OrderTracker`, `OrderExecutor`, `OrderStateMachine`, and the exchange they observe |
| `OrderExecutionProofs` | `OrderExecution`: types, truthful statuses and fills, idempotency, the refinement of `OrderLifecycle`, nothing forgotten |
| `GridCycle` | abstract: the life of one level: flat, bid, held, offered |
| `CircuitBreaker` | `CircuitBreakerState`, as operators on the breaker record |
| `GridEngine` | `GridEngine`, `GridPlanner`, `GridStateStore` and the exchange as the execution engine shows it |
| `GridEngineProofs` | `GridEngine` under every interleaving and fault: types, names, breaker |
| `GridSerialProofs` | `GridEngine` with calls one at a time: its books, its pause, the refinement of `GridCycle` |
| `ProfitLock` | `ProfitLockEngine`, `ProfitLockPolicy`, `ProfitLockStateMachine`, `ProfitLockStore` |
| `ProfitLockProofs` | `ProfitLock`: one exit, the trail, what a locked or executing lock has |
| `ProcessManager` | `TradingProcessManager`, its lock and registry, `ProcessStateMachine`, the endpoints and `main.lifespan` |
| `ProcessManagerProofs` | `ProcessManager`: registry, row, grid and subscription agree |
| `Recovery` | `ConnectionRecovery`, `RecoveryCoordinator`, `StateRecovery`, `RuntimeReconciler` |
| `MarketHub` | `MarketHub`, `SubscriptionManager`, `ExchangeConnector`, `MarketCache` |
| `BackgroundTasks` | `RetryWorker` under `JobScheduler`, `DeadLetterQueue`, `HeartbeatMonitor` |
| `Notification` | `AutomationRules`, `NotificationService`, `NotificationQueue`, channels |
| `RedisBus` | `RedisEventBus` |
| `RiskGate` | `RiskManager`, `PortfolioManager`, `ExposureManager`, metrics |
| `ExchangeAdapter` | the five adapters over `HttpClient` and `RetryPolicy` |
| `ExchangeStreams` | `WebSocketManager` and the adapters' market streams |
| `BreakerScreening` | `DailyDropAnalyzer`, `CircuitBreakerScreener`, `BreakerScreeningStore`, their table |
| `InstanceSetup` | strategy mode cache, averaging steps, `GridCalculator`, `MMCalculator` |
| `Catalogue` | presets, coin groups and exchange accounts |
| `Saas` | `BillingService`, `SubscriptionService`, `AffiliateService` |
| `ServicesProofs` | the services but those of `RetryProofs`, and their composition |
| `RetryProofs` | retry jobs, notifications and adapter requests, and their composition |
| `MC...` | constants and symmetry for TLC |

A coroutine is a record in `task` (or one function per stage): where it waits,
what it has read and what is left of its plan.  A step is the code between two
awaits that suspend; an await is two steps, the other side acting and the
coroutine resuming with the answer, so that everything else may happen in
between.  Calls whose awaits never suspend are one step.

`OrderExecution`: `orders` and `index` are the tracker's two dictionaries,
`tracked` holds the tracked order a request created, `exch` is the exchange's
truth by request and attempt.  The local placeholder id `<<r, 0>>` becomes the
exchange's id in `PlaceReturns`, which is `re_key`.  `Update` is
`_transition` followed by `OrderTracker.update`, including the second lookup of
the order under the caller's id.  What an exchange says need not be so: it may
take an order and answer "pending", and answer a cancel that it carries out later
or never (`told`); `cancel_order` writes CANCELLED after any answer that raises
nothing.  A timeout of `cancel` and an `OrderNotFound` are no `ExchangeError`, so they
leave `cancel_order` by another path than a refusal it catches (`CancelRefused`).

`GridEngine`: `level` is the list of `GridLevel`s, `orders` the orders the
exchange has for the grid, `told` whether the fill callback has run.  `Decide` is
the body of `on_price_update` after the cancels, with the TA verdict as either
answer.  `Continue` goes on to the next action of a plan or ends the call,
`Raise` is an exception that drops what is left of it.  Prices of orders are left
out: an order may fill whenever it works, which covers every price path.

`ProfitLock`: `lock` is the state in the store, numbered by `gen`, since `enable`
puts a new object there while a coroutine may still hold the old one; `orders` is
the exchange, with the `gen` each order was placed for.  Policy and handler of a
tick run without an await, so each outcome of the policy is one action
(`TriggerLock`, `UpdateLock`, `ExecuteLock`); a tick that raises is no step.
Prices are whole and lock prices in hundredths of them, so percentages are exact,
as in the code's Decimals for such prices.

`ProcessManager`: `row` holds the committed rows, a request's own writes are in its
`task` until `Commit`; an exception (`Rollback`) undoes them and nothing else, so
what it did to Redis, the registry or the grid stays.  A flush, a query or the
commit may fail at every place the code has one, and `pause_grid` half way, which
`_unwire_grid_and_market` logs and goes on from.  `Restart` is a crash at any
point: memory is gone, rows and locks are not, and the orders of the lost grids
become `orphans`.  `mishap` remembers what the properties except of an instance: that
requests overlapped on it ("mixed"), that a transaction failed after it had changed
registry, grid or subscription ("undone"), that a pause failed ("restless").

The twelve service modules share the variable conventions above but not their
state; each has one step operator per group of operations.  Where a database is
involved it is external: read committed, an UPDATE or DELETE waits for the rows
another transaction holds.  `RedisBus.close` is two steps, since it sets `pubsub` to
None after it has awaited the close of the one it found, and `conn` may be a newer
one by then.  A channel of `Notification` may have nothing to send with and answer
success all the same, as the default ones do, and a queue may have no sender.
`Recovery` lists orders in all eight statuses the adapters produce.  Exchanges are external too: a request that is never
answered may have been carried out.  `ExchangeAdapter` describes what the five
adapters have in common once and their differences in tables (`BinanceOrders`,
`BybitStatus`, ...): which requests a call makes, what raises, what a status means.
A refusal is a status of 400 and up, or, for Bybit, OKX and Hyperliquid, a code in
the body of a 200, which an adapter reads or does not (`unread`).

## Runs

| Run | Question | Bounds |
|---|---|---|
| `exec_faults` | with lost answers, timeouts and retries: do orders keep to the lifecycle, does every submission settle and every call return? | 1 request, 2 coroutines, 2 attempts, quantity 1 |
| `exec_answered` | with every call answered: does the tracker stay truthful, does a request find its own order, and which working orders are forgotten? | 2 requests, 2 coroutines, 1 attempt, quantity 2 |
| `exec_cancel` | does every cancel leave CANCELLING? It does not | 1 request, 1 coroutine, 1 attempt, no faults |
| `exec_retry` | does a retry keep the promise of one order per request? It does not | 1 request, 1 coroutine, 2 attempts |
| `grid_serial` | does a grid keep its books, calls one at a time, fills and callbacks at any time, every resume mode, two days? | 2 levels, 3 prices, 4 orders |
| `grid_concurrent` | what survives two overlapping calls, forced orders, lost answers? | 1 level, 2 prices, 3 orders |
| `grid_force` | can force_sell oversell? It can | as `grid_serial` |
| `profit_lock` | does a lock sell its position once and only trail upwards, under every overlap, fault and re-enable? | 5 prices, 2 coroutines, 2 enables, 3 orders |
| `profit_cap` | does the profit cap sell whenever it is reached? It does not | as `profit_lock` |
| `process` | do registry, subscription, grid, lock and row agree between requests, through failures of every step, lock expiry, crash and recovery? | 1 instance, 3 boots, 2 requests at a time in the first |
| `process_twins` | can two instances of one symbol, strategy and account run? They can | 2 instances, 1 request at a time |
| `services` | does each service keep its books under overlap, failure, retry and lost answers? | below |

`services` starts in one of 22 foci (`Focus`), each of which lets one group of
operations of one component step; the components share nothing, so this is the
same as a run for each.  Its properties, by component:

- `TasksAccounted` (`BackgroundTasks`): a job is in one place until it ends, is
  tried at most `MaxRetries` times, a dead letter is a job that failed that often;
  no health result outlives its component, except for a check under way.  Two
  jobs and two overlapping runs, so a job is re-queued behind another run's back.
- `ReplayedOnce`, `GridAgrees` (`Recovery`): two exchanges, two orders, through any
  number of disconnects; every combination of entry and exit of a level with what
  the exchange lists, in every status of an order.
- `BooksBalance`, `GateHolds` (`RiskGate`): longs and shorts of two traders in two
  coins, three fills.
- `NotifyAccounted` (`Notification`): two channels, each with something to send with
  or not, two overlapping dispatches, with and without a sender.
- `BusCovers` (`RedisBus`): two channels, a request, two connections and two closes at
  a time: one break, and a close that a new connection overlaps.
- `HonestAnswer`, `NoUnexplainedOrder` (`ExchangeAdapter`): all five adapters, each
  call, three tries of a request, two orders.
- `StreamsServed` (`ExchangeStreams`): two streams, two coroutines in `connect`, two
  sockets, so one replaces another.
- `OneFeedPerStream` (`MarketHub`): three consumers of a key, three subscriptions.
- `SaasBooks` (`Saas`): two invoices with two payments at a time, two members, four days.
- `ThresholdsJustified` (`BreakerScreening`): two coins, two rates, a pass of each
  kind; and every series of up to six closes of four prices through `screen_one`,
  with the tiers' windows scaled by `DayScale`.  The reference definition
  (`Critical`) is stated over days instead of over the code's list of drops.
- `CacheCurrent`, `SetupSound` (`InstanceSetup`): two readers and two editors of a
  mode; two owners replacing steps while the template changes; the calculators
  over capitals and bounds on either side of every limit.
- `OneOfEach` (`Catalogue`): two requests at a time, two customers, four rows: two
  built-in ones and their twins.

Why the other bounds are enough: orders of different requests meet only in the
tracker's tables, so two coroutines on one request (`exec_faults`) and two on
two (`exec_answered`) give every overlap of two calls on one order and on two; two
attempts are one retry, after which the loop only repeats itself; a quantity of
two has a partial fill, so that a stale one can follow the last.  Two levels make
plans of two actions, so an error can fall between them; three prices reach
below, between and above the levels and sit exactly on the breaker's threshold;
four orders are a bid, its exit and both once more.  For the profit lock, five
prices lie below, at and above the entry, on the trigger and on the cap; two
enables give one replaced and one present state, three orders a cancelled one, a
second of the same lock and one of another.  Instances of the process manager
meet only in the duplicate check, which `process_twins` is about; requests
overlap on it in the first boot only (`MaxMixed`), since a crash ends every request
under way and leaves the next boot rows, locks and orders, none of which tells
whether requests overlapped; three boots are a crash in the middle of a recovery.  Bounds are constants
(`MaxRetries`, `MaxOrders`, `MaxGen`, `MaxDay`, `MaxBoots`, ...); retry limits are the
code's own, and what is over another bound can only be refused.

Deadlock is not checked: a system with nothing left to do stops.

Fairness (`exec_faults` and `exec_cancel` only): weak fairness of every coroutine's next step.  The
event loop resumes each coroutine whose await is done, and the exchange answers
or the transport gives up.  Nobody is bound to call again, no order is bound to
fill.

Which properties need which assumption:

- `Truthful` excepts of CANCELLED the order whose cancel the exchange has answered
  and not carried out.  The run has partial fills and every call answered; the
  theorem has every fault.
- `NoForgottenOrder` is checked without transport faults: with them a lost answer of
  `place_order` leaves a working order the tracker calls FAILED.  It excepts the
  orders of which the exchange has said "cancelled" too early, or "pending" to a
  placement: SUBMITTING has no transition to PENDING, so the engine fails the order.
- It, `OwnResult` and `Truthful` are for exchanges that return an order id of their
  own (`NamesOrders`).  Adapters that return `""` without a client order id make the
  tracker's keys collide.
- `NoOversell`, `OneExposure`, `PausedIsQuiet`, `BreakerHoldsBuys` and
  `ImplementsCycle` are checked with calls one at a time, which is how one
  connector delivers prices, and with an execution engine whose exceptions mean
  that no order was placed.  `exec_retry` shows when that is not so;
  `grid_concurrent` has overlapping calls and lost answers, and claims less.
- `OneExit` counts the orders of one enabled lock.  A lock disabled while its
  order is being placed, or enabled again over a working order, leaves that order
  on the exchange, and the next enable may sell the position again: the code does
  not prevent it and no property claims it.
- `LockedIsSold` and the rest of `profit_lock` have every fault.  A lock order that is
  cancelled after a part of it has filled is left out: the model's order fills as
  a whole.
- `BreakerHoldsBuys` is about ticks.  `resume_grid` and `activate_grid` plan
  without the breaker, although `circuit_breaker.py:7` says "No new buy orders
  are placed".
- `RegistryMatchesRow`, `QuietUnlessRunning` and `StopCancelsBeforeRestart` are about
  instances whose requests did not overlap in this boot (a pause that overtakes a
  stop writes PAUSED over STOPPED) and no transaction of which failed after it had
  touched the process (nothing takes that back); the last, and of the second what
  it says of grids, also leave out a failed `pause_grid`.
- `HonestAnswer` and `NoUnexplainedOrder` leave out refusals the adapter does not read,
  `GridAgrees` orders listed as rejected or expired.
- Where a service property excepts a case (`mixed`, `raced`, `missed`,
  `loadOverlapped`, ...), the model reaches that case and the code fails there; the
  next section lists them.

## Findings

Each of these has a run whose counterexample shows it:

1. `exec_retry`: `OrderExecutor` retries a placement that timed out with no client
   order id of its own, so one request puts two orders on the exchange; the chaos
   report says idempotency prevents that.
2. `grid_force`: `force_sell` leaves the level FILLED, and the planner sells a
   FILLED level again at its sell price.
3. `profit_cap`: a cap reached in MONITORING asks for a transition the state
   machine forbids; the tick raises and nothing is sold.
4. `process_twins`: `resume` takes an instance to RUNNING without the duplicate
   check `start` makes.
5. `exec_cancel`: a cancel refused as `OrderNotFound`, or followed by a query answered
   "pending", leaves the order in CANCELLING, which a release note says is fixed.

What else the code does that a property had to except, or that modelling showed:

- Execution engine: `cancel_order` ignores the answer of a cancel, so an order the
  exchange still works on is written CANCELLED and forgotten; an order whose
  placement is answered "pending" ends FAILED.
- Grid engine: no plan takes up a CANCELLED level, so a paused and resumed grid
  never trades those levels again, though `docs/releases/SPRINT_08_RELEASE.md:101`
  says that resume re-places them.
- Process manager: a `pause_grid` that raises is logged, and stop goes on to STOPPED
  with orders working.  A flush or commit that fails after the registry or the grid was
  touched rolls back the row alone.  Wiring calls `BreakerScreeningStore()` without its required
  argument (`process_manager.py:541`); the TypeError is swallowed after the grid was
  activated and before the market subscription.  After a restart no grid is
  rebuilt, so stop and pause leave the old orders on the exchange.
- Recovery: the reconciler takes every status but filled and cancelled as live, so an
  OPEN level whose order was rejected or expired is never reported.  The coordinator hands the reconciler empty lists of orders and
  positions; a reconnect of one exchange replays orders queued for another, and a
  replay that fails is dropped.
- Market hub: two overlapping first subscribers open two streams, though
  `subscription_manager.py` promises one; `reconnect` ignores a `connect_market` that
  returns False.
- Event bus: a request whose publication raises, or whose caller is cancelled,
  leaves its future behind; a request before any subscription ends the listener;
  `close` drops a connection that was made while it waited, so later subscribes are
  not sent; after it no handler runs, its executor being shut down.
- Notifications: the default channels answer success with nothing sent; without a
  sender the service counts failures its queue does not.
- Adapters: Bybit, OKX and Hyperliquid refuse in the body of a 200, and their adapters
  report such an order as open or such a cancel as carried out; Bybit's
  `cancel_order` reports "open"; a POST whose answer was lost is
  sent again.
- Streams: a stream unsubscribed and subscribed again is not sent for adapters
  that never forget it; giving up during a reconnect leaves a socket open.
- Billing: paying an invoice twice charges twice; a later failed charge turns
  "paid" into "failed"; a payment overwrites a cancellation.  `create_subscription`
  discards the days that remain.
- Screening: an override of the resume mode does not survive the next pass,
  though the repository's docstring says so; an admin pass without a list screens
  bare coin names that no instance reads; cached candles are never refetched, so
  a later pass sees the first one's; a live candle replaces the history.
- Setup: the mode cache is emptied before the commit, so a load in between caches
  the old modes, and a failed load caches the defaults; concurrent updates with
  disjoint step numbers merge; a template shorter than 35 steps makes reset raise.
- Catalogue: every listing reverts an administrator's change of a built-in preset;
  overlapping first requests insert twins, after which lookups by name raise.

## Proofs

TLC checks small instances; the theorems hold for every value of the constants
that the modules' named assumptions and the theorems' hypotheses allow.  Every
invariant, action property and refinement that a passing run checks is a theorem,
but for the two liveness properties under "Only model-checked", with the exceptions
the property itself names and no others.  A property is seldom inductive: each
theorem rests on an invariant that adds what the property depends on, usually what
a coroutine waiting for an answer may still do.

### Execution engine

`OrderExecutionProofs`, with every fault unless said otherwise:

- `TypeCorrect` (`TypeOK`), from `TypeInv`, which adds what a coroutine at each `pc`
  holds (`Held`) and what an answer may be (`Answered`): `tracked[req].eid` is read
  after an await, so the order must still have one.
- `TrackerIsTruthful` (`Truthful`), from `IInv`: an order id in the tracker's table
  leads to the request it names (`KeysOwned`); a request nobody placed has nothing
  (`Unused`); at most one coroutine places a request (`PlacingAlone`); and the
  answer a coroutine carries was true when given (`HoldingTrue`), which stays
  harmless because the exchange only moves on in ways `KnownStaysTrue` describes.
- `RequestFindsOwnOrder` (`OwnResult`) and `EngineFollowsLifecycle`
  (`ImplementsLifecycle`: initial states map to initial states, each step to a step
  of one request or a stutter), with every fault, from `LifeInv`, which adds to
  `IInv` that an answer is a report of the exchange and never a status of the
  engine's own.
- `NothingForgotten` (`NoForgottenOrder`) and `OrderedOnce` (`OneOrderPerRequest`),
  without transport faults but with everything an exchange may answer, from `LosslessInv`: when every call is answered a placement is
  never a second attempt.  `exec_retry` refutes `OneOrderPerRequest` with faults, so
  the two together say that lost answers, and not the interleavings, break it.

All but `TypeCorrect` assume `NamesOrders`, as the runs do.

### Grid engine

`GridEngineProofs`, for any coroutines, forced orders and faults: `TypeCorrect`,
`LevelsNameOwnOrders` (`NamesOwnOrders`) and `TriggeredKnowsLow` (`BreakerKnowsLow`).
`BreakerInv` says that order numbers have no gaps, so that a new number is nobody's;
that the order a coroutine has just placed is of the level and side of its action
(`AtWork`); and that a triggered breaker's low is a drop from a known open (`Knows`).

`GridSerialProofs`, for calls one at a time (`OneCall`):

- `TriggeredHoldsBuys` (`BreakerHoldsBuys`), with manual orders and faults: what a
  tick's plan has left to bid the breaker lets it bid (`HeldBids`), since nothing
  moves the breaker before the plan is done.
- `NeverOversells` (`NoOversell`), `NeverBuysTwice` (`OneExposure`),
  `PauseLeavesNothing` (`PausedIsQuiet`) and `LevelsFollowCycle` (`ImplementsCycle`),
  without forced orders and faults (`Serial`).  `SerialInv` ties a level's status to
  the exchange: every order of a level but one is settled, and what the level has
  bought less what it has sold follows from its status and that one order (`Sound`),
  also in the moment the order is placed and not recorded yet (`Placing`); every
  action left in a plan suits its level and is the only one for it (`Planned`).

`grid_force` shows that forced sells break `NoOversell`, and `grid_concurrent` claims
only what the first of these modules proves: the hypotheses are the boundary.

### Profit lock

`ProfitLockProofs`, with every overlap, fault and re-enable: `TypeCorrect`;
`SellsOnce` (`OneExit`), whose `IInv` follows an order from the transition to
EXECUTING until the lock names it (`ReadyIsClear`, `PlacingAlone`, `NamedIsOnly`);
`TrailsTheHigh` (`LockTrailsHigh`) and the action property `NeverFalls`
(`LockRatchets`) from `TrailInv`; `LockedHasSold` (`LockedIsSold`) and
`ExecutingIsCarriedOut` (`ExecutingHasOrder`) from `SaleInv`: a lock names orders
made for it, and an EXECUTING lock has a coroutine on its way or such an order.

### Process manager

`ProcessManagerProofs`, with every failure of a build, wiring, pause, flush or commit,
lock expiry and restart, for finitely
many instances, requests and process objects of which one is always left to build
(`ProcAssumption`): `TypeCorrect`, `RegistryAgrees` (`RegistryMatchesRow`),
`OnlyRunningTrades` (`QuietUnlessRunning`), `StoppedHasNoOrders`
(`StopCancelsBeforeRestart`) and the action property `StatusesFollowTable`
(`RowsFollowTable`).  The properties speak of instances at rest; `IInv` says of each
instance on which no requests overlapped how far its one request has got (`Stage`):
what registry, grid and subscriptions look like between any two of its awaits,
so that whatever raises there leaves them as the row will say, or is the failed
transaction the properties except.  Objects of
different instances are different (`Owned`), an object that can unsubscribe has a
subscription to give back (`Counted`), and during recovery `Recovered` takes over.

### Services

`ServicesProofs` and `RetryProofs` are about the services that move orders, money
and messages, `SetupProofs` about what trading is set up from; the first extends the
last.  Each theorem is about the component's own `Spec`; `ServicesComposed` and
`RetriesComposed` carry them to `MCServices`, whose steps are a step of one component
and a stutter of the others.

| Theorem | Property | Invariant |
|---|---|---|
| `BusReachesSubscribers` | `BusCovers` | `BusInv`: a channel is joined, about to be, or in a command on this very connection; `conn` is the newest connection or none |
| `ModesStayCurrent` | `CacheCurrent` | `CacheInv`: what a load has read and what an edit has invalidated |
| `CallbacksAreFed` | `StreamsServed` | `StreamInv`: a remembered stream is on the open socket or in the hand of who resends |
| `ConsumersShareOneFeed` | `OneFeedPerStream` | `HubInv`: the entry of a key counts exactly its holders and those on their way |
| `BooksAlwaysBalance` | `BooksBalance` | `BooksInv`: realised profit, money moved and cost, per position |
| `ChecksHold` | `GateHolds` (action) | `GateInv`: an order nothing overtook was checked against the books as they are |
| `QueueReplaysOnce` | `ReplayedOnce` | `QueueInv`: inductive once the queue has its type |
| `ReconciledGridAgrees` | `GridAgrees` | inductive as it stands |
| `RowsAreOneOfEach` | `OneOfEach` | `CatInv`: a session that may still insert is alone and has seen every such row |
| `StoredThresholdsJustified` | `ThresholdsJustified` | `ScrInv`: every row of the table and whatever a pass or probe holds in hand is borne out by the closes it came from; a pass has stored every earlier rate |
| `SetupStaysSound` | `SetupSound` | `StepsInv`: the rows, what each update has seen and what it will delete are all made of whole updates; `PlanInv` |
| `LedgersAgree` | `SaasBooks` | `BillInv`: each charge is counted, on its way back, or lost; `MemberInv` |
| `JobsAreAccounted` | `TasksAccounted` | `RetryInv`, `HeartInv`: a job is in the queue or in one run's copy, once |
| `NotesAreAccounted` | `NotifyAccounted` | `NoteInv`, `MetricsAgree`: the same for notifications, and what each layer has yet to count |
| `AnswersAreHonest`, `PlacedOnce` | `HonestAnswer`, `NoUnexplainedOrder` | `AdapterInv`: what each request still to be made asks for, and what the answers so far allow to say, refusals read or not |

`ChecksHold` and `LedgersAgree` are about sums over finite sets (exposure, charges),
which the community modules compute one element at a time in an order of their
own.  That the order does not matter is an induction over subsets, carried out as
a least counterexample under strict inclusion (`LeastSubset`, from the library's
well-foundedness of that order): a sum exists (`SumExists`), is a whole number
(`SumIsWhole`), may take any element first (`SumTakes`) and changes by what one
element changes (`SumChanges`).

`StoredThresholdsJustified` compares the code's scan, a recursive function over the
candidates, with the property's definition, which counts sets of days by another
index and inequality: the counts agree (`QualifiesIsCritical`), the scan exists and
stops at the first candidate that qualifies, and since the candidates rise that is
the smallest one.  The theorem is for any series of closes, whatever its length.
`SetupStaysSound` rests on whole updates being closed under union, intersection and
difference (`WholeTogether`), which is all that overlapping transactions do to them,
and on rows with different step numbers having an order (`ListingExists`, a least
subset that could not be listed).  Two theorems go beyond the inputs of the run:
`AveragingNeverRises` takes every start price and any rows the API's schema accepts
(drops of 0 to 100, take profits of 1 to 100), and `GridLevelsSound` every range and
number of levels.

The hypotheses of the first two modules are `MCServices.ConstantsAssumption`, which TLC
evaluates, and `NoPos \notin OrderState`.  Beside the finiteness of what is counted:
the tiers are among 70, 80 and 90 and closes are integers; capitals are numbers; prices
and group sizes are positive; lots and, for `ChecksHold`, quotes are positive, and its
limits are integers; `NoPos` is no order, `NoMember` no member and `System` no customer;
at least one key, a bound on sockets that is a number, retry limits of at least one
(`submit` and the queue try once), finitely many tickets that are positive numbers
(`TicketsAssumption`).  All are true of the code, and
of the constants of the run.

Some operators were rewritten for these proofs without a change of meaning:
`ExchangeAdapter.Result` and `OrderExecution.Reported` had CASE arms that overlapped
with the same value; each arm now states its own condition.  Rates and averaging
rows were ordered with `SortSeq`, which has no definition a prover could use, and are
now the one listing of `SetToSeqs` that ascends.  The closes a screener may be
answered with are the constant `Series`, which `Services.cfg` gives a history with
one long fall (`LongFall`).

### Only model-checked

- `PlacementSettles` and `CallsReturn`: liveness under fairness, outside the
  prover's reach as is ENABLED.
- The five runs that show a violation.

The proofs use no induction theorem of the library, since those take an operator
as a parameter; where an induction is needed it is a least counterexample.

## Plan

Modules to be proved about declare no RECURSIVE operator and name their
assumptions.  What would say most next:

1. `ProfitLock` composed with `GridEngine` (trailing exits against planned sells),
   and `ProcessManager` with `MarketHub`.
2. A lock order that is cancelled after a part of it has filled.

## Not modelled

Persistence helpers and the symbol registry (serialisation, a fixed table);
technical analysis (floating-point indicators without state; the grid takes the
verdict as either answer); the rate limiter (it delays and changes no result);
authentication, users and read-only endpoints, tables and migrations (single-row
operations and declarations); roles, licences and sessions (in-memory look-ups used by
tests); backup, restore, middleware, metrics and logging (files, subprocesses,
configuration).  Decimal arithmetic is modelled by integers scaled so that the
results are exact.
