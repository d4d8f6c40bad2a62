------------------------------ MODULE MarketHub ------------------------------
(***************************************************************************)
(* src/backend/market: MarketHub, its SubscriptionManager, one             *)
(* ExchangeConnector and the MarketCache.  A coroutine runs up to its next *)
(* await on the adapter; other consumers come in between.  The adapter is  *)
(* external: the interface of adapters/base.py, a subscription id per      *)
(* subscribe_market, any call may raise.                                   *)
(***************************************************************************)
EXTENDS Naturals, FiniteSets

CONSTANTS
  Key,         \* logical keys: a symbol's channel on the exchange
  Consumer,    \* consumers, each subscribing once at a time
  MaxSubs      \* bound: subscription ids the adapter hands out

VARIABLES
  hub,         \* down | up | stopped
  started,     \* _running of the connector
  logical,     \* SubscriptionManager._logical
  subMap,      \* ExchangeConnector._sub_map
  handedOut,   \* subscription ids the adapter has handed out
  consumer,    \* where a consumer stands
  status,      \* ConnectorMetrics.status, "none" without metrics
  aged,        \* last_update of the metrics is past the threshold
  cachedPrice, \* the cache entry: none | fresh | stale
  relinking,   \* reconnect() is under way
  overlapped   \* history: a first subscribe began during another one

hubVars == <<hub, started, logical, subMap, handedOut, consumer, status, aged, cachedPrice,
             relinking, overlapped>>

NoEntry == [id |-> 0, refcount |-> 0, callbacks |-> {}]
Away(k) == [pc |-> "away", key |-> k, id |-> 0]

Init ==
  /\ hub = "down" /\ started = FALSE
  /\ logical = [k \in Key |-> NoEntry] /\ subMap = {} /\ handedOut = 0
  /\ consumer = [c \in Consumer |-> Away(CHOOSE k \in Key : TRUE)]
  /\ status = [k \in Key |-> "none"] /\ aged = {}
  /\ cachedPrice = [k \in Key |-> "none"] /\ relinking = FALSE
  /\ overlapped = {}

-----------------------------------------------------------------------------
Start ==
  /\ hub = "down"
  /\ hub' = "up"
  /\ UNCHANGED <<started, logical, subMap, handedOut, consumer, status, aged, cachedPrice, relinking,
                 overlapped>>

(* stop, at shutdown: the manager, the cache and the connection go. *)
Stop ==
  /\ hub = "up"
  /\ hub' = "stopped" /\ started' = FALSE
  /\ logical' = [k \in Key |-> NoEntry]
  /\ cachedPrice' = [k \in Key |-> "none"]
  /\ status' = [k \in Key |-> IF status[k] = "none" THEN "none" ELSE "disconnected"]
  /\ UNCHANGED <<subMap, handedOut, consumer, aged, relinking, overlapped>>

Opening(k) == {c \in Consumer : consumer[c].key = k /\ consumer[c].pc \in {"starting", "opening"}}

(* Mutant: a consumer who joins is not counted. *)
JoinedUncounted(e, c) == [e EXCEPT !.callbacks = @ \cup {c}]
Joined(e, c) == [e EXCEPT !.refcount = @ + 1, !.callbacks = @ \cup {c}]

(* A later consumer joins the stream of the first without an await. *)
Join(c, k) ==
  /\ hub = "up" /\ consumer[c].pc = "away" /\ logical[k].id # 0
  /\ logical' = [logical EXCEPT ![k] = Joined(@, c)]
  /\ consumer' = [consumer EXCEPT ![c] = [pc |-> "held", key |-> k, id |-> 0]]
  /\ UNCHANGED <<hub, started, subMap, handedOut, status, aged, cachedPrice, relinking, overlapped>>

(* The first one opens it, and the connector before that if need be; the   *)
(* connector counts as running from here on, connected or not.             *)
OpenFirst(c, k) ==
  /\ hub = "up" /\ consumer[c].pc = "away" /\ logical[k].id = 0
  /\ consumer' = [consumer EXCEPT ![c] =
       [pc |-> IF started THEN "opening" ELSE "starting", key |-> k, id |-> 0]]
  /\ started' = TRUE
  /\ status' = [j \in Key |->
       IF (IF started THEN j = k /\ status[j] \in {"none", "disconnected"}
                      ELSE status[j] = "disconnected")
       THEN "connecting" ELSE status[j]]
  /\ overlapped' = IF Opening(k) = {} THEN overlapped ELSE overlapped \cup {k}
  /\ UNCHANGED <<hub, logical, subMap, handedOut, aged, cachedPrice, relinking>>

Everywhere(s) == [j \in Key |-> IF status[j] = "none" THEN "none" ELSE s]

(* The lazy start ends, failed or not, and the subscription goes out. *)
ConnectorStarted(c) ==
  /\ consumer[c].pc = "starting"
  /\ consumer' = [consumer EXCEPT ![c].pc = "opening"]
  /\ \E s \in {"connected", "disconnected"} :
       status' = [Everywhere(s) EXCEPT ![consumer[c].key] =
                    IF @ = "connected" THEN @ ELSE "connecting"]
  /\ UNCHANGED <<hub, started, logical, subMap, handedOut, aged, cachedPrice, relinking, overlapped>>

(* The adapter answers: the entry is written afresh, over that of another  *)
(* first consumer if there is one.  A manager the hub dropped is not seen. *)
Opened(c) ==
  /\ consumer[c].pc = "opening" /\ handedOut < MaxSubs
  /\ LET k == consumer[c].key  id == handedOut + 1 IN
     /\ handedOut' = id
     /\ subMap' = subMap \cup {<<id, k>>}
     /\ status' = [status EXCEPT ![k] = "connected"] /\ aged' = aged \ {k}
     /\ logical' = IF hub # "up" THEN logical
                   ELSE [logical EXCEPT ![k] = [id |-> id, refcount |-> 1, callbacks |-> {c}]]
     /\ consumer' = [consumer EXCEPT ![c].pc = "held"]
  /\ UNCHANGED <<hub, started, cachedPrice, relinking, overlapped>>

OpenFails(c) ==
  /\ consumer[c].pc = "opening"
  /\ status' = [status EXCEPT ![consumer[c].key] = "disconnected"]
  /\ consumer' = [consumer EXCEPT ![c].pc = "away"]
  /\ UNCHANGED <<hub, started, logical, subMap, handedOut, aged, cachedPrice, relinking, overlapped>>

(* unsubscribe: the last one out takes the entry away, then tells the      *)
(* connector that has the subscription id.                                 *)
Unsubscribe(c) ==
  /\ consumer[c].pc = "held"
  /\ LET k == consumer[c].key  e == logical[k] IN
     IF hub # "up" \/ e.id = 0
     THEN consumer' = [consumer EXCEPT ![c].pc = "away"] /\ UNCHANGED logical
     ELSE IF e.refcount > 1
     THEN /\ logical' = [logical EXCEPT ![k].refcount = @ - 1, ![k].callbacks = @ \ {c}]
          /\ consumer' = [consumer EXCEPT ![c].pc = "away"]
     ELSE /\ logical' = [logical EXCEPT ![k] = NoEntry]
          /\ consumer' = [consumer EXCEPT ![c].pc = "closing", ![c].id = e.id]
  /\ UNCHANGED <<hub, started, subMap, handedOut, status, aged, cachedPrice, relinking, overlapped>>

(* The adapter answers or raises: either way the id is forgotten. *)
Closed(c) ==
  /\ consumer[c].pc = "closing"
  /\ subMap' = {x \in subMap : x[1] # consumer[c].id}
  /\ consumer' = [consumer EXCEPT ![c] = Away(consumer[c].key)]
  /\ UNCHANGED <<hub, started, logical, handedOut, status, aged, cachedPrice, relinking, overlapped>>

-----------------------------------------------------------------------------
(* _on_market_data: metrics, cache, then the consumers' callbacks. *)
Data(k) ==
  /\ \E x \in subMap : x[2] = k
  /\ status' = [status EXCEPT ![k] = "connected"] /\ aged' = aged \ {k}
  /\ cachedPrice' = IF hub = "up" THEN [cachedPrice EXCEPT ![k] = "fresh"] ELSE cachedPrice
  /\ UNCHANGED <<hub, started, logical, subMap, handedOut, consumer, relinking, overlapped>>

(* get_price and its like fetch only what is not cached, however old. *)
Fetch(k) ==
  /\ hub = "up" /\ cachedPrice[k] = "none"
  /\ cachedPrice' = [cachedPrice EXCEPT ![k] = "fresh"]
  /\ UNCHANGED <<hub, started, logical, subMap, handedOut, consumer, status, aged, relinking,
                 overlapped>>

TimePasses(k) ==
  /\ k \notin aged
  /\ aged' = aged \cup {k}
  /\ cachedPrice' = [cachedPrice EXCEPT ![k] = IF @ = "fresh" THEN "stale" ELSE @]
  /\ UNCHANGED <<hub, started, logical, subMap, handedOut, consumer, status, relinking, overlapped>>

(* is_alive and get_status mark what is past the threshold. *)
CheckStatus(k) ==
  /\ status[k] = "connected" /\ k \in aged
  /\ status' = [status EXCEPT ![k] = "stale"]
  /\ UNCHANGED <<hub, started, logical, subMap, handedOut, consumer, aged, cachedPrice, relinking,
                 overlapped>>

Reconnect ==
  /\ ~relinking /\ started
  /\ relinking' = TRUE /\ status' = Everywhere("reconnecting")
  /\ UNCHANGED <<hub, started, logical, subMap, handedOut, consumer, aged, cachedPrice, overlapped>>

(* connect_market returned, with True or with False, or every try raised. *)
Reconnected ==
  /\ relinking
  /\ relinking' = FALSE
  /\ \/ status' = Everywhere("connected") /\ aged' = {k \in aged : status[k] = "none"}
     \/ status' = Everywhere("disconnected") /\ UNCHANGED aged
  /\ UNCHANGED <<hub, started, logical, subMap, handedOut, consumer, cachedPrice, overlapped>>

Next ==
  \/ Start \/ Stop \/ Reconnect \/ Reconnected
  \/ \E c \in Consumer : ConnectorStarted(c) \/ Opened(c) \/ OpenFails(c) \/ Unsubscribe(c)
                         \/ Closed(c) \/ \E k \in Key : Join(c, k) \/ OpenFirst(c, k)
  \/ \E k \in Key : Data(k) \/ Fetch(k) \/ TimePasses(k) \/ CheckStatus(k)
Spec == Init /\ [][Next]_hubVars

-----------------------------------------------------------------------------
Holding(k) == {c \in Consumer : consumer[c].key = k /\ consumer[c].pc = "held"}
Settled(k) == \A c \in Consumer : consumer[c].key = k => consumer[c].pc \in {"away", "held"}

(* Consumers of one stream share one subscription: it is open exactly as   *)
(* long as somebody holds it, whoever comes, goes or fails in between and  *)
(* whatever the connection does.  A key whose first subscribers overlapped *)
(* is left out: the second overwrites the first one's entry.               *)
OneFeedPerStream ==
  \A k \in Key : hub = "up" /\ Settled(k) /\ k \notin overlapped =>
    /\ Cardinality({x \in subMap : x[2] = k}) = IF Holding(k) = {} THEN 0 ELSE 1
    /\ logical[k].refcount = Cardinality(Holding(k)) /\ logical[k].callbacks = Holding(k)
=============================================================================
