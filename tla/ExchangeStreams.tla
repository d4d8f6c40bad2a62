--------------------------- MODULE ExchangeStreams ---------------------------
(***************************************************************************)
(* src/backend/exchanges/websocket_manager.py and the market streams of    *)
(* the adapters built on it.  Coroutines that subscribe, and the reconnect *)
(* task of every receive loop, may be inside connect() at the same time;   *)
(* each opens a socket and the last one becomes self._ws.  A socket, and   *)
(* the exchange behind it, are external: it breaks at any time.            *)
(***************************************************************************)
EXTENDS Naturals, FiniteSets

CONSTANTS
  Feed,        \* the streams of one symbol
  Actor,       \* coroutines inside connect() or subscribe_market()
  MaxSockets,  \* bound: sockets opened
  MaxTries     \* max_retries of the manager's RetryPolicy

VARIABLES
  style,       \* of the adapter's messages, or "none"
  ws,          \* number of the socket in self._ws; 0 is None
  sockets,     \* sockets opened so far
  open,        \* sockets that are open
  running,     \* _running
  remembered,  \* _subscriptions[url]
  feeds,       \* what the exchange sends on a socket
  callbacks,   \* streams with a registered callback
  actor,       \* where a coroutine stands
  gaveUp       \* a connect() ran out of tries since a socket was opened

streamVars == <<style, ws, sockets, open, running, remembered, feeds, callbacks, actor, gaveUp>>

(* How an adapter's subscribe and unsubscribe messages look.  They have    *)
(* the same _subscription_key only if they carry "params", which three     *)
(* adapters do not send: there a stream is never forgotten.                *)
BinanceStreams     == "params"
BybitStreams       == "plain"
OkxStreams         == "plain"
HyperliquidStreams == "plain"
MexcStreams        == "params"
Streams == [binance |-> BinanceStreams, bybit |-> BybitStreams, okx |-> OkxStreams,
            hyperliquid |-> HyperliquidStreams, mexc |-> MexcStreams]

Socket == 1 .. MaxSockets
AtRest == [pc |-> "idle", try |-> 0, rest |-> {}, size |-> 0, want |-> {}]

Init ==
  /\ style = "none" /\ ws = 0 /\ sockets = 0 /\ open = {} /\ running = FALSE
  /\ remembered = {} /\ feeds = [k \in Socket |-> {}] /\ callbacks = {}
  /\ actor = [a \in Actor |-> AtRest] /\ gaveUp = FALSE

Use(v) ==
  /\ style = "none"
  /\ style' = Streams[v]
  /\ UNCHANGED <<ws, sockets, open, running, remembered, feeds, callbacks, actor, gaveUp>>

Connected == ws \in open

-----------------------------------------------------------------------------
(* subscribe: remembered, then sent on the socket of this moment; a stream *)
(* already remembered is not sent again.  A send on no socket or a closed  *)
(* one raises and the stream stays remembered.                             *)
Subscribed(s) ==
  /\ callbacks' = callbacks \cup {s}
  /\ remembered' = remembered \cup {s}
  /\ feeds' = IF s \in remembered \/ ~Connected THEN feeds
              ELSE [feeds EXCEPT ![ws] = @ \cup {s}]

(* subscribe_market on an open connection, or its way into connect(). *)
SubscribeMarket(a, s) ==
  /\ style # "none" /\ actor[a].pc = "idle"
  /\ \/ /\ Connected
        /\ Subscribed(s)
        /\ UNCHANGED <<running, actor>>
     \/ /\ ~Connected
        /\ running' = TRUE
        /\ actor' = [actor EXCEPT ![a] = [AtRest EXCEPT !.pc = "connecting", !.try = 1,
                                                        !.want = {s}]]
        /\ UNCHANGED <<callbacks, remembered, feeds>>
  /\ UNCHANGED <<style, ws, sockets, open, gaveUp>>

(* unsubscribe_market: the callback goes, the message is forgotten if its  *)
(* key is found, and the exchange is told.                                 *)
UnsubscribeMarket(s) ==
  /\ style # "none" /\ s \in callbacks
  /\ callbacks' = callbacks \ {s}
  /\ remembered' = IF style = "params" THEN remembered \ {s} ELSE remembered
  /\ feeds' = IF Connected THEN [feeds EXCEPT ![ws] = @ \ {s}] ELSE feeds
  /\ UNCHANGED <<style, ws, sockets, open, running, actor, gaveUp>>

(* disconnect drops the callbacks and closes the current socket only. *)
Disconnect ==
  /\ style # "none" /\ (running \/ ws # 0)
  /\ callbacks' = {} /\ remembered' = {} /\ running' = FALSE
  /\ open' = open \ {ws} /\ ws' = 0
  /\ feeds' = [k \in Socket |-> IF k = ws THEN {} ELSE feeds[k]]
  /\ UNCHANGED <<style, sockets, actor, gaveUp>>

-----------------------------------------------------------------------------
(* connect()                                                               *)

(* Mutant: a new socket starts without the remembered streams. *)
NothingToResend == {}
ToResend == remembered

(* The socket opens: it is self._ws from here on, and its receive loop     *)
(* starts; the remembered streams are sent one at a time.                  *)
SocketOpens(a) ==
  /\ actor[a].pc = "connecting" /\ sockets < MaxSockets
  /\ ws' = sockets + 1 /\ sockets' = sockets + 1
  /\ open' = open \cup {sockets + 1}
  /\ actor' = [actor EXCEPT ![a].pc = "resending", ![a].rest = ToResend,
                            ![a].size = Cardinality(remembered)]
  /\ gaveUp' = FALSE
  /\ UNCHANGED <<style, running, remembered, feeds, callbacks>>

(* An attempt failed: the next one after a pause, or connect() returns     *)
(* False, which subscribe_market does not look at.                         *)
Retries(a) ==
  /\ actor[a].try < MaxTries
  /\ actor' = [actor EXCEPT ![a].pc = "connecting", ![a].try = @ + 1, ![a].rest = {}]
  /\ UNCHANGED <<remembered, feeds, callbacks, gaveUp>>

GivesUp(a) ==
  /\ actor[a].try = MaxTries
  /\ actor' = [actor EXCEPT ![a] = AtRest]
  /\ gaveUp' = TRUE
  /\ IF actor[a].want = {} THEN UNCHANGED <<remembered, feeds, callbacks>>
     ELSE \E s \in actor[a].want : Subscribed(s)

SocketRefused(a) ==
  /\ actor[a].pc = "connecting"
  /\ Retries(a) \/ GivesUp(a)
  /\ UNCHANGED <<style, ws, sockets, open, running>>

(* The dict of subscriptions changed size while it was iterated: the next  *)
(* step of the loop raises, as a send on a closed socket does.             *)
Disturbed(a) ==
  \/ actor[a].rest # {} /\ ~Connected
  \/ actor[a].size > 0 /\ Cardinality(remembered) # actor[a].size

Resend(a) == \E s \in actor[a].rest :
  /\ actor[a].pc = "resending" /\ ~Disturbed(a)
  /\ feeds' = [feeds EXCEPT ![ws] = @ \cup {s}]
  /\ actor' = [actor EXCEPT ![a].rest = @ \ {s}]
  /\ UNCHANGED <<style, ws, sockets, open, running, remembered, callbacks, gaveUp>>

ResendFails(a) ==
  /\ actor[a].pc = "resending" /\ Disturbed(a)
  /\ Retries(a) \/ GivesUp(a)
  /\ UNCHANGED <<style, ws, sockets, open, running>>

ConnectReturns(a) ==
  /\ actor[a].pc = "resending" /\ actor[a].rest = {} /\ ~Disturbed(a)
  /\ actor' = [actor EXCEPT ![a] = AtRest]
  /\ IF actor[a].want = {} THEN UNCHANGED <<remembered, feeds, callbacks>>
     ELSE \E s \in actor[a].want : Subscribed(s)
  /\ UNCHANGED <<style, ws, sockets, open, running, gaveUp>>

(* A socket breaks and its receive loop ends, starting a reconnect while   *)
(* the manager is running; the loop of a socket that was replaced too.     *)
SocketBreaks(k) ==
  /\ k \in open
  /\ open' = open \ {k} /\ feeds' = [feeds EXCEPT ![k] = {}]
  /\ IF running
     THEN \E a \in Actor :
            /\ actor[a].pc = "idle"
            /\ actor' = [actor EXCEPT ![a] = [AtRest EXCEPT !.pc = "connecting", !.try = 1]]
     ELSE UNCHANGED actor
  /\ UNCHANGED <<style, ws, sockets, running, remembered, callbacks, gaveUp>>

Next ==
  \/ \E v \in DOMAIN Streams : Use(v)
  \/ \E a \in Actor, s \in Feed : SubscribeMarket(a, s)
  \/ \E s \in Feed : UnsubscribeMarket(s)
  \/ Disconnect
  \/ \E a \in Actor : SocketOpens(a) \/ SocketRefused(a) \/ Resend(a) \/ ResendFails(a)
                      \/ ConnectReturns(a)
  \/ \E k \in Socket : SocketBreaks(k)
Spec == Init /\ [][Next]_streamVars

-----------------------------------------------------------------------------
(* Once nobody is inside connect(), a registered callback has its stream   *)
(* on the open socket, whatever broke and however connects and             *)
(* subscriptions overlapped, unless the last connect ran out of tries.     *)
(* The adapters whose streams are never forgotten are left out: there a    *)
(* stream subscribed to again after an unsubscribe is taken for a          *)
(* duplicate and never sent.                                               *)
StreamsServed ==
  style = "params" /\ Connected /\ ~gaveUp /\ (\A a \in Actor : actor[a].pc = "idle")
    => callbacks \subseteq feeds[ws]
=============================================================================
