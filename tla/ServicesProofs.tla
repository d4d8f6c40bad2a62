---------------------------- MODULE ServicesProofs ----------------------------
(***************************************************************************)
(* Theorems about the services MCServices composes, each a theorem of the  *)
(* component's own specification for every value of its constants: the     *)
(* event bus, the exchange streams, the market hub, the connection queue,  *)
(* the grid reconciler, the risk books and checks and the commercial       *)
(* ledgers; at the end, that the composition the run checks keeps all of   *)
(* them and what SetupProofs shows of the others.                          *)
(***************************************************************************)
EXTENDS SetupProofs

-----------------------------------------------------------------------------
(* RedisEventBus.  A channel is covered while it is about to be joined,    *)
(* joined, or on its way in a subscriber's command on the listener's       *)
(* pubsub, which is the bus's own unless a close has dropped it.           *)

BusTypes ==
  /\ conns \in Nat /\ conn \in {0, conns}
  /\ asked \in [Request -> {"idle", "subscribing", "publishing", "waiting", "raised",
                            "answered", "timed_out", "cancelled"}]
  /\ waiters \subseteq Request

OnTheWay(c) == c \in remote \cup missed \/ <<c, conns>> \in sending

(* A listener whose pubsub was dropped while it joins will not listen.     *)
AboutToCover ==
  listener = "joining" /\ conn # 0 => \A c \in handlers \ joining : OnTheWay(c)

BusInv == BusTypes /\ AboutToCover /\ BusCovers

LEMMA BusInitInv == Bus!Init => BusInv
BY DEF Bus!Init, BusInv, BusTypes, AboutToCover, BusCovers, Bus!BusCovers

LEMMA BusStepInv == BusInv /\ [Bus!Next]_(Bus!busVars) => BusInv'
<1> SUFFICES ASSUME BusInv, [Bus!Next]_(Bus!busVars) PROVE BusInv'
  OBVIOUS
<1> USE DEF BusInv, BusTypes, AboutToCover, BusCovers, Bus!BusCovers, OnTheWay
<1>1. ASSUME NEW c \in Topic, Bus!Subscribe(c) PROVE BusInv'
  BY <1>1 DEF Bus!Subscribe, Bus!Ensured
<1>2. ASSUME NEW c \in Topic \cup Request, Bus!Sent(c) PROVE BusInv'
  BY <1>2 DEF Bus!Sent
<1>3. ASSUME NEW c \in Topic \cup Request, Bus!SendRaises(c) PROVE BusInv'
  BY <1>3 DEF Bus!SendRaises
<1>4. CASE Bus!ListenerStarts
  BY <1>4 DEF Bus!ListenerStarts, Bus!AllChannels
<1>5. CASE Bus!ListenerJoins
  BY <1>5 DEF Bus!ListenerJoins
<1>6. CASE Bus!ListenerBreaks \/ Bus!ListenerWakes \/ Bus!Close \/ Bus!CloseReturns
  BY <1>6 DEF Bus!ListenerBreaks, Bus!ListenerWakes, Bus!Close, Bus!CloseReturns
<1>7. ASSUME NEW r \in Request, Bus!AskFor(r) PROVE BusInv'
  BY <1>7 DEF Bus!AskFor, Bus!Ensured
<1>8. ASSUME NEW r \in Request, Bus!Publishes(r) PROVE BusInv'
  BY <1>8 DEF Bus!Publishes
<1>9. ASSUME NEW r \in Request, Bus!Answer(r) PROVE BusInv'
  BY <1>9 DEF Bus!Answer
<1>10. ASSUME NEW r \in Request, Bus!TimesOut(r) PROVE BusInv'
  BY <1>10 DEF Bus!TimesOut, Bus!DropWaiter
<1>11. ASSUME NEW r \in Request, Bus!RequestCancelled(r) PROVE BusInv'
  BY <1>11 DEF Bus!RequestCancelled
<1>12. CASE UNCHANGED Bus!busVars
  BY <1>12 DEF Bus!busVars
<1> QED
  BY <1>1, <1>2, <1>3, <1>4, <1>5, <1>6, <1>7, <1>8, <1>9, <1>10, <1>11, <1>12 DEF Bus!Next

(* RedisEventBus, for any number of channels, requests, connections and    *)
(* overlapping closes: a listening bus gets every channel somebody         *)
(* subscribed to, except by a command that raised or is under way, or      *)
(* after a close that a new listener overlapped had dropped its pubsub.    *)
THEOREM BusReachesSubscribers == Bus!Spec => []BusCovers
<1>1. BusInv => BusCovers
  BY DEF BusInv
<1> QED
  BY <1>1, BusInitInv, BusStepInv, PTL DEF Bus!Spec

-----------------------------------------------------------------------------
(* WebSocketManager.  A remembered stream that the current socket does not *)
(* carry is still to be resent by somebody inside connect(), or a new      *)
(* socket is on its way.                                                   *)

StreamTypes ==
  /\ style \in {"none", "plain", "params"}
  /\ ws \in Nat /\ sockets \in Nat
  /\ open \subseteq St!Socket
  /\ remembered \subseteq Feed
  /\ feeds \in [St!Socket -> SUBSET Feed]
  /\ actor \in [Actor -> [pc : {"idle", "connecting", "resending"}, try : Nat,
                          rest : SUBSET Feed, size : Nat, want : SUBSET Feed]]
  /\ gaveUp \in BOOLEAN

InHand(s) ==
  \E a \in Actor : \/ actor[a].pc = "connecting"
                   \/ actor[a].pc = "resending" /\ s \in actor[a].rest

RememberedIsSent ==
  style # "plain" /\ ws \in open /\ ~gaveUp
    => \A s \in remembered : s \in feeds[ws] \/ InHand(s)

StreamInv == StreamTypes /\ callbacks \subseteq remembered /\ RememberedIsSent

LEMMA StreamInitInv == St!Init => StreamInv
<1> SUFFICES ASSUME St!Init PROVE StreamInv
  OBVIOUS
<1>1. actor \in [Actor -> [pc : {"idle", "connecting", "resending"}, try : Nat,
                           rest : SUBSET Feed, size : Nat, want : SUBSET Feed]]
  BY DEF St!Init, St!AtRest
<1>2. feeds \in [St!Socket -> SUBSET Feed]
  BY DEF St!Init
<1> QED
  BY <1>1, <1>2 DEF St!Init, StreamInv, StreamTypes, RememberedIsSent

(* One stream is subscribed to: sent, or remembered for who reconnects.    *)
LEMMA SubscribedKeeps ==
  ASSUME StreamInv, NEW s \in Feed, St!Subscribed(s), UNCHANGED <<style, ws, sockets, open>>
  PROVE  /\ remembered' \subseteq Feed /\ callbacks' \subseteq remembered'
         /\ feeds' \in [St!Socket -> SUBSET Feed]
         /\ remembered' = remembered \cup {s}
         /\ ws \in open => \A t \in remembered' : \/ t \in remembered /\ t \notin feeds[ws]
                                               \/ t \in feeds'[ws]
<1> USE DEF StreamInv, StreamTypes, St!Subscribed, St!Connected
<1>1. feeds' \in [St!Socket -> SUBSET Feed]
  OBVIOUS
<1>2. ASSUME ws \in open, NEW t \in remembered', t \in remembered => t \in feeds[ws]
      PROVE  t \in feeds'[ws]
  <2>1. ws \in St!Socket /\ feeds[ws] \subseteq Feed
    BY <1>2
  <2>2. CASE s \in remembered
    BY <1>2, <2>2
  <2>3. CASE s \notin remembered
    <3>1. feeds' = [feeds EXCEPT ![ws] = feeds[ws] \cup {s}]
      BY <1>2, <2>3
    <3>2. feeds'[ws] = feeds[ws] \cup {s}
      BY <2>1, <3>1
    <3> QED
      BY <1>2, <3>2
  <2> QED
    BY <2>2, <2>3
<1> QED
  BY <1>1, <1>2

LEMMA StreamStepInv ==
  ASSUME MaxSockets \in Nat, IsFiniteSet(Feed)
  PROVE  StreamInv /\ [St!Next]_(St!streamVars) => StreamInv'
<1> SUFFICES ASSUME StreamInv, [St!Next]_(St!streamVars) PROVE StreamInv'
  OBVIOUS
<1> USE DEF StreamInv, StreamTypes, RememberedIsSent, InHand
<1>1. ASSUME NEW v \in DOMAIN St!Streams, St!Use(v) PROVE StreamInv'
  <2>1. St!Streams[v] \in {"plain", "params"}
    BY DEF St!Streams, St!BinanceStreams, St!BybitStreams, St!OkxStreams, St!HyperliquidStreams,
      St!MexcStreams
  <2> QED
    BY <1>1, <2>1 DEF St!Use
<1>2. ASSUME NEW a \in Actor, NEW s \in Feed, St!SubscribeMarket(a, s) PROVE StreamInv'
  <2>1. CASE St!Subscribed(s) /\ UNCHANGED actor
    <3>1. UNCHANGED <<style, ws, sockets, open, gaveUp>>
      BY <1>2 DEF St!SubscribeMarket
    <3> QED
      BY <2>1, <3>1, SubscribedKeeps
  <2>2. CASE /\ ~St!Connected
             /\ actor' = [actor EXCEPT ![a] = [St!AtRest EXCEPT !.pc = "connecting", !.try = 1,
                                                                !.want = {s}]]
             /\ UNCHANGED <<callbacks, remembered, feeds>>
    <3>1. UNCHANGED <<style, ws, sockets, open, gaveUp>> /\ ws \notin open
      BY <1>2, <2>2 DEF St!SubscribeMarket, St!Connected
    <3> QED
      BY <2>2, <3>1 DEF St!AtRest
  <2> QED
    BY <1>2, <2>1, <2>2 DEF St!SubscribeMarket
<1>3. ASSUME NEW s \in Feed, St!UnsubscribeMarket(s) PROVE StreamInv'
  BY <1>3 DEF St!UnsubscribeMarket, St!Connected
<1>4. CASE St!Disconnect
  BY <1>4 DEF St!Disconnect, St!Socket
<1>5. ASSUME NEW a \in Actor, St!SocketOpens(a) PROVE StreamInv'
  <2>1. Cardinality(remembered) \in Nat
    BY FS_Subset, FS_CardinalityType
  <2>2. PICK r : r = [actor[a] EXCEPT !.pc = "resending", !.rest = remembered,
                                      !.size = Cardinality(remembered)]
    OBVIOUS
  <2>3. /\ r \in [pc : {"idle", "connecting", "resending"}, try : Nat, rest : SUBSET Feed,
                  size : Nat, want : SUBSET Feed]
        /\ r.pc = "resending" /\ r.rest = remembered
    BY <2>1, <2>2
  <2>4. actor' = [actor EXCEPT ![a] = r]
    <3>1. St!Cardinality(remembered) = Cardinality(remembered)
      BY DEF St!Cardinality, Cardinality
    <3> QED
      BY <1>5, <2>2, <3>1 DEF St!SocketOpens, St!ToResend
  <2>5. /\ UNCHANGED <<style, remembered, feeds, callbacks>>
        /\ ws' \in Nat /\ sockets' \in Nat /\ gaveUp' = FALSE /\ open' \subseteq St!Socket
    BY <1>5 DEF St!SocketOpens, St!Socket
  <2> QED
    BY <2>3, <2>4, <2>5
<1>a. ASSUME NEW a \in Actor, St!Retries(a),
             UNCHANGED <<style, ws, sockets, open>>
      PROVE  StreamInv'
  <2>1. actor' = [actor EXCEPT ![a].pc = "connecting", ![a].try = actor[a].try + 1, ![a].rest = {}]
    BY <1>a DEF St!Retries
  <2>2. actor[a] \in [pc : {"idle", "connecting", "resending"}, try : Nat, rest : SUBSET Feed,
                      size : Nat, want : SUBSET Feed]
    OBVIOUS
  <2>3. actor' \in [Actor -> [pc : {"idle", "connecting", "resending"}, try : Nat,
                              rest : SUBSET Feed, size : Nat, want : SUBSET Feed]]
    BY <2>1, <2>2
  <2>4. actor'[a].pc = "connecting"
    BY <2>1, <2>2
  <2>5. UNCHANGED <<style, ws, sockets, open, remembered, feeds, callbacks, gaveUp>>
    BY <1>a DEF St!Retries
  <2> QED
    BY <2>3, <2>4, <2>5
<1>b. ASSUME NEW a \in Actor, NEW s \in actor[a].want, St!Subscribed(s),
             UNCHANGED <<style, ws, sockets, open>>,
             actor' = [actor EXCEPT ![a] = St!AtRest],
             gaveUp' \/ (UNCHANGED gaveUp /\ actor[a].pc = "resending" /\ actor[a].rest = {}),
             gaveUp' \in BOOLEAN
      PROVE  StreamInv'
  <2>1. s \in Feed
    OBVIOUS
  <2>2. actor' \in [Actor -> [pc : {"idle", "connecting", "resending"}, try : Nat,
                              rest : SUBSET Feed, size : Nat, want : SUBSET Feed]]
    BY <1>b DEF St!AtRest
  <2>3. StreamTypes' /\ (callbacks \subseteq remembered)'
    BY <1>b, <2>1, <2>2, SubscribedKeeps
  <2>4. RememberedIsSent'
    BY <1>b, <2>1, <2>2, SubscribedKeeps
  <2> QED
    BY <2>3, <2>4
<1>c. ASSUME NEW a \in Actor, actor[a].want = {}, UNCHANGED <<remembered, feeds, callbacks>>,
             UNCHANGED <<style, ws, sockets, open>>,
             actor' = [actor EXCEPT ![a] = St!AtRest],
             gaveUp' \/ (UNCHANGED gaveUp /\ actor[a].pc = "resending" /\ actor[a].rest = {}),
             gaveUp' \in BOOLEAN
      PROVE  StreamInv'
  BY <1>c DEF St!AtRest
<1>d. ASSUME NEW a \in Actor, St!GivesUp(a), UNCHANGED <<style, ws, sockets, open>>
      PROVE  StreamInv'
  <2>1. gaveUp' /\ gaveUp' \in BOOLEAN /\ actor' = [actor EXCEPT ![a] = St!AtRest]
    BY <1>d DEF St!GivesUp
  <2>2. CASE actor[a].want = {}
    BY <1>c, <1>d, <2>1, <2>2 DEF St!GivesUp
  <2>3. CASE actor[a].want # {}
    <3>1. PICK s \in actor[a].want : St!Subscribed(s)
      BY <1>d, <2>3 DEF St!GivesUp
    <3> QED
      BY <1>b, <1>d, <2>1, <3>1
  <2> QED
    BY <2>2, <2>3
<1>6. ASSUME NEW a \in Actor, St!SocketRefused(a) \/ St!ResendFails(a) PROVE StreamInv'
  BY <1>6, <1>a, <1>d DEF St!SocketRefused, St!ResendFails
<1>7. ASSUME NEW a \in Actor, St!Resend(a) PROVE StreamInv'
  <2>1. PICK s \in actor[a].rest :
          /\ actor[a].pc = "resending" /\ ~St!Disturbed(a)
          /\ feeds' = [feeds EXCEPT ![ws] = @ \cup {s}]
          /\ actor' = [actor EXCEPT ![a].rest = @ \ {s}]
    BY <1>7 DEF St!Resend
  <2>2. ws \in open /\ ws \in St!Socket
    BY <2>1 DEF St!Disturbed, St!Connected
  <2>3. UNCHANGED <<style, ws, sockets, open, remembered, callbacks, gaveUp>>
    BY <1>7 DEF St!Resend
  <2> QED
    BY <2>1, <2>2, <2>3
<1>8. ASSUME NEW a \in Actor, St!ConnectReturns(a) PROVE StreamInv'
  BY <1>b, <1>c, <1>8 DEF St!ConnectReturns
<1>9. ASSUME NEW k \in St!Socket, St!SocketBreaks(k) PROVE StreamInv'
  <2>1. UNCHANGED <<style, ws, sockets, remembered, callbacks, gaveUp>>
    BY <1>9 DEF St!SocketBreaks
  <2>2. open' = open \ {k} /\ feeds' = [feeds EXCEPT ![k] = {}]
    BY <1>9 DEF St!SocketBreaks
  <2>3. CASE UNCHANGED actor
    BY <2>1, <2>2, <2>3
  <2>4. ASSUME NEW a \in Actor,
               actor' = [actor EXCEPT ![a] = [St!AtRest EXCEPT !.pc = "connecting", !.try = 1]]
        PROVE  StreamInv'
    BY <2>1, <2>2, <2>4 DEF St!AtRest
  <2> QED
    BY <1>9, <2>3, <2>4 DEF St!SocketBreaks
<1>10. CASE UNCHANGED St!streamVars
  BY <1>10 DEF St!streamVars
<1> QED
  BY <1>1, <1>2, <1>3, <1>4, <1>5, <1>6, <1>7, <1>8, <1>9, <1>10 DEF St!Next

(* The websocket manager: when nobody is inside connect(), every stream    *)
(* with a callback is on the open socket, for any number of sockets,       *)
(* coroutines and tries.                                                   *)
THEOREM CallbacksAreFed ==
  ASSUME MaxSockets \in Nat, IsFiniteSet(Feed)
  PROVE  St!Spec => []StreamsServed
<1>1. StreamInv => StreamsServed
  BY DEF StreamInv, StreamTypes, RememberedIsSent, InHand, StreamsServed, St!StreamsServed,
    St!Connected
<1> QED
  BY <1>1, StreamInitInv, StreamStepInv, PTL DEF St!Spec

-----------------------------------------------------------------------------
(* MarketHub.  Of a key whose first subscribers never overlapped, the      *)
(* entry of the subscription manager and the connector's map agree with    *)
(* where its consumers stand, at every moment until the hub stops: one     *)
(* consumer at most is opening it, and what else the map has of it is      *)
(* being closed.                                                           *)

ConsumerState == [pc : {"away", "starting", "opening", "held", "closing"}, key : Key, id : Nat]
EntryState == [id : Nat, refcount : Nat, callbacks : SUBSET Consumer]

HubTypes ==
  /\ hub \in {"down", "up", "stopped"} /\ handedOut \in Nat
  /\ subMap \subseteq Nat \X Key
  /\ logical \in [Key -> EntryState]
  /\ consumer \in [Consumer -> ConsumerState]

(* A subscription id is used once. *)
IdsAreFresh ==
  /\ \A x \in subMap : x[1] # 0 /\ x[1] <= handedOut
  /\ \A k \in Key : logical[k].id <= handedOut
  /\ \A c \in Consumer : consumer[c].id <= handedOut
  /\ \A c \in Consumer : consumer[c].pc = "closing" =>
       consumer[c].id # 0 /\ \A k \in Key : consumer[c].id # logical[k].id
  /\ \A j, k \in Key : logical[j].id # 0 /\ logical[j].id = logical[k].id => j = k

Opens(c, k) == consumer[c].key = k /\ consumer[c].pc \in {"starting", "opening"}
Closes(c, k) == consumer[c].key = k /\ consumer[c].pc = "closing"

EntryAgrees(k) ==
  /\ \A b, c \in Consumer : Opens(b, k) /\ Opens(c, k) => b = c
  /\ logical[k].id # 0 => \A c \in Consumer : ~Opens(c, k)
  /\ logical[k].callbacks = Hub!Holding(k)
  /\ logical[k].refcount = Cardinality(Hub!Holding(k))
  /\ logical[k].id = 0 <=> Hub!Holding(k) = {}

MapAgrees(k) ==
  /\ logical[k].id # 0 => <<logical[k].id, k>> \in subMap
  /\ \A x \in subMap : x[2] = k =>
       x[1] = logical[k].id \/ \E c \in Consumer : Closes(c, k) /\ consumer[c].id = x[1]

HubInv ==
  /\ HubTypes /\ IdsAreFresh
  /\ hub = "down" => \A c \in Consumer : consumer[c].pc = "away"
  /\ hub # "stopped" => \A k \in Key \ overlapped : EntryAgrees(k) /\ MapAgrees(k)

(* What one consumer's step does to the consumers that hold a key. *)
LEMMA HoldingMoves ==
  ASSUME HubTypes, NEW c \in Consumer, NEW r \in ConsumerState, NEW k \in Key,
         consumer' = [consumer EXCEPT ![c] = r]
  PROVE  /\ r.key = k /\ r.pc = "held" => Hub!Holding(k)' = Hub!Holding(k) \cup {c}
         /\ ~(r.key = k /\ r.pc = "held") => Hub!Holding(k)' = Hub!Holding(k) \ {c}
         /\ ~(r.key = k /\ r.pc = "held") /\ c \notin Hub!Holding(k)
              => Hub!Holding(k)' = Hub!Holding(k)
BY DEF HubTypes, ConsumerState, Hub!Holding

LEMMA HoldingCount ==
  ASSUME IsFiniteSet(Consumer), NEW k
  PROVE  /\ IsFiniteSet(Hub!Holding(k)) /\ Cardinality(Hub!Holding(k)) \in Nat
         /\ Cardinality(Hub!Holding(k)) = 0 <=> Hub!Holding(k) = {}
<1>1. IsFiniteSet(Hub!Holding(k))
  BY FS_Subset DEF Hub!Holding
<1> QED
  BY <1>1, FS_CardinalityType, FS_EmptySet

LEMMA HubInitInv == ASSUME Key # {} PROVE Hub!Init => HubInv
<1> SUFFICES ASSUME Hub!Init PROVE HubInv
  OBVIOUS
<1>1. (CHOOSE k \in Key : TRUE) \in Key
  OBVIOUS
<1>2. HubTypes
  BY <1>1 DEF Hub!Init, HubTypes, ConsumerState, EntryState, Hub!NoEntry, Hub!Away
<1>3. \A k \in Key : Hub!Holding(k) = {} /\ logical[k].id = 0 /\ logical[k].callbacks = {}
                     /\ logical[k].refcount = 0
  BY DEF Hub!Init, Hub!Away, Hub!Holding, Hub!NoEntry
<1>4. \A c \in Consumer : consumer[c].pc = "away" /\ consumer[c].id = 0
  BY DEF Hub!Init, Hub!Away
<1>5. subMap = {} /\ handedOut = 0
  BY DEF Hub!Init
<1>6. IdsAreFresh
  BY <1>3, <1>4, <1>5 DEF IdsAreFresh
<1>7. \A k \in Key : EntryAgrees(k)
  <2>1. Cardinality({}) = 0
    BY FS_EmptySet
  <2> QED
    BY <1>3, <1>4, <2>1 DEF EntryAgrees, Opens
<1>8. \A k \in Key : MapAgrees(k)
  BY <1>3, <1>5 DEF MapAgrees
<1> QED
  BY <1>2, <1>4, <1>6, <1>7, <1>8 DEF HubInv

(* Steps that move neither consumers nor subscriptions. *)
LEMMA HubFrameInv ==
  ASSUME HubInv, UNCHANGED <<logical, subMap, handedOut, consumer, overlapped>>,
         hub' = hub \/ (hub = "down" /\ hub' = "up")
  PROVE  HubInv'
<1>1. \A k : Hub!Holding(k)' = Hub!Holding(k)
  BY DEF Hub!Holding
<1>2. \A k \in Key : (EntryAgrees(k) => EntryAgrees(k)') /\ (MapAgrees(k) => MapAgrees(k)')
  BY <1>1 DEF EntryAgrees, MapAgrees, Opens, Closes
<1> QED
  BY <1>2 DEF HubInv, HubTypes, IdsAreFresh

(* A key a step of consumer c is not about, or which it only leaves.       *)
LEMMA EntryKept ==
  ASSUME HubTypes, NEW c \in Consumer, NEW r \in ConsumerState, NEW k \in Key,
         consumer' = [consumer EXCEPT ![c] = r], EntryAgrees(k), logical'[k] = logical[k],
         Hub!Holding(k)' = Hub!Holding(k),
         r.key = k /\ r.pc \in {"starting", "opening"} => Opens(c, k)
  PROVE  EntryAgrees(k)'
<1>1. \A b \in Consumer : Opens(b, k)' => Opens(b, k)
  BY DEF Opens, HubTypes, ConsumerState
<1> QED
  BY <1>1 DEF EntryAgrees

LEMMA MapKept ==
  ASSUME HubTypes, NEW c \in Consumer, NEW r \in ConsumerState, NEW k \in Key,
         consumer' = [consumer EXCEPT ![c] = r], MapAgrees(k), logical'[k] = logical[k],
         \A x \in subMap' : x[2] = k => x \in subMap,
         <<logical[k].id, k>> \in subMap => <<logical[k].id, k>> \in subMap',
         ~Closes(c, k)
  PROVE  MapAgrees(k)'
<1>1. \A b \in Consumer : Closes(b, k) => Closes(b, k)' /\ consumer'[b] = consumer[b]
  BY DEF Closes, HubTypes, ConsumerState
<1> QED
  BY <1>1 DEF MapAgrees

LEMMA JoinedEntry ==
  ASSUME NEW e \in EntryState, NEW c \in Consumer
  PROVE  /\ Hub!Joined(e, c) \in EntryState /\ Hub!Joined(e, c).id = e.id
         /\ Hub!Joined(e, c).refcount = e.refcount + 1
         /\ Hub!Joined(e, c).callbacks = e.callbacks \cup {c}
<1>1. PICK n \in Nat : n = e.refcount + 1
  BY DEF EntryState
<1>2. PICK s \in SUBSET Consumer : s = e.callbacks \cup {c}
  BY DEF EntryState
<1>3. Hub!Joined(e, c) = [e EXCEPT !.refcount = n, !.callbacks = s]
  BY <1>1, <1>2, Zenon DEF Hub!Joined
<1>4. PICK f : f = [e EXCEPT !.refcount = n, !.callbacks = s]
  OBVIOUS
<1>5. f \in EntryState /\ f.id = e.id /\ f.refcount = n /\ f.callbacks = s
  BY <1>4 DEF EntryState
<1> QED
  BY <1>1, <1>2, <1>3, <1>4, <1>5

LEMMA JoinInv ==
  ASSUME IsFiniteSet(Consumer), HubInv, NEW c \in Consumer, NEW k \in Key, Hub!Join(c, k)
  PROVE  HubInv'
<1> DEFINE r == [pc |-> "held", key |-> k, id |-> 0]
           e == Hub!Joined(logical[k], c)
<1>1. /\ hub = "up" /\ consumer[c].pc = "away" /\ logical[k].id # 0
      /\ UNCHANGED <<hub, subMap, handedOut, overlapped>>
      /\ consumer' = [consumer EXCEPT ![c] = r] /\ logical' = [logical EXCEPT ![k] = e]
  BY DEF Hub!Join
<1>2. /\ e \in EntryState
      /\ e.id = logical[k].id /\ e.refcount = logical[k].refcount + 1
      /\ e.callbacks = logical[k].callbacks \cup {c}
  <2>1. logical[k] \in EntryState
    BY DEF HubInv, HubTypes
  <2> QED
    BY <2>1, JoinedEntry
<1>3. r \in ConsumerState /\ r.key = k /\ r.pc = "held" /\ r.id = 0
  BY DEF ConsumerState
<1> HIDE DEF r, e
<1>4. HubTypes /\ HubTypes'
  BY <1>1, <1>2, <1>3 DEF HubInv, HubTypes
<1>5. /\ logical'[k] = e /\ \A j \in Key \ {k} : logical'[j] = logical[j]
      /\ \A j \in Key : logical'[j].id = logical[j].id
  BY <1>1, <1>2, <1>4 DEF HubTypes
<1>6. \A b \in Consumer : b # c => consumer'[b] = consumer[b]
  BY <1>1, <1>4 DEF HubTypes
<1>7. consumer'[c] = r
  BY <1>1, <1>4 DEF HubTypes
<1>8. IdsAreFresh'
  BY <1>1, <1>3, <1>4, <1>5, <1>6, <1>7 DEF HubInv, IdsAreFresh, HubTypes
<1>9. ASSUME NEW j \in Key \ overlapped PROVE EntryAgrees(j)' /\ MapAgrees(j)'
  <2>1. EntryAgrees(j) /\ MapAgrees(j) /\ c \notin Hub!Holding(j)
    BY <1>1 DEF HubInv, Hub!Holding
  <2>2. MapAgrees(j)'
    BY <1>1, <1>5, <1>6, <2>1 DEF MapAgrees, Closes
  <2>3. CASE j # k
    <3>1. Hub!Holding(j)' = Hub!Holding(j)
      BY <1>1, <1>3, <1>4, <2>1, <2>3, HoldingMoves
    <3>2. logical'[j] = logical[j]
      BY <1>5, <2>3
    <3> QED
      BY <1>1, <1>3, <1>4, <2>1, <2>2, <2>3, <3>1, <3>2, EntryKept
  <2>4. CASE j = k
    <3>1. Hub!Holding(k)' = Hub!Holding(k) \cup {c}
      BY <1>1, <1>3, <1>4, HoldingMoves
    <3>2. Cardinality(Hub!Holding(k)') = Cardinality(Hub!Holding(k)) + 1
      BY <2>1, <2>4, <3>1, HoldingCount, FS_AddElement
    <3>3. \A b \in Consumer : ~Opens(b, k)'
      BY <1>1, <1>3, <1>6, <1>7, <2>1, <2>4 DEF EntryAgrees, Opens
    <3> QED
      BY <1>1, <1>2, <1>5, <2>1, <2>2, <2>4, <3>1, <3>2, <3>3 DEF EntryAgrees
  <2> QED
    BY <2>3, <2>4
<1> QED
  BY <1>1, <1>4, <1>8, <1>9 DEF HubInv

(* Steps with which a consumer begins or gives up opening a key.           *)
LEMMA OpeningInv ==
  ASSUME HubInv, NEW c \in Consumer, NEW r \in ConsumerState,
         consumer' = [consumer EXCEPT ![c] = r], hub # "down",
         r.pc \in {"away", "starting", "opening"}, r.id <= handedOut,
         consumer[c].pc \in {"away", "starting", "opening"},
         UNCHANGED <<hub, logical, subMap, handedOut>>,
         overlapped \subseteq overlapped',
         \A k \in Key \ overlapped' :
           r.key = k /\ r.pc # "away" => \/ Opens(c, k)
                                         \/ logical[k].id = 0 /\ \A b \in Consumer : ~Opens(b, k)
  PROVE  HubInv'
<1>1. HubTypes /\ HubTypes'
  BY DEF HubInv, HubTypes
<1>2. IdsAreFresh'
  BY <1>1 DEF HubInv, HubTypes, ConsumerState, IdsAreFresh
<1>3. ASSUME hub # "stopped", NEW k \in Key \ overlapped' PROVE EntryAgrees(k)' /\ MapAgrees(k)'
  <2>1. EntryAgrees(k) /\ MapAgrees(k) /\ c \notin Hub!Holding(k)
    BY <1>3 DEF HubInv, Hub!Holding
  <2>2. Hub!Holding(k)' = Hub!Holding(k)
    <3>1. r.pc # "held"
      OBVIOUS
    <3> QED
      BY <1>1, <2>1, <3>1, HoldingMoves
  <2>3. MapAgrees(k)'
    BY <1>1, <2>1, MapKept DEF Closes
  <2>4. CASE r.key = k /\ r.pc # "away" => Opens(c, k)
    BY <1>1, <2>1, <2>2, <2>3, <2>4, EntryKept
  <2>5. CASE r.key = k /\ logical[k].id = 0 /\ \A b \in Consumer : ~Opens(b, k)
    <3>1. \A b \in Consumer : Opens(b, k)' => b = c
      BY <1>1, <2>5 DEF Opens, HubTypes, ConsumerState
    <3> QED
      BY <2>1, <2>2, <2>3, <2>5, <3>1 DEF EntryAgrees
  <2> QED
    BY <2>4, <2>5
<1> QED
  BY <1>1, <1>2, <1>3 DEF HubInv

LEMMA OpenedInv ==
  ASSUME HubInv, NEW c \in Consumer, Hub!Opened(c)
  PROVE  HubInv'
<1> DEFINE k == consumer[c].key
           n == handedOut + 1
           e == [id |-> n, refcount |-> 1, callbacks |-> {c}]
<1>1. PICK r : r = [consumer[c] EXCEPT !.pc = "held"]
  OBVIOUS
<1>2. PICK m \in Key : m = consumer[c].key
  BY DEF HubInv, HubTypes, ConsumerState
<1>3. /\ consumer[c].pc = "opening" /\ handedOut' = n /\ subMap' = subMap \cup {<<n, m>>}
      /\ logical' = IF hub # "up" THEN logical ELSE [logical EXCEPT ![m] = e]
      /\ consumer' = [consumer EXCEPT ![c] = r] /\ UNCHANGED <<hub, overlapped>>
  BY <1>1, <1>2 DEF Hub!Opened
<1>4. /\ r \in ConsumerState /\ r.key = m /\ r.pc = "held" /\ r.id = consumer[c].id
      /\ n \in Nat /\ n > handedOut /\ handedOut \in Nat
      /\ e \in EntryState /\ e.id = n /\ e.refcount = 1 /\ e.callbacks = {c}
  BY <1>1, <1>2 DEF HubInv, HubTypes, ConsumerState, EntryState
<1> HIDE DEF e, n, k
<1>5. HubTypes /\ HubTypes'
  BY <1>3, <1>4 DEF HubInv, HubTypes
<1>6. /\ \A b \in Consumer : b # c => consumer'[b] = consumer[b]
      /\ consumer'[c] = r
  BY <1>3, <1>5 DEF HubTypes
<1>7. /\ \A j \in Key : j # m => logical'[j] = logical[j]
      /\ hub = "up" => logical'[m] = e
      /\ hub # "up" => logical' = logical
  BY <1>3, <1>5 DEF HubTypes
<1>8. IdsAreFresh'
  <2>1. \A x \in subMap' : x[1] # 0 /\ x[1] <= handedOut'
    BY <1>3, <1>4, <1>5 DEF HubInv, IdsAreFresh, HubTypes
  <2>2. \A j \in Key : logical[j].id <= handedOut /\ logical[j].id \in Nat
    BY <1>5 DEF HubInv, IdsAreFresh, HubTypes, EntryState
  <2>3. \A b \in Consumer : consumer[b].id <= handedOut /\ consumer[b].id \in Nat
    BY <1>5 DEF HubInv, IdsAreFresh, HubTypes, ConsumerState
  <2>4. \A b \in Consumer : consumer'[b].id = consumer[b].id
    BY <1>4, <1>6
  <2>5. \A b \in Consumer : consumer'[b].pc = "closing" =>
          consumer'[b].id # 0 /\ \A j \in Key : consumer'[b].id # logical'[j].id
    BY <1>4, <1>6, <1>7, <2>2, <2>3 DEF HubInv, IdsAreFresh
  <2>6. \A i, j \in Key : logical'[j].id # 0 /\ logical'[j].id = logical'[i].id => j = i
    BY <1>4, <1>7, <2>2 DEF HubInv, IdsAreFresh
  <2>7. \A j \in Key : logical'[j].id <= handedOut'
    BY <1>3, <1>4, <1>7, <2>2
  <2>8. \A b \in Consumer : consumer'[b].id <= handedOut'
    BY <1>3, <1>4, <2>3, <2>4
  <2> QED
    BY <2>1, <2>5, <2>6, <2>7, <2>8 DEF IdsAreFresh
<1>9. ASSUME hub # "stopped", NEW j \in Key \ overlapped PROVE EntryAgrees(j)' /\ MapAgrees(j)'
  <2>1. EntryAgrees(j) /\ MapAgrees(j) /\ c \notin Hub!Holding(j) /\ hub = "up"
    BY <1>3, <1>5, <1>9 DEF HubInv, HubTypes, Hub!Holding
  <2>2. CASE j # m
    <3>1. Hub!Holding(j)' = Hub!Holding(j)
      BY <1>3, <1>4, <1>5, <2>1, <2>2, HoldingMoves
    <3>2. logical'[j] = logical[j]
      BY <1>7, <2>2
    <3>3. EntryAgrees(j)'
      BY <1>3, <1>4, <1>5, <2>1, <2>2, <3>1, <3>2, EntryKept
    <3>4. ~Closes(c, j)
      BY <1>3 DEF Closes
    <3>5. /\ \A x \in subMap' : x[2] = j => x \in subMap
          /\ <<logical[j].id, j>> \in subMap => <<logical[j].id, j>> \in subMap'
      BY <1>3, <2>2
    <3>6. MapAgrees(j)'
      BY <1>3, <1>4, <1>5, <2>1, <3>2, <3>4, <3>5, MapKept
    <3> QED
      BY <3>3, <3>6
  <2>3. CASE j = m
    <3>1. Opens(c, m) /\ logical[m].id = 0 /\ Hub!Holding(m) = {}
      BY <1>2, <1>3, <2>1, <2>3 DEF EntryAgrees, Opens
    <3>2. Hub!Holding(m)' = {c}
      <4>1. Hub!Holding(m)' = Hub!Holding(m) \cup {c}
        BY <1>3, <1>4, <1>5, HoldingMoves
      <4> QED
        BY <3>1, <4>1
    <3>3. Cardinality(Hub!Holding(m)') = 1
      BY <3>2, FS_Singleton
    <3>4. \A b \in Consumer : ~Opens(b, m)'
      BY <1>4, <1>6, <2>1, <2>3, <3>1 DEF EntryAgrees, Opens
    <3>5. EntryAgrees(m)'
      BY <1>4, <1>7, <2>1, <3>2, <3>3, <3>4 DEF EntryAgrees
    <3>6. \A b \in Consumer : Closes(b, m) => Closes(b, m)' /\ consumer'[b] = consumer[b]
      BY <1>3, <1>6 DEF Closes
    <3>7. \A x \in subMap : x[1] # 0
      BY DEF HubInv, IdsAreFresh
    <3>8. ASSUME NEW x \in subMap', x[2] = m
          PROVE  x[1] = logical'[m].id \/ \E b \in Consumer : Closes(b, m)' /\ consumer'[b].id = x[1]
      <4>1. CASE x \in subMap
        BY <2>1, <2>3, <3>1, <3>6, <3>7, <3>8, <4>1 DEF MapAgrees
      <4>2. CASE x = <<n, m>>
        BY <1>4, <1>7, <2>1, <4>2
      <4> QED
        BY <1>3, <4>1, <4>2
    <3>9. <<logical'[m].id, m>> \in subMap'
      BY <1>3, <1>4, <1>7, <2>1
    <3> QED
      BY <2>3, <3>5, <3>8, <3>9 DEF MapAgrees
  <2> QED
    BY <2>2, <2>3
<1> QED
  BY <1>3, <1>5, <1>8, <1>9 DEF HubInv

LEMMA UnsubscribeInv ==
  ASSUME IsFiniteSet(Consumer), HubInv, NEW c \in Consumer, Hub!Unsubscribe(c)
  PROVE  HubInv'
<1>1. PICK k \in Key : k = consumer[c].key
  BY DEF HubInv, HubTypes, ConsumerState
<1>2. /\ consumer[c].pc = "held" /\ HubTypes /\ logical[k] \in EntryState
      /\ UNCHANGED <<hub, subMap, handedOut, overlapped>>
      /\ c \in Hub!Holding(k) /\ consumer[c] \in ConsumerState
      /\ hub # "down"
  BY <1>1 DEF Hub!Unsubscribe, HubInv, HubTypes, Hub!Holding
<1>3. \A j \in Key : j # k => c \notin Hub!Holding(j) /\ ~Closes(c, j)
  BY <1>1 DEF Hub!Holding, Closes
<1>4. \A j \in Key : ~Opens(c, j) /\ ~Closes(c, j)
  BY <1>2 DEF Opens, Closes
<1>a. PICK r : r = [consumer[c] EXCEPT !.pc = "away"]
  OBVIOUS
<1>b. r \in ConsumerState /\ r.pc = "away" /\ r.id = consumer[c].id
  BY <1>2, <1>a DEF ConsumerState
<1>5. CASE (hub # "up" \/ logical[k].id = 0) /\ UNCHANGED logical
           /\ consumer' = [consumer EXCEPT ![c] = r]
  <2>1. HubTypes'
    BY <1>2, <1>5, <1>b DEF HubTypes
  <2>2. \A b \in Consumer : consumer'[b] = IF b = c THEN r ELSE consumer[b]
    BY <1>2, <1>5 DEF HubTypes
  <2>3. IdsAreFresh'
    BY <1>2, <1>5, <1>b, <2>2 DEF HubInv, IdsAreFresh
  <2>4. ASSUME hub # "stopped", NEW j \in Key \ overlapped PROVE EntryAgrees(j)' /\ MapAgrees(j)'
    <3>1. EntryAgrees(j) /\ MapAgrees(j) /\ hub = "up"
      BY <1>2, <2>4 DEF HubInv, HubTypes
    <3>2. j # k
      BY <1>2, <1>5, <3>1 DEF EntryAgrees
    <3>3. Hub!Holding(j)' = Hub!Holding(j)
      BY <1>2, <1>3, <1>5, <1>b, <3>2, HoldingMoves
    <3>4. EntryAgrees(j)'
      BY <1>2, <1>5, <1>b, <3>1, <3>3, EntryKept
    <3>5. subMap' = subMap /\ logical'[j] = logical[j]
      BY <1>2, <1>5
    <3>6. MapAgrees(j)'
      BY <1>2, <1>4, <1>5, <1>b, <3>1, <3>5, MapKept
    <3> QED
      BY <3>4, <3>6
  <2> QED
    BY <1>2, <2>1, <2>3, <2>4 DEF HubInv
<1>6. CASE /\ hub = "up" /\ logical[k].id # 0 /\ logical[k].refcount > 1
           /\ logical' = [logical EXCEPT ![k].refcount = @ - 1, ![k].callbacks = @ \ {c}]
           /\ consumer' = [consumer EXCEPT ![c] = r]
  <2>1. PICK n \in Nat : n = logical[k].refcount - 1
    BY <1>2, <1>6 DEF EntryState
  <2>2. PICK s \in SUBSET Consumer : s = logical[k].callbacks \ {c}
    BY <1>2 DEF EntryState
  <2>3. PICK e : e = [logical[k] EXCEPT !.refcount = n, !.callbacks = s]
    OBVIOUS
  <2>4. e \in EntryState /\ e.id = logical[k].id /\ e.refcount = n /\ e.callbacks = s
    BY <1>2, <2>3 DEF EntryState
  <2>5. logical' = [logical EXCEPT ![k] = e]
    <3>1. logical' = [logical EXCEPT ![k].refcount = n, ![k].callbacks = s]
      BY <1>2, <1>6, <2>1, <2>2 DEF HubTypes, EntryState
    <3> QED
      BY <1>2, <2>3, <3>1 DEF HubTypes
  <2>6. HubTypes'
    BY <1>2, <1>6, <1>b, <2>4, <2>5 DEF HubTypes
  <2>7. /\ \A b \in Consumer : consumer'[b] = IF b = c THEN r ELSE consumer[b]
        /\ \A j \in Key : logical'[j] = IF j = k THEN e ELSE logical[j]
        /\ \A j \in Key : logical'[j].id = logical[j].id
    BY <1>2, <1>6, <2>4, <2>5 DEF HubTypes
  <2>8. IdsAreFresh'
    BY <1>2, <1>b, <2>7 DEF HubInv, IdsAreFresh
  <2>9. ASSUME NEW j \in Key \ overlapped PROVE EntryAgrees(j)' /\ MapAgrees(j)'
    <3>1. EntryAgrees(j) /\ MapAgrees(j)
      BY <1>6 DEF HubInv
    <3>2. CASE j # k
      <4>1. Hub!Holding(j)' = Hub!Holding(j)
        BY <1>2, <1>3, <1>6, <1>b, <3>2, HoldingMoves
      <4>2. subMap' = subMap /\ logical'[j] = logical[j]
        BY <1>2, <2>7, <3>2
      <4>3. EntryAgrees(j)'
        BY <1>2, <1>6, <1>b, <3>1, <4>1, <4>2, EntryKept
      <4>4. MapAgrees(j)'
        BY <1>2, <1>4, <1>6, <1>b, <3>1, <4>2, MapKept
      <4> QED
        BY <4>3, <4>4
    <3>3. CASE j = k
      <4>1. Hub!Holding(k)' = Hub!Holding(k) \ {c}
        BY <1>2, <1>6, <1>b, HoldingMoves
      <4>2. Cardinality(Hub!Holding(k)') = Cardinality(Hub!Holding(k)) - 1
        BY <1>2, <4>1, HoldingCount, FS_RemoveElement
      <4>3. Cardinality(Hub!Holding(k)) > 1 /\ logical[k].callbacks = Hub!Holding(k)
        BY <1>6, <3>1, <3>3 DEF EntryAgrees
      <4>4. Hub!Holding(k)' # {}
        BY <4>2, <4>3, HoldingCount, FS_EmptySet
      <4>5. \A b \in Consumer : Opens(b, k)' => Opens(b, k)
        BY <1>b, <2>7 DEF Opens
      <4>6. EntryAgrees(k)'
        <5>1. logical'[k] = e /\ e.id = logical[k].id /\ logical[k].id # 0
          BY <1>6, <2>4, <2>7
        <5>2. e.callbacks = Hub!Holding(k)'
          BY <2>2, <2>4, <4>1, <4>3
        <5>3. e.refcount = Cardinality(Hub!Holding(k)')
          BY <2>1, <2>4, <3>1, <3>3, <4>2 DEF EntryAgrees
        <5>4. \A b, d \in Consumer : Opens(b, k) /\ Opens(d, k) => b = d
          BY <3>1, <3>3 DEF EntryAgrees
        <5>5. \A b \in Consumer : ~Opens(b, k)
          BY <3>1, <3>3, <5>1 DEF EntryAgrees
        <5> QED
          BY <4>4, <4>5, <5>1, <5>2, <5>3, <5>4, <5>5 DEF EntryAgrees
      <4>7. \A b \in Consumer : Closes(b, k) => Closes(b, k)' /\ consumer'[b] = consumer[b]
        BY <1>4, <2>7 DEF Closes
      <4>8. MapAgrees(k)'
        BY <1>2, <2>7, <3>1, <3>3, <4>7 DEF MapAgrees
      <4> QED
        BY <3>3, <4>6, <4>8
    <3> QED
      BY <3>2, <3>3
  <2> QED
    BY <1>2, <1>6, <2>6, <2>8, <2>9 DEF HubInv
<1>7. CASE /\ hub = "up" /\ logical[k].id # 0 /\ ~(logical[k].refcount > 1)
           /\ logical' = [logical EXCEPT ![k] = Hub!NoEntry]
           /\ consumer' = [consumer EXCEPT ![c].pc = "closing", ![c].id = logical[k].id]
  <2>1. PICK q : q = [consumer[c] EXCEPT !.pc = "closing", !.id = logical[k].id]
    OBVIOUS
  <2>2. q \in ConsumerState /\ q.key = k /\ q.pc = "closing" /\ q.id = logical[k].id
    BY <1>1, <1>2, <2>1 DEF ConsumerState, EntryState
  <2>3. consumer' = [consumer EXCEPT ![c] = q]
    BY <1>2, <1>7, <2>1 DEF HubTypes
  <2>4. /\ Hub!NoEntry \in EntryState /\ Hub!NoEntry.id = 0 /\ Hub!NoEntry.refcount = 0
        /\ Hub!NoEntry.callbacks = {}
    BY DEF Hub!NoEntry, EntryState
  <2>5. HubTypes'
    BY <1>2, <1>7, <2>2, <2>3, <2>4 DEF HubTypes
  <2>6. /\ \A b \in Consumer : consumer'[b] = IF b = c THEN q ELSE consumer[b]
        /\ \A j \in Key : logical'[j] = IF j = k THEN Hub!NoEntry ELSE logical[j]
    BY <1>2, <1>7, <2>3 DEF HubTypes
  <2>7. IdsAreFresh'
    <3>1. /\ \A j \in Key : logical[j].id <= handedOut
          /\ \A i, j \in Key : logical[i].id # 0 /\ logical[i].id = logical[j].id => i = j
          /\ handedOut \in Nat
      BY <1>2 DEF HubInv, IdsAreFresh, HubTypes
    <3>2. \A j \in Key : logical'[j].id <= handedOut
      BY <2>4, <2>6, <3>1
    <3>3. \A b \in Consumer : consumer'[b].id <= handedOut
      BY <2>2, <2>6, <3>1 DEF HubInv, IdsAreFresh
    <3>4. \A b \in Consumer : consumer'[b].pc = "closing" =>
            consumer'[b].id # 0 /\ \A j \in Key : consumer'[b].id # logical'[j].id
      <4>1. \A b \in Consumer : consumer[b].pc = "closing" =>
              consumer[b].id # 0 /\ \A j \in Key : consumer[b].id # logical[j].id
        BY DEF HubInv, IdsAreFresh
      <4>2. logical[k].id # 0
        BY <1>7
      <4>3. q.id # 0 /\ \A j \in Key : q.id # logical'[j].id
        BY <2>2, <2>4, <2>6, <3>1, <4>2
      <4>4. ASSUME NEW b \in Consumer, b # c, consumer'[b].pc = "closing"
            PROVE  consumer'[b].id # 0 /\ \A j \in Key : consumer'[b].id # logical'[j].id
        BY <2>4, <2>6, <4>1, <4>4
      <4>5. consumer'[c] = q
        BY <2>6
      <4> QED
        BY <4>3, <4>4, <4>5
    <3>5. \A i, j \in Key : logical'[i].id # 0 /\ logical'[i].id = logical'[j].id => i = j
      BY <2>4, <2>6, <3>1
    <3>6. \A x \in subMap' : x[1] # 0 /\ x[1] <= handedOut'
      BY <1>2 DEF HubInv, IdsAreFresh
    <3> QED
      BY <1>2, <3>2, <3>3, <3>4, <3>5, <3>6 DEF IdsAreFresh
  <2>8. ASSUME NEW j \in Key \ overlapped PROVE EntryAgrees(j)' /\ MapAgrees(j)'
    <3>1. EntryAgrees(j) /\ MapAgrees(j)
      BY <1>7 DEF HubInv
    <3>2. CASE j # k
      <4>1. Hub!Holding(j)' = Hub!Holding(j)
        BY <1>2, <1>3, <2>2, <2>3, <3>2, HoldingMoves
      <4>2. subMap' = subMap /\ logical'[j] = logical[j]
        BY <1>2, <2>6, <3>2
      <4>3. EntryAgrees(j)'
        BY <1>2, <2>2, <2>3, <3>1, <3>2, <4>1, <4>2, EntryKept
      <4>4. MapAgrees(j)'
        BY <1>2, <1>4, <2>2, <2>3, <3>1, <4>2, MapKept
      <4> QED
        BY <4>3, <4>4
    <3>3. CASE j = k
      <4>1. Hub!Holding(k)' = Hub!Holding(k) \ {c}
        BY <1>2, <2>2, <2>3, HoldingMoves
      <4>2. Cardinality(Hub!Holding(k)) <= 1 /\ logical[k].id # 0
        BY <1>2, <1>7, <3>1, <3>3, HoldingCount DEF EntryAgrees, EntryState
      <4>3. Cardinality(Hub!Holding(k)') = Cardinality(Hub!Holding(k)) - 1
        BY <1>2, <4>1, HoldingCount, FS_RemoveElement
      <4>4. IsFiniteSet(Hub!Holding(k)')
        BY <4>1, HoldingCount, FS_RemoveElement
      <4>5. Hub!Holding(k)' = {}
        <5>1. Cardinality(Hub!Holding(k)') \in Nat /\ Cardinality(Hub!Holding(k)) \in Nat
          BY <4>4, HoldingCount, FS_CardinalityType
        <5>2. Cardinality(Hub!Holding(k)') = 0
          BY <4>2, <4>3, <5>1
        <5> QED
          BY <4>4, <5>2, FS_EmptySet
      <4>6. Cardinality(Hub!Holding(k)') = 0
        BY <4>5, FS_EmptySet
      <4>7. \A b \in Consumer : Opens(b, k)' => Opens(b, k)
        BY <2>2, <2>6 DEF Opens
      <4>8. EntryAgrees(k)'
        BY <2>4, <2>6, <3>1, <3>3, <4>5, <4>6, <4>7 DEF EntryAgrees
      <4>9. \A b \in Consumer : Closes(b, k) => Closes(b, k)' /\ consumer'[b] = consumer[b]
        BY <1>4, <2>6 DEF Closes
      <4>10. Closes(c, k)' /\ consumer'[c].id = logical[k].id
        BY <2>2, <2>6 DEF Closes
      <4>11. MapAgrees(k)'
        BY <1>2, <2>4, <2>6, <3>1, <3>3, <4>9, <4>10 DEF MapAgrees
      <4> QED
        BY <3>3, <4>8, <4>11
    <3> QED
      BY <3>2, <3>3
  <2> QED
    BY <1>2, <1>7, <2>5, <2>7, <2>8 DEF HubInv
<1> QED
  BY <1>1, <1>5, <1>6, <1>7, <1>a DEF Hub!Unsubscribe

LEMMA ClosedInv ==
  ASSUME HubInv, NEW c \in Consumer, Hub!Closed(c)
  PROVE  HubInv'
<1>1. PICK r : r = Hub!Away(consumer[c].key)
  OBVIOUS
<1>2. /\ r \in ConsumerState /\ r.pc = "away" /\ r.id = 0 /\ HubTypes
      /\ consumer[c].pc = "closing"
  BY <1>1 DEF HubInv, HubTypes, ConsumerState, Hub!Away, Hub!Closed
<1>3. /\ consumer' = [consumer EXCEPT ![c] = r]
      /\ subMap' = {x \in subMap : x[1] # consumer[c].id}
      /\ UNCHANGED <<hub, logical, handedOut, overlapped>>
  BY <1>1 DEF Hub!Closed
<1>4. HubTypes'
  BY <1>2, <1>3 DEF HubTypes
<1>5. \A b \in Consumer : consumer'[b] = IF b = c THEN r ELSE consumer[b]
  BY <1>2, <1>3 DEF HubTypes
<1>6. IdsAreFresh'
  BY <1>2, <1>3, <1>5 DEF HubInv, IdsAreFresh, HubTypes
<1>7. \A k \in Key : consumer[c].id # logical[k].id
  BY <1>2 DEF HubInv, IdsAreFresh
<1>8. ASSUME hub # "stopped", NEW k \in Key \ overlapped PROVE EntryAgrees(k)' /\ MapAgrees(k)'
  <2>1. EntryAgrees(k) /\ MapAgrees(k) /\ c \notin Hub!Holding(k)
    BY <1>2, <1>8 DEF HubInv, Hub!Holding
  <2>2. Hub!Holding(k)' = Hub!Holding(k)
    BY <1>2, <1>3, <2>1, HoldingMoves
  <2>3. EntryAgrees(k)'
    BY <1>2, <1>3, <2>1, <2>2, EntryKept
  <2>4. \A b \in Consumer : Closes(b, k) /\ b # c => Closes(b, k)' /\ consumer'[b] = consumer[b]
    BY <1>5 DEF Closes
  <2>5. MapAgrees(k)'
    BY <1>3, <1>7, <2>1, <2>4 DEF MapAgrees
  <2> QED
    BY <2>3, <2>5
<1> QED
  BY <1>2, <1>3, <1>4, <1>6, <1>8 DEF HubInv

LEMMA HubStepInv ==
  ASSUME IsFiniteSet(Consumer)
  PROVE  HubInv /\ [Hub!Next]_(Hub!hubVars) => HubInv'
<1> SUFFICES ASSUME HubInv, [Hub!Next]_(Hub!hubVars) PROVE HubInv'
  OBVIOUS
<1>1. CASE Hub!Start \/ Hub!Reconnect \/ Hub!Reconnected \/ UNCHANGED Hub!hubVars
  BY <1>1, HubFrameInv DEF Hub!Start, Hub!Reconnect, Hub!Reconnected, Hub!hubVars
<1>2. ASSUME NEW k \in Key, Hub!Data(k) \/ Hub!Fetch(k) \/ Hub!TimePasses(k) \/ Hub!CheckStatus(k)
      PROVE  HubInv'
  BY <1>2, HubFrameInv DEF Hub!Data, Hub!Fetch, Hub!TimePasses, Hub!CheckStatus
<1>3. CASE Hub!Stop
  <2>1. /\ hub' = "stopped" /\ logical' = [k \in Key |-> Hub!NoEntry]
        /\ UNCHANGED <<subMap, handedOut, consumer>>
    BY <1>3 DEF Hub!Stop
  <2>2. Hub!NoEntry \in EntryState /\ Hub!NoEntry.id = 0
    BY DEF Hub!NoEntry, EntryState
  <2>3. HubTypes'
    BY <2>1, <2>2 DEF HubInv, HubTypes
  <2>4. \A k \in Key : logical'[k].id = 0
    BY <2>1, <2>2
  <2>5. IdsAreFresh'
    BY <2>1, <2>4 DEF HubInv, HubTypes, IdsAreFresh
  <2> QED
    BY <2>1, <2>3, <2>5 DEF HubInv
<1>4. ASSUME NEW c \in Consumer, NEW k \in Key, Hub!Join(c, k) PROVE HubInv'
  BY <1>4, JoinInv
<1>5. ASSUME NEW c \in Consumer, NEW k \in Key, Hub!OpenFirst(c, k) PROVE HubInv'
  <2>1. PICK r : r = [pc |-> IF started THEN "opening" ELSE "starting", key |-> k, id |-> 0]
    OBVIOUS
  <2>2. r \in ConsumerState /\ r.key = k /\ r.pc \in {"starting", "opening"} /\ r.id = 0
    BY <2>1 DEF ConsumerState
  <2>3. /\ hub = "up" /\ consumer[c].pc = "away" /\ logical[k].id = 0
        /\ consumer' = [consumer EXCEPT ![c] = r]
        /\ UNCHANGED <<hub, logical, subMap, handedOut>>
        /\ overlapped' = IF Hub!Opening(k) = {} THEN overlapped ELSE overlapped \cup {k}
    BY <1>5, <2>1 DEF Hub!OpenFirst
  <2>4. k \notin overlapped' => \A b \in Consumer : ~Opens(b, k)
    BY <2>3 DEF Hub!Opening, Opens
  <2>5. r.id <= handedOut
    BY <2>2 DEF HubInv, HubTypes
  <2>6. overlapped \subseteq overlapped'
    BY <2>3
  <2>7. \A j \in Key \ overlapped' : r.key = j =>
          logical[j].id = 0 /\ \A b \in Consumer : ~Opens(b, j)
    BY <2>2, <2>3, <2>4
  <2>8. hub # "down" /\ r.pc \in {"away", "starting", "opening"}
        /\ consumer[c].pc \in {"away", "starting", "opening"}
    BY <2>2, <2>3
  <2> QED
    BY <2>2, <2>3, <2>5, <2>6, <2>7, <2>8, OpeningInv
<1>6. ASSUME NEW c \in Consumer, Hub!ConnectorStarted(c) \/ Hub!OpenFails(c) PROVE HubInv'
  <2>1. PICK p \in {"opening", "away"} : consumer' = [consumer EXCEPT ![c].pc = p]
    BY <1>6 DEF Hub!ConnectorStarted, Hub!OpenFails
  <2>2. PICK r : r = [consumer[c] EXCEPT !.pc = p]
    OBVIOUS
  <2>3. HubTypes /\ consumer[c] \in ConsumerState
    BY DEF HubInv, HubTypes
  <2>4. /\ r \in ConsumerState /\ r.key = consumer[c].key /\ r.pc = p /\ r.id = consumer[c].id
    BY <2>2, <2>3 DEF ConsumerState
  <2>5. /\ consumer[c].pc \in {"starting", "opening"}
        /\ consumer' = [consumer EXCEPT ![c] = r]
        /\ UNCHANGED <<hub, logical, subMap, handedOut, overlapped>>
    BY <1>6, <2>1, <2>2 DEF Hub!ConnectorStarted, Hub!OpenFails
  <2>6. hub # "down" /\ r.id <= handedOut
    BY <2>4, <2>5 DEF HubInv, IdsAreFresh
  <2>7. \A k \in Key : r.key = k => Opens(c, k)
    BY <2>4, <2>5 DEF Opens
  <2> QED
    BY <2>4, <2>5, <2>6, <2>7, OpeningInv
<1>7. ASSUME NEW c \in Consumer, Hub!Opened(c) \/ Hub!Unsubscribe(c) \/ Hub!Closed(c) PROVE HubInv'
  BY <1>7, OpenedInv, UnsubscribeInv, ClosedInv
<1> QED
  BY <1>1, <1>2, <1>3, <1>4, <1>5, <1>6, <1>7 DEF Hub!Next

(* MarketHub: consumers that come, go and fail in any order share one      *)
(* subscription of a stream, open as long as somebody holds it, for any    *)
(* finite set of consumers, unless first subscribers of it overlapped.     *)
THEOREM ConsumersShareOneFeed ==
  ASSUME IsFiniteSet(Consumer), Key # {}
  PROVE  Hub!Spec => []OneFeedPerStream
<1>1. HubInv => OneFeedPerStream
  <2> SUFFICES ASSUME HubInv, NEW k \in Key, hub = "up", Hub!Settled(k), k \notin overlapped
               PROVE  /\ Hub!Cardinality({x \in subMap : x[2] = k})
                           = (IF Hub!Holding(k) = {} THEN 0 ELSE 1)
                      /\ logical[k].refcount = Hub!Cardinality(Hub!Holding(k))
                      /\ logical[k].callbacks = Hub!Holding(k)
    BY DEF OneFeedPerStream, Hub!OneFeedPerStream
  <2>1. \A S : Hub!Cardinality(S) = Cardinality(S)
    BY DEF Hub!Cardinality, Cardinality
  <2>2. EntryAgrees(k) /\ MapAgrees(k) /\ IdsAreFresh /\ HubTypes
    BY DEF HubInv
  <2>3. \A c \in Consumer : ~Closes(c, k)
    BY DEF Hub!Settled, Closes
  <2>4. \A x \in subMap : x[2] = k => x = <<logical[k].id, k>> /\ x[1] # 0
    BY <2>2, <2>3 DEF MapAgrees, IdsAreFresh, HubTypes
  <2>5. CASE Hub!Holding(k) = {}
    <3>1. {x \in subMap : x[2] = k} = {}
      BY <2>2, <2>4, <2>5 DEF EntryAgrees
    <3> QED
      BY <2>1, <2>2, <2>5, <3>1, FS_EmptySet DEF EntryAgrees
  <2>6. CASE Hub!Holding(k) # {}
    <3>1. {x \in subMap : x[2] = k} = {<<logical[k].id, k>>}
      BY <2>2, <2>4, <2>6 DEF EntryAgrees, MapAgrees
    <3> QED
      BY <2>1, <2>2, <2>6, <3>1, FS_Singleton DEF EntryAgrees
  <2> QED
    BY <2>5, <2>6
<1> QED
  BY <1>1, HubInitInv, HubStepInv, PTL DEF Hub!Spec

-----------------------------------------------------------------------------
(* PortfolioManager.  The books are exact for every whole quantity and     *)
(* price as long as average entries are.                                   *)

PositionState == [coin : Coin, side : {"long", "short"}, entry : Int, qty : Nat, realized : Int,
                  closed : BOOLEAN]
OrderState == [coin : Coin, side : {"buy", "sell"}, qty : Nat \ {0}, price : Int,
               stale : BOOLEAN]

Worth(pos) == IF pos.side = "long" THEN pos.entry * pos.qty ELSE -(pos.entry * pos.qty)

Balanced(pos, moved) ==
  /\ pos \in PositionState
  /\ pos.realized = moved + Worth(pos)
  /\ pos.closed <=> pos.qty = 0

BooksInv ==
  /\ DOMAIN position = Trader /\ cash \in [Trader -> Int] /\ DOMAIN ordered = Trader
  /\ \A i \in Trader : position[i] # NoPos => Balanced(position[i], cash[i])
  /\ \A i \in Trader : ordered[i] # NoPos => ordered[i] \in OrderState

LEMMA ExactDivision ==
  ASSUME NEW a \in Int, NEW n \in Nat \ {0}, a % n = 0
  PROVE  a \div n \in Int /\ (a \div n) * n = a
OBVIOUS

LEMMA RegisteredBalances ==
  ASSUME NEW o \in OrderState
  PROVE  Balanced(Risk!Registered(o), Risk!Flow(o)) /\ Risk!Flow(o) \in Int
BY DEF OrderState, PositionState, Balanced, Worth, Risk!Registered, Risk!Flow

LEMMA IncreasedBalances ==
  ASSUME NEW o \in OrderState, NEW pos \in PositionState, NEW moved \in Int, Balanced(pos, moved),
         ~Risk!Refused(pos, o), Risk!Opens(pos, o.side), Risk!ExactAverage(pos, o)
  PROVE  Balanced(Risk!Increased(pos, o), moved + Risk!Flow(o))
<1> DEFINE sum == pos.entry * pos.qty + o.price * o.qty
<1>1. PICK n \in Nat \ {0} : n = pos.qty + o.qty
  BY DEF OrderState, PositionState
<1>2. PICK e \in Int : e = sum \div n /\ e * n = sum
  <2>1. PICK a \in Int : a = sum
    BY DEF OrderState, PositionState
  <2>2. a % n = 0
    BY <1>1, <2>1 DEF Risk!ExactAverage
  <2>3. a \div n \in Int /\ (a \div n) * n = a
    BY <2>2, ExactDivision
  <2> HIDE DEF sum
  <2> QED
    BY <2>1, <2>3
<1>3. Risk!Increased(pos, o) = [pos EXCEPT !.entry = e, !.qty = n]
  BY <1>1, <1>2, Zenon DEF Risk!Increased
<1>4. PICK b : b = [pos EXCEPT !.entry = e, !.qty = n]
  OBVIOUS
<1>5. /\ b \in PositionState /\ b.entry = e /\ b.qty = n /\ b.side = pos.side
      /\ b.realized = pos.realized /\ b.closed = pos.closed
  BY <1>4 DEF PositionState
<1>6. ~pos.closed /\ (pos.side = "long" <=> o.side = "buy")
  BY DEF Risk!Refused, Risk!Opens
<1>7. Risk!Flow(o) = IF o.side = "buy" THEN -(o.price * o.qty) ELSE o.price * o.qty
  BY DEF Risk!Flow, OrderState
<1>8. pos.realized = moved + Worth(pos) /\ (pos.closed <=> pos.qty = 0)
  BY DEF Balanced
<1>9. b.realized = moved + Risk!Flow(o) + Worth(b)
  <2>1. PICK old \in Int : old = pos.entry * pos.qty
    BY DEF PositionState
  <2>2. PICK new \in Int : new = o.price * o.qty
    BY DEF OrderState
  <2>3. Worth(pos) = (IF pos.side = "long" THEN old ELSE -old)
    BY <2>1 DEF Worth
  <2>4. Worth(b) = (IF pos.side = "long" THEN old + new ELSE -(old + new))
    BY <1>2, <1>5, <2>1, <2>2 DEF Worth
  <2>5. Risk!Flow(o) = (IF pos.side = "long" THEN -new ELSE new)
    BY <1>6, <1>7, <2>2
  <2>6. pos.realized \in Int
    BY DEF PositionState
  <2> QED
    BY <1>5, <1>8, <2>3, <2>4, <2>5, <2>6
<1> QED
  BY <1>1, <1>3, <1>4, <1>5, <1>6, <1>9 DEF Balanced

LEMMA ReducedBalances ==
  ASSUME NEW o \in OrderState, NEW pos \in PositionState, NEW moved \in Int, Balanced(pos, moved),
         ~Risk!Refused(pos, o), ~Risk!Opens(pos, o.side)
  PROVE  Balanced(Risk!Reduced(pos, o), moved + Risk!Flow(o))
<1>1. PICK n \in Nat : n = pos.qty - o.qty
  BY DEF OrderState, PositionState, Risk!Refused
<1>2. PICK g \in Int : g = pos.realized + Risk!Gain(pos, o)
  BY DEF OrderState, PositionState, Risk!Gain
<1>3. PICK d \in BOOLEAN : d = (pos.qty = o.qty)
  OBVIOUS
<1>4. Risk!Reduced(pos, o) = [pos EXCEPT !.realized = g, !.qty = n, !.closed = d]
  BY <1>1, <1>2, <1>3, Zenon DEF Risk!Reduced
<1>5. PICK b : b = [pos EXCEPT !.realized = g, !.qty = n, !.closed = d]
  OBVIOUS
<1>6. /\ b \in PositionState /\ b.entry = pos.entry /\ b.qty = n /\ b.side = pos.side
      /\ b.realized = g /\ b.closed = d
  BY <1>5 DEF PositionState
<1>7. pos.side = "long" <=> o.side # "buy"
  BY DEF Risk!Opens, OrderState, PositionState
<1>8. Risk!Flow(o) = IF o.side = "buy" THEN -(o.price * o.qty) ELSE o.price * o.qty
  BY DEF Risk!Flow, OrderState
<1>9. pos.realized = moved + Worth(pos)
  BY DEF Balanced
<1>10. b.realized = moved + Risk!Flow(o) + Worth(b)
  <2>1. pos.entry \in Int /\ o.price \in Int /\ o.qty \in Int /\ pos.qty \in Int
        /\ pos.realized \in Int
    BY DEF PositionState, OrderState
  <2>2. PICK old \in Int : old = pos.entry * pos.qty
    BY <2>1
  <2>3. PICK new \in Int : new = o.price * o.qty
    BY <2>1
  <2>4. PICK sold \in Int : sold = pos.entry * o.qty
    BY <2>1
  <2>5. pos.entry * n = old - sold
    BY <1>1, <2>1, <2>2, <2>4
  <2>6. /\ (o.price - pos.entry) * o.qty = new - sold
        /\ (pos.entry - o.price) * o.qty = sold - new
    BY <2>1, <2>3, <2>4
  <2>7. Worth(pos) = (IF pos.side = "long" THEN old ELSE -old)
    BY <2>2 DEF Worth
  <2>8. Worth(b) = (IF pos.side = "long" THEN old - sold ELSE -(old - sold))
    BY <1>6, <2>5 DEF Worth
  <2>9. Risk!Flow(o) = (IF pos.side = "long" THEN new ELSE -new)
    BY <1>7, <1>8, <2>3
  <2>10. Risk!Gain(pos, o) = (IF pos.side = "long" THEN new - sold ELSE sold - new)
    BY <2>6 DEF Risk!Gain
  <2> QED
    BY <1>2, <1>6, <1>9, <2>1, <2>7, <2>8, <2>9, <2>10
<1>11. d <=> n = 0
  <2>1. d <=> pos.qty = o.qty
    BY <1>3, Zenon
  <2>2. pos.qty \in Int /\ o.qty \in Int
    BY DEF PositionState, OrderState
  <2> QED
    BY <1>1, <2>1, <2>2
<1> QED
  BY <1>4, <1>5, <1>6, <1>10, <1>11 DEF Balanced

LEMMA BooksInitInv == Risk!Init => BooksInv
BY DEF Risk!Init, BooksInv

(* Orders made stale, and one of them gone. *)
LEMMA OrdersKept ==
  ASSUME BooksInv
  PROVE  /\ DOMAIN Risk!Overtaken = Trader
         /\ \A j \in Trader : Risk!Overtaken[j] # NoPos => Risk!Overtaken[j] \in OrderState
<1>1. \A j \in Trader : ordered[j] # NoPos => [ordered[j] EXCEPT !.stale = TRUE] \in OrderState
  BY DEF BooksInv, OrderState
<1> QED
  BY <1>1 DEF Risk!Overtaken

LEMMA FillInv ==
  ASSUME BooksInv, NEW i \in Trader, Risk!Fill(i)
  PROVE  BooksInv'
<1> DEFINE o == ordered[i]  pos == position[i]
<1>1. o \in OrderState
  BY DEF BooksInv, Risk!Fill
<1>2. /\ ordered' = [Risk!Overtaken EXCEPT ![i] = NoPos]
      /\ DOMAIN position = Trader /\ cash \in [Trader -> Int]
  BY DEF BooksInv, Risk!Fill
<1>3. DOMAIN ordered' = Trader /\ \A j \in Trader : ordered'[j] # NoPos => ordered'[j] \in OrderState
  BY <1>2, OrdersKept
<1>4. ASSUME NEW p, NEW m \in Int, Balanced(p, m),
             position' = [position EXCEPT ![i] = p], cash' = [cash EXCEPT ![i] = m]
      PROVE  BooksInv'
  <2>1. DOMAIN position' = Trader /\ cash' \in [Trader -> Int]
    BY <1>2, <1>4
  <2>2. \A j \in Trader : /\ position'[j] = IF j = i THEN p ELSE position[j]
                          /\ cash'[j] = IF j = i THEN m ELSE cash[j]
    BY <1>2, <1>4
  <2>3. \A j \in Trader : position'[j] # NoPos => Balanced(position'[j], cash'[j])
    BY <1>4, <2>2 DEF BooksInv
  <2> QED
    BY <1>3, <2>1, <2>3 DEF BooksInv
<1>5. CASE pos = NoPos /\ position' = [position EXCEPT ![i] = Risk!Registered(o)]
           /\ cash' = [cash EXCEPT ![i] = Risk!Flow(o)]
  BY <1>1, <1>4, <1>5, RegisteredBalances
<1>6. CASE UNCHANGED <<position, cash>>
  BY <1>3, <1>6 DEF BooksInv
<1>7. CASE pos # NoPos /\ ~Risk!Refused(pos, o)
  <2>1. pos \in PositionState /\ cash[i] \in Int /\ Balanced(pos, cash[i])
    BY <1>2, <1>7 DEF BooksInv, Balanced
  <2>2. cash[i] + Risk!Flow(o) \in Int
    BY <1>1, <2>1, RegisteredBalances
  <2>3. CASE Risk!Opens(pos, o.side)
    <3>1. Risk!ExactAverage(pos, o) /\ position' = [position EXCEPT ![i] = Risk!Increased(pos, o)]
          /\ cash' = [cash EXCEPT ![i] = cash[i] + Risk!Flow(o)]
      BY <1>7, <2>3 DEF Risk!Fill
    <3>2. Balanced(Risk!Increased(pos, o), cash[i] + Risk!Flow(o))
      <4> HIDE DEF o, pos
      <4> QED
        BY <1>1, <1>7, <2>1, <2>3, <3>1, IncreasedBalances
    <3> QED
      BY <1>4, <2>2, <3>1, <3>2
  <2>4. CASE ~Risk!Opens(pos, o.side)
    <3>1. position' = [position EXCEPT ![i] = Risk!Reduced(pos, o)]
          /\ cash' = [cash EXCEPT ![i] = cash[i] + Risk!Flow(o)]
      BY <1>7, <2>4 DEF Risk!Fill
    <3>2. Balanced(Risk!Reduced(pos, o), cash[i] + Risk!Flow(o))
      <4> HIDE DEF o, pos
      <4> QED
        BY <1>1, <1>7, <2>1, <2>4, ReducedBalances
    <3> QED
      BY <1>4, <2>2, <3>1, <3>2
  <2> QED
    BY <2>3, <2>4
<1> QED
  BY <1>5, <1>6, <1>7 DEF Risk!Fill

LEMMA BooksStepInv ==
  ASSUME Lot \subseteq Nat \ {0}, Quote \subseteq Int
  PROVE  BooksInv /\ [Risk!Next]_(Risk!riskVars) => BooksInv'
<1> SUFFICES ASSUME BooksInv, [Risk!Next]_(Risk!riskVars) PROVE BooksInv'
  OBVIOUS
<1>1. ASSUME NEW i \in Trader, NEW c \in Coin, NEW side \in {"buy", "sell"}, NEW q \in Lot,
             NEW p \in Quote, Risk!CheckOrder(i, c, side, q, p)
      PROVE  BooksInv'
  <2>1. PICK o \in OrderState :
          o = [coin |-> c, side |-> side, qty |-> q, price |-> p, stale |-> FALSE]
    BY DEF OrderState
  <2>2. ordered' = [ordered EXCEPT ![i] = o] /\ UNCHANGED <<position, cash>>
    BY <1>1, <2>1 DEF Risk!CheckOrder
  <2> QED
    BY <2>2 DEF BooksInv
<1>2. ASSUME NEW i \in Trader, Risk!Cancel(i) PROVE BooksInv'
  BY <1>2 DEF Risk!Cancel, BooksInv
<1>3. ASSUME NEW i \in Trader, Risk!ClosePosition(i) PROVE BooksInv'
  <2>1. /\ position' = [position EXCEPT ![i] = NoPos] /\ cash' = [cash EXCEPT ![i] = 0]
        /\ ordered' = Risk!Overtaken
    BY <1>3 DEF Risk!ClosePosition
  <2>2. \A j \in Trader : position'[j] # NoPos => position'[j] = position[j] /\ cash'[j] = cash[j]
    BY <2>1 DEF BooksInv
  <2> QED
    BY <2>1, <2>2, OrdersKept DEF BooksInv
<1>4. ASSUME NEW c \in Coin, NEW p \in Quote, Risk!OnPriceUpdate(c, p) PROVE BooksInv'
  <2>1. ordered' = Risk!Overtaken /\ UNCHANGED <<position, cash>>
    BY <1>4 DEF Risk!OnPriceUpdate
  <2> QED
    BY <2>1, OrdersKept DEF BooksInv
<1>5. CASE UNCHANGED Risk!riskVars
  BY <1>5 DEF Risk!riskVars, BooksInv
<1> QED
  BY <1>1, <1>2, <1>3, <1>4, <1>5, FillInv DEF Risk!Next

(* PortfolioManager: realised profit, money moved and what a position      *)
(* holds always balance, for any orders of whole lots at whole prices.     *)
THEOREM BooksAlwaysBalance ==
  ASSUME Lot \subseteq Nat \ {0}, Quote \subseteq Int
  PROVE  Risk!Spec => []BooksBalance
<1>1. BooksInv => BooksBalance
  BY DEF BooksInv, Balanced, Worth, BooksBalance, Risk!BooksBalance, Risk!Booked
<1> QED
  BY <1>1, BooksInitInv, BooksStepInv, PTL DEF Risk!Spec

-----------------------------------------------------------------------------
(* The recovery services: the queue of orders that wait for an exchange    *)
(* and the reconciliation of a grid level.                                 *)

QueueInv ==
  /\ order_queue \in Seq([order : Order, venue : Venue])
  /\ DOMAIN calls = Order /\ DOMAIN fate = Order
  /\ ReplayedOnce

LEMMA QueueInitInv == Rec!Init => QueueInv
BY DEF Rec!Init, QueueInv, ReplayedOnce, Rec!ReplayedOnce, Rec!Waiting

LEMMA QueueStepInv == QueueInv /\ [Rec!Next]_(Rec!recVars) => QueueInv'
<1> SUFFICES ASSUME QueueInv, [Rec!Next]_(Rec!recVars) PROVE QueueInv'
  OBVIOUS
<1> USE DEF QueueInv, ReplayedOnce, Rec!ReplayedOnce
<1>1. CASE UNCHANGED Rec!queueVars
  BY <1>1 DEF Rec!queueVars, Rec!Waiting
<1>2. ASSUME NEW v \in Venue, Rec!Disconnect(v) PROVE QueueInv'
  BY <1>2 DEF Rec!Disconnect, Rec!Waiting
<1>3. ASSUME NEW v \in Venue, Rec!Reconnect(v) PROVE QueueInv'
  <2>1. order_queue' = <<>>
    BY <1>3 DEF Rec!Reconnect, Rec!QueueCleared
  <2>2. Rec!Waiting' = {}
    BY <2>1 DEF Rec!Waiting
  <2>3. calls' = [o \in Order |-> IF o \in Rec!Waiting THEN calls[o] + 1 ELSE calls[o]]
    BY <1>3 DEF Rec!Reconnect
  <2>4. PICK raised : fate' = [o \in Order |-> IF o \notin Rec!Waiting THEN fate[o]
                                               ELSE IF o \in raised THEN "dropped" ELSE "placed"]
    BY <1>3 DEF Rec!Reconnect
  <2> QED
    BY <2>1, <2>2, <2>3, <2>4
<1>4. ASSUME NEW v \in Venue, NEW o \in Order, Rec!QueueOrder(o, v) PROVE QueueInv'
  <2>1. PICK x \in [order : Order, venue : Venue] : x = [order |-> o, venue |-> v]
    OBVIOUS
  <2>2. /\ fate[o] = "new" /\ order_queue' = Append(order_queue, x)
        /\ fate' = [fate EXCEPT ![o] = "queued"] /\ UNCHANGED calls
    BY <1>4, <2>1 DEF Rec!QueueOrder
  <2>3. Rec!Waiting' = Rec!Waiting \cup {o}
    <3>1. /\ DOMAIN order_queue' = DOMAIN order_queue \cup {Len(order_queue) + 1}
          /\ order_queue'[Len(order_queue) + 1] = x
          /\ \A n \in DOMAIN order_queue : order_queue'[n] = order_queue[n]
      BY <2>2
    <3> QED
      BY <2>1, <3>1 DEF Rec!Waiting
  <2> QED
    BY <2>2, <2>3
<1>5. Rec!CoordStep \/ Rec!ReconcileGrid \/ UNCHANGED Rec!recVars => UNCHANGED Rec!queueVars
  BY DEF Rec!CoordStep, Rec!RecoverInstance, Rec!ExchangeMoves, Rec!ReconcileGrid, Rec!recVars
<1> QED
  BY <1>1, <1>2, <1>3, <1>4, <1>5 DEF Rec!Next, Rec!QueueStep

(* The connection queue: an order waits until a reconnect hands it over,   *)
(* once, however disconnects, reconnects and orders alternate.             *)
THEOREM QueueReplaysOnce == Rec!Spec => []ReplayedOnce
<1>1. QueueInv => ReplayedOnce
  BY DEF QueueInv
<1> QED
  BY <1>1, QueueInitInv, QueueStepInv, PTL DEF Rec!Spec

(* What a reconciliation makes of one snapshot and one listing.            *)
LEMMA LevelChecked ==
  ASSUME NEW s \in Rec!Snapshot, NEW x \in [Rec!Ids -> Rec!Listed], NEW l,
         l = Rec!SellChecked(Rec!BuyChecked(s, x), x)
  PROVE  /\ Rec!Of(x, l.sell) = "filled" => l.status = "TP_HIT"
         /\ Rec!Of(x, l.buy) = "filled" => l.status = "FILLED"
         /\ l.status = "OPEN" => l.buy # "none" /\ l.sell = "none"
         /\ l.status = "WAITING" => l.buy = "none" /\ l.sell = "none"
         /\ l.buy \in {"none", "buy"}
<1> USE DEF Rec!Of
<1>1. PICK m : m = Rec!BuyChecked(s, x)
  OBVIOUS
<1>2. l = Rec!SellChecked(m, x)
  BY <1>1
<1>3. CASE s.status \in {"WAITING", "TP_HIT"} /\ s.buy = "none" /\ s.sell = "none"
  <2>1. m = s
    BY <1>1, <1>3 DEF Rec!BuyChecked
  <2>2. l = s
    BY <1>2, <1>3, <2>1 DEF Rec!SellChecked
  <2> QED
    BY <1>3, <2>2
<1>4. CASE s \in [status : {"OPEN", "CANCELLED"}, buy : {"buy"}, sell : {"none"}]
  <2>1. m.sell = "none"
    BY <1>1, <1>4 DEF Rec!BuyChecked
  <2>2. l = m
    BY <1>2, <2>1 DEF Rec!SellChecked
  <2>3. CASE x["buy"] = "filled"
    <3>1. m = [s EXCEPT !.status = "FILLED"]
      BY <1>1, <1>4, <2>3 DEF Rec!BuyChecked
    <3>2. m.status = "FILLED" /\ m.buy = "buy"
      BY <1>4, <3>1
    <3> QED
      BY <2>1, <2>2, <3>2
  <2>4. CASE x["buy"] = "cancelled" /\ s.status = "OPEN"
    <3>1. m = [s EXCEPT !.status = "WAITING", !.buy = "none"]
      BY <1>1, <1>4, <2>4 DEF Rec!BuyChecked
    <3>2. m.status = "WAITING" /\ m.buy = "none"
      BY <1>4, <3>1
    <3> QED
      BY <2>1, <2>2, <3>2
  <2>5. CASE x["buy"] # "filled" /\ ~(x["buy"] = "cancelled" /\ s.status = "OPEN")
    <3>1. m = s
      BY <1>1, <1>4, <2>5 DEF Rec!BuyChecked
    <3> QED
      BY <1>4, <2>2, <2>5, <3>1
  <2> QED
    BY <2>3, <2>4, <2>5
<1>5. CASE s.status = "FILLED" /\ s.buy = "none" /\ s.sell \in {"sell", "none"}
  <2>1. m = s
    BY <1>1, <1>5 DEF Rec!BuyChecked
  <2>2. CASE s.sell = "sell" /\ x["sell"] = "filled"
    <3>1. l = [s EXCEPT !.status = "TP_HIT"]
      BY <1>2, <2>1, <2>2 DEF Rec!SellChecked
    <3>2. l.status = "TP_HIT" /\ l.buy = "none"
      BY <1>5, <3>1 DEF Rec!Snapshot
    <3> QED
      BY <3>2
  <2>3. CASE ~(s.sell = "sell" /\ x["sell"] = "filled")
    <3>1. l = s
      BY <1>2, <1>5, <2>1, <2>3 DEF Rec!SellChecked
    <3> QED
      BY <1>5, <2>3, <3>1
  <2> QED
    BY <2>2, <2>3
<1> QED
  BY <1>3, <1>4, <1>5 DEF Rec!Snapshot

(* The grid reconciler: whatever a snapshot held and whatever the exchange *)
(* lists, what is left of the level agrees with the listing or is          *)
(* reported, unless the listing says rejected or expired, which the        *)
(* reconciler takes for an order that works.                               *)
THEOREM ReconciledGridAgrees == Rec!Spec => []GridAgrees
<1>1. Rec!Init => GridAgrees
  BY DEF Rec!Init, GridAgrees, Rec!GridAgrees
<1>2. GridAgrees /\ [Rec!Next]_(Rec!recVars) => GridAgrees'
  <2> SUFFICES ASSUME GridAgrees, [Rec!Next]_(Rec!recVars) PROVE GridAgrees'
    OBVIOUS
  <2>1. CASE Rec!ReconcileGrid
    <3>1. PICK s \in Rec!Snapshot, x \in [Rec!Ids -> Rec!Listed] :
            LET l == Rec!SellChecked(Rec!BuyChecked(s, x), x) IN
            /\ level' = l /\ live' = x
            /\ found' = [done |-> TRUE, missing |-> Rec!FindMissing(l, x),
                         orphans |-> Rec!FindOrphans(l, x)]
      BY <2>1 DEF Rec!ReconcileGrid
    <3>2. PICK l : l = Rec!SellChecked(Rec!BuyChecked(s, x), x)
      OBVIOUS
    <3>3. /\ level' = l /\ live' = x /\ found'.missing = Rec!FindMissing(l, x)
          /\ found'.orphans = Rec!FindOrphans(l, x)
      BY <3>1, <3>2
    <3>4. /\ Rec!Of(x, l.sell) = "filled" => l.status = "TP_HIT"
          /\ Rec!Of(x, l.buy) = "filled" => l.status = "FILLED"
          /\ l.status = "OPEN" => l.buy # "none" /\ l.sell = "none"
          /\ l.status = "WAITING" => l.buy = "none" /\ l.sell = "none"
          /\ l.buy \in {"none", "buy"}
      BY <3>2, LevelChecked
    <3>5. l.status = "OPEN" /\ ~Rec!FindMissing(l, x) => Rec!IsLive(x, l.buy)
      BY <3>4 DEF Rec!FindMissing
    <3>6. \A id \in Rec!Ids : Rec!IsLive(x, id) => id \in {l.buy, l.sell} \cup Rec!FindOrphans(l, x)
      BY DEF Rec!FindOrphans
    <3>7. /\ Rec!Works(l.buy)' \/ Rec!Fallen(l.buy)' <=> Rec!IsLive(x, l.buy)
          /\ \A id \in Rec!Ids : Rec!Works(id)' => Rec!IsLive(x, id)
      <4>1. \A id \in Rec!Ids \cup {"none"} : Rec!Of(x, id) \in Rec!Listed
        BY DEF Rec!Of, Rec!Listed
      <4>2. l.buy \in Rec!Ids \cup {"none"}
        BY <3>4 DEF Rec!Ids
      <4> QED
        BY <3>3, <4>1, <4>2 DEF Rec!Works, Rec!Fallen, Rec!IsLive, Rec!Listed
    <3> QED
      BY <3>3, <3>4, <3>5, <3>6, <3>7 DEF GridAgrees, Rec!GridAgrees
  <2>2. CASE UNCHANGED Rec!gridVars
    BY <2>2 DEF Rec!gridVars, GridAgrees, Rec!GridAgrees, Rec!Of, Rec!Works, Rec!Fallen
  <2>3. Rec!QueueStep \/ Rec!CoordStep \/ UNCHANGED Rec!recVars => UNCHANGED Rec!gridVars
    BY DEF Rec!QueueStep, Rec!Disconnect, Rec!Reconnect, Rec!QueueOrder, Rec!CoordStep,
      Rec!RecoverInstance, Rec!ExchangeMoves, Rec!recVars
  <2> QED
    BY <2>1, <2>2, <2>3 DEF Rec!Next
<1> QED
  BY <1>1, <1>2, PTL DEF Rec!Spec

-----------------------------------------------------------------------------
(* Sums over finite sets.  MapThenSumSet takes the elements one by one, in *)
(* an order of its own; that the order makes no difference is an induction *)
(* over finite sets, in the form of a least counterexample.                *)

Pick(s) == CHOOSE x \in s : TRUE

IsSum(g, f, S) ==
  g = [s \in SUBSET S |-> IF s = {} THEN 0 ELSE f[Pick(s)] + g[s \ {Pick(s)}]]

Whole(f, S) == \A x \in S : f[x] \in Int
Agree(f, e, S) == \A x \in S : f[x] = e[x]

LEMMA SumOfPicked ==
  ASSUME NEW S, NEW f, NEW g, IsSum(g, f, S), NEW T \in SUBSET S, T # {}
  PROVE  /\ Pick(T) \in T /\ T \ {Pick(T)} \in SUBSET S
         /\ g[T] = f[Pick(T)] + g[T \ {Pick(T)}]
<1>1. Pick(T) \in T
  BY DEF Pick
<1> QED
  BY <1>1 DEF IsSum

LEMMA SumIsWhole ==
  ASSUME NEW S, IsFiniteSet(S), NEW f, Whole(f, S), NEW g, IsSum(g, f, S),
         NEW T \in SUBSET S
  PROVE  g[T] \in Int
<1> DEFINE Bad == {U \in SUBSET S : g[U] \notin Int}
<1> SUFFICES ASSUME Bad # {} PROVE FALSE
  OBVIOUS
<1>1. PICK U \in Bad : \A V \in Bad : V \subseteq U => V = U
  <2>1. Bad \in SUBSET SUBSET S
    OBVIOUS
  <2> HIDE DEF Bad
  <2> QED
    BY <2>1, LeastSubset
<1>2. U # {}
  BY <1>1 DEF IsSum
<1>3. /\ Pick(U) \in U /\ U \ {Pick(U)} \in SUBSET S
      /\ g[U] = f[Pick(U)] + g[U \ {Pick(U)}]
  BY <1>1, <1>2, SumOfPicked
<1>4. U \ {Pick(U)} \notin Bad
  BY <1>1, <1>3
<1> QED
  BY <1>1, <1>3, <1>4 DEF Whole

LEMMA SumAgrees ==
  ASSUME NEW S, NEW R, IsFiniteSet(S), NEW f, NEW e, NEW g, IsSum(g, f, S), NEW h, IsSum(h, e, R),
         NEW T \in SUBSET S, T \in SUBSET R, Agree(f, e, T)
  PROVE  g[T] = h[T]
<1> DEFINE Bad == {U \in SUBSET S : U \subseteq T /\ g[U] # h[U]}
<1> SUFFICES ASSUME Bad # {} PROVE FALSE
  OBVIOUS
<1>1. PICK U \in Bad : \A V \in Bad : V \subseteq U => V = U
  <2>1. Bad \in SUBSET SUBSET S
    OBVIOUS
  <2> HIDE DEF Bad
  <2> QED
    BY <2>1, LeastSubset
<1>2. U # {}
  BY <1>1 DEF IsSum
<1>3. /\ Pick(U) \in U /\ U \ {Pick(U)} \in SUBSET S
      /\ g[U] = f[Pick(U)] + g[U \ {Pick(U)}]
  <2>1. U \in SUBSET S
    BY <1>1
  <2> QED
    BY <1>2, <2>1, SumOfPicked
<1>4. h[U] = e[Pick(U)] + h[U \ {Pick(U)}]
  <2>1. U \in SUBSET R
    BY <1>1
  <2> QED
    BY <1>2, <2>1, SumOfPicked
<1>5. U \ {Pick(U)} \notin Bad
  BY <1>1, <1>3
<1> QED
  BY <1>1, <1>3, <1>4, <1>5 DEF Agree

LEMMA SumExists == ASSUME NEW S, IsFiniteSet(S), NEW f PROVE \E g : IsSum(g, f, S)
<1> DEFINE G(U) == CHOOSE g : IsSum(g, f, U)
           Bad == {U \in SUBSET S : ~\E g : IsSum(g, f, U)}
<1> SUFFICES ASSUME Bad # {} PROVE FALSE
  OBVIOUS
<1>1. PICK T \in Bad : \A V \in Bad : V \subseteq T => V = T
  <2>1. Bad \in SUBSET SUBSET S
    OBVIOUS
  <2> HIDE DEF Bad
  <2> QED
    BY <2>1, LeastSubset
<1>2. \A U \in SUBSET T : U # T => IsSum(G(U), f, U)
  BY <1>1
<1>3. \A U \in SUBSET T : IsFiniteSet(U)
  BY <1>1, FS_Subset
<1> DEFINE Of(s) == IF s = {} THEN 0 ELSE f[Pick(s)] + G(s \ {Pick(s)})[s \ {Pick(s)}]
<1>4. \A s \in SUBSET T : s # {} => /\ Pick(s) \in s /\ s \ {Pick(s)} \in SUBSET T
                                    /\ s \ {Pick(s)} # T
  BY DEF Pick
<1>5. ASSUME NEW s \in SUBSET T, s # T PROVE G(s)[s] = Of(s)
  <2>1. IsSum(G(s), f, s)
    BY <1>2, <1>5
  <2>2. CASE s = {}
    BY <2>1, <2>2 DEF IsSum
  <2>3. CASE s # {}
    <3>1. G(s)[s] = f[Pick(s)] + G(s)[s \ {Pick(s)}]
      BY <2>1, <2>3, SumOfPicked
    <3>2. IsSum(G(s \ {Pick(s)}), f, s \ {Pick(s)})
      BY <1>2, <1>4, <2>3
    <3>3. G(s)[s \ {Pick(s)}] = G(s \ {Pick(s)})[s \ {Pick(s)}]
      BY <1>3, <2>1, <3>2, SumAgrees DEF Agree
    <3> QED
      BY <2>3, <3>1, <3>3
  <2> QED
    BY <2>2, <2>3
<1>6. PICK g : g = [s \in SUBSET T |-> Of(s)]
  OBVIOUS
<1>7. \A s \in SUBSET T : g[s] = IF s = {} THEN 0 ELSE f[Pick(s)] + g[s \ {Pick(s)}]
  <2>1. \A s \in SUBSET T : s # {} => g[s \ {Pick(s)}] = G(s \ {Pick(s)})[s \ {Pick(s)}]
    BY <1>4, <1>5, <1>6
  <2>2. g[{}] = 0 /\ \A s \in SUBSET T : s # {} => g[s] = Of(s)
    BY <1>6
  <2>3. \A s \in SUBSET T : s # {} => g[s] = f[Pick(s)] + g[s \ {Pick(s)}]
    BY <2>1, <2>2
  <2> QED
    BY <2>2, <2>3
<1>8. IsSum(g, f, T)
  <2>1. g = [s \in SUBSET T |-> g[s]]
    BY <1>6
  <2> QED
    BY <1>7, <2>1 DEF IsSum
<1> QED
  BY <1>1, <1>8

LEMMA SumTakes ==
  ASSUME NEW S, IsFiniteSet(S), NEW f, Whole(f, S), NEW g, IsSum(g, f, S),
         NEW T \in SUBSET S, NEW x \in T
  PROVE  g[T] = f[x] + g[T \ {x}]
<1> DEFINE Bad == {U \in SUBSET S : \E y \in U : g[U] # f[y] + g[U \ {y}]}
<1> SUFFICES ASSUME Bad # {} PROVE FALSE
  OBVIOUS
<1>1. PICK U \in Bad : \A V \in Bad : V \subseteq U => V = U
  <2>1. Bad \in SUBSET SUBSET S
    OBVIOUS
  <2> HIDE DEF Bad
  <2> QED
    BY <2>1, LeastSubset
<1>2. PICK y \in U : g[U] # f[y] + g[U \ {y}]
  BY <1>1
<1> DEFINE p == Pick(U)
<1>3. /\ p \in U /\ U \ {p} \in SUBSET S /\ g[U] = f[p] + g[U \ {p}]
  BY <1>1, <1>2, SumOfPicked
<1>4. p # y
  BY <1>2, <1>3
<1>5. U \ {p} \notin Bad /\ U \ {y} \notin Bad
  BY <1>1, <1>2, <1>3
<1>6. /\ y \in U \ {p} /\ p \in U \ {y} /\ U \ {y} \in SUBSET S
      /\ (U \ {p}) \ {y} = (U \ {y}) \ {p} /\ (U \ {p}) \ {y} \in SUBSET S
  BY <1>1, <1>2, <1>3, <1>4
<1>7. /\ g[U \ {p}] = f[y] + g[(U \ {p}) \ {y}]
      /\ g[U \ {y}] = f[p] + g[(U \ {p}) \ {y}]
  BY <1>3, <1>5, <1>6
<1>8. f[p] \in Int /\ f[y] \in Int /\ g[(U \ {p}) \ {y}] \in Int
  BY <1>1, <1>2, <1>3, <1>6, SumIsWhole DEF Whole
<1> HIDE DEF p
<1> QED
  BY <1>2, <1>3, <1>7, <1>8

(* The sum of f over S, whatever the order.                                *)
SumOf(f, S) == (CHOOSE g : IsSum(g, f, S))[S]

Share(f, S, x) == IF x \in S THEN f[x] ELSE 0

(* Two sums that differ in one element at most.                            *)
LEMMA SumChanges ==
  ASSUME NEW S, NEW R, IsFiniteSet(S), IsFiniteSet(R), NEW f, NEW e, Whole(f, S), Whole(e, R),
         NEW x, S \ {x} = R \ {x}, Agree(f, e, S \ {x})
  PROVE  /\ SumOf(f, S) \in Int /\ SumOf(e, R) \in Int
         /\ Share(f, S, x) \in Int /\ Share(e, R, x) \in Int
         /\ SumOf(e, R) - Share(e, R, x) = SumOf(f, S) - Share(f, S, x)
<1> DEFINE g == CHOOSE g : IsSum(g, f, S)
           h == CHOOSE h : IsSum(h, e, R)
<1>1. IsSum(g, f, S) /\ IsSum(h, e, R)
  BY SumExists
<1>2. SumOf(f, S) = g[S] /\ SumOf(e, R) = h[R]
  BY DEF SumOf
<1> HIDE DEF g, h
<1>3. g[S] \in Int /\ h[R] \in Int /\ g[S \ {x}] \in Int /\ h[R \ {x}] \in Int
  BY <1>1, SumIsWhole
<1>4. x \in S => g[S] = f[x] + g[S \ {x}] /\ f[x] \in Int
  BY <1>1, SumTakes DEF Whole
<1>5. x \in R => h[R] = e[x] + h[R \ {x}] /\ e[x] \in Int
  BY <1>1, SumTakes DEF Whole
<1>6. (x \notin S => S \ {x} = S) /\ (x \notin R => R \ {x} = R)
  OBVIOUS
<1>7. g[S \ {x}] = h[R \ {x}]
  <2>1. S \ {x} \in SUBSET S /\ S \ {x} \in SUBSET R
    OBVIOUS
  <2>2. g[S \ {x}] = h[S \ {x}]
    BY <1>1, <2>1, SumAgrees
  <2> QED
    BY <2>2
<1>8. PICK n \in Int : n = g[S \ {x}]
  BY <1>3
<1>9. Share(f, S, x) \in Int /\ g[S] = Share(f, S, x) + n
  <2>1. CASE x \in S
    <3>1. Share(f, S, x) = f[x]
      BY <2>1 DEF Share
    <3> QED
      BY <1>4, <1>8, <2>1, <3>1
  <2>2. CASE x \notin S
    <3>1. Share(f, S, x) = 0 /\ g[S] = n
      BY <1>6, <1>8, <2>2 DEF Share
    <3> QED
      BY <3>1
  <2> QED
    BY <2>1, <2>2
<1>10. Share(e, R, x) \in Int /\ h[R] = Share(e, R, x) + n
  <2>1. CASE x \in R
    <3>1. Share(e, R, x) = e[x]
      BY <2>1 DEF Share
    <3> QED
      BY <1>5, <1>7, <1>8, <2>1, <3>1
  <2>2. CASE x \notin R
    <3>1. Share(e, R, x) = 0 /\ h[R] = n
      BY <1>6, <1>7, <1>8, <2>2 DEF Share
    <3> QED
      BY <3>1
  <2> QED
    BY <2>1, <2>2
<1> QED
  BY <1>2, <1>3, <1>8, <1>9, <1>10

(* A sum of naturals is a natural. *)
LEMMA SumIsNatural ==
  ASSUME NEW S, IsFiniteSet(S), NEW f, \A x \in S : f[x] \in Nat PROVE SumOf(f, S) \in Nat
<1> DEFINE g == CHOOSE g : IsSum(g, f, S)
           Bad == {U \in SUBSET S : g[U] \notin Nat}
<1>1. IsSum(g, f, S)
  BY SumExists
<1> HIDE DEF g
<1>2. SUFFICES ASSUME Bad # {} PROVE FALSE
  <2>1. SumOf(f, S) = g[S]
    BY DEF SumOf, g
  <2> QED
    BY <2>1, <1>2
<1>3. PICK U \in Bad : \A V \in Bad : V \subseteq U => V = U
  <2>1. Bad \in SUBSET SUBSET S
    OBVIOUS
  <2> HIDE DEF Bad
  <2> QED
    BY <1>2, <2>1, LeastSubset
<1>4. U # {}
  BY <1>1, <1>3 DEF IsSum
<1>5. /\ Pick(U) \in U /\ U \ {Pick(U)} \in SUBSET S
      /\ g[U] = f[Pick(U)] + g[U \ {Pick(U)}]
  <2>1. U \in SUBSET S
    BY <1>3
  <2> HIDE DEF Bad
  <2> QED
    BY <1>1, <1>4, <2>1, SumOfPicked
<1>6. g[U \ {Pick(U)}] \in Nat
  BY <1>3, <1>5
<1> QED
  BY <1>3, <1>5, <1>6

-----------------------------------------------------------------------------
(* RiskManager.  An order that nothing has overtaken was checked against   *)
(* the very books it is booked in, so that its fill stays in the limits it *)
(* was checked for.                                                        *)

Values(kept, prices) == [i \in Trader |-> Risk!Notional(kept[i], prices)]

LEMMA ExposureIsSum ==
  ASSUME NEW kept, NEW S \in SUBSET Trader, IsFiniteSet(S), NEW prices
  PROVE  Risk!Exposure(kept, S, prices) = SumOf(Values(kept, prices), S)
<1> DEFINE Adds(g) ==
      g = [s \in SUBSET S |->
             IF s = {} THEN 0
             ELSE Risk!Notional(kept[CHOOSE x \in s : TRUE], prices)
                    + g[s \ {CHOOSE x \in s : TRUE}]]
           g == CHOOSE g : Adds(g)
           h == CHOOSE h : IsSum(h, Values(kept, prices), S)
<1>1. Risk!Exposure(kept, S, prices) = g[S]
  BY DEF Risk!Exposure, Risk!MapThenSumSet, Risk!MapThenFoldSet
<1>2. \A s \in SUBSET S : s # {} => Values(kept, prices)[Pick(s)]
                                      = Risk!Notional(kept[CHOOSE x \in s : TRUE], prices)
  BY DEF Values, Pick
<1>3. \A k : IsSum(k, Values(kept, prices), S) <=> Adds(k)
  BY <1>2 DEF IsSum, Pick
<1>4. IsSum(h, Values(kept, prices), S)
  BY SumExists
<1> HIDE DEF Adds, h
<1>5. IsSum(g, Values(kept, prices), S)
  <2>1. Adds(h)
    BY <1>3, <1>4
  <2>2. Adds(g)
    BY <2>1
  <2> HIDE DEF g
  <2> QED
    BY <1>3, <2>2
<1> HIDE DEF g
<1>6. g[S] = h[S]
  BY <1>4, <1>5, SumAgrees DEF Agree
<1> QED
  BY <1>1, <1>6 DEF SumOf, h

Fresh(i) == ordered[i] # NoPos /\ ~ordered[i].stale

GateInv ==
  /\ BooksInv /\ price \in [Coin -> Int]
  /\ \A i \in Trader : ordered[i] # NoPos => ordered[i].price > 0
  /\ \A i \in Trader : Fresh(i) =>
       /\ Risk!WithinLimits(i, ordered[i].coin, ordered[i].qty, ordered[i].price)
       /\ position[i] # NoPos => position[i].coin = ordered[i].coin

LEMMA GateInitInv == Risk!Init => GateInv
<1> SUFFICES ASSUME Risk!Init PROVE GateInv
  OBVIOUS
<1>1. price \in [Coin -> Int] /\ \A i \in Trader : ordered[i] = NoPos
  BY DEF Risk!Init
<1> QED
  BY <1>1, BooksInitInv DEF GateInv, Fresh

(* Whatever changes the books overtakes every order on its way.            *)
LEMMA OvertakenIsStale ==
  ASSUME GateInv
  PROVE  \A j \in Trader : Risk!Overtaken[j] # NoPos =>
           /\ ordered[j] # NoPos /\ Risk!Overtaken[j].stale
           /\ Risk!Overtaken[j].price = ordered[j].price
BY DEF GateInv, BooksInv, OrderState, Risk!Overtaken

LEMMA LimitsKept ==
  ASSUME UNCHANGED <<position, price>>
  PROVE  \A i \in Trader : \A c, q, p : Risk!WithinLimits(i, c, q, p) => Risk!WithinLimits(i, c, q, p)'
BY DEF Risk!WithinLimits, Risk!Exposure, Risk!OfCoin, Risk!Open, Risk!Booked,
       Risk!MapThenSumSet, Risk!MapThenFoldSet

LEMMA GateStepInv ==
  ASSUME Lot \subseteq Nat \ {0}, Quote \subseteq Nat \ {0}
  PROVE  GateInv /\ [Risk!Next]_(Risk!riskVars) => GateInv'
<1> SUFFICES ASSUME GateInv, [Risk!Next]_(Risk!riskVars) PROVE GateInv'
  OBVIOUS
<1>1. BooksInv'
  BY BooksStepInv DEF GateInv
<1>2. ASSUME NEW i \in Trader, NEW c \in Coin, NEW side \in {"buy", "sell"}, NEW q \in Lot,
             NEW p \in Quote, Risk!CheckOrder(i, c, side, q, p)
      PROVE  GateInv'
  <2>1. PICK o : o = [coin |-> c, side |-> side, qty |-> q, price |-> p, stale |-> FALSE]
    OBVIOUS
  <2>2. /\ ordered' = [ordered EXCEPT ![i] = o] /\ UNCHANGED <<position, price>>
        /\ Risk!WithinLimits(i, o.coin, o.qty, o.price) /\ o.price > 0
        /\ position[i] # NoPos => position[i].coin = o.coin
    <3>1. o.coin = c /\ o.qty = q /\ o.price = p /\ p > 0
      BY <2>1
    <3>2. /\ ordered' = [ordered EXCEPT ![i] = o] /\ UNCHANGED <<position, price>>
          /\ Risk!WithinLimits(i, c, q, p)
          /\ i \in Risk!Booked => position[i].coin = c
      BY <1>2, <2>1, Zenon DEF Risk!CheckOrder
    <3> QED
      BY <3>1, <3>2 DEF Risk!Booked
  <2>3. \A j \in Trader : ordered'[j] = IF j = i THEN o ELSE ordered[j]
    BY <2>2 DEF GateInv, BooksInv
  <2>4. \A j \in Trader : \A d, n, r : Risk!WithinLimits(j, d, n, r) => Risk!WithinLimits(j, d, n, r)'
    BY <2>2, LimitsKept
  <2>5. \A j \in Trader : Fresh(j)' =>
          /\ Risk!WithinLimits(j, ordered'[j].coin, ordered'[j].qty, ordered'[j].price)
          /\ position[j] # NoPos => position[j].coin = ordered'[j].coin
    BY <2>2, <2>3 DEF GateInv, Fresh
  <2>6. \A j \in Trader : ordered'[j] # NoPos => ordered'[j].price > 0
    BY <2>2, <2>3 DEF GateInv
  <2>7. price' \in [Coin -> Int]
    BY <2>2 DEF GateInv
  <2> QED
    BY <1>1, <2>2, <2>4, <2>5, <2>6, <2>7 DEF GateInv
<1>3. ASSUME NEW i \in Trader, Risk!Cancel(i) PROVE GateInv'
  <2>1. /\ UNCHANGED <<position, price>>
        /\ \A j \in Trader : ordered'[j] # NoPos => ordered'[j] = ordered[j]
    BY <1>3 DEF Risk!Cancel, GateInv, BooksInv
  <2>2. \A j \in Trader : \A d, n, r : Risk!WithinLimits(j, d, n, r) => Risk!WithinLimits(j, d, n, r)'
    BY <2>1, LimitsKept
  <2> QED
    BY <1>1, <2>1, <2>2 DEF GateInv, Fresh
<1>4. ASSUME price' \in [Coin -> Int],
             \A j \in Trader : ordered'[j] # NoPos => ordered'[j] = Risk!Overtaken[j]
      PROVE  GateInv'
  BY <1>1, <1>4, OvertakenIsStale DEF GateInv, Fresh
<1>5. ASSUME NEW i \in Trader, Risk!Fill(i) PROVE GateInv'
  <2>1. ordered' = [Risk!Overtaken EXCEPT ![i] = NoPos] /\ price' = price
    BY <1>5 DEF Risk!Fill
  <2>2. \A j \in Trader : ordered'[j] # NoPos => ordered'[j] = Risk!Overtaken[j]
    BY <2>1, OrdersKept DEF GateInv
  <2> QED
    BY <1>4, <2>1, <2>2 DEF GateInv
<1>6. ASSUME NEW i \in Trader, Risk!ClosePosition(i) PROVE GateInv'
  BY <1>4, <1>6 DEF Risk!ClosePosition, GateInv
<1>7. ASSUME NEW c \in Coin, NEW p \in Quote, Risk!OnPriceUpdate(c, p) PROVE GateInv'
  BY <1>4, <1>7 DEF Risk!OnPriceUpdate, GateInv
<1>8. CASE UNCHANGED Risk!riskVars
  <2>1. UNCHANGED <<position, price, ordered>>
    BY <1>8 DEF Risk!riskVars
  <2>2. \A j \in Trader : \A d, n, r : Risk!WithinLimits(j, d, n, r) => Risk!WithinLimits(j, d, n, r)'
    BY <2>1, LimitsKept
  <2> QED
    BY <1>1, <2>1, <2>2 DEF GateInv, Fresh
<1> QED
  BY <1>2, <1>3, <1>5, <1>6, <1>7, <1>8 DEF Risk!Next

LEMMA TimesMonotonic ==
  ASSUME NEW p \in Nat, NEW m \in Int, NEW n \in Int, m <= n PROVE p * m <= p * n
<1>1. PICK d \in Nat : n = m + d
  <2>1. n - m \in Nat /\ n = m + (n - m)
    OBVIOUS
  <2> QED
    BY <2>1
<1>2. p * n = p * m + p * d /\ p * d \in Nat /\ p * m \in Int
  BY <1>1
<1> QED
  BY <1>2

(* What an instance holds.                                                 *)
Quantity(i) == IF position[i] = NoPos THEN 0 ELSE position[i].qty

(* A fill that moves the books books the order and nothing else.           *)
LEMMA FillBooks ==
  ASSUME BooksInv, NEW i \in Trader, Risk!Fill(i), position' # position,
         position[i] # NoPos => position[i].coin = ordered[i].coin
  PROVE  /\ ordered[i] \in OrderState /\ Quantity(i) \in Nat
         /\ position[i] # NoPos => ~position[i].closed
         /\ \A j \in Trader \ {i} : position'[j] = position[j]
         /\ position'[i] # NoPos => /\ position'[i].coin = ordered[i].coin
                                    /\ position'[i].qty <= Quantity(i) + ordered[i].qty
<1> DEFINE o == ordered[i]  pos == position[i]
<1>1. o \in OrderState /\ o # NoPos /\ i \in DOMAIN position
  BY DEF BooksInv, Risk!Fill
<1>2. ASSUME NEW p, position' = [position EXCEPT ![i] = p]
      PROVE  position'[i] = p /\ \A j \in Trader \ {i} : position'[j] = position[j]
  BY <1>1, <1>2 DEF BooksInv
<1>3. CASE pos = NoPos /\ position' = [position EXCEPT ![i] = Risk!Registered(o)]
  <2>1. Risk!Registered(o).coin = o.coin /\ Risk!Registered(o).qty = o.qty
    BY DEF Risk!Registered
  <2>2. Quantity(i) = 0 /\ o.qty <= 0 + o.qty
    BY <1>1, <1>3 DEF Quantity, OrderState
  <2> QED
    BY <1>1, <1>2, <1>3, <2>1, <2>2
<1>4. CASE pos # NoPos /\ ~Risk!Refused(pos, o)
  <2>1. pos \in PositionState /\ Quantity(i) = pos.qty /\ ~pos.closed /\ pos.coin = o.coin
    BY <1>4 DEF BooksInv, Balanced, Quantity, Risk!Refused
  <2>2. CASE Risk!Opens(pos, o.side)
    <3>1. position' = [position EXCEPT ![i] = Risk!Increased(pos, o)]
      BY <1>4, <2>2 DEF Risk!Fill
    <3>2. /\ Risk!Increased(pos, o).coin = pos.coin
          /\ Risk!Increased(pos, o).qty = pos.qty + o.qty
      BY <1>1, <2>1 DEF Risk!Increased, PositionState
    <3>3. pos.qty + o.qty <= pos.qty + o.qty /\ pos.qty \in Nat
      BY <1>1, <2>1 DEF OrderState, PositionState
    <3> QED
      BY <1>1, <1>2, <2>1, <3>1, <3>2, <3>3
  <2>3. CASE ~Risk!Opens(pos, o.side)
    <3>1. position' = [position EXCEPT ![i] = Risk!Reduced(pos, o)]
      BY <1>4, <2>3 DEF Risk!Fill
    <3>2. /\ Risk!Reduced(pos, o).coin = pos.coin
          /\ Risk!Reduced(pos, o).qty = pos.qty - o.qty
      BY <1>1, <2>1 DEF Risk!Reduced, PositionState
    <3>3. pos.qty - o.qty <= pos.qty + o.qty /\ pos.qty \in Nat
      BY <1>1, <2>1 DEF OrderState, PositionState
    <3> QED
      BY <1>1, <1>2, <2>1, <3>1, <3>2, <3>3
  <2> QED
    BY <2>2, <2>3
<1> QED
  BY <1>3, <1>4 DEF Risk!Fill

(* At the order's price, a fill adds at most the order to the exposure.    *)
LEMMA FillExposes ==
  ASSUME IsFiniteSet(Trader), GateInv, BooksInv', NEW i \in Trader, Fresh(i), Risk!Fill(i),
         position' # position,
         NEW S \in SUBSET Risk!Open(position), NEW R \in SUBSET Risk!Open(position'),
         S \ {i} = R \ {i}, position[i] # NoPos => i \in S
  PROVE  LET prices == [price EXCEPT ![ordered[i].coin] = ordered[i].price]
         IN  Risk!Exposure(position', R, prices)
               <= Risk!Exposure(position, S, prices) + ordered[i].qty * ordered[i].price
<1> DEFINE o == ordered[i]
           prices == [price EXCEPT ![o.coin] = o.price]
           f == Values(position, prices)
           e == Values(position', prices)
<1>1. /\ o \in OrderState /\ Quantity(i) \in Nat
      /\ position[i] # NoPos => ~position[i].closed /\ position[i].coin = o.coin
      /\ \A j \in Trader \ {i} : position'[j] = position[j]
      /\ position'[i] # NoPos => /\ position'[i].coin = o.coin
                                 /\ position'[i].qty <= Quantity(i) + o.qty
  BY FillBooks DEF GateInv, Fresh
<1>2. prices \in [Coin -> Int] /\ prices[o.coin] = o.price /\ o.price \in Nat \ {0}
  BY <1>1 DEF GateInv, Fresh, OrderState
<1>3. /\ \A j \in Trader : position[j] # NoPos => position[j] \in PositionState
      /\ \A j \in Trader : position'[j] # NoPos => position'[j] \in PositionState
  BY DEF GateInv, BooksInv, Balanced
<1>4. \A pos \in PositionState :
        /\ Risk!Notional(pos, prices) \in Int
        /\ pos.coin = o.coin => Risk!Notional(pos, prices) = o.price * pos.qty
  BY <1>2 DEF Risk!Notional, PositionState
<1>5. /\ S \in SUBSET Trader /\ R \in SUBSET Trader
      /\ \A j \in S : position[j] # NoPos
      /\ \A j \in R : position'[j] # NoPos
  BY DEF Risk!Open
<1> HIDE DEF prices
<1>6. Whole(f, S) /\ Whole(e, R)
  BY <1>3, <1>4, <1>5 DEF Whole, Values
<1>7. Agree(f, e, S \ {i})
  BY <1>1, <1>5 DEF Agree, Values
<1>8. PICK n \in Nat, m \in Nat : n = Quantity(i) /\ m = o.qty
  BY <1>1 DEF OrderState
<1>9. Share(f, S, i) = o.price * n
  <2>1. CASE position[i] = NoPos
    <3>1. i \notin S /\ n = 0
      BY <1>5, <1>8, <2>1 DEF Quantity
    <3> QED
      BY <1>2, <3>1 DEF Share
  <2>2. CASE position[i] # NoPos
    <3>1. i \in S /\ n = position[i].qty
      BY <1>8, <2>2 DEF Quantity
    <3> QED
      BY <1>1, <1>3, <1>4, <2>2, <3>1 DEF Share, Values
  <2> QED
    BY <2>1, <2>2
<1>10. Share(e, R, i) <= o.price * (n + m)
  <2>1. CASE i \notin R
    BY <1>2, <1>8, <2>1 DEF Share
  <2>2. CASE i \in R
    <3>1. PICK k \in Nat : k = position'[i].qty
      BY <1>3, <1>5, <2>2 DEF PositionState
    <3>2. Share(e, R, i) = o.price * k
      BY <1>1, <1>3, <1>4, <1>5, <2>2, <3>1 DEF Share, Values
    <3>3. k <= n + m
      BY <1>1, <1>5, <1>8, <2>2, <3>1
    <3> QED
      BY <1>2, <3>2, <3>3, TimesMonotonic
  <2> QED
    BY <2>1, <2>2
<1>11. IsFiniteSet(S) /\ IsFiniteSet(R)
  BY <1>5, FS_Subset
<1>12. /\ Risk!Exposure(position, S, prices) = SumOf(f, S)
       /\ Risk!Exposure(position', R, prices) = SumOf(e, R)
  BY <1>5, <1>11, ExposureIsSum
<1> HIDE DEF f, e
<1>13. /\ SumOf(f, S) \in Int /\ SumOf(e, R) \in Int
       /\ Share(f, S, i) \in Int /\ Share(e, R, i) \in Int
       /\ SumOf(e, R) - Share(e, R, i) = SumOf(f, S) - Share(f, S, i)
  BY <1>6, <1>7, <1>11, SumChanges
<1>14. o.price * (n + m) = o.price * n + m * o.price /\ o.price * n \in Int /\ m * o.price \in Int
  BY <1>2
<1>15. SumOf(e, R) <= SumOf(f, S) + m * o.price
  BY <1>9, <1>10, <1>13, <1>14
<1> QED
  BY <1>8, <1>12, <1>15 DEF prices

(* The step that books an order nothing overtook is its fill.              *)
LEMMA BookedByFill ==
  ASSUME NoPos \notin OrderState, GateInv, Risk!Next, NEW i \in Trader, Fresh(i),
         ordered'[i] = NoPos, position'[i] # position[i]
  PROVE  Risk!Fill(i)
<1>1. Risk!Overtaken[i] # NoPos
  <2>1. [ordered[i] EXCEPT !.stale = TRUE] \in OrderState
    BY DEF GateInv, BooksInv, Fresh, OrderState
  <2> QED
    BY <2>1 DEF Fresh, Risk!Overtaken
<1>2. ASSUME NEW j \in Trader, Risk!Fill(j), j # i PROVE FALSE
  <2>1. ordered'[i] = Risk!Overtaken[i]
    BY <1>2 DEF Risk!Fill, Risk!Overtaken
  <2> QED
    BY <1>1, <2>1
<1>3. ASSUME NEW j \in Trader, Risk!Cancel(j) PROVE FALSE
  BY <1>3 DEF Risk!Cancel
<1>4. ASSUME NEW j \in Trader, Risk!ClosePosition(j) PROVE FALSE
  BY <1>1, <1>4 DEF Risk!ClosePosition
<1>5. ASSUME NEW c \in Coin, NEW p \in Quote, Risk!OnPriceUpdate(c, p) PROVE FALSE
  BY <1>5 DEF Risk!OnPriceUpdate
<1>6. ASSUME NEW j \in Trader, NEW c \in Coin, NEW side \in {"buy", "sell"}, NEW q \in Lot,
             NEW p \in Quote, Risk!CheckOrder(j, c, side, q, p)
      PROVE  FALSE
  BY <1>6 DEF Risk!CheckOrder
<1> QED
  BY <1>2, <1>3, <1>4, <1>5, <1>6 DEF Risk!Next

LEMMA FillStaysWithin ==
  ASSUME IsFiniteSet(Trader), MaxPerCoin \in Int, MaxTotal \in Int, MaxOpen \in Int,
         GateInv, BooksInv', NEW i \in Trader, Fresh(i), Risk!Fill(i), position'[i] # position[i]
  PROVE  LET o == ordered[i]
             prices == [price EXCEPT ![o.coin] = o.price]
         IN  /\ Risk!Exposure(position', Risk!OfCoin(position', o.coin), prices) <= MaxPerCoin
             /\ Risk!Exposure(position', Risk!Open(position'), prices) <= MaxTotal
             /\ i \in Risk!Booked \/ Risk!Cardinality(Risk!Booked') <= MaxOpen
<1> DEFINE o == ordered[i]
           prices == [price EXCEPT ![o.coin] = o.price]
           Exposed(kept, S) == Risk!Exposure(kept, S, prices)
<1>1. position' # position
  OBVIOUS
<1>2. /\ o \in OrderState /\ Quantity(i) \in Nat
      /\ position[i] # NoPos => ~position[i].closed /\ position[i].coin = o.coin
      /\ \A j \in Trader \ {i} : position'[j] = position[j]
      /\ position'[i] # NoPos => position'[i].coin = o.coin
  BY <1>1, FillBooks DEF GateInv, Fresh
<1>3. /\ Exposed(position, Risk!OfCoin(position, o.coin)) + o.qty * o.price <= MaxPerCoin
      /\ Exposed(position, Risk!Open(position)) + o.qty * o.price <= MaxTotal
      /\ i \in Risk!Booked \/ Risk!Cardinality(Risk!Booked) < MaxOpen
  BY DEF GateInv, Fresh, Risk!WithinLimits
<1>4. \A S \in SUBSET Trader : \A kept \in {position, position'} :
        (\A j \in S : kept[j] # NoPos) => Exposed(kept, S) \in Int
  <2> SUFFICES ASSUME NEW S \in SUBSET Trader, NEW kept \in {position, position'},
                      \A j \in S : kept[j] # NoPos
               PROVE  Exposed(kept, S) \in Int
    OBVIOUS
  <2>1. prices \in [Coin -> Int]
    BY <1>2 DEF GateInv, OrderState
  <2>2. \A j \in S : kept[j] \in PositionState
    BY DEF GateInv, BooksInv, Balanced
  <2>3. Whole(Values(kept, prices), S)
    <3> HIDE DEF prices
    <3> QED
      BY <2>1, <2>2 DEF Whole, Values, Risk!Notional, PositionState
  <2>4. IsFiniteSet(S)
    BY FS_Subset
  <2> HIDE DEF prices
  <2>5. Risk!Exposure(kept, S, prices) = SumOf(Values(kept, prices), S)
    BY <2>4, ExposureIsSum
  <2>6. Agree(Values(kept, prices), Values(kept, prices), S \ {i})
    BY DEF Agree
  <2>7. SumOf(Values(kept, prices), S) \in Int
    BY <2>3, <2>4, <2>6, SumChanges
  <2> QED
    BY <2>5, <2>7
<1>5. o.qty * o.price \in Int
  BY <1>2 DEF OrderState
<1>6. Exposed(position', Risk!OfCoin(position', o.coin)) <= MaxPerCoin
  <2> DEFINE S == Risk!OfCoin(position, o.coin)  R == Risk!OfCoin(position', o.coin)
  <2>1. S \in SUBSET Risk!Open(position) /\ R \in SUBSET Risk!Open(position')
    BY DEF Risk!OfCoin
  <2>2. S \ {i} = R \ {i} /\ (position[i] # NoPos => i \in S)
    BY <1>2 DEF Risk!OfCoin, Risk!Open
  <2>3. /\ S \in SUBSET Trader /\ R \in SUBSET Trader
        /\ \A j \in S : position[j] # NoPos
        /\ \A j \in R : position'[j] # NoPos
    BY DEF Risk!OfCoin, Risk!Open
  <2>4. Exposed(position, S) \in Int /\ Exposed(position', R) \in Int
    BY <1>4, <2>3
  <2> HIDE DEF S, R
  <2>5. Exposed(position', R) <= Exposed(position, S) + o.qty * o.price
    BY <1>1, <2>1, <2>2, FillExposes
  <2>6. Exposed(position, S) + o.qty * o.price <= MaxPerCoin
    BY <1>3 DEF S
  <2> HIDE DEF Exposed
  <2>7. Exposed(position', R) <= MaxPerCoin
    BY <1>5, <2>4, <2>5, <2>6
  <2> QED
    BY <2>7 DEF R
<1>7. Exposed(position', Risk!Open(position')) <= MaxTotal
  <2> DEFINE S == Risk!Open(position)  R == Risk!Open(position')
  <2>1. S \in SUBSET Risk!Open(position) /\ R \in SUBSET Risk!Open(position')
    OBVIOUS
  <2>2. S \ {i} = R \ {i} /\ (position[i] # NoPos => i \in S)
    BY <1>2 DEF Risk!Open
  <2>3. /\ S \in SUBSET Trader /\ R \in SUBSET Trader
        /\ \A j \in S : position[j] # NoPos
        /\ \A j \in R : position'[j] # NoPos
    BY DEF Risk!Open
  <2>4. Exposed(position, S) \in Int /\ Exposed(position', R) \in Int
    BY <1>4, <2>3
  <2> HIDE DEF S, R
  <2>5. Exposed(position', R) <= Exposed(position, S) + o.qty * o.price
    BY <1>1, <2>1, <2>2, FillExposes
  <2>6. Exposed(position, S) + o.qty * o.price <= MaxTotal
    BY <1>3 DEF S
  <2> HIDE DEF Exposed
  <2>7. Exposed(position', R) <= MaxTotal
    BY <1>5, <2>4, <2>5, <2>6
  <2> QED
    BY <2>7 DEF R
<1>8. i \in Risk!Booked \/ Risk!Cardinality(Risk!Booked') <= MaxOpen
  <2>1. \A S : Risk!Cardinality(S) = Cardinality(S)
    BY DEF Risk!Cardinality, Cardinality
  <2>2. Risk!Booked' \in SUBSET (Risk!Booked \cup {i}) /\ Risk!Booked \in SUBSET Trader
    BY <1>2 DEF Risk!Booked
  <2>3. IsFiniteSet(Risk!Booked) /\ IsFiniteSet(Risk!Booked \cup {i})
    BY <2>2, FS_Subset, FS_AddElement
  <2>4. /\ Cardinality(Risk!Booked) \in Int
        /\ Cardinality(Risk!Booked \cup {i}) \in Int
        /\ Cardinality(Risk!Booked') \in Int
        /\ Cardinality(Risk!Booked') <= Cardinality(Risk!Booked \cup {i})
    BY <2>2, <2>3, FS_Subset, FS_CardinalityType
  <2>5. i \notin Risk!Booked => Cardinality(Risk!Booked \cup {i}) = Cardinality(Risk!Booked) + 1
    BY <2>3, FS_AddElement
  <2> QED
    BY <1>3, <2>1, <2>4, <2>5
<1> QED
  BY <1>6, <1>7, <1>8

(* check_order_risk's promise: whatever the instances order and however    *)
(* checks, fills, prices and forced closes alternate, an order that        *)
(* nothing overtook fills within the limits it was checked against.  Lots  *)
(* and prices are positive.                                                *)
THEOREM ChecksHold ==
  ASSUME IsFiniteSet(Trader), Lot \subseteq Nat \ {0}, Quote \subseteq Nat \ {0},
         MaxPerCoin \in Int, MaxTotal \in Int, MaxOpen \in Int, NoPos \notin OrderState
  PROVE  Risk!Spec => GateHolds
<1>1. Risk!Init => GateInv
  BY GateInitInv
<1>2. GateInv /\ [Risk!Next]_(Risk!riskVars) => GateInv'
  BY GateStepInv
<1>3. GateInv /\ GateInv' /\ [Risk!Next]_(Risk!riskVars) =>
        [\A i \in Trader :
           LET o == ordered[i]
               prices == [price EXCEPT ![o.coin] = o.price]
           IN  o # NoPos /\ ~o.stale /\ ordered'[i] = NoPos /\ position'[i] # position[i] =>
                 /\ Risk!Exposure(position', Risk!OfCoin(position', o.coin), prices) <= MaxPerCoin
                 /\ Risk!Exposure(position', Risk!Open(position'), prices) <= MaxTotal
                 /\ i \in Risk!Booked \/ Risk!Cardinality(Risk!Booked') <= MaxOpen]_(Risk!riskVars)
  <2> SUFFICES ASSUME GateInv, GateInv', Risk!Next, NEW i \in Trader, Fresh(i),
                      ordered'[i] = NoPos, position'[i] # position[i]
               PROVE  LET o == ordered[i]
                          prices == [price EXCEPT ![o.coin] = o.price]
                      IN  /\ Risk!Exposure(position', Risk!OfCoin(position', o.coin), prices)
                               <= MaxPerCoin
                          /\ Risk!Exposure(position', Risk!Open(position'), prices) <= MaxTotal
                          /\ i \in Risk!Booked \/ Risk!Cardinality(Risk!Booked') <= MaxOpen
    BY DEF Fresh
  <2>1. Risk!Fill(i) /\ BooksInv'
    BY BookedByFill DEF GateInv
  <2> QED
    BY <2>1, FillStaysWithin
<1> QED
  BY <1>1, <1>2, <1>3, PTL DEF Risk!Spec, GateHolds, Risk!GateHolds

-----------------------------------------------------------------------------
(* BillingService.  The charges a provider took are a sum over the         *)
(* invoices; each of them is in the metrics, on its way back in a payment, *)
(* or lost by a charge that raised after it took the money.                *)

BillTypes ==
  /\ DOMAIN invoices = Invoice /\ taken \in [Invoice -> Nat]
  /\ succeeded \in Nat /\ lost \subseteq Invoice
  /\ DOMAIN payment = Payment
  /\ \A p \in Payment : \/ payment[p] = Saas!Idle
                        \/ payment[p] \in [at : {"asked", "success", "failed"}, invoice : Invoice]

Succeeding == {p \in Payment : payment[p].at = "success"}

ChargesShow ==
  /\ \A p \in Succeeding : taken[payment[p].invoice] > 0
  /\ \A i \in Invoice : invoices[i] = "paid" => taken[i] > 0
  /\ \A i \in Invoice \ lost :
       taken[i] > 0 => \/ invoices[i] \in {"paid", "failed"}
                       \/ \E p \in Succeeding : payment[p].invoice = i

ChargesCount ==
  LET charges == SumOf(taken, Invoice) IN
  charges \in Nat /\ succeeded + Cardinality(lost) + Cardinality(Succeeding) <= charges

BillInv == BillTypes /\ ChargesShow /\ ChargesCount

LEMMA ChargedIsSum ==
  ASSUME IsFiniteSet(Invoice) PROVE Saas!Charged = SumOf(taken, Invoice)
<1> DEFINE Adds(g) ==
      g = [s \in SUBSET Invoice |->
             IF s = {} THEN 0
             ELSE taken[CHOOSE x \in s : TRUE] + g[s \ {CHOOSE x \in s : TRUE}]]
           g == CHOOSE g : Adds(g)
           h == CHOOSE h : IsSum(h, taken, Invoice)
<1>1. Saas!Charged = g[Invoice]
  BY DEF Saas!Charged, Saas!MapThenSumSet, Saas!MapThenFoldSet
<1>2. \A k : IsSum(k, taken, Invoice) <=> Adds(k)
  BY DEF IsSum, Pick
<1>3. IsSum(h, taken, Invoice)
  BY SumExists
<1> HIDE DEF Adds, h
<1>4. IsSum(g, taken, Invoice)
  <2>1. Adds(h)
    BY <1>2, <1>3
  <2>2. Adds(g)
    BY <2>1
  <2> HIDE DEF g
  <2> QED
    BY <1>2, <2>2
<1> HIDE DEF g
<1>5. g[Invoice] = h[Invoice]
  BY <1>3, <1>4, SumAgrees DEF Agree
<1> QED
  BY <1>1, <1>5 DEF SumOf, h

LEMMA ChargeAdds ==
  ASSUME IsFiniteSet(Invoice), taken \in [Invoice -> Nat], NEW i \in Invoice, NEW n \in Nat,
         taken' = [taken EXCEPT ![i] = @ + n], SumOf(taken, Invoice) \in Nat
  PROVE  /\ taken' \in [Invoice -> Nat] /\ SumOf(taken', Invoice) \in Nat
         /\ SumOf(taken', Invoice) = SumOf(taken, Invoice) + n
<1>1. /\ taken' \in [Invoice -> Nat] /\ taken'[i] = taken[i] + n
      /\ \A j \in Invoice \ {i} : taken'[j] = taken[j]
  OBVIOUS
<1>2. Whole(taken, Invoice) /\ Whole(taken', Invoice) /\ Agree(taken, taken', Invoice \ {i})
  BY <1>1 DEF Whole, Agree
<1>3. Share(taken, Invoice, i) = taken[i] /\ Share(taken', Invoice, i) = taken[i] + n
  BY <1>1 DEF Share
<1>4. /\ SumOf(taken, Invoice) \in Int /\ SumOf(taken', Invoice) \in Int
      /\ SumOf(taken', Invoice) - Share(taken', Invoice, i)
           = SumOf(taken, Invoice) - Share(taken, Invoice, i)
  BY <1>2, SumChanges
<1>5. taken[i] \in Nat
  OBVIOUS
<1> QED
  BY <1>1, <1>3, <1>4, <1>5

LEMMA BillInitInv == ASSUME IsFiniteSet(Invoice) PROVE Saas!Init => BillInv
<1> SUFFICES ASSUME Saas!Init PROVE BillInv
  OBVIOUS
<1>1. /\ invoices = [i \in Invoice |-> "none"] /\ taken = [i \in Invoice |-> 0]
      /\ succeeded = 0 /\ lost = {} /\ payment = [p \in Payment |-> Saas!Idle]
  BY DEF Saas!Init
<1>2. BillTypes
  BY <1>1 DEF BillTypes
<1>3. Succeeding = {}
  BY <1>1 DEF Succeeding, Saas!Idle
<1>4. ChargesShow
  BY <1>1, <1>3 DEF ChargesShow
<1>5. ChargesCount
  BY <1>1, <1>2, <1>3, SumIsNatural, FS_EmptySet DEF ChargesCount, BillTypes
<1> QED
  BY <1>2, <1>4, <1>5 DEF BillInv

(* One payment moves on.                                                   *)
MovesTo(p, r) ==
  /\ payment' = [payment EXCEPT ![p] = r]
  /\ r = Saas!Idle \/ r \in [at : {"asked", "success", "failed"}, invoice : Invoice]

LEMMA PaymentMoves ==
  ASSUME BillTypes, IsFiniteSet(Payment), NEW p \in Payment, NEW r, MovesTo(p, r)
  PROVE  /\ DOMAIN payment' = Payment
         /\ \A q \in Payment : payment'[q] = IF q = p THEN r ELSE payment[q]
         /\ \A q \in Payment :
              \/ payment'[q] = Saas!Idle
              \/ payment'[q] \in [at : {"asked", "success", "failed"}, invoice : Invoice]
         /\ Cardinality(Succeeding) \in Nat
         /\ r.at = "success" /\ payment[p].at # "success" =>
              /\ Succeeding' = Succeeding \cup {p}
              /\ Cardinality(Succeeding') = Cardinality(Succeeding) + 1
         /\ r.at # "success" =>
              /\ Succeeding' = Succeeding \ {p}
              /\ Cardinality(Succeeding')
                   = Cardinality(Succeeding) - (IF payment[p].at = "success" THEN 1 ELSE 0)
<1>1. /\ DOMAIN payment' = Payment
      /\ \A q \in Payment : payment'[q] = IF q = p THEN r ELSE payment[q]
  BY DEF BillTypes, MovesTo
<1>2. \A q \in Payment :
        \/ payment'[q] = Saas!Idle
        \/ payment'[q] \in [at : {"asked", "success", "failed"}, invoice : Invoice]
  BY <1>1 DEF BillTypes, MovesTo
<1>3. IsFiniteSet(Succeeding) /\ Cardinality(Succeeding) \in Nat
  BY FS_Subset, FS_CardinalityType DEF Succeeding
<1>4. ASSUME r.at = "success", payment[p].at # "success"
      PROVE  /\ Succeeding' = Succeeding \cup {p}
             /\ Cardinality(Succeeding') = Cardinality(Succeeding) + 1
  <2>1. Succeeding' = Succeeding \cup {p} /\ p \notin Succeeding
    BY <1>1, <1>4 DEF Succeeding
  <2> QED
    BY <1>3, <2>1, FS_AddElement
<1>5. ASSUME r.at # "success"
      PROVE  /\ Succeeding' = Succeeding \ {p}
             /\ Cardinality(Succeeding')
                  = Cardinality(Succeeding) - (IF payment[p].at = "success" THEN 1 ELSE 0)
  <2>1. /\ Succeeding' = Succeeding \ {p}
        /\ p \in Succeeding <=> payment[p].at = "success"
    BY <1>1, <1>5 DEF Succeeding
  <2>2. Cardinality(Succeeding \ {p})
          = IF p \in Succeeding THEN Cardinality(Succeeding) - 1 ELSE Cardinality(Succeeding)
    BY <1>3, FS_RemoveElement
  <2>3. Cardinality(Succeeding') = Cardinality(Succeeding \ {p})
    BY <2>1
  <2> QED
    BY <1>3, <2>1, <2>2, <2>3
<1> QED
  BY <1>1, <1>2, <1>3, <1>4, <1>5

LEMMA BillStepInv ==
  ASSUME IsFiniteSet(Invoice), IsFiniteSet(Payment)
  PROVE  BillInv /\ (Saas!BillingStep \/ UNCHANGED Saas!billing) => BillInv'
<1> SUFFICES ASSUME BillInv, Saas!BillingStep \/ UNCHANGED Saas!billing PROVE BillInv'
  OBVIOUS
<1>1. /\ BillTypes /\ ChargesShow /\ ChargesCount
      /\ IsFiniteSet(Succeeding) /\ Cardinality(Succeeding) \in Nat
      /\ IsFiniteSet(lost) /\ Cardinality(lost) \in Nat
      /\ SumOf(taken, Invoice) \in Nat
  BY FS_Subset, FS_CardinalityType DEF BillInv, BillTypes, ChargesCount, Succeeding
<1>2. Saas!Idle.at = "idle"
  BY DEF Saas!Idle
<1>3. CASE Saas!CreateInvoice
  <2>1. PICK i \in Invoice :
          /\ invoices[i] = "none" /\ invoices' = [invoices EXCEPT ![i] = "pending"]
          /\ UNCHANGED <<payment, succeeded, taken, lost>>
    BY <1>3 DEF Saas!CreateInvoice
  <2>2. Succeeding' = Succeeding
    BY <2>1 DEF Succeeding
  <2>3. BillTypes' /\ ChargesShow'
    BY <1>1, <2>1, <2>2 DEF BillTypes, ChargesShow
  <2>4. ChargesCount'
    BY <1>1, <2>1, <2>2 DEF ChargesCount
  <2> QED
    BY <2>3, <2>4 DEF BillInv
<1>4. CASE Saas!CancelInvoice
  <2>1. PICK i \in Invoice :
          /\ invoices[i] = "pending" /\ invoices' = [invoices EXCEPT ![i] = "cancelled"]
          /\ UNCHANGED <<payment, succeeded, taken, lost>>
    BY <1>4 DEF Saas!CancelInvoice, Saas!Cancellable
  <2>2. Succeeding' = Succeeding
    BY <2>1 DEF Succeeding
  <2>3. BillTypes' /\ ChargesShow'
    BY <1>1, <2>1, <2>2 DEF BillTypes, ChargesShow
  <2>4. ChargesCount'
    BY <1>1, <2>1, <2>2 DEF ChargesCount
  <2> QED
    BY <2>3, <2>4 DEF BillInv
<1>5. CASE Saas!ProcessPayment
  <2>1. PICK i \in Invoice, b \in NeedsKey \cup {"manual"} :
          /\ Saas!Settle(i, Saas!BuiltInCharge(b))
          /\ taken' = [taken EXCEPT ![i] = @ + Saas!One(Saas!BuiltInCharge(b))]
          /\ UNCHANGED <<payment, lost>>
    BY <1>5 DEF Saas!ProcessPayment
  <2>2. PICK n \in {0, 1} :
          /\ invoices' = [invoices EXCEPT ![i] = IF n = 1 THEN "paid" ELSE "failed"]
          /\ succeeded' = succeeded + n /\ taken' = [taken EXCEPT ![i] = @ + n]
    <3>1. Saas!BuiltInCharge(b) = "success" \/ Saas!BuiltInCharge(b) = "failed"
      BY DEF Saas!BuiltInCharge
    <3>2. CASE Saas!BuiltInCharge(b) = "success"
      BY <2>1, <3>2 DEF Saas!Settle, Saas!One
    <3>3. CASE Saas!BuiltInCharge(b) = "failed"
      BY <2>1, <3>3 DEF Saas!Settle, Saas!One
    <3> QED
      BY <3>1, <3>2, <3>3
  <2>3. /\ taken' \in [Invoice -> Nat]
        /\ SumOf(taken, Invoice)' \in Nat /\ SumOf(taken, Invoice)' = SumOf(taken, Invoice) + n
    BY <1>1, <2>2, ChargeAdds DEF BillTypes
  <2>4. Succeeding' = Succeeding
    BY <2>1 DEF Succeeding
  <2>5. BillTypes'
    BY <1>1, <2>1, <2>2, <2>3 DEF BillTypes
  <2>6. ChargesShow'
    <3>1. \A j \in Invoice : taken'[j] = taken[j] + (IF j = i THEN n ELSE 0) /\ taken[j] \in Nat
      BY <1>1, <2>2 DEF BillTypes
    <3>2. \A j \in Invoice : invoices'[j] = IF j # i THEN invoices[j]
                                            ELSE IF n = 1 THEN "paid" ELSE "failed"
      BY <1>1, <2>2 DEF BillTypes
    <3>3. \A p \in Succeeding : payment[p].invoice \in Invoice
      BY <1>1, <1>2 DEF BillTypes, Succeeding
    <3> QED
      BY <1>1, <2>1, <2>4, <3>1, <3>2, <3>3 DEF ChargesShow
  <2>7. ChargesCount'
    BY <1>1, <2>1, <2>2, <2>3, <2>4 DEF ChargesCount, BillTypes
  <2> QED
    BY <2>5, <2>6, <2>7 DEF BillInv
<1>6. CASE Saas!PaymentStarts
  <2>1. PICK p \in Payment, i \in Invoice :
          /\ payment[p] = Saas!Idle
          /\ payment' = [payment EXCEPT ![p] = [at |-> "asked", invoice |-> i]]
          /\ UNCHANGED <<invoices, succeeded, taken, lost>>
    BY <1>6 DEF Saas!PaymentStarts
  <2>2. PICK r : MovesTo(p, r) /\ r.at # "success" /\ payment[p].at # "success"
    <3>1. PICK r : r = [at |-> "asked", invoice |-> i]
      OBVIOUS
    <3>2. r.at = "asked" /\ r \in [at : {"asked", "success", "failed"}, invoice : Invoice]
      BY <3>1
    <3>3. payment' = [payment EXCEPT ![p] = r] /\ payment[p].at = "idle"
      BY <1>2, <2>1, <3>1
    <3> QED
      BY <3>2, <3>3 DEF MovesTo
  <2>3. /\ DOMAIN payment' = Payment
        /\ \A q \in Payment : payment'[q] = IF q = p THEN r ELSE payment[q]
        /\ \A q \in Payment :
             \/ payment'[q] = Saas!Idle
             \/ payment'[q] \in [at : {"asked", "success", "failed"}, invoice : Invoice]
        /\ Cardinality(Succeeding') = Cardinality(Succeeding)
        /\ Succeeding' = Succeeding \ {p}
    BY <1>1, <1>2, <2>1, <2>2, PaymentMoves
  <2>4. p \notin Succeeding /\ \A q \in Succeeding' : payment'[q] = payment[q]
    BY <1>2, <2>1, <2>3 DEF Succeeding
  <2>5. BillTypes' /\ ChargesShow'
    BY <1>1, <2>1, <2>3, <2>4 DEF BillTypes, ChargesShow
  <2>6. ChargesCount'
    BY <1>1, <2>1, <2>3 DEF ChargesCount
  <2> QED
    BY <2>5, <2>6 DEF BillInv
<1>7. CASE Saas!ProviderDecides
  <2>1. PICK p \in Payment, result \in {"success", "failed"} :
          /\ payment[p].at = "asked"
          /\ payment' = [payment EXCEPT ![p].at = result]
          /\ taken' = [taken EXCEPT ![payment[p].invoice] = @ + Saas!One(result)]
          /\ UNCHANGED <<invoices, succeeded, lost>>
    BY <1>7 DEF Saas!ProviderDecides
  <2>2. PICK i \in Invoice : i = payment[p].invoice
    BY <1>1, <1>2, <2>1 DEF BillTypes
  <2>3. PICK r : r = [payment[p] EXCEPT !.at = result]
    OBVIOUS
  <2>4. MovesTo(p, r) /\ r.at = result /\ r.invoice = i /\ payment[p].at # "success"
    <3>1. payment[p] \in [at : {"asked", "success", "failed"}, invoice : Invoice]
      BY <1>1, <1>2, <2>1 DEF BillTypes
    <3>2. payment' = [payment EXCEPT ![p] = r]
      BY <1>1, <2>1, <2>3 DEF BillTypes
    <3> QED
      BY <2>1, <2>2, <2>3, <3>1, <3>2 DEF MovesTo
  <2>5. PICK n \in {0, 1} : n = Saas!One(result) /\ (n = 1 <=> result = "success")
    BY DEF Saas!One
  <2>6. /\ taken' \in [Invoice -> Nat]
        /\ SumOf(taken, Invoice)' \in Nat /\ SumOf(taken, Invoice)' = SumOf(taken, Invoice) + n
    BY <1>1, <2>1, <2>2, <2>5, ChargeAdds DEF BillTypes
  <2>7. /\ DOMAIN payment' = Payment
        /\ \A q \in Payment : payment'[q] = IF q = p THEN r ELSE payment[q]
        /\ \A q \in Payment :
             \/ payment'[q] = Saas!Idle
             \/ payment'[q] \in [at : {"asked", "success", "failed"}, invoice : Invoice]
        /\ result = "success" => /\ Succeeding' = Succeeding \cup {p}
                                 /\ Cardinality(Succeeding') = Cardinality(Succeeding) + 1
        /\ result # "success" => /\ Succeeding' = Succeeding \ {p}
                                 /\ Cardinality(Succeeding') = Cardinality(Succeeding)
    BY <1>1, <2>1, <2>4, PaymentMoves
  <2>8. BillTypes'
    BY <1>1, <2>1, <2>6, <2>7 DEF BillTypes
  <2>9. ChargesShow'
    <3>1. \A j \in Invoice : taken'[j] = taken[j] + (IF j = i THEN n ELSE 0) /\ taken[j] \in Nat
      BY <1>1, <2>1, <2>2, <2>5 DEF BillTypes
    <3>2. \A q \in Succeeding : payment[q].invoice \in Invoice
      BY <1>1, <1>2 DEF BillTypes, Succeeding
    <3>3. p \notin Succeeding
      BY <2>1 DEF Succeeding
    <3>4. \A q \in Succeeding' : taken'[payment'[q].invoice] > 0
      <4> SUFFICES ASSUME NEW q \in Succeeding' PROVE taken'[payment'[q].invoice] > 0
        OBVIOUS
      <4>1. CASE q = p
        <5>1. payment'[q].invoice = i /\ result = "success"
          BY <2>4, <2>7, <3>3, <4>1
        <5>2. n = 1
          BY <2>5, <5>1
        <5> QED
          BY <3>1, <5>1, <5>2
      <4>2. CASE q # p
        <5>1. q \in Succeeding /\ payment'[q] = payment[q]
          BY <2>5, <2>7, <4>2 DEF Succeeding
        <5>2. taken[payment[q].invoice] > 0
          BY <1>1, <5>1 DEF ChargesShow
        <5> QED
          BY <2>5, <3>1, <3>2, <5>1, <5>2
      <4> QED
        BY <4>1, <4>2
    <3>5. \A q \in Succeeding : q \in Succeeding' /\ payment'[q] = payment[q]
      BY <2>7, <3>3 DEF Succeeding
    <3>6. \A j \in Invoice \ lost : taken'[j] > 0 =>
            \/ invoices[j] \in {"paid", "failed"}
            \/ \E q \in Succeeding' : payment'[q].invoice = j
      <4> SUFFICES ASSUME NEW j \in Invoice \ lost, taken'[j] > 0
                   PROVE  \/ invoices[j] \in {"paid", "failed"}
                          \/ \E q \in Succeeding' : payment'[q].invoice = j
        OBVIOUS
      <4>1. CASE taken[j] > 0
        BY <1>1, <3>5, <4>1 DEF ChargesShow
      <4>2. CASE ~(taken[j] > 0)
        <5>1. j = i /\ n = 1
          BY <2>5, <3>1, <4>2
        <5>2. p \in Succeeding' /\ payment'[p].invoice = j
          BY <2>4, <2>5, <2>7, <5>1
        <5> QED
          BY <5>2
      <4> QED
        BY <4>1, <4>2
    <3>7. \A j \in Invoice : invoices[j] = "paid" => taken'[j] > 0
      BY <1>1, <2>5, <3>1 DEF ChargesShow
    <3> QED
      BY <2>1, <3>4, <3>6, <3>7 DEF ChargesShow
  <2>10. ChargesCount'
    BY <1>1, <2>1, <2>5, <2>6, <2>7 DEF ChargesCount, BillTypes
  <2> QED
    BY <2>8, <2>9, <2>10 DEF BillInv
<1>8. CASE Saas!PaymentAnswered
  <2>1. PICK p \in Payment :
          /\ payment[p].at \in {"success", "failed"}
          /\ Saas!Settle(payment[p].invoice, payment[p].at)
          /\ payment' = [payment EXCEPT ![p] = Saas!Idle]
          /\ UNCHANGED <<taken, lost>>
    BY <1>8 DEF Saas!PaymentAnswered
  <2>2. PICK i \in Invoice : i = payment[p].invoice
    BY <1>1, <1>2, <2>1 DEF BillTypes
  <2>3. /\ invoices' = [invoices EXCEPT
                          ![i] = IF payment[p].at = "success" THEN "paid" ELSE "failed"]
        /\ succeeded' = succeeded + (IF payment[p].at = "success" THEN 1 ELSE 0)
    BY <2>1, <2>2 DEF Saas!Settle, Saas!One
  <2>4. /\ DOMAIN payment' = Payment
        /\ \A q \in Payment : payment'[q] = IF q = p THEN Saas!Idle ELSE payment[q]
        /\ \A q \in Payment :
             \/ payment'[q] = Saas!Idle
             \/ payment'[q] \in [at : {"asked", "success", "failed"}, invoice : Invoice]
        /\ Succeeding' = Succeeding \ {p}
        /\ Cardinality(Succeeding')
             = Cardinality(Succeeding) - (IF payment[p].at = "success" THEN 1 ELSE 0)
    <3>1. MovesTo(p, Saas!Idle) /\ Saas!Idle.at # "success"
      BY <1>2, <2>1 DEF MovesTo
    <3> QED
      BY <1>1, <3>1, PaymentMoves
  <2>5. BillTypes'
    BY <1>1, <2>1, <2>3, <2>4 DEF BillTypes
  <2>6. ChargesShow'
    <3>1. \A j \in Invoice : invoices'[j] = IF j # i THEN invoices[j]
                                  ELSE IF payment[p].at = "success" THEN "paid" ELSE "failed"
      BY <1>1, <2>3 DEF BillTypes
    <3>2. payment[p].at = "success" => taken[i] > 0
      BY <1>1, <2>2 DEF ChargesShow, Succeeding
    <3>3. \A q \in Succeeding' : q \in Succeeding /\ payment'[q] = payment[q]
      BY <2>4 DEF Succeeding
    <3>4. \A q \in Succeeding : payment[q].invoice # i => q \in Succeeding' /\ payment'[q] = payment[q]
      BY <2>2, <2>4 DEF Succeeding
    <3>5. \A j \in Invoice \ lost : taken[j] > 0 =>
            \/ invoices'[j] \in {"paid", "failed"}
            \/ \E q \in Succeeding' : payment'[q].invoice = j
      BY <1>1, <3>1, <3>4 DEF ChargesShow
    <3> QED
      BY <1>1, <2>1, <3>1, <3>2, <3>3, <3>5 DEF ChargesShow
  <2>7. ChargesCount'
    BY <1>1, <2>1, <2>3, <2>4 DEF ChargesCount, BillTypes
  <2> QED
    BY <2>5, <2>6, <2>7 DEF BillInv
<1>9. CASE Saas!ProviderRaises
  <2>1. PICK p \in Payment :
          /\ payment[p] # Saas!Idle
          /\ payment' = [payment EXCEPT ![p] = Saas!Idle]
          /\ lost' = IF payment[p].at = "success" THEN lost \cup {payment[p].invoice} ELSE lost
          /\ UNCHANGED <<invoices, succeeded, taken>>
    BY <1>9 DEF Saas!ProviderRaises
  <2>2. PICK i \in Invoice : i = payment[p].invoice
    BY <1>1, <1>2, <2>1 DEF BillTypes
  <2>3. /\ DOMAIN payment' = Payment
        /\ \A q \in Payment : payment'[q] = IF q = p THEN Saas!Idle ELSE payment[q]
        /\ \A q \in Payment :
             \/ payment'[q] = Saas!Idle
             \/ payment'[q] \in [at : {"asked", "success", "failed"}, invoice : Invoice]
        /\ Succeeding' = Succeeding \ {p}
        /\ Cardinality(Succeeding')
             = Cardinality(Succeeding) - (IF payment[p].at = "success" THEN 1 ELSE 0)
    <3>1. MovesTo(p, Saas!Idle) /\ Saas!Idle.at # "success"
      BY <1>2, <2>1 DEF MovesTo
    <3> QED
      BY <1>1, <3>1, PaymentMoves
  <2>4. BillTypes'
    BY <1>1, <2>1, <2>2, <2>3 DEF BillTypes
  <2>5. ChargesShow'
    <3>1. \A q \in Succeeding' : q \in Succeeding /\ payment'[q] = payment[q]
      BY <2>3 DEF Succeeding
    <3>2. \A j \in Invoice \ lost' : \A q \in Succeeding :
            payment[q].invoice = j => q \in Succeeding' /\ payment'[q] = payment[q]
      <4> SUFFICES ASSUME NEW q \in Succeeding, payment[q].invoice \notin lost'
                   PROVE  q \in Succeeding' /\ payment'[q] = payment[q]
        OBVIOUS
      <4>1. q \in Payment /\ payment[q].at = "success"
        BY DEF Succeeding
      <4>2. q # p
        BY <2>1, <4>1
      <4>3. q \in Succeeding'
        BY <2>3, <4>2
      <4> QED
        BY <2>3, <4>1, <4>2, <4>3
    <3>3. lost \subseteq lost'
      BY <2>1
    <3> QED
      BY <1>1, <2>1, <3>1, <3>2, <3>3 DEF ChargesShow
  <2>6. /\ Cardinality(lost') \in Nat
        /\ Cardinality(lost') <= Cardinality(lost)
                                   + (IF payment[p].at = "success" THEN 1 ELSE 0)
    <3>1. CASE payment[p].at = "success"
      <4>1. lost' = lost \cup {i}
        BY <2>1, <2>2, <3>1
      <4>2. Cardinality(lost \cup {i})
              = IF i \in lost THEN Cardinality(lost) ELSE Cardinality(lost) + 1
        BY <1>1, FS_AddElement
      <4> QED
        BY <1>1, <3>1, <4>1, <4>2
    <3>2. CASE payment[p].at # "success"
      BY <1>1, <2>1, <3>2
    <3> QED
      BY <3>1, <3>2
  <2>7. ChargesCount'
    BY <1>1, <2>1, <2>3, <2>6 DEF ChargesCount, BillTypes
  <2> QED
    BY <2>4, <2>5, <2>7 DEF BillInv
<1>10. CASE UNCHANGED <<invoices, payment, succeeded, taken, lost>>
  <2>1. Succeeding' = Succeeding
    BY <1>10 DEF Succeeding
  <2>2. BillTypes' /\ ChargesShow'
    BY <1>1, <1>10, <2>1 DEF BillTypes, ChargesShow
  <2>3. ChargesCount'
    BY <1>1, <1>10, <2>1 DEF ChargesCount
  <2> QED
    BY <2>2, <2>3 DEF BillInv
<1>11. Saas!RegisterProvider \/ UNCHANGED Saas!billing =>
         UNCHANGED <<invoices, payment, succeeded, taken, lost>>
  BY DEF Saas!RegisterProvider, Saas!billing
<1> QED
  BY <1>3, <1>4, <1>5, <1>6, <1>7, <1>8, <1>9, <1>10, <1>11 DEF Saas!BillingStep

(* A subscription is paid for up to its end; a referral is counted once.   *)
Subscription == [tier : {0} \cup DOMAIN Saas!PLAN_HIERARCHY, start : Nat, ends : Nat,
                 is_active : BOOLEAN, auto_renew : BOOLEAN]

MemberInv ==
  /\ today \in Nat /\ subs \in [Member -> Subscription] /\ bought \in [Member -> Nat]
  /\ \A m \in Member : subs[m].ends >= subs[m].start + bought[m]
  /\ affiliates \in [Member -> [registered : BOOLEAN, is_active : BOOLEAN, referrals : Nat]]
  /\ referredBy \in [Member -> Member \cup {NoMember}]
  /\ \A a \in Member : affiliates[a].referrals = Cardinality(Saas!GetDownline(a))

LEMMA MemberInitInv == ASSUME NoMember \notin Member PROVE Saas!Init => MemberInv
<1> SUFFICES ASSUME Saas!Init PROVE MemberInv
  OBVIOUS
<1>1. /\ Saas!NoSubscription \in Subscription
      /\ Saas!NoSubscription.start = 0 /\ Saas!NoSubscription.ends = 0
  BY DEF Saas!NoSubscription, Subscription
<1>2. /\ Saas!NotAffiliate \in [registered : BOOLEAN, is_active : BOOLEAN, referrals : Nat]
      /\ Saas!NotAffiliate.referrals = 0
  BY DEF Saas!NotAffiliate
<1>3. /\ today = 0 /\ subs = [m \in Member |-> Saas!NoSubscription]
      /\ bought = [m \in Member |-> 0] /\ affiliates = [m \in Member |-> Saas!NotAffiliate]
      /\ referredBy = [m \in Member |-> NoMember]
  BY DEF Saas!Init
<1>4. \A a \in Member : Cardinality(Saas!GetDownline(a)) = 0
  <2>1. \A a \in Member : Saas!GetDownline(a) = {}
    BY <1>3 DEF Saas!GetDownline
  <2> QED
    BY <2>1, FS_EmptySet
<1> QED
  BY <1>1, <1>2, <1>3, <1>4 DEF MemberInv

Switched(sub, e, active, renews) ==
  [sub EXCEPT !.ends = e, !.is_active = active, !.auto_renew = renews]

Switches(sub, e) ==
  \A active, renews \in BOOLEAN :
    /\ Switched(sub, e, active, renews) \in Subscription
    /\ Switched(sub, e, active, renews).ends = e
    /\ Switched(sub, e, active, renews).start = sub.start

LEMMA SwitchedSubscription == \A sub \in Subscription, e \in Nat : Switches(sub, e)
<1> SUFFICES ASSUME NEW sub \in Subscription, NEW e \in Nat,
                    NEW active \in BOOLEAN, NEW renews \in BOOLEAN
             PROVE  /\ Switched(sub, e, active, renews) \in Subscription
                    /\ Switched(sub, e, active, renews).ends = e
                    /\ Switched(sub, e, active, renews).start = sub.start
  BY DEF Switches
<1>1. Switched(sub, e, active, renews) \in Subscription
  BY DEF Subscription, Switched
<1>2. Switched(sub, e, active, renews).ends = e
  BY DEF Subscription, Switched
<1>3. Switched(sub, e, active, renews).start = sub.start
  BY DEF Subscription, Switched
<1> QED
  BY <1>1, <1>2, <1>3

LEMMA SubscriptionStepInv == MemberInv /\ Saas!SubscriptionStep => MemberInv'
<1> SUFFICES ASSUME MemberInv, Saas!SubscriptionStep PROVE MemberInv'
  OBVIOUS
<1>1. UNCHANGED <<affiliates, referredBy>>
  BY DEF Saas!SubscriptionStep, Saas!CreateSubscription, Saas!Upgrade, Saas!Downgrade,
         Saas!Cancel, Saas!CheckActive, Saas!Renew, Saas!DayPasses
<1>2. \A a \in Member : Saas!GetDownline(a)' = Saas!GetDownline(a)
  BY <1>1 DEF Saas!GetDownline
<1>3. ASSUME today' \in Nat, subs' \in [Member -> Subscription], bought' \in [Member -> Nat],
             \A m \in Member : subs'[m].ends >= subs'[m].start + bought'[m]
      PROVE  MemberInv'
  BY <1>1, <1>2, <1>3 DEF MemberInv
<1>4. ASSUME NEW m \in Member, NEW sub \in Subscription, subs' = [subs EXCEPT ![m] = sub],
             sub.ends >= subs[m].ends, sub.start = subs[m].start, UNCHANGED <<today, bought>>
      PROVE  MemberInv'
  <2>1. \A k \in Member : subs'[k] = IF k = m THEN sub ELSE subs[k]
    BY <1>4 DEF MemberInv
  <2>2. /\ subs[m].ends \in Nat /\ subs[m].start \in Nat /\ sub.ends \in Nat /\ bought[m] \in Nat
        /\ subs[m].ends >= subs[m].start + bought[m]
    BY <1>4 DEF MemberInv, Subscription
  <2>3. sub.ends >= sub.start + bought[m]
    BY <1>4, <2>2
  <2> QED
    BY <1>3, <1>4, <2>1, <2>3 DEF MemberInv
<1>5. CASE Saas!CreateSubscription
  <2>1. PICK m \in Member, tier \in DOMAIN Saas!PLAN_HIERARCHY, days \in {1, 2}, renews \in BOOLEAN :
          /\ subs' = [subs EXCEPT ![m] =
                        [tier |-> tier, start |-> today, ends |-> today + days,
                         is_active |-> TRUE, auto_renew |-> renews]]
          /\ bought' = [bought EXCEPT ![m] = days] /\ today' = today
    BY <1>5 DEF Saas!CreateSubscription, Saas!Duration
  <2>2. PICK sub : sub = [tier |-> tier, start |-> today, ends |-> today + days,
                          is_active |-> TRUE, auto_renew |-> renews]
    OBVIOUS
  <2>3. sub \in Subscription /\ sub.ends >= sub.start + days
    <3>1. today \in Nat /\ today + days \in Nat /\ today + days >= today + days
      BY DEF MemberInv
    <3> QED
      BY <2>2, <3>1 DEF Subscription
  <2>4. /\ \A k \in Member : subs'[k] = IF k = m THEN sub ELSE subs[k]
        /\ \A k \in Member : bought'[k] = IF k = m THEN days ELSE bought[k]
        /\ subs' \in [Member -> Subscription] /\ bought' \in [Member -> Nat]
    BY <2>1, <2>2, <2>3 DEF MemberInv
  <2> QED
    BY <1>3, <2>1, <2>3, <2>4 DEF MemberInv
<1>6. CASE Saas!Upgrade \/ Saas!Downgrade
  <2>1. PICK m \in Member, tier \in DOMAIN Saas!PLAN_HIERARCHY :
          subs' = [subs EXCEPT ![m].tier = tier] /\ UNCHANGED <<today, bought>>
    BY <1>6 DEF Saas!Upgrade, Saas!Downgrade
  <2>2. PICK sub : sub = [subs[m] EXCEPT !.tier = tier]
    OBVIOUS
  <2>3. /\ sub \in Subscription /\ subs' = [subs EXCEPT ![m] = sub]
        /\ sub.ends >= subs[m].ends /\ sub.start = subs[m].start
    BY <2>1, <2>2 DEF MemberInv, Subscription
  <2> QED
    BY <1>4, <2>1, <2>3
<1>7. CASE Saas!Cancel
  <2>1. PICK m \in Member :
          /\ subs' = [subs EXCEPT ![m].is_active = FALSE, ![m].auto_renew = FALSE]
          /\ UNCHANGED <<today, bought>>
    BY <1>7 DEF Saas!Cancel
  <2>2. PICK sub : sub = Switched(subs[m], subs[m].ends, FALSE, FALSE)
    OBVIOUS
  <2>3. /\ sub \in Subscription /\ sub.ends >= subs[m].ends /\ sub.start = subs[m].start
    <3>1. subs[m] \in Subscription /\ subs[m].ends \in Nat
      BY DEF MemberInv, Subscription
    <3>2. Switches(subs[m], subs[m].ends)
      BY <3>1, SwitchedSubscription
    <3>3. sub \in Subscription /\ sub.ends = subs[m].ends /\ sub.start = subs[m].start
      BY <2>2, <3>2, Zenon DEF Switches
    <3> QED
      BY <3>1, <3>3
  <2>4. subs' = [subs EXCEPT ![m] = sub]
    BY <2>1, <2>2 DEF MemberInv, Subscription, Switched
  <2> QED
    BY <1>4, <2>1, <2>3, <2>4
<1>8. CASE Saas!CheckActive
  <2>1. PICK m \in Member :
          subs' = [subs EXCEPT ![m].is_active = FALSE] /\ UNCHANGED <<today, bought>>
    BY <1>8 DEF Saas!CheckActive
  <2>2. PICK sub : sub = Switched(subs[m], subs[m].ends, FALSE, subs[m].auto_renew)
    OBVIOUS
  <2>3. /\ sub \in Subscription /\ sub.ends >= subs[m].ends /\ sub.start = subs[m].start
    <3>1. subs[m] \in Subscription /\ subs[m].ends \in Nat /\ subs[m].auto_renew \in BOOLEAN
      BY DEF MemberInv, Subscription
    <3>2. sub \in Subscription /\ sub.ends = subs[m].ends /\ sub.start = subs[m].start
      <4>1. Switches(subs[m], subs[m].ends)
        BY <3>1, SwitchedSubscription
      <4>2. subs[m].auto_renew = TRUE \/ subs[m].auto_renew = FALSE
        BY <3>1
      <4>3. CASE subs[m].auto_renew = TRUE
        <5>1. sub = Switched(subs[m], subs[m].ends, FALSE, TRUE)
          BY <2>2, <4>3, Zenon
        <5> QED
          BY <4>1, <5>1, Zenon DEF Switches
      <4>4. CASE subs[m].auto_renew = FALSE
        <5>1. sub = Switched(subs[m], subs[m].ends, FALSE, FALSE)
          BY <2>2, <4>4, Zenon
        <5> QED
          BY <4>1, <5>1, Zenon DEF Switches
      <4> QED
        BY <4>2, <4>3, <4>4, Zenon
    <3> QED
      BY <3>1, <3>2
  <2>4. subs' = [subs EXCEPT ![m] = sub]
    BY <2>1, <2>2 DEF MemberInv, Subscription, Switched
  <2> QED
    BY <1>4, <2>1, <2>3, <2>4
<1>9. CASE Saas!Renew
  <2>1. PICK m \in Member, days \in {1, 2} :
          /\ subs' = [subs EXCEPT ![m].ends = Saas!RenewedUntil(m, days), ![m].is_active = TRUE]
          /\ bought' = [bought EXCEPT ![m] = @ + days] /\ today' = today
    BY <1>9 DEF Saas!Renew, Saas!Duration
  <2>2. PICK old \in Nat, from \in Nat, paid \in Nat :
          /\ old = subs[m].ends /\ from = subs[m].start /\ paid = bought[m]
          /\ old >= from + paid
    BY DEF MemberInv, Subscription
  <2>3. PICK new \in Nat : new = Saas!RenewedUntil(m, days) /\ new >= old + days
    <3>1. today \in Nat
      BY DEF MemberInv
    <3>2. PICK x \in {old, today} : x = Saas!Max({old, today}) /\ x >= old /\ x >= today
      <4>1. \E x \in {old, today} : \A y \in {old, today} : x >= y
        BY <3>1
      <4> QED
        BY <4>1 DEF Saas!Max
    <3>3. Saas!RenewedUntil(m, days) = x + days
      BY <2>2, <3>2 DEF Saas!RenewedUntil
    <3>4. x + days \in Nat /\ x + days >= old + days
      BY <3>1, <3>2
    <3> QED
      BY <3>3, <3>4
  <2>4. PICK sub : sub = Switched(subs[m], new, TRUE, subs[m].auto_renew)
    OBVIOUS
  <2>5. /\ sub \in Subscription /\ subs' = [subs EXCEPT ![m] = sub]
        /\ sub.ends = new /\ sub.start = from
    <3>1. subs[m] \in Subscription /\ subs[m].auto_renew \in BOOLEAN
      BY DEF MemberInv, Subscription
    <3>2. sub \in Subscription /\ sub.ends = new /\ sub.start = from
      <4>1. Switches(subs[m], new)
        BY <2>3, <3>1, SwitchedSubscription
      <4>2. subs[m].auto_renew = TRUE \/ subs[m].auto_renew = FALSE
        BY <3>1
      <4>3. CASE subs[m].auto_renew = TRUE
        <5>1. sub = Switched(subs[m], new, TRUE, TRUE)
          BY <2>4, <4>3, Zenon
        <5> QED
          BY <2>2, <4>1, <5>1, Zenon DEF Switches
      <4>4. CASE subs[m].auto_renew = FALSE
        <5>1. sub = Switched(subs[m], new, TRUE, FALSE)
          BY <2>4, <4>4, Zenon
        <5> QED
          BY <2>2, <4>1, <5>1, Zenon DEF Switches
      <4> QED
        BY <4>2, <4>3, <4>4, Zenon
    <3>3. subs' = [subs EXCEPT ![m] = sub]
      BY <2>1, <2>3, <2>4 DEF MemberInv, Subscription, Switched
    <3> QED
      BY <3>2, <3>3
  <2>6. sub.ends >= sub.start + (paid + days)
    BY <2>2, <2>3, <2>5
  <2>7. /\ \A k \in Member : subs'[k] = IF k = m THEN sub ELSE subs[k]
        /\ subs' \in [Member -> Subscription]
    BY <2>5 DEF MemberInv
  <2>8. /\ \A k \in Member : bought'[k] = IF k = m THEN paid + days ELSE bought[k]
        /\ bought' \in [Member -> Nat]
    BY <2>1, <2>2 DEF MemberInv
  <2> QED
    BY <1>3, <2>1, <2>6, <2>7, <2>8 DEF MemberInv
<1>10. CASE Saas!DayPasses
  <2>1. today' = today + 1 /\ UNCHANGED <<subs, bought>> /\ today' \in Nat
    BY <1>10 DEF Saas!DayPasses, MemberInv
  <2> QED
    BY <1>3, <2>1 DEF MemberInv
<1> QED
  BY <1>5, <1>6, <1>7, <1>8, <1>9, <1>10 DEF Saas!SubscriptionStep

LEMMA ReferralStepInv ==
  ASSUME IsFiniteSet(Member), NoMember \notin Member
  PROVE  MemberInv /\ Saas!ReferralStep => MemberInv'
<1> SUFFICES ASSUME MemberInv, Saas!ReferralStep PROVE MemberInv'
  OBVIOUS
<1>1. UNCHANGED <<today, subs, bought>>
  BY DEF Saas!ReferralStep, Saas!RegisterAffiliate, Saas!TrackReferral, Saas!DeactivateAffiliate
<1>2. CASE Saas!RegisterAffiliate \/ Saas!DeactivateAffiliate
  <2>1. PICK m \in Member, r \in BOOLEAN, a \in BOOLEAN :
          /\ referredBy' = referredBy
          /\ affiliates' = [affiliates EXCEPT ![m].registered = r, ![m].is_active = a]
    <3>1. CASE Saas!RegisterAffiliate
      BY <3>1 DEF Saas!RegisterAffiliate
    <3>2. CASE Saas!DeactivateAffiliate
      <4>1. PICK m \in Member : /\ affiliates[m].registered /\ referredBy' = referredBy
                                /\ affiliates' = [affiliates EXCEPT ![m].is_active = FALSE]
        BY <3>2 DEF Saas!DeactivateAffiliate
      <4>2. affiliates[m] \in [registered : BOOLEAN, is_active : BOOLEAN, referrals : Nat]
        BY DEF MemberInv
      <4>3. [affiliates EXCEPT ![m].is_active = FALSE]
              = [affiliates EXCEPT ![m].registered = affiliates[m].registered, ![m].is_active = FALSE]
        BY <4>2 DEF MemberInv
      <4> QED
        BY <4>1, <4>2, <4>3
    <3> QED
      BY <1>2, <3>1, <3>2
  <2>2. \A b \in Member : Saas!GetDownline(b)' = Saas!GetDownline(b)
    BY <2>1 DEF Saas!GetDownline
  <2>3. affiliates' \in [Member -> [registered : BOOLEAN, is_active : BOOLEAN, referrals : Nat]]
    BY <2>1 DEF MemberInv
  <2>4. \A b \in Member : affiliates'[b].referrals = affiliates[b].referrals
    BY <2>1 DEF MemberInv
  <2> QED
    BY <1>1, <2>1, <2>2, <2>3, <2>4 DEF MemberInv
<1>3. CASE Saas!TrackReferral
  <2>1. PICK a \in Member, m \in Member :
          /\ referredBy[m] = NoMember /\ referredBy' = [referredBy EXCEPT ![m] = a]
          /\ affiliates' = [affiliates EXCEPT ![a].referrals = @ + 1]
    BY <1>3 DEF Saas!TrackReferral
  <2>2. /\ Saas!GetDownline(a)' = Saas!GetDownline(a) \cup {m} /\ m \notin Saas!GetDownline(a)
        /\ \A b \in Member \ {a} : Saas!GetDownline(b)' = Saas!GetDownline(b)
    BY <2>1 DEF Saas!GetDownline, MemberInv
  <2>3. IsFiniteSet(Saas!GetDownline(a))
    BY FS_Subset DEF Saas!GetDownline
  <2>4. Cardinality(Saas!GetDownline(a) \cup {m}) = Cardinality(Saas!GetDownline(a)) + 1
    BY <2>2, <2>3, FS_AddElement
  <2>5. /\ affiliates'[a].referrals = affiliates[a].referrals + 1
        /\ \A b \in Member \ {a} : affiliates'[b] = affiliates[b]
        /\ affiliates' \in [Member -> [registered : BOOLEAN, is_active : BOOLEAN, referrals : Nat]]
        /\ referredBy' \in [Member -> Member \cup {NoMember}]
    BY <2>1 DEF MemberInv
  <2>6. \A b \in Member : affiliates'[b].referrals = Cardinality(Saas!GetDownline(b)')
    <3>1. affiliates'[a].referrals = Cardinality(Saas!GetDownline(a)')
      BY <2>2, <2>4, <2>5 DEF MemberInv
    <3>2. \A b \in Member \ {a} : affiliates'[b].referrals = Cardinality(Saas!GetDownline(b)')
      BY <2>2, <2>5 DEF MemberInv
    <3> QED
      BY <3>1, <3>2
  <2> QED
    BY <1>1, <2>5, <2>6 DEF MemberInv
<1> QED
  BY <1>2, <1>3 DEF Saas!ReferralStep

LEMMA LedgersSuffice ==
  ASSUME IsFiniteSet(Invoice), IsFiniteSet(Payment) PROVE BillInv /\ MemberInv => SaasBooks
<1> SUFFICES ASSUME BillInv, MemberInv PROVE SaasBooks
  OBVIOUS
<1>1. \A S : Saas!Cardinality(S) = Cardinality(S)
  BY DEF Saas!Cardinality, Cardinality
<1>2. Saas!MemberBooks
  BY <1>1 DEF Saas!MemberBooks, MemberInv
<1>3. succeeded + Saas!Cardinality(lost) <= Saas!Charged
  <2>1. /\ IsFiniteSet(Succeeding) /\ Cardinality(Succeeding) \in Nat
        /\ IsFiniteSet(lost) /\ Cardinality(lost) \in Nat
    BY FS_Subset, FS_CardinalityType DEF BillInv, BillTypes, Succeeding
  <2>2. succeeded + Cardinality(lost) <= SumOf(taken, Invoice)
    BY <2>1 DEF BillInv, BillTypes, ChargesCount
  <2> QED
    BY <1>1, <2>2, ChargedIsSum
<1>4. \A i \in Invoice \ lost :
        (\A p \in Payment : payment[p] = Saas!Idle \/ payment[p].invoice # i) =>
          /\ invoices[i] = "paid" => taken[i] > 0
          /\ taken[i] > 0 => invoices[i] \in {"paid", "failed"}
  <2>1. \A p \in Succeeding : p \in Payment /\ payment[p] # Saas!Idle
    BY DEF Succeeding, Saas!Idle
  <2> QED
    BY <2>1 DEF BillInv, ChargesShow
<1> QED
  BY <1>2, <1>3, <1>4 DEF SaasBooks, Saas!SaasBooks, Saas!InvoiceTellsCharge

(* BillingService, SubscriptionService and AffiliateService: for any       *)
(* number of invoices, suspended payments and members, however charges,    *)
(* answers, exceptions and cancellations follow one another, the invoices  *)
(* tell what was charged, the metrics never exceed the charges, and no     *)
(* subscription ends before the days paid for.                             *)
THEOREM LedgersAgree ==
  ASSUME IsFiniteSet(Invoice), IsFiniteSet(Payment), IsFiniteSet(Member), NoMember \notin Member
  PROVE  Saas!Spec => []SaasBooks
<1> DEFINE Inv == BillInv /\ MemberInv
<1>1. Saas!Init => Inv
  BY BillInitInv, MemberInitInv
<1>2. Inv /\ [Saas!Next]_(Saas!saasVars) => Inv'
  <2> SUFFICES ASSUME Inv, [Saas!Next]_(Saas!saasVars) PROVE Inv'
    OBVIOUS
  <2>1. MemberInv /\ UNCHANGED Saas!accounts => MemberInv'
    <3> SUFFICES ASSUME MemberInv, UNCHANGED Saas!accounts PROVE MemberInv'
      OBVIOUS
    <3>1. UNCHANGED <<today, subs, bought, affiliates, referredBy>>
      BY DEF Saas!accounts
    <3>2. \A a \in Member : Saas!GetDownline(a)' = Saas!GetDownline(a)
      BY <3>1 DEF Saas!GetDownline
    <3> QED
      BY <3>1, <3>2 DEF MemberInv
  <2>2. CASE Saas!BillingStep
    BY <2>1, <2>2, BillStepInv DEF Saas!BillingStep
  <2>3. CASE Saas!SubscriptionStep
    BY <2>3, BillStepInv, SubscriptionStepInv DEF Saas!SubscriptionStep
  <2>4. CASE Saas!ReferralStep
    BY <2>4, BillStepInv, ReferralStepInv DEF Saas!ReferralStep
  <2>5. CASE UNCHANGED Saas!saasVars
    <3>1. UNCHANGED Saas!billing /\ UNCHANGED Saas!accounts
      BY <2>5 DEF Saas!saasVars, Saas!billing, Saas!accounts
    <3> QED
      BY <2>1, <3>1, BillStepInv
  <2> QED
    BY <2>2, <2>3, <2>4, <2>5 DEF Saas!Next
<1>3. Inv => SaasBooks
  BY LedgersSuffice
<1> QED
  BY <1>1, <1>2, <1>3, PTL DEF Saas!Spec
-----------------------------------------------------------------------------
(* The composition.  The services share no variable, so that a behaviour   *)
(* of all of them is, seen through one's variables, a behaviour of that    *)
(* one: what is proved of each holds of the system the run checks.         *)

LEMMA ServicesMoves ==
  ASSUME [Next]_vars
  PROVE
    /\ Queueing \/ Recovering \/ Reconciling \/ UNCHANGED recVars
    /\ Gating \/ UNCHANGED riskVars
    /\ Publishing \/ UNCHANGED busVars
    /\ Streaming \/ UNCHANGED streamVars
    /\ Sharing \/ UNCHANGED hubVars
    /\ Billing \/ Subscribing \/ Referring \/ UNCHANGED saasVars
    /\ Moding \/ Stepping \/ Planning \/ UNCHANGED setupVars
    /\ Listing \/ Grouping \/ Linking \/ UNCHANGED catalogueVars
    /\ Screening \/ Analyzing \/ UNCHANGED screenVars
<1>1. CASE Retrying \/ Heartbeat
  BY <1>1 DEF Retrying, Heartbeat, BesideBg
<1>2. CASE Queueing \/ Recovering \/ Reconciling
  BY <1>2 DEF Queueing, Recovering, Reconciling, BesideRec
<1>3. CASE Gating
  BY <1>3 DEF Gating, BesideRisk
<1>4. CASE Notifying
  BY <1>4 DEF Notifying, BesideNote
<1>5. CASE Publishing
  BY <1>5 DEF Publishing, BesideBus
<1>6. CASE Calling
  BY <1>6 DEF Calling, BesideEx
<1>7. CASE Streaming
  BY <1>7 DEF Streaming, BesideSt
<1>8. CASE Sharing
  BY <1>8 DEF Sharing, BesideHub
<1>9. CASE Billing \/ Subscribing \/ Referring
  BY <1>9 DEF Billing, Subscribing, Referring, BesideSaas
<1>10. CASE Screening \/ Analyzing
  BY <1>10 DEF Screening, Analyzing, BesideScr
<1>11. CASE Moding \/ Stepping \/ Planning
  BY <1>11 DEF Moding, Stepping, Planning, BesideSet
<1>12. CASE Listing \/ Grouping \/ Linking
  BY <1>12 DEF Listing, Grouping, Linking, BesideCat
<1>13. CASE UNCHANGED vars
  BY <1>13 DEF vars
<1> QED
  BY <1>1, <1>2, <1>3, <1>4, <1>5, <1>6, <1>7, <1>8, <1>9, <1>10, <1>11, <1>12,
         <1>13 DEF Next

LEMMA ServicesSpecs ==
  Spec => /\ Rec!Spec /\ Risk!Spec /\ Bus!Spec /\ St!Spec /\ Hub!Spec
          /\ Set!Spec /\ Cat!Spec /\ Saas!Spec /\ Scr!Spec
<1>1. (Init => Rec!Init) /\ ([Next]_vars => [Rec!Next]_(Rec!recVars))
  <2>1. UNCHANGED recVars => UNCHANGED Rec!recVars
    BY DEF recVars, Rec!recVars, Rec!queueVars, Rec!coordVars, Rec!gridVars
  <2>2. Queueing \/ Recovering \/ Reconciling => Rec!Next
    BY DEF Queueing, Recovering, Reconciling, Rec!Next
  <2>3. Init => Rec!Init
    BY DEF Init
  <2> QED
    BY <2>1, <2>2, <2>3, ServicesMoves
<1>2. (Init => Risk!Init) /\ ([Next]_vars => [Risk!Next]_(Risk!riskVars))
  <2>1. UNCHANGED riskVars => UNCHANGED Risk!riskVars
    BY DEF riskVars, Risk!riskVars
  <2>2. Gating => Risk!Next
    BY DEF Gating
  <2>3. Init => Risk!Init
    BY DEF Init
  <2> QED
    BY <2>1, <2>2, <2>3, ServicesMoves
<1>3. (Init => Bus!Init) /\ ([Next]_vars => [Bus!Next]_(Bus!busVars))
  <2>1. UNCHANGED busVars => UNCHANGED Bus!busVars
    BY DEF busVars, Bus!busVars
  <2>2. Publishing => Bus!Next
    BY DEF Publishing
  <2>3. Init => Bus!Init
    BY DEF Init
  <2> QED
    BY <2>1, <2>2, <2>3, ServicesMoves
<1>4. (Init => St!Init) /\ ([Next]_vars => [St!Next]_(St!streamVars))
  <2>1. UNCHANGED streamVars => UNCHANGED St!streamVars
    BY DEF streamVars, St!streamVars
  <2>2. Streaming => St!Next
    BY DEF Streaming
  <2>3. Init => St!Init
    BY DEF Init
  <2> QED
    BY <2>1, <2>2, <2>3, ServicesMoves
<1>5. (Init => Hub!Init) /\ ([Next]_vars => [Hub!Next]_(Hub!hubVars))
  <2>1. UNCHANGED hubVars => UNCHANGED Hub!hubVars
    BY DEF hubVars, Hub!hubVars
  <2>2. Sharing => Hub!Next
    BY DEF Sharing
  <2>3. Init => Hub!Init
    BY DEF Init
  <2> QED
    BY <2>1, <2>2, <2>3, ServicesMoves
<1>6. (Init => Set!Init) /\ ([Next]_vars => [Set!Next]_(Set!setupVars))
  <2>1. UNCHANGED setupVars => UNCHANGED Set!setupVars
    BY DEF setupVars, Set!setupVars
  <2>2. Moding \/ Stepping \/ Planning => Set!Next
    BY DEF Moding, Stepping, Planning, Set!Next
  <2>3. Init => Set!Init
    BY DEF Init
  <2> QED
    BY <2>1, <2>2, <2>3, ServicesMoves
<1>7. (Init => Cat!Init) /\ ([Next]_vars => [Cat!Next]_(Cat!catalogueVars))
  <2>1. UNCHANGED catalogueVars => UNCHANGED Cat!catalogueVars
    BY DEF catalogueVars, Cat!catalogueVars
  <2>2. Listing \/ Grouping \/ Linking => Cat!Next
    BY DEF Listing, Grouping, Linking, Cat!Next
  <2>3. Init => Cat!Init
    BY DEF Init
  <2> QED
    BY <2>1, <2>2, <2>3, ServicesMoves
<1>8. (Init => Saas!Init) /\ ([Next]_vars => [Saas!Next]_(Saas!saasVars))
  <2>1. UNCHANGED saasVars => UNCHANGED Saas!saasVars
    BY DEF saasVars, Saas!saasVars
  <2>2. Billing \/ Subscribing \/ Referring => Saas!Next
    BY DEF Billing, Subscribing, Referring, Saas!Next
  <2>3. Init => Saas!Init
    BY DEF Init
  <2> QED
    BY <2>1, <2>2, <2>3, ServicesMoves
<1>9. (Init => Scr!Init) /\ ([Next]_vars => [Scr!Next]_(Scr!screenVars))
  <2>1. UNCHANGED screenVars => UNCHANGED Scr!screenVars
    BY DEF screenVars, Scr!screenVars
  <2>2. Screening \/ Analyzing => Scr!Next
    BY DEF Screening, Analyzing, Scr!Next
  <2>3. Init => Scr!Init
    BY DEF Init
  <2> QED
    BY <2>1, <2>2, <2>3, ServicesMoves
<1> QED
  BY <1>1, <1>2, <1>3, <1>4, <1>5, <1>6, <1>7, <1>8, <1>9, PTL
     DEF Spec, Rec!Spec, Risk!Spec, Bus!Spec, St!Spec, Hub!Spec, Set!Spec, Cat!Spec, Saas!Spec,
         Scr!Spec

(* The services side by side, as the run composes them: each of the twelve *)
(* invariants and the action property holds, for every value of the        *)
(* constants ConstantsAssumption allows.                                   *)
THEOREM ServicesComposed ==
  ASSUME NoPos \notin OrderState
  PROVE  Spec => /\ []BusCovers /\ []CacheCurrent /\ []StreamsServed
                 /\ []OneFeedPerStream /\ []BooksBalance /\ GateHolds /\ []SaasBooks
                 /\ []ReplayedOnce /\ []GridAgrees /\ []OneOfEach
                 /\ []ThresholdsJustified /\ []SetupSound
<1>1. ScreenAssumption /\ SetupAssumption
  BY ConstantsAssumption
<1>2. ServiceAssumption /\ Quote \subseteq Int
  BY ConstantsAssumption DEF ServiceAssumption
<1> QED
  BY <1>1, <1>2, ServicesSpecs, BusReachesSubscribers, ModesStayCurrent, CallbacksAreFed,
     ConsumersShareOneFeed, BooksAlwaysBalance, ChecksHold, QueueReplaysOnce,
     ReconciledGridAgrees, RowsAreOneOfEach, LedgersAgree, StoredThresholdsJustified,
     SetupStaysSound, PTL DEF ServiceAssumption
=============================================================================
