------------------------------ MODULE RedisBus ------------------------------
(***************************************************************************)
(* src/backend/events/redis_event_bus.py: RedisEventBus, its one listener  *)
(* task and the request/response futures.  A coroutine runs up to its next *)
(* await on Redis; other calls come in between.  The pubsub connection is  *)
(* external: it may break at any time, and a fresh one has no              *)
(* subscriptions.  What a handler does with a message is left out; once    *)
(* close has shut the executor down the bus runs no handler at all.        *)
(***************************************************************************)
EXTENDS Naturals, FiniteSets

CONSTANTS
  Topic,      \* channels handlers subscribe to
  Request,    \* request ids, each with a response channel of its own
  MaxConns    \* bound: pubsub connections made, and closes under way

VARIABLES
  handlers,   \* DOMAIN of subscriptions
  listener,   \* none | created | joining | listening | asleep | ended
  conn,       \* self.pubsub, by its number; 0 is None
  conns,      \* pubsub objects made so far; the listener's is the last
  closing,    \* calls of close that await pubsub.close()
  remote,     \* channels Redis delivers on the listener's pubsub
  joining,    \* channels the listener's own subscribe names
  sending,    \* subscribe commands under way: channel and pubsub
  missed,     \* history: channels whose last subscribe raised, or found
              \* no pubsub while the listener had one
  waiters,    \* keys of response_waiters
  asked       \* where a request stands

busVars == <<handlers, listener, conn, conns, closing, remote, joining, sending,
            missed, waiters, asked>>

Init ==
  /\ handlers = {} /\ listener = "none"
  /\ conn = 0 /\ conns = 0 /\ closing = 0 /\ remote = {} /\ joining = {} /\ sending = {}
  /\ missed = {}
  /\ waiters = {} /\ asked = [r \in Request |-> "idle"]

-----------------------------------------------------------------------------
Ensured == IF listener = "none" THEN "created" ELSE listener

(* subscribe: the handler is stored first; the pubsub may not exist yet.   *)
(* unsubscribe never matches a subscription id and changes nothing.        *)
Subscribe(c) ==
  /\ handlers' = handlers \cup {c}
  /\ listener' = Ensured
  /\ sending' = IF conn = 0 THEN sending ELSE sending \cup {<<c, conn>>}
  /\ missed' = IF conn = 0 /\ listener = "listening" THEN missed \cup {c} ELSE missed \ {c}
  /\ UNCHANGED <<conn, conns, closing, remote, joining, waiters, asked>>

(* The command of a subscribe or a request reaches Redis, on the pubsub it *)
(* was given; the listener's may be another by now.                        *)
Sent(c) == \E k \in 1..MaxConns :
  /\ <<c, k>> \in sending
  /\ sending' = sending \ {<<c, k>>}
  /\ remote' = IF k = conns THEN remote \cup {c} ELSE remote
  /\ asked' = IF c \in Request /\ asked[c] = "subscribing"
              THEN [asked EXCEPT ![c] = "publishing"] ELSE asked
  /\ UNCHANGED <<handlers, listener, conn, conns, closing, joining, missed,
                 waiters>>

(* The command raises EventError, or its caller is cancelled; what was     *)
(* stored before it stays.                                                 *)
SendRaises(c) == \E k \in 1..MaxConns :
  /\ <<c, k>> \in sending
  /\ sending' = sending \ {<<c, k>>}
  /\ asked' = IF c \in Request /\ asked[c] = "subscribing"
              THEN [asked EXCEPT ![c] = "raised"] ELSE asked
  /\ missed' = missed \cup {c}
  /\ UNCHANGED <<handlers, listener, conn, conns, closing, remote, joining,
                 waiters>>

-----------------------------------------------------------------------------
(* Mutant: a restarted listener joins what the last one had joined. *)
SameChannels == joining
AllChannels  == handlers

(* _listen_events up to its first await: a new pubsub, and the channels    *)
(* subscribed to at this moment.  With none, listen() returns at once and  *)
(* the finished task is never replaced.                                    *)
ListenerStarts ==
  /\ listener = "created" /\ conns < MaxConns
  /\ conn' = conns + 1 /\ conns' = conns + 1 /\ remote' = {}
  /\ joining' = AllChannels
  /\ listener' = IF handlers = {} THEN "ended" ELSE "joining"
  /\ UNCHANGED <<handlers, closing, sending, missed, waiters, asked>>

(* A close that returned meanwhile has left no pubsub to listen to.        *)
ListenerJoins ==
  /\ listener = "joining" /\ conn # 0
  /\ remote' = remote \cup joining
  /\ listener' = "listening" /\ missed' = missed \ joining
  /\ UNCHANGED <<handlers, conn, conns, closing, joining, sending, waiters, asked>>

ListenerBreaks ==
  /\ listener \in {"joining", "listening"}
  /\ listener' = "asleep" /\ remote' = {}
  /\ UNCHANGED <<handlers, conn, conns, closing, joining, sending, missed,
                 waiters, asked>>

ListenerWakes ==
  /\ listener = "asleep"
  /\ listener' = "created"
  /\ UNCHANGED <<handlers, conn, conns, closing, remote, joining, sending,
                 missed, waiters, asked>>

(* close cancels the listener, keeps the handlers and, if there is a       *)
(* pubsub, awaits its close.  Redis itself is closed after that; a later   *)
(* call opens it again.                                                    *)
Close ==
  /\ listener # "none" \/ conn # 0
  /\ closing < MaxConns
  /\ listener' = "none" /\ remote' = {}
  /\ closing' = IF conn = 0 THEN closing ELSE closing + 1
  /\ UNCHANGED <<handlers, conn, conns, joining, sending, missed, waiters, asked>>

(* The pubsub is closed, or closing it raised; self.pubsub may by now be   *)
(* another, that of a listener started since, which goes on listening.     *)
CloseReturns ==
  /\ closing > 0 /\ closing' = closing - 1
  /\ conn' \in {0, conn}
  /\ UNCHANGED <<handlers, listener, conns, remote, joining, sending, missed,
                 waiters, asked>>

-----------------------------------------------------------------------------
AskFor(r) ==
  /\ asked[r] = "idle"
  /\ waiters' = waiters \cup {r}
  /\ listener' = Ensured
  /\ IF conn = 0
     THEN asked' = [asked EXCEPT ![r] = "publishing"] /\ UNCHANGED sending
     ELSE asked' = [asked EXCEPT ![r] = "subscribing"] /\ sending' = sending \cup {<<r, conn>>}
  /\ UNCHANGED <<handlers, conn, conns, closing, remote, joining, missed>>

Publishes(r) ==
  /\ asked[r] = "publishing"
  /\ \E outcome \in {"waiting", "raised"} : asked' = [asked EXCEPT ![r] = outcome]
  /\ UNCHANGED <<handlers, listener, conn, conns, closing, remote, joining,
                 sending, missed, waiters>>

(* _handle_message of a responder's answer, also one that comes late. *)
Answer(r) ==
  /\ listener = "listening" /\ r \in remote /\ asked[r] \notin {"idle", "subscribing"}
  /\ r \in waiters
  /\ waiters' = waiters \ {r}
  /\ asked' = IF asked[r] = "waiting" THEN [asked EXCEPT ![r] = "answered"] ELSE asked
  /\ UNCHANGED <<handlers, listener, conn, conns, closing, remote, joining,
                 sending, missed>>

DropWaiter(r) == waiters \ {r}

TimesOut(r) ==
  /\ asked[r] = "waiting"
  /\ asked' = [asked EXCEPT ![r] = "timed_out"]
  /\ waiters' = DropWaiter(r)
  /\ UNCHANGED <<handlers, listener, conn, conns, closing, remote, joining,
                 sending, missed>>

(* The caller is cancelled: the future stays where it is. *)
RequestCancelled(r) ==
  /\ asked[r] \in {"subscribing", "publishing", "waiting"}
  /\ asked' = [asked EXCEPT ![r] = "cancelled"]
  /\ UNCHANGED <<handlers, listener, conn, conns, closing, remote, joining, sending,
                 missed, waiters>>

Next ==
  \/ \E c \in Topic : Subscribe(c)
  \/ \E c \in Topic \cup Request : Sent(c) \/ SendRaises(c)
  \/ ListenerStarts \/ ListenerJoins \/ ListenerBreaks \/ ListenerWakes
  \/ Close \/ CloseReturns
  \/ \E r \in Request : \/ AskFor(r) \/ Publishes(r) \/ Answer(r) \/ TimesOut(r)
                         \/ RequestCancelled(r)
Spec == Init /\ [][Next]_busVars

-----------------------------------------------------------------------------
(* A listening bus gets every channel somebody subscribed to, however      *)
(* subscriptions, broken connections, restarts and closes interleave,      *)
(* unless the subscriber's own command is under way or raised, or came     *)
(* after a close that a new listener overlapped had dropped its pubsub;    *)
(* and a future waits only for a request that may still be answered, or    *)
(* one whose publication raised or whose caller was cancelled.             *)
BusCovers ==
  /\ listener = "listening" =>
       \A c \in handlers \ (remote \cup missed) : <<c, conns>> \in sending
  /\ \A r \in waiters : asked[r] \in {"subscribing", "publishing", "waiting", "raised", "cancelled"}
=============================================================================
