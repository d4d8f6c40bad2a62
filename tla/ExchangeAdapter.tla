--------------------------- MODULE ExchangeAdapter ---------------------------
(***************************************************************************)
(* The five adapters of src/backend/exchanges/adapters over HttpClient and *)
(* RetryPolicy: which requests a call makes, which answers are retried,    *)
(* how a refusal becomes an exception and an answer an OrderResult.  The   *)
(* exchange is external: a request it never answers may have been carried  *)
(* out.  Binance and MEXC refuse with a 4xx status, as _raise_for_status   *)
(* assumes; Bybit and OKX also with a code, Hyperliquid with a status of   *)
(* the whole action or of an order, in the body of a 200.                  *)
(***************************************************************************)
EXTENDS Naturals, Sequences, FiniteSets, FiniteSetsExt

CONSTANTS
  Tries,      \* max_retries of the adapters' RetryPolicy
  Ticket      \* bound: the orders the exchange can create, 1 .. n

VARIABLES
  venue,      \* the adapter ExchangeFactory.create made, or "none"
  keys,       \* credentials of the authenticator: none | good | bad
  skewed,     \* the local clock is off by more than recv_window
  cached,     \* _exchange_info is not None
  exchBook,   \* the exchange's orders
  call,       \* the call under way
  reply       \* how the last call ended

exVars == <<venue, keys, skewed, cached, exchBook, call, reply>>

(* Answers that refuse a request, and what _raise_for_status raises. *)
Refusal == {"rate", "ban", "drift", "auth", "unknown", "balance", "symbol", "other"}

BinanceRaises ==
  [rate |-> "RateLimit", ban |-> "RateLimit", drift |-> "TimestampDrift",
   auth |-> "Authentication", unknown |-> "OrderNotFound",
   balance |-> "InsufficientBalance", symbol |-> "SymbolNotSupported",
   other |-> "Exchange", server |-> "Connection"]
BybitRaises == [BinanceRaises EXCEPT !.ban = "Exchange", !.drift = "Exchange"]
OkxRaises   == [BinanceRaises EXCEPT !.ban = "Exchange", !.drift = "Exchange"]
MexcRaises  == [BinanceRaises EXCEPT !.ban = "Exchange", !.drift = "Exchange"]
HyperliquidRaises ==
  [k \in Refusal \cup {"server"} |->
     CASE k = "rate" -> "RateLimit" [] k = "auth" -> "Authentication"
       [] k = "server" -> "Connection" [] OTHER -> "Exchange"]
Raises ==
  [binance |-> BinanceRaises, bybit |-> BybitRaises, okx |-> OkxRaises,
   hyperliquid |-> HyperliquidRaises, mexc |-> MexcRaises]

(* Mutant: PENDING_CANCEL read as the end of the order. *)
BinanceStatusEarly(w) ==
  CASE w = "NEW" -> "open" [] w = "PARTIALLY_FILLED" -> "partially_filled"
    [] w = "FILLED" -> "filled" [] w = "CANCELED" -> "cancelled"
    [] w = "PENDING_CANCEL" -> "cancelled" [] w = "REJECTED" -> "rejected"
    [] w = "EXPIRED" -> "expired" [] OTHER -> w

(* _map_order_status: the status of an exchange's word for an order. *)
BinanceStatus(w) ==
  CASE w = "NEW" -> "open" [] w = "PARTIALLY_FILLED" -> "partially_filled"
    [] w = "FILLED" -> "filled" [] w = "CANCELED" -> "cancelled"
    [] w = "PENDING_CANCEL" -> "pending" [] w = "REJECTED" -> "rejected"
    [] w = "EXPIRED" -> "expired" [] OTHER -> w
MexcStatus(w) ==
  CASE w = "NEW" -> "open" [] w = "PARTIALLY_FILLED" -> "partially_filled"
    [] w = "FILLED" -> "filled" [] w = "CANCELED" -> "cancelled"
    [] w = "REJECTED" -> "rejected" [] w = "EXPIRED" -> "expired" [] OTHER -> w
BybitStatus(w) ==
  CASE w \in {"New", "Triggered"} -> "open" [] w = "PartiallyFilled" -> "partially_filled"
    [] w = "Filled" -> "filled" [] w \in {"Cancelled", "Deactivated"} -> "cancelled"
    [] w = "Rejected" -> "rejected" [] w = "Untriggered" -> "pending" [] OTHER -> w
OkxStatus(w) ==
  CASE w = "live" -> "open" [] w = "partially_filled" -> "partially_filled"
    [] w = "filled" -> "filled" [] w \in {"canceled", "mmp_canceled"} -> "cancelled"
    [] OTHER -> w

Status(v, w) ==
  CASE v = "binance" -> BinanceStatus(w) [] v = "mexc" -> MexcStatus(w)
    [] v = "bybit" -> BybitStatus(w) [] v = "okx" -> OkxStatus(w)

(* The words an exchange has for an order that works, is being cancelled,  *)
(* has filled or is over without; only Binance is known to be still at     *)
(* work on a cancel it answers.                                            *)
Words ==
  [binance |-> [live |-> {"NEW", "PARTIALLY_FILLED"}, cancelling |-> {"PENDING_CANCEL"},
                filled |-> {"FILLED"}, cancelled |-> {"CANCELED", "EXPIRED"}],
   mexc    |-> [live |-> {"NEW", "PARTIALLY_FILLED"}, filled |-> {"FILLED"},
                cancelled |-> {"CANCELED", "EXPIRED"}],
   bybit   |-> [live |-> {"New", "PartiallyFilled", "Untriggered", "Triggered"},
                filled |-> {"Filled"}, cancelled |-> {"Cancelled", "Deactivated", "Rejected"}],
   okx     |-> [live |-> {"live", "partially_filled"}, filled |-> {"filled"},
                cancelled |-> {"canceled", "mmp_canceled"}]]

(* The requests of authenticate and health_check, in order.  What the      *)
(* calls that open and close streams do is in ExchangeStreams.             *)
BinanceLifecycle == [authenticate |-> <<"time", "account">>, health_check |-> <<"time">>]
BybitLifecycle   == [authenticate |-> <<"account">>, health_check |-> <<"time">>]
OkxLifecycle     == BybitLifecycle
HyperliquidLifecycle == [authenticate |-> <<"account">>, health_check |-> <<"meta">>]
MexcLifecycle    == BybitLifecycle

(* The requests of the reads; "info" is answered from _exchange_info when  *)
(* it is there, and "meta" is asked every time.                            *)
BinanceReads ==
  [get_account |-> <<"account">>, get_balance |-> <<"account">>, get_positions |-> <<>>,
   get_symbol_info |-> <<"info">>, get_exchange_info |-> <<"info">>,
   get_ticker |-> <<"public", "public">>, get_order_book |-> <<"public">>,
   get_candles |-> <<"public">>, get_trades |-> <<"public">>]
BybitReads ==
  [BinanceReads EXCEPT !.get_positions = <<"account">>, !.get_ticker = <<"public">>]
OkxReads == [BybitReads EXCEPT !.get_positions = <<"account">>]
MexcReads == BinanceReads
HyperliquidReads ==
  [BinanceReads EXCEPT !.get_balance = <<"account", "account">>, !.get_positions = <<"account">>,
     !.get_symbol_info = <<"meta">>, !.get_exchange_info = <<"meta">>]

(* The requests of the order calls; after "list" every open order is       *)
(* cancelled on its own.                                                   *)
BinanceOrders ==
  [place_order |-> <<"new">>, cancel_order |-> <<"cancel">>, cancel_all |-> <<"list">>,
   cancel_symbol |-> <<"all">>, get_order |-> <<"one">>, get_open_orders |-> <<"open">>]
MexcOrders  == BinanceOrders
BybitOrders == [BinanceOrders EXCEPT !.cancel_all = <<"all">>]
OkxOrders   == [BinanceOrders EXCEPT !.cancel_all = <<"all">>]
HyperliquidOrders ==
  [BinanceOrders EXCEPT !.cancel_symbol = <<"list">>, !.get_order = <<"open">>]

Lifecycle == [binance |-> BinanceLifecycle, bybit |-> BybitLifecycle, okx |-> OkxLifecycle,
              hyperliquid |-> HyperliquidLifecycle, mexc |-> MexcLifecycle]
Reads     == [binance |-> BinanceReads, bybit |-> BybitReads, okx |-> OkxReads,
              hyperliquid |-> HyperliquidReads, mexc |-> MexcReads]
OrderCalls == [binance |-> BinanceOrders, bybit |-> BybitOrders, okx |-> OkxOrders,
               hyperliquid |-> HyperliquidOrders, mexc |-> MexcOrders]
Signed == {"account", "new", "cancel", "all", "list", "open", "one"}

Idle ==
  [op |-> "idle", todo |-> <<>>, at |-> 0, rest |-> {}, on |-> {}, key |-> "none",
   try |-> 1, round |-> 1, made |-> 0, lost |-> 0]
NoReply == [op |-> "idle", result |-> "none", at |-> 0, on |-> {}, made |-> 0, lost |-> 0,
            unread |-> FALSE]

Init ==
  /\ venue = "none" /\ keys = "none" /\ skewed = FALSE /\ cached = FALSE
  /\ exchBook = [t \in Ticket |-> "none"] /\ call = Idle /\ reply = NoReply

-----------------------------------------------------------------------------
In(s)   == {t \in Ticket : exchBook[t] = s}
Working == In("live") \cup In("cancelling")

(* ExchangeFactory.create and initialize. *)
Create(v) ==
  /\ venue = "none"
  /\ venue' = v
  /\ UNCHANGED <<keys, skewed, cached, exchBook, call, reply>>

Needed(requests) ==
  IF cached THEN SelectSeq(requests, LAMBDA q : q # "info") ELSE requests

Starts(fresh) ==
  /\ venue # "none" /\ call.op = "idle" /\ fresh.todo # <<>>
  /\ call' = fresh /\ reply' = NoReply
  /\ UNCHANGED <<venue, skewed, cached, exchBook>>

(* Binance sets the credentials after its clock is synchronised, the       *)
(* others before the exchange has seen them; they are not taken back.      *)
Authenticate(k) ==
  /\ keys # "good"
  /\ Starts([Idle EXCEPT !.op = "authenticate", !.key = k,
                         !.todo = Lifecycle[venue].authenticate])
  /\ keys' = IF venue = "binance" THEN keys ELSE k

HealthCheck ==
  /\ Starts([Idle EXCEPT !.op = "health_check", !.todo = Lifecycle[venue].health_check])
  /\ UNCHANGED keys

Read == \E op \in DOMAIN BinanceReads :
  /\ Starts([Idle EXCEPT !.op = op, !.todo = Needed(Reads[venue][op])])
  /\ UNCHANGED keys

PlaceOrder ==
  /\ Starts([Idle EXCEPT !.op = "place_order", !.todo = OrderCalls[venue].place_order])
  /\ UNCHANGED keys

OnOrder == \E op \in {"cancel_order", "get_order"}, t \in Ticket \ In("none") :
  /\ Starts([Idle EXCEPT !.op = op, !.at = t, !.todo = OrderCalls[venue][op]])
  /\ UNCHANGED keys

(* cancel_all with or without a symbol, get_open_orders. *)
OnOrders == \E op \in {"cancel_all", "cancel_symbol", "get_open_orders"} :
  /\ Starts([Idle EXCEPT !.op = op, !.on = Working, !.todo = OrderCalls[venue][op]])
  /\ UNCHANGED keys

-----------------------------------------------------------------------------
(* One HTTP request: what becomes of it.                                   *)

NextRequest == Head(call.todo)
Locked == venue # "hyperliquid" /\ NextRequest \in Signed
Broken == {"server", "gateway", "timeout", "network"}

(* Answers with a status below 400, which the adapters go on with: the     *)
(* request was carried out, Hyperliquid refused the whole action, or the   *)
(* body alone tells that it was not carried out or found nothing.          *)
Answer == {"ok", "err", "body"}
Outcome == Answer \cup Refusal \cup Broken

Accepted == Locked => keys = "good" /\ ~skewed

(* The exchange carries the request out. *)
Effect ==
  \/ /\ NextRequest = "new"
     /\ \E t \in In("none"), s \in {"live", "filled", "cancelled"} :
          exchBook' = [exchBook EXCEPT ![t] = s]
  \/ /\ NextRequest = "cancel" /\ call.at \in Working
     /\ \E s \in {"cancelled", "cancelling"} :
          /\ s = "cancelling" => venue = "binance"
          /\ exchBook' = [exchBook EXCEPT ![call.at] = s]
  \/ /\ NextRequest = "all"
     /\ exchBook' = [t \in Ticket |-> IF t \in Working THEN "cancelled" ELSE exchBook[t]]
  \/ NextRequest \notin {"new", "cancel", "all"} /\ UNCHANGED exchBook

Refuses(k) ==
  CASE k = "drift"   -> Locked /\ skewed
    [] k = "auth"    -> Locked /\ keys = "bad"
    [] k = "unknown" -> Locked /\ NextRequest = "cancel" /\ call.at \notin Working
    [] k = "balance" -> NextRequest = "new"
    [] k = "err"     -> venue = "hyperliquid" /\ NextRequest \in {"new", "cancel"}
    [] k = "body"    -> venue \in {"bybit", "okx"}
                        \/ (venue = "hyperliquid" /\ NextRequest \in {"new", "cancel"})
    [] OTHER         -> k \in Refusal

Happens(k) ==
  \/ k \in Broken \cup {"ok"} /\ Accepted /\ Effect
  \/ k \in Broken /\ UNCHANGED exchBook
  \/ Refuses(k) /\ UNCHANGED exchBook

Created == {t \in In("none") : exchBook'[t] # "none"}

(* Mutant: the early return is dropped and answers are retried too. *)
RetriedToo(k) == k \notin Refusal \cup {"gateway"} /\ call.try < Tries

(* HttpClient.request: answers below 500 are returned at once, a 5xx that  *)
(* is not in the policy's set too.                                         *)
Retried(k) == k \in {"server", "timeout", "network"} /\ call.try < Tries

Error(k) ==
  CASE k = "timeout" -> "Timeout"
    [] k = "network" -> "Connection"
    [] k = "gateway" -> Raises[venue].server
    [] OTHER         -> Raises[venue][k]

(* _signed_request of Binance: once, after its clock was synchronised. *)
Resends(k) == venue = "binance" /\ Locked /\ call.round = 1 /\ Error(k) = "TimestampDrift"

(* What _order_result makes of the answer.  Bybit and OKX report what was  *)
(* asked, not what was done, and Hyperliquid's cancel does not look at its *)
(* answer.  A Hyperliquid list arrives as a dict: AttributeError.  What is *)
(* not in the body of a read is not found.                                 *)
Reported(state) == {Status(venue, w) : w \in Words[venue][state]}

Unread(k) == k = "body" \/ (k = "err" /\ call.op = "cancel_order")

NotFound ==
  CASE call.op = "get_order" -> "OrderNotFound"
    [] call.op \in {"get_symbol_info", "get_ticker"} -> "SymbolNotSupported"
    [] call.op = "get_order_book" /\ venue = "okx" -> "SymbolNotSupported"
    [] OTHER -> "done"

Result(k, order) ==
  CASE call.op = "place_order" ->
         IF k = "err" THEN {"rejected"}
         ELSE IF venue \in {"binance", "mexc"} THEN Reported(exchBook'[order]) ELSE {"open"}
    [] call.op = "cancel_order" ->
         IF venue \in {"binance", "mexc"} THEN Reported(exchBook'[order])
         ELSE {IF venue = "bybit" THEN "open" ELSE "cancelled"}
    [] OTHER ->
         IF NextRequest \in {"open", "list"} /\ venue = "hyperliquid" THEN {"AttributeError"}
         ELSE IF k = "body" THEN {NotFound}
         ELSE IF call.op = "get_order" THEN Reported(exchBook[order]) ELSE {"done"}

Ends(result, order, lost, unread) ==
  /\ call' = Idle
  /\ reply' = [op |-> call.op, at |-> order, on |-> call.on, lost |-> lost,
               unread |-> unread, result |-> result, made |-> call.made + Cardinality(Created)]

Sendable == call.op # "idle" /\ (Locked => keys # "none")

Retry(k) ==
  /\ Sendable /\ Happens(k) /\ Retried(k)
  /\ call' = [call EXCEPT !.try = @ + 1, !.made = @ + Cardinality(Created),
                          !.lost = @ + IF k \in Broken THEN Cardinality(Created) ELSE 0]
  /\ UNCHANGED <<venue, keys, skewed, cached, reply>>

Fails(k) ==
  /\ Sendable /\ k \in Refusal \cup Broken
  /\ Happens(k) /\ ~Retried(k)
  /\ IF Resends(k)
     THEN call' = [call EXCEPT !.todo = <<"time">> \o @, !.try = 1, !.round = 2]
          /\ UNCHANGED reply
     ELSE Ends(IF call.op = "health_check" THEN "unhealthy" ELSE Error(k), call.at,
               call.lost + Cardinality(Created), FALSE)
  /\ UNCHANGED <<venue, keys, skewed, cached>>

(* The side effects of an answer: the clock offset, Binance's credentials, *)
(* _exchange_info, a body without one included.                            *)
Notes ==
  /\ skewed' = (skewed /\ ~(venue = "binance" /\ NextRequest = "time"))
  /\ keys' = IF venue = "binance" /\ call.op = "authenticate" /\ NextRequest = "time"
             THEN call.key ELSE keys
  /\ cached' = (cached \/ NextRequest = "info")

(* More requests follow: the rest of the call, or the cancels of the open  *)
(* orders a list returned.                                                 *)
Continues ==
  /\ Sendable /\ Happens("ok") /\ ~Retried("ok") /\ Notes
  /\ LET rest == IF NextRequest = "list" /\ venue # "hyperliquid" THEN Working ELSE call.rest IN
     \/ /\ Len(call.todo) > 1
        /\ call' = [call EXCEPT !.todo = Tail(@), !.try = 1]
     \/ /\ Len(call.todo) = 1 /\ rest # {}
        /\ call' = [call EXCEPT !.todo = <<"cancel">>, !.at = Max(rest), !.try = 1, !.round = 1,
                                !.rest = rest \ {Max(rest)}]
  /\ UNCHANGED <<venue, reply>>

Completes(k) ==
  /\ Sendable /\ k \in Answer
  /\ Happens(k) /\ ~Retried(k) /\ Notes
  /\ Len(call.todo) = 1 /\ call.rest = {}
  /\ NextRequest = "list" => venue = "hyperliquid" \/ Working = {}
  /\ LET order == IF Created = {} THEN call.at ELSE Max(Created) IN
     \E result \in Result(k, order) : Ends(result, order, call.lost, Unread(k))
  /\ UNCHANGED venue

(* _ensure_authenticated, before anything is sent. *)
Unauthenticated ==
  /\ call.op # "idle" /\ Locked /\ keys = "none"
  /\ UNCHANGED <<venue, keys, skewed, cached, exchBook>>
  /\ Ends(IF call.op = "health_check" THEN "unhealthy" ELSE "Authentication", call.at,
          call.lost, FALSE)

-----------------------------------------------------------------------------
Fills(t) ==
  /\ \/ exchBook[t] = "live" /\ exchBook' = [exchBook EXCEPT ![t] = "filled"]
     \/ exchBook[t] = "cancelling" /\ \E s \in {"filled", "cancelled"} : exchBook' = [exchBook EXCEPT ![t] = s]
  /\ UNCHANGED <<venue, keys, skewed, cached, call, reply>>

ClockMoves ==
  /\ venue # "none"
  /\ skewed' = ~skewed
  /\ UNCHANGED <<venue, keys, cached, exchBook, call, reply>>

Next ==
  \/ \E v \in DOMAIN Raises : Create(v)
  \/ \E k \in {"good", "bad"} : Authenticate(k)
  \/ HealthCheck \/ Read \/ PlaceOrder \/ OnOrder \/ OnOrders
  \/ \E k \in Outcome : Retry(k) \/ Fails(k) \/ Completes(k)
  \/ Continues \/ Unauthenticated
  \/ \E t \in Ticket : Fills(t)
  \/ ClockMoves
Spec == Init /\ [][Next]_exVars

-----------------------------------------------------------------------------
(* What a call reports as over is over on the exchange, and what it        *)
(* reports as filled is filled; a cancel_all that returns leaves none of   *)
(* the orders that were open when it began working as before.  Left out is *)
(* the call whose answer carried a refusal the adapter does not read,      *)
(* which only Bybit, OKX and Hyperliquid send.                             *)
HonestAnswer ==
  /\ reply.unread => venue \in {"bybit", "okx", "hyperliquid"}
  /\ reply.result \in {"cancelled", "expired", "rejected"} /\ ~reply.unread =>
       reply.at \notin Working
  /\ reply.result = "filled" => exchBook[reply.at] = "filled"
  /\ reply.op \in {"cancel_all", "cancel_symbol"} /\ reply.result = "done" /\ ~reply.unread =>
       reply.on \cap In("live") = {}

(* place_order creates the order it reports and no other, through retries  *)
(* and the resend after a clock synchronisation, except for the requests   *)
(* whose answer was lost: those it reports as an error or not at all.  A   *)
(* refusal it does not read it reports as an open order, and creates none. *)
NoUnexplainedOrder ==
  reply.op = "place_order" =>
    reply.made = reply.lost +
      IF reply.result \in {"open", "partially_filled", "filled", "cancelled", "expired"}
           /\ ~reply.unread THEN 1 ELSE 0
=============================================================================
