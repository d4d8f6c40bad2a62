------------------------------ MODULE RiskGate ------------------------------
(***************************************************************************)
(* src/backend/engine/risk: RiskManager asks, PortfolioManager books, and  *)
(* ExposureManager, PortfolioMetrics and PositionAggregator add up.  An    *)
(* order is checked, travels, and is booked when its fill arrives; prices  *)
(* and other fills may come in between.  One exchange and one account.     *)
(***************************************************************************)
EXTENDS Integers, FiniteSets, FiniteSetsExt

CONSTANTS
  Trader,       \* trading instances
  Coin,         \* symbols
  Lot,          \* order quantities
  Quote,        \* prices
  MaxNotional,  \* max_position_size
  MaxPerCoin,   \* max_exposure_per_symbol
  MaxTotal,     \* max_exposure_per_exchange
  MaxOpen,      \* max_open_positions
  MaxFills,     \* bound: orders that may be allowed
  NoPos         \* no position, no order

VARIABLES
  position,     \* PortfolioManager._positions
  cash,         \* history: money the booked fills of a position moved
  price,        \* RiskManager._prices; 0 is unknown
  ordered,      \* the order of an instance that was allowed and not filled
  allowed       \* number of orders allowed

riskVars == <<position, cash, price, ordered, allowed>>

Init ==
  /\ position = [i \in Trader |-> NoPos]
  /\ cash = [i \in Trader |-> 0]
  /\ price = [c \in Coin |-> 0]
  /\ ordered = [i \in Trader |-> NoPos]
  /\ allowed = 0

-----------------------------------------------------------------------------
Booked == {i \in Trader : position[i] # NoPos}

(* ExposureManager and calculate_total_exposure: closed positions count    *)
(* nothing, and a position whose symbol has no price counts at its entry.  *)
Notional(pos, prices) == (IF prices[pos.coin] = 0 THEN pos.entry ELSE prices[pos.coin]) * pos.qty
Open(book)            == {i \in Trader : book[i] # NoPos /\ ~book[i].closed}
OfCoin(book, c)       == {i \in Open(book) : book[i].coin = c}
Exposure(book, S, prices) == MapThenSumSet(LAMBDA i : Notional(book[i], prices), S)

(* Mutant: the order itself is left out of the sum. *)
WithinLimitsBefore(i, c, q, p) ==
  LET prices == [price EXCEPT ![c] = p] IN
  /\ q * p <= MaxNotional
  /\ Exposure(position, OfCoin(position, c), prices) <= MaxPerCoin
  /\ Exposure(position, Open(position), prices) <= MaxTotal
  /\ i \in Booked \/ Cardinality(Booked) < MaxOpen
(* check_order_risk: buys and sells alike add to the exposure. *)
WithinLimits(i, c, q, p) ==
  LET prices == [price EXCEPT ![c] = p] IN
  /\ q * p <= MaxNotional
  /\ Exposure(position, OfCoin(position, c), prices) + q * p <= MaxPerCoin
  /\ Exposure(position, Open(position), prices) + q * p <= MaxTotal
  /\ i \in Booked \/ Cardinality(Booked) < MaxOpen

(* Every order still on its way was checked against other books. *)
Overtaken ==
  [j \in Trader |-> IF ordered[j] = NoPos THEN NoPos ELSE [ordered[j] EXCEPT !.stale = TRUE]]

CheckOrder(i, c, side, q, p) ==
  /\ ordered[i] = NoPos /\ allowed < MaxFills
  /\ i \in Booked => position[i].coin = c
  /\ WithinLimits(i, c, q, p)
  /\ ordered' = [ordered EXCEPT ![i] = [coin |-> c, side |-> side, qty |-> q, price |-> p,
                                        stale |-> FALSE]]
  /\ allowed' = allowed + 1
  /\ UNCHANGED <<position, cash, price>>

-----------------------------------------------------------------------------
Opens(pos, side) == (pos.side = "long") = (side = "buy")
Flow(o) == (IF o.side = "buy" THEN -1 ELSE 1) * o.price * o.qty

(* register_position, for the first fill of an instance. *)
Registered(o) ==
  [coin |-> o.coin, side |-> IF o.side = "buy" THEN "long" ELSE "short", entry |-> o.price,
   qty |-> o.qty, realized |-> 0, closed |-> FALSE]

(* Bound: only fills whose average entry is a whole number. *)
ExactAverage(pos, o) == (pos.entry * pos.qty + o.price * o.qty) % (pos.qty + o.qty) = 0
Increased(pos, o) ==
  [pos EXCEPT !.entry = (pos.entry * pos.qty + o.price * o.qty) \div (pos.qty + o.qty),
              !.qty = @ + o.qty]

(* Mutant: a short's profit has the sign of a long's. *)
GainAsLong(pos, o) == (o.price - pos.entry) * o.qty
Gain(pos, o) ==
  (IF pos.side = "long" THEN o.price - pos.entry ELSE pos.entry - o.price) * o.qty
Reduced(pos, o) ==
  [pos EXCEPT !.realized = @ + Gain(pos, o), !.qty = @ - o.qty, !.closed = (pos.qty = o.qty)]

(* update_position raises for a position that is closed or too small; the  *)
(* fill then goes unbooked.                                                *)
Refused(pos, o) == pos.closed \/ (~Opens(pos, o.side) /\ o.qty > pos.qty)

Fill(i) ==
  LET o == ordered[i]  pos == position[i] IN
  /\ o # NoPos
  /\ \/ /\ pos = NoPos
        /\ position' = [position EXCEPT ![i] = Registered(o)]
        /\ cash' = [cash EXCEPT ![i] = Flow(o)]
     \/ /\ pos # NoPos /\ Refused(pos, o)
        /\ UNCHANGED <<position, cash>>
     \/ /\ pos # NoPos /\ ~Refused(pos, o)
        /\ IF Opens(pos, o.side)
           THEN ExactAverage(pos, o) /\ position' = [position EXCEPT ![i] = Increased(pos, o)]
           ELSE position' = [position EXCEPT ![i] = Reduced(pos, o)]
        /\ cash' = [cash EXCEPT ![i] = @ + Flow(o)]
  /\ ordered' = [Overtaken EXCEPT ![i] = NoPos]
  /\ UNCHANGED <<price, allowed>>

Cancel(i) ==
  /\ ordered[i] # NoPos
  /\ ordered' = [ordered EXCEPT ![i] = NoPos]
  /\ UNCHANGED <<position, cash, price, allowed>>

(* close_position and remove_position both take the entry out. *)
ClosePosition(i) ==
  /\ i \in Booked
  /\ position' = [position EXCEPT ![i] = NoPos]
  /\ cash' = [cash EXCEPT ![i] = 0]
  /\ ordered' = Overtaken
  /\ UNCHANGED <<price, allowed>>

OnPriceUpdate(c, p) ==
  /\ price[c] # p
  /\ price' = [price EXCEPT ![c] = p]
  /\ ordered' = Overtaken
  /\ UNCHANGED <<position, cash, allowed>>

Next ==
  \/ \E i \in Trader, c \in Coin, side \in {"buy", "sell"}, q \in Lot, p \in Quote :
       CheckOrder(i, c, side, q, p)
  \/ \E i \in Trader : Fill(i) \/ Cancel(i) \/ ClosePosition(i)
  \/ \E c \in Coin, p \in Quote : OnPriceUpdate(c, p)
Spec == Init /\ [][Next]_riskVars

-----------------------------------------------------------------------------
(* The books balance for longs and shorts: what a position has realised is *)
(* the money its booked fills moved plus what it still holds at its        *)
(* average entry, and it is closed exactly when it holds nothing.          *)
BooksBalance ==
  \A i \in Booked :
    LET pos == position[i]
        cost == pos.entry * pos.qty
    IN  /\ pos.realized = cash[i] + (IF pos.side = "long" THEN cost ELSE -cost)
        /\ pos.closed <=> pos.qty = 0

(* An order that passed check_order_risk keeps the portfolio within the    *)
(* limits when it fills, unless a price, another fill or a forced close    *)
(* came between the check and the fill.                                    *)
GateHolds ==
  [][\A i \in Trader :
       LET o == ordered[i]
           prices == [price EXCEPT ![o.coin] = o.price]
       IN  o # NoPos /\ ~o.stale /\ ordered'[i] = NoPos /\ position'[i] # position[i] =>
             /\ Exposure(position', OfCoin(position', o.coin), prices) <= MaxPerCoin
             /\ Exposure(position', Open(position'), prices) <= MaxTotal
             /\ i \in Booked \/ Cardinality(Booked') <= MaxOpen]_riskVars
=============================================================================
