--------------------------- MODULE CircuitBreaker ---------------------------
(***************************************************************************)
(* src/backend/engine/grid/circuit_breaker.py: the daily drop circuit      *)
(* breaker of one grid, as operators on the breaker record.  Every method  *)
(* is synchronous, so the grid engine applies these inside one step.       *)
(*                                                                         *)
(* Percentages are compared without division: a drop of d percent from     *)
(* open to p is (open - p) * 100 >= d * open, exactly as with Decimals.    *)
(***************************************************************************)
EXTENDS Naturals

CONSTANTS
  Price,       \* the prices the market may quote
  Threshold,   \* critical_threshold, in percent
  Recovery     \* recovery_pct, in percent

ASSUME PriceAssumption   == Price \subseteq Nat \ {0}
ASSUME PercentAssumption == Threshold \in Nat /\ Recovery \in Nat

(* "none" stands for a grid on which no breaker was installed. *)
ResumeMode == {"ta_confirm", "widen_step", "trailing_buy"}
NoPrice == 0
NoDate  == 0

Breaker(dates) ==
  [mode : ResumeMode \cup {"none"}, triggered : BOOLEAN, date : dates \cup {NoDate},
   open : Price \cup {NoPrice}, bottom : Price \cup {NoPrice}]

NewBreaker(mode, open) ==
  [mode |-> mode, triggered |-> FALSE, date |-> NoDate, open |-> open, bottom |-> NoPrice]

(* Mutant: the rollover forgets to clear triggered. *)
CheckNewDayStays(b, price, today) ==
  IF b.date = today THEN b
  ELSE IF b.date = NoDate
       THEN [b EXCEPT !.date = today, !.open = IF b.open = NoPrice THEN price ELSE b.open]
       ELSE [b EXCEPT !.date = today, !.open = price, !.bottom = NoPrice]

(* The first update after configuration only dates the breaker; a genuine  *)
(* new day clears it and takes the price as the day's open.                *)
CheckNewDay(b, price, today) ==
  IF b.date = today THEN b
  ELSE IF b.date = NoDate
       THEN [b EXCEPT !.date = today, !.open = IF b.open = NoPrice THEN price ELSE b.open]
       ELSE [b EXCEPT !.date = today, !.open = price,
                      !.triggered = FALSE, !.bottom = NoPrice]

Dropped(b, price) == price <= b.open /\ (b.open - price) * 100 >= Threshold * b.open

ShouldTrigger(b, price) ==
  ~b.triggered /\ IF b.open = NoPrice THEN Threshold = 0 ELSE Dropped(b, price)

Trigger(b, price) == [b EXCEPT !.triggered = TRUE, !.bottom = price]

UpdateBottom(b, price) ==
  IF b.triggered /\ (b.bottom = NoPrice \/ price < b.bottom)
  THEN [b EXCEPT !.bottom = price] ELSE b

ShouldResumeTrailing(b, price) ==
  b.triggered /\ b.bottom # NoPrice /\ price * 100 >= b.bottom * (100 + Recovery)

(* reset leaves open and bottom: a later update that is still below the    *)
(* threshold triggers the breaker again.                                   *)
Reset(b) == [b EXCEPT !.triggered = FALSE]
=============================================================================
