-------------------------- MODULE BreakerScreening --------------------------
(***************************************************************************)
(* The thresholds of the daily drop breaker: DailyDropAnalyzer derives one *)
(* from daily closes, CircuitBreakerScreener does so for a list of         *)
(* symbols, BreakerScreeningStore upserts the results and commits once per *)
(* continuation rate.  Passes run at startup and from the admin endpoint,  *)
(* on one table.  A threshold is in tenths of a percent, a rate in         *)
(* percent, a window in units of DayScale days.                            *)
(***************************************************************************)
EXTENDS Integers, Sequences, SequencesExt, FiniteSets

CONSTANTS
  ScreenCoin,  \* coins of the active coin groups
  Tier,        \* the continuation rates in use, of {70, 80, 90}
  DayScale,    \* days per candle of the model
  MinSamples,  \* min_samples
  Lookback,    \* lookback_days, in candles
  Series,      \* series of closes the exchange may answer with
  Closing,     \* closes a candle may have
  MaxDays,     \* bound on the length of a probed series
  MaxPasses,   \* bound on the passes begun
  MaxEvents    \* bound on live candles and admin overrides

VARIABLES
  thresholds,  \* the breaker_thresholds table, committed
  candles,     \* the market cache's daily candles, Nothing when never fetched
  pass,        \* [Caller -> a rescreen_for_rates call and its transaction]
  begun,       \* passes begun
  events,      \* live candles and overrides so far
  probe        \* the last answer of screen_one

screenVars == <<thresholds, candles, pass, begun, events, probe>>

Caller == {"startup", "admin"}
Nothing == <<0 - 1>>

-----------------------------------------------------------------------------
(* DailyDropAnalyzer. *)

CANDIDATE_THRESHOLDS ==
  <<10, 15, 20, 25, 30, 35, 40, 45, 50, 55, 60, 65, 70, 75, 80, 85, 90, 95,
    100, 110, 120, 130, 140, 150>>

FALLBACK_THRESHOLDS == [r \in Tier |-> CASE r = 70 -> 30 [] r = 80 -> 40 [] r = 90 -> 50]

Days(d) == IF d \div DayScale < 1 THEN 1 ELSE d \div DayScale

TIER_CONFIGS ==
  [r \in Tier |-> CASE r = 70 -> [window |-> Days(5), decline |-> 9]
                    [] r = 80 -> [window |-> Days(10), decline |-> 12]
                    [] r = 90 -> [window |-> Days(30), decline |-> 15]]

(* The days with a previous and a future close, each by its previous day. *)
Drops(c, w) == {i \in 1 .. (Len(c) - w - 1) : c[i] > 0 /\ c[i + 1] > 0}

Qualifies(c, r, t) ==
  LET w == TIER_CONFIGS[r].window
      subset == {i \in Drops(c, w) : (c[i + 1] - c[i]) * 1000 <= (0 - t) * c[i]}
      continued == {i \in subset :
                      c[i + 1 + w] * 100 <= c[i + 1] * (100 - TIER_CONFIGS[r].decline)}
  IN /\ Cardinality(subset) >= MinSamples
     /\ Cardinality(continued) * 100 >= r * Cardinality(subset)

Answer(t, fallback, c) == [threshold |-> t, used_fallback |-> fallback, from |-> c]
Fallback(r, c) == Answer(FALLBACK_THRESHOLDS[r], TRUE, c)

(* The candidates are scanned from small to large; the first that          *)
(* qualifies is the answer.                                                *)
AnalyzeDetailed(c, r) ==
  LET w == TIER_CONFIGS[r].window
      n == Len(CANDIDATE_THRESHOLDS)
      scan[k \in 1 .. n + 1] ==
        IF k > n THEN Fallback(r, c)
        ELSE IF Qualifies(c, r, CANDIDATE_THRESHOLDS[k])
             THEN Answer(CANDIDATE_THRESHOLDS[k], FALSE, c)
             ELSE scan[k + 1]
  IN IF Len(c) < w + 2 \/ Cardinality(Drops(c, w)) < MinSamples
     THEN Fallback(r, c) ELSE scan[1]

(* _screen_symbol: the last Lookback candles, or the fallback without any. *)
ScreenSymbol(c, r) ==
  IF c = <<>> THEN Fallback(r, <<>>)
  ELSE AnalyzeDetailed(IF Len(c) > Lookback THEN SubSeq(c, Len(c) - Lookback + 1, Len(c)) ELSE c, r)

-----------------------------------------------------------------------------
(* A symbol is a coin with or without the quote currency appended: startup *)
(* screens pairs, the admin what it lists or the bare coins of the groups. *)
Pair(c) == <<c, "USDT">>
Base(c) == <<c, "">>
Listed == {Pair(c) : c \in ScreenCoin} \cup {Base(c) : c \in ScreenCoin}
Coins == SetToSeq(ScreenCoin)
Rates == CHOOSE s \in SetToSeqs(Tier) : \A m, n \in DOMAIN s : m < n => s[m] < s[n]

StartupSymbols == [k \in DOMAIN Coins |-> Pair(Coins[k])]
AdminSymbols == {[k \in DOMAIN Coins |-> Base(Coins[k])], Reverse(StartupSymbols)}

Requested(p) == IF p = "startup" THEN {StartupSymbols} ELSE AdminSymbols

NoRow == [resume |-> "none"]
ResumeDefault(r) == CASE r = 70 -> "trailing_buy" [] r = 80 -> "ta_confirm" [] r = 90 -> "widen_step"
Row(x, r) == [screened |-> x, resume |-> ResumeDefault(r)]

Away == [at |-> "away", symbols |-> <<>>, rate |-> 1, fetching |-> {}, results |-> <<>>,
         written |-> 0]

Init ==
  /\ thresholds = [k \in Listed \X Tier |-> NoRow]
  /\ candles = [s \in Listed |-> Nothing]
  /\ pass = [p \in Caller |-> Away] /\ begun = 0 /\ events = 0
  /\ probe = [rate |-> 0, screened |-> Nothing]

Rate(p) == Rates[pass[p].rate]

(* The screener asks the hub for every symbol at once: what the cache has  *)
(* answers there and then, whatever its age.                               *)
Screening(symbols, n) ==
  LET missing == {k \in DOMAIN symbols : candles[symbols[k]] = Nothing} IN
  [at |-> "screening", symbols |-> symbols, rate |-> n, fetching |-> missing,
   results |-> [k \in DOMAIN symbols |->
                  IF k \in missing THEN Nothing ELSE ScreenSymbol(candles[symbols[k]], Rates[n])],
   written |-> 0]

Begin(p) ==
  /\ pass[p].at = "away" /\ begun < MaxPasses
  /\ begun' = begun + 1
  /\ \E symbols \in Requested(p) : pass' = [pass EXCEPT ![p] = Screening(symbols, 1)]
  /\ UNCHANGED <<thresholds, candles, events, probe>>

Answered(p, k, c) ==
  pass' = [pass EXCEPT ![p].fetching = @ \ {k}, ![p].results[k] = ScreenSymbol(c, Rate(p))]

CandlesFetched(p, k) ==
  /\ k \in pass[p].fetching
  /\ \E c \in Series : Answered(p, k, c) /\ candles' = [candles EXCEPT ![pass[p].symbols[k]] = c]
  /\ UNCHANGED <<thresholds, begun, events, probe>>

FetchRaises(p, k) ==
  /\ k \in pass[p].fetching
  /\ Answered(p, k, <<>>)
  /\ UNCHANGED <<thresholds, candles, begun, events, probe>>

(* A live daily candle takes the place of the cached history. *)
LiveCandle(s) ==
  /\ events < MaxEvents /\ events' = events + 1
  /\ candles[s] # Nothing
  /\ \E close \in Closing : candles' = [candles EXCEPT ![s] = <<close>>]
  /\ UNCHANGED <<thresholds, pass, begun, probe>>

RowKey(p, k) == <<pass[p].symbols[k], Rate(p)>>
Locked(p) == {RowKey(p, k) : k \in 1 .. pass[p].written}
WaitsFor(p, q) ==
  /\ p # q /\ pass[p].at = "screening" /\ pass[p].fetching = {}
  /\ pass[p].written < Len(pass[p].symbols)
  /\ RowKey(p, pass[p].written + 1) \in Locked(q)

(* An upsert waits for the row while another transaction holds it. *)
Upsert(p) ==
  /\ pass[p].at = "screening" /\ pass[p].fetching = {}
  /\ pass[p].written < Len(pass[p].symbols)
  /\ \A q \in Caller : ~WaitsFor(p, q)
  /\ pass' = [pass EXCEPT ![p].written = @ + 1]
  /\ UNCHANGED <<thresholds, candles, begun, events, probe>>

Written(p) ==
  [k \in DOMAIN thresholds |->
    IF \E n \in DOMAIN pass[p].symbols : k = RowKey(p, n)
    THEN Row(pass[p].results[CHOOSE n \in DOMAIN pass[p].symbols : k = RowKey(p, n)], Rate(p))
    ELSE thresholds[k]]

(* The table after a rate's commit.  The mutant commits once, at the end. *)
StoredAtEnd(p) == IF pass[p].rate < Len(Rates) THEN thresholds ELSE Written(p)
Stored(p) == Written(p)

Commit(p) ==
  /\ pass[p].at = "screening" /\ pass[p].fetching = {}
  /\ pass[p].written = Len(pass[p].symbols)
  /\ thresholds' = Stored(p)
  /\ pass' = [pass EXCEPT ![p] = IF @.rate < Len(Rates) THEN Screening(@.symbols, @.rate + 1)
                                 ELSE Away]
  /\ UNCHANGED <<candles, begun, events, probe>>

(* Two passes that list the symbols in opposite orders can wait for each   *)
(* other: the database (external) ends one of the transactions, the manual *)
(* upsert after it fails as well, and the pass is over.                    *)
DeadlockVictim(p) ==
  /\ \E q \in Caller : WaitsFor(p, q) /\ WaitsFor(q, p)
  /\ pass' = [pass EXCEPT ![p] = Away]
  /\ UNCHANGED <<thresholds, candles, begun, events, probe>>

(* Shutdown cancels the startup pass where it waits, drops the cache and   *)
(* ends the requests.                                                      *)
Shutdown ==
  /\ \E p \in Caller : pass[p].at # "away"
  /\ pass' = [p \in Caller |-> Away]
  /\ candles' = [s \in Listed |-> Nothing]
  /\ UNCHANGED <<thresholds, begun, events, probe>>

ResumeModes == {"ta_confirm", "widen_step", "trailing_buy"}

(* The admin overrides the resume behaviour of a row nobody has locked; a  *)
(* missing row or an unknown mode is refused.                              *)
AdminUpdate(k, mode) == thresholds[k] # NoRow /\ mode \in ResumeModes

UpdateResumeConfig(k, mode) ==
  /\ events < MaxEvents /\ events' = events + 1
  /\ AdminUpdate(k, mode) /\ \A p \in Caller : k \notin Locked(p)
  /\ thresholds' = [thresholds EXCEPT ![k].resume = mode]
  /\ UNCHANGED <<candles, pass, begun, probe>>

(* screen_one, of any series. *)
ScreenOne ==
  /\ probe.rate = 0
  /\ \E n \in 1 .. MaxDays : \E c \in [1 .. n -> Closing], r \in Tier :
       probe' = [rate |-> r, screened |-> ScreenSymbol(c, r)]
  /\ UNCHANGED <<thresholds, candles, pass, begun, events>>

StoreStep ==
  \/ \E p \in Caller : Begin(p) \/ Upsert(p) \/ Commit(p) \/ DeadlockVictim(p)
                     \/ \E k \in pass[p].fetching : CandlesFetched(p, k) \/ FetchRaises(p, k)
  \/ \E s \in Listed : LiveCandle(s)
  \/ \E k \in DOMAIN thresholds, mode \in ResumeModes : UpdateResumeConfig(k, mode)
  \/ Shutdown

Next == StoreStep \/ ScreenOne
Spec == Init /\ [][Next]_screenVars

-----------------------------------------------------------------------------
GetThreshold(c, r) ==
  LET row == thresholds[<<Pair(c), r>>] IN
  IF row = NoRow THEN FALLBACK_THRESHOLDS[r] ELSE row.screened.threshold

(* get_breaker_config of an instance trading c's pair: the row, or the     *)
(* fallback with the legacy resume mode.                                   *)
GetBreakerConfig(c, r) ==
  LET row == thresholds[<<Pair(c), r>>] IN
  [threshold |-> GetThreshold(c, r),
   resume |-> IF row # NoRow /\ row.resume \in ResumeModes THEN row.resume ELSE "ta_confirm"]

(* What a threshold claims about the closes it came from, day by day: at   *)
(* least MinSamples days fell that far and the rate's share of them fell   *)
(* on by the tier's decline after its window.                              *)
Critical(c, r, t) ==
  LET w == TIER_CONFIGS[r].window
      fell == {d \in 2 .. Len(c) : d + w <= Len(c) /\ c[d] > 0 /\ c[d - 1] > 0
                                   /\ c[d] * 1000 <= c[d - 1] * (1000 - t)}
      on == {d \in fell : 100 * (c[d] - c[d + w]) >= TIER_CONFIGS[r].decline * c[d]}
  IN Cardinality(fell) >= MinSamples /\ 100 * Cardinality(on) >= r * Cardinality(fell)

Justified(x, r) ==
  /\ IF x.used_fallback THEN x.threshold = FALLBACK_THRESHOLDS[r]
     ELSE x.threshold \in Range(CANDIDATE_THRESHOLDS) /\ Critical(x.from, r, x.threshold)
  /\ \A t \in Range(CANDIDATE_THRESHOLDS) :
       x.used_fallback \/ t < x.threshold => ~Critical(x.from, r, t)

(* However passes, overrides, deadlocks and shutdowns interleave, a stored *)
(* threshold is the smallest drop its closes bear out, or the fallback     *)
(* when they bear out none; a pass has stored every rate before the one it *)
(* is at, so what interrupts it loses that rate only; and a breaker is     *)
(* never set up without a threshold and a known resume mode.               *)
ThresholdsJustified ==
  /\ \A k \in DOMAIN thresholds : thresholds[k] # NoRow => Justified(thresholds[k].screened, k[2])
  /\ probe.rate # 0 => Justified(probe.screened, probe.rate)
  /\ \A p \in Caller : \A n \in 1 .. pass[p].rate - 1 : \A s \in Range(pass[p].symbols) :
       thresholds[<<s, Rates[n]>>] # NoRow
  /\ \A c \in ScreenCoin, r \in Tier :
       /\ GetBreakerConfig(c, r).threshold \in 10 .. 150
       /\ GetBreakerConfig(c, r).resume \in ResumeModes
=============================================================================
