---------------------------- MODULE InstanceSetup ----------------------------
(***************************************************************************)
(* What an instance is set up from: the strategy modes with their          *)
(* in-process cache, the averaging steps an instance's owner replaces as a *)
(* whole, and the calculators that turn capital and prices into levels.    *)
(* Requests run on one event loop and on separate database transactions    *)
(* (read committed; the database is external).                             *)
(***************************************************************************)
EXTENDS Integers, Sequences, SequencesExt, FiniteSets, FiniteSetsExt

CONSTANTS
  Visitor,     \* requests that read the strategy modes
  Editor,      \* requests that change one
  Owner,       \* requests that replace the averaging steps
  MaxEdits,    \* bound: changes of the strategy mode
  MaxUpdates,  \* bound: updates of the averaging steps
  Capital,     \* capitals a user allocates
  GroupSize,   \* max_coins of the coin groups
  CustomSteps, \* custom_steps of the custom preset, 1 .. 200
  Bound,       \* prices that bound an even grid
  MaxGrids     \* bound: grid_count

VARIABLES
  mode,        \* the committed tp_range_max, as the number of its change
  modeCache,   \* _cache: a value of mode, Empty, or Defaults
  cacheLock,   \* who holds _cache_lock, Nobody otherwise
  visit,       \* [Visitor -> a load_strategy_modes call]
  edit,        \* [Editor -> an update of the mode]
  edits,       \* changes so far
  loadOverlapped, \* history: a load ran during the last change
  loadFailed,  \* history: the cache was filled from a failed load
  steps,       \* committed averaging_configs rows of one instance
  template,    \* the default template, <<drop, take profit>> per step
  update,      \* [Owner -> an update_averaging_config transaction]
  updates,     \* updates so far
  plan         \* the last answer of a calculator

setupVars == <<mode, modeCache, cacheLock, visit, edit, edits, loadOverlapped, loadFailed,
               steps, template, update, updates, plan>>

modeVars == <<mode, modeCache, cacheLock, visit, edit, edits, loadOverlapped, loadFailed>>
stepVars == <<steps, template, update, updates>>

Empty == 0 - 1
Defaults == 0 - 2
Nobody == "nobody"

NoVisit == [at |-> "away", read |-> 0]
NoEdit == [at |-> "away", value |-> 0]
NoUpdate == [at |-> "away", rows |-> {}, seen |-> {}, doomed |-> {}]
NoPlan == [of |-> "none"]

-----------------------------------------------------------------------------
(* The strategy mode store. *)

Loading == {v \in Visitor : visit[v].at # "away"}
Editing == {e \in Editor : edit[e].at # "away"}

(* load_strategy_modes: a filled cache answers at once; otherwise one      *)
(* caller queries under the lock.                                          *)
LoadBegins(v) ==
  /\ visit[v].at = "away" /\ modeCache = Empty /\ cacheLock = Nobody
  /\ cacheLock' = v
  /\ visit' = [visit EXCEPT ![v].at = "querying"]
  /\ loadOverlapped' = (loadOverlapped \/ Editing # {})
  /\ UNCHANGED <<mode, modeCache, edit, edits, loadFailed>>

LoadReads(v) ==
  /\ visit[v].at = "querying"
  /\ visit' = [visit EXCEPT ![v] = [at |-> "read", read |-> mode]]
  /\ UNCHANGED <<mode, modeCache, cacheLock, edit, edits, loadOverlapped, loadFailed>>

Filled(v, value) ==
  /\ modeCache' = value /\ cacheLock' = Nobody
  /\ visit' = [visit EXCEPT ![v] = NoVisit]

LoadEnds(v) ==
  /\ visit[v].at = "read"
  /\ Filled(v, visit[v].read) /\ loadFailed' = FALSE
  /\ UNCHANGED <<mode, edit, edits, loadOverlapped>>

(* Whatever the load raises, the defaults are cached in its place. *)
LoadRaises(v) ==
  /\ visit[v].at # "away"
  /\ Filled(v, Defaults) /\ loadFailed' = TRUE
  /\ UNCHANGED <<mode, edit, edits, loadOverlapped>>

EditBegins(e, at) ==
  /\ edit[e].at = "away" /\ edits < MaxEdits
  /\ edits' = edits + 1
  /\ edit' = [edit EXCEPT ![e] = [at |-> at, value |-> edits + 1]]
  /\ loadOverlapped' = IF Editing = {} THEN Loading # {} ELSE loadOverlapped \/ Loading # {}

(* invalidate_cache and its copies.  The mutant leaves a filled cache. *)
InvalidatedNever(cache) == cache
Invalidated(cache) == Empty

(* update_strategy_mode: its own session; the cache goes after the commit. *)
EditStarts(e) ==
  /\ EditBegins(e, "editing")
  /\ UNCHANGED <<mode, modeCache, cacheLock, visit, loadFailed>>

RowFree(e) == \A f \in Editor \ {e} : edit[f].at # "flushed"

EditCommits(e) ==
  /\ edit[e].at = "editing" /\ RowFree(e)
  /\ mode' = edit[e].value
  /\ edit' = [edit EXCEPT ![e].at = "committed"]
  /\ UNCHANGED <<modeCache, cacheLock, visit, edits, loadOverlapped, loadFailed>>

EditInvalidates(e) ==
  /\ edit[e].at = "committed"
  /\ modeCache' = Invalidated(modeCache)
  /\ edit' = [edit EXCEPT ![e] = NoEdit]
  /\ UNCHANGED <<mode, cacheLock, visit, edits, loadOverlapped, loadFailed>>

(* update_strategy_mode_with_session: the cache goes before get_db commits *)
(* or rolls back.                                                          *)
AdminFlushes(e) ==
  /\ RowFree(e)
  /\ EditBegins(e, "flushed")
  /\ modeCache' = Invalidated(modeCache)
  /\ UNCHANGED <<mode, cacheLock, visit, loadFailed>>

AdminEnds(e) ==
  /\ edit[e].at = "flushed"
  /\ mode' \in {mode, edit[e].value}
  /\ edit' = [edit EXCEPT ![e] = NoEdit]
  /\ UNCHANGED <<modeCache, cacheLock, visit, edits, loadOverlapped, loadFailed>>

ModeStep ==
  /\ \/ \E v \in Visitor : LoadBegins(v) \/ LoadReads(v) \/ LoadEnds(v) \/ LoadRaises(v)
     \/ \E e \in Editor : EditStarts(e) \/ EditCommits(e) \/ EditInvalidates(e)
                          \/ AdminFlushes(e) \/ AdminEnds(e)
  /\ UNCHANGED <<stepVars, plan>>

-----------------------------------------------------------------------------
(* The averaging steps.  A row is its number, drop and take profit in      *)
(* percent, and the update it comes from with all that one's rows.         *)

Sent == {{<<0, 0, 50>>, <<1, 50, 50>>}, {<<0, 0, 50>>, <<1, 100, 50>>}, {<<2, 50, 50>>}}
Templates == {<< <<0, 50>>, <<50, 50>>, <<50, 100>> >>, << <<0, 50>>, <<50, 50>> >>}
TemplateSize == 3

(* get_default_averaging_template: steps are numbered anew, and a template *)
(* the admin has shortened raises an IndexError, here no rows.             *)
DefaultTemplate ==
  IF Len(template) < TemplateSize THEN {}
  ELSE {<<k - 1, template[k][1], template[k][2]>> : k \in 1 .. TemplateSize}

(* admin_update_averaging_template, of the running process only. *)
TemplateUpdated ==
  /\ template' \in Templates \ {template}
  /\ UNCHANGED <<steps, update, updates>>

Tagged(rows, n) == {<<r[1], r[2], r[3], [number |-> n, rows |-> rows]>> : r \in rows}

(* update_averaging_config, or the reset to the template: the DELETE sees  *)
(* the rows committed when it starts.                                      *)
UpdateBegins(o, rows) ==
  /\ update[o].at = "away" /\ updates < MaxUpdates
  /\ updates' = updates + 1
  /\ update' = [update EXCEPT ![o] = [at |-> "deleting", rows |-> Tagged(rows, updates + 1),
                                      seen |-> steps, doomed |-> {}]]
  /\ UNCHANGED <<steps, template>>

UpdateAveragingConfig(o) == \E rows \in Sent : UpdateBegins(o, rows)
ResetAveragingConfig(o) == UpdateBegins(o, DefaultTemplate)

(* It waits for the rows another transaction deletes; those of a later     *)
(* commit it does not see.                                                 *)
OldDeleted(o) ==
  /\ update[o].at = "deleting"
  /\ \A p \in Owner : update[p].doomed \cap update[o].seen = {}
  /\ update' = [update EXCEPT ![o].at = "deleted", ![o].doomed = update[o].seen \cap steps]
  /\ UNCHANGED <<steps, template, updates>>

(* uq_avg_config_instance_step.  The mutant has no such constraint. *)
NoConstraint(rows, kept) == TRUE
Unique(rows, kept) == \A r \in rows, k \in kept : r[1] # k[1]

StepsCommitted(o) ==
  /\ update[o].at = "deleted" /\ update[o].rows # {}
  /\ Unique(update[o].rows, steps \ update[o].doomed)
  /\ steps' = (steps \ update[o].doomed) \cup update[o].rows
  /\ update' = [update EXCEPT ![o] = NoUpdate]
  /\ UNCHANGED <<template, updates>>

(* An insert that breaks the constraint, or any other failure, rolls back. *)
UpdateRollsBack(o) ==
  /\ update[o].at # "away"
  /\ update' = [update EXCEPT ![o] = NoUpdate]
  /\ UNCHANGED <<steps, template, updates>>

StepsStep ==
  /\ \/ \E o \in Owner : \/ UpdateAveragingConfig(o) \/ ResetAveragingConfig(o)
                          \/ OldDeleted(o) \/ StepsCommitted(o) \/ UpdateRollsBack(o)
     \/ TemplateUpdated
  /\ UNCHANGED <<modeVars, plan>>

-----------------------------------------------------------------------------
(* The calculators. *)

(* ORDER BY step_number. *)
InOrder(rows) ==
  CHOOSE s \in SetToSeqs(rows) : \A m, n \in DOMAIN s : m < n => s[m][1] < s[n][1]

(* GridCalculator.calculate_levels_with_averaging over the rows in order;  *)
(* the first price that falls to 0 is a ValidationError, here no levels.   *)
LevelsWithAveraging(start, rows) ==
  LET ordered == InOrder(rows)
      buy[k \in 0 .. Len(ordered)] ==
        IF k = 0 \/ ordered[k][1] = 0 THEN start
        ELSE (buy[k - 1] * (100 - ordered[k][2])) \div 100
  IN IF \E k \in DOMAIN ordered : buy[k] <= 0 THEN <<>>
     ELSE [k \in DOMAIN ordered |->
             [buy |-> buy[k], sell |-> (buy[k] * (100 + ordered[k][3])) \div 100]]

(* calculate_levels: prices times 2 * n, so that a spacing and 2.5 of it   *)
(* are integers.                                                           *)
SellPrice(n, buy, upper, lower) ==
  IF buy + 5 * (upper - lower) > 2 * n * upper THEN 2 * n * upper
  ELSE buy + 5 * (upper - lower)

CalculateLevels(upper, lower, n) ==
  [k \in 1 .. n |->
     LET buy == 2 * n * lower + 2 * (k - 1) * (upper - lower) IN
     [buy |-> buy, sell |-> SellPrice(n, buy, upper, lower)]]

MIN_BUY_AMOUNT == 15
BUILTIN_PRESETS == [mm30 |-> [steps |-> 30, min_capital |-> 1350, groups |-> {3, 5}],
                    mm50 |-> [steps |-> 50, min_capital |-> 7500, groups |-> GroupSize],
                    mm70 |-> [steps |-> 70, min_capital |-> 21000, groups |-> GroupSize],
                    custom |-> [steps |-> CustomSteps, min_capital |-> 100, groups |-> GroupSize]]

(* MMCalculator.calculate, amounts in cents: chosen = 0 when the user did  *)
(* not choose a number of coins; a refused plan has no amount.             *)
Amount(capital, layers) == (capital * 100) \div layers

Layers(preset, size, chosen) ==
  BUILTIN_PRESETS[preset].steps * (IF chosen >= 1 THEN chosen ELSE size)

MinCapital(preset, size, chosen) ==
  IF chosen >= 1 /\ chosen < size THEN MIN_BUY_AMOUNT * Layers(preset, size, chosen)
  ELSE BUILTIN_PRESETS[preset].min_capital

Calculate(preset, capital, size, chosen, named) ==
  LET amount == Amount(capital, Layers(preset, size, chosen)) IN
  IF \/ named /\ size \notin BUILTIN_PRESETS[preset].groups
     \/ capital < MinCapital(preset, size, chosen)
     \/ amount < MIN_BUY_AMOUNT * 100
  THEN 0 ELSE amount

PlanStep ==
  /\ plan = NoPlan
  /\ \/ \E u, l \in Bound, n \in 2 .. MaxGrids :
          u > l /\ plan' = [of |-> "grid", upper |-> 2 * n * u, levels |-> CalculateLevels(u, l, n)]
     \/ \E preset \in DOMAIN BUILTIN_PRESETS, c \in Capital, size \in GroupSize,
           chosen \in GroupSize \cup {0, 1}, named \in BOOLEAN :
          plan' = [of |-> "money", capital |-> c * 100, fewer |-> chosen \in 1 .. size - 1,
                   fits |-> ~named \/ size \in BUILTIN_PRESETS[preset].groups,
                   layers |-> Layers(preset, size, chosen),
                   amount |-> Calculate(preset, c, size, chosen, named)]
  /\ UNCHANGED <<modeVars, stepVars>>

Init ==
  /\ mode = 0 /\ modeCache = Empty /\ cacheLock = Nobody
  /\ visit = [v \in Visitor |-> NoVisit] /\ edit = [e \in Editor |-> NoEdit] /\ edits = 0
  /\ loadOverlapped = FALSE /\ loadFailed = FALSE
  /\ steps = {} /\ template \in {t \in Templates : Len(t) = TemplateSize}
  /\ update = [o \in Owner |-> NoUpdate] /\ updates = 0
  /\ plan = NoPlan

Next == ModeStep \/ StepsStep \/ PlanStep
Spec == Init /\ [][Next]_setupVars

-----------------------------------------------------------------------------
(* Once no change is under way, the cached strategy modes are the          *)
(* committed ones, whoever rolled back or came in between.  Two ways to a  *)
(* stale cache are left out: a load that ran during the change, which may  *)
(* cache what it read before the commit, and a load that failed.           *)
CacheCurrent ==
  Editing = {} /\ ~loadOverlapped /\ ~loadFailed => modeCache \in {Empty, mode}

(* Rows stand for whole updates, of which no two have a number in common. *)
StepsOfWholeUpdates ==
  /\ \A r \in steps : Tagged(r[4].rows, r[4].number) \subseteq steps
  /\ \A r, s \in steps : r[1] = s[1] => r = s

LevelsSound(levels) ==
  \A k \in DOMAIN levels : levels[k].buy > 0 /\ levels[k].sell > levels[k].buy

Rising(levels) == \A k \in 2 .. Len(levels) : levels[k].buy > levels[k - 1].buy

(* However updates of an instance's averaging steps overlap, each is there *)
(* as a whole or not at all and no step number twice; the levels made of   *)
(* the steps never rise and sell above what they buy at; an even grid's    *)
(* levels rise and sell within the range; and a money plan that is         *)
(* accepted buys for at least the minimum, spends no more than the capital *)
(* and leaves less than a cent per layer, while one that is refused with   *)
(* fewer coins than a group it fits lacks the minimum.                     *)
SetupSound ==
  /\ StepsOfWholeUpdates
  /\ LET levels == LevelsWithAveraging(1000, steps) IN
     LevelsSound(levels) /\ \A k \in 2 .. Len(levels) : levels[k].buy <= levels[k - 1].buy
  /\ plan.of = "grid" =>
       /\ LevelsSound(plan.levels) /\ Rising(plan.levels)
       /\ \A k \in DOMAIN plan.levels : plan.levels[k].sell <= plan.upper
  /\ plan.of = "money" =>
       IF plan.amount = 0
       THEN plan.fewer /\ plan.fits => plan.capital < MIN_BUY_AMOUNT * 100 * plan.layers
       ELSE /\ plan.amount >= MIN_BUY_AMOUNT * 100
            /\ plan.amount * plan.layers <= plan.capital
            /\ plan.capital < (plan.amount + 1) * plan.layers
=============================================================================
