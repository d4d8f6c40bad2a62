----------------------------- MODULE SetupProofs -----------------------------
(***************************************************************************)
(* Theorems about what trading is set up from, each a theorem of the       *)
(* component's own specification: the strategy modes, the thresholds of    *)
(* the daily drop breaker, the averaging steps and the calculators, and    *)
(* the catalogue of presets, coin groups and exchange accounts.            *)
(***************************************************************************)
EXTENDS MCServices, SequenceTheorems, FiniteSetTheorems, TLAPS

-----------------------------------------------------------------------------
(* The strategy mode cache.  While a change is under way and no load       *)
(* overlapped with it, nobody loads, so that what get_db will commit or    *)
(* roll back finds the cache as the flush left it: empty.                  *)

CacheTypes ==
  /\ visit \in [Visitor -> [at : {"away", "querying", "read"}, read : Nat]]
  /\ edit \in [Editor -> [at : {"away", "editing", "committed", "flushed"}, value : Nat]]
  /\ mode \in Nat /\ edits \in Nat
  /\ loadOverlapped \in BOOLEAN /\ loadFailed \in BOOLEAN

Busy == \E e \in Editor : edit[e].at # "away"

NobodyLoadsDuringEdit ==
  Busy /\ ~loadOverlapped => \A v \in Visitor : visit[v].at = "away"

FlushLeftEmpty ==
  \A e \in Editor : edit[e].at = "flushed" /\ ~loadOverlapped => modeCache = Set!Empty

ReadIsCurrent ==
  \A v \in Visitor :
    visit[v].at = "read" /\ ~Busy /\ ~loadOverlapped => visit[v].read = mode

CurrentUnlessExcused ==
  ~Busy /\ ~loadOverlapped /\ ~loadFailed => modeCache \in {Set!Empty, mode}

CacheInv ==
  /\ CacheTypes /\ NobodyLoadsDuringEdit /\ FlushLeftEmpty /\ ReadIsCurrent
  /\ CurrentUnlessExcused

LEMMA CacheInitInv == Set!Init => CacheInv
<1> SUFFICES ASSUME Set!Init PROVE CacheInv
  OBVIOUS
<1>1. CacheTypes
  <2>1. visit = [v \in Visitor |-> [at |-> "away", read |-> 0]]
    BY DEF Set!Init, Set!NoVisit
  <2>2. edit = [e \in Editor |-> [at |-> "away", value |-> 0]]
    BY DEF Set!Init, Set!NoEdit
  <2>3. mode = 0 /\ edits = 0 /\ loadOverlapped = FALSE /\ loadFailed = FALSE
    BY DEF Set!Init
  <2> QED
    BY <2>1, <2>2, <2>3 DEF CacheTypes
<1> QED
  BY <1>1 DEF Set!Init, CacheInv, NobodyLoadsDuringEdit, FlushLeftEmpty, ReadIsCurrent,
    CurrentUnlessExcused, Busy, Set!NoVisit, Set!NoEdit

LEMMA CacheStepInv == CacheInv /\ [Set!Next]_(Set!setupVars) => CacheInv'
<1> SUFFICES ASSUME CacheInv, [Set!Next]_(Set!setupVars) PROVE CacheInv'
  OBVIOUS
<1> USE DEF CacheInv, CacheTypes, NobodyLoadsDuringEdit, FlushLeftEmpty, ReadIsCurrent,
      CurrentUnlessExcused, Busy
<1>1. ASSUME NEW v \in Visitor, Set!LoadBegins(v) PROVE CacheInv'
  <2>1. /\ visit' = [visit EXCEPT ![v].at = "querying"]
        /\ loadOverlapped' = (loadOverlapped \/ Set!Editing # {})
        /\ UNCHANGED <<mode, modeCache, edit, edits, loadFailed>>
    BY <1>1 DEF Set!LoadBegins
  <2>2. CacheTypes' /\ \A x \in Visitor : visit'[x].at = "read" => visit'[x] = visit[x]
    BY <2>1
  <2>3. loadOverlapped' <=> loadOverlapped \/ Busy
    BY <2>1 DEF Set!Editing
  <2> QED
    BY <2>1, <2>2, <2>3
<1>2. ASSUME NEW v \in Visitor, Set!LoadReads(v) PROVE CacheInv'
  BY <1>2 DEF Set!LoadReads
<1>3. ASSUME NEW v \in Visitor, Set!LoadEnds(v) PROVE CacheInv'
  BY <1>3 DEF Set!LoadEnds, Set!Filled, Set!NoVisit
<1>4. ASSUME NEW v \in Visitor, Set!LoadRaises(v) PROVE CacheInv'
  BY <1>4 DEF Set!LoadRaises, Set!Filled, Set!NoVisit
<1>a. ASSUME NEW e \in Editor, NEW at \in {"editing", "flushed"}, Set!EditBegins(e, at)
      PROVE  /\ edits' \in Nat /\ edit' = [edit EXCEPT ![e] = [at |-> at, value |-> edits']]
             /\ loadOverlapped' \in BOOLEAN
             /\ ~loadOverlapped' => \A v \in Visitor : visit[v].at = "away"
             /\ ~loadOverlapped' /\ Busy => ~loadOverlapped
  <2>1. (Busy <=> Set!Editing # {}) /\ (Set!Loading = {} <=> \A v \in Visitor : visit[v].at = "away")
    BY DEF Set!Editing, Set!Loading
  <2>2. /\ edits' = edits + 1
        /\ edit' = [edit EXCEPT ![e] = [at |-> at, value |-> edits + 1]]
        /\ loadOverlapped' = IF Set!Editing = {} THEN Set!Loading # {}
                             ELSE loadOverlapped \/ Set!Loading # {}
    BY <1>a DEF Set!EditBegins
  <2>3. edits' \in Nat /\ edit' = [edit EXCEPT ![e] = [at |-> at, value |-> edits']]
    BY <2>2
  <2>4. /\ Set!Editing = {} => (loadOverlapped' <=> Set!Loading # {})
        /\ Set!Editing # {} => (loadOverlapped' <=> loadOverlapped \/ Set!Loading # {})
        /\ loadOverlapped' \in BOOLEAN
    BY <2>2, Zenon
  <2> HIDE DEF Busy
  <2> QED
    BY <2>1, <2>3, <2>4, Zenon
<1>5. ASSUME NEW e \in Editor, Set!EditStarts(e) PROVE CacheInv'
  <2>1. /\ edit' = [edit EXCEPT ![e] = [at |-> "editing", value |-> edits']]
        /\ edits' \in Nat /\ loadOverlapped' \in BOOLEAN
        /\ ~loadOverlapped' => \A v \in Visitor : visit[v].at = "away"
        /\ ~loadOverlapped' /\ Busy => ~loadOverlapped
    BY <1>5, <1>a DEF Set!EditStarts
  <2>2. UNCHANGED <<mode, modeCache, visit, loadFailed>>
    BY <1>5 DEF Set!EditStarts
  <2>3. CacheTypes' /\ Busy'
    BY <2>1, <2>2
  <2> QED
    BY <2>1, <2>2, <2>3
<1>6. ASSUME NEW e \in Editor, Set!EditCommits(e) PROVE CacheInv'
  BY <1>6 DEF Set!EditCommits
<1>7. ASSUME NEW e \in Editor, Set!EditInvalidates(e) PROVE CacheInv'
  BY <1>7 DEF Set!EditInvalidates, Set!Invalidated, Set!NoEdit
<1>8. ASSUME NEW e \in Editor, Set!AdminFlushes(e) PROVE CacheInv'
  BY <1>8, <1>a DEF Set!AdminFlushes, Set!Invalidated
<1>9. ASSUME NEW e \in Editor, Set!AdminEnds(e) PROVE CacheInv'
  BY <1>9 DEF Set!AdminEnds, Set!NoEdit
<1>10. CASE UNCHANGED Set!modeVars
  BY <1>10 DEF Set!modeVars
<1>11. Set!StepsStep \/ Set!PlanStep \/ UNCHANGED Set!setupVars => UNCHANGED Set!modeVars
  BY DEF Set!StepsStep, Set!PlanStep, Set!setupVars, Set!modeVars
<1> QED
  BY <1>1, <1>2, <1>3, <1>4, <1>5, <1>6, <1>7, <1>8, <1>9, <1>10, <1>11
    DEF Set!Next, Set!ModeStep

(* strategy_modes: with no change under way, the cache holds the committed *)
(* modes or nothing, however readers and the two ways to change a mode     *)
(* interleave, unless a load overlapped the last change or failed.         *)
THEOREM ModesStayCurrent == Set!Spec => []CacheCurrent
<1>1. CacheInv => CacheCurrent
  BY DEF CacheInv, CurrentUnlessExcused, Busy, CacheCurrent, Set!CacheCurrent, Set!Editing
<1> QED
  BY <1>1, CacheInitInv, CacheStepInv, PTL DEF Set!Spec

-----------------------------------------------------------------------------
(* Inductions, in the form of least counterexamples: the finite subsets of *)
(* a set under inclusion, and the naturals.                                *)

LEMMA LeastSubset ==
  ASSUME NEW S, IsFiniteSet(S), NEW Bad \in SUBSET SUBSET S, Bad # {}
  PROVE  \E T \in Bad : \A U \in Bad : U \subseteq T => U = T
<1>1. IsWellFoundedOn(StrictSubsetOrdering(S), SUBSET S)
  BY FS_StrictSubsetOrderingWellFounded, FS_FiniteSubsetsOfFinite
<1>2. PICK T \in Bad : \A U \in Bad : <<U, T>> \notin StrictSubsetOrdering(S)
  BY <1>1, WFMin
<1> QED
  BY <1>2 DEF StrictSubsetOrdering

LEMMA LeastNumber ==
  ASSUME NEW S \in SUBSET Nat, S # {}
  PROVE  \E p \in S : \A q \in S : p <= q
<1>1. IsWellFoundedOn(OpToRel(<, Nat), Nat)
  BY NatLessThanWellFounded
<1>2. PICK p \in S : \A q \in S : ~(<<q, p>> \in OpToRel(<, Nat))
  BY <1>1, WFMin
<1>3. ASSUME NEW q \in S PROVE p <= q
  <2>1. ~(q < p)
    BY <1>2 DEF OpToRel
  <2> QED
    BY <2>1
<1> QED
  BY <1>3

-----------------------------------------------------------------------------
(* Listing a finite set by a number each element has: ORDER BY step_number *)
(* and sorted().                                                           *)

Keyed(S, key) ==
  /\ \A x \in S : key[x] \in Int
  /\ \A x, y \in S : key[x] = key[y] => x = y

Ascends(s, key) == \A m, n \in DOMAIN s : m < n => key[s[m]] < key[s[n]]

LEMMA GreatestElement ==
  ASSUME NEW S, IsFiniteSet(S), S # {}, NEW key, Keyed(S, key)
  PROVE  \E x \in S : \A y \in S : key[y] <= key[x]
<1> DEFINE Bad == {U \in SUBSET S : U # {} /\ \A x \in U : \E y \in U : ~(key[y] <= key[x])}
<1> SUFFICES ASSUME Bad # {} PROVE FALSE
  OBVIOUS
<1>1. PICK U \in Bad : \A V \in Bad : V \subseteq U => V = U
  <2>1. Bad \in SUBSET SUBSET S
    OBVIOUS
  <2> HIDE DEF Bad
  <2> QED
    BY <2>1, LeastSubset
<1>2. PICK x \in U : TRUE
  BY <1>1
<1>3. PICK y \in U : ~(key[y] <= key[x])
  BY <1>1, <1>2
<1>4. U \ {x} \notin Bad /\ U \ {x} # {}
  <2>1. key[x] \in Int
    BY <1>1, <1>2 DEF Keyed
  <2>2. y \in U \ {x}
    BY <1>3, <2>1
  <2> QED
    BY <1>1, <1>2, <2>2
<1>5. PICK z \in U \ {x} : \A v \in U \ {x} : key[v] <= key[z]
  BY <1>1, <1>4
<1>6. key[y] <= key[z] /\ key[x] \in Int /\ key[y] \in Int /\ key[z] \in Int
  BY <1>1, <1>2, <1>3, <1>5 DEF Keyed
<1>7. \A v \in U : key[v] <= key[z]
  BY <1>3, <1>5, <1>6
<1> QED
  BY <1>1, <1>5, <1>7

LEMMA ListingExists ==
  ASSUME NEW S, IsFiniteSet(S), NEW key, Keyed(S, key)
  PROVE  \E s \in [1 .. Cardinality(S) -> S] : Ascends(s, key)
<1> DEFINE Bad == {U \in SUBSET S : ~\E s \in [1 .. Cardinality(U) -> U] : Ascends(s, key)}
<1> SUFFICES ASSUME Bad # {} PROVE FALSE
  OBVIOUS
<1>1. PICK U \in Bad : \A V \in Bad : V \subseteq U => V = U
  <2>1. Bad \in SUBSET SUBSET S
    OBVIOUS
  <2> HIDE DEF Bad
  <2> QED
    BY <2>1, LeastSubset
<1>2. IsFiniteSet(U) /\ Cardinality(U) \in Nat /\ Keyed(U, key)
  BY <1>1, FS_Subset, FS_CardinalityType DEF Keyed
<1>3. U # {}
  <2> SUFFICES ASSUME U = {} PROVE FALSE
    OBVIOUS
  <2>1. Cardinality(U) = 0 /\ 1 .. 0 = {}
    BY FS_EmptySet
  <2>2. [n \in 1 .. 0 |-> 0] \in [1 .. Cardinality(U) -> U]
    BY <2>1
  <2>3. Ascends([n \in 1 .. 0 |-> 0], key)
    BY <2>1 DEF Ascends
  <2> QED
    BY <1>1, <2>2, <2>3
<1>4. PICK x \in U : \A y \in U : key[y] <= key[x]
  BY <1>2, <1>3, GreatestElement
<1> DEFINE W == U \ {x}
           d == Cardinality(U)
<1>5. W \in SUBSET S /\ W \notin Bad
  BY <1>1, <1>4
<1>6. Cardinality(W) = d - 1 /\ d \in Nat \ {0}
  BY <1>2, <1>3, <1>4, FS_RemoveElement, FS_EmptySet
<1>7. PICK s \in [1 .. (d - 1) -> W] : Ascends(s, key)
  BY <1>5, <1>6
<1>8. \A y \in W : key[y] < key[x] /\ key[y] \in Int
  BY <1>2, <1>4 DEF Keyed
<1> HIDE DEF W, d
<1> DEFINE u == [n \in 1 .. d |-> IF n = d THEN x ELSE s[n]]
<1>9. u \in [1 .. d -> U]
  BY <1>4, <1>6, <1>7 DEF W
<1>10. ASSUME NEW m \in 1 .. d, NEW n \in 1 .. d, m < n PROVE key[u[m]] < key[u[n]]
  <2>1. m \in 1 .. (d - 1) /\ u[m] = s[m] /\ s[m] \in W
    BY <1>6, <1>7, <1>10
  <2>2. CASE n = d
    BY <1>8, <2>1, <2>2
  <2>3. CASE n # d
    <3>1. n \in 1 .. (d - 1) /\ u[n] = s[n]
      BY <1>6, <1>10, <2>3
    <3> QED
      BY <1>7, <1>10, <2>1, <3>1 DEF Ascends
  <2> QED
    BY <2>2, <2>3
<1>11. Ascends(u, key)
  BY <1>10 DEF Ascends
<1> QED
  BY <1>1, <1>9, <1>11 DEF d

(* An ascending listing holds every element, and each once. *)
LEMMA ListingHolds ==
  ASSUME NEW S, IsFiniteSet(S), NEW key, Keyed(S, key),
         NEW s \in [1 .. Cardinality(S) -> S], Ascends(s, key)
  PROVE  /\ Cardinality(S) \in Nat
         /\ \A m, n \in 1 .. Cardinality(S) : s[m] = s[n] => m = n
         /\ \A x \in S : \E n \in 1 .. Cardinality(S) : s[n] = x
<1> DEFINE d == Cardinality(S)
<1>1. d \in Nat /\ IsFiniteSet(1 .. d) /\ Cardinality(1 .. d) = d
  BY FS_CardinalityType, FS_Interval
<1> HIDE DEF d
<1>2. ASSUME NEW m \in 1 .. d, NEW n \in 1 .. d, s[m] = s[n] PROVE m = n
  <2>1. s[m] \in S /\ key[s[m]] \in Int /\ DOMAIN s = 1 .. d
    BY DEF d, Keyed
  <2>2. ~(m < n) /\ ~(n < m)
    BY <1>2, <2>1 DEF Ascends
  <2> QED
    BY <1>1, <2>2
<1>3. s \in Injection(1 .. d, S)
  BY <1>2 DEF Injection, IsInjective, d
<1>4. s \in Surjection(1 .. d, S)
  BY <1>1, <1>3, FS_Injection DEF d
<1> QED
  BY <1>1, <1>2, <1>4 DEF Surjection, d

-----------------------------------------------------------------------------
(* DailyDropAnalyzer, for every series of closes.                          *)

Window(r) == Scr!TIER_CONFIGS[r].window
Decline(r) == Scr!TIER_CONFIGS[r].decline

(* The days a threshold is about, as the code numbers them and as Critical *)
(* does: by the day before the fall, and by the day of the fall.           *)
Falls(c, r, t) ==
  {k \in Scr!Drops(c, Window(r)) : (c[k + 1] - c[k]) * 1000 <= (0 - t) * c[k]}
FallsOn(c, r, t) ==
  {k \in Falls(c, r, t) : c[k + 1 + Window(r)] * 100 <= c[k + 1] * (100 - Decline(r))}

FallDays(c, r, t) ==
  {d \in 2 .. Len(c) : d + Window(r) <= Len(c) /\ c[d] > 0 /\ c[d - 1] > 0
                       /\ c[d] * 1000 <= c[d - 1] * (1000 - t)}
FallDaysOn(c, r, t) ==
  {d \in FallDays(c, r, t) : 100 * (c[d] - c[d + Window(r)]) >= Decline(r) * c[d]}

LEMMA TierValues ==
  ASSUME ScreenAssumption, NEW r \in Tier
  PROVE  /\ Window(r) \in Nat \ {0} /\ Decline(r) \in {9, 12, 15} /\ r \in Nat
         /\ Scr!FALLBACK_THRESHOLDS[r] \in {30, 40, 50}
<1>1. \A d \in Nat : Scr!Days(d) \in Nat \ {0}
  <2> SUFFICES ASSUME NEW d \in Nat PROVE Scr!Days(d) \in Nat \ {0}
    OBVIOUS
  <2>1. DayScale \in Nat \ {0}
    BY DEF ScreenAssumption
  <2>2. d \div DayScale \in Int
    BY <2>1
  <2> QED
    BY <2>2 DEF Scr!Days
<1>2. r \in {70, 80, 90}
  BY DEF ScreenAssumption
<1>3. CASE r = 70
  BY <1>1, <1>3 DEF Window, Decline, Scr!TIER_CONFIGS, Scr!FALLBACK_THRESHOLDS
<1>4. CASE r = 80
  BY <1>1, <1>4 DEF Window, Decline, Scr!TIER_CONFIGS, Scr!FALLBACK_THRESHOLDS
<1>5. CASE r = 90
  BY <1>1, <1>5 DEF Window, Decline, Scr!TIER_CONFIGS, Scr!FALLBACK_THRESHOLDS
<1> QED
  BY <1>2, <1>3, <1>4, <1>5

LEMMA NextDayCardinality ==
  ASSUME NEW A \in SUBSET Nat, IsFiniteSet(A), NEW B, B = {k + 1 : k \in A}
  PROVE  Cardinality(B) = Cardinality(A)
<1> DEFINE f == [k \in A |-> k + 1]
<1>1. f \in Bijection(A, B)
  BY DEF Bijection, Injection, Surjection, IsInjective
<1> QED
  BY <1>1, FS_Bijection DEF ExistsBijection

FellTo(x, y, t) == (y - x) * 1000 <= (0 - t) * x
FellBelow(x, y, t) == y * 1000 <= x * (1000 - t)

LEMMA TwoWaysToFall ==
  ASSUME NEW x \in Int, NEW y \in Int, NEW t \in Int PROVE FellTo(x, y, t) <=> FellBelow(x, y, t)
BY DEF FellTo, FellBelow

LEMMA SameFalls ==
  ASSUME ScreenAssumption, NEW r \in Tier, NEW c \in Seq(Int), NEW t \in Int
  PROVE  /\ IsFiniteSet(Scr!Drops(c, Window(r))) /\ Cardinality(Scr!Drops(c, Window(r))) \in Nat
         /\ Cardinality(Falls(c, r, t)) \in Nat
         /\ Cardinality(Falls(c, r, t)) <= Cardinality(Scr!Drops(c, Window(r)))
         /\ Cardinality(FallDays(c, r, t)) = Cardinality(Falls(c, r, t))
         /\ Cardinality(FallDaysOn(c, r, t)) = Cardinality(FallsOn(c, r, t))
<1> DEFINE w == Window(r)
           v == Decline(r)
           D == Scr!Drops(c, w)
<1>1. w \in Nat \ {0} /\ v \in {9, 12, 15} /\ Len(c) \in Nat
  BY TierValues
<1> HIDE DEF w, v
<1>2. D = {k \in 1 .. (Len(c) - w - 1) : c[k] > 0 /\ c[k + 1] > 0}
  BY DEF Scr!Drops
<1>3. D \in SUBSET (1 .. (Len(c) - w - 1)) /\ D \in SUBSET Nat
  BY <1>1, <1>2
<1>4. IsFiniteSet(1 .. (Len(c) - w - 1))
  BY <1>1, FS_Interval
<1>5. IsFiniteSet(D) /\ Cardinality(D) \in Nat
  BY <1>3, <1>4, FS_Subset, FS_CardinalityType
<1>6. Falls(c, r, t) \in SUBSET D /\ FallsOn(c, r, t) \in SUBSET Falls(c, r, t)
  BY DEF Falls, FallsOn, w
<1> HIDE DEF D
<1>7. /\ IsFiniteSet(Falls(c, r, t)) /\ Falls(c, r, t) \in SUBSET Nat
      /\ Cardinality(Falls(c, r, t)) \in Nat /\ Cardinality(Falls(c, r, t)) <= Cardinality(D)
  BY <1>3, <1>5, <1>6, FS_Subset, FS_CardinalityType
<1>8. IsFiniteSet(FallsOn(c, r, t)) /\ FallsOn(c, r, t) \in SUBSET Nat
  BY <1>6, <1>7, FS_Subset
<1>9. \A k \in Nat : k \in D <=> /\ k \in 1 .. (Len(c) - w - 1) /\ c[k] > 0 /\ c[k + 1] > 0
  BY <1>2
<1>10. \A k \in 1 .. (Len(c) - w - 1) :
         c[k] \in Int /\ c[k + 1] \in Int /\ c[k + 1 + w] \in Int
  <2>1. \A k \in 1 .. Len(c) : c[k] \in Int
    OBVIOUS
  <2> QED
    BY <1>1, <2>1
<1>11. \A k \in Nat : k \in Falls(c, r, t) <=> k + 1 \in FallDays(c, r, t)
  <2> SUFFICES ASSUME NEW k \in Nat
               PROVE  k \in Falls(c, r, t) <=> k + 1 \in FallDays(c, r, t)
    OBVIOUS
  <2>1. k \in Falls(c, r, t) <=>
          /\ k \in 1 .. (Len(c) - w - 1) /\ c[k] > 0 /\ c[k + 1] > 0
          /\ FellTo(c[k], c[k + 1], t)
    BY <1>9 DEF Falls, D, w, FellTo
  <2>2. k + 1 \in FallDays(c, r, t) <=>
          /\ k + 1 \in 2 .. Len(c) /\ (k + 1) + w <= Len(c) /\ c[k + 1] > 0 /\ c[(k + 1) - 1] > 0
          /\ FellBelow(c[(k + 1) - 1], c[k + 1], t)
    BY DEF FallDays, w, FellBelow
  <2>3. (k + 1 \in 2 .. Len(c) /\ (k + 1) + w <= Len(c)) <=> k \in 1 .. (Len(c) - w - 1)
    BY <1>1
  <2>4. (k + 1) - 1 = k
    OBVIOUS
  <2>5. k \in 1 .. (Len(c) - w - 1) => (FellTo(c[k], c[k + 1], t) <=> FellBelow(c[k], c[k + 1], t))
    BY <1>10, TwoWaysToFall
  <2> QED
    BY <2>1, <2>2, <2>3, <2>4, <2>5
<1>12. \A d \in FallDays(c, r, t) : d - 1 \in Nat /\ (d - 1) + 1 = d
  BY <1>1 DEF FallDays
<1>13. FallDays(c, r, t) = {k + 1 : k \in Falls(c, r, t)}
  <2>1. \A d \in FallDays(c, r, t) : d \in {k + 1 : k \in Falls(c, r, t)}
    BY <1>11, <1>12
  <2>2. \A k \in Falls(c, r, t) : k + 1 \in FallDays(c, r, t)
    BY <1>7, <1>11
  <2> QED
    BY <2>1, <2>2
<1>14. \A k \in Falls(c, r, t) : k \in FallsOn(c, r, t) <=> k + 1 \in FallDaysOn(c, r, t)
  <2> SUFFICES ASSUME NEW k \in Falls(c, r, t)
               PROVE  k \in FallsOn(c, r, t) <=> k + 1 \in FallDaysOn(c, r, t)
    OBVIOUS
  <2>1. k \in 1 .. (Len(c) - w - 1) /\ k \in Nat /\ k + 1 \in FallDays(c, r, t)
    BY <1>6, <1>7, <1>9, <1>11
  <2>2. c[k + 1] \in Int /\ c[(k + 1) + w] \in Int
    BY <1>10, <2>1
  <2>3. \A x, y \in Int : y * 100 <= x * (100 - v) <=> 100 * (x - y) >= v * x
    BY <1>1
  <2>4. k \in FallsOn(c, r, t) <=> c[(k + 1) + w] * 100 <= c[k + 1] * (100 - v)
    BY DEF FallsOn, w, v
  <2>5. k + 1 \in FallDaysOn(c, r, t) <=> 100 * (c[k + 1] - c[(k + 1) + w]) >= v * c[k + 1]
    BY <2>1 DEF FallDaysOn, w, v
  <2> QED
    BY <2>2, <2>3, <2>4, <2>5
<1>15. FallDaysOn(c, r, t) = {k + 1 : k \in FallsOn(c, r, t)}
  <2>1. \A d \in FallDaysOn(c, r, t) : d \in FallDays(c, r, t)
    BY DEF FallDaysOn
  <2>2. \A d \in FallDaysOn(c, r, t) : d \in {k + 1 : k \in FallsOn(c, r, t)}
    BY <1>13, <1>14, <2>1
  <2>3. \A k \in FallsOn(c, r, t) : k + 1 \in FallDaysOn(c, r, t)
    BY <1>6, <1>14
  <2> QED
    BY <2>2, <2>3
<1>16. Cardinality(FallDays(c, r, t)) = Cardinality(Falls(c, r, t))
  BY <1>7, <1>13, NextDayCardinality
<1>17. Cardinality(FallDaysOn(c, r, t)) = Cardinality(FallsOn(c, r, t))
  BY <1>8, <1>15, NextDayCardinality
<1> QED
  BY <1>5, <1>7, <1>16, <1>17 DEF D, w

LEMMA ScreenCardinality == \A S : Scr!Cardinality(S) = Cardinality(S)
BY DEF Scr!Cardinality, Cardinality

LEMMA QualifiesIsCritical ==
  ASSUME ScreenAssumption, NEW r \in Tier, NEW c \in Seq(Int), NEW t \in Int
  PROVE  /\ Scr!Qualifies(c, r, t) <=> Scr!Critical(c, r, t)
         /\ Scr!Critical(c, r, t) => Cardinality(Scr!Drops(c, Window(r))) >= MinSamples
<1> DEFINE a == Cardinality(Falls(c, r, t))
           b == Cardinality(FallsOn(c, r, t))
<1>1. Scr!Qualifies(c, r, t) <=> a >= MinSamples /\ b * 100 >= r * a
  <2>1. Scr!Qualifies(c, r, t) <=>
          /\ Scr!Cardinality(Falls(c, r, t)) >= MinSamples
          /\ Scr!Cardinality(FallsOn(c, r, t)) * 100 >= r * Scr!Cardinality(Falls(c, r, t))
    BY DEF Scr!Qualifies, Falls, FallsOn, Window, Decline
  <2> QED
    BY <2>1, ScreenCardinality
<1>2. Scr!Critical(c, r, t) <=>
        /\ Cardinality(FallDays(c, r, t)) >= MinSamples
        /\ 100 * Cardinality(FallDaysOn(c, r, t)) >= r * Cardinality(FallDays(c, r, t))
  <2>1. Scr!Critical(c, r, t) <=>
          /\ Scr!Cardinality(FallDays(c, r, t)) >= MinSamples
          /\ 100 * Scr!Cardinality(FallDaysOn(c, r, t)) >= r * Scr!Cardinality(FallDays(c, r, t))
    BY DEF Scr!Critical, FallDays, FallDaysOn, Window, Decline
  <2> QED
    BY <2>1, ScreenCardinality
<1>3. b \in Nat
  <2>1. Falls(c, r, t) \in SUBSET Scr!Drops(c, Window(r)) /\ FallsOn(c, r, t) \in SUBSET Falls(c, r, t)
    BY DEF Falls, FallsOn
  <2> QED
    BY <2>1, SameFalls, FS_Subset, FS_CardinalityType
<1>4. /\ Cardinality(FallDays(c, r, t)) = a /\ Cardinality(FallDaysOn(c, r, t)) = b /\ a \in Nat
      /\ a <= Cardinality(Scr!Drops(c, Window(r)))
      /\ Cardinality(Scr!Drops(c, Window(r))) \in Nat
  BY SameFalls
<1>5. MinSamples \in Nat
  BY DEF ScreenAssumption
<1> HIDE DEF a, b
<1>6. Scr!Critical(c, r, t) <=> a >= MinSamples /\ 100 * b >= r * a
  BY <1>2, <1>4
<1>7. 100 * b = b * 100
  BY <1>3
<1> QED
  BY <1>1, <1>4, <1>5, <1>6, <1>7

(* CANDIDATE_THRESHOLDS rises, within 1 and 15 percent. *)
Candidates == Scr!CANDIDATE_THRESHOLDS

LEMMA CandidatesRise ==
  /\ Len(Candidates) = 24 /\ DOMAIN Candidates = 1 .. 24
  /\ \A k \in 1 .. 24 : Candidates[k] \in Int /\ 10 <= Candidates[k] /\ Candidates[k] <= 150
  /\ \A k, n \in 1 .. 24 : k < n => Candidates[k] < Candidates[n]
<1>1. Len(Candidates) = 24 /\ DOMAIN Candidates = 1 .. 24
  BY DEF Candidates, Scr!CANDIDATE_THRESHOLDS
<1>2. /\ Candidates[1] = 10 /\ Candidates[2] = 15 /\ Candidates[3] = 20 /\ Candidates[4] = 25
      /\ Candidates[5] = 30 /\ Candidates[6] = 35 /\ Candidates[7] = 40 /\ Candidates[8] = 45
      /\ Candidates[9] = 50 /\ Candidates[10] = 55 /\ Candidates[11] = 60 /\ Candidates[12] = 65
      /\ Candidates[13] = 70 /\ Candidates[14] = 75 /\ Candidates[15] = 80 /\ Candidates[16] = 85
      /\ Candidates[17] = 90 /\ Candidates[18] = 95 /\ Candidates[19] = 100 /\ Candidates[20] = 110
      /\ Candidates[21] = 120 /\ Candidates[22] = 130 /\ Candidates[23] = 140 /\ Candidates[24] = 150
  BY DEF Candidates, Scr!CANDIDATE_THRESHOLDS
<1>3. \A k \in 1 .. 24 : Candidates[k] \in Int /\ 10 <= Candidates[k] /\ Candidates[k] <= 150
  BY <1>2
<1>5. \A k \in 1 .. 23 : Candidates[k] < Candidates[k + 1]
  <2>1. \A k \in 1 .. 18 : Candidates[k] = 5 * k + 5
    BY <1>2
  <2>2. \A k \in 19 .. 24 : Candidates[k] = 10 * k - 90
    BY <1>2
  <2> QED
    BY <2>1, <2>2
<1>4. ASSUME NEW k \in 1 .. 24, NEW n \in 1 .. 24, k < n, ~(Candidates[k] < Candidates[n]) PROVE FALSE
  <2> DEFINE Bad == {m \in 1 .. 24 : k < m /\ ~(Candidates[k] < Candidates[m])}
  <2>1. PICK m \in Bad : \A q \in Bad : m <= q
    BY <1>4, LeastNumber
  <2>2. m - 1 \in 1 .. 23 /\ m - 1 \in 1 .. 24 /\ m - 1 \notin Bad /\ (m - 1) + 1 = m /\ m \in 1 .. 24
    BY <2>1
  <2>3. Candidates[m - 1] < Candidates[m]
    BY <1>5, <2>2
  <2>4. Candidates[k] < Candidates[m - 1] \/ k = m - 1
    BY <2>1, <2>2
  <2>5. Candidates[k] \in Int /\ Candidates[m] \in Int /\ Candidates[m - 1] \in Int
    BY <1>3, <2>2
  <2> QED
    BY <2>1, <2>3, <2>4, <2>5
<1> QED
  BY <1>1, <1>3, <1>4

(* The scan as a recursive function exists and finds the first candidate   *)
(* that qualifies.                                                         *)
IsScan(f, c, r) ==
  f = [k \in 1 .. 25 |->
        IF k > 24 THEN Scr!Fallback(r, c)
        ELSE IF Scr!Qualifies(c, r, Candidates[k])
             THEN Scr!Answer(Candidates[k], FALSE, c)
             ELSE f[k + 1]]

LEMMA ScanExists == ASSUME NEW c, NEW r PROVE \E f : IsScan(f, c, r)
<1> DEFINE Q(k) == Scr!Qualifies(c, r, Candidates[k])
           A(k) == Scr!Answer(Candidates[k], FALSE, c)
           B == Scr!Fallback(r, c)
           First(k) == CHOOSE n \in k .. 24 : Q(n) /\ \A m \in k .. 24 : Q(m) => n <= m
           G(k) == IF \E n \in k .. 24 : Q(n) THEN A(First(k)) ELSE B
<1> HIDE DEF Q, A, B
<1>1. ASSUME NEW k \in 1 .. 24, Q(k) PROVE G(k) = A(k)
  <2>1. k \in k .. 24 /\ Q(k) /\ \A m \in k .. 24 : Q(m) => k <= m
    BY <1>1
  <2>2. \A n \in k .. 24 : (Q(n) /\ \A m \in k .. 24 : Q(m) => n <= m) => n = k
    BY <1>1
  <2>3. First(k) = k
    BY <2>1, <2>2
  <2> QED
    BY <2>1, <2>3
<1>2. ASSUME NEW k \in 1 .. 24, ~Q(k) PROVE G(k) = G(k + 1)
  <2>1. \A n : (n \in k .. 24 /\ Q(n)) <=> (n \in (k + 1) .. 24 /\ Q(n))
    BY <1>2
  <2>2. CASE ~\E n \in k .. 24 : Q(n)
    BY <2>1, <2>2
  <2>3. CASE \E n \in k .. 24 : Q(n)
    <3> DEFINE N == {n \in (k + 1) .. 24 : Q(n)}
    <3>1. N # {} /\ N \in SUBSET Nat
      BY <2>1, <2>3
    <3>2. PICK p \in N : \A q \in N : p <= q
      BY <3>1, LeastNumber
    <3>3. p \in k .. 24 /\ p \in (k + 1) .. 24 /\ Q(p)
      BY <2>1, <3>2
    <3>4. \A m \in k .. 24 : Q(m) => p <= m
      BY <2>1, <3>2
    <3>5. \A m \in (k + 1) .. 24 : Q(m) => p <= m
      BY <3>2
    <3>6. \A n \in k .. 24 : (Q(n) /\ \A m \in k .. 24 : Q(m) => n <= m) => n = p
      BY <3>3, <3>4
    <3>7. \A n \in (k + 1) .. 24 : (Q(n) /\ \A m \in (k + 1) .. 24 : Q(m) => n <= m) => n = p
      BY <3>3, <3>5
    <3>8. First(k) = p
      BY <3>3, <3>4, <3>6
    <3>9. First(k + 1) = p
      BY <3>3, <3>5, <3>7
    <3>10. G(k) = A(p)
      BY <2>3, <3>8
    <3>11. \E n \in (k + 1) .. 24 : Q(n)
      BY <3>3
    <3>12. G(k + 1) = A(p)
      BY <3>9, <3>11
    <3> QED
      BY <3>10, <3>12
  <2> QED
    BY <2>2, <2>3
<1>3. G(25) = B
  OBVIOUS
<1> HIDE DEF G
<1> DEFINE f == [k \in 1 .. 25 |-> G(k)]
<1>4. \A k \in 1 .. 24 : k + 1 \in 1 .. 25 /\ f[k + 1] = G(k + 1)
  OBVIOUS
<1>5. \A k \in 1 .. 25 : G(k) = IF k > 24 THEN B ELSE IF Q(k) THEN A(k) ELSE f[k + 1]
  <2> SUFFICES ASSUME NEW k \in 1 .. 25
               PROVE  G(k) = IF k > 24 THEN B ELSE IF Q(k) THEN A(k) ELSE f[k + 1]
    OBVIOUS
  <2>1. CASE k = 25
    BY <1>3, <2>1
  <2>2. CASE k \in 1 .. 24
    BY <1>1, <1>2, <1>4, <2>2
  <2> QED
    BY <2>1, <2>2
<1>6. f = [k \in 1 .. 25 |-> IF k > 24 THEN B ELSE IF Q(k) THEN A(k) ELSE f[k + 1]]
  BY <1>5
<1> QED
  BY <1>6 DEF IsScan, Q, A, B

LEMMA ScanFinds ==
  ASSUME NEW c, NEW r, NEW f, IsScan(f, c, r)
  PROVE  \/ /\ f[1] = Scr!Fallback(r, c)
            /\ \A n \in 1 .. 24 : ~Scr!Qualifies(c, r, Candidates[n])
         \/ \E p \in 1 .. 24 :
              /\ f[1] = Scr!Answer(Candidates[p], FALSE, c)
              /\ Scr!Qualifies(c, r, Candidates[p])
              /\ \A n \in 1 .. (p - 1) : ~Scr!Qualifies(c, r, Candidates[n])
<1> DEFINE Q(k) == Scr!Qualifies(c, r, Candidates[k])
           A(k) == Scr!Answer(Candidates[k], FALSE, c)
           B == Scr!Fallback(r, c)
<1>1. f = [k \in 1 .. 25 |-> IF k > 24 THEN B ELSE IF Q(k) THEN A(k) ELSE f[k + 1]]
  BY DEF IsScan
<1> HIDE DEF Q, A, B
<1>2. /\ f[25] = B
      /\ \A k \in 1 .. 24 : f[k] = IF Q(k) THEN A(k) ELSE f[k + 1]
  <2>1. \A k \in 1 .. 25 : f[k] = IF k > 24 THEN B ELSE IF Q(k) THEN A(k) ELSE f[k + 1]
    BY <1>1
  <2> QED
    BY <2>1
<1>3. ASSUME NEW p \in 1 .. 25, \A n \in 1 .. (p - 1) : ~Q(n) PROVE f[1] = f[p]
  <2> DEFINE Bad == {k \in 1 .. p : f[1] # f[k]}
  <2> SUFFICES ASSUME Bad # {} PROVE FALSE
    BY <1>3
  <2>1. PICK m \in Bad : \A q \in Bad : m <= q
    <3>1. Bad \in SUBSET Nat
      OBVIOUS
    <3> HIDE DEF Bad
    <3> QED
      BY <3>1, LeastNumber
  <2>2. m \in 1 .. p /\ m # 1 /\ f[1] # f[m]
    BY <2>1
  <2>3. m - 1 \in 1 .. p /\ m - 1 \notin Bad /\ (m - 1) + 1 = m /\ m - 1 \in 1 .. 24
        /\ m - 1 \in 1 .. (p - 1)
    BY <1>3, <2>1, <2>2
  <2>4. f[m - 1] = f[m]
    BY <1>2, <1>3, <2>3
  <2> QED
    BY <2>2, <2>3, <2>4
<1>4. CASE \A n \in 1 .. 24 : ~Q(n)
  <2>1. f[1] = f[25]
    BY <1>3, <1>4
  <2> QED
    BY <1>2, <1>4, <2>1 DEF Q, B
<1>5. CASE \E n \in 1 .. 24 : Q(n)
  <2> DEFINE N == {n \in 1 .. 24 : Q(n)}
  <2>1. PICK p \in N : \A q \in N : p <= q
    BY <1>5, LeastNumber
  <2>2. p \in 1 .. 24 /\ p \in 1 .. 25 /\ Q(p) /\ \A n \in 1 .. (p - 1) : ~Q(n)
    BY <2>1
  <2>3. f[1] = f[p]
    BY <1>3, <2>2
  <2>4. f[p] = A(p)
    BY <1>2, <2>2
  <2> QED
    BY <2>2, <2>3, <2>4 DEF Q, A
<1> QED
  BY <1>4, <1>5

(* What screening answers is what its closes bear out: the smallest        *)
(* critical drop, or the fallback when no candidate is critical.           *)
LEMMA AnalysisJustified ==
  ASSUME ScreenAssumption, NEW r \in Tier, NEW c \in Seq(Int)
  PROVE  Scr!Justified(Scr!AnalyzeDetailed(c, r), r)
<1> DEFINE x == Scr!AnalyzeDetailed(c, r)
           Early == Len(c) < Window(r) + 2 \/ Scr!Cardinality(Scr!Drops(c, Window(r))) < MinSamples
<1> SUFFICES Scr!Justified(x, r)
  OBVIOUS
<1>1. ASSUME x = Scr!Fallback(r, c), \A n \in 1 .. 24 : ~Scr!Critical(c, r, Candidates[n])
      PROVE  Scr!Justified(x, r)
  <2>1. x.used_fallback /\ x.threshold = Scr!FALLBACK_THRESHOLDS[r] /\ x.from = c
    BY <1>1 DEF Scr!Fallback, Scr!Answer
  <2>2. \A t \in Scr!Range(Candidates) : ~Scr!Critical(c, r, t)
    BY <1>1, CandidatesRise DEF Scr!Range
  <2> HIDE DEF x
  <2> QED
    BY <2>1, <2>2 DEF Scr!Justified, Candidates
<1>2. ASSUME NEW p \in 1 .. 24, x = Scr!Answer(Candidates[p], FALSE, c),
             Scr!Critical(c, r, Candidates[p]),
             \A n \in 1 .. (p - 1) : ~Scr!Critical(c, r, Candidates[n])
      PROVE  Scr!Justified(x, r)
  <2>1. x.used_fallback = FALSE /\ x.threshold = Candidates[p] /\ x.from = c
    BY <1>2 DEF Scr!Answer
  <2>2. Candidates[p] \in Scr!Range(Candidates)
    BY CandidatesRise DEF Scr!Range
  <2>3. ASSUME NEW t \in Scr!Range(Candidates), t < Candidates[p] PROVE ~Scr!Critical(c, r, t)
    <3>1. PICK n \in 1 .. 24 : t = Candidates[n]
      <4>1. DOMAIN Candidates = 1 .. 24
        BY CandidatesRise
      <4> QED
        BY <2>3, <4>1 DEF Scr!Range
    <3>2. n \in 1 .. (p - 1)
      <4>1. Candidates[n] \in Int /\ Candidates[p] \in Int
        BY CandidatesRise
      <4>2. p # n
        BY <2>3, <3>1, <4>1
      <4>3. p < n => Candidates[p] < Candidates[n]
        BY CandidatesRise
      <4>4. ~(p < n)
        BY <2>3, <3>1, <4>1, <4>3
      <4> QED
        BY <4>2, <4>4
    <3> QED
      BY <1>2, <3>1, <3>2
  <2> HIDE DEF x
  <2> QED
    BY <1>2, <2>1, <2>2, <2>3 DEF Scr!Justified, Candidates
<1>3. \A n \in 1 .. 24 : Candidates[n] \in Int
  BY CandidatesRise
<1>4. \A n \in 1 .. 24 : Scr!Qualifies(c, r, Candidates[n]) <=> Scr!Critical(c, r, Candidates[n])
  BY <1>3, QualifiesIsCritical
<1>5. CASE Early
  <2>1. x = Scr!Fallback(r, c)
    BY <1>5 DEF Scr!AnalyzeDetailed, Window
  <2>2. Cardinality(Scr!Drops(c, Window(r))) < MinSamples
    <3>1. CASE Len(c) < Window(r) + 2
      <4>1. Window(r) \in Nat /\ Len(c) \in Nat /\ MinSamples \in Nat \ {0}
        BY TierValues DEF ScreenAssumption
      <4>2. Scr!Drops(c, Window(r)) = {}
        BY <3>1, <4>1 DEF Scr!Drops
      <4> QED
        BY <4>1, <4>2, FS_EmptySet
    <3> QED
      BY <1>5, <3>1, ScreenCardinality
  <2>3. \A n \in 1 .. 24 : ~Scr!Critical(c, r, Candidates[n])
    <3>1. Cardinality(Scr!Drops(c, Window(r))) \in Nat /\ MinSamples \in Nat
      BY SameFalls DEF ScreenAssumption
    <3>2. ASSUME NEW n \in 1 .. 24, Scr!Critical(c, r, Candidates[n]) PROVE FALSE
      <4>1. Candidates[n] \in Int
        BY <1>3
      <4>2. Cardinality(Scr!Drops(c, Window(r))) >= MinSamples
        BY <3>2, <4>1, QualifiesIsCritical
      <4> QED
        BY <2>2, <3>1, <4>2
    <3> QED
      BY <3>2
  <2> QED
    BY <1>1, <2>1, <2>3
<1>6. CASE ~Early
  <2> DEFINE f == CHOOSE f : IsScan(f, c, r)
  <2>1. IsScan(f, c, r)
    BY ScanExists
  <2>2. x = f[1]
    <3>1. Len(Candidates) = 24 /\ 24 + 1 = 25
      BY CandidatesRise
    <3> QED
      BY <1>6, <3>1 DEF Scr!AnalyzeDetailed, Window, IsScan, Candidates
  <2> HIDE DEF f, x
  <2>3. \/ /\ x = Scr!Fallback(r, c)
           /\ \A n \in 1 .. 24 : ~Scr!Qualifies(c, r, Candidates[n])
        \/ \E p \in 1 .. 24 :
             /\ x = Scr!Answer(Candidates[p], FALSE, c)
             /\ Scr!Qualifies(c, r, Candidates[p])
             /\ \A n \in 1 .. (p - 1) : ~Scr!Qualifies(c, r, Candidates[n])
    BY <2>1, <2>2, ScanFinds
  <2>4. \A p \in 1 .. 24 : \A n \in 1 .. (p - 1) : n \in 1 .. 24
    OBVIOUS
  <2>5. CASE /\ x = Scr!Fallback(r, c)
             /\ \A n \in 1 .. 24 : ~Scr!Qualifies(c, r, Candidates[n])
    BY <1>1, <1>4, <2>5
  <2>6. ASSUME NEW p \in 1 .. 24, x = Scr!Answer(Candidates[p], FALSE, c),
               Scr!Qualifies(c, r, Candidates[p]),
               \A n \in 1 .. (p - 1) : ~Scr!Qualifies(c, r, Candidates[n])
        PROVE  Scr!Justified(x, r)
    BY <1>2, <1>4, <2>4, <2>6
  <2> QED
    BY <2>3, <2>5, <2>6
<1> QED
  BY <1>5, <1>6

LEMMA ScreeningJustified ==
  ASSUME ScreenAssumption, NEW r \in Tier, NEW c \in Seq(Int)
  PROVE  Scr!Justified(Scr!ScreenSymbol(c, r), r)
<1>1. CASE c = <<>>
  <2>1. Scr!AnalyzeDetailed(<<>>, r) = Scr!Fallback(r, <<>>)
    <3>1. Len(<<>>) = 0 /\ Window(r) \in Nat
      BY TierValues
    <3> QED
      BY <3>1 DEF Scr!AnalyzeDetailed, Window
  <2> QED
    BY <1>1, <2>1, AnalysisJustified DEF Scr!ScreenSymbol
<1>2. CASE c # <<>>
  <2> DEFINE e == IF Len(c) > Lookback THEN SubSeq(c, Len(c) - Lookback + 1, Len(c)) ELSE c
  <2>1. e \in Seq(Int)
    <3>1. Lookback \in Nat /\ Len(c) \in Nat
      BY DEF ScreenAssumption
    <3>2. Len(c) > Lookback => SubSeq(c, Len(c) - Lookback + 1, Len(c)) \in Seq(Int)
      BY <3>1, SubSeqProperties
    <3> QED
      BY <3>2
  <2>2. Scr!ScreenSymbol(c, r) = Scr!AnalyzeDetailed(e, r)
    BY <1>2 DEF Scr!ScreenSymbol
  <2> HIDE DEF e
  <2> QED
    BY <2>1, <2>2, AnalysisJustified
<1> QED
  BY <1>1, <1>2

-----------------------------------------------------------------------------
(* The rates and the symbols a pass goes through.                          *)

LEMMA RatesListed ==
  ASSUME ScreenAssumption
  PROVE  /\ Len(Scr!Rates) \in Nat \ {0} /\ DOMAIN Scr!Rates = 1 .. Len(Scr!Rates)
         /\ \A n \in 1 .. Len(Scr!Rates) : Scr!Rates[n] \in Tier
<1> DEFINE key == [r \in Tier |-> r]
           d == Cardinality(Tier)
<1>1. IsFiniteSet(Tier) /\ Keyed(Tier, key) /\ Tier # {}
  <2>1. PICK n \in Nat : n = 90
    OBVIOUS
  <2>2. IsFiniteSet(1 .. n)
    BY FS_Interval
  <2>3. Tier \subseteq 1 .. n
    BY <2>1 DEF ScreenAssumption
  <2>4. Keyed(Tier, key) /\ Tier # {}
    BY DEF Keyed, ScreenAssumption
  <2>5. IsFiniteSet(Tier)
    BY <2>2, <2>3, FS_Subset
  <2> QED
    BY <2>4, <2>5
<1>2. d \in Nat \ {0}
  BY <1>1, FS_CardinalityType, FS_EmptySet
<1>3. PICK s \in [1 .. d -> Tier] : Ascends(s, key)
  BY <1>1, ListingExists
<1>4. \A m, n \in DOMAIN s : m < n => s[m] < s[n]
  BY <1>3 DEF Ascends
<1>5. s \in Scr!SetToSeqs(Tier)
  <2>1. \A m, n \in 1 .. d : m # n => s[m] # s[n]
    BY <1>1, <1>3, ListingHolds
  <2> QED
    BY <1>3, <2>1, ScreenCardinality DEF Scr!SetToSeqs
<1>6. Scr!Rates \in Scr!SetToSeqs(Tier)
  BY <1>4, <1>5 DEF Scr!Rates
<1>7. Scr!Rates \in [1 .. d -> Tier]
  BY <1>6, ScreenCardinality DEF Scr!SetToSeqs
<1> QED
  BY <1>2, <1>7

LEMMA SymbolsListed ==
  ASSUME ScreenAssumption, NEW p, NEW symbols \in Scr!Requested(p)
  PROVE  symbols \in Seq(Scr!Listed)
<1> DEFINE n == Cardinality(ScreenCoin)
           coins == Scr!Coins
<1>1. n \in Nat /\ coins \in [1 .. n -> ScreenCoin]
  <2>1. IsFiniteSet(ScreenCoin)
    BY DEF ScreenAssumption
  <2>2. n \in Nat /\ \E f : f \in Bijection(1 .. n, ScreenCoin)
    BY <2>1, FS_CardinalityType DEF ExistsBijection
  <2>3. PICK f \in [1 .. n -> ScreenCoin] : Scr!IsInjective(f)
    BY <2>2 DEF Bijection, Injection, IsInjective, Scr!IsInjective
  <2> QED
    BY <2>2, <2>3, ScreenCardinality DEF Scr!Coins, Scr!SetToSeq
<1>2. \A k \in 1 .. n : Scr!Pair(coins[k]) \in Scr!Listed /\ Scr!Base(coins[k]) \in Scr!Listed
  BY <1>1 DEF Scr!Listed
<1>3. DOMAIN coins = 1 .. n
  BY <1>1
<1> HIDE DEF n, coins
<1>4. Scr!StartupSymbols \in [1 .. n -> Scr!Listed]
  BY <1>2, <1>3 DEF Scr!StartupSymbols, coins
<1>5. [k \in DOMAIN Scr!Coins |-> Scr!Base(Scr!Coins[k])] \in [1 .. n -> Scr!Listed]
  BY <1>2, <1>3 DEF coins
<1>6. \A s \in [1 .. n -> Scr!Listed] : s \in Seq(Scr!Listed)
  BY <1>1
<1>7. Scr!Reverse(Scr!StartupSymbols) \in Seq(Scr!Listed)
  <2>1. Len(Scr!StartupSymbols) = n
    BY <1>1, <1>4
  <2>2. \A i \in 1 .. n : (n - i) + 1 \in 1 .. n
    BY <1>1
  <2>3. Scr!Reverse(Scr!StartupSymbols) \in [1 .. n -> Scr!Listed]
    BY <1>4, <2>1, <2>2 DEF Scr!Reverse
  <2> QED
    BY <1>6, <2>3
<1> QED
  BY <1>4, <1>5, <1>6, <1>7 DEF Scr!Requested, Scr!AdminSymbols

-----------------------------------------------------------------------------
(* The thresholds a pass stores.  A row is absent or one somebody screened *)
(* and nobody has given an unknown resume mode; what a pass holds in hand  *)
(* for its rate is borne out wherever its candles have arrived.            *)

ThresholdRow(row, r) ==
  /\ row = [screened |-> row.screened, resume |-> row.resume]
  /\ row.resume \in Scr!ResumeModes /\ Scr!Justified(row.screened, r)

TableSound(table) ==
  /\ table = [k \in Scr!Listed \X Tier |-> table[k]]
  /\ \A k \in Scr!Listed \X Tier : table[k] = Scr!NoRow \/ ThresholdRow(table[k], k[2])

Shaped(x) ==
  x = [at |-> x.at, symbols |-> x.symbols, rate |-> x.rate, fetching |-> x.fetching,
       results |-> x.results, written |-> x.written]

ScreenedSoFar(x) ==
  /\ x.symbols \in Seq(Scr!Listed) /\ x.rate \in 1 .. Len(Scr!Rates)
  /\ x.fetching \subseteq DOMAIN x.symbols
  /\ x.results = [k \in DOMAIN x.symbols |-> x.results[k]]
  /\ \A k \in DOMAIN x.symbols \ x.fetching : Scr!Justified(x.results[k], Scr!Rates[x.rate])

Passing(x) == x = Scr!Away \/ (Shaped(x) /\ x.at = "screening" /\ ScreenedSoFar(x))

StoredBefore(x, table) ==
  \A n \in 1 .. x.rate - 1 : \A s \in Scr!Range(x.symbols) : table[<<s, Scr!Rates[n]>>] # Scr!NoRow

Probed == probe.rate # 0 => probe.rate \in Tier /\ Scr!Justified(probe.screened, probe.rate)

ScrInv ==
  /\ TableSound(thresholds)
  /\ candles \in [Scr!Listed -> Seq(Int)]
  /\ pass = [p \in Scr!Caller |-> pass[p]]
  /\ \A p \in Scr!Caller : Passing(pass[p]) /\ StoredBefore(pass[p], thresholds)
  /\ Probed

LEMMA PassingFields ==
  ASSUME ScreenAssumption, NEW x, Passing(x)
  PROVE  /\ Shaped(x) /\ x.at \in {"away", "screening"}
         /\ x.at = "screening" => ScreenedSoFar(x)
         /\ x.fetching # {} => x.at = "screening"
BY DEF Passing, Shaped, Scr!Away

LEMMA ScreeningSound ==
  ASSUME ScreenAssumption, candles \in [Scr!Listed -> Seq(Int)],
         NEW symbols \in Seq(Scr!Listed), NEW n \in 1 .. Len(Scr!Rates)
  PROVE  /\ Passing(Scr!Screening(symbols, n))
         /\ Scr!Screening(symbols, n).symbols = symbols /\ Scr!Screening(symbols, n).rate = n
<1> DEFINE x == Scr!Screening(symbols, n)
           missing == {k \in DOMAIN symbols : candles[symbols[k]] = Scr!Nothing}
<1>1. x = [at |-> "screening", symbols |-> symbols, rate |-> n, fetching |-> missing,
           results |-> [k \in DOMAIN symbols |->
                          IF k \in missing THEN Scr!Nothing
                          ELSE Scr!ScreenSymbol(candles[symbols[k]], Scr!Rates[n])],
           written |-> 0]
  BY DEF Scr!Screening
<1> HIDE DEF missing
<1>2. Shaped(x) /\ x.at = "screening" /\ x.symbols = symbols /\ x.rate = n /\ x.fetching = missing
      /\ x.results = [k \in DOMAIN symbols |->
                       IF k \in missing THEN Scr!Nothing
                       ELSE Scr!ScreenSymbol(candles[symbols[k]], Scr!Rates[n])]
  BY <1>1 DEF Shaped
<1> HIDE DEF x
<1>3. \A k \in DOMAIN symbols : candles[symbols[k]] \in Seq(Int)
  OBVIOUS
<1>4. Scr!Rates[n] \in Tier
  BY RatesListed
<1>5. \A k \in DOMAIN symbols : Scr!Justified(Scr!ScreenSymbol(candles[symbols[k]], Scr!Rates[n]), Scr!Rates[n])
  BY <1>3, <1>4, ScreeningJustified
<1>6. ScreenedSoFar(x)
  <2>1. missing \subseteq DOMAIN symbols
    BY DEF missing
  <2>2. x.results = [k \in DOMAIN x.symbols |-> x.results[k]]
    BY <1>2
  <2>3. \A k \in DOMAIN x.symbols \ x.fetching : Scr!Justified(x.results[k], Scr!Rates[x.rate])
    BY <1>2, <1>5
  <2> QED
    BY <1>2, <2>1, <2>2, <2>3 DEF ScreenedSoFar
<1> QED
  BY <1>2, <1>6 DEF Passing, x

LEMMA AwayPasses == \A table : Passing(Scr!Away) /\ StoredBefore(Scr!Away, table)
BY DEF Passing, StoredBefore, Scr!Away

LEMMA ScrInitInv == ASSUME ScreenAssumption, Scr!Init PROVE ScrInv
<1>1. TableSound(thresholds)
  BY DEF Scr!Init, TableSound
<1>2. candles \in [Scr!Listed -> Seq(Int)]
  <2>1. Scr!Nothing \in Seq(Int)
    BY DEF Scr!Nothing
  <2> QED
    BY <2>1 DEF Scr!Init
<1>3. pass = [p \in Scr!Caller |-> pass[p]] /\ \A p \in Scr!Caller : pass[p] = Scr!Away
  BY DEF Scr!Init
<1>4. Probed
  BY DEF Scr!Init, Probed
<1> QED
  BY <1>1, <1>2, <1>3, <1>4, AwayPasses DEF ScrInv

(* What a call of the table and one pass changes is sound if the other     *)
(* parts are left alone.                                                   *)
LEMMA PassFrame ==
  ASSUME ScrInv, NEW p \in Scr!Caller, NEW x, pass' = [pass EXCEPT ![p] = x],
         Passing(x), StoredBefore(x, thresholds), UNCHANGED <<thresholds, probe>>,
         candles' \in [Scr!Listed -> Seq(Int)]
  PROVE  ScrInv'
<1>1. pass' = [q \in Scr!Caller |-> pass'[q]] /\ pass'[p] = x
      /\ \A q \in Scr!Caller : q # p => pass'[q] = pass[q]
  BY DEF ScrInv
<1>2. \A q \in Scr!Caller : Passing(pass'[q]) /\ StoredBefore(pass'[q], thresholds')
  BY <1>1 DEF ScrInv
<1> QED
  BY <1>1, <1>2 DEF ScrInv, Probed

LEMMA PassAnswers ==
  ASSUME NEW x, Shaped(x), NEW f, NEW o
  PROVE  [x EXCEPT !.fetching = f, !.results = o] =
         [at |-> x.at, symbols |-> x.symbols, rate |-> x.rate, fetching |-> f, results |-> o,
          written |-> x.written]
<1>1. [x EXCEPT !.fetching = f] =
      [at |-> x.at, symbols |-> x.symbols, rate |-> x.rate, fetching |-> f,
       results |-> x.results, written |-> x.written]
  BY DEF Shaped
<1>2. PICK y : y = [x EXCEPT !.fetching = f]
  OBVIOUS
<1>3. [y EXCEPT !.results = o] =
      [at |-> x.at, symbols |-> x.symbols, rate |-> x.rate, fetching |-> f, results |-> o,
       written |-> x.written]
  <2>1. /\ y.at = x.at /\ y.symbols = x.symbols /\ y.rate = x.rate /\ y.fetching = f
        /\ y.results = x.results /\ y.written = x.written
    BY <1>1, <1>2
  <2>2. Shaped(y)
    BY <1>1, <1>2, <2>1 DEF Shaped
  <2>3. [y EXCEPT !.results = o] =
        [at |-> y.at, symbols |-> y.symbols, rate |-> y.rate, fetching |-> y.fetching,
         results |-> o, written |-> y.written]
    BY <2>2 DEF Shaped
  <2> QED
    BY <2>1, <2>3
<1> QED
  BY <1>2, <1>3

LEMMA AnsweredInv ==
  ASSUME ScreenAssumption, ScrInv, NEW p \in Scr!Caller, NEW k \in pass[p].fetching,
         NEW c \in Seq(Int), Scr!Answered(p, k, c), UNCHANGED <<thresholds, probe>>,
         candles' \in [Scr!Listed -> Seq(Int)]
  PROVE  ScrInv'
<1> DEFINE x == pass[p]
           y == [at |-> x.at, symbols |-> x.symbols, rate |-> x.rate,
                 fetching |-> x.fetching \ {k},
                 results |-> [x.results EXCEPT ![k] = Scr!ScreenSymbol(c, Scr!Rates[x.rate])],
                 written |-> x.written]
<1>1. Passing(x) /\ StoredBefore(x, thresholds) /\ Shaped(x) /\ x.at = "screening" /\ ScreenedSoFar(x)
  BY PassingFields DEF ScrInv
<1>2. pass' = [pass EXCEPT ![p] = y]
  <2>1. pass' = [pass EXCEPT ![p] = [x EXCEPT !.fetching = x.fetching \ {k},
                   !.results = [x.results EXCEPT ![k] = Scr!ScreenSymbol(c, Scr!Rates[x.rate])]]]
    BY DEF Scr!Answered, Scr!Rate
  <2>2. [x EXCEPT !.fetching = x.fetching \ {k},
                  !.results = [x.results EXCEPT ![k] = Scr!ScreenSymbol(c, Scr!Rates[x.rate])]] = y
    <3>1. Shaped(x)
      BY <1>1
    <3> HIDE DEF x
    <3> QED
      BY <3>1, PassAnswers
  <2> QED
    BY <2>1, <2>2
<1>3. Scr!Justified(Scr!ScreenSymbol(c, Scr!Rates[x.rate]), Scr!Rates[x.rate])
  BY <1>1, RatesListed, ScreeningJustified DEF ScreenedSoFar
<1>4. ScreenedSoFar(y)
  BY <1>1, <1>3 DEF ScreenedSoFar
<1>5. Passing(y) /\ StoredBefore(y, thresholds)
  BY <1>1, <1>4 DEF Passing, Shaped, StoredBefore
<1> HIDE DEF y
<1> QED
  BY <1>2, <1>5, PassFrame

LEMMA BeginInv ==
  ASSUME ScreenAssumption, ScrInv, NEW p \in Scr!Caller, Scr!Begin(p) PROVE ScrInv'
<1>1. PICK symbols \in Scr!Requested(p) : pass' = [pass EXCEPT ![p] = Scr!Screening(symbols, 1)]
  BY DEF Scr!Begin
<1> DEFINE x == Scr!Screening(symbols, 1)
<1>2. symbols \in Seq(Scr!Listed) /\ 1 \in 1 .. Len(Scr!Rates)
  BY SymbolsListed, RatesListed
<1>3. Passing(x) /\ x.rate = 1
  BY <1>2, ScreeningSound DEF ScrInv
<1> HIDE DEF x
<1>4. StoredBefore(x, thresholds)
  BY <1>3 DEF StoredBefore
<1>5. pass' = [pass EXCEPT ![p] = x] /\ UNCHANGED <<thresholds, probe, candles>>
  BY <1>1 DEF Scr!Begin, x
<1> QED
  BY <1>3, <1>4, <1>5, PassFrame DEF ScrInv

LEMMA UpsertInv ==
  ASSUME ScreenAssumption, ScrInv, NEW p \in Scr!Caller, Scr!Upsert(p) PROVE ScrInv'
<1> DEFINE x == pass[p]
           y == [x EXCEPT !.written = x.written + 1]
<1>1. Passing(x) /\ StoredBefore(x, thresholds) /\ Shaped(x) /\ x.at = "screening" /\ ScreenedSoFar(x)
  BY PassingFields DEF ScrInv, Scr!Upsert
<1>2. pass' = [pass EXCEPT ![p] = y] /\ UNCHANGED <<thresholds, probe, candles>>
  BY DEF Scr!Upsert
<1>3. y = [at |-> x.at, symbols |-> x.symbols, rate |-> x.rate, fetching |-> x.fetching,
           results |-> x.results, written |-> x.written + 1]
  BY <1>1 DEF Shaped
<1> HIDE DEF x, y
<1>4. /\ y.at = x.at /\ y.symbols = x.symbols /\ y.rate = x.rate /\ y.fetching = x.fetching
      /\ y.results = x.results
  BY <1>3
<1>5. Shaped(y)
  BY <1>3 DEF Shaped
<1>6. ScreenedSoFar(y)
  BY <1>1, <1>4 DEF ScreenedSoFar
<1>7. StoredBefore(y, thresholds)
  BY <1>1, <1>4 DEF StoredBefore
<1> QED
  BY <1>1, <1>2, <1>4, <1>5, <1>6, <1>7, PassFrame DEF ScrInv, Passing

LEMMA VictimInv ==
  ASSUME ScreenAssumption, ScrInv, NEW p \in Scr!Caller, Scr!DeadlockVictim(p) PROVE ScrInv'
BY AwayPasses, PassFrame DEF ScrInv, Scr!DeadlockVictim

LEMMA FetchedInv ==
  ASSUME ScreenAssumption, ScrInv, NEW p \in Scr!Caller, NEW k \in pass[p].fetching,
         Scr!CandlesFetched(p, k) \/ Scr!FetchRaises(p, k)
  PROVE  ScrInv'
<1>1. CASE Scr!CandlesFetched(p, k)
  <2>1. PICK c \in Series : /\ Scr!Answered(p, k, c)
                            /\ candles' = [candles EXCEPT ![pass[p].symbols[k]] = c]
    BY <1>1 DEF Scr!CandlesFetched
  <2>2. c \in Seq(Int)
    BY DEF ScreenAssumption
  <2>3. candles' \in [Scr!Listed -> Seq(Int)]
    BY <2>1, <2>2 DEF ScrInv
  <2>4. UNCHANGED <<thresholds, probe>>
    BY <1>1 DEF Scr!CandlesFetched
  <2> QED
    BY <2>1, <2>2, <2>3, <2>4, AnsweredInv
<1>2. CASE Scr!FetchRaises(p, k)
  <2>1. Scr!Answered(p, k, <<>>) /\ UNCHANGED <<thresholds, candles, probe>>
    BY <1>2 DEF Scr!FetchRaises
  <2>2. <<>> \in Seq(Int) /\ candles' \in [Scr!Listed -> Seq(Int)]
    BY <2>1 DEF ScrInv
  <2> QED
    BY <2>1, <2>2, AnsweredInv
<1> QED
  BY <1>1, <1>2

LEMMA CandlesInv ==
  ASSUME ScreenAssumption, ScrInv,
         Scr!Shutdown \/ \E s \in Scr!Listed : Scr!LiveCandle(s)
  PROVE  ScrInv'
<1>1. CASE Scr!Shutdown
  <2>1. Scr!Nothing \in Seq(Int)
    BY DEF Scr!Nothing
  <2>2. candles' \in [Scr!Listed -> Seq(Int)]
    BY <1>1, <2>1 DEF Scr!Shutdown
  <2>3. pass' = [p \in Scr!Caller |-> pass'[p]] /\ \A p \in Scr!Caller : pass'[p] = Scr!Away
    BY <1>1 DEF Scr!Shutdown
  <2>4. UNCHANGED <<thresholds, probe>>
    BY <1>1 DEF Scr!Shutdown
  <2> QED
    BY <2>2, <2>3, <2>4, AwayPasses DEF ScrInv, Probed
<1>2. ASSUME NEW s \in Scr!Listed, Scr!LiveCandle(s) PROVE ScrInv'
  <2>1. PICK close \in Closing : candles' = [candles EXCEPT ![s] = <<close>>]
    BY <1>2 DEF Scr!LiveCandle
  <2>2. <<close>> \in Seq(Int)
    BY DEF ScreenAssumption
  <2>3. candles' \in [Scr!Listed -> Seq(Int)]
    BY <2>1, <2>2 DEF ScrInv
  <2>4. UNCHANGED <<thresholds, pass, probe>>
    BY <1>2 DEF Scr!LiveCandle
  <2> QED
    BY <2>3, <2>4 DEF ScrInv, Probed
<1> QED
  BY <1>1, <1>2

(* A row in the table stays one, whatever is put in its place. *)
LEMMA TableChanges ==
  ASSUME NEW x, NEW new, StoredBefore(x, thresholds), Passing(x), ScreenAssumption,
         \A k \in Scr!Listed \X Tier : thresholds[k] # Scr!NoRow => new[k] # Scr!NoRow
  PROVE  StoredBefore(x, new)
<1>1. CASE x = Scr!Away
  BY <1>1, AwayPasses
<1>2. CASE x # Scr!Away
  <2>1. ScreenedSoFar(x)
    BY <1>2 DEF Passing
  <2>2. ASSUME NEW n \in 1 .. x.rate - 1, NEW s \in Scr!Range(x.symbols)
        PROVE  new[<<s, Scr!Rates[n]>>] # Scr!NoRow
    <3>1. Scr!Rates[n] \in Tier
      BY <2>1, RatesListed DEF ScreenedSoFar
    <3>2. s \in Scr!Listed
      BY <2>1 DEF ScreenedSoFar, Scr!Range
    <3>3. thresholds[<<s, Scr!Rates[n]>>] # Scr!NoRow
      BY DEF StoredBefore
    <3> QED
      BY <3>1, <3>2, <3>3
  <2> QED
    BY <2>2 DEF StoredBefore
<1> QED
  BY <1>1, <1>2

LEMMA ThresholdRowIsThere == \A row, r : ThresholdRow(row, r) => row # Scr!NoRow
<1>1. ASSUME NEW row, NEW r, ThresholdRow(row, r), row = Scr!NoRow PROVE FALSE
  <2>1. row.resume = "none"
    BY <1>1 DEF Scr!NoRow
  <2> QED
    BY <1>1, <2>1 DEF ThresholdRow, Scr!ResumeModes
<1> QED
  BY <1>1

LEMMA OverrideInv ==
  ASSUME ScreenAssumption, ScrInv, NEW k \in DOMAIN thresholds, NEW new \in Scr!ResumeModes,
         Scr!UpdateResumeConfig(k, new)
  PROVE  ScrInv'
<1>1. /\ thresholds' = [thresholds EXCEPT ![k].resume = new] /\ thresholds[k] # Scr!NoRow
      /\ UNCHANGED <<candles, pass, probe>>
  BY DEF Scr!UpdateResumeConfig, Scr!AdminUpdate
<1>2. TableSound(thresholds) /\ k \in Scr!Listed \X Tier /\ DOMAIN thresholds = Scr!Listed \X Tier
  BY DEF ScrInv, TableSound
<1>3. ThresholdRow(thresholds[k], k[2])
  BY <1>1, <1>2 DEF TableSound
<1> DEFINE row == [thresholds[k] EXCEPT !.resume = new]
<1>4. row = [screened |-> thresholds[k].screened, resume |-> new]
  BY <1>3 DEF ThresholdRow
<1>5. ThresholdRow(row, k[2])
  BY <1>3, <1>4 DEF ThresholdRow
<1>6. thresholds' = [thresholds EXCEPT ![k] = row]
  BY <1>1
<1> HIDE DEF row
<1>7. TableSound(thresholds')
  BY <1>2, <1>5, <1>6 DEF TableSound
<1>8. \A j \in Scr!Listed \X Tier : thresholds[j] # Scr!NoRow => thresholds'[j] # Scr!NoRow
  BY <1>2, <1>5, <1>6, ThresholdRowIsThere DEF TableSound
<1>9. \A p \in Scr!Caller : StoredBefore(pass[p], thresholds')
  BY <1>8, TableChanges DEF ScrInv
<1> QED
  BY <1>1, <1>7, <1>9 DEF ScrInv, Probed

LEMMA ResumeDefaults ==
  ASSUME ScreenAssumption PROVE \A r \in Tier : Scr!ResumeDefault(r) \in Scr!ResumeModes
BY DEF ScreenAssumption, Scr!ResumeDefault, Scr!ResumeModes

(* What a rate's commit makes of the table. *)
LEMMA WrittenSound ==
  ASSUME ScreenAssumption, TableSound(thresholds), NEW p, Shaped(pass[p]), ScreenedSoFar(pass[p]),
         pass[p].fetching = {}
  PROVE  /\ TableSound(Scr!Written(p))
         /\ \A k \in Scr!Listed \X Tier :
              thresholds[k] # Scr!NoRow => Scr!Written(p)[k] # Scr!NoRow
         /\ \A s \in Scr!Range(pass[p].symbols) : Scr!Written(p)[<<s, Scr!Rate(p)>>] # Scr!NoRow
<1> DEFINE x == pass[p]
           r == Scr!Rates[x.rate]
           D == DOMAIN x.symbols
           Key2(n) == <<x.symbols[n], r>>
           At(k) == CHOOSE n \in D : k = Key2(n)
           new == Scr!Written(p)
           K == Scr!Listed \X Tier
<1>1. r \in Tier /\ \A n \in D : x.symbols[n] \in Scr!Listed /\ Scr!Justified(x.results[n], r)
  <2>1. r \in Tier
    BY RatesListed DEF ScreenedSoFar
  <2>2. D \ x.fetching = D
    OBVIOUS
  <2>3. \A n \in D : Scr!Justified(x.results[n], r)
    BY <2>2 DEF ScreenedSoFar
  <2>4. \A n \in D : x.symbols[n] \in Scr!Listed
    BY DEF ScreenedSoFar
  <2> QED
    BY <2>1, <2>3, <2>4
<1>2. new = [k \in K |-> IF \E n \in D : k = Key2(n)
                         THEN Scr!Row(x.results[At(k)], r) ELSE thresholds[k]]
  <2>1. DOMAIN thresholds = K
    BY DEF TableSound
  <2> QED
    BY <2>1 DEF Scr!Written, Scr!RowKey, Scr!Rate
<1>3. \A n \in D : ThresholdRow(Scr!Row(x.results[n], r), r)
  BY <1>1, ResumeDefaults DEF ThresholdRow, Scr!Row
<1>4. Scr!Rate(p) = r /\ Scr!Range(x.symbols) = {x.symbols[n] : n \in D}
  BY DEF Scr!Rate, Scr!Range
<1> HIDE DEF new, r, x, D
<1>5. ASSUME NEW k \in K, \E n \in D : k = Key2(n) PROVE ThresholdRow(new[k], k[2])
  <2>1. At(k) \in D /\ k[2] = r
    BY <1>5
  <2> QED
    BY <1>2, <1>3, <1>5, <2>1
<1>6. \A k \in K : ~(\E n \in D : k = Key2(n)) => new[k] = thresholds[k]
  BY <1>2
<1>7. TableSound(new)
  <2>1. new = [k \in K |-> new[k]]
    BY <1>2
  <2>2. \A k \in K : new[k] = Scr!NoRow \/ ThresholdRow(new[k], k[2])
    BY <1>5, <1>6 DEF TableSound
  <2> QED
    BY <2>1, <2>2 DEF TableSound
<1>8. \A k \in K : thresholds[k] # Scr!NoRow => new[k] # Scr!NoRow
  BY <1>5, <1>6, ThresholdRowIsThere
<1>9. ASSUME NEW n \in D PROVE new[Key2(n)] # Scr!NoRow
  <2>1. Key2(n) \in K /\ \E m \in D : Key2(n) = Key2(m)
    BY <1>1
  <2> QED
    BY <1>5, <2>1, ThresholdRowIsThere
<1> QED
  BY <1>4, <1>7, <1>8, <1>9 DEF new, x

LEMMA CommitInv ==
  ASSUME ScreenAssumption, ScrInv, NEW p \in Scr!Caller, Scr!Commit(p) PROVE ScrInv'
<1> DEFINE x == pass[p]
           new == Scr!Written(p)
           y == IF x.rate < Len(Scr!Rates) THEN Scr!Screening(x.symbols, x.rate + 1) ELSE Scr!Away
<1>1. Passing(x) /\ StoredBefore(x, thresholds) /\ Shaped(x) /\ x.at = "screening" /\ ScreenedSoFar(x)
      /\ x.fetching = {}
  BY PassingFields DEF ScrInv, Scr!Commit
<1>2. thresholds' = new /\ pass' = [pass EXCEPT ![p] = y] /\ UNCHANGED <<candles, probe>>
  BY DEF Scr!Commit, Scr!Stored
<1>3. /\ TableSound(new)
      /\ \A k \in Scr!Listed \X Tier : thresholds[k] # Scr!NoRow => new[k] # Scr!NoRow
      /\ \A s \in Scr!Range(x.symbols) : new[<<s, Scr!Rates[x.rate]>>] # Scr!NoRow
  BY <1>1, WrittenSound DEF ScrInv, Scr!Rate
<1> HIDE DEF new
<1>4. \A q \in Scr!Caller : StoredBefore(pass[q], new)
  BY <1>3, TableChanges DEF ScrInv
<1>5. Passing(y) /\ StoredBefore(y, new)
  <2>1. CASE ~(x.rate < Len(Scr!Rates))
    BY <2>1, AwayPasses
  <2>2. CASE x.rate < Len(Scr!Rates)
    <3>1. /\ x.rate + 1 \in 1 .. Len(Scr!Rates) /\ x.symbols \in Seq(Scr!Listed) /\ x.rate \in Nat
      BY <1>1, <2>2, RatesListed DEF ScreenedSoFar
    <3>2. Passing(y) /\ y.symbols = x.symbols /\ y.rate = x.rate + 1
      BY <2>2, <3>1, ScreeningSound DEF ScrInv
    <3> HIDE DEF y
    <3>3. StoredBefore(x, new)
      BY <1>4
    <3>4. \A n \in 1 .. y.rate - 1 : n = x.rate \/ n \in 1 .. x.rate - 1
      BY <3>1, <3>2
    <3>5. StoredBefore(y, new)
      BY <1>3, <3>2, <3>3, <3>4 DEF StoredBefore
    <3> QED
      BY <3>2, <3>5
  <2> QED
    BY <2>1, <2>2
<1> HIDE DEF y
<1>6. pass' = [q \in Scr!Caller |-> pass'[q]] /\ pass'[p] = y
      /\ \A q \in Scr!Caller : q # p => pass'[q] = pass[q]
  BY <1>2 DEF ScrInv
<1>7. \A q \in Scr!Caller : Passing(pass'[q]) /\ StoredBefore(pass'[q], new)
  BY <1>4, <1>5, <1>6 DEF ScrInv
<1> QED
  BY <1>2, <1>3, <1>6, <1>7 DEF ScrInv, Probed

LEMMA ScreenOneInv == ASSUME ScreenAssumption, ScrInv, Scr!ScreenOne PROVE ScrInv'
<1>0. PICK n \in 1 .. MaxDays : \E c \in [1 .. n -> Closing], r \in Tier :
        probe' = [rate |-> r, screened |-> Scr!ScreenSymbol(c, r)]
  BY DEF Scr!ScreenOne
<1>1. PICK c \in [1 .. n -> Closing], r \in Tier :
        probe' = [rate |-> r, screened |-> Scr!ScreenSymbol(c, r)]
  BY <1>0
<1>2. c \in Seq(Int)
  <2>1. n \in Nat
    BY <1>0 DEF ScreenAssumption
  <2>2. \A k \in 1 .. n : c[k] \in Int
    BY <1>1 DEF ScreenAssumption
  <2>3. c = [k \in 1 .. n |-> c[k]]
    BY <1>1
  <2>4. c \in [1 .. n -> Int]
    BY <2>2, <2>3
  <2> QED
    BY <2>1, <2>4
<1>3. Probed'
  BY <1>1, <1>2, ScreeningJustified DEF Probed
<1> QED
  BY <1>3 DEF ScrInv, Scr!ScreenOne

LEMMA ScrStepInv ==
  ASSUME ScreenAssumption, ScrInv, [Scr!Next]_(Scr!screenVars) PROVE ScrInv'
<1>1. CASE Scr!StoreStep
  BY <1>1, BeginInv, UpsertInv, CommitInv, VictimInv, FetchedInv, CandlesInv, OverrideInv
     DEF Scr!StoreStep
<1>2. CASE Scr!ScreenOne
  BY <1>2, ScreenOneInv
<1>3. CASE UNCHANGED Scr!screenVars
  <2>1. UNCHANGED <<thresholds, candles, pass, probe>>
    BY <1>3 DEF Scr!screenVars
  <2> QED
    BY <2>1 DEF ScrInv, Probed
<1> QED
  BY <1>1, <1>2, <1>3 DEF Scr!Next

LEMMA ConfigSound ==
  ASSUME ScreenAssumption, TableSound(thresholds), NEW c \in ScreenCoin, NEW r \in Tier
  PROVE  /\ Scr!GetBreakerConfig(c, r).threshold \in 10 .. 150
         /\ Scr!GetBreakerConfig(c, r).resume \in Scr!ResumeModes
<1> DEFINE k == <<Scr!Pair(c), r>>
           row == thresholds[k]
<1>1. k \in Scr!Listed \X Tier /\ k[2] = r
  BY DEF Scr!Listed
<1>2. row = Scr!NoRow \/ ThresholdRow(row, r)
  BY <1>1 DEF TableSound
<1>3. Scr!FALLBACK_THRESHOLDS[r] \in 10 .. 150
  BY TierValues
<1>4. ASSUME ThresholdRow(row, r) PROVE row.screened.threshold \in 10 .. 150
  <2>1. Scr!Justified(row.screened, r)
    BY <1>4 DEF ThresholdRow
  <2>2. \/ row.screened.threshold = Scr!FALLBACK_THRESHOLDS[r]
        \/ row.screened.threshold \in Scr!Range(Candidates)
    BY <2>1 DEF Scr!Justified, Candidates
  <2>3. \A t \in Scr!Range(Candidates) : t \in 10 .. 150
    <3>1. \A n \in 1 .. 24 : Candidates[n] \in 10 .. 150
      <4>1. \A t \in Int : 10 <= t /\ t <= 150 => t \in 10 .. 150
        OBVIOUS
      <4>2. \A n \in 1 .. 24 : Candidates[n] \in Int /\ 10 <= Candidates[n] /\ Candidates[n] <= 150
        BY CandidatesRise
      <4> QED
        BY <4>1, <4>2
    <3>2. DOMAIN Candidates = 1 .. 24
      BY CandidatesRise
    <3> QED
      BY <3>1, <3>2 DEF Scr!Range
  <2> QED
    BY <1>3, <2>2, <2>3
<1>5. "ta_confirm" \in Scr!ResumeModes
  BY DEF Scr!ResumeModes
<1> HIDE DEF row
<1>6. /\ Scr!GetBreakerConfig(c, r).threshold =
           IF row = Scr!NoRow THEN Scr!FALLBACK_THRESHOLDS[r] ELSE row.screened.threshold
      /\ Scr!GetBreakerConfig(c, r).resume =
           IF row # Scr!NoRow /\ row.resume \in Scr!ResumeModes THEN row.resume ELSE "ta_confirm"
  BY DEF Scr!GetBreakerConfig, Scr!GetThreshold, row
<1> QED
  BY <1>2, <1>3, <1>4, <1>5, <1>6

(* CircuitBreakerScreener and BreakerScreeningStore: whatever the exchange *)
(* answers and however passes, live candles, overrides, deadlocks and      *)
(* shutdowns interleave, for any number of coins, each stored threshold is *)
(* the smallest drop its closes bear out or the fallback, an interrupted   *)
(* pass keeps the rates before, and no breaker lacks its configuration.    *)
THEOREM StoredThresholdsJustified ==
  ASSUME ScreenAssumption PROVE Scr!Spec => []ThresholdsJustified
<1>1. Scr!Init => ScrInv
  BY ScrInitInv
<1>2. ScrInv /\ [Scr!Next]_(Scr!screenVars) => ScrInv'
  BY ScrStepInv
<1>3. ScrInv => ThresholdsJustified
  <2> SUFFICES ASSUME ScrInv PROVE ThresholdsJustified
    OBVIOUS
  <2>1. TableSound(thresholds) /\ Probed /\ \A p \in Scr!Caller : StoredBefore(pass[p], thresholds)
    BY DEF ScrInv
  <2>2. \A k \in DOMAIN thresholds :
          thresholds[k] # Scr!NoRow => Scr!Justified(thresholds[k].screened, k[2])
    BY <2>1 DEF TableSound, ThresholdRow
  <2>3. \A c \in ScreenCoin, r \in Tier :
          /\ Scr!GetBreakerConfig(c, r).threshold \in 10 .. 150
          /\ Scr!GetBreakerConfig(c, r).resume \in Scr!ResumeModes
    BY <2>1, ConfigSound
  <2> QED
    BY <2>1, <2>2, <2>3 DEF ThresholdsJustified, Scr!ThresholdsJustified, Probed, StoredBefore
<1> QED
  BY <1>1, <1>2, <1>3, PTL DEF Scr!Spec

-----------------------------------------------------------------------------
(* The averaging steps.  Every row belongs to an update all of whose rows  *)
(* are beside it: in the table, in what a DELETE saw and in what it dooms, *)
(* so that taking the doomed ones away takes whole updates away.           *)

OfUpdate(r) == Set!Tagged(r[4].rows, r[4].number)

StepRow(r) ==
  /\ r[1] \in {0, 1, 2} /\ r[2] \in {0, 50, 100} /\ r[3] \in {50, 100}
  /\ r \in OfUpdate(r) /\ \A s \in OfUpdate(r) : OfUpdate(s) = OfUpdate(r)

WholeUpdates(S) == \A r \in S : StepRow(r) /\ OfUpdate(r) \subseteq S
Numbered(S) == \A r, s \in S : r[1] = s[1] => r = s

Updating(x) ==
  /\ x = [at |-> x.at, rows |-> x.rows, seen |-> x.seen, doomed |-> x.doomed]
  /\ WholeUpdates(x.rows) /\ Numbered(x.rows) /\ WholeUpdates(x.seen) /\ WholeUpdates(x.doomed)

StepsInv ==
  /\ WholeUpdates(steps) /\ Numbered(steps) /\ template \in Set!Templates
  /\ update = [o \in Owner |-> update[o]] /\ \A o \in Owner : Updating(update[o])

LEMMA NoUpdateUpdating == Updating(Set!NoUpdate)
BY DEF Updating, Set!NoUpdate, WholeUpdates, Numbered

LEMMA TaggedWhole ==
  ASSUME NEW rows, NEW n,
         \A r \in rows : r[1] \in {0, 1, 2} /\ r[2] \in {0, 50, 100} /\ r[3] \in {50, 100},
         Numbered(rows)
  PROVE  WholeUpdates(Set!Tagged(rows, n)) /\ Numbered(Set!Tagged(rows, n))
<1> DEFINE T == Set!Tagged(rows, n)
           Tag(r) == <<r[1], r[2], r[3], [number |-> n, rows |-> rows]>>
<1>1. T = {Tag(r) : r \in rows}
  BY DEF Set!Tagged
<1>2. ASSUME NEW r \in rows
      PROVE  /\ Tag(r)[1] = r[1] /\ Tag(r)[2] = r[2] /\ Tag(r)[3] = r[3] /\ OfUpdate(Tag(r)) = T
  <2>1. Tag(r)[4].rows = rows /\ Tag(r)[4].number = n
    OBVIOUS
  <2> QED
    BY <2>1 DEF OfUpdate
<1> HIDE DEF T, Tag
<1>3. \A t \in T : OfUpdate(t) = T
  BY <1>1, <1>2
<1>4. \A t \in T : StepRow(t)
  BY <1>1, <1>2, <1>3 DEF StepRow
<1>5. Numbered(T)
  BY <1>1, <1>2 DEF Numbered
<1> QED
  BY <1>3, <1>4, <1>5 DEF WholeUpdates, T

LEMMA WholeTogether ==
  ASSUME NEW S, NEW R, WholeUpdates(S), WholeUpdates(R)
  PROVE  /\ WholeUpdates(S \cap R) /\ WholeUpdates(S \cup R) /\ WholeUpdates(S \ R)
<1>1. WholeUpdates(S \cap R) /\ WholeUpdates(S \cup R)
  BY DEF WholeUpdates
<1>2. ASSUME NEW r \in S \ R, NEW s \in OfUpdate(r) PROVE s \in S \ R
  <2>1. s \in S /\ OfUpdate(s) = OfUpdate(r) /\ r \in OfUpdate(r)
    BY <1>2 DEF WholeUpdates, StepRow
  <2>2. s \in R => r \in R
    BY <2>1 DEF WholeUpdates
  <2> QED
    BY <2>1, <2>2
<1> QED
  BY <1>1, <1>2 DEF WholeUpdates

(* The rows a request may ask for: what the API is sent, and the template. *)
Asked(rows) ==
  /\ \A r \in rows : r[1] \in {0, 1, 2} /\ r[2] \in {0, 50, 100} /\ r[3] \in {50, 100}
  /\ Numbered(rows)

LEMMA SentAsked == \A rows \in Set!Sent : Asked(rows)
BY DEF Set!Sent, Asked, Numbered

LEMMA TemplateAsked == ASSUME template \in Set!Templates PROVE Asked(Set!DefaultTemplate)
<1>1. CASE Len(template) < Set!TemplateSize
  <2>1. Set!DefaultTemplate = {}
    BY <1>1 DEF Set!DefaultTemplate
  <2> QED
    BY <2>1 DEF Asked, Numbered
<1>2. CASE ~(Len(template) < Set!TemplateSize)
  <2> DEFINE t == template
  <2>1. t = << <<0, 50>>, <<50, 50>>, <<50, 100>> >>
    <3>1. \/ t = << <<0, 50>>, <<50, 50>>, <<50, 100>> >>
          \/ t = << <<0, 50>>, <<50, 50>> >>
      BY DEF Set!Templates
    <3>2. ASSUME t = << <<0, 50>>, <<50, 50>> >> PROVE FALSE
      <4>1. Len(t) = 2 /\ ~(Len(t) < 3)
        BY <1>2, <3>2 DEF Set!TemplateSize
      <4> HIDE DEF t
      <4> QED
        BY <4>1
    <3> QED
      BY <3>1, <3>2
  <2>2. /\ t[1][1] = 0 /\ t[1][2] = 50 /\ t[2][1] = 50 /\ t[2][2] = 50
        /\ t[3][1] = 50 /\ t[3][2] = 100
    BY <2>1
  <2>3. Set!DefaultTemplate = {<<k - 1, t[k][1], t[k][2]>> : k \in {1, 2, 3}}
    <3>1. 1 .. 3 = {1, 2, 3}
      OBVIOUS
    <3> QED
      BY <1>2, <3>1 DEF Set!DefaultTemplate, Set!TemplateSize
  <2>4. Set!DefaultTemplate = {<<0, 0, 50>>, <<1, 50, 50>>, <<2, 50, 100>>}
    <3>1. {<<k - 1, t[k][1], t[k][2]>> : k \in {1, 2, 3}} =
          {<<1 - 1, t[1][1], t[1][2]>>, <<2 - 1, t[2][1], t[2][2]>>, <<3 - 1, t[3][1], t[3][2]>>}
      OBVIOUS
    <3> QED
      BY <2>2, <2>3, <3>1
  <2> QED
    BY <2>4 DEF Asked, Numbered
<1> QED
  BY <1>1, <1>2

LEMMA UpdateFrame ==
  ASSUME StepsInv, NEW o \in Owner, NEW x, update' = [update EXCEPT ![o] = x], Updating(x),
         WholeUpdates(steps'), Numbered(steps'), UNCHANGED template
  PROVE  StepsInv'
<1>1. /\ update' = [p \in Owner |-> update'[p]] /\ update'[o] = x
      /\ \A p \in Owner : p # o => update'[p] = update[p]
  BY DEF StepsInv
<1>2. \A p \in Owner : Updating(update'[p])
  BY <1>1 DEF StepsInv
<1> QED
  BY <1>1, <1>2 DEF StepsInv

LEMMA BeginsInv ==
  ASSUME StepsInv, NEW o \in Owner, NEW rows, Asked(rows), Set!UpdateBegins(o, rows)
  PROVE  StepsInv'
<1> DEFINE new == Set!Tagged(rows, updates + 1)
           x == [at |-> "deleting", rows |-> new, seen |-> steps, doomed |-> {}]
<1>1. update' = [update EXCEPT ![o] = x] /\ UNCHANGED <<steps, template>>
  BY DEF Set!UpdateBegins
<1>2. WholeUpdates(new) /\ Numbered(new)
  BY TaggedWhole DEF Asked
<1> HIDE DEF new
<1>3. Updating(x)
  BY <1>2 DEF Updating, StepsInv, WholeUpdates
<1> HIDE DEF x
<1>4. WholeUpdates(steps') /\ Numbered(steps')
  BY <1>1 DEF StepsInv
<1> QED
  BY <1>1, <1>3, <1>4, UpdateFrame

LEMMA DeletedInv ==
  ASSUME StepsInv, NEW o \in Owner, Set!OldDeleted(o) PROVE StepsInv'
<1> DEFINE x == update[o]
           y == [x EXCEPT !.at = "deleted", !.doomed = x.seen \cap steps]
<1>1. update' = [update EXCEPT ![o] = y] /\ UNCHANGED <<steps, template>>
  BY DEF Set!OldDeleted
<1>2. Updating(x)
  BY DEF StepsInv
<1> DEFINE z == [x EXCEPT !.at = "deleted"]
<1>3. z = [at |-> "deleted", rows |-> x.rows, seen |-> x.seen, doomed |-> x.doomed]
  BY <1>2 DEF Updating
<1>4. /\ z = [at |-> z.at, rows |-> z.rows, seen |-> z.seen, doomed |-> z.doomed]
      /\ z.rows = x.rows /\ z.seen = x.seen
  BY <1>3
<1>5. y = [z EXCEPT !.doomed = x.seen \cap steps]
  OBVIOUS
<1> HIDE DEF z
<1>6. y = [at |-> z.at, rows |-> z.rows, seen |-> z.seen, doomed |-> x.seen \cap steps]
  BY <1>4, <1>5
<1> HIDE DEF y, x
<1>7. WholeUpdates(x.seen \cap steps)
  BY <1>2, WholeTogether DEF Updating, StepsInv
<1>8. /\ y.at = z.at /\ y.rows = x.rows /\ y.seen = x.seen /\ y.doomed = x.seen \cap steps
      /\ y = [at |-> y.at, rows |-> y.rows, seen |-> y.seen, doomed |-> y.doomed]
  BY <1>4, <1>6
<1>9. Updating(y)
  BY <1>2, <1>7, <1>8 DEF Updating
<1>10. WholeUpdates(steps') /\ Numbered(steps')
  BY <1>1 DEF StepsInv
<1> QED
  BY <1>1, <1>9, <1>10, UpdateFrame

LEMMA CommittedInv ==
  ASSUME StepsInv, NEW o \in Owner, Set!StepsCommitted(o) PROVE StepsInv'
<1> DEFINE rows == update[o].rows
           kept == steps \ update[o].doomed
<1>1. /\ steps' = kept \cup rows /\ update' = [update EXCEPT ![o] = Set!NoUpdate]
      /\ UNCHANGED template /\ \A r \in rows, k \in kept : r[1] # k[1]
  BY DEF Set!StepsCommitted, Set!Unique
<1>2. WholeUpdates(rows) /\ Numbered(rows) /\ WholeUpdates(update[o].doomed)
  BY DEF StepsInv, Updating
<1>3. WholeUpdates(kept) /\ Numbered(kept)
  BY <1>2, WholeTogether DEF StepsInv, Numbered
<1> HIDE DEF rows, kept
<1>4. WholeUpdates(steps')
  BY <1>1, <1>2, <1>3, WholeTogether
<1>5. Numbered(steps')
  BY <1>1, <1>2, <1>3 DEF Numbered
<1> QED
  BY <1>1, <1>4, <1>5, NoUpdateUpdating, UpdateFrame

LEMMA StepsStepInv == ASSUME StepsInv, Set!StepsStep PROVE StepsInv'
<1>1. ASSUME NEW o \in Owner, Set!UpdateAveragingConfig(o) PROVE StepsInv'
  BY <1>1, BeginsInv, SentAsked DEF Set!UpdateAveragingConfig
<1>2. ASSUME NEW o \in Owner, Set!ResetAveragingConfig(o) PROVE StepsInv'
  <2>1. Asked(Set!DefaultTemplate)
    BY TemplateAsked DEF StepsInv
  <2> QED
    BY <1>2, <2>1, BeginsInv DEF Set!ResetAveragingConfig
<1>3. ASSUME NEW o \in Owner, Set!UpdateRollsBack(o) PROVE StepsInv'
  <2>1. update' = [update EXCEPT ![o] = Set!NoUpdate] /\ UNCHANGED <<steps, template>>
    BY <1>3 DEF Set!UpdateRollsBack
  <2>2. WholeUpdates(steps') /\ Numbered(steps')
    BY <2>1 DEF StepsInv
  <2> QED
    BY <2>1, <2>2, NoUpdateUpdating, UpdateFrame
<1>4. CASE Set!TemplateUpdated
  BY <1>4 DEF Set!TemplateUpdated, StepsInv
<1> QED
  BY <1>1, <1>2, <1>3, <1>4, DeletedInv, CommittedInv DEF Set!StepsStep

-----------------------------------------------------------------------------
(* The levels made of the steps: three rows at most, in the order of their *)
(* numbers, so that each but the first falls from the one before.          *)

LEMMA SetCardinality == \A S : Set!Cardinality(S) = Cardinality(S)
BY DEF Set!Cardinality, Cardinality

LEMMA StepsListed ==
  ASSUME NEW S, WholeUpdates(S), Numbered(S)
  PROVE  /\ Len(Set!InOrder(S)) \in 0 .. 3
         /\ DOMAIN Set!InOrder(S) = 1 .. Len(Set!InOrder(S))
         /\ \A k \in 1 .. Len(Set!InOrder(S)) : StepRow(Set!InOrder(S)[k])
         /\ \A m, n \in 1 .. Len(Set!InOrder(S)) :
              m < n => Set!InOrder(S)[m][1] < Set!InOrder(S)[n][1]
<1> DEFINE key == [r \in S |-> r[1]]
           d == Cardinality(S)
           s == Set!InOrder(S)
<1>1. Keyed(S, key)
  BY DEF Keyed, WholeUpdates, StepRow, Numbered
<1>2. IsFiniteSet(S) /\ d \in 0 .. 3
  <2>1. key \in Injection(S, 0 .. 2)
    BY DEF Injection, IsInjective, WholeUpdates, StepRow, Numbered
  <2>2. PICK m, n \in Nat : m = 0 /\ n = 2
    OBVIOUS
  <2>3. IsFiniteSet(0 .. n) /\ Cardinality(0 .. n) = 3
    <3>1. IsFiniteSet(m .. n) /\ Cardinality(m .. n) = IF m > n THEN 0 ELSE n - m + 1
      BY FS_Interval
    <3> QED
      BY <2>2, <3>1
  <2>4. key \in Injection(S, 0 .. n)
    BY <2>1, <2>2
  <2>5. IsFiniteSet(S) /\ d <= 3
    BY <2>3, <2>4, FS_Injection
  <2> QED
    BY <2>5, FS_CardinalityType
<1>3. PICK u \in [1 .. d -> S] : Ascends(u, key)
  BY <1>1, <1>2, ListingExists
<1>4. u \in Set!SetToSeqs(S)
  <2>1. \A m, n \in 1 .. d : m # n => u[m] # u[n]
    BY <1>1, <1>2, <1>3, ListingHolds
  <2> QED
    BY <1>3, <2>1, SetCardinality DEF Set!SetToSeqs
<1>5. \A m, n \in DOMAIN u : m < n => u[m][1] < u[n][1]
  BY <1>3 DEF Ascends
<1>6. s \in Set!SetToSeqs(S) /\ \A m, n \in DOMAIN s : m < n => s[m][1] < s[n][1]
  BY <1>4, <1>5 DEF Set!InOrder
<1>7. s \in [1 .. d -> S]
  BY <1>6, SetCardinality DEF Set!SetToSeqs
<1> HIDE DEF s, d
<1>8. Len(s) = d /\ DOMAIN s = 1 .. d
  BY <1>2, <1>7
<1> QED
  BY <1>2, <1>6, <1>7, <1>8 DEF s, WholeUpdates

Falling(p, r) == IF r[1] = 0 THEN 1000 ELSE (p * (100 - r[2])) \div 100

IsBuy(f, s) ==
  f = [k \in 0 .. Len(s) |->
        IF k = 0 \/ s[k][1] = 0 THEN 1000 ELSE (f[k - 1] * (100 - s[k][2])) \div 100]

LEMMA BuyExists == ASSUME NEW s, Len(s) \in 0 .. 3 PROVE \E f : IsBuy(f, s)
<1> DEFINE a == Falling(1000, s[1])
           b == Falling(a, s[2])
           c == Falling(b, s[3])
           f == [k \in 0 .. Len(s) |-> IF k = 0 THEN 1000 ELSE IF k = 1 THEN a
                                       ELSE IF k = 2 THEN b ELSE c]
<1>1. \A k \in 1 .. Len(s) : k \in {1, 2, 3} /\ k - 1 \in 0 .. Len(s)
  <2>1. PICK n \in 0 .. 3 : n = Len(s)
    OBVIOUS
  <2>2. \A k \in 1 .. n : k \in {1, 2, 3} /\ k - 1 \in 0 .. n
    OBVIOUS
  <2> QED
    BY <2>1, <2>2
<1>2. ASSUME NEW k \in 0 .. Len(s)
      PROVE  f[k] = IF k = 0 \/ s[k][1] = 0 THEN 1000 ELSE (f[k - 1] * (100 - s[k][2])) \div 100
  <2>1. CASE k = 0
    BY <2>1
  <2>2. CASE k = 1
    <3>1. f[1] = a /\ f[1 - 1] = 1000
      BY <1>1, <2>2
    <3> HIDE DEF f
    <3> QED
      BY <2>2, <3>1 DEF Falling
  <2>3. CASE k = 2
    <3>1. f[2] = b /\ f[2 - 1] = a
      BY <1>1, <2>3
    <3> HIDE DEF f, a
    <3> QED
      BY <2>3, <3>1 DEF Falling
  <2>4. CASE k = 3
    <3>1. f[3] = c /\ f[3 - 1] = b
      BY <1>1, <2>4
    <3> HIDE DEF f, b
    <3> QED
      BY <2>4, <3>1 DEF Falling
  <2> QED
    BY <1>1, <2>1, <2>2, <2>3, <2>4
<1> HIDE DEF a, b, c
<1>3. f = [k \in 0 .. Len(s) |->
            IF k = 0 \/ s[k][1] = 0 THEN 1000 ELSE (f[k - 1] * (100 - s[k][2])) \div 100]
  BY <1>2
<1> QED
  BY <1>3 DEF IsBuy

Prices == {0, 125, 250, 500, 1000}

LEMMA PricesFall ==
  ASSUME NEW p \in {0, 250, 500, 1000}, NEW r, StepRow(r), r[1] # 0
  PROVE  /\ Falling(p, r) \in Prices /\ Falling(p, r) <= p
         /\ p \in {0, 500, 1000} => Falling(p, r) \in {0, 250, 500, 1000}
         /\ p = 1000 => Falling(p, r) \in {0, 500, 1000}
<1>1. r[2] \in {0, 50, 100}
  BY DEF StepRow
<1>2. CASE r[2] = 0
  BY <1>2 DEF Falling, Prices
<1>3. CASE r[2] = 50
  BY <1>3 DEF Falling, Prices
<1>4. CASE r[2] = 100
  BY <1>4 DEF Falling, Prices
<1> QED
  BY <1>1, <1>2, <1>3, <1>4

LEMMA BuysFall ==
  ASSUME NEW s, Len(s) \in 0 .. 3, \A k \in 1 .. Len(s) : StepRow(s[k]),
         \A m, n \in 1 .. Len(s) : m < n => s[m][1] < s[n][1],
         NEW f, IsBuy(f, s)
  PROVE  /\ \A k \in 1 .. Len(s) : f[k] \in Prices
         /\ \A k \in 2 .. Len(s) : f[k] <= f[k - 1]
<1>1. \A k \in 0 .. Len(s) :
        f[k] = IF k = 0 \/ s[k][1] = 0 THEN 1000 ELSE (f[k - 1] * (100 - s[k][2])) \div 100
  BY DEF IsBuy
<1>2. f[0] = 1000
  BY <1>1
<1>3. \A k \in 1 .. Len(s) : f[k] = Falling(f[k - 1], s[k])
  <2>1. \A k \in 1 .. Len(s) : k \in 0 .. Len(s) /\ k # 0
    OBVIOUS
  <2> QED
    BY <1>1, <2>1 DEF Falling
<1>4. Len(s) >= 1 => f[1] \in {0, 500, 1000}
  <2> SUFFICES ASSUME Len(s) >= 1 PROVE f[1] \in {0, 500, 1000}
    OBVIOUS
  <2>1. f[1] = Falling(1000, s[1]) /\ StepRow(s[1])
    <3>1. 1 \in 1 .. Len(s) /\ 1 - 1 = 0
      OBVIOUS
    <3> QED
      BY <1>2, <1>3, <3>1
  <2>2. CASE s[1][1] = 0
    BY <2>1, <2>2 DEF Falling
  <2>3. CASE s[1][1] # 0
    BY <2>1, <2>3, PricesFall
  <2> QED
    BY <2>2, <2>3
<1>5. Len(s) >= 2 => f[2] \in {0, 250, 500, 1000} /\ f[2] <= f[1]
  <2> SUFFICES ASSUME Len(s) >= 2 PROVE f[2] \in {0, 250, 500, 1000} /\ f[2] <= f[1]
    OBVIOUS
  <2>1. 1 \in 1 .. Len(s) /\ 2 \in 1 .. Len(s) /\ 2 - 1 = 1
    OBVIOUS
  <2>2. f[2] = Falling(f[1], s[2]) /\ StepRow(s[2])
    BY <1>3, <2>1
  <2>3. s[2][1] # 0
    BY <2>1 DEF StepRow
  <2> QED
    BY <1>4, <2>2, <2>3, PricesFall
<1>6. Len(s) >= 3 => f[3] \in Prices /\ f[3] <= f[2]
  <2> SUFFICES ASSUME Len(s) >= 3 PROVE f[3] \in Prices /\ f[3] <= f[2]
    OBVIOUS
  <2>1. 1 \in 1 .. Len(s) /\ 3 \in 1 .. Len(s) /\ 3 - 1 = 2
    OBVIOUS
  <2>2. f[3] = Falling(f[2], s[3]) /\ StepRow(s[3])
    BY <1>3, <2>1
  <2>3. s[3][1] # 0
    BY <2>1 DEF StepRow
  <2> QED
    BY <1>5, <2>2, <2>3, PricesFall
<1>7. PICK n \in 0 .. 3 : n = Len(s)
  OBVIOUS
<1>8. (\A k \in 1 .. n : k \in {1, 2, 3}) /\ (\A k \in 2 .. n : k \in {2, 3})
  OBVIOUS
<1>9. ASSUME NEW k \in 1 .. Len(s) PROVE f[k] \in Prices
  BY <1>4, <1>5, <1>6, <1>7, <1>8 DEF Prices
<1>10. ASSUME NEW k \in 2 .. Len(s) PROVE f[k] <= f[k - 1]
  <2>1. CASE k = 2
    BY <1>5, <2>1
  <2>2. CASE k = 3
    BY <1>6, <2>2
  <2> QED
    BY <1>7, <1>8, <2>1, <2>2
<1> QED
  BY <1>9, <1>10

LEMMA LevelsFall ==
  ASSUME NEW S, WholeUpdates(S), Numbered(S)
  PROVE  /\ Set!LevelsSound(Set!LevelsWithAveraging(1000, S))
         /\ \A k \in 2 .. Len(Set!LevelsWithAveraging(1000, S)) :
              Set!LevelsWithAveraging(1000, S)[k].buy <= Set!LevelsWithAveraging(1000, S)[k - 1].buy
<1> DEFINE s == Set!InOrder(S)
           f == CHOOSE f : IsBuy(f, s)
           levels == Set!LevelsWithAveraging(1000, S)
<1> SUFFICES /\ Set!LevelsSound(levels)
             /\ \A k \in 2 .. Len(levels) : levels[k].buy <= levels[k - 1].buy
  OBVIOUS
<1>1. /\ Len(s) \in 0 .. 3 /\ DOMAIN s = 1 .. Len(s)
      /\ \A k \in 1 .. Len(s) : StepRow(s[k])
      /\ \A m, n \in 1 .. Len(s) : m < n => s[m][1] < s[n][1]
  BY StepsListed
<1>2. levels = IF \E k \in DOMAIN s : f[k] <= 0 THEN <<>>
               ELSE [k \in DOMAIN s |->
                      [buy |-> f[k], sell |-> (f[k] * (100 + s[k][3])) \div 100]]
  BY DEF Set!LevelsWithAveraging, IsBuy
<1> HIDE DEF levels, s
<1>3. IsBuy(f, s)
  BY <1>1, BuyExists
<1> HIDE DEF f
<1>4. /\ \A k \in 1 .. Len(s) : f[k] \in Prices
      /\ \A k \in 2 .. Len(s) : f[k] <= f[k - 1]
  BY <1>1, <1>3, BuysFall
<1>5. CASE \E k \in DOMAIN s : f[k] <= 0
  <2>1. levels = <<>>
    BY <1>2, <1>5
  <2> QED
    BY <2>1 DEF Set!LevelsSound
<1>6. CASE ~\E k \in DOMAIN s : f[k] <= 0
  <2>1. PICK n \in 0 .. 3 : n = Len(s)
    BY <1>1
  <2>2. levels = [k \in 1 .. n |-> [buy |-> f[k], sell |-> (f[k] * (100 + s[k][3])) \div 100]]
    BY <1>1, <1>2, <1>6, <2>1
  <2>3. DOMAIN levels = 1 .. n /\ Len(levels) = n
    BY <2>2
  <2>4. \A k \in 1 .. n : /\ levels[k].buy = f[k]
                          /\ levels[k].sell = (f[k] * (100 + s[k][3])) \div 100
    BY <2>2
  <2>5. ASSUME NEW k \in 1 .. n PROVE levels[k].buy > 0 /\ levels[k].sell > levels[k].buy
    <3>1. f[k] \in {125, 250, 500, 1000} /\ s[k][3] \in {50, 100}
      BY <1>1, <1>4, <1>6, <2>1 DEF Prices, StepRow
    <3>2. \A p \in {125, 250, 500, 1000}, t \in {50, 100} : p > 0 /\ (p * (100 + t)) \div 100 > p
      OBVIOUS
    <3> QED
      BY <2>4, <3>1, <3>2
  <2>6. \A k \in 2 .. n : k \in 1 .. n /\ k - 1 \in 1 .. n
    OBVIOUS
  <2> QED
    BY <1>4, <2>1, <2>3, <2>4, <2>5, <2>6 DEF Set!LevelsSound
<1> QED
  BY <1>5, <1>6

-----------------------------------------------------------------------------
(* calculate_levels_with_averaging for any start price and any number of   *)
(* the rows the API accepts.                                               *)

AcceptedRow(r) == r[1] \in Nat /\ r[2] \in 0 .. 100 /\ r[3] \in 1 .. 100

(* The price of a level, from the one before. *)
Follows(f, start, s, k) ==
  f[k] = IF k = 0 \/ s[k][1] = 0 THEN start ELSE (f[k - 1] * (100 - s[k][2])) \div 100

IsBuyFrom(f, start, s) ==
  f = [k \in 0 .. Len(s) |->
        IF k = 0 \/ s[k][1] = 0 THEN start ELSE (f[k - 1] * (100 - s[k][2])) \div 100]

LEMMA BuyFromExists == ASSUME NEW start, NEW s, Len(s) \in Nat PROVE \E f : IsBuyFrom(f, start, s)
<1> DEFINE n == Len(s)
           Upto(f, m) == f = [k \in 0 .. m |-> f[k]] /\ \A k \in 0 .. m : Follows(f, start, s, k)
           Bad == {m \in 0 .. n : ~\E f : Upto(f, m)}
<1>1. Bad = {}
  <2> SUFFICES ASSUME Bad # {} PROVE FALSE
    OBVIOUS
  <2>1. PICK m \in Bad : \A q \in Bad : m <= q
    <3>1. Bad \in SUBSET Nat
      OBVIOUS
    <3> HIDE DEF Bad
    <3> QED
      BY <3>1, LeastNumber
  <2>2. m \in 0 .. n /\ ~\E f : Upto(f, m)
    BY <2>1
  <2>3. CASE m = 0
    <3> DEFINE f == [k \in 0 .. 0 |-> start]
    <3>1. f = [k \in 0 .. 0 |-> f[k]] /\ \A k \in 0 .. 0 : Follows(f, start, s, k)
      BY DEF Follows
    <3> QED
      BY <2>2, <2>3, <3>1
  <2>4. CASE m # 0
    <3>1. m - 1 \in 0 .. n /\ m - 1 \notin Bad /\ m - 1 \in Nat
      BY <2>1, <2>2, <2>4
    <3>2. PICK g : Upto(g, m - 1)
      BY <3>1
    <3> DEFINE f == [k \in 0 .. m |->
                      IF k = m THEN IF s[m][1] = 0 THEN start
                                    ELSE (g[m - 1] * (100 - s[m][2])) \div 100
                      ELSE g[k]]
    <3>3. ASSUME NEW k \in 0 .. m PROVE Follows(f, start, s, k)
      <4>1. CASE k = m
        <5>1. f[m - 1] = g[m - 1] /\ m - 1 # m
          BY <2>2, <2>4
        <5>2. f[m] = IF s[m][1] = 0 THEN start ELSE (g[m - 1] * (100 - s[m][2])) \div 100
          BY <2>2
        <5> HIDE DEF f
        <5> QED
          BY <2>4, <4>1, <5>1, <5>2 DEF Follows
      <4>2. CASE k # m
        <5>1. k \in 0 .. m - 1 /\ f[k] = g[k]
          BY <2>2, <4>2
        <5>2. k # 0 => f[k - 1] = g[k - 1]
          BY <2>2, <4>2, <5>1
        <5>3. Follows(g, start, s, k)
          BY <3>2, <5>1
        <5> HIDE DEF f
        <5> QED
          BY <5>1, <5>2, <5>3 DEF Follows
      <4> QED
        BY <4>1, <4>2
    <3>4. f = [k \in 0 .. m |-> f[k]]
      OBVIOUS
    <3> HIDE DEF f
    <3> QED
      BY <2>2, <3>3, <3>4
  <2> QED
    BY <2>3, <2>4
<1>2. PICK f : Upto(f, n)
  <2>1. n \in 0 .. n
    OBVIOUS
  <2> QED
    BY <1>1, <2>1
<1>3. f = [k \in 0 .. Len(s) |->
            IF k = 0 \/ s[k][1] = 0 THEN start ELSE (f[k - 1] * (100 - s[k][2])) \div 100]
  BY <1>2 DEF Follows
<1> QED
  BY <1>3 DEF IsBuyFrom

LEMMA PriceFalls ==
  ASSUME NEW p \in Nat, NEW d \in 0 .. 100
  PROVE  (p * (100 - d)) \div 100 \in Nat /\ (p * (100 - d)) \div 100 <= p
<1>1. PICK e \in 0 .. 100 : e = 100 - d
  OBVIOUS
<1>2. p * e \in Nat /\ p * e <= p * 100
  <2>1. PICK c \in Nat : 100 = e + c
    BY <1>1
  <2>2. p * 100 = p * e + p * c /\ p * c \in Nat /\ p * e \in Nat
    BY <2>1
  <2> QED
    BY <2>2
<1> QED
  BY <1>1, <1>2

LEMMA ProfitRises ==
  ASSUME NEW p \in Nat, NEW t \in 1 .. 100
  PROVE  /\ (p * (100 + t)) \div 100 >= p
         /\ p >= 100 => (p * (100 + t)) \div 100 > p
<1>1. PICK q \in Nat : q = p * t /\ q >= p
  <2>1. PICK c \in Nat : t = c + 1
    OBVIOUS
  <2>2. p * t = p * c + p /\ p * c \in Nat
    BY <2>1
  <2> QED
    BY <2>2
<1>2. p * (100 + t) = 100 * p + q
  BY <1>1
<1> QED
  BY <1>1, <1>2

(* The rows in order of their numbers, each once. *)
LEMMA RowsListed ==
  ASSUME NEW S, IsFiniteSet(S), \A r \in S : AcceptedRow(r), Numbered(S)
  PROVE  /\ Len(Set!InOrder(S)) = Cardinality(S) /\ Cardinality(S) \in Nat
         /\ DOMAIN Set!InOrder(S) = 1 .. Cardinality(S)
         /\ \A k \in 1 .. Cardinality(S) : Set!InOrder(S)[k] \in S
         /\ \A m, n \in 1 .. Cardinality(S) :
              m < n => Set!InOrder(S)[m][1] < Set!InOrder(S)[n][1]
<1> DEFINE key == [r \in S |-> r[1]]
           d == Cardinality(S)
           s == Set!InOrder(S)
<1>1. Keyed(S, key) /\ d \in Nat
  <2>1. Keyed(S, key)
    BY DEF Keyed, AcceptedRow, Numbered
  <2> QED
    BY <2>1, FS_CardinalityType
<1>2. PICK u \in [1 .. d -> S] : Ascends(u, key)
  BY <1>1, ListingExists
<1>3. u \in Set!SetToSeqs(S)
  <2>1. \A m, n \in 1 .. d : m # n => u[m] # u[n]
    BY <1>1, <1>2, ListingHolds
  <2> QED
    BY <1>2, <2>1, SetCardinality DEF Set!SetToSeqs
<1>4. \A m, n \in DOMAIN u : m < n => u[m][1] < u[n][1]
  BY <1>2 DEF Ascends
<1>5. s \in Set!SetToSeqs(S) /\ \A m, n \in DOMAIN s : m < n => s[m][1] < s[n][1]
  BY <1>3, <1>4 DEF Set!InOrder
<1>6. s \in [1 .. d -> S]
  BY <1>5, SetCardinality DEF Set!SetToSeqs
<1> HIDE DEF s, d
<1>7. Len(s) = d /\ DOMAIN s = 1 .. d
  BY <1>1, <1>6
<1> QED
  BY <1>1, <1>5, <1>6, <1>7 DEF s, d

(* GridCalculator: whatever price averaging starts at and however many     *)
(* steps the owner sends, there is a level per step, none buys above the   *)
(* start or above the step before, and none sells below what it buys at,   *)
(* unless a price falls to zero, which the calculator refuses.             *)
THEOREM AveragingNeverRises ==
  ASSUME NEW start \in Nat, NEW S, IsFiniteSet(S), \A r \in S : AcceptedRow(r), Numbered(S),
         NEW levels, levels = Set!LevelsWithAveraging(start, S), levels # <<>>
  PROVE  /\ DOMAIN levels = 1 .. Cardinality(S)
         /\ \A k \in DOMAIN levels :
              /\ levels[k].buy \in Nat \ {0} /\ levels[k].buy <= start
              /\ levels[k].sell >= levels[k].buy
              /\ levels[k].buy >= 100 => levels[k].sell > levels[k].buy
              /\ k > 1 => levels[k].buy <= levels[k - 1].buy
<1> DEFINE s == Set!InOrder(S)
           d == Cardinality(S)
           f == CHOOSE f : IsBuyFrom(f, start, s)
<1>1. /\ Len(s) = d /\ d \in Nat /\ DOMAIN s = 1 .. d
      /\ \A k \in 1 .. d : s[k] \in S /\ AcceptedRow(s[k])
      /\ \A m, n \in 1 .. d : m < n => s[m][1] < s[n][1]
  BY RowsListed
<1>2. levels = IF \E k \in DOMAIN s : f[k] <= 0 THEN <<>>
               ELSE [k \in DOMAIN s |->
                      [buy |-> f[k], sell |-> (f[k] * (100 + s[k][3])) \div 100]]
  BY DEF Set!LevelsWithAveraging, IsBuyFrom
<1> HIDE DEF s, d
<1>3. IsBuyFrom(f, start, s)
  BY <1>1, BuyFromExists
<1> HIDE DEF f
<1>4. \A k \in 0 .. d :
        f[k] = IF k = 0 \/ s[k][1] = 0 THEN start ELSE (f[k - 1] * (100 - s[k][2])) \div 100
  BY <1>1, <1>3 DEF IsBuyFrom
<1>5. ASSUME NEW k \in 1 .. d, f[k - 1] \in Nat, f[k - 1] <= start
      PROVE  f[k] \in Nat /\ f[k] <= start /\ (s[k][1] # 0 => f[k] <= f[k - 1])
  <2>1. PICK p \in Nat : p = f[k - 1]
    BY <1>5
  <2>2. PICK e \in 0 .. 100 : e = s[k][2]
    BY <1>1 DEF AcceptedRow
  <2>3. f[k] = IF s[k][1] = 0 THEN start ELSE (p * (100 - e)) \div 100
    <3>1. k \in 0 .. d /\ k # 0
      BY <1>1
    <3> QED
      BY <1>4, <2>1, <2>2, <3>1
  <2>4. (p * (100 - e)) \div 100 \in Nat /\ (p * (100 - e)) \div 100 <= p
    BY PriceFalls
  <2> QED
    BY <1>5, <2>1, <2>3, <2>4
<1>6. \A k \in 0 .. d : f[k] \in Nat /\ f[k] <= start
  <2> DEFINE Bad == {k \in 0 .. d : ~(f[k] \in Nat /\ f[k] <= start)}
  <2> SUFFICES ASSUME Bad # {} PROVE FALSE
    OBVIOUS
  <2>1. PICK m \in Bad : \A q \in Bad : m <= q
    <3>1. Bad \in SUBSET Nat
      OBVIOUS
    <3> HIDE DEF Bad
    <3> QED
      BY <3>1, LeastNumber
  <2>2. m \in 0 .. d /\ m # 0
    <3>1. 0 \in 0 .. d
      BY <1>1
    <3>2. f[0] = start
      BY <1>4, <3>1
    <3> QED
      BY <2>1, <3>2
  <2>3. m \in 1 .. d /\ m - 1 \in 0 .. d /\ m - 1 \notin Bad
    BY <1>1, <2>1, <2>2
  <2> QED
    BY <1>5, <2>1, <2>3
<1>7. ASSUME NEW k \in 1 .. d, k > 1 PROVE f[k] <= f[k - 1]
  <2>1. k - 1 \in 1 .. d /\ k - 1 < k /\ k - 1 \in 0 .. d
    BY <1>1, <1>7
  <2>2. s[k][1] # 0
    <3>1. s[k - 1][1] < s[k][1] /\ s[k - 1][1] \in Nat /\ s[k][1] \in Nat
      BY <1>1, <2>1 DEF AcceptedRow
    <3> QED
      BY <3>1
  <2> QED
    BY <1>5, <1>6, <2>1, <2>2
<1>8. /\ ~\E k \in DOMAIN s : f[k] <= 0
      /\ levels = [k \in 1 .. d |-> [buy |-> f[k], sell |-> (f[k] * (100 + s[k][3])) \div 100]]
  BY <1>1, <1>2
<1>9. DOMAIN levels = 1 .. d
  BY <1>8
<1>10. \A k \in 1 .. d : /\ levels[k].buy = f[k]
                         /\ levels[k].sell = (f[k] * (100 + s[k][3])) \div 100
  BY <1>8
<1>11. ASSUME NEW k \in 1 .. d
       PROVE  /\ levels[k].buy \in Nat \ {0} /\ levels[k].buy <= start
              /\ levels[k].sell >= levels[k].buy
              /\ levels[k].buy >= 100 => levels[k].sell > levels[k].buy
  <2>1. k \in 0 .. d
    BY <1>1
  <2>2. PICK p \in Nat : p = f[k] /\ p <= start /\ p # 0
    <3>1. f[k] \in Nat /\ f[k] <= start
      BY <1>6, <2>1
    <3>2. k \in DOMAIN s
      BY <1>1
    <3>3. ~(f[k] <= 0)
      BY <1>8, <3>2
    <3> QED
      BY <3>1, <3>3
  <2>3. PICK t \in 1 .. 100 : t = s[k][3]
    BY <1>1 DEF AcceptedRow
  <2>4. levels[k].buy = p /\ levels[k].sell = (p * (100 + t)) \div 100
    BY <1>10, <2>2, <2>3
  <2> QED
    BY <2>2, <2>4, ProfitRises
<1>12. ASSUME NEW k \in 1 .. d, k > 1 PROVE levels[k].buy <= levels[k - 1].buy
  <2>1. k - 1 \in 1 .. d
    BY <1>1, <1>12
  <2> QED
    BY <1>7, <1>10, <1>12, <2>1
<1> QED
  BY <1>9, <1>11, <1>12 DEF d

-----------------------------------------------------------------------------
(* The calculators, for every capital, price and number of coins.          *)

GridSound(levels, upper) ==
  /\ Set!LevelsSound(levels) /\ Set!Rising(levels)
  /\ \A k \in DOMAIN levels : levels[k].sell <= upper

(* GridCalculator.calculate_levels, for every range and number of grids:   *)
(* the buys rise, each level sells above its buy and none above the range, *)
(* in the model's unit of a 2 * n-th of a price.                           *)
THEOREM GridLevelsSound ==
  ASSUME NEW u \in Nat \ {0}, NEW l \in Nat \ {0}, u > l, NEW n \in Nat \ {0}
  PROVE  GridSound(Set!CalculateLevels(u, l, n), 2 * n * u)
<1> DEFINE levels == Set!CalculateLevels(u, l, n)
           top == 2 * n * u
           d == u - l
           Buy(k) == 2 * n * l + 2 * (k - 1) * d
<1>1. d \in Nat \ {0} /\ u = l + d
  OBVIOUS
<1>2. levels = [k \in 1 .. n |-> [buy |-> Buy(k), sell |-> Set!SellPrice(n, Buy(k), u, l)]]
  BY DEF Set!CalculateLevels
<1>3. DOMAIN levels = 1 .. n /\ Len(levels) = n
  BY <1>2
<1>4. \A k \in 1 .. n : /\ levels[k].buy = Buy(k)
                        /\ levels[k].sell = IF Buy(k) + 5 * d > top THEN top ELSE Buy(k) + 5 * d
  BY <1>2 DEF Set!SellPrice
<1>5. top \in Int /\ 2 * n * l \in Nat /\ 2 * n * l > 0 /\ top = 2 * n * l + 2 * n * d
  BY <1>1
<1> HIDE DEF d, top, levels
<1>6. ASSUME NEW k \in 1 .. n
      PROVE  /\ Buy(k) \in Int /\ Buy(k) > 0 /\ Buy(k) < top
             /\ k > 1 => Buy(k) > Buy(k - 1)
  <2>1. PICK j \in Nat : j = k - 1 /\ j + 1 <= n
    OBVIOUS
  <2>2. PICK i \in Nat : n = j + 1 + i
    BY <2>1
  <2>3. 2 * j * d \in Nat
    BY <1>1, <2>1
  <2>4. 2 * n * d = 2 * j * d + 2 * d + 2 * i * d
    BY <1>1, <2>1, <2>2
  <2>5. 2 * i * d \in Nat
    BY <1>1, <2>2
  <2>6. Buy(k) = 2 * n * l + 2 * j * d
    BY <2>1
  <2>7. k > 1 => Buy(k - 1) = 2 * n * l + 2 * j * d - 2 * d
    <3>1. 2 * (j - 1) * d = 2 * j * d - 2 * d
      BY <1>1, <2>1
    <3>2. Buy(k - 1) = 2 * n * l + 2 * (j - 1) * d
      BY <2>1
    <3> QED
      BY <1>1, <1>5, <2>3, <3>1, <3>2
  <2> HIDE DEF Buy
  <2> QED
    BY <1>1, <1>5, <2>3, <2>4, <2>5, <2>6, <2>7
<1> HIDE DEF Buy
<1>10. ASSUME NEW k \in 1 .. n
       PROVE  /\ levels[k].buy > 0 /\ levels[k].sell > levels[k].buy /\ levels[k].sell <= top
  <2>1. PICK b \in Int : b = Buy(k) /\ b > 0 /\ b < top
    BY <1>6
  <2>2. levels[k].buy = b /\ levels[k].sell = IF b + 5 * d > top THEN top ELSE b + 5 * d
    BY <1>4, <2>1
  <2> QED
    BY <1>1, <1>5, <2>1, <2>2
<1>7. Set!LevelsSound(levels)
  BY <1>3, <1>10 DEF Set!LevelsSound
<1>8. Set!Rising(levels)
  <2>1. \A k \in 2 .. n : k \in 1 .. n /\ k - 1 \in 1 .. n /\ k > 1
    OBVIOUS
  <2> QED
    BY <1>3, <1>4, <1>6, <2>1 DEF Set!Rising
<1>9. \A k \in DOMAIN levels : levels[k].sell <= top
  BY <1>3, <1>10
<1> QED
  BY <1>7, <1>8, <1>9 DEF GridSound, levels, top

(* What a money plan promises of its amount, of the capital in cents. *)
MoneySound(x) ==
  IF x.amount = 0
  THEN x.fewer /\ x.fits => x.capital < Set!MIN_BUY_AMOUNT * 100 * x.layers
  ELSE /\ x.amount >= Set!MIN_BUY_AMOUNT * 100
       /\ x.amount * x.layers <= x.capital
       /\ x.capital < (x.amount + 1) * x.layers

LEMMA CentsLeft ==
  ASSUME NEW c \in Nat, NEW n \in Nat \ {0}
  PROVE  /\ c \div n \in Nat /\ (c \div n) * n <= c /\ c < ((c \div n) + 1) * n
         /\ c \div n < 1500 => c < 1500 * n
<1> DEFINE a == c \div n
           b == c % n
<1>1. a \in Nat /\ b \in 0 .. n - 1 /\ c = n * a + b
  OBVIOUS
<1> HIDE DEF a, b
<1>2. a * n = n * a /\ (a + 1) * n = n * a + n
  BY <1>1
<1>3. ASSUME a < 1500 PROVE c < 1500 * n
  <2>1. PICK e \in Nat : 1500 = (a + 1) + e
    BY <1>1, <1>3
  <2>2. 1500 * n = (a + 1) * n + e * n /\ e * n \in Nat
    BY <1>1, <2>1
  <2> QED
    BY <1>1, <1>2, <2>2
<1> QED
  BY <1>1, <1>2, <1>3 DEF a

LEMMA LayersPositive ==
  ASSUME SetupAssumption, NEW preset \in DOMAIN Set!BUILTIN_PRESETS, NEW size \in GroupSize,
         NEW chosen \in GroupSize \cup {0, 1}
  PROVE  Set!Layers(preset, size, chosen) \in Nat \ {0}
<1>1. Set!BUILTIN_PRESETS[preset].steps \in Nat \ {0}
  BY DEF Set!BUILTIN_PRESETS, SetupAssumption
<1>2. PICK n \in Nat \ {0} : n = IF chosen >= 1 THEN chosen ELSE size
  BY DEF SetupAssumption
<1>3. PICK m \in Nat \ {0} : m = Set!BUILTIN_PRESETS[preset].steps
  BY <1>1
<1>4. Set!Layers(preset, size, chosen) = m * n
  BY <1>2, <1>3 DEF Set!Layers
<1>5. m * n \in Nat \ {0}
  OBVIOUS
<1> QED
  BY <1>4, <1>5

LEMMA MoneyPlanSound ==
  ASSUME SetupAssumption, NEW preset \in DOMAIN Set!BUILTIN_PRESETS, NEW c \in Capital,
         NEW size \in GroupSize, NEW chosen \in GroupSize \cup {0, 1}, NEW named \in BOOLEAN
  PROVE  MoneySound([of |-> "money", capital |-> c * 100, fewer |-> chosen \in 1 .. size - 1,
                     fits |-> ~named \/ size \in Set!BUILTIN_PRESETS[preset].groups,
                     layers |-> Set!Layers(preset, size, chosen),
                     amount |-> Set!Calculate(preset, c, size, chosen, named)])
<1> DEFINE n == Set!Layers(preset, size, chosen)
           a == Set!Amount(c, n)
           Fits == ~named \/ size \in Set!BUILTIN_PRESETS[preset].groups
           Fewer == chosen \in 1 .. size - 1
           Poor == c < Set!MinCapital(preset, size, chosen)
           amount == Set!Calculate(preset, c, size, chosen, named)
<1>1. n \in Nat \ {0} /\ c \in Nat /\ c * 100 \in Nat
  BY LayersPositive DEF SetupAssumption
<1>2. /\ a \in Nat /\ a * n <= c * 100 /\ c * 100 < (a + 1) * n
      /\ a < 1500 => c * 100 < 1500 * n
  BY <1>1, CentsLeft DEF Set!Amount
<1>3. amount = IF ~Fits \/ Poor \/ a < 1500 THEN 0 ELSE a
  BY DEF Set!Calculate, Set!MIN_BUY_AMOUNT
<1>4. Fewer /\ Poor => c * 100 < 1500 * n
  <2>1. Fewer => Set!MinCapital(preset, size, chosen) = 15 * n
    <3>1. size \in Nat /\ chosen \in Nat
      BY DEF SetupAssumption
    <3>2. Fewer => chosen >= 1 /\ chosen < size
      BY <3>1
    <3> QED
      BY <3>2 DEF Set!MinCapital, Set!MIN_BUY_AMOUNT
  <2> HIDE DEF n, Fewer
  <2> QED
    BY <1>1, <2>1
<1> HIDE DEF n, a, Fits, Fewer, Poor, amount
<1>5. CASE amount = 0
  <2>1. Fits => Poor \/ a < 1500
    BY <1>2, <1>3, <1>5
  <2>2. Fewer /\ Fits => c * 100 < 1500 * n
    BY <1>2, <1>4, <2>1
  <2>3. Fewer /\ Fits => c * 100 < Set!MIN_BUY_AMOUNT * 100 * n
    BY <1>1, <2>2 DEF Set!MIN_BUY_AMOUNT
  <2> QED
    BY <1>5, <2>3, Zenon DEF MoneySound, n, Fits, Fewer, amount
<1>6. CASE amount # 0
  <2>1. amount = a /\ a >= 1500
    BY <1>2, <1>3, <1>6
  <2>2. amount >= Set!MIN_BUY_AMOUNT * 100
    BY <1>2, <2>1 DEF Set!MIN_BUY_AMOUNT
  <2>3. amount * n <= c * 100 /\ c * 100 < (amount + 1) * n
    BY <1>2, <2>1
  <2> QED
    BY <1>6, <2>2, <2>3, Zenon DEF MoneySound, n, amount
<1> QED
  BY <1>5, <1>6

PlanInv ==
  /\ plan.of = "grid" => GridSound(plan.levels, plan.upper)
  /\ plan.of = "money" => MoneySound(plan)

LEMMA PlanStepInv == ASSUME SetupAssumption, Set!PlanStep PROVE PlanInv'
<1>1. ASSUME NEW u \in Bound, NEW l \in Bound, NEW n \in 2 .. MaxGrids, u > l,
             plan' = [of |-> "grid", upper |-> 2 * n * u, levels |-> Set!CalculateLevels(u, l, n)]
      PROVE  PlanInv'
  <2>1. u \in Nat \ {0} /\ l \in Nat \ {0} /\ n \in Nat \ {0}
    BY DEF SetupAssumption
  <2>2. GridSound(Set!CalculateLevels(u, l, n), 2 * n * u)
    BY <1>1, <2>1, GridLevelsSound
  <2>3. /\ plan'.of = "grid" /\ plan'.upper = 2 * n * u
        /\ plan'.levels = Set!CalculateLevels(u, l, n)
    BY <1>1
  <2> QED
    BY <2>2, <2>3 DEF PlanInv
<1>2. ASSUME NEW preset \in DOMAIN Set!BUILTIN_PRESETS, NEW c \in Capital, NEW size \in GroupSize,
             NEW chosen \in GroupSize \cup {0, 1}, NEW named \in BOOLEAN,
             plan' = [of |-> "money", capital |-> c * 100, fewer |-> chosen \in 1 .. size - 1,
                      fits |-> ~named \/ size \in Set!BUILTIN_PRESETS[preset].groups,
                      layers |-> Set!Layers(preset, size, chosen),
                      amount |-> Set!Calculate(preset, c, size, chosen, named)]
      PROVE  PlanInv'
  <2>1. MoneySound(plan')
    BY <1>2, MoneyPlanSound
  <2>2. plan'.of = "money"
    BY <1>2
  <2> QED
    BY <2>1, <2>2 DEF PlanInv
<1> QED
  BY <1>1, <1>2 DEF Set!PlanStep

(* update_averaging_config, reset_averaging_config and the calculators:    *)
(* however an owner's updates and resets overlap, the committed averaging  *)
(* steps are whole updates with each number once, and their levels fall    *)
(* and sell above their price;                                             *)
(* every even grid rises within its range; and every accepted money plan   *)
(* buys for the minimum and spends the capital to within a cent per layer. *)
THEOREM SetupStaysSound ==
  ASSUME SetupAssumption PROVE Set!Spec => []SetupSound
<1>1. Set!Init => StepsInv /\ PlanInv
  <2> SUFFICES ASSUME Set!Init PROVE StepsInv /\ PlanInv
    OBVIOUS
  <2>1. PlanInv
    BY DEF Set!Init, PlanInv, Set!NoPlan
  <2>2. WholeUpdates(steps) /\ Numbered(steps) /\ template \in Set!Templates
    BY DEF Set!Init, WholeUpdates, Numbered
  <2>3. update = [o \in Owner |-> update[o]] /\ \A o \in Owner : update[o] = Set!NoUpdate
    BY DEF Set!Init
  <2> QED
    BY <2>1, <2>2, <2>3, NoUpdateUpdating DEF StepsInv
<1>2. StepsInv /\ PlanInv /\ [Set!Next]_(Set!setupVars) => (StepsInv /\ PlanInv)'
  <2> SUFFICES ASSUME StepsInv, PlanInv, [Set!Next]_(Set!setupVars) PROVE StepsInv' /\ PlanInv'
    OBVIOUS
  <2>1. ASSUME UNCHANGED <<steps, template, update>> PROVE StepsInv'
    BY <2>1 DEF StepsInv
  <2>2. ASSUME UNCHANGED plan PROVE PlanInv'
    BY <2>2 DEF PlanInv
  <2>3. CASE Set!StepsStep
    <3>1. UNCHANGED plan
      BY <2>3 DEF Set!StepsStep
    <3> QED
      BY <2>2, <2>3, <3>1, StepsStepInv
  <2>4. CASE Set!PlanStep
    <3>1. UNCHANGED <<steps, template, update>>
      BY <2>4 DEF Set!PlanStep, Set!stepVars
    <3> QED
      BY <2>1, <2>4, <3>1, PlanStepInv
  <2>5. CASE Set!ModeStep \/ UNCHANGED Set!setupVars
    <3>1. UNCHANGED <<steps, template, update>> /\ UNCHANGED plan
      BY <2>5 DEF Set!ModeStep, Set!stepVars, Set!setupVars
    <3> QED
      BY <2>1, <2>2, <3>1
  <2> QED
    BY <2>3, <2>4, <2>5 DEF Set!Next
<1>3. StepsInv /\ PlanInv => SetupSound
  <2> SUFFICES ASSUME StepsInv, PlanInv PROVE SetupSound
    OBVIOUS
  <2>1. WholeUpdates(steps) /\ Numbered(steps)
    BY DEF StepsInv
  <2>2. Set!StepsOfWholeUpdates
    BY <2>1 DEF Set!StepsOfWholeUpdates, WholeUpdates, Numbered, OfUpdate
  <2>3. LET levels == Set!LevelsWithAveraging(1000, steps) IN
        Set!LevelsSound(levels) /\ \A k \in 2 .. Len(levels) : levels[k].buy <= levels[k - 1].buy
    BY <2>1, LevelsFall
  <2>4. plan.of = "grid" =>
          /\ Set!LevelsSound(plan.levels) /\ Set!Rising(plan.levels)
          /\ \A k \in DOMAIN plan.levels : plan.levels[k].sell <= plan.upper
    BY DEF PlanInv, GridSound
  <2>5. plan.of = "money" =>
          IF plan.amount = 0
          THEN plan.fewer /\ plan.fits => plan.capital < Set!MIN_BUY_AMOUNT * 100 * plan.layers
          ELSE /\ plan.amount >= Set!MIN_BUY_AMOUNT * 100
               /\ plan.amount * plan.layers <= plan.capital
               /\ plan.capital < (plan.amount + 1) * plan.layers
    BY DEF PlanInv, MoneySound
  <2> QED
    BY <2>2, <2>3, <2>4, <2>5, Zenon DEF SetupSound, Set!SetupSound
<1> QED
  BY <1>1, <1>2, <1>3, PTL DEF Set!Spec

-----------------------------------------------------------------------------
(* Catalogue.  No table has a unique constraint: what keeps a row one of   *)
(* its kind is that the request that inserts it saw none, and that nobody  *)
(* else inserted one since.                                                *)

SessionShape ==
  /\ session = [c \in Client |-> session[c]]
  /\ \A c \in Client : /\ session[c].op \in {"presets", "groups"} => session[c].user = System
                       /\ session[c].op = "accounts" => session[c].user \in Customer

(* No request of a kind begins, and the histories only grow. *)
NoneBegins(op) == \A d \in Client : session'[d].op = op => session'[d] = session[d]
HistoryKept == raced \subseteq raced' /\ namesakes \subseteq namesakes'

RowFields == {"id", "name", "builtin", "user", "drifted"}
IsRow(r) == r = [i \in RowFields |-> r[i]]

OneSession(op) == \A c, d \in Client : session[c].op = op /\ session[d].op = op => c = d

PresetInv ==
  /\ \A r \in presetRows : IsRow(r) /\ (r.builtin <=> r.user = System)
  /\ "presets" \notin raced =>
       /\ OneSession("presets")
       /\ \A r, s \in Cat!GetBuiltin(presetRows) :
            r.name = s.name /\ r.name \notin namesakes => r = s
       /\ \A c \in Client : \A r \in Cat!GetBuiltin(presetRows) :
            session[c].op = "presets" => r.name \in namesakes \cup Cat!Names(session[c].seen)

GroupInv ==
  /\ \A r \in groupRows : /\ IsRow(r) /\ (r.builtin <=> r.user = System)
                          /\ ~r.builtin => r.name \in namesakes
  /\ "groups" \notin raced =>
       /\ OneSession("groups")
       /\ \A r, s \in groupRows : r.name = s.name /\ r.name \notin namesakes => r = s
       /\ \A c \in Client : session[c].op = "groups" /\ session[c].seen = {} =>
            \A r \in groupRows : r.name \in namesakes

IsAccount(r) == r = [i \in {"id", "user", "deleted"} |-> r[i]]

AccountInv ==
  /\ \A r \in accountRows : IsAccount(r)
  /\ "accounts" \notin raced =>
       /\ \A c, d \in Client : session[c].op = "accounts" /\ session[d].op = "accounts"
                               /\ session[c].user = session[d].user => c = d
       /\ \A r, s \in accountRows : r.user = s.user /\ ~r.deleted /\ ~s.deleted => r = s
       /\ \A c \in Client : session[c].op = "accounts" => Cat!Live(session[c].user) = {}

CatInv == SessionShape /\ PresetInv /\ GroupInv /\ AccountInv

LEMMA CatInitInv == Cat!Init => CatInv
<1> SUFFICES ASSUME Cat!Init PROVE CatInv
  OBVIOUS
<1>1. /\ presetRows = {} /\ groupRows = {} /\ accountRows = {}
      /\ session = [c \in Client |-> Cat!NoSession]
  BY DEF Cat!Init
<1>2. \A c \in Client : session[c].op = "none"
  BY <1>1 DEF Cat!NoSession
<1>3. SessionShape
  BY <1>1, <1>2 DEF SessionShape
<1>4. PresetInv /\ GroupInv /\ AccountInv
  BY <1>1, <1>2 DEF PresetInv, GroupInv, AccountInv, OneSession, Cat!GetBuiltin
<1> QED
  BY <1>3, <1>4 DEF CatInv

LEMMA ReadsOpens ==
  ASSUME SessionShape, NEW c \in Client, NEW op, NEW seen, NEW user,
         Cat!Reads(c, op, seen, user)
  PROVE  /\ session[c].op = "none" /\ session'[c] = [op |-> op, seen |-> seen, user |-> user]
         /\ session' = [d \in Client |-> session'[d]]
         /\ \A d \in Client : d # c => session'[d] = session[d]
         /\ raced \subseteq raced'
         /\ op \notin raced' => \A d \in Client : session[d].op = op => session[d].user # user
         /\ UNCHANGED <<presetRows, groupRows, accountRows, namesakes>>
<1>1. /\ session = [d \in Client |-> session[d]]
      /\ session' = [session EXCEPT ![c] = [op |-> op, seen |-> seen, user |-> user]]
  BY DEF SessionShape, Cat!Reads
<1>2. session[c].op = "none"
  BY DEF Cat!Reads, Cat!NoSession
<1>3. /\ session'[c] = [op |-> op, seen |-> seen, user |-> user]
      /\ session' = [d \in Client |-> session'[d]]
      /\ \A d \in Client : d # c => session'[d] = session[d]
  BY <1>1
<1>4. /\ raced \subseteq raced'
      /\ op \notin raced' => \A d \in Client : session[d].op = op => session[d].user # user
  <2>1. CASE \E d \in Client : session[d].op = op /\ session[d].user = user
    <3>1. raced' = raced \cup {op}
      BY <2>1 DEF Cat!Reads
    <3> QED
      BY <3>1
  <2>2. CASE ~\E d \in Client : session[d].op = op /\ session[d].user = user
    <3>1. raced' = raced
      BY <2>2 DEF Cat!Reads
    <3> QED
      BY <2>2, <3>1
  <2> QED
    BY <2>1, <2>2
<1> QED
  BY <1>2, <1>3, <1>4 DEF Cat!Reads

LEMMA EndsCloses ==
  ASSUME SessionShape, NEW c \in Client, Cat!Ends(c)
  PROVE  /\ session'[c].op = "none" /\ session' = [d \in Client |-> session'[d]]
         /\ \A d \in Client : d # c => session'[d] = session[d]
<1>1. /\ session = [d \in Client |-> session[d]]
      /\ session' = [session EXCEPT ![c] = Cat!NoSession]
  BY DEF SessionShape, Cat!Ends
<1>2. Cat!NoSession.op = "none"
  BY DEF Cat!NoSession
<1> QED
  BY <1>1, <1>2

LEMMA ClosedBeginsNone ==
  ASSUME SessionShape, NEW c \in Client, Cat!Ends(c), NEW op, op # "none"
  PROVE  SessionShape' /\ NoneBegins(op) /\ session'[c].op # op
<1>1. /\ session'[c].op = "none" /\ session' = [d \in Client |-> session'[d]]
      /\ \A d \in Client : d # c => session'[d] = session[d]
  BY EndsCloses
<1>2. SessionShape'
  BY <1>1 DEF SessionShape
<1>3. NoneBegins(op)
  BY <1>1 DEF NoneBegins
<1> QED
  BY <1>1, <1>2, <1>3

LEMMA NewRowForm ==
  ASSUME NEW id, NEW name, NEW b \in BOOLEAN, NEW u, NEW r, r = Cat!NewRow(id, name, b, u)
  PROVE  IsRow(r) /\ r.name = name /\ r.builtin = b /\ r.user = u
BY DEF Cat!NewRow, IsRow, RowFields

LEMMA RowChanged ==
  ASSUME NEW r, IsRow(r), NEW x, NEW s
  PROVE  /\ s = [r EXCEPT !.drifted = x] =>
              IsRow(s) /\ s.name = r.name /\ s.builtin = r.builtin /\ s.user = r.user
         /\ s = [r EXCEPT !.name = x] =>
              IsRow(s) /\ s.name = x /\ s.builtin = r.builtin /\ s.user = r.user
<1>1. r = [i \in RowFields |-> r[i]]
  BY DEF IsRow
<1>2. /\ "name" \in RowFields /\ "builtin" \in RowFields /\ "user" \in RowFields
      /\ "drifted" \in RowFields
  BY DEF RowFields
<1>3. ASSUME s = [r EXCEPT !.drifted = x]
      PROVE  IsRow(s) /\ s.name = r.name /\ s.builtin = r.builtin /\ s.user = r.user
  BY <1>1, <1>2, <1>3 DEF IsRow
<1>4. ASSUME s = [r EXCEPT !.name = x]
      PROVE  IsRow(s) /\ s.name = x /\ s.builtin = r.builtin /\ s.user = r.user
  BY <1>1, <1>2, <1>4 DEF IsRow
<1> QED
  BY <1>3, <1>4

(* Built-in rows, one for each of some names. *)
Seeded(new, names) ==
  /\ \A r \in new : IsRow(r) /\ r.builtin = TRUE /\ r.user = System /\ r.name \in names
  /\ \A r, s \in new : r.name = s.name => r = s

LEMMA FreshRows ==
  ASSUME NEW names, NEW rows, NEW new, new = Cat!Fresh(names, rows) PROVE Seeded(new, names)
<1>1. PICK id : new = {Cat!NewRow(id[n], n, TRUE, System) : n \in names}
  BY DEF Cat!Fresh
<1>2. ASSUME NEW r \in new
      PROVE  \E n \in names : /\ r = Cat!NewRow(id[n], n, TRUE, System)
                             /\ IsRow(r) /\ r.name = n /\ r.builtin = TRUE /\ r.user = System
  <2>1. PICK n \in names : r = Cat!NewRow(id[n], n, TRUE, System)
    BY <1>1
  <2>2. IsRow(r) /\ r.name = n /\ r.builtin = TRUE /\ r.user = System
    BY <2>1 DEF Cat!NewRow, IsRow, RowFields
  <2> QED
    BY <2>1, <2>2
<1>3. \A r \in new : IsRow(r) /\ r.builtin = TRUE /\ r.user = System /\ r.name \in names
  BY <1>2
<1>4. ASSUME NEW r \in new, NEW s \in new, r.name = s.name PROVE r = s
  <2>1. PICK m \in names : r = Cat!NewRow(id[m], m, TRUE, System) /\ r.name = m
    BY <1>2
  <2>2. PICK n \in names : s = Cat!NewRow(id[n], n, TRUE, System) /\ s.name = n
    BY <1>2
  <2>3. m = n
    BY <1>4, <2>1, <2>2
  <2> QED
    BY <2>1, <2>2, <2>3
<1> QED
  BY <1>3, <1>4 DEF Seeded

LEMMA PresetFrame ==
  ASSUME PresetInv, UNCHANGED presetRows, HistoryKept, NoneBegins("presets") PROVE PresetInv'
BY DEF PresetInv, HistoryKept, NoneBegins, OneSession, Cat!GetBuiltin

LEMMA PresetAdded ==
  ASSUME PresetInv, HistoryKept, UNCHANGED session, NEW x,
         IsRow(x), x.builtin <=> x.user = System, x.name \in namesakes',
         presetRows' = presetRows \cup {x}
  PROVE  PresetInv'
<1> USE DEF PresetInv, HistoryKept
<1>1. \A r \in presetRows' : r = x \/ r \in presetRows
  OBVIOUS
<1>2. \A r \in presetRows' : IsRow(r) /\ (r.builtin <=> r.user = System)
  BY <1>1
<1>3. ASSUME "presets" \notin raced'
      PROVE  /\ OneSession("presets")'
             /\ \A r, s \in Cat!GetBuiltin(presetRows)' :
                  r.name = s.name /\ r.name \notin namesakes' => r = s
             /\ \A c \in Client : \A r \in Cat!GetBuiltin(presetRows)' :
                  session'[c].op = "presets"
                    => r.name \in namesakes' \cup Cat!Names(session'[c].seen)
  <2>1. OneSession("presets")'
    BY <1>3 DEF OneSession
  <2>2. \A r \in Cat!GetBuiltin(presetRows)' : r = x \/ r \in Cat!GetBuiltin(presetRows)
    BY <1>1 DEF Cat!GetBuiltin
  <2>3. \A r, s \in Cat!GetBuiltin(presetRows)' :
           r.name = s.name /\ r.name \notin namesakes' => r = s
    BY <1>3, <2>2
  <2>4. \A c \in Client : \A r \in Cat!GetBuiltin(presetRows)' :
           session'[c].op = "presets" => r.name \in namesakes' \cup Cat!Names(session'[c].seen)
    BY <1>3, <2>2
  <2> QED
    BY <2>1, <2>3, <2>4
<1> QED
  BY <1>2, <1>3

LEMMA PresetSeeded ==
  ASSUME SessionShape, PresetInv, NEW c \in Client, Cat!EnsureBuiltinPresets(c) PROVE PresetInv'
<1> USE DEF PresetInv
<1>1. session[c].op = "presets" /\ Cat!Ends(c) /\ UNCHANGED <<raced, namesakes>>
  BY DEF Cat!EnsureBuiltinPresets
<1>2. PICK ids, new :
        /\ new = Cat!Fresh(Cat!Missing(session[c].seen), presetRows)
        /\ presetRows' = {[r EXCEPT !.drifted = r.drifted /\ r.id \notin ids] : r \in presetRows}
                           \cup new
  BY DEF Cat!EnsureBuiltinPresets
<1>3. /\ \A r \in new : /\ IsRow(r) /\ r.builtin = TRUE /\ r.user = System
                        /\ r.name \notin Cat!Names(session[c].seen)
      /\ \A r, s \in new : r.name = s.name => r = s
  <2>1. Seeded(new, Cat!Missing(session[c].seen))
    BY <1>2, FreshRows, Zenon
  <2> QED
    BY <2>1 DEF Seeded, Cat!Missing
<1>4. \A r \in presetRows' :
        \/ r \in new
        \/ \E s \in presetRows : /\ r = [s EXCEPT !.drifted = s.drifted /\ s.id \notin ids]
                                 /\ IsRow(r) /\ r.name = s.name
                                 /\ r.builtin = s.builtin /\ r.user = s.user
  <2> SUFFICES ASSUME NEW r \in presetRows', r \notin new
               PROVE  \E s \in presetRows :
                        /\ r = [s EXCEPT !.drifted = s.drifted /\ s.id \notin ids]
                        /\ IsRow(r) /\ r.name = s.name /\ r.builtin = s.builtin /\ r.user = s.user
    OBVIOUS
  <2>1. PICK s \in presetRows : r = [s EXCEPT !.drifted = s.drifted /\ s.id \notin ids]
    BY <1>2
  <2>2. IsRow(r) /\ r.name = s.name /\ r.builtin = s.builtin /\ r.user = s.user
    BY <2>1, RowChanged
  <2> QED
    BY <2>1, <2>2
<1>5. NoneBegins("presets") /\ session'[c].op # "presets"
  BY <1>1, ClosedBeginsNone
<1>6. \A r \in presetRows' : IsRow(r) /\ (r.builtin <=> r.user = System)
  BY <1>3, <1>4
<1>7. ASSUME "presets" \notin raced'
      PROVE  /\ OneSession("presets")'
             /\ \A r, s \in Cat!GetBuiltin(presetRows)' :
                  r.name = s.name /\ r.name \notin namesakes' => r = s
             /\ \A d \in Client : \A r \in Cat!GetBuiltin(presetRows)' :
                  session'[d].op = "presets"
                    => r.name \in namesakes' \cup Cat!Names(session'[d].seen)
  <2>1. \A d \in Client : session'[d].op # "presets"
    <3>1. \A d \in Client : session'[d].op = "presets" => session[d].op = "presets"
      BY <1>5 DEF NoneBegins
    <3>2. \A d \in Client : session[d].op = "presets" => d = c
      BY <1>1, <1>7 DEF OneSession
    <3> QED
      BY <1>5, <3>1, <3>2
  <2>2. \A r \in Cat!GetBuiltin(presetRows) :
          r.name \in namesakes \cup Cat!Names(session[c].seen)
    BY <1>1, <1>7
  <2>3. ASSUME NEW r \in Cat!GetBuiltin(presetRows)', NEW s \in Cat!GetBuiltin(presetRows)',
               r.name = s.name, r.name \notin namesakes'
        PROVE  r = s
    <3>1. r \in presetRows' /\ s \in presetRows' /\ r.builtin /\ s.builtin
      BY DEF Cat!GetBuiltin
    <3>2. \A p \in presetRows : p.builtin => p \in Cat!GetBuiltin(presetRows)
      BY DEF Cat!GetBuiltin
    <3>3. CASE r \in new
      <4>1. s \in new
        BY <1>1, <1>3, <1>4, <2>2, <2>3, <3>1, <3>2, <3>3
      <4> QED
        BY <1>3, <2>3, <3>3, <4>1
    <3>4. CASE r \notin new
      <4>1. PICK p \in presetRows : /\ r = [p EXCEPT !.drifted = p.drifted /\ p.id \notin ids]
                                    /\ r.name = p.name /\ r.builtin = p.builtin
        BY <1>4, <3>1, <3>4
      <4>2. s \notin new
        BY <1>1, <1>3, <2>2, <2>3, <3>1, <3>2, <4>1
      <4>3. PICK q \in presetRows : /\ s = [q EXCEPT !.drifted = q.drifted /\ q.id \notin ids]
                                    /\ s.name = q.name /\ s.builtin = q.builtin
        BY <1>4, <3>1, <4>2
      <4>4. p = q
        BY <1>1, <1>7, <2>3, <3>1, <3>2, <4>1, <4>3
      <4> QED
        BY <4>1, <4>3, <4>4
    <3> QED
      BY <3>3, <3>4
  <2> QED
    BY <2>1, <2>3 DEF OneSession
<1> QED
  BY <1>6, <1>7

LEMMA PresetListed ==
  ASSUME SessionShape, PresetInv, NEW c \in Client, Cat!ListPresets(c) PROVE PresetInv'
<1> USE DEF PresetInv
<1>1. Cat!Reads(c, "presets", Cat!GetBuiltin(presetRows), System)
  BY DEF Cat!ListPresets
<1>2. /\ session[c].op = "none"
      /\ session'[c] = [op |-> "presets", seen |-> Cat!GetBuiltin(presetRows), user |-> System]
      /\ \A d \in Client : d # c => session'[d] = session[d]
      /\ raced \subseteq raced'
      /\ "presets" \notin raced' =>
           \A d \in Client : session[d].op = "presets" => session[d].user # System
      /\ UNCHANGED <<presetRows, namesakes>>
  BY <1>1, ReadsOpens
<1>3. session'[c].op = "presets" /\ session'[c].seen = Cat!GetBuiltin(presetRows)
  BY <1>2
<1>4. ASSUME "presets" \notin raced' PROVE \A d \in Client : session[d].op # "presets"
  BY <1>2, <1>4 DEF SessionShape
<1>5. \A r \in Cat!GetBuiltin(presetRows) : r.name \in Cat!Names(session'[c].seen)
  BY <1>3 DEF Cat!Names
<1>6. Cat!GetBuiltin(presetRows)' = Cat!GetBuiltin(presetRows)
  BY <1>2 DEF Cat!GetBuiltin
<1> QED
  BY <1>2, <1>3, <1>4, <1>5, <1>6 DEF OneSession

LEMMA PresetEdited ==
  ASSUME PresetInv, UNCHANGED <<session, raced, namesakes>>, NEW r \in presetRows,
         \/ presetRows' = (presetRows \ {r}) \cup {[r EXCEPT !.drifted = TRUE]}
         \/ presetRows' = presetRows \ {r}
  PROVE  PresetInv'
<1> USE DEF PresetInv
<1>1. PICK x : x = [r EXCEPT !.drifted = TRUE]
  OBVIOUS
<1>2. IsRow(x) /\ x.name = r.name /\ x.builtin = r.builtin /\ x.user = r.user
  BY <1>1, RowChanged
<1>3. \A s \in presetRows' : s = x \/ (s \in presetRows /\ s # r)
  BY <1>1
<1>4. \A s \in presetRows' : IsRow(s) /\ (s.builtin <=> s.user = System)
  BY <1>2, <1>3
<1>5. \A s \in Cat!GetBuiltin(presetRows)' :
        \/ s = x /\ r \in Cat!GetBuiltin(presetRows)
        \/ s \in Cat!GetBuiltin(presetRows) /\ s # r
  BY <1>2, <1>3 DEF Cat!GetBuiltin
<1>6. ASSUME "presets" \notin raced, NEW s \in Cat!GetBuiltin(presetRows)',
             NEW t \in Cat!GetBuiltin(presetRows)', s.name = t.name, s.name \notin namesakes
      PROVE  s = t
  BY <1>2, <1>5, <1>6
<1>7. ASSUME "presets" \notin raced, NEW c \in Client, session[c].op = "presets",
             NEW s \in Cat!GetBuiltin(presetRows)'
      PROVE  s.name \in namesakes \cup Cat!Names(session[c].seen)
  BY <1>2, <1>5, <1>7
<1> QED
  BY <1>4, <1>6, <1>7 DEF OneSession

LEMMA GroupFrame ==
  ASSUME GroupInv, UNCHANGED groupRows, HistoryKept, NoneBegins("groups") PROVE GroupInv'
<1> USE DEF GroupInv, HistoryKept, NoneBegins, OneSession
<1>1. \A r \in groupRows' : /\ IsRow(r) /\ (r.builtin <=> r.user = System)
                            /\ ~r.builtin => r.name \in namesakes'
  OBVIOUS
<1>2. ASSUME "groups" \notin raced'
      PROVE  /\ OneSession("groups")'
             /\ \A r, s \in groupRows' : r.name = s.name /\ r.name \notin namesakes' => r = s
             /\ \A c \in Client : session'[c].op = "groups" /\ session'[c].seen = {} =>
                  \A r \in groupRows' : r.name \in namesakes'
  BY <1>2
<1> QED
  BY <1>1, <1>2

LEMMA GroupAdded ==
  ASSUME GroupInv, HistoryKept, UNCHANGED session, NEW x, NEW old, old \subseteq groupRows,
         IsRow(x), x.builtin <=> x.user = System, x.name \in namesakes',
         groupRows' = old \cup {x}
  PROVE  GroupInv'
<1> USE DEF GroupInv, HistoryKept
<1>1. \A r \in groupRows' : r = x \/ r \in groupRows
  OBVIOUS
<1>2. \A r \in groupRows' : /\ IsRow(r) /\ (r.builtin <=> r.user = System)
                            /\ ~r.builtin => r.name \in namesakes'
  BY <1>1
<1>3. ASSUME "groups" \notin raced'
      PROVE  /\ OneSession("groups")'
             /\ \A r, s \in groupRows' : r.name = s.name /\ r.name \notin namesakes' => r = s
             /\ \A c \in Client : session'[c].op = "groups" /\ session'[c].seen = {} =>
                  \A r \in groupRows' : r.name \in namesakes'
  <2>1. OneSession("groups")'
    BY <1>3 DEF OneSession
  <2>2. \A r, s \in groupRows' : r.name = s.name /\ r.name \notin namesakes' => r = s
    BY <1>1, <1>3
  <2>3. \A c \in Client : session'[c].op = "groups" /\ session'[c].seen = {} =>
          \A r \in groupRows' : r.name \in namesakes'
    BY <1>1, <1>3
  <2> QED
    BY <2>1, <2>2, <2>3
<1> QED
  BY <1>2, <1>3

LEMMA GroupDeleted ==
  ASSUME GroupInv, UNCHANGED <<session, raced, namesakes>>, groupRows' \subseteq groupRows
  PROVE  GroupInv'
BY DEF GroupInv, OneSession

LEMMA GroupLooked ==
  ASSUME SessionShape, GroupInv, NEW c \in Client, Cat!CalculateMM(c) PROVE GroupInv'
<1> USE DEF GroupInv
<1> DEFINE looked == {"some" : r \in Cat!GetBuiltin(groupRows)}
<1>1. Cat!Reads(c, "groups", looked, System)
  BY DEF Cat!CalculateMM
<1>2. looked = {} => \A r \in groupRows : r.name \in namesakes
  BY DEF Cat!GetBuiltin
<1> HIDE DEF looked
<1>3. /\ session[c].op = "none"
      /\ session'[c] = [op |-> "groups", seen |-> looked, user |-> System]
      /\ \A d \in Client : d # c => session'[d] = session[d]
      /\ raced \subseteq raced'
      /\ "groups" \notin raced' =>
           \A d \in Client : session[d].op = "groups" => session[d].user # System
      /\ UNCHANGED <<groupRows, namesakes>>
  BY <1>1, ReadsOpens
<1>4. session'[c].op = "groups" /\ session'[c].seen = looked
  BY <1>3
<1>5. ASSUME "groups" \notin raced' PROVE \A d \in Client : session[d].op # "groups"
  BY <1>3, <1>5 DEF SessionShape
<1> QED
  BY <1>2, <1>3, <1>4, <1>5 DEF OneSession

LEMMA GroupSeeded ==
  ASSUME SessionShape, GroupInv, NEW c \in Client, Cat!EnsureBuiltinGroups(c) PROVE GroupInv'
<1>1. session[c].op = "groups" /\ Cat!Ends(c) /\ UNCHANGED <<raced, namesakes>>
  BY DEF Cat!EnsureBuiltinGroups
<1>2. NoneBegins("groups") /\ session'[c].op # "groups" /\ HistoryKept
  BY <1>1, ClosedBeginsNone DEF HistoryKept
<1>3. CASE session[c].seen # {}
  <2>1. UNCHANGED groupRows
    BY <1>3 DEF Cat!EnsureBuiltinGroups
  <2> QED
    BY <1>2, <2>1, GroupFrame
<1>4. CASE session[c].seen = {}
  <2> USE DEF GroupInv
  <2>1. PICK new : new = Cat!Fresh(BuiltinGroup, groupRows) /\ groupRows' = groupRows \cup new
    BY <1>4 DEF Cat!EnsureBuiltinGroups
  <2>2. Seeded(new, BuiltinGroup)
    BY <2>1, FreshRows, Zenon
  <2>3. \A r \in groupRows' : /\ IsRow(r) /\ (r.builtin <=> r.user = System)
                              /\ ~r.builtin => r.name \in namesakes'
    BY <1>1, <2>1, <2>2 DEF Seeded
  <2>4. ASSUME "groups" \notin raced'
        PROVE  /\ \A d \in Client : session'[d].op # "groups"
               /\ \A r, s \in groupRows' : r.name = s.name /\ r.name \notin namesakes' => r = s
    <3>1. \A d \in Client : session'[d].op = "groups" => session[d].op = "groups"
      BY <1>2 DEF NoneBegins
    <3>2. \A d \in Client : session[d].op = "groups" => d = c
      BY <1>1, <2>4 DEF OneSession
    <3>3. \A r \in groupRows : r.name \in namesakes
      BY <1>1, <1>4, <2>4
    <3>4. \A r, s \in new : r.name = s.name => r = s
      BY <2>2 DEF Seeded
    <3> QED
      BY <1>1, <1>2, <2>1, <3>1, <3>2, <3>3, <3>4
  <2> QED
    BY <2>3, <2>4 DEF OneSession
<1> QED
  BY <1>3, <1>4

LEMMA AccountFrame ==
  ASSUME AccountInv, UNCHANGED accountRows, HistoryKept, NoneBegins("accounts") PROVE AccountInv'
BY DEF AccountInv, HistoryKept, NoneBegins, Cat!Live

LEMMA AccountOpens ==
  ASSUME SessionShape, AccountInv, NEW c \in Client, NEW u \in Customer,
         Cat!CreateExchangeAccount(c, u)
  PROVE  AccountInv'
<1> USE DEF AccountInv
<1>1. Cat!Reads(c, "accounts", {}, u) /\ Cat!Live(u) = {}
  BY DEF Cat!CreateExchangeAccount
<1>2. /\ session[c].op = "none"
      /\ session'[c] = [op |-> "accounts", seen |-> {}, user |-> u]
      /\ \A d \in Client : d # c => session'[d] = session[d]
      /\ raced \subseteq raced'
      /\ "accounts" \notin raced' =>
           \A d \in Client : session[d].op = "accounts" => session[d].user # u
      /\ UNCHANGED accountRows
  BY <1>1, ReadsOpens
<1>3. session'[c].op = "accounts" /\ session'[c].user = u
  BY <1>2
<1>4. \A v : Cat!Live(v)' = Cat!Live(v)
  BY <1>2 DEF Cat!Live
<1>5. ASSUME "accounts" \notin raced', NEW d \in Client, NEW e \in Client,
             session'[d].op = "accounts", session'[e].op = "accounts",
             session'[d].user = session'[e].user
      PROVE  d = e
  BY <1>2, <1>3, <1>5
<1>6. ASSUME "accounts" \notin raced', NEW d \in Client, session'[d].op = "accounts"
      PROVE  {r \in accountRows' : r.user = session'[d].user /\ ~r.deleted} = {}
  BY <1>1, <1>2, <1>3, <1>6 DEF Cat!Live
<1> QED
  BY <1>2, <1>5, <1>6 DEF Cat!Live

LEMMA AccountInsertedInv ==
  ASSUME SessionShape, AccountInv, NEW c \in Client, Cat!AccountInserted(c) PROVE AccountInv'
<1> USE DEF AccountInv
<1>1. session[c].op = "accounts" /\ Cat!Ends(c) /\ UNCHANGED <<raced, namesakes>>
  BY DEF Cat!AccountInserted
<1>2. PICK x : /\ x = [id |-> Cat!NextId(accountRows), user |-> session[c].user, deleted |-> FALSE]
               /\ accountRows' = accountRows \cup {x}
  BY DEF Cat!AccountInserted
<1>3. IsAccount(x) /\ x.user = session[c].user
  BY <1>2 DEF IsAccount
<1>4. NoneBegins("accounts") /\ session'[c].op # "accounts"
  BY <1>1, ClosedBeginsNone
<1>5. \A r \in accountRows' : IsAccount(r)
  BY <1>2, <1>3
<1>6. ASSUME "accounts" \notin raced'
      PROVE  /\ \A d, e \in Client : session'[d].op = "accounts" /\ session'[e].op = "accounts"
                                     /\ session'[d].user = session'[e].user => d = e
             /\ \A r, s \in accountRows' : r.user = s.user /\ ~r.deleted /\ ~s.deleted => r = s
             /\ \A d \in Client : session'[d].op = "accounts" =>
                  \A r \in accountRows' : r.user = session'[d].user => r.deleted
  <2>1. \A d \in Client : session'[d].op = "accounts" => d # c /\ session'[d] = session[d]
    BY <1>4 DEF NoneBegins
  <2>2. \A r \in accountRows : r.user = session[c].user => r.deleted
    BY <1>1, <1>6 DEF Cat!Live
  <2>3. \A d, e \in Client : session'[d].op = "accounts" /\ session'[e].op = "accounts"
                             /\ session'[d].user = session'[e].user => d = e
    BY <1>1, <1>6, <2>1
  <2>4. ASSUME NEW r \in accountRows', NEW s \in accountRows', r.user = s.user,
               ~r.deleted, ~s.deleted
        PROVE  r = s
    <3>1. (r \in accountRows \/ r = x) /\ (s \in accountRows \/ s = x)
      BY <1>2
    <3>2. \A p, q \in accountRows : p.user = q.user /\ ~p.deleted /\ ~q.deleted => p = q
      BY <1>1, <1>6
    <3> QED
      BY <1>3, <2>2, <2>4, <3>1, <3>2
  <2>5. ASSUME NEW d \in Client, session'[d].op = "accounts", NEW r \in accountRows',
               r.user = session'[d].user
        PROVE  r.deleted
    <3>1. d # c /\ session[d].op = "accounts" /\ r.user = session[d].user
      BY <2>1, <2>5
    <3>2. session[d].user # session[c].user
      BY <1>1, <1>6, <3>1
    <3>3. r \in accountRows
      BY <1>2, <1>3, <3>1, <3>2
    <3> QED
      BY <1>1, <1>6, <3>1, <3>3 DEF Cat!Live
  <2> QED
    BY <2>3, <2>4, <2>5
<1> QED
  BY <1>5, <1>6 DEF Cat!Live

LEMMA AccountDeleted ==
  ASSUME AccountInv, NEW r \in accountRows, Cat!DeleteExchangeAccount(r) PROVE AccountInv'
<1> USE DEF AccountInv
<1>1. PICK x : x = [r EXCEPT !.deleted = TRUE] /\ accountRows' = (accountRows \ {r}) \cup {x}
  BY DEF Cat!DeleteExchangeAccount
<1>2. UNCHANGED <<session, raced>>
  BY DEF Cat!DeleteExchangeAccount
<1>3. r = [i \in {"id", "user", "deleted"} |-> r[i]]
  BY DEF IsAccount
<1>4. IsAccount(x) /\ x.deleted
  BY <1>1, <1>3 DEF IsAccount
<1>5. \A s \in accountRows' : s \in accountRows \/ s = x
  BY <1>1
<1>6. \A s \in accountRows' : ~s.deleted => s \in accountRows
  BY <1>4, <1>5
<1>7. \A u : Cat!Live(u)' \subseteq Cat!Live(u)
  BY <1>6 DEF Cat!Live
<1>8. \A s \in accountRows' : IsAccount(s)
  BY <1>4, <1>5
<1>9. ASSUME "accounts" \notin raced', NEW c \in Client, session'[c].op = "accounts"
      PROVE  \A s \in accountRows' : s.user = session'[c].user => s.deleted
  BY <1>2, <1>6, <1>9 DEF Cat!Live
<1>10. "accounts" \notin raced' =>
         /\ \A c, d \in Client : session'[c].op = "accounts" /\ session'[d].op = "accounts"
                                 /\ session'[c].user = session'[d].user => c = d
         /\ \A s, t \in accountRows' : s.user = t.user /\ ~s.deleted /\ ~t.deleted => s = t
  BY <1>2, <1>6
<1> QED
  BY <1>8, <1>9, <1>10 DEF Cat!Live

LEMMA SessionStep ==
  ASSUME SessionShape, Cat!Next \/ UNCHANGED Cat!catalogueVars PROVE SessionShape'
<1>1. CASE UNCHANGED session
  BY <1>1 DEF SessionShape
<1>2. ASSUME NEW c \in Client, Cat!Ends(c) PROVE SessionShape'
  BY <1>2, ClosedBeginsNone
<1>3. ASSUME NEW c \in Client, NEW op, NEW seen, NEW user, Cat!Reads(c, op, seen, user),
             op \in {"presets", "groups"} => user = System, op = "accounts" => user \in Customer
      PROVE  SessionShape'
  <2>1. /\ session'[c] = [op |-> op, seen |-> seen, user |-> user]
        /\ session' = [d \in Client |-> session'[d]]
        /\ \A d \in Client : d # c => session'[d] = session[d]
    BY <1>3, ReadsOpens
  <2>2. session'[c].op = op /\ session'[c].user = user
    BY <2>1
  <2> QED
    BY <1>3, <2>1, <2>2 DEF SessionShape
<1>4. \/ UNCHANGED session
      \/ \E c \in Client : \/ Cat!Ends(c) \/ Cat!ListPresets(c) \/ Cat!CalculateMM(c)
                           \/ \E u \in Customer : Cat!CreateExchangeAccount(c, u)
  BY DEF Cat!Next, Cat!PresetStep, Cat!GroupStep, Cat!AccountStep, Cat!EnsureBuiltinPresets,
         Cat!ListRollsBack, Cat!EnsureBuiltinGroups, Cat!AccountInserted, Cat!Named,
         Cat!CreatePreset, Cat!AdminCreatePreset, Cat!CreateGroup, Cat!AdminCreateGroup,
         Cat!AdminUpdatePreset, Cat!AdminUpdateGroup, Cat!DeletePreset, Cat!DeleteGroup,
         Cat!DeleteExchangeAccount, Cat!catalogueVars
<1>5. ASSUME NEW c \in Client, Cat!ListPresets(c) PROVE SessionShape'
  BY <1>3, <1>5 DEF Cat!ListPresets
<1>6. ASSUME NEW c \in Client, Cat!CalculateMM(c) PROVE SessionShape'
  BY <1>3, <1>6 DEF Cat!CalculateMM
<1>7. ASSUME NEW c \in Client, NEW u \in Customer, Cat!CreateExchangeAccount(c, u)
      PROVE  SessionShape'
  BY <1>3, <1>7 DEF Cat!CreateExchangeAccount
<1> QED
  BY <1>1, <1>2, <1>4, <1>5, <1>6, <1>7

(* What a step does not touch, it leaves to the frame lemmas. *)
LEMMA OthersBeginNone ==
  ASSUME SessionShape, NEW op, op # "none"
  PROVE  /\ UNCHANGED session => NoneBegins(op)
         /\ \A c \in Client : Cat!Ends(c) => NoneBegins(op)
         /\ \A c \in Client : \A other, seen, user :
              Cat!Reads(c, other, seen, user) /\ other # op =>
                NoneBegins(op) /\ UNCHANGED <<presetRows, groupRows, accountRows>> /\ HistoryKept
<1>1. UNCHANGED session => NoneBegins(op)
  BY DEF NoneBegins
<1>2. \A c \in Client : Cat!Ends(c) => NoneBegins(op)
  BY ClosedBeginsNone
<1>3. ASSUME NEW c \in Client, NEW other, NEW seen, NEW user,
             Cat!Reads(c, other, seen, user), other # op
      PROVE  NoneBegins(op) /\ UNCHANGED <<presetRows, groupRows, accountRows>> /\ HistoryKept
  <2>1. /\ session'[c] = [op |-> other, seen |-> seen, user |-> user]
        /\ \A d \in Client : d # c => session'[d] = session[d]
        /\ raced \subseteq raced' /\ UNCHANGED <<presetRows, groupRows, accountRows, namesakes>>
    BY <1>3, ReadsOpens
  <2>2. session'[c].op = other
    BY <2>1
  <2> QED
    BY <1>3, <2>1, <2>2 DEF NoneBegins, HistoryKept
<1> QED
  BY <1>1, <1>2, <1>3

LEMMA PresetStepInv ==
  ASSUME System \notin Customer, SessionShape, PresetInv, GroupInv, AccountInv, Cat!PresetStep
  PROVE  PresetInv' /\ GroupInv' /\ AccountInv'
<1>1. ASSUME UNCHANGED <<groupRows, accountRows>>, HistoryKept,
             NoneBegins("groups"), NoneBegins("accounts")
      PROVE  GroupInv' /\ AccountInv'
  BY <1>1, GroupFrame, AccountFrame
<1>2. ASSUME UNCHANGED <<groupRows, accountRows, session>>, HistoryKept
      PROVE  GroupInv' /\ AccountInv'
  BY <1>1, <1>2, OthersBeginNone
<1>3. ASSUME NEW c \in Client, Cat!ListPresets(c) PROVE PresetInv' /\ GroupInv' /\ AccountInv'
  <2>1. Cat!Reads(c, "presets", Cat!GetBuiltin(presetRows), System)
    BY <1>3 DEF Cat!ListPresets
  <2>2. /\ NoneBegins("groups") /\ NoneBegins("accounts") /\ HistoryKept
        /\ UNCHANGED <<groupRows, accountRows>>
    BY <2>1, OthersBeginNone
  <2> QED
    BY <1>1, <1>3, <2>2, PresetListed
<1>4. ASSUME NEW c \in Client, Cat!EnsureBuiltinPresets(c)
      PROVE  PresetInv' /\ GroupInv' /\ AccountInv'
  <2>1. Cat!Ends(c) /\ UNCHANGED <<groupRows, accountRows, raced, namesakes>>
    BY <1>4 DEF Cat!EnsureBuiltinPresets
  <2>2. NoneBegins("groups") /\ NoneBegins("accounts") /\ HistoryKept
    BY <2>1, OthersBeginNone DEF HistoryKept
  <2> QED
    BY <1>1, <1>4, <2>1, <2>2, PresetSeeded
<1>5. ASSUME NEW c \in Client, Cat!ListRollsBack(c) PROVE PresetInv' /\ GroupInv' /\ AccountInv'
  <2>1. Cat!Ends(c) /\ UNCHANGED <<presetRows, groupRows, accountRows, raced, namesakes>>
    BY <1>5 DEF Cat!ListRollsBack
  <2>2. NoneBegins("presets") /\ NoneBegins("groups") /\ NoneBegins("accounts") /\ HistoryKept
    BY <2>1, OthersBeginNone DEF HistoryKept
  <2> QED
    BY <1>1, <2>1, <2>2, PresetFrame
<1>6. ASSUME NEW id, NEW name, NEW b \in BOOLEAN, NEW u, b <=> u = System, Cat!Named(name),
             presetRows' = presetRows \cup {Cat!NewRow(id, name, b, u)}, UNCHANGED groupRows
      PROVE  PresetInv' /\ GroupInv' /\ AccountInv'
  <2>1. HistoryKept /\ name \in namesakes' /\ UNCHANGED <<accountRows, session>>
    BY <1>6 DEF Cat!Named, HistoryKept
  <2>2. PICK x : x = Cat!NewRow(id, name, b, u)
    OBVIOUS
  <2>3. IsRow(x) /\ x.name = name /\ x.builtin = b /\ x.user = u
    BY <2>2, NewRowForm
  <2>4. PresetInv'
    BY <1>6, <2>1, <2>2, <2>3, PresetAdded
  <2> QED
    BY <1>2, <1>6, <2>1, <2>4
<1>7. ASSUME NEW u \in Customer, Cat!CreatePreset(u) PROVE PresetInv' /\ GroupInv' /\ AccountInv'
  BY <1>6, <1>7 DEF Cat!CreatePreset
<1>8. ASSUME NEW t \in BuiltinPreset, Cat!AdminCreatePreset(t)
      PROVE  PresetInv' /\ GroupInv' /\ AccountInv'
  BY <1>6, <1>8 DEF Cat!AdminCreatePreset
<1>9. ASSUME NEW r \in presetRows,
             Cat!AdminUpdatePreset(r) \/ \E u \in Customer \cup {System} : Cat!DeletePreset(r, u)
      PROVE  PresetInv' /\ GroupInv' /\ AccountInv'
  <2>1. /\ UNCHANGED <<groupRows, accountRows, session, raced, namesakes>>
        /\ \/ presetRows' = (presetRows \ {r}) \cup {[r EXCEPT !.drifted = TRUE]}
           \/ presetRows' = presetRows \ {r}
    BY <1>9 DEF Cat!AdminUpdatePreset, Cat!DeletePreset
  <2> QED
    BY <1>2, <2>1, PresetEdited DEF HistoryKept
<1> QED
  BY <1>3, <1>4, <1>5, <1>7, <1>8, <1>9 DEF Cat!PresetStep

LEMMA GroupStepInv ==
  ASSUME System \notin Customer, SessionShape, PresetInv, GroupInv, AccountInv, Cat!GroupStep
  PROVE  PresetInv' /\ GroupInv' /\ AccountInv'
<1>1. ASSUME UNCHANGED <<presetRows, accountRows>>, HistoryKept,
             NoneBegins("presets"), NoneBegins("accounts")
      PROVE  PresetInv' /\ AccountInv'
  BY <1>1, PresetFrame, AccountFrame
<1>2. ASSUME UNCHANGED <<presetRows, accountRows, session>>, HistoryKept
      PROVE  PresetInv' /\ AccountInv'
  BY <1>1, <1>2, OthersBeginNone
<1>3. ASSUME NEW c \in Client, Cat!CalculateMM(c) PROVE PresetInv' /\ GroupInv' /\ AccountInv'
  <2>1. Cat!Reads(c, "groups", {"some" : r \in Cat!GetBuiltin(groupRows)}, System)
    BY <1>3 DEF Cat!CalculateMM
  <2>2. /\ NoneBegins("presets") /\ NoneBegins("accounts") /\ HistoryKept
        /\ UNCHANGED <<presetRows, accountRows>>
    BY <2>1, OthersBeginNone
  <2> QED
    BY <1>1, <1>3, <2>2, GroupLooked
<1>4. ASSUME NEW c \in Client, Cat!EnsureBuiltinGroups(c)
      PROVE  PresetInv' /\ GroupInv' /\ AccountInv'
  <2>1. Cat!Ends(c) /\ UNCHANGED <<presetRows, accountRows, raced, namesakes>>
    BY <1>4 DEF Cat!EnsureBuiltinGroups
  <2>2. NoneBegins("presets") /\ NoneBegins("accounts") /\ HistoryKept
    BY <2>1, OthersBeginNone DEF HistoryKept
  <2> QED
    BY <1>1, <1>4, <2>1, <2>2, GroupSeeded
<1>5. ASSUME NEW x, NEW old, old \subseteq groupRows, IsRow(x), x.builtin <=> x.user = System,
             Cat!Named(x.name), groupRows' = old \cup {x}, UNCHANGED presetRows
      PROVE  PresetInv' /\ GroupInv' /\ AccountInv'
  <2>1. HistoryKept /\ x.name \in namesakes' /\ UNCHANGED <<accountRows, session>>
    BY <1>5 DEF Cat!Named, HistoryKept
  <2>2. GroupInv'
    BY <1>5, <2>1, GroupAdded
  <2> QED
    BY <1>2, <1>5, <2>1, <2>2
<1>6. ASSUME NEW id, NEW name, NEW b \in BOOLEAN, NEW u, b <=> u = System, Cat!Named(name),
             groupRows' = groupRows \cup {Cat!NewRow(id, name, b, u)}, UNCHANGED presetRows
      PROVE  PresetInv' /\ GroupInv' /\ AccountInv'
  <2>1. PICK x : x = Cat!NewRow(id, name, b, u)
    OBVIOUS
  <2>2. IsRow(x) /\ x.name = name /\ x.builtin = b /\ x.user = u
    BY <2>1, NewRowForm
  <2> QED
    BY <1>5, <1>6, <2>1, <2>2
<1>7. ASSUME NEW name \in BuiltinGroup,
             Cat!AdminCreateGroup(name) \/ \E u \in Customer : Cat!CreateGroup(u, name)
      PROVE  PresetInv' /\ GroupInv' /\ AccountInv'
  BY <1>6, <1>7 DEF Cat!AdminCreateGroup, Cat!CreateGroup
<1>8. ASSUME NEW r \in groupRows, NEW name \in BuiltinGroup, Cat!AdminUpdateGroup(r, name)
      PROVE  PresetInv' /\ GroupInv' /\ AccountInv'
  <2>1. PICK x : x = [r EXCEPT !.name = name]
    OBVIOUS
  <2>2. IsRow(x) /\ x.name = name /\ x.builtin = r.builtin /\ x.user = r.user
    BY <2>1, RowChanged DEF GroupInv
  <2>3. x.builtin <=> x.user = System
    BY <2>2 DEF GroupInv
  <2>4. /\ Cat!Named(x.name) /\ UNCHANGED presetRows
        /\ groupRows' = (groupRows \ {r}) \cup {x}
    BY <1>8, <2>1, <2>2 DEF Cat!AdminUpdateGroup
  <2>5. groupRows \ {r} \subseteq groupRows
    OBVIOUS
  <2> QED
    BY <1>5, <2>2, <2>3, <2>4, <2>5
<1>9. ASSUME NEW r \in groupRows, NEW u, Cat!DeleteGroup(r, u)
      PROVE  PresetInv' /\ GroupInv' /\ AccountInv'
  <2>1. /\ UNCHANGED <<presetRows, accountRows, session, raced, namesakes>>
        /\ groupRows' \subseteq groupRows
    BY <1>9 DEF Cat!DeleteGroup
  <2> QED
    BY <1>2, <2>1, GroupDeleted DEF HistoryKept
<1> QED
  BY <1>3, <1>4, <1>7, <1>8, <1>9 DEF Cat!GroupStep

LEMMA AccountStepInv ==
  ASSUME SessionShape, PresetInv, GroupInv, AccountInv, Cat!AccountStep
  PROVE  PresetInv' /\ GroupInv' /\ AccountInv'
<1>1. ASSUME UNCHANGED <<presetRows, groupRows>>, HistoryKept,
             NoneBegins("presets"), NoneBegins("groups")
      PROVE  PresetInv' /\ GroupInv'
  BY <1>1, PresetFrame, GroupFrame
<1>2. ASSUME NEW c \in Client, NEW u \in Customer, Cat!CreateExchangeAccount(c, u)
      PROVE  PresetInv' /\ GroupInv' /\ AccountInv'
  <2>1. Cat!Reads(c, "accounts", {}, u)
    BY <1>2 DEF Cat!CreateExchangeAccount
  <2>2. /\ NoneBegins("presets") /\ NoneBegins("groups") /\ HistoryKept
        /\ UNCHANGED <<presetRows, groupRows>>
    BY <2>1, OthersBeginNone
  <2> QED
    BY <1>1, <1>2, <2>2, AccountOpens
<1>3. ASSUME NEW c \in Client, Cat!AccountInserted(c)
      PROVE  PresetInv' /\ GroupInv' /\ AccountInv'
  <2>1. Cat!Ends(c) /\ UNCHANGED <<presetRows, groupRows, raced, namesakes>>
    BY <1>3 DEF Cat!AccountInserted
  <2>2. NoneBegins("presets") /\ NoneBegins("groups") /\ HistoryKept
    BY <2>1, OthersBeginNone DEF HistoryKept
  <2> QED
    BY <1>1, <1>3, <2>1, <2>2, AccountInsertedInv
<1>4. ASSUME NEW r \in accountRows, Cat!DeleteExchangeAccount(r)
      PROVE  PresetInv' /\ GroupInv' /\ AccountInv'
  <2>1. UNCHANGED <<presetRows, groupRows, session, raced, namesakes>>
    BY <1>4 DEF Cat!DeleteExchangeAccount
  <2>2. NoneBegins("presets") /\ NoneBegins("groups") /\ HistoryKept
    BY <2>1, OthersBeginNone DEF HistoryKept
  <2> QED
    BY <1>1, <1>4, <2>1, <2>2, AccountDeleted
<1> QED
  BY <1>2, <1>3, <1>4 DEF Cat!AccountStep

LEMMA OneAtMost ==
  ASSUME NEW S, \A r, s \in S : r = s PROVE Cardinality(S) <= 1
<1>1. Cardinality({}) = 0 /\ \A r : Cardinality({r}) = 1
  BY FS_EmptySet, FS_Singleton
<1>2. CASE S = {}
  BY <1>1, <1>2
<1>3. CASE S # {}
  <2>1. PICK r : S = {r}
    BY <1>3
  <2>2. Cardinality(S) = 1
    BY <1>1, <2>1, Zenon
  <2> QED
    BY <2>2
<1> QED
  BY <1>2, <1>3

(* list_mm_presets, calculate_mm, create_exchange_account and the admin's  *)
(* and the owners' edits: however many requests, users and rows there are, *)
(* a built-in row is there once and a user has one live account, unless    *)
(* two requests that insert such a row overlapped or a row was given the   *)
(* name by hand.                                                           *)
THEOREM RowsAreOneOfEach ==
  ASSUME System \notin Customer PROVE Cat!Spec => []OneOfEach
<1>1. Cat!Init => CatInv
  BY CatInitInv
<1>2. CatInv /\ [Cat!Next]_(Cat!catalogueVars) => CatInv'
  <2> SUFFICES ASSUME CatInv, [Cat!Next]_(Cat!catalogueVars) PROVE CatInv'
    OBVIOUS
  <2>1. SessionShape'
    BY SessionStep DEF CatInv
  <2>2. CASE UNCHANGED Cat!catalogueVars
    <3>1. /\ UNCHANGED <<presetRows, groupRows, accountRows, session>>
          /\ UNCHANGED <<raced, namesakes>>
      BY <2>2 DEF Cat!catalogueVars
    <3>2. HistoryKept /\ NoneBegins("presets") /\ NoneBegins("groups") /\ NoneBegins("accounts")
      BY <3>1 DEF HistoryKept, NoneBegins
    <3> QED
      BY <2>1, <3>1, <3>2, PresetFrame, GroupFrame, AccountFrame DEF CatInv
  <2>3. CASE Cat!Next
    BY <2>1, <2>3, PresetStepInv, GroupStepInv, AccountStepInv DEF Cat!Next, CatInv
  <2> QED
    BY <2>2, <2>3
<1>3. CatInv => OneOfEach
  <2> SUFFICES ASSUME CatInv PROVE OneOfEach
    OBVIOUS
  <2>1. ASSUME "groups" \notin raced, NEW name \in BuiltinGroup \ namesakes
        PROVE  Cat!Cardinality(Cat!GetByName(name)) <= 1
    <3>1. \A r, s \in Cat!GetByName(name) : r = s
      BY <2>1 DEF CatInv, GroupInv, Cat!GetByName
    <3> QED
      BY <3>1, OneAtMost DEF Cat!Cardinality, Cardinality
  <2>2. ASSUME "accounts" \notin raced, NEW u \in Customer
        PROVE  Cat!Cardinality(Cat!Live(u)) <= 1
    <3>1. \A r, s \in Cat!Live(u) : r = s
      BY <2>2 DEF CatInv, AccountInv, Cat!Live
    <3> QED
      BY <3>1, OneAtMost DEF Cat!Cardinality, Cardinality
  <2>3. \A r \in presetRows \cup groupRows : r.builtin <=> r.user = System
    BY DEF CatInv, PresetInv, GroupInv
  <2>4. "presets" \notin raced =>
          \A r, s \in Cat!GetBuiltin(presetRows) :
            r.name = s.name /\ r.name \notin namesakes => r = s
    BY DEF CatInv, PresetInv
  <2> QED
    BY <2>1, <2>2, <2>3, <2>4 DEF OneOfEach, Cat!OneOfEach
<1> QED
  BY <1>1, <1>2, <1>3, PTL DEF Cat!Spec
=============================================================================
