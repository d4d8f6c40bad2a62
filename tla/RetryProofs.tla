------------------------------ MODULE RetryProofs ------------------------------
(***************************************************************************)
(* Theorems about what is tried again: the jobs of the RetryWorker, the    *)
(* requests of the exchange adapters and the sends of the notification     *)
(* queue.  As in ServicesProofs, each is a theorem of the component's own  *)
(* specification, and the composition the run checks keeps them all.       *)
(***************************************************************************)
EXTENDS MCServices, FiniteSetTheorems, SequenceTheorems, TLAPS

-----------------------------------------------------------------------------
(* A queue and the copies of it that its workers go through: nothing is in *)
(* them twice, so that what a worker takes off its copy is nowhere else.   *)

Items(s) == {s[n] : n \in 1 .. Len(s)}
Once(s) == \A m, n \in 1 .. Len(s) : s[m] = s[n] => m = n

LEMMA ItemsAppended ==
  ASSUME NEW S, NEW s \in Seq(S), NEW j \in S
  PROVE  /\ Append(s, j) \in Seq(S)
         /\ Items(Append(s, j)) = Items(s) \cup {j}
         /\ Once(s) /\ j \notin Items(s) => Once(Append(s, j))
<1>1. /\ Append(s, j) \in Seq(S) /\ Len(Append(s, j)) = Len(s) + 1 /\ Len(s) \in Nat
      /\ \A n \in 1 .. Len(s) : Append(s, j)[n] = s[n]
      /\ Append(s, j)[Len(s) + 1] = j
  BY AppendProperties
<1>2. 1 .. (Len(s) + 1) = (1 .. Len(s)) \cup {Len(s) + 1}
  BY <1>1
<1> QED
  BY <1>1, <1>2 DEF Items, Once

LEMMA ItemsTail ==
  ASSUME NEW S, NEW s \in Seq(S), s # <<>>
  PROVE  /\ Head(s) \in Items(s) /\ Head(s) \in S /\ Tail(s) \in Seq(S)
         /\ Items(s) = Items(Tail(s)) \cup {Head(s)}
         /\ Once(s) => Once(Tail(s)) /\ Head(s) \notin Items(Tail(s))
<1> DEFINE t == Tail(s)
<1>1. /\ Head(s) \in S /\ t \in Seq(S) /\ Len(t) = Len(s) - 1 /\ Len(s) \in Nat
      /\ \A n \in 1 .. Len(t) : t[n] = s[n + 1]
  BY HeadTailProperties
<1>2. Head(s) = s[1] /\ Len(s) > 0
  OBVIOUS
<1> HIDE DEF t
<1>3. \A n \in 1 .. Len(t) : n + 1 \in 1 .. Len(s)
  BY <1>1, <1>2
<1>4. \A n \in 1 .. Len(s) : n = 1 \/ (n - 1 \in 1 .. Len(t) /\ s[n] = t[n - 1])
  BY <1>1, <1>2
<1>5. Items(s) = Items(t) \cup {s[1]}
  <2>1. \A x \in Items(t) : x \in Items(s)
    BY <1>1, <1>3 DEF Items
  <2>2. s[1] \in Items(s)
    BY <1>1, <1>2 DEF Items
  <2>3. \A x \in Items(s) : x \in Items(t) \cup {s[1]}
    BY <1>4 DEF Items
  <2> QED
    BY <2>1, <2>2, <2>3
<1>6. ASSUME Once(s) PROVE Once(t) /\ s[1] \notin Items(t)
  <2>1. \A m, n \in 1 .. Len(t) : t[m] = t[n] => m + 1 = n + 1
    BY <1>1, <1>3, <1>6 DEF Once
  <2>2. Once(t)
    BY <2>1, <1>1 DEF Once
  <2>3. \A n \in 1 .. Len(t) : t[n] # s[1]
    BY <1>1, <1>2, <1>3, <1>6 DEF Once
  <2> QED
    BY <2>2, <2>3 DEF Items
<1> QED
  BY <1>1, <1>2, <1>5, <1>6 DEF t

LEMMA NoItems == Items(<<>>) = {} /\ Once(<<>>)
BY DEF Items, Once

LEMMA ItemsAreJobs == ASSUME NEW S, NEW s \in Seq(S) PROVE Items(s) \subseteq S
BY DEF Items


LEMMA DistinctIsShort ==
  ASSUME NEW S, IsFiniteSet(S), NEW s \in Seq(S), Once(s)
  PROVE  Len(s) \in Nat /\ Cardinality(S) \in Nat /\ Len(s) <= Cardinality(S)
<1>1. Len(s) \in Nat /\ s \in [1 .. Len(s) -> S]
  OBVIOUS
<1>2. s \in Injection(1 .. Len(s), S)
  BY <1>1 DEF Once, Injection, IsInjective
<1>3. Cardinality(1 .. Len(s)) <= Cardinality(S)
  BY <1>2, FS_Injection
<1>4. Cardinality(1 .. Len(s)) = Len(s)
  BY <1>1, FS_Interval
<1> QED
  BY <1>1, <1>3, <1>4, FS_CardinalityType

(* What handling the first item of a copy leaves behind. *)
HandsApart(hands, P) ==
  /\ \A q \in P : Once(hands[q])
  /\ \A q, r \in P : q # r => Items(hands[q]) \cap Items(hands[r]) = {}

HandedOver(left, hands, P, j) ==
  \A q \in P : Once(left[q]) /\ j \notin Items(left[q])
              /\ Items(left[q]) \subseteq Items(hands[q])
              /\ Items(hands[q]) \subseteq Items(left[q]) \cup {j}

LEMMA HeadLeaves ==
  ASSUME NEW S, NEW P, NEW hands \in [P -> Seq(S)], HandsApart(hands, P),
         NEW p \in P, hands[p] # <<>>,
         NEW left, left = [hands EXCEPT ![p] = Tail(hands[p])]
  PROVE  /\ Head(hands[p]) \in S /\ Head(hands[p]) \in Items(hands[p])
         /\ left \in [P -> Seq(S)] /\ HandedOver(left, hands, P, Head(hands[p]))
<1> USE DEF HandsApart
<1> DEFINE j == Head(hands[p])
<1>1. hands[p] \in Seq(S)
  OBVIOUS
<1>2. /\ j \in Items(hands[p]) /\ j \in S /\ Tail(hands[p]) \in Seq(S)
      /\ Items(hands[p]) = Items(Tail(hands[p])) \cup {j}
      /\ Once(Tail(hands[p])) /\ j \notin Items(Tail(hands[p]))
  BY <1>1, ItemsTail
<1> HIDE DEF j
<1>3. left \in [P -> Seq(S)] /\ left[p] = Tail(hands[p])
      /\ \A q \in P : q # p => left[q] = hands[q]
  BY <1>2
<1>4. ASSUME NEW q \in P
      PROVE  /\ Once(left[q]) /\ j \notin Items(left[q])
             /\ Items(left[q]) \subseteq Items(hands[q])
             /\ Items(hands[q]) \subseteq Items(left[q]) \cup {j}
  <2>1. CASE q = p
    BY <1>2, <1>3, <2>1
  <2>2. CASE q # p
    <3>1. left[q] = hands[q] /\ Once(hands[q])
      BY <1>3, <2>2
    <3>2. j \notin Items(hands[q])
      BY <1>2, <2>2
    <3> QED
      BY <3>1, <3>2
  <2> QED
    BY <2>1, <2>2
<1> QED
  BY <1>2, <1>3, <1>4 DEF j, HandedOver

(* Counting its places: a thing that is somewhere is there once. *)
Apart(queue, hands, P) ==
  /\ Once(queue) /\ HandsApart(hands, P)
  /\ \A q \in P : Items(hands[q]) \cap Items(queue) = {}

PlacesOf(j, queue, hands, P, S) ==
  Cardinality({n \in DOMAIN queue : queue[n] = j})
  + Cardinality({x \in P \X (1 .. Cardinality(S)) :
                   x[2] \in DOMAIN hands[x[1]] /\ hands[x[1]][x[2]] = j})

LEMMA PlacesCount ==
  ASSUME NEW S, IsFiniteSet(S), NEW P, NEW queue \in Seq(S), NEW hands \in [P -> Seq(S)],
         Apart(queue, hands, P), NEW j \in S
  PROVE  PlacesOf(j, queue, hands, P, S) =
           IF j \in Items(queue) \/ (\E p \in P : j \in Items(hands[p])) THEN 1 ELSE 0
<1> USE DEF Apart, HandsApart
<1> DEFINE Q == {n \in DOMAIN queue : queue[n] = j}
           H == {x \in P \X (1 .. Cardinality(S)) :
                   x[2] \in DOMAIN hands[x[1]] /\ hands[x[1]][x[2]] = j}
           Held == \E p \in P : j \in Items(hands[p])
<1>2. Cardinality({}) = 0 /\ \A x : Cardinality({x}) = 1
  BY FS_EmptySet, FS_Singleton
<1>3. Cardinality(Q) = IF j \in Items(queue) THEN 1 ELSE 0
  <2>1. DOMAIN queue = 1 .. Len(queue)
    OBVIOUS
  <2>2. CASE j \in Items(queue)
    <3>1. PICK n \in 1 .. Len(queue) : queue[n] = j
      BY <2>2 DEF Items
    <3>2. Q = {n}
      BY <2>1, <3>1 DEF Once
    <3> QED
      BY <1>2, <2>2, <3>2, Zenon
  <2>3. CASE j \notin Items(queue)
    <3>1. Q = {}
      BY <2>1, <2>3 DEF Items
    <3> QED
      BY <1>2, <2>3, <3>1, Zenon
  <2> QED
    BY <2>2, <2>3, Zenon
<1>4. Cardinality(H) = IF Held THEN 1 ELSE 0
  <2>1. \A p \in P : hands[p] \in Seq(S) /\ Once(hands[p]) /\ DOMAIN hands[p] = 1 .. Len(hands[p])
    OBVIOUS
  <2>2. \A p \in P : \A n \in 1 .. Len(hands[p]) : n \in 1 .. Cardinality(S)
    <3> SUFFICES ASSUME NEW p \in P, NEW n \in 1 .. Len(hands[p])
                 PROVE  n \in 1 .. Cardinality(S)
      OBVIOUS
    <3>1. Len(hands[p]) \in Nat /\ Cardinality(S) \in Nat /\ Len(hands[p]) <= Cardinality(S)
      BY <2>1, DistinctIsShort
    <3> QED
      BY <3>1
  <2>3. CASE Held
    <3>1. PICK p \in P : j \in Items(hands[p])
      BY <2>3
    <3>2. PICK n \in 1 .. Len(hands[p]) : hands[p][n] = j
      BY <3>1 DEF Items
    <3>3. <<p, n>> \in H
      BY <2>1, <2>2, <3>2
    <3>4. ASSUME NEW x \in H PROVE x = <<p, n>>
      <4>1. /\ x \in P \X (1 .. Cardinality(S))
            /\ x[1] \in P /\ x[2] \in 1 .. Len(hands[x[1]]) /\ hands[x[1]][x[2]] = j
        BY <2>1
      <4>2. j \in Items(hands[x[1]])
        BY <4>1 DEF Items
      <4>3. x[1] = p
        BY <3>1, <4>1, <4>2
      <4>4. x[2] = n
        BY <2>1, <3>2, <4>1, <4>3 DEF Once
      <4> QED
        BY <4>1, <4>3, <4>4
    <3> HIDE DEF H
    <3>5. H = {<<p, n>>}
      BY <3>3, <3>4
    <3> QED
      BY <1>2, <2>3, <3>5, Zenon
  <2>4. CASE ~Held
    <3>1. ASSUME NEW x \in H PROVE FALSE
      <4>1. x[1] \in P /\ x[2] \in 1 .. Len(hands[x[1]]) /\ hands[x[1]][x[2]] = j
        BY <2>1
      <4> QED
        BY <2>4, <4>1 DEF Items
    <3> HIDE DEF H
    <3>2. H = {}
      BY <3>1
    <3> QED
      BY <1>2, <2>4, <3>2, Zenon
  <2> QED
    BY <2>3, <2>4, Zenon
<1>5. ~(j \in Items(queue) /\ Held)
  OBVIOUS
<1> HIDE DEF Q, H, Held
<1>6. Cardinality(Q) + Cardinality(H) = IF j \in Items(queue) \/ Held THEN 1 ELSE 0
  BY <1>3, <1>4, <1>5
<1> QED
  BY <1>6 DEF Q, H, Held, PlacesOf

-----------------------------------------------------------------------------
(* RetryWorker.  A job is in the queue or in one run's hand, once.         *)

BgTypes ==
  /\ retry_queue \in Seq(Job)
  /\ hand \in [Pass -> Seq(Job)]
  /\ retry_count \in [Job -> Nat]
  /\ outcome \in [Job -> Bg!Outcome]
  /\ entries \subseteq Job

InHand(j) == \E p \in Pass : j \in Items(hand[p])

OnePlace ==
  /\ Once(retry_queue) /\ \A p \in Pass : Once(hand[p])
  /\ \A p \in Pass : Items(hand[p]) \cap Items(retry_queue) = {}
  /\ \A p, q \in Pass : p # q => Items(hand[p]) \cap Items(hand[q]) = {}

WaitingIsPlaced ==
  \A j \in Job : outcome[j] = "waiting" <=> j \in Items(retry_queue) \/ InHand(j)

TriesAgree ==
  \A j \in Job :
    /\ outcome[j] = "new" => retry_count[j] = 0
    /\ outcome[j] = "waiting" => retry_count[j] < MaxRetries
    /\ outcome[j] \in {"failed", "unrecorded"} => retry_count[j] = MaxRetries
    /\ j \in entries <=> outcome[j] = "failed"

ResultsRegistered == \A c \in Part : results[c] # "none" => c \in checks \cup ghost

RetryInv == BgTypes /\ OnePlace /\ WaitingIsPlaced /\ TriesAgree

HeartInv == results \in [Part -> {"none", "healthy", "unhealthy"}] /\ ResultsRegistered
              /\ \A c \in checking : c \in checks \cup ghost

LEMMA TakenFromHand ==
  ASSUME BgTypes, OnePlace, NEW p \in Pass, hand[p] # <<>>, Bg!Handled(p)
  PROVE  LET j == Head(hand[p]) IN
         /\ j \in Job /\ InHand(j) /\ j \notin Items(retry_queue)
         /\ hand' \in [Pass -> Seq(Job)]
         /\ \A q \in Pass : Once(hand'[q]) /\ j \notin Items(hand'[q])
                            /\ Items(hand'[q]) \subseteq Items(hand[q])
                            /\ Items(hand[q]) \subseteq Items(hand'[q]) \cup {j}
<1>1. hand \in [Pass -> Seq(Job)] /\ hand' = [hand EXCEPT ![p] = Tail(hand[p])]
  BY DEF BgTypes, Bg!Handled
<1>2. HandsApart(hand, Pass)
  BY DEF OnePlace, HandsApart
<1> DEFINE j == Head(hand[p])
<1>3. /\ j \in Job /\ j \in Items(hand[p]) /\ hand' \in [Pass -> Seq(Job)]
      /\ HandedOver(hand', hand, Pass, j)
  BY <1>1, <1>2, HeadLeaves, ZenonT(60)
<1> HIDE DEF j
<1>4. InHand(j) /\ j \notin Items(retry_queue)
  BY <1>3 DEF InHand, OnePlace
<1> QED
  BY <1>3, <1>4 DEF j, HandedOver

LEMMA RetryInitInv ==
  ASSUME MaxRetries \in Nat \ {0} PROVE Bg!Init => RetryInv /\ HeartInv
<1> SUFFICES ASSUME Bg!Init PROVE RetryInv /\ HeartInv
  OBVIOUS
<1>1. BgTypes
  BY DEF Bg!Init, BgTypes, Bg!Outcome
<1>2. OnePlace /\ WaitingIsPlaced
  BY NoItems DEF Bg!Init, OnePlace, WaitingIsPlaced, InHand
<1>3. TriesAgree /\ HeartInv
  BY DEF Bg!Init, TriesAgree, HeartInv, ResultsRegistered
<1> QED
  BY <1>1, <1>2, <1>3 DEF RetryInv

(* A job that ended, with success or without, is in no place any more. *)
LEMMA EndedLeaves ==
  ASSUME RetryInv, NEW p \in Pass, hand[p] # <<>>, Bg!Handled(p), UNCHANGED retry_queue,
         NEW e \in Bg!Outcome \ {"waiting"},
         outcome' = [outcome EXCEPT ![Head(hand[p])] = e]
  PROVE  /\ OnePlace' /\ WaitingIsPlaced'
         /\ hand' \in [Pass -> Seq(Job)] /\ outcome' \in [Job -> Bg!Outcome]
<1> DEFINE j == Head(hand[p])
<1>1. /\ j \in Job /\ j \notin Items(retry_queue)
      /\ hand' \in [Pass -> Seq(Job)]
      /\ \A q \in Pass : Once(hand'[q]) /\ j \notin Items(hand'[q])
                         /\ Items(hand'[q]) \subseteq Items(hand[q])
                         /\ Items(hand[q]) \subseteq Items(hand'[q]) \cup {j}
  BY TakenFromHand DEF RetryInv
<1>2. outcome' = [outcome EXCEPT ![j] = e] /\ e # "waiting" /\ outcome \in [Job -> Bg!Outcome]
  BY DEF RetryInv, BgTypes
<1> HIDE DEF j
<1>3. /\ outcome' \in [Job -> Bg!Outcome] /\ outcome'[j] # "waiting"
      /\ \A i \in Job : i # j => outcome'[i] = outcome[i]
  BY <1>1, <1>2
<1>4. OnePlace'
  BY <1>1 DEF RetryInv, OnePlace
<1>5. ASSUME NEW i \in Job
      PROVE  outcome'[i] = "waiting" <=> i \in Items(retry_queue') \/ InHand(i)'
  <2>1. CASE i = j
    BY <1>1, <1>3, <2>1 DEF InHand
  <2>2. CASE i # j
    <3>1. InHand(i)' <=> InHand(i)
      BY <1>1, <2>2 DEF InHand
    <3>2. outcome[i] = "waiting" <=> i \in Items(retry_queue) \/ InHand(i)
      BY DEF RetryInv, WaitingIsPlaced
    <3> QED
      BY <1>3, <2>2, <3>1, <3>2
  <2> QED
    BY <2>1, <2>2
<1>6. WaitingIsPlaced'
  BY <1>5 DEF WaitingIsPlaced
<1> QED
  BY <1>1, <1>3, <1>4, <1>6

LEMMA SubmitInv ==
  ASSUME MaxRetries \in Nat \ {0}, RetryInv, NEW j \in Job, Bg!Submit(j)
  PROVE  RetryInv'
<1> USE DEF RetryInv
<1>1. /\ outcome[j] = "new" /\ retry_queue' = Append(retry_queue, j)
      /\ outcome' = [outcome EXCEPT ![j] = "waiting"]
      /\ UNCHANGED <<retry_count, hand, entries>>
  BY DEF Bg!Submit
<1>2. /\ j \notin Items(retry_queue) /\ ~InHand(j)
      /\ retry_count[j] = 0 /\ j \notin entries
  BY <1>1 DEF WaitingIsPlaced, TriesAgree
<1>3. /\ retry_queue' \in Seq(Job) /\ Once(retry_queue')
      /\ Items(retry_queue') = Items(retry_queue) \cup {j}
  BY <1>1, <1>2, ItemsAppended DEF BgTypes, OnePlace
<1>4. /\ outcome' \in [Job -> Bg!Outcome] /\ outcome'[j] = "waiting"
      /\ \A i \in Job : i # j => outcome'[i] = outcome[i]
  BY <1>1 DEF BgTypes, Bg!Outcome
<1>5. BgTypes'
  BY <1>1, <1>3, <1>4 DEF BgTypes
<1>6. OnePlace'
  BY <1>1, <1>2, <1>3 DEF OnePlace, InHand
<1>7. WaitingIsPlaced'
  <2>1. \A i \in Job : InHand(i)' <=> InHand(i)
    BY <1>1 DEF InHand
  <2> QED
    BY <1>3, <1>4, <2>1 DEF WaitingIsPlaced
<1>8. TriesAgree'
  BY <1>1, <1>2, <1>4 DEF TriesAgree
<1> QED
  BY <1>5, <1>6, <1>7, <1>8

LEMMA RunTaskInv ==
  ASSUME RetryInv, NEW p \in Pass, Bg!RunTask(p) PROVE RetryInv'
<1> USE DEF RetryInv
<1>1. /\ hand[p] = <<>> /\ retry_queue' = <<>> /\ hand' = [hand EXCEPT ![p] = retry_queue]
      /\ UNCHANGED <<retry_count, outcome, entries>>
  BY DEF Bg!RunTask, Bg!CopyAndClear
<1>2. /\ hand' \in [Pass -> Seq(Job)] /\ hand'[p] = retry_queue
      /\ \A q \in Pass : q # p => hand'[q] = hand[q]
  BY <1>1 DEF BgTypes
<1>3. Items(retry_queue') = {} /\ Once(retry_queue') /\ Items(hand[p]) = {}
  BY <1>1, NoItems
<1>4. BgTypes' /\ TriesAgree'
  BY <1>1, <1>2 DEF BgTypes, TriesAgree
<1>5. OnePlace'
  <2>1. \A q \in Pass : Once(hand'[q])
    BY <1>2 DEF OnePlace
  <2>2. ASSUME NEW q \in Pass, NEW r \in Pass, q # r
        PROVE  Items(hand'[q]) \cap Items(hand'[r]) = {}
    BY <1>2, <2>2 DEF OnePlace
  <2> QED
    BY <1>3, <2>1, <2>2 DEF OnePlace
<1>6. ASSUME NEW i \in Job
      PROVE  InHand(i)' <=> i \in Items(retry_queue) \/ InHand(i)
  BY <1>2, <1>3 DEF InHand
<1>7. WaitingIsPlaced'
  BY <1>1, <1>3, <1>6 DEF WaitingIsPlaced
<1> QED
  BY <1>4, <1>5, <1>7

LEMMA JobEndsInv ==
  ASSUME MaxRetries \in Nat \ {0}, RetryInv, NEW p \in Pass, Bg!JobSucceeds(p) \/ Bg!JobFails(p)
  PROVE  RetryInv'
<1> DEFINE j == Head(hand[p])
<1> USE DEF RetryInv
<1>1. hand[p] # <<>> /\ Bg!Handled(p) /\ UNCHANGED retry_queue
  BY DEF Bg!JobSucceeds, Bg!JobFails
<1>2. j \in Job /\ outcome[j] = "waiting"
  BY <1>1, TakenFromHand DEF WaitingIsPlaced
<1>3. retry_count[j] \in Nat /\ retry_count[j] < MaxRetries /\ j \notin entries
  BY <1>2 DEF BgTypes, TriesAgree
<1>4. CASE Bg!JobSucceeds(p)
  <2>1. outcome' = [outcome EXCEPT ![j] = "success"] /\ UNCHANGED <<retry_count, entries>>
    BY <1>4 DEF Bg!JobSucceeds
  <2>2. OnePlace' /\ WaitingIsPlaced' /\ BgTypes'
    BY <1>1, <2>1, EndedLeaves DEF BgTypes, Bg!Outcome
  <2> HIDE DEF j
  <2>3. outcome'[j] = "success" /\ \A i \in Job : i # j => outcome'[i] = outcome[i]
    BY <1>2, <2>1 DEF BgTypes
  <2>4. TriesAgree'
    BY <1>3, <2>1, <2>3 DEF TriesAgree
  <2> QED
    BY <2>2, <2>4
<1>5. CASE Bg!JobFails(p)
  <2>1. /\ retry_count[j] + 1 >= MaxRetries
        /\ retry_count' = [retry_count EXCEPT ![j] = retry_count[j] + 1]
    BY <1>5 DEF Bg!JobFails
  <2>2. PICK e \in {"failed", "unrecorded"} :
          /\ outcome' = [outcome EXCEPT ![j] = e]
          /\ entries' = IF e = "failed" THEN entries \cup {j} ELSE entries
    BY <1>5 DEF Bg!JobFails
  <2>3. OnePlace' /\ WaitingIsPlaced' /\ outcome' \in [Job -> Bg!Outcome]
        /\ hand' \in [Pass -> Seq(Job)]
    BY <1>1, <2>2, EndedLeaves DEF Bg!Outcome
  <2> HIDE DEF j
  <2>4. /\ retry_count' \in [Job -> Nat] /\ retry_count'[j] = MaxRetries
        /\ \A i \in Job : i # j => retry_count'[i] = retry_count[i]
    BY <1>2, <1>3, <2>1 DEF BgTypes
  <2>5. outcome'[j] = e /\ \A i \in Job : i # j => outcome'[i] = outcome[i]
    BY <1>2, <2>2 DEF BgTypes
  <2>6. BgTypes'
    BY <1>1, <1>2, <2>2, <2>3, <2>4 DEF BgTypes
  <2>7. ASSUME NEW i \in Job
        PROVE  /\ outcome'[i] = "new" => retry_count'[i] = 0
               /\ outcome'[i] = "waiting" => retry_count'[i] < MaxRetries
               /\ outcome'[i] \in {"failed", "unrecorded"} => retry_count'[i] = MaxRetries
               /\ i \in entries' <=> outcome'[i] = "failed"
    <3>1. CASE i = j
      BY <1>3, <2>2, <2>4, <2>5, <3>1
    <3>2. CASE i # j
      <4>1. i \in entries' <=> i \in entries
        BY <2>2, <3>2
      <4> QED
        BY <2>4, <2>5, <3>2, <4>1 DEF TriesAgree
    <3> QED
      BY <3>1, <3>2
  <2>8. TriesAgree'
    BY <2>7 DEF TriesAgree
  <2> QED
    BY <2>3, <2>6, <2>8
<1> QED
  BY <1>4, <1>5

LEMMA JobRetriedInv ==
  ASSUME MaxRetries \in Nat \ {0}, RetryInv, NEW p \in Pass, Bg!JobRetried(p)
  PROVE  RetryInv'
<1> DEFINE j == Head(hand[p])
<1> USE DEF RetryInv
<1>1. /\ hand[p] # <<>> /\ Bg!Handled(p)
      /\ retry_count[j] + 1 < MaxRetries
      /\ retry_count' = [retry_count EXCEPT ![j] = retry_count[j] + 1]
      /\ retry_queue' = Append(retry_queue, j)
      /\ UNCHANGED <<outcome, entries>>
  BY DEF Bg!JobRetried
<1>2. /\ j \in Job /\ InHand(j) /\ j \notin Items(retry_queue)
      /\ hand' \in [Pass -> Seq(Job)]
      /\ \A q \in Pass : Once(hand'[q]) /\ j \notin Items(hand'[q])
                         /\ Items(hand'[q]) \subseteq Items(hand[q])
                         /\ Items(hand[q]) \subseteq Items(hand'[q]) \cup {j}
  BY <1>1, TakenFromHand
<1> HIDE DEF j
<1>3. outcome[j] = "waiting"
  BY <1>2 DEF WaitingIsPlaced
<1>4. /\ retry_queue' \in Seq(Job) /\ Once(retry_queue')
      /\ Items(retry_queue') = Items(retry_queue) \cup {j}
  BY <1>1, <1>2, ItemsAppended DEF BgTypes, OnePlace
<1>5. /\ retry_count' \in [Job -> Nat] /\ retry_count'[j] < MaxRetries
      /\ \A i \in Job : i # j => retry_count'[i] = retry_count[i]
  BY <1>1, <1>2 DEF BgTypes
<1>6. BgTypes'
  BY <1>1, <1>2, <1>4, <1>5 DEF BgTypes
<1>7. OnePlace'
  <2>1. \A q \in Pass : Items(hand'[q]) \cap Items(retry_queue') = {}
    BY <1>2, <1>4 DEF OnePlace
  <2>2. \A q, r \in Pass : q # r => Items(hand'[q]) \cap Items(hand'[r]) = {}
    BY <1>2 DEF OnePlace
  <2> QED
    BY <1>2, <1>4, <2>1, <2>2 DEF OnePlace
<1>8. ASSUME NEW i \in Job
      PROVE  outcome'[i] = "waiting" <=> i \in Items(retry_queue') \/ InHand(i)'
  <2>1. CASE i = j
    BY <1>1, <1>3, <1>4, <2>1
  <2>2. CASE i # j
    <3>1. InHand(i)' <=> InHand(i)
      BY <1>2, <2>2 DEF InHand
    <3>2. outcome[i] = "waiting" <=> i \in Items(retry_queue) \/ InHand(i)
      BY DEF WaitingIsPlaced
    <3> QED
      BY <1>1, <1>4, <2>2, <3>1, <3>2
  <2> QED
    BY <2>1, <2>2
<1>9. WaitingIsPlaced'
  BY <1>8 DEF WaitingIsPlaced
<1>10. TriesAgree'
  BY <1>1, <1>3, <1>5 DEF TriesAgree
<1> QED
  BY <1>6, <1>7, <1>9, <1>10

LEMMA InterruptInv ==
  ASSUME RetryInv, NEW p \in Pass, Bg!Interrupt(p) PROVE RetryInv'
<1> USE DEF RetryInv
<1>1. /\ outcome' = [j \in Job |-> IF j \in Items(hand[p]) THEN "interrupted" ELSE outcome[j]]
      /\ hand' = [hand EXCEPT ![p] = <<>>]
      /\ UNCHANGED <<retry_queue, retry_count, entries>>
  <2>1. hand[p] \in Seq(Job)
    BY DEF BgTypes
  <2>2. Bg!ToSet(hand[p]) = Items(hand[p])
    BY <2>1 DEF Bg!ToSet, Items
  <2> QED
    BY <2>2 DEF Bg!Interrupt
<1>2. /\ hand' \in [Pass -> Seq(Job)] /\ Items(hand'[p]) = {} /\ Once(hand'[p])
      /\ \A q \in Pass : q # p => hand'[q] = hand[q]
  BY <1>1, NoItems DEF BgTypes
<1>3. /\ outcome' \in [Job -> Bg!Outcome]
      /\ \A j \in Items(hand[p]) : j \in Job => outcome'[j] = "interrupted"
      /\ \A j \in Job : j \notin Items(hand[p]) => outcome'[j] = outcome[j]
  BY <1>1 DEF BgTypes, Bg!Outcome
<1>4. BgTypes'
  BY <1>1, <1>2, <1>3 DEF BgTypes
<1>5. OnePlace'
  <2>1. ASSUME NEW q \in Pass PROVE Once(hand'[q]) /\ Items(hand'[q]) \subseteq Items(hand[q])
    <3>1. Once(hand[q])
      BY DEF OnePlace
    <3>2. q = p \/ hand'[q] = hand[q]
      BY <1>2
    <3> QED
      BY <1>2, <3>1, <3>2
  <2>2. Once(retry_queue') /\ Items(retry_queue') = Items(retry_queue)
    BY <1>1 DEF OnePlace
  <2> QED
    BY <2>1, <2>2 DEF OnePlace
<1>6. ASSUME NEW i \in Job
      PROVE  outcome'[i] = "waiting" <=> i \in Items(retry_queue') \/ InHand(i)'
  <2>1. CASE i \in Items(hand[p])
    <3>1. i \notin Items(retry_queue) /\ \A q \in Pass : q # p => i \notin Items(hand[q])
      BY <2>1 DEF OnePlace
    <3> QED
      BY <1>1, <1>2, <1>3, <2>1, <3>1 DEF InHand
  <2>2. CASE i \notin Items(hand[p])
    <3>1. InHand(i)' <=> InHand(i)
      BY <1>2, <2>2 DEF InHand
    <3> QED
      BY <1>1, <1>3, <2>2, <3>1 DEF WaitingIsPlaced
  <2> QED
    BY <2>1, <2>2
<1>7. WaitingIsPlaced'
  BY <1>6 DEF WaitingIsPlaced
<1>8. ASSUME NEW i \in Items(hand[p]), i \in Job PROVE outcome[i] = "waiting" /\ i \notin entries
  <2>1. outcome[i] = "waiting"
    BY <1>8 DEF WaitingIsPlaced, InHand
  <2> QED
    BY <1>8, <2>1 DEF TriesAgree
<1>9. TriesAgree'
  BY <1>1, <1>3, <1>8 DEF TriesAgree
<1> QED
  BY <1>4, <1>5, <1>7, <1>9

LEMMA DeadLettersInv ==
  ASSUME RetryInv, Bg!Clear \/ \E j \in Job : Bg!Replay(j) PROVE RetryInv'
<1> USE DEF RetryInv
<1>1. UNCHANGED <<retry_queue, retry_count, hand>> /\ entries' \subseteq entries
  BY DEF Bg!Clear, Bg!Replay
<1>2. /\ outcome' \in [Job -> Bg!Outcome]
      /\ \A i \in Job : \/ i \in entries \ entries' /\ outcome'[i] \in {"success", "unrecorded"}
                        \/ (i \in entries <=> i \in entries') /\ outcome'[i] = outcome[i]
  <2>1. CASE Bg!Clear
    <3>1. /\ entries' = {}
          /\ outcome' = [j \in Job |-> IF j \in entries THEN "unrecorded" ELSE outcome[j]]
      BY <2>1 DEF Bg!Clear
    <3> QED
      BY <3>1 DEF BgTypes, Bg!Outcome
  <2>2. ASSUME NEW j \in Job, Bg!Replay(j)
        PROVE  /\ outcome' \in [Job -> Bg!Outcome]
               /\ \A i \in Job :
                    \/ i \in entries \ entries' /\ outcome'[i] \in {"success", "unrecorded"}
                    \/ (i \in entries <=> i \in entries') /\ outcome'[i] = outcome[i]
    <3>1. /\ j \in entries /\ entries' = entries \ {j}
          /\ outcome' = [outcome EXCEPT ![j] = "success"]
      BY <2>2 DEF Bg!Replay
    <3>2. /\ outcome' \in [Job -> Bg!Outcome] /\ outcome'[j] = "success"
          /\ \A i \in Job : i # j => outcome'[i] = outcome[i]
      BY <3>1 DEF BgTypes, Bg!Outcome
    <3> QED
      BY <3>1, <3>2
  <2> QED
    BY <2>1, <2>2
<1>3. \A i \in entries : i \in Job => outcome[i] = "failed" /\ retry_count[i] = MaxRetries
  BY DEF TriesAgree
<1>4. BgTypes' /\ OnePlace'
  BY <1>1, <1>2 DEF BgTypes, OnePlace
<1>5. WaitingIsPlaced'
  <2>1. \A i \in Job : InHand(i)' <=> InHand(i)
    BY <1>1 DEF InHand
  <2>2. \A i \in Job : outcome'[i] = "waiting" <=> outcome[i] = "waiting"
    BY <1>2, <1>3
  <2> QED
    BY <1>1, <2>1, <2>2 DEF WaitingIsPlaced
<1>6. ASSUME NEW i \in Job
      PROVE  /\ outcome'[i] = "new" => retry_count'[i] = 0
             /\ outcome'[i] = "waiting" => retry_count'[i] < MaxRetries
             /\ outcome'[i] \in {"failed", "unrecorded"} => retry_count'[i] = MaxRetries
             /\ i \in entries' <=> outcome'[i] = "failed"
  BY <1>1, <1>2, <1>3 DEF TriesAgree
<1>7. TriesAgree'
  BY <1>6 DEF TriesAgree
<1> QED
  BY <1>4, <1>5, <1>7

LEMMA RetryStepInv ==
  ASSUME MaxRetries \in Nat \ {0} PROVE RetryInv /\ [Bg!Next]_(Bg!bgVars) => RetryInv'
<1> SUFFICES ASSUME RetryInv, [Bg!Next]_(Bg!bgVars) PROVE RetryInv'
  OBVIOUS
<1>1. CASE UNCHANGED Bg!retryVars
  <2>1. UNCHANGED <<retry_queue, retry_count, outcome, hand, entries>>
    BY <1>1 DEF Bg!retryVars
  <2> QED
    BY <2>1 DEF RetryInv, BgTypes, OnePlace, WaitingIsPlaced, InHand, TriesAgree
<1>2. Bg!Schedule \/ Bg!HeartStep \/ UNCHANGED Bg!bgVars => UNCHANGED Bg!retryVars
  BY DEF Bg!Schedule, Bg!HeartStep, Bg!Register, Bg!Unregister, Bg!CheckBegins, Bg!CheckEnds,
         Bg!bgVars
<1>3. CASE Bg!RetryStep
  BY <1>3, SubmitInv, RunTaskInv, JobEndsInv, JobRetriedInv, InterruptInv, DeadLettersInv
    DEF Bg!RetryStep
<1> QED
  BY <1>1, <1>2, <1>3 DEF Bg!Next, Bg!RetryPart

LEMMA HeartStepInv == HeartInv /\ [Bg!Next]_(Bg!bgVars) => HeartInv'
<1> SUFFICES ASSUME HeartInv, [Bg!Next]_(Bg!bgVars) PROVE HeartInv'
  OBVIOUS
<1> USE DEF HeartInv, ResultsRegistered
<1>1. CASE UNCHANGED Bg!heartVars
  BY <1>1 DEF Bg!heartVars
<1>2. Bg!Schedule \/ Bg!RetryStep \/ UNCHANGED Bg!bgVars => UNCHANGED Bg!heartVars
  BY DEF Bg!Schedule, Bg!RetryStep, Bg!Submit, Bg!Replay, Bg!RunTask, Bg!JobSucceeds,
         Bg!JobRetried, Bg!JobFails, Bg!Interrupt, Bg!Clear, Bg!bgVars
<1>3. ASSUME NEW c \in Part, Bg!Register(c) PROVE HeartInv'
  BY <1>3 DEF Bg!Register
<1>4. ASSUME NEW c \in Part, Bg!Unregister(c) PROVE HeartInv'
  <2>1. /\ checks' = checks \ {c} /\ results' = [results EXCEPT ![c] = "none"]
        /\ checking' = checking
        /\ c \in checking => ghost' = ghost \cup {c}
        /\ c \notin checking => ghost' = ghost
    BY <1>4 DEF Bg!Unregister, Bg!ResultPopped
  <2>2. /\ results' \in [Part -> {"none", "healthy", "unhealthy"}] /\ results'[c] = "none"
        /\ \A d \in Part : d # c => results'[d] = results[d]
    BY <2>1
  <2> QED
    BY <2>1, <2>2
<1>5. ASSUME NEW c \in Part, Bg!CheckBegins(c) PROVE HeartInv'
  BY <1>5 DEF Bg!CheckBegins
<1>6. ASSUME NEW c \in Part, Bg!CheckEnds(c) PROVE HeartInv'
  BY <1>6 DEF Bg!CheckEnds
<1> QED
  BY <1>1, <1>2, <1>3, <1>4, <1>5, <1>6 DEF Bg!Next, Bg!RetryPart, Bg!HeartStep

LEMMA CountedOnce ==
  ASSUME IsFiniteSet(Job), RetryInv, NEW j \in Job
  PROVE  Bg!Copies(j) = IF outcome[j] = "waiting" THEN 1 ELSE 0
<1>1. /\ retry_queue \in Seq(Job) /\ hand \in [Pass -> Seq(Job)]
      /\ Apart(retry_queue, hand, Pass)
  BY DEF RetryInv, BgTypes, OnePlace, Apart, HandsApart
<1>2. outcome[j] = "waiting" <=> j \in Items(retry_queue) \/ \E p \in Pass : j \in Items(hand[p])
  BY DEF RetryInv, WaitingIsPlaced, InHand
<1>3. Bg!Copies(j) = PlacesOf(j, retry_queue, hand, Pass, Job)
  BY DEF Bg!Copies, Bg!Cardinality, Cardinality, PlacesOf
<1>4. PlacesOf(j, retry_queue, hand, Pass, Job) =
        IF j \in Items(retry_queue) \/ (\E p \in Pass : j \in Items(hand[p])) THEN 1 ELSE 0
  BY <1>1, PlacesCount, Zenon
<1> QED
  BY <1>2, <1>3, <1>4

(* RetryWorker, DeadLetterQueue and HeartbeatMonitor: a submitted job is   *)
(* in exactly one place until it ends, fails for good only after           *)
(* MaxRetries tries, and is a dead letter exactly when the callback        *)
(* recorded that; no result of an unregistered component is shown but one  *)
(* its check was awaited for.  For any number of jobs, overlapping runs    *)
(* and components.                                                         *)
THEOREM JobsAreAccounted ==
  ASSUME IsFiniteSet(Job), MaxRetries \in Nat \ {0} PROVE Bg!Spec => []TasksAccounted
<1>1. Bg!Init => RetryInv /\ HeartInv
  BY RetryInitInv
<1>2. RetryInv /\ HeartInv /\ [Bg!Next]_(Bg!bgVars) => (RetryInv /\ HeartInv)'
  BY RetryStepInv, HeartStepInv
<1>3. RetryInv /\ HeartInv => TasksAccounted
  <2> SUFFICES ASSUME RetryInv, HeartInv PROVE TasksAccounted
    OBVIOUS
  <2>1. \A j \in Job : Bg!Copies(j) = IF outcome[j] = "waiting" THEN 1 ELSE 0
    BY CountedOnce
  <2>2. TriesAgree /\ ResultsRegistered
    BY DEF RetryInv, HeartInv
  <2> QED
    BY <2>1, <2>2 DEF TasksAccounted, Bg!TasksAccounted, TriesAgree, ResultsRegistered
<1> QED
  BY <1>1, <1>2, <1>3, PTL DEF Bg!Spec

-----------------------------------------------------------------------------
(* Exchange adapters.  What a call is still to ask tells what its answers  *)
(* can mean: place_order asks for one new order and nothing else, and a    *)
(* cancel_all that has listed the orders has in hand all that may still be *)
(* live.                                                                   *)

Venues == {"binance", "bybit", "okx", "hyperliquid", "mexc"}
TicketsAssumption == Ticket \subseteq Nat \ {0} /\ IsFiniteSet(Ticket)
Holds == {"open", "partially_filled", "filled"}
Made == {"open", "partially_filled", "filled", "cancelled", "expired"}
Over == {"cancelled", "expired", "rejected"}
SaysInBody == {"bybit", "okx", "hyperliquid"}

BookTypes ==
  /\ venue \in Venues \cup {"none"}
  /\ exchBook \in [Ticket -> {"none", "live", "cancelling", "cancelled", "filled"}]
  /\ \A t \in Ticket : exchBook[t] = "cancelling" => venue = "binance"

Fields == {"op", "todo", "at", "rest", "on", "key", "try", "round", "made", "lost"}

CallTypes ==
  /\ call = [i \in Fields |-> call[i]]
  /\ call.made \in Nat /\ call.lost \in Nat
  /\ call.op # "idle" => venue \in Venues /\ reply = Ex!NoReply

(* The request the call is about comes next, or after the clock. *)
Asks(q) == call.todo \in {<<q>>, <<"time", q>>}

AsksToPlace ==
  call.op = "place_order" =>
    Asks("new") /\ call.rest = {} /\ call.made = call.lost /\ call.at = 0

AboutOrder ==
  call.op \in {"cancel_order", "get_order"} =>
    call.at \in Ticket /\ exchBook[call.at] # "none" /\ call.rest = {}

AsksToCancel == call.op = "cancel_order" => Asks("cancel")
AsksForOrder ==
  call.op = "get_order" => IF venue = "hyperliquid" THEN Asks("open") ELSE Asks("one")

LiveAreListed ==
  call.op \in {"cancel_all", "cancel_symbol"} =>
    \/ (Asks("all") \/ Asks("list")) /\ call.rest = {}
    \/ /\ Asks("cancel") /\ venue # "hyperliquid"
       /\ \A t \in Ticket : exchBook[t] = "live" => t \in call.rest \cup {call.at}

ReplyHolds ==
  /\ HonestAnswer /\ NoUnexplainedOrder
  /\ reply.result = "filled" => reply.at \in Ticket

AdapterInv ==
  /\ BookTypes /\ CallTypes /\ AsksToPlace /\ AboutOrder /\ AsksToCancel /\ AsksForOrder
  /\ LiveAreListed /\ ReplyHolds

Errors ==
  {"RateLimit", "TimestampDrift", "Authentication", "OrderNotFound", "InsufficientBalance",
   "SymbolNotSupported", "Exchange", "Connection", "Timeout"}

LEMMA ErrorsAreErrors ==
  ASSUME NEW k \in Ex!Refusal \cup Ex!Broken, venue \in Venues
  PROVE  Ex!Error(k) \in Errors /\ (Ex!Error(k) = "TimestampDrift" => k = "drift")
<1> DEFINE Kinds == Ex!Refusal \cup {"server"}
           Table(f) == f \in [Kinds -> Errors] /\ \A i \in Kinds : f[i] = "TimestampDrift" => i = "drift"
<1>1. Table(Ex!BinanceRaises)
  <2>1. Kinds = {"rate", "ban", "drift", "auth", "unknown", "balance", "symbol", "other", "server"}
    BY DEF Ex!Refusal
  <2> HIDE DEF Kinds
  <2> QED
    BY <2>1 DEF Ex!BinanceRaises, Errors
<1>2. ASSUME NEW f, Table(f) PROVE Table([f EXCEPT !.ban = "Exchange", !.drift = "Exchange"])
  <2>1. "ban" \in Kinds /\ "drift" \in Kinds
    BY DEF Ex!Refusal
  <2> HIDE DEF Kinds
  <2>2. PICK g : g = [f EXCEPT !.ban = "Exchange"]
    OBVIOUS
  <2>3. Table(g) /\ [g EXCEPT !.drift = "Exchange"] = [f EXCEPT !.ban = "Exchange", !.drift = "Exchange"]
    BY <1>2, <2>1, <2>2 DEF Errors
  <2>4. PICK h : h = [g EXCEPT !.drift = "Exchange"]
    OBVIOUS
  <2>5. Table(h)
    BY <2>1, <2>3, <2>4 DEF Errors
  <2> QED
    BY <2>3, <2>4, <2>5
<1>3. Table(Ex!HyperliquidRaises)
  BY DEF Ex!HyperliquidRaises, Ex!Refusal, Errors
<1>4. Table(Ex!BybitRaises) /\ Table(Ex!OkxRaises) /\ Table(Ex!MexcRaises)
  BY <1>1, <1>2, Zenon DEF Ex!BybitRaises, Ex!OkxRaises, Ex!MexcRaises
<1>5. Table(Ex!Raises[venue])
  <2> HIDE DEF Table
  <2>1. CASE venue = "binance"
    BY <1>1, <2>1 DEF Ex!Raises
  <2>2. CASE venue = "bybit"
    BY <1>4, <2>2 DEF Ex!Raises
  <2>3. CASE venue = "okx"
    BY <1>4, <2>3 DEF Ex!Raises
  <2>4. CASE venue = "mexc"
    BY <1>4, <2>4 DEF Ex!Raises
  <2>5. CASE venue = "hyperliquid"
    BY <1>3, <2>5 DEF Ex!Raises
  <2> QED
    BY <2>1, <2>2, <2>3, <2>4, <2>5 DEF Venues
<1>6. Ex!Error(k) \in {"Timeout", "Connection"} \/ \E i \in Kinds : Ex!Error(k) = Ex!Raises[venue][i]
                                                    /\ (i = k \/ i = "server")
  BY DEF Ex!Error, Ex!Broken
<1> QED
  BY <1>5, <1>6 DEF Errors

(* What the words of an exchange come to. *)
LEMMA WordsMean ==
  ASSUME venue \in Venues \ {"hyperliquid"}
  PROVE  /\ \A s \in Ex!Reported("live") : s \notin Over \cup {"filled"}
         /\ venue \in {"binance", "mexc"} => Ex!Reported("live") \subseteq Holds
         /\ Ex!Reported("filled") = {"filled"}
         /\ Ex!Reported("cancelled") \subseteq Over
         /\ venue \in {"binance", "mexc"} => Ex!Reported("cancelled") \subseteq Over \cap Made
         /\ venue = "binance" => Ex!Reported("cancelling") = {"pending"}
<1> USE DEF Ex!Reported, Ex!Status, Ex!Words, Holds, Over, Made
<1>1. CASE venue = "binance"
  BY <1>1 DEF Ex!BinanceStatus
<1>2. CASE venue = "bybit"
  BY <1>2 DEF Ex!BybitStatus
<1>3. CASE venue = "okx"
  BY <1>3 DEF Ex!OkxStatus
<1>4. CASE venue = "mexc"
  BY <1>4 DEF Ex!MexcStatus
<1> QED
  BY <1>1, <1>2, <1>3, <1>4 DEF Venues

(* What becomes of the book when the exchange gets a request. *)
LEMMA EffectOnBook ==
  ASSUME TicketsAssumption, BookTypes, venue \in Venues, NEW k \in Ex!Outcome, Ex!Happens(k)
  PROVE  /\ exchBook' \in [Ticket -> {"none", "live", "cancelling", "cancelled", "filled"}]
         /\ \A t \in Ticket : exchBook'[t] = "cancelling" => venue = "binance"
         /\ \A t \in Ticket : exchBook'[t] = "none" => exchBook[t] = "none"
         /\ Ex!NextRequest # "new" =>
              Ex!Created = {} /\ \A t \in Ticket : exchBook'[t] = "live" => exchBook[t] = "live"
         /\ Ex!NextRequest \notin {"new", "cancel", "all"} => exchBook' = exchBook
<1> USE DEF BookTypes, Ex!Created, Ex!In
<1>1. CASE UNCHANGED exchBook
  BY <1>1
<1>2. CASE Ex!Effect /\ Ex!NextRequest = "new"
  BY <1>2 DEF Ex!Effect
<1>3. CASE Ex!Effect /\ Ex!NextRequest = "cancel"
  BY <1>3 DEF Ex!Effect, Ex!Working
<1>4. CASE Ex!Effect /\ Ex!NextRequest = "all"
  BY <1>4 DEF Ex!Effect, Ex!Working
<1>5. Ex!Effect /\ Ex!NextRequest \notin {"new", "cancel", "all"} => UNCHANGED exchBook
  BY DEF Ex!Effect
<1> QED
  BY <1>1, <1>2, <1>3, <1>4, <1>5 DEF Ex!Happens

LEMMA CreatedIsCounted ==
  ASSUME TicketsAssumption PROVE Ex!Cardinality(Ex!Created) \in Nat
<1>1. Ex!Created \subseteq Ticket
  BY DEF Ex!Created, Ex!In
<1>2. IsFiniteSet(Ex!Created)
  BY <1>1, FS_Subset DEF TicketsAssumption
<1>3. Cardinality(Ex!Created) \in Nat
  BY <1>2, FS_CardinalityType
<1> QED
  BY <1>3 DEF Ex!Cardinality, Cardinality

(* An answer: what it says was asked for has been done. *)
LEMMA AnsweredIsDone ==
  ASSUME TicketsAssumption, BookTypes, venue \in Venues, Ex!Happens("ok")
  PROVE  /\ Ex!NextRequest = "new" =>
              \E t \in Ticket : /\ Ex!Created = {t}
                                /\ exchBook'[t] \in {"live", "filled", "cancelled"}
                                /\ Ex!Cardinality(Ex!Created) = 1 /\ Ex!Max(Ex!Created) = t
         /\ Ex!NextRequest = "cancel" => 
              exchBook'[call.at] = "cancelled"
                \/ (exchBook'[call.at] = "cancelling" /\ venue = "binance")
         /\ Ex!NextRequest = "all" => \A t \in Ticket : exchBook'[t] # "live"
<1> USE DEF BookTypes, Ex!In
<1>1. Ex!Effect
  BY DEF Ex!Happens, Ex!Broken, Ex!Refuses, Ex!Refusal
<1>2. CASE Ex!NextRequest = "new"
  <2>1. PICK t \in Ex!In("none"), s \in {"live", "filled", "cancelled"} :
          exchBook' = [exchBook EXCEPT ![t] = s]
    BY <1>1, <1>2 DEF Ex!Effect
  <2>2. t \in Ticket /\ exchBook'[t] = s /\ t \in Nat
    BY <2>1 DEF TicketsAssumption
  <2>3. Ex!Created = {t}
    BY <2>1, <2>2 DEF Ex!Created
  <2>4. Ex!Cardinality({t}) = Cardinality({t}) /\ Cardinality({t}) = 1
    BY FS_Singleton DEF Ex!Cardinality, Cardinality
  <2>5. Ex!Max({t}) = t
    BY <2>2 DEF Ex!Max
  <2> QED
    BY <1>2, <2>2, <2>3, <2>4, <2>5
<1>3. CASE Ex!NextRequest = "cancel"
  BY <1>1, <1>3 DEF Ex!Effect, Ex!Working
<1>4. CASE Ex!NextRequest = "all"
  BY <1>1, <1>4 DEF Ex!Effect, Ex!Working
<1> QED
  BY <1>2, <1>3, <1>4

LEMMA RefusedIsNotDone ==
  ASSUME BookTypes, NEW k \in {"err", "body"}, Ex!Happens(k)
  PROVE  /\ venue \in SaysInBody /\ (k = "err" => venue = "hyperliquid")
         /\ venue = "hyperliquid" => Ex!NextRequest \in {"new", "cancel"}
         /\ UNCHANGED exchBook /\ Ex!Created = {} /\ Ex!Cardinality(Ex!Created) = 0
<1>1. UNCHANGED exchBook /\ Ex!Refuses(k)
  BY DEF Ex!Happens, Ex!Broken
<1>2. Ex!Created = {}
  BY <1>1 DEF Ex!Created, Ex!In
<1>3. Ex!Cardinality({}) = Cardinality({}) /\ Cardinality({}) = 0
  BY FS_EmptySet DEF Ex!Cardinality, Cardinality
<1> QED
  BY <1>1, <1>2, <1>3 DEF Ex!Refuses, SaysInBody

LEMMA NothingReported == ASSUME reply = Ex!NoReply PROVE ReplyHolds
BY DEF Ex!NoReply, ReplyHolds, HonestAnswer, Ex!HonestAnswer, NoUnexplainedOrder,
       Ex!NoUnexplainedOrder

LEMMA AdapterInitInv == Ex!Init => AdapterInv
<1> SUFFICES ASSUME Ex!Init PROVE AdapterInv
  OBVIOUS
<1>1. call.op = "idle" /\ call.made = 0 /\ call.lost = 0 /\ call = [i \in Fields |-> call[i]]
  BY DEF Ex!Init, Ex!Idle, Fields
<1>2. BookTypes /\ CallTypes
  BY <1>1 DEF Ex!Init, BookTypes, CallTypes
<1>3. ReplyHolds
  BY NothingReported DEF Ex!Init
<1> QED
  BY <1>1, <1>2, <1>3 DEF AdapterInv, AsksToPlace, AboutOrder, AsksToCancel, AsksForOrder, LiveAreListed

(* A call that begins: nothing was made or lost yet. *)
LEMMA BegunInv ==
  ASSUME AdapterInv, NEW fresh, Ex!Starts(fresh),
         fresh = [i \in Fields |-> fresh[i]],
         fresh.rest = {} /\ fresh.made = 0 /\ fresh.lost = 0,
         fresh.op = "place_order" => fresh.todo = <<"new">> /\ fresh.at = 0,
         fresh.op \in {"cancel_order", "get_order"} =>
           fresh.at \in Ticket /\ exchBook[fresh.at] # "none",
         fresh.op = "cancel_order" => fresh.todo = <<"cancel">>,
         fresh.op = "get_order" =>
           fresh.todo = IF venue = "hyperliquid" THEN <<"open">> ELSE <<"one">>,
         fresh.op \in {"cancel_all", "cancel_symbol"} => fresh.todo \in {<<"all">>, <<"list">>}
  PROVE  AdapterInv'
<1>1. call' = fresh /\ reply' = Ex!NoReply /\ UNCHANGED <<venue, exchBook>> /\ venue # "none"
  BY DEF Ex!Starts
<1>2. BookTypes' /\ venue' \in Venues
  BY <1>1 DEF AdapterInv, BookTypes
<1>3. ReplyHolds'
  <2>1. (reply = Ex!NoReply => ReplyHolds)'
    BY NothingReported, PTL
  <2> QED
    BY <1>1, <2>1 DEF Ex!NoReply
<1>4. CallTypes'
  BY <1>1, <1>2 DEF CallTypes, Ex!NoReply
<1>5. AsksToPlace' /\ AsksToCancel' /\ AsksForOrder'
  BY <1>1 DEF AsksToPlace, AsksToCancel, AsksForOrder, Asks
<1>6. AboutOrder' /\ LiveAreListed'
  BY <1>1 DEF AboutOrder, LiveAreListed, Asks
<1> QED
  BY <1>2, <1>3, <1>4, <1>5, <1>6 DEF AdapterInv

LEMMA ReadBeginsInv ==
  ASSUME AdapterInv,
         Ex!HealthCheck \/ Ex!Read \/ \E k \in {"good", "bad"} : Ex!Authenticate(k)
  PROVE  AdapterInv'
<1>1. ASSUME NEW k \in {"good", "bad"}, Ex!Authenticate(k) PROVE AdapterInv'
  <2>1. PICK todo : todo = Ex!Lifecycle[venue].authenticate
    OBVIOUS
  <2>2. PICK fresh : fresh = [Ex!Idle EXCEPT !.op = "authenticate", !.key = k, !.todo = todo]
    OBVIOUS
  <2>3. Ex!Starts(fresh)
    BY <1>1, <2>1, <2>2, Zenon DEF Ex!Authenticate
  <2>4. /\ fresh = [i \in Fields |-> fresh[i]] /\ fresh.op = "authenticate"
        /\ fresh.rest = {} /\ fresh.made = 0 /\ fresh.lost = 0
    BY <2>2 DEF Ex!Idle, Fields
  <2> QED
    BY <2>3, <2>4, BegunInv
<1>2. CASE Ex!HealthCheck
  <2>1. PICK todo : todo = Ex!Lifecycle[venue].health_check
    OBVIOUS
  <2>2. PICK fresh : fresh = [Ex!Idle EXCEPT !.op = "health_check", !.todo = todo]
    OBVIOUS
  <2>3. Ex!Starts(fresh)
    BY <1>2, <2>1, <2>2, Zenon DEF Ex!HealthCheck
  <2>4. /\ fresh = [i \in Fields |-> fresh[i]] /\ fresh.op = "health_check"
        /\ fresh.rest = {} /\ fresh.made = 0 /\ fresh.lost = 0
    BY <2>2 DEF Ex!Idle, Fields
  <2> QED
    BY <2>3, <2>4, BegunInv
<1>3. CASE Ex!Read
  <2>1. PICK op \in DOMAIN Ex!BinanceReads :
          Ex!Starts([Ex!Idle EXCEPT !.op = op, !.todo = Ex!Needed(Ex!Reads[venue][op])])
    BY <1>3 DEF Ex!Read
  <2>2. PICK todo : todo = Ex!Needed(Ex!Reads[venue][op])
    OBVIOUS
  <2>3. PICK fresh : fresh = [Ex!Idle EXCEPT !.op = op, !.todo = todo]
    OBVIOUS
  <2>4. Ex!Starts(fresh)
    BY <2>1, <2>2, <2>3, Zenon
  <2>5. op \in {"get_account", "get_balance", "get_positions", "get_symbol_info",
                "get_exchange_info", "get_ticker", "get_order_book", "get_candles", "get_trades"}
    BY <2>1 DEF Ex!BinanceReads
  <2>6. op \notin {"place_order", "cancel_order", "get_order", "cancel_all", "cancel_symbol"}
    BY <2>5
  <2>7. /\ fresh = [i \in Fields |-> fresh[i]] /\ fresh.op = op
        /\ fresh.rest = {} /\ fresh.made = 0 /\ fresh.lost = 0
    BY <2>3 DEF Ex!Idle, Fields
  <2> QED
    BY <2>4, <2>6, <2>7, BegunInv
<1> QED
  BY <1>1, <1>2, <1>3

LEMMA OrdersBeginInv ==
  ASSUME AdapterInv, Ex!PlaceOrder \/ Ex!OnOrder \/ Ex!OnOrders PROVE AdapterInv'
<1>1. ASSUME venue \in Venues
      PROVE  /\ Ex!OrderCalls[venue]["place_order"] = <<"new">>
             /\ Ex!OrderCalls[venue]["cancel_order"] = <<"cancel">>
             /\ Ex!OrderCalls[venue]["get_order"] =
                  IF venue = "hyperliquid" THEN <<"open">> ELSE <<"one">>
             /\ Ex!OrderCalls[venue]["cancel_all"] \in {<<"all">>, <<"list">>}
             /\ Ex!OrderCalls[venue]["cancel_symbol"] \in {<<"all">>, <<"list">>}
  <2> USE DEF Ex!OrderCalls, Ex!BinanceOrders
  <2>1. CASE venue = "binance"
    BY <2>1
  <2>2. CASE venue = "bybit"
    BY <2>2 DEF Ex!BybitOrders
  <2>3. CASE venue = "okx"
    BY <2>3 DEF Ex!OkxOrders
  <2>4. CASE venue = "mexc"
    BY <2>4 DEF Ex!MexcOrders
  <2>5. CASE venue = "hyperliquid"
    BY <2>5 DEF Ex!HyperliquidOrders
  <2> QED
    BY <1>1, <2>1, <2>2, <2>3, <2>4, <2>5 DEF Venues
<1>2. venue # "none" => venue \in Venues
  BY DEF AdapterInv, BookTypes
<1>3. CASE Ex!PlaceOrder
  <2>1. PICK todo : todo = Ex!OrderCalls[venue]["place_order"]
    OBVIOUS
  <2>2. PICK fresh : fresh = [Ex!Idle EXCEPT !.op = "place_order", !.todo = todo]
    OBVIOUS
  <2>3. Ex!Starts(fresh)
    BY <1>3, <2>1, <2>2 DEF Ex!PlaceOrder
  <2>4. /\ fresh = [i \in Fields |-> fresh[i]] /\ fresh.op = "place_order" /\ fresh.todo = todo
        /\ fresh.at = 0 /\ fresh.rest = {} /\ fresh.made = 0 /\ fresh.lost = 0
    BY <2>2 DEF Ex!Idle, Fields
  <2>5. venue # "none"
    BY <2>3 DEF Ex!Starts
  <2>6. fresh.todo = <<"new">>
    BY <1>1, <1>2, <2>1, <2>4, <2>5
  <2> QED
    BY <2>3, <2>4, <2>6, BegunInv
<1>4. CASE Ex!OnOrder
  <2>1. PICK op \in {"cancel_order", "get_order"}, t \in Ticket \ Ex!In("none") :
          Ex!Starts([Ex!Idle EXCEPT !.op = op, !.at = t, !.todo = Ex!OrderCalls[venue][op]])
    BY <1>4 DEF Ex!OnOrder
  <2>2. PICK todo : todo = Ex!OrderCalls[venue][op]
    OBVIOUS
  <2>3. PICK fresh : fresh = [Ex!Idle EXCEPT !.op = op, !.at = t, !.todo = todo]
    OBVIOUS
  <2>4. Ex!Starts(fresh)
    BY <2>1, <2>2, <2>3, Zenon
  <2>5. /\ fresh = [i \in Fields |-> fresh[i]] /\ fresh.op = op /\ fresh.todo = todo
        /\ fresh.at = t /\ fresh.rest = {} /\ fresh.made = 0 /\ fresh.lost = 0
    BY <2>3 DEF Ex!Idle, Fields
  <2>6. venue # "none" /\ exchBook[t] # "none"
    BY <2>1, <2>4 DEF Ex!Starts, Ex!In
  <2>7. op = "cancel_order" => fresh.todo = <<"cancel">>
    BY <1>1, <1>2, <2>2, <2>5, <2>6
  <2>8. op = "get_order" => fresh.todo = IF venue = "hyperliquid" THEN <<"open">> ELSE <<"one">>
    BY <1>1, <1>2, <2>2, <2>5, <2>6
  <2> QED
    BY <2>1, <2>4, <2>5, <2>6, <2>7, <2>8, BegunInv
<1>5. CASE Ex!OnOrders
  <2>1. PICK op \in {"cancel_all", "cancel_symbol", "get_open_orders"} :
          Ex!Starts([Ex!Idle EXCEPT !.op = op, !.on = Ex!Working, !.todo = Ex!OrderCalls[venue][op]])
    BY <1>5 DEF Ex!OnOrders
  <2>2. PICK todo, on : todo = Ex!OrderCalls[venue][op] /\ on = Ex!Working
    OBVIOUS
  <2>3. PICK fresh : fresh = [Ex!Idle EXCEPT !.op = op, !.on = on, !.todo = todo]
    OBVIOUS
  <2>4. Ex!Starts(fresh)
    BY <2>1, <2>2, <2>3, Zenon
  <2>5. /\ fresh = [i \in Fields |-> fresh[i]] /\ fresh.op = op /\ fresh.todo = todo
        /\ fresh.rest = {} /\ fresh.made = 0 /\ fresh.lost = 0
    BY <2>3 DEF Ex!Idle, Fields
  <2>6. venue # "none"
    BY <2>4 DEF Ex!Starts
  <2>7. op \in {"cancel_all", "cancel_symbol"} => fresh.todo \in {<<"all">>, <<"list">>}
    BY <1>1, <1>2, <2>2, <2>5, <2>6
  <2> QED
    BY <2>1, <2>4, <2>5, <2>7, BegunInv
<1> QED
  BY <1>3, <1>4, <1>5

(* Answers.  While a call is under way it keeps to what it set out to ask. *)
Asked == {"new", "cancel", "open", "one", "all", "list"}

LEMMA HeadOfAsks ==
  ASSUME NEW q, Asks(q)
  PROVE  \/ call.todo = <<q>> /\ Ex!NextRequest = q /\ Len(call.todo) = 1
         \/ /\ call.todo = <<"time", q>> /\ Ex!NextRequest = "time" /\ Len(call.todo) = 2
            /\ Tail(call.todo) = <<q>>
<1>1. CASE call.todo = <<q>>
  BY <1>1 DEF Ex!NextRequest
<1>2. CASE call.todo = <<"time", q>>
  BY <1>2 DEF Ex!NextRequest
<1> QED
  BY <1>1, <1>2 DEF Asks

LEMMA PairJoined ==
  ASSUME NEW S, NEW a \in S, NEW b \in S PROVE <<a>> \o <<b>> = <<a, b>>
<1>1. <<a>> \in Seq(S) /\ <<b>> \in Seq(S)
  OBVIOUS
<1>2. <<a, b>> \in Seq(S) /\ Len(<<a, b>>) = 2 /\ <<a, b>>[1] = a /\ <<a, b>>[2] = b
  OBVIOUS
<1>3. PICK s : s = <<a>> \o <<b>>
  OBVIOUS
<1>4. /\ s \in Seq(S) /\ Len(s) = 2
      /\ \A i \in 1 .. 2 : s[i] = IF i <= 1 THEN <<a>>[i] ELSE <<b>>[i - 1]
  BY <1>1, <1>3, ConcatProperties
<1>5. s[1] = a /\ s[2] = b
  BY <1>4
<1>6. s = <<a, b>>
  BY <1>2, <1>4, <1>5, SeqEqual
<1> QED
  BY <1>3, <1>6

LEMMA CarriedOnInv ==
  ASSUME TicketsAssumption, AdapterInv, call.op # "idle", NEW k \in Ex!Outcome, Ex!Happens(k),
         UNCHANGED <<venue, reply>>,
         call' = [i \in Fields |-> call'[i]],
         call'.op = call.op /\ call'.at = call.at /\ call'.rest = call.rest,
         NEW c \in Nat, call'.made = call.made + c /\ call'.lost = call.lost + c,
         \A q \in Asked : Asks(q) => Asks(q)'
  PROVE  AdapterInv'
<1> USE DEF AdapterInv
<1>1. /\ exchBook' \in [Ticket -> {"none", "live", "cancelling", "cancelled", "filled"}]
      /\ \A t \in Ticket : exchBook'[t] = "cancelling" => venue = "binance"
      /\ \A t \in Ticket : exchBook'[t] = "none" => exchBook[t] = "none"
      /\ Ex!NextRequest # "new" =>
           \A t \in Ticket : exchBook'[t] = "live" => exchBook[t] = "live"
  BY EffectOnBook DEF CallTypes
<1>2. BookTypes'
  BY <1>1 DEF BookTypes
<1>3. CallTypes'
  <2>1. call.made + c \in Nat /\ call.lost + c \in Nat
    BY DEF CallTypes
  <2> QED
    BY <2>1 DEF CallTypes, Ex!NoReply
<1>4. reply = Ex!NoReply
  BY DEF CallTypes
<1>5. ReplyHolds'
  <2>1. (reply = Ex!NoReply => ReplyHolds)'
    BY NothingReported, PTL
  <2> QED
    BY <1>4, <2>1 DEF Ex!NoReply
<1>6. AsksToPlace'
  BY DEF AsksToPlace, Asked, CallTypes
<1>7. AboutOrder'
  BY <1>1 DEF AboutOrder
<1>8. AsksToCancel' /\ AsksForOrder'
  BY DEF AsksToCancel, AsksForOrder, Asked
<1>9. LiveAreListed'
  <2>1. Asks("cancel") => Ex!NextRequest # "new"
    BY HeadOfAsks
  <2> QED
    BY <1>1, <2>1 DEF LiveAreListed, Asked
<1> QED
  BY <1>2, <1>3, <1>5, <1>6, <1>7, <1>8, <1>9

LEMMA EndedInv ==
  ASSUME BookTypes', ReplyHolds', call' = Ex!Idle PROVE AdapterInv'
<1>1. /\ call'.op = "idle" /\ call'.made = 0 /\ call'.lost = 0
      /\ call' = [i \in Fields |-> call'[i]]
  BY DEF Ex!Idle, Fields
<1>2. CallTypes'
  BY <1>1 DEF CallTypes
<1> QED
  BY <1>1, <1>2 DEF AdapterInv, AsksToPlace, AboutOrder, AsksToCancel, AsksForOrder, LiveAreListed

LEMMA RetriedInv ==
  ASSUME TicketsAssumption, AdapterInv, NEW k \in Ex!Outcome, Ex!Retry(k) PROVE AdapterInv'
<1>1. /\ call.op # "idle" /\ Ex!Happens(k) /\ k \in Ex!Broken /\ UNCHANGED <<venue, reply>>
  BY DEF Ex!Retry, Ex!Sendable, Ex!Retried, Ex!Broken
<1>2. PICK c \in Nat : c = Ex!Cardinality(Ex!Created)
  BY CreatedIsCounted
<1>3. PICK next, madeNow, lostNow :
        next = call.try + 1 /\ madeNow = call.made + c /\ lostNow = call.lost + c
  OBVIOUS
<1>4. call' = [call EXCEPT !.try = @ + 1, !.made = @ + c, !.lost = @ + c]
  <2>1. (IF k \in Ex!Broken THEN c ELSE 0) = c
    BY <1>1
  <2>2. call' = [call EXCEPT !.try = @ + 1, !.made = @ + c, !.lost = @ + IF k \in Ex!Broken THEN c ELSE 0]
    BY <1>2, Zenon DEF Ex!Retry
  <2> QED
    BY <2>1, <2>2
<1>5. call' = [call EXCEPT !.try = next, !.made = madeNow, !.lost = lostNow]
  BY <1>3, <1>4
<1>6. call = [i \in Fields |-> call[i]]
  BY DEF AdapterInv, CallTypes
<1>7. /\ call' = [i \in Fields |-> call'[i]]
      /\ call'.op = call.op /\ call'.at = call.at /\ call'.rest = call.rest
      /\ call'.todo = call.todo /\ call'.made = madeNow /\ call'.lost = lostNow
  BY <1>5, <1>6 DEF Fields
<1>8. \A q \in Asked : Asks(q) => Asks(q)'
  BY <1>7 DEF Asks
<1> QED
  BY <1>1, <1>3, <1>7, <1>8, CarriedOnInv

LEMMA FailedInv ==
  ASSUME TicketsAssumption, AdapterInv, NEW k \in Ex!Outcome, Ex!Fails(k) PROVE AdapterInv'
<1>1. /\ call.op # "idle" /\ Ex!Happens(k) /\ k \in Ex!Refusal \cup Ex!Broken
      /\ UNCHANGED venue /\ venue \in Venues /\ reply = Ex!NoReply
      /\ call.made \in Nat /\ call.lost \in Nat /\ call = [i \in Fields |-> call[i]]
  BY DEF Ex!Fails, Ex!Sendable, AdapterInv, CallTypes
<1>2. CASE Ex!Resends(k)
  <2>1. call' = [call EXCEPT !.todo = <<"time">> \o @, !.try = 1, !.round = 2] /\ UNCHANGED reply
    BY <1>2 DEF Ex!Fails
  <2>2. PICK todo : todo = <<"time">> \o call.todo
    OBVIOUS
  <2>3. call' = [call EXCEPT !.todo = todo, !.try = 1, !.round = 2]
    BY <2>1, <2>2
  <2>4. /\ call' = [i \in Fields |-> call'[i]]
        /\ call'.op = call.op /\ call'.at = call.at /\ call'.rest = call.rest
        /\ call'.todo = todo /\ call'.made = call.made /\ call'.lost = call.lost
    BY <1>1, <2>3 DEF Fields
  <2>5. Ex!NextRequest # "time"
    BY <1>2 DEF Ex!Resends, Ex!Locked, Ex!Signed
  <2>6. ASSUME NEW q \in Asked, Asks(q) PROVE Asks(q)'
    <3>1. call.todo = <<q>>
      BY <2>5, <2>6, HeadOfAsks
    <3>2. <<"time">> \o <<q>> = <<"time", q>>
      <4>1. "time" \in Asked \cup {"time"} /\ q \in Asked \cup {"time"}
        OBVIOUS
      <4> QED
        BY <4>1, PairJoined
    <3>3. todo = <<"time", q>>
      BY <2>2, <3>1, <3>2, Zenon
    <3> QED
      BY <2>4, <3>3 DEF Asks
  <2>7. call.made + 0 = call.made /\ call.lost + 0 = call.lost
    BY <1>1
  <2> QED
    BY <1>1, <2>1, <2>4, <2>6, <2>7, CarriedOnInv
<1>3. CASE ~Ex!Resends(k)
  <2>1. PICK c \in Nat : c = Ex!Cardinality(Ex!Created)
    BY CreatedIsCounted
  <2>2. PICK result : result = IF call.op = "health_check" THEN "unhealthy" ELSE Ex!Error(k)
    OBVIOUS
  <2>3. Ex!Ends(result, call.at, call.lost + c, FALSE)
    BY <1>3, <2>1, <2>2, Zenon DEF Ex!Fails
  <2>4. call' = Ex!Idle /\ reply'.op = call.op /\ reply'.result = result
        /\ reply'.lost = call.lost + c /\ reply'.made = call.made + c /\ reply'.unread = FALSE
    BY <2>1, <2>3 DEF Ex!Ends
  <2>5. result \notin Made \cup Over \cup {"done"}
    BY <1>1, <2>2, ErrorsAreErrors DEF Errors, Made, Over
  <2>6. call.op = "place_order" => reply'.made = reply'.lost
    BY <2>4 DEF AdapterInv, AsksToPlace
  <2>7. call.lost + c \in Nat
    BY <1>1
  <2>8. ReplyHolds'
    BY <2>4, <2>5, <2>6, <2>7 DEF ReplyHolds, HonestAnswer, Ex!HonestAnswer, NoUnexplainedOrder,
      Ex!NoUnexplainedOrder, Made, Over
  <2>9. BookTypes'
    BY <1>1, EffectOnBook DEF AdapterInv, BookTypes
  <2> QED
    BY <2>4, <2>8, <2>9, EndedInv
<1> QED
  BY <1>2, <1>3

LEMMA UnauthenticatedInv ==
  ASSUME TicketsAssumption, AdapterInv, Ex!Unauthenticated PROVE AdapterInv'
<1>1. /\ UNCHANGED <<venue, exchBook>> /\ call.made \in Nat /\ call.lost \in Nat
  BY DEF Ex!Unauthenticated, AdapterInv, CallTypes
<1>2. Ex!Created = {} /\ Ex!Cardinality({}) = Cardinality({}) /\ Cardinality({}) = 0
  BY <1>1, FS_EmptySet DEF Ex!Created, Ex!In, Ex!Cardinality, Cardinality
<1>3. PICK result \in {"unhealthy", "Authentication"} : Ex!Ends(result, call.at, call.lost, FALSE)
  BY DEF Ex!Unauthenticated
<1>4. call' = Ex!Idle /\ reply'.op = call.op /\ reply'.result = result
      /\ reply'.lost = call.lost /\ reply'.made = call.made /\ reply'.unread = FALSE
  BY <1>1, <1>2, <1>3 DEF Ex!Ends
<1>5. call.op = "place_order" => reply'.made = reply'.lost
  BY <1>4 DEF AdapterInv, AsksToPlace
<1>6. ReplyHolds'
  BY <1>1, <1>4, <1>5 DEF ReplyHolds, HonestAnswer, Ex!HonestAnswer, NoUnexplainedOrder,
    Ex!NoUnexplainedOrder
<1>7. BookTypes'
  BY <1>1 DEF AdapterInv, BookTypes
<1> QED
  BY <1>4, <1>6, <1>7, EndedInv

(* The next request: the one after the clock, or the next cancel. *)
LEMMA ContinuedInv ==
  ASSUME TicketsAssumption, AdapterInv, Ex!Continues PROVE AdapterInv'
<1> DEFINE rest == IF Ex!NextRequest = "list" /\ venue # "hyperliquid" THEN Ex!Working
                   ELSE call.rest
<1>1. /\ call.op # "idle" /\ Ex!Happens("ok") /\ UNCHANGED <<venue, reply>> /\ venue \in Venues
      /\ call.made \in Nat /\ call.lost \in Nat /\ call = [i \in Fields |-> call[i]]
      /\ reply = Ex!NoReply
  BY DEF Ex!Continues, Ex!Sendable, AdapterInv, CallTypes
<1>2. CASE Len(call.todo) > 1 /\ call' = [call EXCEPT !.todo = Tail(@), !.try = 1]
  <2>1. PICK todo : todo = Tail(call.todo)
    OBVIOUS
  <2>2. call' = [call EXCEPT !.todo = todo, !.try = 1]
    BY <1>2, <2>1
  <2>3. /\ call' = [i \in Fields |-> call'[i]]
        /\ call'.op = call.op /\ call'.at = call.at /\ call'.rest = call.rest
        /\ call'.todo = todo /\ call'.made = call.made /\ call'.lost = call.lost
    BY <1>1, <2>2 DEF Fields
  <2>4. ASSUME NEW q \in Asked, Asks(q) PROVE Asks(q)'
    <3>1. Len(call.todo) # 1
      <4>1. \A n : n = 1 => ~(n > 1)
        OBVIOUS
      <4> QED
        BY <1>2, <4>1, Zenon
    <3>2. Tail(call.todo) = <<q>>
      BY <2>4, <3>1, HeadOfAsks
    <3> QED
      BY <2>1, <2>3, <3>2 DEF Asks
  <2>5. call.made + 0 = call.made /\ call.lost + 0 = call.lost
    BY <1>1
  <2>6. "ok" \in Ex!Outcome
    BY DEF Ex!Outcome, Ex!Answer
  <2> QED
    BY <1>1, <2>3, <2>4, <2>5, <2>6, CarriedOnInv
<1>3. CASE /\ Len(call.todo) = 1 /\ rest # {}
           /\ call' = [call EXCEPT !.todo = <<"cancel">>, !.at = Ex!Max(rest), !.try = 1,
                                   !.round = 1, !.rest = rest \ {Ex!Max(rest)}]
  <2>1. PICK at, left : at = Ex!Max(rest) /\ left = rest \ {at}
    OBVIOUS
  <2>2. call' = [call EXCEPT !.todo = <<"cancel">>, !.at = at, !.try = 1, !.round = 1,
                             !.rest = left]
    BY <1>3, <2>1
  <2>3. /\ call' = [i \in Fields |-> call'[i]]
        /\ call'.op = call.op /\ call'.at = at /\ call'.rest = left
        /\ call'.todo = <<"cancel">> /\ call'.made = call.made /\ call'.lost = call.lost
    BY <1>1, <2>2 DEF Fields
  <2>4. \A q \in Asked : Asks(q) => Ex!NextRequest = q
    BY <1>3, HeadOfAsks
  <2>5. call.op \notin {"place_order", "cancel_order", "get_order"}
    BY <1>3, <2>4 DEF AdapterInv, AsksToPlace, AboutOrder, AsksToCancel, AsksForOrder, Asked
  <2>6. "ok" \in Ex!Outcome
    BY DEF Ex!Outcome, Ex!Answer
  <2>7. /\ BookTypes'
        /\ Ex!NextRequest # "new" =>
             \A t \in Ticket : exchBook'[t] = "live" => exchBook[t] = "live"
        /\ Ex!NextRequest \notin {"new", "cancel", "all"} => exchBook' = exchBook
    BY <1>1, <2>6, EffectOnBook DEF AdapterInv, BookTypes
  <2>8. LiveAreListed'
    <3> SUFFICES ASSUME call.op \in {"cancel_all", "cancel_symbol"}
                 PROVE  /\ venue # "hyperliquid"
                        /\ \A t \in Ticket : exchBook'[t] = "live" => t \in rest
      BY <1>1, <2>1, <2>3 DEF LiveAreListed, Asks
    <3>1. CASE (Asks("all") \/ Asks("list")) /\ call.rest = {}
      <4>1. Ex!NextRequest = "list" /\ venue # "hyperliquid" /\ rest = Ex!Working
        BY <1>3, <2>4, <3>1 DEF Asked
      <4> QED
        BY <2>7, <4>1 DEF Ex!Working, Ex!In
    <3>2. CASE /\ Asks("cancel") /\ venue # "hyperliquid"
               /\ \A t \in Ticket : exchBook[t] = "live" => t \in call.rest \cup {call.at}
      <4>1. Ex!NextRequest = "cancel" /\ rest = call.rest
        BY <2>4, <3>2 DEF Asked
      <4>2. exchBook'[call.at] # "live"
        BY <1>1, <4>1, AnsweredIsDone DEF AdapterInv
      <4> QED
        BY <2>7, <3>2, <4>1, <4>2
    <3> QED
      BY <3>1, <3>2 DEF AdapterInv, LiveAreListed
  <2>9. ReplyHolds'
    <3>1. (reply = Ex!NoReply => ReplyHolds)'
      BY NothingReported, PTL
    <3> QED
      BY <1>1, <3>1 DEF Ex!NoReply
  <2>10. CallTypes'
    BY <1>1, <2>3 DEF CallTypes, Ex!NoReply
  <2> QED
    BY <2>3, <2>5, <2>7, <2>8, <2>9, <2>10
      DEF AdapterInv, AsksToPlace, AboutOrder, AsksToCancel, AsksForOrder
<1> QED
  BY <1>2, <1>3 DEF Ex!Continues

(* What a reply may say of the order it names and of the calls it made. *)
Explained(result, order, unread) ==
  /\ unread \in BOOLEAN /\ (unread => venue \in SaysInBody)
  /\ result \in Over /\ ~unread => order \notin Ex!Working'
  /\ result = "filled" => order \in Ticket /\ exchBook'[order] = "filled"
  /\ call.op \in {"cancel_all", "cancel_symbol"} /\ result = "done" /\ ~unread =>
       call.on \cap Ex!In("live")' = {}
  /\ call.op = "place_order" =>
       call.made + Ex!Cardinality(Ex!Created) =
         call.lost + IF result \in Made /\ ~unread THEN 1 ELSE 0

(* Only what is in a body goes unread. *)
LEMMA UnreadIsInBody ==
  ASSUME BookTypes, NEW k \in Ex!Answer, Ex!Happens(k)
  PROVE  /\ Ex!Unread(k) \in BOOLEAN /\ (Ex!Unread(k) => venue \in SaysInBody)
         /\ k = "ok" => ~Ex!Unread(k)
         /\ k = "body" => Ex!Unread(k)
         /\ k = "err" => (Ex!Unread(k) <=> call.op = "cancel_order")
BY RefusedIsNotDone DEF Ex!Unread, Ex!Answer

(* What each call's answer is read as. *)
LEMMA ResultReads ==
  ASSUME NEW k, NEW order
  PROVE  /\ call.op = "place_order" /\ k = "err" => Ex!Result(k, order) = {"rejected"}
         /\ call.op = "place_order" /\ k # "err" =>
              Ex!Result(k, order) = IF venue \in {"binance", "mexc"}
                                    THEN Ex!Reported(exchBook'[order]) ELSE {"open"}
         /\ call.op = "cancel_order" =>
              Ex!Result(k, order) = IF venue \in {"binance", "mexc"}
                                    THEN Ex!Reported(exchBook'[order])
                                    ELSE {IF venue = "bybit" THEN "open" ELSE "cancelled"}
         /\ call.op = "get_order" =>
              Ex!Result(k, order) = IF Ex!NextRequest \in {"open", "list"} /\ venue = "hyperliquid"
                                    THEN {"AttributeError"}
                                    ELSE IF k = "body" THEN {"OrderNotFound"}
                                    ELSE Ex!Reported(exchBook[order])
         /\ call.op \notin {"place_order", "cancel_order", "get_order"} =>
              /\ Ex!Result(k, order) \in {{"AttributeError"}, {"SymbolNotSupported"}, {"done"}}
              /\ Ex!NextRequest \in {"open", "list"} /\ venue = "hyperliquid" =>
                   Ex!Result(k, order) = {"AttributeError"}
<1>1. CASE call.op = "place_order"
  BY <1>1 DEF Ex!Result
<1>2. CASE call.op = "cancel_order"
  BY <1>2 DEF Ex!Result
<1>3. CASE call.op = "get_order"
  BY <1>3 DEF Ex!Result, Ex!NotFound
<1>4. CASE call.op \notin {"place_order", "cancel_order", "get_order"}
  <2>1. Ex!NotFound \in {"SymbolNotSupported", "done"}
    BY <1>4 DEF Ex!NotFound
  <2> QED
    BY <1>4, <2>1 DEF Ex!Result
<1> QED
  BY <1>1, <1>2, <1>3, <1>4

LEMMA PlacedIsExplained ==
  ASSUME TicketsAssumption, AdapterInv, venue \in Venues, UNCHANGED venue,
         call.op = "place_order", Len(call.todo) = 1, NEW k \in Ex!Answer, Ex!Happens(k),
         NEW order, order = IF Ex!Created = {} THEN call.at ELSE Ex!Max(Ex!Created),
         NEW result \in Ex!Result(k, order)
  PROVE  Explained(result, order, Ex!Unread(k))
<1>1. Ex!NextRequest = "new" /\ call.made = call.lost /\ call.made \in Nat /\ BookTypes
  <2>1. Asks("new") /\ call.made = call.lost /\ BookTypes
    BY DEF AdapterInv, AsksToPlace
  <2>2. call.made \in Nat
    BY DEF AdapterInv, CallTypes
  <2> QED
    BY <2>1, <2>2, HeadOfAsks
<1> DEFINE unread == Ex!Unread(k)
<1>2. /\ unread \in BOOLEAN /\ (unread => venue \in SaysInBody)
      /\ k = "ok" => ~unread
      /\ k = "body" => unread
  BY <1>1, UnreadIsInBody
<1> HIDE DEF unread
<1>3. CASE k = "err"
  <2>1. result = "rejected"
    BY <1>3, ResultReads
  <2>2. Ex!Cardinality(Ex!Created) = 0 /\ Ex!Created = {} /\ UNCHANGED exchBook
    BY <1>1, <1>3, RefusedIsNotDone
  <2>3. ~unread
    BY <1>1, <1>3, UnreadIsInBody DEF unread
  <2>4. order \notin Ex!Working'
    <3>1. order = call.at
      BY <2>2
    <3> QED
      BY <1>1, <2>2, <3>1 DEF AdapterInv, AsksToPlace, TicketsAssumption, Ex!Working, Ex!In
  <2> QED
    BY <1>1, <1>2, <2>1, <2>2, <2>3, <2>4 DEF Explained, Made, Over, unread
<1>4. CASE k = "body"
  <2>1. result = "open"
    <3>1. venue \notin {"binance", "mexc"}
      BY <1>2, <1>4 DEF SaysInBody
    <3> QED
      BY <1>4, <3>1, ResultReads
  <2>2. Ex!Cardinality(Ex!Created) = 0
    BY <1>1, <1>4, RefusedIsNotDone
  <2> QED
    BY <1>1, <1>2, <1>4, <2>1, <2>2 DEF Explained, Over, unread
<1>5. CASE k = "ok"
  <2>1. PICK t \in Ticket : /\ Ex!Created = {t}
                            /\ exchBook'[t] \in {"live", "filled", "cancelled"}
                            /\ Ex!Cardinality(Ex!Created) = 1 /\ Ex!Max(Ex!Created) = t
    BY <1>1, <1>5, AnsweredIsDone
  <2>2. order = t
    BY <2>1
  <2>3. /\ result \in Made /\ (result = "filled" => exchBook'[t] = "filled")
        /\ result \in Over => exchBook'[t] = "cancelled"
    <3>1. CASE venue \in {"binance", "mexc"}
      <4>1. result \in Ex!Reported(exchBook'[t])
        BY <1>5, <2>2, <3>1, ResultReads
      <4>2. CASE exchBook'[t] = "live"
        BY <3>1, <4>1, <4>2, WordsMean DEF Venues, Holds, Made
      <4>3. CASE exchBook'[t] = "filled"
        BY <3>1, <4>1, <4>3, WordsMean DEF Venues, Made, Over
      <4>4. CASE exchBook'[t] = "cancelled"
        <5>1. result \in Over \cap Made
          BY <3>1, <4>1, <4>4, WordsMean DEF Venues
        <5> QED
          BY <4>4, <5>1 DEF Over
      <4> QED
        BY <2>1, <4>2, <4>3, <4>4
    <3>2. CASE venue \notin {"binance", "mexc"}
      BY <1>5, <3>2, ResultReads DEF Made, Over
    <3> QED
      BY <3>1, <3>2
  <2>4. result \in Over => order \notin Ex!Working'
    BY <2>2, <2>3 DEF Ex!Working, Ex!In
  <2> QED
    BY <1>1, <1>2, <1>5, <2>1, <2>2, <2>3, <2>4 DEF Explained, unread
<1> QED
  BY <1>3, <1>4, <1>5 DEF Ex!Answer

(* cancel_order and get_order speak of the order they were asked about. *)
LEMMA OneOrderIsExplained ==
  ASSUME TicketsAssumption, AdapterInv, venue \in Venues, UNCHANGED venue,
         call.op \in {"cancel_order", "get_order"}, Len(call.todo) = 1,
         NEW k \in Ex!Answer, Ex!Happens(k),
         NEW order, order = IF Ex!Created = {} THEN call.at ELSE Ex!Max(Ex!Created),
         NEW result \in Ex!Result(k, order)
  PROVE  Explained(result, order, Ex!Unread(k))
<1>1. /\ call.op = "cancel_order" => Ex!NextRequest = "cancel"
      /\ call.op = "get_order" =>
           Ex!NextRequest = IF venue = "hyperliquid" THEN "open" ELSE "one"
      /\ call.at \in Ticket /\ exchBook[call.at] # "none" /\ BookTypes
  BY HeadOfAsks DEF AdapterInv, AsksToCancel, AsksForOrder, AboutOrder
<1>2. Ex!Answer \subseteq Ex!Outcome /\ k \in Ex!Outcome
  BY DEF Ex!Outcome
<1>3. order = call.at
  BY <1>1, <1>2, EffectOnBook
<1> DEFINE unread == Ex!Unread(k)
<1>4. /\ unread \in BOOLEAN /\ (unread => venue \in SaysInBody)
      /\ call.op = "cancel_order" => (~unread <=> k = "ok")
  BY <1>1, UnreadIsInBody DEF Ex!Answer
<1> HIDE DEF unread
<1>5. CASE call.op = "cancel_order"
  <2>1. CASE unread
    <3>1. venue \notin {"binance", "mexc"}
      BY <1>4, <2>1 DEF SaysInBody
    <3>2. result \in {"open", "cancelled"}
      BY <1>5, <3>1, ResultReads
    <3> QED
      BY <1>4, <1>5, <2>1, <3>2 DEF Explained, unread
  <2>2. CASE ~unread
    <3>1. k = "ok"
      BY <1>4, <1>5, <2>2
    <3>2. exchBook'[call.at] = "cancelled"
            \/ (exchBook'[call.at] = "cancelling" /\ venue = "binance")
      BY <1>1, <1>5, <3>1, AnsweredIsDone
    <3>3. CASE venue \in {"binance", "mexc"}
      <4>1. result \in Ex!Reported(exchBook'[call.at])
        BY <1>3, <1>5, <3>1, <3>3, ResultReads
      <4>2. CASE exchBook'[call.at] = "cancelled"
        <5>1. result \in Over /\ call.at \notin Ex!Working'
          BY <3>3, <4>1, <4>2, WordsMean DEF Ex!Working, Ex!In, Venues
        <5> QED
          BY <1>3, <1>4, <1>5, <5>1 DEF Explained, Over, unread
      <4>3. CASE exchBook'[call.at] = "cancelling" /\ venue = "binance"
        <5>1. result = "pending"
          BY <3>3, <4>1, <4>3, WordsMean DEF Venues
        <5> QED
          BY <1>4, <1>5, <5>1 DEF Explained, Over, unread
      <4> QED
        BY <3>2, <4>2, <4>3
    <3>4. CASE venue \notin {"binance", "mexc"}
      <4>1. result \in {"open", "cancelled"}
        BY <1>5, <3>1, <3>4, ResultReads
      <4>2. call.at \notin Ex!Working'
        BY <3>2, <3>4 DEF Ex!Working, Ex!In
      <4> QED
        BY <1>3, <1>4, <1>5, <4>1, <4>2 DEF Explained, unread
    <3> QED
      BY <3>3, <3>4
  <2> QED
    BY <2>1, <2>2
<1>6. CASE call.op = "get_order"
  <2>1. CASE venue = "hyperliquid"
    <3>1. result = "AttributeError"
      BY <1>1, <1>6, <2>1, ResultReads
    <3> QED
      BY <1>4, <1>6, <3>1 DEF Explained, Over, unread
  <2>2. CASE venue # "hyperliquid" /\ k = "body"
    <3>1. result = "OrderNotFound"
      BY <1>6, <2>2, ResultReads
    <3> QED
      BY <1>4, <1>6, <3>1 DEF Explained, Over, unread
  <2>3. CASE venue # "hyperliquid" /\ k # "body"
    <3>1. Ex!NextRequest = "one"
      BY <1>1, <1>6, <2>3
    <3>2. exchBook' = exchBook
      BY <1>1, <1>2, <3>1, EffectOnBook
    <3>3. result \in Ex!Reported(exchBook[call.at])
      BY <1>3, <1>6, <2>3, <3>1, ResultReads
    <3>4. /\ result \in Over => exchBook[call.at] \in {"cancelled", "filled"}
          /\ result = "filled" => exchBook[call.at] = "filled"
      <4>1. exchBook[call.at] \in {"live", "cancelling", "cancelled", "filled"}
        BY <1>1 DEF BookTypes
      <4>2. exchBook[call.at] = "cancelling" => venue = "binance"
        BY <1>1 DEF BookTypes
      <4>3. CASE exchBook[call.at] = "live"
        BY <2>3, <3>3, <4>3, WordsMean DEF Over
      <4>4. CASE exchBook[call.at] = "cancelling"
        BY <2>3, <3>3, <4>2, <4>4, WordsMean DEF Over
      <4>5. CASE exchBook[call.at] = "cancelled"
        BY <2>3, <3>3, <4>5, WordsMean DEF Over
      <4>6. CASE exchBook[call.at] = "filled"
        BY <4>6
      <4> QED
        BY <4>1, <4>3, <4>4, <4>5, <4>6
    <3>5. result \in Over => call.at \notin Ex!Working'
      BY <3>2, <3>4 DEF Ex!Working, Ex!In
    <3> QED
      BY <1>1, <1>3, <1>4, <1>6, <3>2, <3>4, <3>5 DEF Explained, unread
  <2> QED
    BY <2>1, <2>2, <2>3
<1> QED
  BY <1>5, <1>6

(* The others never say more than that they are done. *)
LEMMA OthersAreExplained ==
  ASSUME TicketsAssumption, AdapterInv, venue \in Venues, UNCHANGED venue,
         call.op \notin {"place_order", "cancel_order", "get_order"}, Len(call.todo) = 1,
         call.rest = {}, Ex!NextRequest = "list" => venue = "hyperliquid" \/ Ex!Working = {},
         NEW k \in Ex!Answer, Ex!Happens(k), NEW order, NEW result \in Ex!Result(k, order)
  PROVE  Explained(result, order, Ex!Unread(k))
<1>1. /\ result \in {"AttributeError", "SymbolNotSupported", "done"}
      /\ Ex!NextRequest = "list" /\ venue = "hyperliquid" => result = "AttributeError"
  BY ResultReads
<1> DEFINE unread == Ex!Unread(k)
<1>2. /\ unread \in BOOLEAN /\ (unread => venue \in SaysInBody)
      /\ ~unread => k \in {"ok", "err"}
  BY UnreadIsInBody DEF AdapterInv, Ex!Answer
<1> HIDE DEF unread
<1>3. ASSUME call.op \in {"cancel_all", "cancel_symbol"}, result = "done", ~unread
      PROVE  Ex!In("live")' = {}
  <2>1. "ok" \in Ex!Outcome /\ BookTypes
    BY DEF Ex!Outcome, Ex!Answer, AdapterInv
  <2>2. CASE (Asks("all") \/ Asks("list")) /\ call.rest = {}
    <3>1. Ex!NextRequest \in {"all", "list"}
      BY <2>2, HeadOfAsks
    <3>2. k = "ok"
      BY <1>2, <1>3, <2>1, <3>1, RefusedIsNotDone
    <3>3. CASE Ex!NextRequest = "all"
      <4>1. \A t \in Ticket : exchBook'[t] # "live"
        BY <2>1, <3>2, <3>3, AnsweredIsDone
      <4> QED
        BY <4>1 DEF Ex!In
    <3>4. CASE Ex!NextRequest = "list"
      <4>1. Ex!Working = {} /\ exchBook' = exchBook
        BY <1>1, <1>3, <2>1, <3>2, <3>4, EffectOnBook
      <4> QED
        BY <4>1 DEF Ex!Working, Ex!In
    <3> QED
      BY <3>1, <3>3, <3>4
  <2>3. CASE /\ Asks("cancel") /\ venue # "hyperliquid"
             /\ \A t \in Ticket : exchBook[t] = "live" => t \in call.rest \cup {call.at}
    <3>1. Ex!NextRequest = "cancel"
      BY <2>3, HeadOfAsks
    <3>2. k = "ok"
      BY <1>2, <1>3, <2>1, <2>3, RefusedIsNotDone
    <3>3. exchBook'[call.at] # "live"
      BY <2>1, <3>1, <3>2, AnsweredIsDone
    <3>4. \A t \in Ticket : exchBook'[t] = "live" => exchBook[t] = "live"
      BY <2>1, <3>1, <3>2, EffectOnBook
    <3> QED
      BY <2>3, <3>3, <3>4 DEF Ex!In
  <2> QED
    BY <1>3, <2>2, <2>3 DEF AdapterInv, LiveAreListed
<1> QED
  BY <1>1, <1>2, <1>3 DEF Explained, Over, unread

LEMMA CompletedInv ==
  ASSUME TicketsAssumption, AdapterInv, NEW k \in Ex!Answer, Ex!Completes(k)
  PROVE  AdapterInv'
<1>1. /\ call.op # "idle" /\ venue \in Venues /\ UNCHANGED venue
      /\ Ex!Happens(k) /\ Len(call.todo) = 1 /\ call.rest = {}
      /\ Ex!NextRequest = "list" => venue = "hyperliquid" \/ Ex!Working = {}
  BY DEF Ex!Completes, Ex!Sendable, AdapterInv, CallTypes
<1>2. PICK order : order = IF Ex!Created = {} THEN call.at ELSE Ex!Max(Ex!Created)
  OBVIOUS
<1>3. PICK result \in Ex!Result(k, order) : Ex!Ends(result, order, call.lost, Ex!Unread(k))
  BY <1>2, Zenon DEF Ex!Completes
<1>4. Explained(result, order, Ex!Unread(k))
  BY <1>1, <1>2, <1>3, PlacedIsExplained, OneOrderIsExplained, OthersAreExplained
<1>5. PICK unread : unread = Ex!Unread(k)
  OBVIOUS
<1>6. Explained(result, order, unread) /\ Ex!Ends(result, order, call.lost, unread)
  BY <1>3, <1>4, <1>5, Zenon
<1>7. /\ call' = Ex!Idle /\ reply'.op = call.op /\ reply'.result = result /\ reply'.at = order
      /\ reply'.on = call.on /\ reply'.lost = call.lost /\ reply'.unread = unread
      /\ reply'.made = call.made + Ex!Cardinality(Ex!Created)
  BY <1>6 DEF Ex!Ends
<1>8. HonestAnswer'
  BY <1>1, <1>6, <1>7 DEF Explained, HonestAnswer, Ex!HonestAnswer, Over, SaysInBody
<1>9. NoUnexplainedOrder'
  BY <1>6, <1>7 DEF Explained, NoUnexplainedOrder, Ex!NoUnexplainedOrder, Made
<1>10. ReplyHolds'
  BY <1>6, <1>7, <1>8, <1>9 DEF ReplyHolds, Explained
<1>11. BookTypes'
  <2>1. k \in Ex!Outcome
    BY DEF Ex!Outcome
  <2> QED
    BY <1>1, <2>1, EffectOnBook DEF AdapterInv, BookTypes
<1> QED
  BY <1>7, <1>10, <1>11, EndedInv

LEMMA AdapterStepInv ==
  ASSUME TicketsAssumption PROVE AdapterInv /\ [Ex!Next]_(Ex!exVars) => AdapterInv'
<1> SUFFICES ASSUME AdapterInv, [Ex!Next]_(Ex!exVars) PROVE AdapterInv'
  OBVIOUS
<1> USE DEF AdapterInv, BookTypes, CallTypes, AsksToPlace, AboutOrder, AsksToCancel, AsksForOrder,
            LiveAreListed, Asks
<1>1. ASSUME NEW v \in DOMAIN Ex!Raises, Ex!Create(v) PROVE AdapterInv'
  <2>1. venue = "none" /\ venue' = v /\ v \in Venues /\ UNCHANGED <<call, exchBook, reply>>
    BY <1>1 DEF Ex!Create, Ex!Raises, Venues
  <2>2. call.op = "idle" /\ venue \notin Venues
    BY <2>1 DEF Venues
  <2>3. ReplyHolds'
    BY <2>1 DEF ReplyHolds, HonestAnswer, Ex!HonestAnswer, NoUnexplainedOrder,
      Ex!NoUnexplainedOrder, Ex!Working, Ex!In
  <2>4. \A t \in Ticket : exchBook[t] # "cancelling"
    BY <2>1
  <2> QED
    BY <2>1, <2>2, <2>3, <2>4
<1>2. ASSUME NEW t \in Ticket, Ex!Fills(t) PROVE AdapterInv'
  <2>1. /\ UNCHANGED <<venue, call, reply>>
        /\ exchBook' \in [Ticket -> {"none", "live", "cancelling", "cancelled", "filled"}]
        /\ \A x \in Ticket : /\ exchBook'[x] \in {"live", "cancelling"} => exchBook'[x] = exchBook[x]
                             /\ exchBook'[x] = "none" => exchBook[x] = "none"
                             /\ exchBook[x] = "filled" => exchBook'[x] = "filled"
    BY <1>2 DEF Ex!Fills
  <2>2. ReplyHolds'
    BY <2>1 DEF ReplyHolds, HonestAnswer, Ex!HonestAnswer, NoUnexplainedOrder,
      Ex!NoUnexplainedOrder, Ex!Working, Ex!In
  <2>3. BookTypes'
    BY <2>1
  <2>4. AboutOrder' /\ LiveAreListed'
    BY <2>1
  <2> QED
    BY <2>1, <2>2, <2>3, <2>4
<1>3. UNCHANGED <<venue, exchBook, call, reply>> => AdapterInv'
  BY DEF ReplyHolds, HonestAnswer, Ex!HonestAnswer, NoUnexplainedOrder, Ex!NoUnexplainedOrder,
      Ex!Working, Ex!In
<1>4. Ex!ClockMoves \/ UNCHANGED Ex!exVars => UNCHANGED <<venue, exchBook, call, reply>>
  BY DEF Ex!ClockMoves, Ex!exVars
<1>5. ASSUME NEW k \in Ex!Outcome, Ex!Completes(k) PROVE AdapterInv'
  <2>1. k \in Ex!Answer
    BY <1>5 DEF Ex!Completes
  <2> HIDE DEF AdapterInv
  <2> QED
    BY <1>5, <2>1, CompletedInv
<1> HIDE DEF AdapterInv
<1> QED
  BY <1>1, <1>2, <1>3, <1>4, <1>5, ReadBeginsInv, OrdersBeginInv, RetriedInv, FailedInv,
    ContinuedInv, UnauthenticatedInv DEF Ex!Next

(* ExchangeAdapter: what a call reports as over is over, what it reports   *)
(* as filled is filled and a cancel_all that returns leaves nothing live   *)
(* that was open, however requests are refused, lost, retried and sent     *)
(* again after the clock; but for the refusals in a body that Bybit, OKX   *)
(* and Hyperliquid send and their adapters do not read.                    *)
THEOREM AnswersAreHonest ==
  ASSUME TicketsAssumption PROVE Ex!Spec => []HonestAnswer
<1>1. AdapterInv => HonestAnswer
  BY DEF AdapterInv, ReplyHolds
<1> QED
  BY <1>1, AdapterInitInv, AdapterStepInv, PTL DEF Ex!Spec

(* ExchangeAdapter: place_order makes the order it reports and no other,   *)
(* but for the orders of requests whose answer was lost, and none for a    *)
(* refusal it does not read, through every retry of RetryPolicy and every  *)
(* resend of _signed_request.                                              *)
THEOREM PlacedOnce ==
  ASSUME TicketsAssumption PROVE Ex!Spec => []NoUnexplainedOrder
<1>1. AdapterInv => NoUnexplainedOrder
  BY DEF AdapterInv, ReplyHolds
<1> QED
  BY <1>1, AdapterInitInv, AdapterStepInv, PTL DEF Ex!Spec

-----------------------------------------------------------------------------
(* NotificationQueue and the service that drains it.  The invariant is the *)
(* one of the RetryWorker, with the notifications not yet created, and for *)
(* the metrics: what the queue has counted and the service has not is what *)
(* calls of process have settled and not yet returned.                     *)

LEMMA ItemsJoined ==
  ASSUME NEW S, NEW s \in Seq(S), NEW t \in Seq(S), Once(s), Once(t), Items(s) \cap Items(t) = {}
  PROVE  s \o t \in Seq(S) /\ Once(s \o t) /\ Items(s \o t) = Items(s) \cup Items(t)
<1> DEFINE u == s \o t
<1>1. /\ u \in Seq(S) /\ Len(u) = Len(s) + Len(t) /\ Len(s) \in Nat /\ Len(t) \in Nat
      /\ \A n \in 1 .. Len(s) + Len(t) : u[n] = IF n <= Len(s) THEN s[n] ELSE t[n - Len(s)]
  BY ConcatProperties
<1> HIDE DEF u
<1>2. \A n \in 1 .. Len(u) :
        \/ n \in 1 .. Len(s) /\ u[n] = s[n]
        \/ n > Len(s) /\ n - Len(s) \in 1 .. Len(t) /\ u[n] = t[n - Len(s)]
  BY <1>1
<1>3. /\ \A n \in 1 .. Len(s) : n \in 1 .. Len(u) /\ u[n] = s[n]
      /\ \A n \in 1 .. Len(t) : n + Len(s) \in 1 .. Len(u) /\ u[n + Len(s)] = t[n]
  <2>1. ASSUME NEW n \in 1 .. Len(s) PROVE n \in 1 .. Len(u) /\ u[n] = s[n]
    BY <1>1
  <2>2. ASSUME NEW n \in 1 .. Len(t) PROVE n + Len(s) \in 1 .. Len(u) /\ u[n + Len(s)] = t[n]
    <3>1. n + Len(s) \in 1 .. Len(u) /\ ~(n + Len(s) <= Len(s)) /\ (n + Len(s)) - Len(s) = n
      BY <1>1
    <3> QED
      BY <1>1, <3>1
  <2> QED
    BY <2>1, <2>2
<1>4. Items(u) = Items(s) \cup Items(t)
  <2>1. \A x \in Items(s) \cup Items(t) : x \in Items(u)
    BY <1>3 DEF Items
  <2>2. \A x \in Items(u) : x \in Items(s) \cup Items(t)
    BY <1>2 DEF Items
  <2> QED
    BY <2>1, <2>2
<1>5. ASSUME NEW m \in 1 .. Len(u), NEW n \in 1 .. Len(u), u[m] = u[n] PROVE m = n
  <2>1. CASE m \in 1 .. Len(s) /\ u[m] = s[m] /\ n \in 1 .. Len(s) /\ u[n] = s[n]
    BY <1>5, <2>1 DEF Once
  <2>2. CASE /\ m - Len(s) \in 1 .. Len(t) /\ u[m] = t[m - Len(s)]
             /\ n - Len(s) \in 1 .. Len(t) /\ u[n] = t[n - Len(s)]
    <3>1. m - Len(s) = n - Len(s)
      BY <1>5, <2>2 DEF Once
    <3> QED
      BY <1>1, <3>1
  <2>3. CASE /\ m - Len(s) \in 1 .. Len(t) /\ u[m] = t[m - Len(s)]
             /\ n \in 1 .. Len(s) /\ u[n] = s[n]
    <3>1. u[m] \in Items(t) /\ u[n] \in Items(s)
      BY <2>3 DEF Items
    <3> QED
      BY <1>5, <3>1
  <2>4. CASE /\ n - Len(s) \in 1 .. Len(t) /\ u[n] = t[n - Len(s)]
             /\ m \in 1 .. Len(s) /\ u[m] = s[m]
    <3>1. u[n] \in Items(t) /\ u[m] \in Items(s)
      BY <2>4 DEF Items
    <3> QED
      BY <1>5, <3>1
  <2> QED
    BY <1>2, <2>1, <2>2, <2>3, <2>4
<1> QED
  BY <1>1, <1>4, <1>5 DEF Once, u

(* The order of a set's members in a sequence is the library's choice.     *)
LEMMA ListedOnce ==
  ASSUME NEW S, NEW E, E \subseteq S, IsFiniteSet(E)
  PROVE  LET s == Note!SetToSeq(E) IN s \in Seq(S) /\ Once(s) /\ Items(s) = E
<1> DEFINE s == Note!SetToSeq(E)
           N == Cardinality(E)
           Lists == {f \in [1 .. N -> E] : \A a, b \in DOMAIN f : f[a] = f[b] => a = b}
<1>1. N \in Nat /\ ExistsBijection(1 .. N, E)
  BY FS_CardinalityType
<1>2. PICK f \in [1 .. N -> E] : \A a, b \in DOMAIN f : f[a] = f[b] => a = b
  BY <1>1 DEF ExistsBijection, Bijection, Injection, IsInjective
<1>3. s = CHOOSE g \in [1 .. N -> E] : \A a, b \in DOMAIN g : g[a] = g[b] => a = b
  BY DEF Note!SetToSeq, Note!IsInjective, Note!Cardinality, Cardinality
<1>4. s \in [1 .. N -> E] /\ \A a, b \in DOMAIN s : s[a] = s[b] => a = b
  BY <1>2, <1>3
<1> HIDE DEF s, N
<1>5. s \in Seq(S) /\ Len(s) = N /\ DOMAIN s = 1 .. N
  BY <1>1, <1>4
<1>6. Once(s)
  BY <1>4, <1>5 DEF Once
<1>7. Items(s) = E
  <2>1. IsFiniteSet(1 .. N) /\ Cardinality(1 .. N) = N
    BY <1>1, FS_Interval
  <2>2. s \in Injection(1 .. N, E)
    BY <1>4 DEF Injection, IsInjective
  <2>3. s \in Surjection(1 .. N, E)
    BY <2>1, <2>2, FS_Injection DEF N
  <2> QED
    BY <1>4, <1>5, <2>3 DEF Surjection, Items
<1> QED
  BY <1>5, <1>6, <1>7 DEF s

NoteOutcome == {"new", "waiting", "success", "stubbed", "unsent", "failed", "lost"}

NoteTypes ==
  /\ notes \in [Channel -> Nat]
  /\ pending \in Seq(Note!Note) /\ batch \in [Worker -> Seq(Note!Note)]
  /\ attempts \in [Note!Note -> Nat] /\ delivered \in [Note!Note -> Nat]
  /\ verdict \in [Note!Note -> NoteOutcome]

NotePlaced(n) == n \in Items(pending) \/ \E w \in Worker : n \in Items(batch[w])

NotesPlaced ==
  /\ Apart(pending, batch, Worker)
  /\ \A n \in Note!Note : verdict[n] = "waiting" <=> NotePlaced(n)

NewAhead == \A n \in Note!Note : n[2] > notes[n[1]] => verdict[n] = "new"

SendsBounded ==
  \A n \in Note!Note :
    /\ verdict[n] = "new" => attempts[n] = 0 /\ delivered[n] = 0
    /\ verdict[n] = "waiting" => attempts[n] < MaxSends /\ delivered[n] <= attempts[n]
    /\ verdict[n] = "success" => delivered[n] >= 1
    /\ delivered[n] <= MaxSends

NoteInv == NoteTypes /\ NotesPlaced /\ NewAhead /\ SendsBounded

LEMMA NoteInitInv == ASSUME MaxSends \in Nat \ {0} PROVE Note!Init => NoteInv
<1> SUFFICES ASSUME Note!Init PROVE NoteInv
  OBVIOUS
<1>1. NoteTypes
  BY DEF Note!Init, NoteTypes, NoteOutcome
<1>2. NotesPlaced
  BY NoItems DEF Note!Init, NotesPlaced, NotePlaced, Apart, HandsApart
<1>3. NewAhead /\ SendsBounded
  BY DEF Note!Init, NewAhead, SendsBounded
<1> QED
  BY <1>1, <1>2, <1>3 DEF NoteInv

LEMMA EvaluateInv ==
  ASSUME IsFiniteSet(Channel), MaxNotes \in Nat, MaxSends \in Nat \ {0},
         NoteInv, NEW hits \in SUBSET Channel, Note!Evaluate(hits)
  PROVE  NoteInv'
<1> USE DEF NoteInv
<1> DEFINE reached == hits \cap registered
           E == {<<c, notes[c] + 1>> : c \in reached}
           s == Note!SetToSeq(E)
<1>1. /\ \A c \in hits : notes[c] < MaxNotes
      /\ notes' = [c \in Channel |-> IF c \in reached THEN notes[c] + 1 ELSE notes[c]]
      /\ pending' = pending \o s
      /\ verdict' = [n \in Note!Note |-> IF n[1] \in reached /\ n[2] = notes[n[1]] + 1
                                         THEN "waiting" ELSE verdict[n]]
      /\ UNCHANGED <<attempts, delivered, batch>>
  BY DEF Note!Evaluate, Note!NotifyMulti
<1>2. \A n \in Note!Note : n[1] \in Channel /\ n[2] \in 1 .. MaxNotes /\ n = <<n[1], n[2]>>
  BY DEF Note!Note
<1>3. E \subseteq Note!Note
  <2> SUFFICES ASSUME NEW c \in reached PROVE <<c, notes[c] + 1>> \in Note!Note
    OBVIOUS
  <2>1. c \in Channel /\ notes[c] \in Nat /\ notes[c] < MaxNotes
    BY <1>1 DEF NoteTypes
  <2>2. notes[c] + 1 \in 1 .. MaxNotes
    BY <2>1
  <2> QED
    BY <2>1, <2>2 DEF Note!Note
<1>4. \A n \in Note!Note : n \in E <=> n[1] \in reached /\ n[2] = notes[n[1]] + 1
  <2> TAKE n \in Note!Note
  <2>1. ASSUME n \in E PROVE n[1] \in reached /\ n[2] = notes[n[1]] + 1
    BY <2>1
  <2>2. ASSUME n[1] \in reached, n[2] = notes[n[1]] + 1 PROVE n \in E
    BY <1>2, <2>2
  <2> QED
    BY <2>1, <2>2
<1>5. IsFiniteSet(E)
  <2>1. IsFiniteSet(1 .. MaxNotes)
    BY FS_Interval
  <2>2. IsFiniteSet(Note!Note)
    BY <2>1, FS_Product DEF Note!Note
  <2> QED
    BY <1>3, <2>2, FS_Subset
<1> HIDE DEF E
<1>6. s \in Seq(Note!Note) /\ Once(s) /\ Items(s) = E
  BY <1>3, <1>5, ListedOnce
<1> HIDE DEF s, reached
<1>7. \A n \in E : n \in Note!Note /\ verdict[n] = "new" /\ ~NotePlaced(n)
  <2> TAKE n \in E
  <2>1. n \in Note!Note /\ n[1] \in Channel /\ n[2] = notes[n[1]] + 1 /\ notes[n[1]] \in Nat
    BY <1>2, <1>3, <1>4 DEF NoteTypes
  <2>2. n[2] > notes[n[1]]
    BY <2>1
  <2>3. verdict[n] = "new"
    BY <2>1, <2>2 DEF NewAhead
  <2> QED
    BY <2>1, <2>3 DEF NotesPlaced
<1>8. /\ pending' \in Seq(Note!Note) /\ Once(pending')
      /\ Items(pending') = Items(pending) \cup E
  <2>1. Items(pending) \cap Items(s) = {}
    BY <1>6, <1>7 DEF NotePlaced
  <2> QED
    BY <1>1, <1>6, <2>1, ItemsJoined DEF NoteTypes, NotesPlaced, Apart
<1>9. /\ verdict' \in [Note!Note -> NoteOutcome]
      /\ \A n \in Note!Note : verdict'[n] = IF n \in E THEN "waiting" ELSE verdict[n]
  BY <1>1, <1>4 DEF NoteTypes, NoteOutcome
<1>10. NoteTypes'
  <2>1. notes' \in [Channel -> Nat]
    BY <1>1 DEF NoteTypes
  <2> QED
    BY <1>1, <1>8, <1>9, <2>1 DEF NoteTypes
<1>11. NotesPlaced'
  <2>1. \A n \in Note!Note : NotePlaced(n)' <=> n \in E \/ NotePlaced(n)
    BY <1>1, <1>8 DEF NotePlaced
  <2>2. Apart(pending', batch', Worker)
    BY <1>1, <1>7, <1>8 DEF NotesPlaced, Apart, NotePlaced
  <2> QED
    BY <1>9, <2>1, <2>2 DEF NotesPlaced
<1>12. NewAhead'
  <2> SUFFICES ASSUME NEW n \in Note!Note, n[2] > notes'[n[1]] PROVE verdict'[n] = "new"
    BY DEF NewAhead
  <2>1. n[1] \in Channel /\ n[2] \in Nat /\ notes[n[1]] \in Nat
    BY <1>2 DEF NoteTypes
  <2>2. notes'[n[1]] = IF n[1] \in reached THEN notes[n[1]] + 1 ELSE notes[n[1]]
    BY <1>1, <2>1
  <2>3. n[2] > notes[n[1]] /\ n \notin E
    BY <1>4, <2>1, <2>2
  <2> QED
    BY <1>9, <2>3 DEF NewAhead
<1>13. SendsBounded'
  BY <1>1, <1>7, <1>9 DEF SendsBounded
<1> QED
  BY <1>10, <1>11, <1>12, <1>13

LEMMA ProcessInv ==
  ASSUME NoteInv, NEW w \in Worker, Note!Process(w) PROVE NoteInv'
<1> USE DEF NoteInv
<1>1. /\ batch[w] = <<>> /\ pending' = <<>> /\ batch' = [batch EXCEPT ![w] = pending]
      /\ UNCHANGED <<notes, attempts, delivered, verdict>>
  BY DEF Note!Process
<1>2. /\ batch' \in [Worker -> Seq(Note!Note)] /\ batch'[w] = pending
      /\ \A v \in Worker : v # w => batch'[v] = batch[v]
  BY <1>1 DEF NoteTypes
<1>3. Items(pending') = {} /\ Once(pending') /\ Items(batch[w]) = {}
  BY <1>1, NoItems
<1>4. NoteTypes' /\ NewAhead' /\ SendsBounded'
  BY <1>1, <1>2 DEF NoteTypes, NewAhead, SendsBounded
<1>5. Apart(pending', batch', Worker)
  <2>1. \A v \in Worker : Once(batch'[v])
    BY <1>2 DEF NotesPlaced, Apart, HandsApart
  <2>2. ASSUME NEW u \in Worker, NEW v \in Worker, u # v
        PROVE  Items(batch'[u]) \cap Items(batch'[v]) = {}
    BY <1>2, <2>2 DEF NotesPlaced, Apart, HandsApart
  <2> QED
    BY <1>3, <2>1, <2>2 DEF Apart, HandsApart
<1>6. \A n \in Note!Note : NotePlaced(n)' <=> NotePlaced(n)
  BY <1>2, <1>3 DEF NotePlaced
<1>7. NotesPlaced'
  BY <1>1, <1>5, <1>6 DEF NotesPlaced
<1> QED
  BY <1>4, <1>7

(* A call of process has handled the first of its notifications. *)
LEMMA NoteHandled ==
  ASSUME NoteTypes, NotesPlaced, NEW w \in Worker, batch[w] # <<>>,
         batch' = [batch EXCEPT ![w] = Tail(batch[w])]
  PROVE  LET n == Head(batch[w]) IN
         /\ n \in Note!Note /\ verdict[n] = "waiting" /\ n \notin Items(pending)
         /\ batch' \in [Worker -> Seq(Note!Note)]
         /\ HandedOver(batch', batch, Worker, n)
<1> DEFINE n == Head(batch[w])
<1>1. batch \in [Worker -> Seq(Note!Note)] /\ HandsApart(batch, Worker)
  BY DEF NoteTypes, NotesPlaced, Apart
<1>2. /\ n \in Note!Note /\ n \in Items(batch[w]) /\ batch' \in [Worker -> Seq(Note!Note)]
      /\ HandedOver(batch', batch, Worker, n)
  BY <1>1, HeadLeaves, ZenonT(60)
<1> HIDE DEF n
<1>3. verdict[n] = "waiting" /\ n \notin Items(pending)
  BY <1>2 DEF NotesPlaced, NotePlaced, Apart
<1> QED
  BY <1>2, <1>3 DEF n

(* It is settled: in no place any more, and not waiting. *)
LEMMA SettledLeaves ==
  ASSUME NoteTypes, NotesPlaced, NEW w \in Worker, batch[w] # <<>>, UNCHANGED pending,
         batch' = [batch EXCEPT ![w] = Tail(batch[w])],
         NEW how \in NoteOutcome \ {"waiting"},
         verdict' = [verdict EXCEPT ![Head(batch[w])] = how]
  PROVE  /\ NotesPlaced'
         /\ batch' \in [Worker -> Seq(Note!Note)] /\ verdict' \in [Note!Note -> NoteOutcome]
<1> DEFINE n == Head(batch[w])
<1>1. /\ n \in Note!Note /\ n \notin Items(pending)
      /\ batch' \in [Worker -> Seq(Note!Note)]
      /\ HandedOver(batch', batch, Worker, n)
  BY NoteHandled
<1>2. verdict' = [verdict EXCEPT ![n] = how] /\ verdict \in [Note!Note -> NoteOutcome]
  BY DEF NoteTypes
<1> HIDE DEF n
<1>3. /\ verdict' \in [Note!Note -> NoteOutcome] /\ verdict'[n] # "waiting"
      /\ \A m \in Note!Note : m # n => verdict'[m] = verdict[m]
  BY <1>1, <1>2
<1>4. Apart(pending', batch', Worker)
  <2>1. Apart(pending, batch, Worker)
    BY DEF NotesPlaced
  <2> QED
    BY <1>1, <2>1 DEF Apart, HandsApart, HandedOver
<1>5. ASSUME NEW m \in Note!Note PROVE verdict'[m] = "waiting" <=> NotePlaced(m)'
  <2>1. CASE m = n
    BY <1>1, <1>3, <2>1 DEF NotePlaced, HandedOver
  <2>2. CASE m # n
    <3>1. NotePlaced(m)' <=> NotePlaced(m)
      BY <1>1, <2>2 DEF NotePlaced, HandedOver
    <3> QED
      BY <1>3, <2>2, <3>1 DEF NotesPlaced
  <2> QED
    BY <2>1, <2>2
<1> QED
  BY <1>1, <1>3, <1>4, <1>5 DEF NotesPlaced

LEMMA SendSucceedsInv ==
  ASSUME MaxSends \in Nat \ {0}, NoteInv, NEW w \in Worker, Note!SendSucceeds(w)
  PROVE  NoteInv'
<1> DEFINE n == Head(batch[w])
<1> USE DEF NoteInv
<1> DEFINE how == IF n[1] \in working THEN "success" ELSE "stubbed"
           once == IF n[1] \in working THEN 1 ELSE 0
<1>1. delivered \in [Note!Note -> Nat]
  BY DEF NoteTypes
<1>2. /\ batch[w] # <<>>
      /\ batch' = [batch EXCEPT ![w] = Tail(batch[w])]
      /\ verdict' = [verdict EXCEPT ![n] = how]
      /\ UNCHANGED <<notes, pending, attempts>>
  BY DEF Note!SendSucceeds, Note!Settled
<1>3. /\ NotesPlaced' /\ batch' \in [Worker -> Seq(Note!Note)]
      /\ verdict' \in [Note!Note -> NoteOutcome]
  <2>1. how \in NoteOutcome \ {"waiting"}
    BY DEF NoteOutcome
  <2> HIDE DEF how
  <2> QED
    BY <1>2, <2>1, SettledLeaves
<1>4. n \in Note!Note /\ verdict[n] = "waiting"
  BY <1>2, NoteHandled
<1>5. delivered' = [delivered EXCEPT ![n] = delivered[n] + once]
  <2>1. CASE n[1] \in working
    BY <2>1 DEF Note!SendSucceeds, Note!Settled
  <2>2. CASE n[1] \notin working
    <3>1. delivered' = delivered
      BY <2>2 DEF Note!SendSucceeds, Note!Settled
    <3>2. delivered[n] + once = delivered[n]
      BY <1>1, <1>4, <2>2
    <3> QED
      BY <1>1, <1>4, <3>1, <3>2
  <2> QED
    BY <2>1, <2>2
<1>6. (once = 0 \/ once = 1) /\ (how = "success" => once = 1) /\ how \in {"success", "stubbed"}
  OBVIOUS
<1> HIDE DEF n, how, once
<1>7. attempts[n] \in Nat /\ delivered[n] \in Nat /\ attempts[n] < MaxSends /\ delivered[n] <= attempts[n]
  BY <1>4 DEF NoteTypes, SendsBounded
<1>8. /\ delivered' \in [Note!Note -> Nat] /\ delivered'[n] = delivered[n] + once
      /\ \A m \in Note!Note : m # n => delivered'[m] = delivered[m]
  BY <1>4, <1>7, <1>5, <1>6 DEF NoteTypes
<1>9. verdict'[n] = how /\ \A m \in Note!Note : m # n => verdict'[m] = verdict[m]
  BY <1>2, <1>4 DEF NoteTypes
<1>10. NoteTypes'
  BY <1>2, <1>3, <1>8 DEF NoteTypes
<1>11. NewAhead'
  BY <1>2, <1>4, <1>9, <1>6 DEF NewAhead
<1>12. SendsBounded'
  <2>1. (how = "success" => delivered'[n] >= 1) /\ delivered'[n] <= MaxSends
    BY <1>7, <1>8, <1>6
  <2> QED
    BY <1>2, <1>8, <1>9, <1>6, <2>1 DEF SendsBounded
<1> QED
  BY <1>3, <1>10, <1>11, <1>12

LEMMA NoSenderInv ==
  ASSUME MaxSends \in Nat \ {0}, NoteInv, NEW w \in Worker, Note!NoSender(w)
  PROVE  NoteInv'
<1> DEFINE n == Head(batch[w])
<1> USE DEF NoteInv
<1>1. /\ batch[w] # <<>> /\ batch' = [batch EXCEPT ![w] = Tail(batch[w])]
      /\ verdict' = [verdict EXCEPT ![n] = "unsent"]
      /\ UNCHANGED <<notes, pending, attempts, delivered>>
  BY DEF Note!NoSender
<1>2. /\ NotesPlaced' /\ batch' \in [Worker -> Seq(Note!Note)]
      /\ verdict' \in [Note!Note -> NoteOutcome]
  BY <1>1, SettledLeaves DEF NoteOutcome
<1>3. n \in Note!Note /\ verdict[n] = "waiting"
  BY <1>1, NoteHandled
<1> HIDE DEF n
<1>4. verdict'[n] = "unsent" /\ \A m \in Note!Note : m # n => verdict'[m] = verdict[m]
  BY <1>1, <1>3 DEF NoteTypes
<1>5. NoteTypes' /\ NewAhead'
  BY <1>1, <1>2, <1>3, <1>4 DEF NoteTypes, NewAhead
<1>6. SendsBounded'
  BY <1>1, <1>4 DEF SendsBounded
<1> QED
  BY <1>2, <1>5, <1>6

LEMMA SendFailsInv ==
  ASSUME MaxSends \in Nat \ {0}, NoteInv, NEW w \in Worker, Note!SendFails(w)
  PROVE  NoteInv'
<1> DEFINE n == Head(batch[w])
<1> USE DEF NoteInv
<1>1. /\ batch[w] # <<>> /\ batch' = [batch EXCEPT ![w] = Tail(batch[w])]
      /\ attempts' = [attempts EXCEPT ![n] = attempts[n] + 1]
      /\ UNCHANGED notes
  BY DEF Note!SendFails, Note!Settled, Note!RetryCounted
<1>2. PICK through \in {0, 1} : delivered' = [delivered EXCEPT ![n] = delivered[n] + through]
  BY DEF Note!SendFails
<1>3. \/ /\ attempts[n] + 1 < MaxSends /\ pending' = Append(pending, n) /\ UNCHANGED verdict
      \/ /\ attempts[n] + 1 >= MaxSends /\ UNCHANGED pending
         /\ verdict' = [verdict EXCEPT ![n] = "failed"]
  BY DEF Note!SendFails, Note!Settled
<1>4. /\ n \in Note!Note /\ verdict[n] = "waiting" /\ n \notin Items(pending)
      /\ batch' \in [Worker -> Seq(Note!Note)] /\ HandedOver(batch', batch, Worker, n)
  BY <1>1, NoteHandled
<1>5. ASSUME UNCHANGED pending, verdict' = [verdict EXCEPT ![n] = "failed"]
      PROVE  NotesPlaced' /\ pending' \in Seq(Note!Note) /\ verdict' \in [Note!Note -> NoteOutcome]
  <2>1. NotesPlaced' /\ verdict' \in [Note!Note -> NoteOutcome]
    BY <1>1, <1>5, SettledLeaves DEF NoteOutcome
  <2> QED
    BY <1>5, <2>1 DEF NoteTypes
<1> HIDE DEF n
<1>6. ASSUME pending' = Append(pending, n), UNCHANGED verdict
      PROVE  NotesPlaced' /\ pending' \in Seq(Note!Note) /\ verdict' \in [Note!Note -> NoteOutcome]
  <2>1. /\ pending' \in Seq(Note!Note) /\ Once(pending')
        /\ Items(pending') = Items(pending) \cup {n}
    BY <1>4, <1>6, ItemsAppended DEF NoteTypes, NotesPlaced, Apart
  <2>2. Apart(pending', batch', Worker)
    <3>1. Apart(pending, batch, Worker)
      BY DEF NotesPlaced
    <3>2. \A v \in Worker : Items(batch'[v]) \cap Items(pending') = {}
      BY <1>4, <2>1, <3>1 DEF Apart, HandedOver
    <3>3. HandsApart(batch', Worker)
      BY <1>4, <3>1 DEF Apart, HandsApart, HandedOver
    <3> QED
      BY <2>1, <3>2, <3>3 DEF Apart
  <2>3. verdict' = verdict
    BY <1>6
  <2>4. ASSUME NEW m \in Note!Note PROVE verdict'[m] = "waiting" <=> NotePlaced(m)'
    <3>1. CASE m = n
      <4>1. NotePlaced(m)'
        BY <2>1, <3>1 DEF NotePlaced
      <4> QED
        BY <1>4, <2>3, <3>1, <4>1
    <3>2. CASE m # n
      <4>1. NotePlaced(m)' <=> NotePlaced(m)
        BY <1>4, <2>1, <3>2 DEF NotePlaced, HandedOver
      <4>2. verdict[m] = "waiting" <=> NotePlaced(m)
        BY DEF NotesPlaced
      <4> QED
        BY <2>3, <4>1, <4>2
    <3> QED
      BY <3>1, <3>2
  <2> QED
    BY <2>1, <2>2, <2>3, <2>4 DEF NotesPlaced, NoteTypes
<1>7. NotesPlaced' /\ pending' \in Seq(Note!Note) /\ verdict' \in [Note!Note -> NoteOutcome]
  BY <1>3, <1>5, <1>6
<1>8. /\ \/ attempts[n] + 1 < MaxSends /\ verdict'[n] = "waiting"
         \/ verdict'[n] = "failed"
      /\ \A m \in Note!Note : m # n => verdict'[m] = verdict[m]
  BY <1>3, <1>4 DEF NoteTypes
<1>9. attempts[n] \in Nat /\ delivered[n] \in Nat /\ attempts[n] < MaxSends /\ delivered[n] <= attempts[n]
  BY <1>4 DEF NoteTypes, SendsBounded
<1>10. /\ attempts' \in [Note!Note -> Nat] /\ attempts'[n] = attempts[n] + 1
       /\ \A m \in Note!Note : m # n => attempts'[m] = attempts[m]
  BY <1>1, <1>4, <1>9 DEF NoteTypes
<1>11. /\ delivered' \in [Note!Note -> Nat] /\ delivered'[n] = delivered[n] + through
       /\ \A m \in Note!Note : m # n => delivered'[m] = delivered[m]
  BY <1>2, <1>4, <1>9 DEF NoteTypes
<1>12. NoteTypes'
  BY <1>1, <1>4, <1>7, <1>10, <1>11 DEF NoteTypes
<1>13. NewAhead'
  BY <1>1, <1>4, <1>8 DEF NewAhead
<1>14. SendsBounded'
  <2>1. delivered'[n] <= attempts'[n] /\ delivered'[n] <= MaxSends
    BY <1>9, <1>10, <1>11
  <2> QED
    BY <1>8, <1>10, <1>11, <2>1 DEF SendsBounded
<1> QED
  BY <1>7, <1>12, <1>13, <1>14

LEMMA InterruptedInv ==
  ASSUME NoteInv, NEW w \in Worker, Note!Interrupted(w) PROVE NoteInv'
<1> USE DEF NoteInv
<1>1. /\ verdict' = [n \in Note!Note |-> IF n \in Items(batch[w]) THEN "lost" ELSE verdict[n]]
      /\ batch' = [batch EXCEPT ![w] = <<>>]
      /\ UNCHANGED <<notes, pending, attempts, delivered>>
  <2>1. batch[w] \in Seq(Note!Note)
    BY DEF NoteTypes
  <2>2. Note!ToSet(batch[w]) = Items(batch[w])
    BY <2>1 DEF Note!ToSet, Items
  <2> QED
    BY <2>2 DEF Note!Interrupted
<1>2. /\ batch' \in [Worker -> Seq(Note!Note)] /\ Items(batch'[w]) = {} /\ Once(batch'[w])
      /\ \A v \in Worker : v # w => batch'[v] = batch[v]
  BY <1>1, NoItems DEF NoteTypes
<1>3. /\ verdict' \in [Note!Note -> NoteOutcome]
      /\ \A n \in Note!Note : n \in Items(batch[w]) => verdict'[n] = "lost"
      /\ \A n \in Note!Note : n \notin Items(batch[w]) => verdict'[n] = verdict[n]
  BY <1>1 DEF NoteTypes, NoteOutcome
<1>4. \A n \in Note!Note : n \in Items(batch[w]) => verdict[n] = "waiting"
  BY DEF NotesPlaced, NotePlaced
<1>5. NoteTypes' /\ NewAhead'
  BY <1>1, <1>2, <1>3, <1>4 DEF NoteTypes, NewAhead
<1>6. SendsBounded'
  BY <1>1, <1>3 DEF SendsBounded
<1>7. Apart(pending', batch', Worker)
  <2>1. Apart(pending, batch, Worker)
    BY DEF NotesPlaced
  <2>2. ASSUME NEW v \in Worker PROVE Once(batch'[v]) /\ Items(batch'[v]) \subseteq Items(batch[v])
    <3>1. Once(batch[v])
      BY <2>1 DEF Apart, HandsApart
    <3>2. v = w \/ batch'[v] = batch[v]
      BY <1>2
    <3> QED
      BY <1>2, <3>1, <3>2
  <2>3. Once(pending') /\ Items(pending') = Items(pending)
    BY <1>1, <2>1 DEF Apart
  <2> QED
    BY <2>1, <2>2, <2>3 DEF Apart, HandsApart
<1>8. ASSUME NEW n \in Note!Note PROVE verdict'[n] = "waiting" <=> NotePlaced(n)'
  <2>1. CASE n \in Items(batch[w])
    <3>1. n \notin Items(pending) /\ \A v \in Worker : v # w => n \notin Items(batch[v])
      BY <2>1 DEF NotesPlaced, Apart, HandsApart
    <3> QED
      BY <1>1, <1>2, <1>3, <2>1, <3>1 DEF NotePlaced
  <2>2. CASE n \notin Items(batch[w])
    <3>1. NotePlaced(n)' <=> NotePlaced(n)
      BY <1>1, <1>2, <2>2 DEF NotePlaced
    <3> QED
      BY <1>3, <2>2, <3>1 DEF NotesPlaced
  <2> QED
    BY <2>1, <2>2
<1> QED
  BY <1>5, <1>6, <1>7, <1>8 DEF NotesPlaced

LEMMA NoteStepInv ==
  ASSUME IsFiniteSet(Channel), MaxNotes \in Nat, MaxSends \in Nat \ {0}
  PROVE  NoteInv /\ [Note!Next]_(Note!noteVars) => NoteInv'
<1> SUFFICES ASSUME NoteInv, [Note!Next]_(Note!noteVars) PROVE NoteInv'
  OBVIOUS
<1>1. CASE UNCHANGED <<notes, pending, attempts, delivered, verdict, batch>>
  BY <1>1 DEF NoteInv, NoteTypes, NotesPlaced, NotePlaced, NewAhead, SendsBounded
<1>2. CASE \E c \in Channel : (\E real \in BOOLEAN : Note!RegisterChannel(c, real))
                              \/ \E s \in {"enabled", "disabled", "absent"} : Note!SetRule(c, s)
  BY <1>1, <1>2 DEF Note!RegisterChannel, Note!SetRule
<1>3. CASE \E hits \in SUBSET Channel : Note!Evaluate(hits)
  BY <1>3, EvaluateInv
<1>4. ASSUME NEW w \in Worker, \/ Note!Process(w) \/ Note!SendSucceeds(w) \/ Note!SendFails(w)
                               \/ Note!NoSender(w) \/ Note!Interrupted(w)
      PROVE  NoteInv'
  BY <1>4, ProcessInv, SendSucceedsInv, SendFailsInv, NoSenderInv, InterruptedInv
<1>5. ASSUME NEW w \in Worker, Note!ProcessReturns(w) PROVE NoteInv'
  BY <1>1, <1>5 DEF Note!ProcessReturns
<1>6. CASE UNCHANGED Note!noteVars
  BY <1>1, <1>6 DEF Note!noteVars
<1> QED
  BY <1>2, <1>3, <1>4, <1>5, <1>6 DEF Note!Next

(* What calls of process have settled, counted as a set of pairs. *)
Units(table, P, f) == {x \in P \X Nat : 1 <= x[2] /\ x[2] <= table[x[1]][f]}

LEMMA UnitAdded ==
  ASSUME NEW P, NEW a, NEW b, NEW f, NEW w \in P, a[w][f] \in Nat, b[w][f] = a[w][f] + 1,
         \A v \in P : v # w => b[v][f] = a[v][f], IsFiniteSet(Units(a, P, f))
  PROVE  /\ IsFiniteSet(Units(b, P, f))
         /\ Cardinality(Units(b, P, f)) = Cardinality(Units(a, P, f)) + 1
<1> DEFINE A == Units(a, P, f)
           B == Units(b, P, f)
           u == <<w, a[w][f] + 1>>
<1>1. u \in B /\ u \notin A
  BY DEF Units
<1>2. ASSUME NEW x \in A PROVE x \in B
  <2>1. x \in P \X Nat /\ x[1] \in P /\ x[2] \in Nat /\ 1 <= x[2] /\ x[2] <= a[x[1]][f]
    BY DEF Units
  <2>2. x[2] <= b[x[1]][f]
    BY <2>1
  <2> QED
    BY <2>1, <2>2 DEF Units
<1>3. ASSUME NEW x \in B, x # u PROVE x \in A
  <2>1. /\ x \in P \X Nat /\ x[1] \in P /\ x[2] \in Nat /\ x = <<x[1], x[2]>>
        /\ 1 <= x[2] /\ x[2] <= b[x[1]][f]
    BY DEF Units
  <2>2. x[2] <= a[x[1]][f]
    BY <1>3, <2>1
  <2> QED
    BY <2>1, <2>2 DEF Units
<1> HIDE DEF A, B, u
<1>4. B = A \cup {u}
  BY <1>1, <1>2, <1>3
<1>5. IsFiniteSet(A)
  BY DEF A
<1>6. IsFiniteSet(B) /\ Cardinality(B) = Cardinality(A) + 1
  BY <1>1, <1>4, <1>5, FS_AddElement
<1> QED
  BY <1>6 DEF A, B

LEMMA UnitsTaken ==
  ASSUME NEW P, NEW a, NEW b, NEW f, NEW w \in P, a[w][f] \in Nat, b[w][f] = 0,
         \A v \in P : v # w => b[v][f] = a[v][f], IsFiniteSet(Units(a, P, f))
  PROVE  /\ IsFiniteSet(Units(b, P, f))
         /\ Cardinality(Units(a, P, f)) = Cardinality(Units(b, P, f)) + a[w][f]
<1> DEFINE A == Units(a, P, f)
           B == Units(b, P, f)
           U == {w} \X (1 .. a[w][f])
<1>1. ASSUME NEW x \in B PROVE x \in A /\ x \notin U
  <2>1. x \in P \X Nat /\ x[1] \in P /\ x[2] \in Nat /\ 1 <= x[2] /\ x[2] <= b[x[1]][f]
    BY DEF Units
  <2>2. x[1] # w
    BY <2>1
  <2>3. x[2] <= a[x[1]][f]
    BY <2>1, <2>2
  <2> QED
    BY <2>1, <2>2, <2>3 DEF Units
<1>2. ASSUME NEW x \in U PROVE x \in A
  <2>1. /\ x \in P \X Nat /\ x[1] = w /\ x[2] \in Nat
        /\ 1 <= x[2] /\ x[2] <= a[x[1]][f]
    OBVIOUS
  <2> QED
    BY <2>1 DEF Units
<1>3. ASSUME NEW x \in A, x \notin U PROVE x \in B
  <2>1. /\ x \in P \X Nat /\ x[1] \in P /\ x[2] \in Nat /\ x = <<x[1], x[2]>>
        /\ 1 <= x[2] /\ x[2] <= a[x[1]][f]
    BY DEF Units
  <2>2. x[1] # w
    BY <1>3, <2>1
  <2>3. x[2] <= b[x[1]][f]
    BY <2>1, <2>2
  <2> QED
    BY <2>1, <2>3 DEF Units
<1>4. IsFiniteSet(U) /\ Cardinality(U) = a[w][f]
  <2>1. IsFiniteSet({w}) /\ Cardinality({w}) = 1
    BY FS_Singleton
  <2> DEFINE k == a[w][f]
             K == 1 .. k
  <2>2. k \in Nat /\ k \in Int /\ 1 \in Int
    OBVIOUS
  <2> HIDE DEF k
  <2>3. IsFiniteSet(K) /\ Cardinality(K) = IF 1 > k THEN 0 ELSE k - 1 + 1
    BY <2>2, FS_Interval, Zenon
  <2>4. Cardinality(K) = k
    BY <2>2, <2>3
  <2> HIDE DEF K
  <2>5. IsFiniteSet({w} \X K) /\ Cardinality({w} \X K) = Cardinality({w}) * Cardinality(K)
    BY <2>1, <2>3, FS_Product, Zenon
  <2>6. IsFiniteSet({w} \X K) /\ Cardinality({w} \X K) = k
    BY <2>1, <2>2, <2>4, <2>5
  <2> QED
    BY <2>6, Zenon DEF K, k
<1> HIDE DEF A, B, U
<1>5. A = B \cup U /\ B \subseteq A /\ B \cap U = {}
  BY <1>1, <1>2, <1>3
<1>6. IsFiniteSet(A)
  BY DEF A
<1>7. IsFiniteSet(B)
  BY <1>5, <1>6, FS_Subset
<1>8. Cardinality(A) = Cardinality(B) + Cardinality(U) - Cardinality(B \cap U)
  BY <1>4, <1>5, <1>7, FS_Union
<1>9. Cardinality(B \cap U) = 0 /\ Cardinality(B) \in Nat
  BY <1>5, <1>7, FS_EmptySet, FS_CardinalityType
<1> QED
  BY <1>4, <1>7, <1>8, <1>9 DEF A, B

Counts == [sent : Nat, failed : Nat]

(* The two counters of a tally, each by itself; without a sender nothing   *)
(* is ever sent, and the queue counts nothing.                             *)
NothingSent ==
  /\ counted.queue = Note!Zero /\ counted.service.sent = 0
  /\ \A w \in Worker : tally[w].sent = 0

MetricsAgree ==
  /\ sender \in BOOLEAN
  /\ tally \in [Worker -> Counts]
  /\ counted \in [queue : Counts, service : Counts, lost : BOOLEAN]
  /\ ~sender => NothingSent
  /\ \/ ~sender
     \/ counted.lost
     \/ \A f \in {"sent", "failed"} :
          /\ IsFiniteSet(Units(tally, Worker, f))
          /\ counted.queue[f] = counted.service[f] + Cardinality(Units(tally, Worker, f))

LEMMA MetricsInitInv == Note!Init => MetricsAgree
<1> SUFFICES ASSUME Note!Init PROVE MetricsAgree
  OBVIOUS
<1>1. /\ sender \in BOOLEAN /\ tally = [w \in Worker |-> Note!Zero]
      /\ counted = [queue |-> Note!Zero, service |-> Note!Zero, lost |-> FALSE]
  BY DEF Note!Init
<1>2. Note!Zero \in Counts
  BY DEF Note!Zero, Counts
<1>3. \A f \in {"sent", "failed"} : Note!Zero[f] = 0
  BY DEF Note!Zero
<1>4. ASSUME NEW f \in {"sent", "failed"} PROVE Units(tally, Worker, f) = {}
  <2>1. \A w \in Worker : tally[w][f] = 0
    BY <1>1, <1>3
  <2> QED
    BY <2>1 DEF Units
<1>5. \A f \in {"sent", "failed"} :
        /\ IsFiniteSet(Units(tally, Worker, f))
        /\ counted.queue[f] = counted.service[f] + Cardinality(Units(tally, Worker, f))
  BY <1>1, <1>3, <1>4, FS_EmptySet
<1>6. NothingSent
  BY <1>1 DEF NothingSent, Note!Zero
<1> QED
  BY <1>1, <1>2, <1>5, <1>6 DEF MetricsAgree

LEMMA SettledAgrees ==
  ASSUME MetricsAgree, sender, UNCHANGED sender, NEW w \in Worker, NEW n, NEW how, NEW f \in {"sent", "failed"},
         Note!Settled(w, n, how, f)
  PROVE  MetricsAgree'
<1>1. /\ tally \in [Worker -> Counts]
      /\ counted \in [queue : Counts, service : Counts, lost : BOOLEAN]
      /\ tally' = [tally EXCEPT ![w][f] = tally[w][f] + 1]
      /\ counted' = [counted EXCEPT !.queue[f] = counted.queue[f] + 1]
  BY DEF MetricsAgree, Note!Settled
<1>2. \A g \in {"sent", "failed"} : tally[w][g] \in Nat /\ counted.queue[g] \in Nat
                                    /\ counted.service[g] \in Nat
  BY <1>1 DEF Counts
<1>3. /\ tally' \in [Worker -> Counts]
      /\ counted' \in [queue : Counts, service : Counts, lost : BOOLEAN]
  BY <1>1, <1>2 DEF Counts
<1>4. /\ tally'[w][f] = tally[w][f] + 1
      /\ \A g \in {"sent", "failed"} : g # f => tally'[w][g] = tally[w][g]
      /\ \A v \in Worker : v # w => tally'[v] = tally[v]
  BY <1>1 DEF Counts
<1>5. /\ counted'.lost = counted.lost /\ counted'.service = counted.service
      /\ counted'.queue[f] = counted.queue[f] + 1
      /\ \A g \in {"sent", "failed"} : g # f => counted'.queue[g] = counted.queue[g]
  BY <1>1 DEF Counts
<1>6. ASSUME ~counted.lost, NEW g \in {"sent", "failed"}
      PROVE  /\ IsFiniteSet(Units(tally', Worker, g))
             /\ counted'.queue[g] = counted'.service[g] + Cardinality(Units(tally', Worker, g))
  <2>1. /\ IsFiniteSet(Units(tally, Worker, g))
        /\ counted.queue[g] = counted.service[g] + Cardinality(Units(tally, Worker, g))
    BY <1>6 DEF MetricsAgree
  <2>2. CASE g = f
    <3>1. tally[w][f] \in Nat /\ \A v \in Worker : v # w => tally'[v][f] = tally[v][f]
      BY <1>2, <1>4
    <3>2. /\ IsFiniteSet(Units(tally', Worker, f))
          /\ Cardinality(Units(tally', Worker, f)) = Cardinality(Units(tally, Worker, f)) + 1
      BY <1>4, <2>1, <2>2, <3>1, UnitAdded
    <3>3. Cardinality(Units(tally, Worker, f)) \in Nat
      BY <2>1, <2>2, FS_CardinalityType
    <3> QED
      BY <1>2, <1>5, <2>1, <2>2, <3>2, <3>3
  <2>3. CASE g # f
    <3>1. \A v \in Worker : tally'[v][g] = tally[v][g]
      BY <1>4, <2>3
    <3>2. Units(tally', Worker, g) = Units(tally, Worker, g)
      BY <3>1 DEF Units
    <3> QED
      BY <1>5, <2>1, <2>3, <3>2
  <2> QED
    BY <2>2, <2>3
<1> QED
  BY <1>3, <1>5, <1>6 DEF MetricsAgree

LEMMA ReturnsAgrees ==
  ASSUME MetricsAgree, NEW w \in Worker, Note!ProcessReturns(w) PROVE MetricsAgree'
<1>1. /\ tally \in [Worker -> Counts]
      /\ counted \in [queue : Counts, service : Counts, lost : BOOLEAN]
      /\ tally' = [tally EXCEPT ![w] = Note!Zero]
      /\ counted' = [counted EXCEPT !.service = Note!Plus(counted.service, tally[w])]
  BY DEF MetricsAgree, Note!ProcessReturns
<1>2. \A g \in {"sent", "failed"} : tally[w][g] \in Nat /\ counted.queue[g] \in Nat
                                    /\ counted.service[g] \in Nat
  BY <1>1 DEF Counts
<1>3. /\ Note!Plus(counted.service, tally[w]) \in Counts
      /\ \A g \in {"sent", "failed"} :
           Note!Plus(counted.service, tally[w])[g] = counted.service[g] + tally[w][g]
  BY <1>2 DEF Note!Plus, Counts
<1>4. Note!Zero \in Counts /\ \A g \in {"sent", "failed"} : Note!Zero[g] = 0
  BY DEF Note!Zero, Counts
<1>5. /\ tally' \in [Worker -> Counts]
      /\ counted' \in [queue : Counts, service : Counts, lost : BOOLEAN]
  BY <1>1, <1>3, <1>4
<1>6. /\ counted'.lost = counted.lost /\ counted'.queue = counted.queue
      /\ counted'.service = Note!Plus(counted.service, tally[w])
      /\ tally'[w] = Note!Zero /\ \A v \in Worker : v # w => tally'[v] = tally[v]
  BY <1>1
<1>7. ASSUME sender, ~counted.lost, NEW g \in {"sent", "failed"}
      PROVE  /\ IsFiniteSet(Units(tally', Worker, g))
             /\ counted'.queue[g] = counted'.service[g] + Cardinality(Units(tally', Worker, g))
  <2>1. /\ IsFiniteSet(Units(tally, Worker, g))
        /\ counted.queue[g] = counted.service[g] + Cardinality(Units(tally, Worker, g))
    BY <1>7 DEF MetricsAgree
  <2>2. /\ tally[w][g] \in Nat /\ tally'[w][g] = 0
        /\ \A v \in Worker : v # w => tally'[v][g] = tally[v][g]
    BY <1>2, <1>4, <1>6
  <2>3. /\ IsFiniteSet(Units(tally', Worker, g))
        /\ Cardinality(Units(tally, Worker, g)) = Cardinality(Units(tally', Worker, g)) + tally[w][g]
    BY <2>1, <2>2, UnitsTaken
  <2>4. Cardinality(Units(tally', Worker, g)) \in Nat
    BY <2>3, FS_CardinalityType
  <2>5. counted'.service[g] = counted.service[g] + tally[w][g]
    BY <1>3, <1>6
  <2> QED
    BY <1>2, <1>6, <2>1, <2>3, <2>4, <2>5
<1>8. ASSUME ~sender PROVE NothingSent'
  <2>1. NothingSent
    BY <1>8 DEF MetricsAgree
  <2>2. counted'.queue = Note!Zero
    BY <1>6, <2>1 DEF NothingSent
  <2>3. counted'.service.sent = 0
    BY <1>3, <1>6, <2>1 DEF NothingSent
  <2>4. \A v \in Worker : tally'[v].sent = 0
    BY <1>4, <1>6, <2>1 DEF NothingSent
  <2> QED
    BY <2>2, <2>3, <2>4 DEF NothingSent
<1>9. sender \in BOOLEAN /\ UNCHANGED sender
  BY DEF MetricsAgree, Note!ProcessReturns
<1> QED
  BY <1>5, <1>6, <1>7, <1>8, <1>9 DEF MetricsAgree

(* A failed result nobody but the service will count. *)
LEMMA UnsentAgrees ==
  ASSUME MetricsAgree, NEW w \in Worker, Note!NoSender(w) PROVE MetricsAgree'
<1>1. /\ tally \in [Worker -> Counts]
      /\ counted \in [queue : Counts, service : Counts, lost : BOOLEAN]
      /\ ~sender /\ sender \in BOOLEAN /\ NothingSent
      /\ UNCHANGED <<sender, counted>>
      /\ tally' = [tally EXCEPT ![w].failed = tally[w].failed + 1]
  BY DEF MetricsAgree, Note!NoSender
<1>2. tally[w].failed \in Nat
  BY <1>1 DEF Counts
<1>3. tally' \in [Worker -> Counts]
  BY <1>1, <1>2 DEF Counts
<1>4. \A v \in Worker : tally'[v].sent = tally[v].sent
  BY <1>1 DEF Counts
<1>5. NothingSent'
  BY <1>1, <1>4 DEF NothingSent
<1> QED
  BY <1>1, <1>3, <1>5 DEF MetricsAgree


LEMMA MetricsStepInv == MetricsAgree /\ [Note!Next]_(Note!noteVars) => MetricsAgree'
<1> SUFFICES ASSUME MetricsAgree, [Note!Next]_(Note!noteVars) PROVE MetricsAgree'
  OBVIOUS
<1>1. CASE UNCHANGED <<sender, tally, counted>>
  BY <1>1 DEF MetricsAgree, NothingSent
<1>2. CASE \E c \in Channel : (\E real \in BOOLEAN : Note!RegisterChannel(c, real))
                              \/ \E s \in {"enabled", "disabled", "absent"} : Note!SetRule(c, s)
  BY <1>1, <1>2 DEF Note!RegisterChannel, Note!SetRule
<1>3. CASE \E hits \in SUBSET Channel : Note!Evaluate(hits)
  BY <1>1, <1>3 DEF Note!Evaluate
<1>4. ASSUME NEW w \in Worker, Note!Process(w) PROVE MetricsAgree'
  BY <1>1, <1>4 DEF Note!Process
<1>5. ASSUME NEW w \in Worker, Note!SendSucceeds(w) PROVE MetricsAgree'
  <2>1. /\ sender /\ UNCHANGED sender
        /\ \/ Note!Settled(w, Head(batch[w]), "success", "sent")
           \/ Note!Settled(w, Head(batch[w]), "stubbed", "sent")
    BY <1>5 DEF Note!SendSucceeds
  <2> QED
    BY <2>1, SettledAgrees
<1>6. ASSUME NEW w \in Worker, Note!SendFails(w) PROVE MetricsAgree'
  <2>1. /\ sender /\ UNCHANGED sender
        /\ \/ UNCHANGED <<tally, counted>>
           \/ Note!Settled(w, Head(batch[w]), "failed", "failed")
    BY <1>6 DEF Note!SendFails
  <2> QED
    BY <1>1, <2>1, SettledAgrees
<1>7. ASSUME NEW w \in Worker, Note!ProcessReturns(w) PROVE MetricsAgree'
  BY <1>7, ReturnsAgrees
<1>8. ASSUME NEW w \in Worker, Note!Interrupted(w) PROVE MetricsAgree'
  <2>1. /\ sender /\ UNCHANGED sender
        /\ tally' = [tally EXCEPT ![w] = Note!Zero]
        /\ counted' = [counted EXCEPT !.lost = TRUE]
    BY <1>8 DEF Note!Interrupted
  <2>2. Note!Zero \in Counts
    BY DEF Note!Zero, Counts
  <2>3. /\ tally' \in [Worker -> Counts] /\ counted'.lost
        /\ counted' \in [queue : Counts, service : Counts, lost : BOOLEAN]
    BY <2>1, <2>2 DEF MetricsAgree
  <2> QED
    BY <2>1, <2>3 DEF MetricsAgree
<1>9. ASSUME NEW w \in Worker, Note!NoSender(w) PROVE MetricsAgree'
  BY <1>9, UnsentAgrees
<1>10. CASE UNCHANGED Note!noteVars
  BY <1>1, <1>10 DEF Note!noteVars
<1> QED
  BY <1>2, <1>3, <1>4, <1>5, <1>6, <1>7, <1>8, <1>10, <1>9 DEF Note!Next

LEMMA WaitingOnce ==
  ASSUME IsFiniteSet(Channel), MaxNotes \in Nat, NoteInv, NEW n \in Note!Note
  PROVE  Note!Waiting(n) = IF verdict[n] = "waiting" THEN 1 ELSE 0
<1>1. IsFiniteSet(1 .. MaxNotes)
  BY FS_Interval
<1>2. IsFiniteSet(Note!Note)
  BY <1>1, FS_Product DEF Note!Note
<1>3. /\ pending \in Seq(Note!Note) /\ batch \in [Worker -> Seq(Note!Note)]
      /\ Apart(pending, batch, Worker)
  BY DEF NoteInv, NoteTypes, NotesPlaced
<1>4. verdict[n] = "waiting"
        <=> n \in Items(pending) \/ \E w \in Worker : n \in Items(batch[w])
  BY DEF NoteInv, NotesPlaced, NotePlaced
<1>5. Note!Waiting(n) = PlacesOf(n, pending, batch, Worker, Note!Note)
  BY DEF Note!Waiting, Note!Cardinality, Cardinality, PlacesOf
<1>6. PlacesOf(n, pending, batch, Worker, Note!Note) =
        IF n \in Items(pending) \/ (\E w \in Worker : n \in Items(batch[w])) THEN 1 ELSE 0
  BY <1>2, <1>3, PlacesCount, Zenon
<1> QED
  BY <1>4, <1>5, <1>6

(* NotificationQueue.process and NotificationService.process_queue, for    *)
(* any number of channels, calls that overlap and tries: a notification    *)
(* waits in one place until it is settled; success over a channel that has *)
(* something to send with means it was delivered, which the stub channels  *)
(* the code makes by default do not promise; nobody gets it more than      *)
(* MaxSends times.  With no call under way the service's metrics are the   *)
(* queue's, unless a call was cancelled or the queue has nothing to send   *)
(* with: then nothing is counted as sent, and the queue counts nothing.    *)
THEOREM NotesAreAccounted ==
  ASSUME IsFiniteSet(Channel), MaxNotes \in Nat, MaxSends \in Nat \ {0}
  PROVE  Note!Spec => []NotifyAccounted
<1>1. Note!Init => NoteInv /\ MetricsAgree
  BY NoteInitInv, MetricsInitInv
<1>2. NoteInv /\ MetricsAgree /\ [Note!Next]_(Note!noteVars) => (NoteInv /\ MetricsAgree)'
  BY NoteStepInv, MetricsStepInv
<1>3. NoteInv /\ MetricsAgree => NotifyAccounted
  <2> SUFFICES ASSUME NoteInv, MetricsAgree PROVE NotifyAccounted
    OBVIOUS
  <2>1. \A n \in Note!Note : Note!Waiting(n) = IF verdict[n] = "waiting" THEN 1 ELSE 0
    BY WaitingOnce
  <2>2. \A n \in Note!Note : (verdict[n] = "success" => delivered[n] >= 1)
                             /\ delivered[n] <= MaxSends
    BY DEF NoteInv, SendsBounded
  <2>3. ASSUME \A w \in Worker : batch[w] = <<>> /\ tally[w] = Note!Zero, ~counted.lost, sender
        PROVE  counted.service = counted.queue
    <3>1. ASSUME NEW f \in {"sent", "failed"} PROVE counted.service[f] = counted.queue[f]
      <4>1. Note!Zero[f] = 0
        BY DEF Note!Zero
      <4>2. Units(tally, Worker, f) = {}
        BY <2>3, <4>1 DEF Units
      <4>3. Cardinality(Units(tally, Worker, f)) = 0
        BY <4>2, FS_EmptySet
      <4>4. counted.queue[f] = counted.service[f] + Cardinality(Units(tally, Worker, f))
        BY <2>3 DEF MetricsAgree
      <4>5. counted.service[f] \in Nat
        BY DEF MetricsAgree, Counts
      <4> QED
        BY <4>3, <4>4, <4>5
    <3>2. counted.service \in Counts /\ counted.queue \in Counts
      BY DEF MetricsAgree
    <3> QED
      BY <3>1, <3>2 DEF Counts
  <2>4. ~sender => counted.queue = Note!Zero /\ counted.service.sent = 0
    BY DEF MetricsAgree, NothingSent
  <2> QED
    BY <2>1, <2>2, <2>3, <2>4 DEF NotifyAccounted, Note!NotifyAccounted
<1> QED
  BY <1>1, <1>2, <1>3, PTL DEF Note!Spec

-----------------------------------------------------------------------------
(* The composition.  The services share no variable, so that a behaviour   *)
(* of all of them is, seen through one's variables, a behaviour of that    *)
(* one: what is proved of each holds of the system the run checks.         *)

LEMMA RetryMoves ==
  ASSUME [Next]_vars
  PROVE
    /\ Retrying \/ Heartbeat \/ UNCHANGED bgVars
    /\ Notifying \/ UNCHANGED noteVars
    /\ Calling \/ UNCHANGED exVars
<1>1. CASE Retrying \/ Heartbeat
  BY <1>1 DEF Retrying, Heartbeat, BesideBg
<1>2. CASE Queueing \/ Recovering \/ Reconciling
  BY <1>2 DEF Queueing, Recovering, Reconciling, BesideRec
<1>3. CASE Gating
  BY <1>3 DEF Gating, BesideRisk
<1>4. CASE Notifying
  BY <1>4 DEF Notifying, BesideNote
<1>5. CASE Publishing
  BY <1>5 DEF Publishing, BesideBus
<1>6. CASE Calling
  BY <1>6 DEF Calling, BesideEx
<1>7. CASE Streaming
  BY <1>7 DEF Streaming, BesideSt
<1>8. CASE Sharing
  BY <1>8 DEF Sharing, BesideHub
<1>9. CASE Billing \/ Subscribing \/ Referring
  BY <1>9 DEF Billing, Subscribing, Referring, BesideSaas
<1>10. CASE Screening \/ Analyzing
  BY <1>10 DEF Screening, Analyzing, BesideScr
<1>11. CASE Moding \/ Stepping \/ Planning
  BY <1>11 DEF Moding, Stepping, Planning, BesideSet
<1>12. CASE Listing \/ Grouping \/ Linking
  BY <1>12 DEF Listing, Grouping, Linking, BesideCat
<1>13. CASE UNCHANGED vars
  BY <1>13 DEF vars
<1> QED
  BY <1>1, <1>2, <1>3, <1>4, <1>5, <1>6, <1>7, <1>8, <1>9, <1>10, <1>11, <1>12,
         <1>13 DEF Next

LEMMA RetrySpecs == Spec => Bg!Spec /\ Note!Spec /\ Ex!Spec
<1>1. (Init => Bg!Init) /\ ([Next]_vars => [Bg!Next]_(Bg!bgVars))
  <2>1. UNCHANGED bgVars => UNCHANGED Bg!bgVars
    BY DEF bgVars, Bg!bgVars, Bg!retryVars, Bg!heartVars
  <2>2. Retrying \/ Heartbeat => Bg!Next
    BY DEF Retrying, Heartbeat, Bg!Next
  <2>3. Init => Bg!Init
    BY DEF Init
  <2> QED
    BY <2>1, <2>2, <2>3, RetryMoves
<1>2. (Init => Note!Init) /\ ([Next]_vars => [Note!Next]_(Note!noteVars))
  <2>1. UNCHANGED noteVars => UNCHANGED Note!noteVars
    BY DEF noteVars, Note!noteVars
  <2>2. Notifying => Note!Next
    BY DEF Notifying
  <2>3. Init => Note!Init
    BY DEF Init
  <2> QED
    BY <2>1, <2>2, <2>3, RetryMoves
<1>3. (Init => Ex!Init) /\ ([Next]_vars => [Ex!Next]_(Ex!exVars))
  <2>1. UNCHANGED exVars => UNCHANGED Ex!exVars
    BY DEF exVars, Ex!exVars
  <2>2. Calling => Ex!Next
    BY DEF Calling
  <2>3. Init => Ex!Init
    BY DEF Init
  <2> QED
    BY <2>1, <2>2, <2>3, RetryMoves
<1> QED
  BY <1>1, <1>2, <1>3, PTL DEF Spec, Bg!Spec, Note!Spec, Ex!Spec

(* RetryWorker, NotificationQueue and the exchange adapters beside the     *)
(* other services, as the run composes them: what each promises holds.     *)
THEOREM RetriesComposed ==
  ASSUME IsFiniteSet(Job), MaxRetries \in Nat \ {0}, TicketsAssumption,
         IsFiniteSet(Channel), MaxNotes \in Nat, MaxSends \in Nat \ {0}
  PROVE  Spec => /\ []TasksAccounted /\ []NotifyAccounted
                 /\ []HonestAnswer /\ []NoUnexplainedOrder
BY RetrySpecs, JobsAreAccounted, NotesAreAccounted, AnswersAreHonest, PlacedOnce, PTL

================================================================================
