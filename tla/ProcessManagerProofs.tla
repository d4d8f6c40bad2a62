------------------------ MODULE ProcessManagerProofs ------------------------
(***************************************************************************)
(* Theorems about ProcessManager, for any number of instances, requests    *)
(* and boots, with every fault.                                            *)
(***************************************************************************)
EXTENDS ProcessManager, FiniteSetTheorems, FunctionTheorems, WellFoundedInduction, TLAPS

(***************************************************************************)
(* The properties speak of instances between requests.  The invariant      *)
(* follows the one request an instance has, through every point where it   *)
(* may stop half way, and keeps the objects of instances apart.            *)
(***************************************************************************)

(* The operations a request at a point may be carrying out. *)
OpsAt ==
  [idle       |-> {"none"},
   verify     |-> {"create", "prepare"},
   duplicates |-> {"create", "start"},
   lock       |-> {"create", "start", "resume"},
   build      |-> {"create", "start"},
   wire       |-> {"create", "start"},
   subscribe  |-> {"create", "start"},
   mark       |-> {"stop"},
   get        |-> {"pause", "resume", "stop"},
   rebuild    |-> {"pause", "resume"},
   unwire     |-> {"pause", "stop"},
   quiet      |-> {"pause", "stop"},
   release    |-> {"pause", "resume", "stop"},
   unregister |-> {"stop"},
   persist    |-> {"create", "start", "pause", "resume"},
   remove     |-> {"delete"},
   commit     |-> {"create", "prepare", "start", "pause", "resume", "stop", "delete"}]

(* The statuses a request may be about to commit; "NONE" leaves the row's. *)
Written(op) ==
  CASE op = "create"              -> {"CREATED", "RUNNING"}
    [] op = "prepare"             -> {"READY"}
    [] op \in {"start", "resume"} -> {"RUNNING"}
    [] op = "pause"               -> {"PAUSED"}
    [] op = "stop"                -> {"STOPPED"}
    [] op = "delete"              -> {"NONE"}

(* What a request holds where it is. *)
Shape(t) ==
  /\ task[t].pc = "idle" => task[t] = Idle
  /\ task[t].pc # "idle" => task[t].inst \in Instance
  /\ task[t].op \in OpsAt[task[t].pc]
  /\ task[t].pc \in {"verify", "duplicates", "lock", "build", "mark", "get", "rebuild", "remove"}
       => task[t].proc = NoProc
  /\ task[t].pc = "release" /\ task[t].op = "resume" => task[t].proc = NoProc
  /\ task[t].pc \in {"wire", "subscribe", "unwire", "quiet", "persist"} => task[t].proc \in Proc
  /\ task[t].pc = "release" /\ task[t].op = "pause" => task[t].proc \in Proc
  /\ task[t].pc = "commit" /\ task[t].write.status \in {"RUNNING", "PAUSED"}
       => task[t].proc \in Proc
  /\ task[t].op = "delete" => task[t].write.status = "NONE"
  /\ task[t].write.status # "ERROR"
  /\ task[t].pc = "commit" => task[t].write.status \in Written(task[t].op)
  /\ task[t].pc = "release" /\ task[t].op = "pause" => task[t].write.status = "PAUSED"

(* No object serves two instances. *)
Names(i) == ({registry[i]} \cup {task[t].proc : t \in Busy(i)}) \ {NoProc}
Owned == \A i, j \in Instance : i # j => Names(i) \cap Names(j) = {}

(* An object that can unsubscribe has a subscription to give back. *)
Subscribed(i) == {p \in Names(i) : procs[p].sub}
Counted == \A i \in Instance : Cardinality(Subscribed(i)) <= subs[i]

(* ERROR is final: only a delete still works on such a row. *)
ErrorFinal ==
  \A t \in Task : task[t].pc # "idle" /\ row[task[t].inst].status = "ERROR"
                    => task[t].op = "delete"

Base ==
  /\ TypeOK /\ \A t \in Task : Shape(t)
  /\ Owned /\ Counted /\ ErrorFinal
  /\ \A i \in Instance : grid[i].state = "none" => ~grid[i].orders
  /\ phase = "recovering" => \A t \in Task : task[t].pc = "idle"

(* Nothing but overlaps may upset the database, and nothing but overlaps   *)
(* and late rollbacks the registry.                                        *)
Alone(i) == mishap[i] # "mixed"
Whole(i) == mishap[i] \notin {"undone", "mixed"}

(* Until a restart no order of the instance is unknown to its grid. *)
Clear(i) == boot = 1 /\ PausesHold(i) => ~orphans[i]

(* An instance is as its row says, were the row's status this one. *)
Quiet(i, status) ==
  /\ subs[i] = IF registry[i] # NoProc /\ procs[registry[i]].sub THEN 1 ELSE 0
  /\ subs[i] > 0 => status = "RUNNING"
  /\ PausesHold(i) /\ (grid[i].state = "active" \/ grid[i].orders) => status = "RUNNING"
  /\ Clear(i)

As(i, status) ==
  /\ IF status \in {"RUNNING", "PAUSED"}
       THEN registry[i] # NoProc /\ procs[registry[i]].status = status
       ELSE registry[i] = NoProc
  /\ Quiet(i, status)

(* The status a row has once the request commits. *)
Due(t) == IF task[t].write.status = "NONE" THEN row[Of(t)].status ELSE task[t].write.status

(* The row a request found is still there. *)
From(i, op) ==
  CASE op = "create"              -> row[i].status = "NONE"
    [] op = "prepare"             -> row[i].status = "CREATED"
    [] op \in {"start", "resume"} -> row[i].status \in {"READY", "PAUSED", "RECOVERED"}
    [] op = "pause"               -> row[i].status \in {"RUNNING", "RECOVERED"}
    [] op = "stop"                -> row[i].status = "RUNNING"
    [] op = "delete"              -> row[i].status \notin {"NONE", "RUNNING", "PAUSED"}

(* How far the only request of an instance has got. *)
Stage(i, t) ==
  LET pc == task[t].pc
      op == task[t].op
      p  == task[t].proc
  IN
  /\ pc \in {"verify", "duplicates", "lock", "build", "mark", "get", "rebuild", "remove"}
       => As(i, row[i].status)
  /\ pc = "rebuild" => registry[i] = NoProc
  /\ pc = "release" /\ op = "resume" => As(i, row[i].status)
  /\ pc \in {"wire", "subscribe"} =>
       /\ registry[i] = p /\ procs[p].status = "RUNNING" /\ ~procs[p].sub
       /\ subs[i] = 0 /\ Clear(i)
       /\ pc = "wire" /\ PausesHold(i) => ~grid[i].orders
  /\ pc = "unwire" =>
       /\ registry[i] = p /\ subs[i] = (IF procs[p].sub THEN 1 ELSE 0)
       /\ Clear(i)
  /\ pc = "quiet" =>
       /\ registry[i] = p /\ ~procs[p].sub /\ subs[i] = 0
       /\ Clear(i)
  /\ pc \in {"release", "unregister"} /\ op = "stop" =>
       /\ subs[i] = 0 /\ Clear(i)
       /\ PausesHold(i) => grid[i].state # "active" /\ ~grid[i].orders
  /\ pc \in {"release", "unregister", "commit"} /\ op = "stop" => p # NoProc
  /\ pc = "persist" => As(i, Target(op))
  /\ pc = "release" /\ op = "pause" => As(i, "PAUSED")
  /\ pc = "commit" => As(i, Due(t))

(* An instance on which no two requests overlapped; its memory is followed *)
(* until a transaction is rolled back too late.                            *)
Followed(i) ==
  /\ \A t, u \in Busy(i) : t = u
  /\ \A t \in Busy(i) : From(i, task[t].op) /\ (Whole(i) => Stage(i, t))
  /\ Busy(i) = {} /\ phase = "serving" /\ Whole(i) => As(i, row[i].status)

(* What recovery has done for an instance. *)
Recovered(i) ==
  /\ grid[i] = NoGrid /\ subs[i] = 0
  /\ fixed[i] \in {"NONE", "ERROR"} => registry[i] = NoProc
  /\ fixed[i] \notin {"NONE", "ERROR"} =>
       /\ fixed[i] = row[i].status /\ fixed[i] \in {"RUNNING", "PAUSED"}
       /\ registry[i] # NoProc /\ procs[registry[i]] = [status |-> fixed[i], sub |-> FALSE]
  /\ fixed[i] # "NONE" => row[i].status \in {"RUNNING", "PAUSED", "RECOVERING"}

IInv ==
  /\ Base
  /\ \A i \in Instance : Alone(i) => Followed(i)
  /\ phase = "recovering" => boot > 1 /\ \A i \in Instance : Recovered(i) /\ mishap[i] = "none"
-----------------------------------------------------------------------------
(* A free object.                                                          *)

(* A set of naturals that is not empty has a least member. *)
LEMMA LeastMember ==
  ASSUME NEW S \in SUBSET Nat, S # {}
  PROVE  \E p \in S : \A q \in S : p <= q
<1>1. IsWellFoundedOn(OpToRel(<, Nat), Nat)
  BY NatLessThanWellFounded
<1>2. PICK p \in S : \A q \in S : ~(<<q, p>> \in OpToRel(<, Nat))
  BY <1>1, WFMin
<1>3. ASSUME NEW q \in S PROVE p <= q
  <2>1. ~(q < p)
    BY <1>2 DEF OpToRel
  <2> QED
    BY <2>1
<1> QED
  BY <1>3

(* Two tables with fewer entries than there are objects leave one unused. *)
LEMMA Unused ==
  ASSUME NEW I, NEW T, IsFiniteSet(I), IsFiniteSet(T),
         NEW f \in [I -> Proc \cup {NoProc}], NEW g \in [T -> Proc \cup {NoProc}],
         Cardinality(I) + Cardinality(T) < Cardinality(Proc)
  PROVE  \E p \in Proc : (\A i \in I : f[i] # p) /\ (\A t \in T : g[t] # p)
<1>1. /\ IsFiniteSet(Range(f)) /\ Cardinality(Range(f)) <= Cardinality(I)
  BY Fun_RangeProperties, FS_Surjection
<1>2. /\ IsFiniteSet(Range(g)) /\ Cardinality(Range(g)) <= Cardinality(T)
  BY Fun_RangeProperties, FS_Surjection
<1> DEFINE R == Range(f) \cup Range(g)
<1>3. IsFiniteSet(R) /\ Cardinality(R) <= Cardinality(I) + Cardinality(T)
  <2>1. /\ IsFiniteSet(R)
        /\ Cardinality(R) = Cardinality(Range(f)) + Cardinality(Range(g))
                              - Cardinality(Range(f) \cap Range(g))
    BY <1>1, <1>2, FS_Union
  <2>2. IsFiniteSet(Range(f) \cap Range(g))
    BY <1>1, FS_Subset
  <2>3. /\ Cardinality(Range(f)) \in Nat /\ Cardinality(Range(g)) \in Nat
        /\ Cardinality(Range(f) \cap Range(g)) \in Nat
        /\ Cardinality(I) \in Nat /\ Cardinality(T) \in Nat
    BY <1>1, <1>2, <2>2, FS_CardinalityType
  <2> QED
    BY <1>1, <1>2, <2>1, <2>3
<1>4. ~(Proc \subseteq R)
  <2> SUFFICES ASSUME Proc \subseteq R PROVE FALSE
    OBVIOUS
  <2>1. Cardinality(Proc) <= Cardinality(R)
    BY <1>3, FS_Subset
  <2>2. /\ Cardinality(Proc) \in Nat /\ Cardinality(R) \in Nat
        /\ Cardinality(I) \in Nat /\ Cardinality(T) \in Nat
    BY <1>3, ProcAssumption, FS_CardinalityType
  <2> QED
    BY <1>3, <2>1, <2>2
<1> QED
  BY <1>4 DEF Range

(* What TypeOK says of a request and of the tables. *)
LEMMA TaskFields ==
  ASSUME TypeOK, NEW t \in Task
  PROVE  /\ task[t] \in TaskRecord
         /\ task[t].op \in {"none", "create", "prepare", "start", "pause", "resume", "stop",
                            "delete"}
         /\ task[t].inst \in Instance \cup {NoInstance} /\ task[t].proc \in Proc \cup {NoProc}
         /\ task[t].pc \in DOMAIN OpsAt
         /\ task[t].write \in [status : Status, deleted : BOOLEAN]
BY DEF TypeOK, TaskRecord, OpsAt

(* An object is free while some request, or some instance, has none. *)
LEMMA NewProcFree ==
  ASSUME TypeOK,
         (\E t \in Task : task[t].proc = NoProc) \/ (\E i \in Instance : registry[i] = NoProc)
  PROVE  NewProc \in Proc /\ NewProc \notin InUse
<1> DEFINE procOf == [t \in Task |-> task[t].proc]
<1>0. /\ procOf \in [Task -> Proc \cup {NoProc}] /\ registry \in [Instance -> Proc \cup {NoProc}]
      /\ NoProc \notin Proc
  BY TaskFields, NoneAssumption DEF TypeOK
<1>a. /\ Cardinality(Instance) \in Nat /\ Cardinality(Task) \in Nat /\ Cardinality(Proc) \in Nat
      /\ IsFiniteSet(Instance) /\ IsFiniteSet(Task)
      /\ Cardinality(Proc) >= Cardinality(Instance) + Cardinality(Task)
  BY ProcAssumption, FS_CardinalityType
<1>1. \E p \in Proc : (\A i \in Instance : registry[i] # p) /\ (\A t \in Task : task[t].proc # p)
  <2>1. ASSUME NEW t0 \in Task, task[t0].proc = NoProc
        PROVE  \E p \in Proc : /\ \A i \in Instance : registry[i] # p
                               /\ \A t \in Task : task[t].proc # p
    <3> DEFINE T == Task \ {t0}
               g == [t \in T |-> task[t].proc]
    <3>1. IsFiniteSet(T) /\ Cardinality(T) = Cardinality(Task) - 1
      BY <1>a, FS_RemoveElement
    <3>2. g \in [T -> Proc \cup {NoProc}]
      BY TaskFields
    <3>3. Cardinality(Instance) + Cardinality(T) < Cardinality(Proc)
      BY <1>a, <3>1
    <3>4. PICK p \in Proc : (\A i \in Instance : registry[i] # p) /\ (\A t \in T : g[t] # p)
      <4> HIDE DEF g, T
      <4> QED
        BY <1>0, <1>a, <3>1, <3>2, <3>3, Unused
    <3> QED
      BY <1>0, <2>1, <3>4
  <2>2. ASSUME NEW i0 \in Instance, registry[i0] = NoProc
        PROVE  \E p \in Proc : /\ \A i \in Instance : registry[i] # p
                               /\ \A t \in Task : task[t].proc # p
    <3> DEFINE I == Instance \ {i0}
               f == [i \in I |-> registry[i]]
    <3>1. IsFiniteSet(I) /\ Cardinality(I) = Cardinality(Instance) - 1
      BY <1>a, FS_RemoveElement
    <3>2. f \in [I -> Proc \cup {NoProc}]
      BY <1>0
    <3>3. Cardinality(I) + Cardinality(Task) < Cardinality(Proc)
      BY <1>a, <3>1
    <3>4. PICK p \in Proc : (\A i \in I : f[i] # p) /\ (\A t \in Task : procOf[t] # p)
      <4> HIDE DEF f, I, procOf
      <4> QED
        BY <1>0, <1>a, <3>1, <3>2, <3>3, Unused
    <3> QED
      BY <1>0, <2>2, <3>4
  <2> QED
    BY <2>1, <2>2
<1>2. PICK p \in Proc \ InUse : \A q \in Proc \ InUse : p <= q
  <2>1. Proc \ InUse # {} /\ Proc \ InUse \in SUBSET Nat
    BY <1>1, NoneAssumption DEF InUse
  <2> QED
    BY <2>1, LeastMember
<1> QED
  BY <1>2 DEF NewProc

-----------------------------------------------------------------------------
(* A request works on its own instance.                                    *)

(* The request t works on i only: what other instances and requests have    *)
(* is untouched, and an object new to i is one nobody used.                 *)
Elsewhere(t, i) ==
  /\ task[t].inst \in {i, NoInstance} /\ task'[t].inst \in {i, NoInstance}
  /\ \A u \in Task \ {t} : task'[u] = task[u]
  /\ \A j \in Instance \ {i} :
       /\ row'[j] = row[j] /\ registry'[j] = registry[j] /\ subs'[j] = subs[j]
       /\ grid'[j] = grid[j] /\ orphans'[j] = orphans[j] /\ mishap'[j] = mishap[j]
       /\ \A p \in Names(j) : procs'[p] = procs[p]
  /\ \A p \in Names(i)' : p \in Names(i) \/ p \notin InUse
  /\ boot' = boot /\ phase = "serving" /\ phase' = "serving"

(* Whose a request is. *)
LEMMA Busyness ==
  ASSUME NEW i \in Instance, NEW t \in Task
  PROVE  t \in Busy(i) <=> task[t].inst = i
BY DEF Busy

(* The objects an instance names are in use. *)
LEMMA NamesInUse ==
  ASSUME NEW i \in Instance
  PROVE  Names(i) \subseteq InUse
BY DEF Names, InUse, Busy

(* A request at work holds an instance; an idle one holds nothing. *)
LEMMA AtWork ==
  ASSUME Base, NEW t \in Task
  PROVE  /\ task[t].pc = "idle" => task[t].inst = NoInstance /\ task[t].proc = NoProc
         /\ task[t].pc # "idle" => task[t].inst \in Instance
         /\ task[t].inst \in Instance => task[t].inst # NoInstance /\ task[t].pc # "idle"
BY NoneAssumption DEF Base, Shape, Idle

(* The other instances are as they were. *)
LEMMA OthersFollow ==
  ASSUME Base, NEW t \in Task, NEW i \in Instance, Elsewhere(t, i),
         NEW j \in Instance, j # i
  PROVE  /\ Busy(j)' = Busy(j) /\ Names(j)' = Names(j) /\ Subscribed(j)' = Subscribed(j)
         /\ \A u \in Busy(j) : task'[u] = task[u]
         /\ \A s \in Status : As(j, s)' = As(j, s)
         /\ \A u \in Busy(j) : Stage(j, u)' = Stage(j, u)
         /\ \A op : From(j, op)' = From(j, op)
<1>0. j # NoInstance /\ i # NoInstance
  BY NoneAssumption
<1>1. Busy(j)' = Busy(j) /\ \A u \in Busy(j) : task'[u] = task[u]
  BY <1>0 DEF Elsewhere, Busy
<1>2. registry'[j] = registry[j]
  BY DEF Elsewhere
<1>3. Names(j)' = Names(j)
  BY <1>1, <1>2 DEF Names
<1>4. \A p \in Names(j) : procs'[p] = procs[p]
  BY DEF Elsewhere
<1>5. Subscribed(j)' = Subscribed(j)
  BY <1>3, <1>4 DEF Subscribed
<1>6. registry[j] # NoProc => procs'[registry[j]] = procs[registry[j]]
  BY <1>4 DEF Names
<1>7. \A s \in Status : As(j, s)' = As(j, s)
  <2>1. subs'[j] = subs[j] /\ grid'[j] = grid[j] /\ orphans'[j] = orphans[j] /\ boot' = boot
    BY DEF Elsewhere
  <2>2. mishap'[j] = mishap[j]
    BY DEF Elsewhere
  <2>3. Clear(j)' = Clear(j) /\ PausesHold(j)' = PausesHold(j)
    BY <2>1, <2>2 DEF Clear, PausesHold
  <2> QED
    BY <1>2, <1>6, <2>1, <2>3 DEF As, Quiet
<1>8. \A op : From(j, op)' = From(j, op)
  BY DEF Elsewhere, From
<1>9. ASSUME NEW u \in Busy(j) PROVE Stage(j, u)' = Stage(j, u)
  <2>1. task'[u] = task[u] /\ u \in Task
    BY <1>1 DEF Busy
  <2>2. /\ subs'[j] = subs[j] /\ grid'[j] = grid[j] /\ orphans'[j] = orphans[j] /\ boot' = boot
        /\ row'[j] = row[j] /\ mishap'[j] = mishap[j]
        /\ Clear(j)' = Clear(j) /\ PausesHold(j)' = PausesHold(j)
    BY DEF Elsewhere, Clear, PausesHold
  <2>3. Of(u) = j /\ Of(u)' = j
    BY <2>1 DEF Busy, Of
  <2>4. Due(u)' = Due(u) /\ Due(u) \in Status /\ row[j].status \in Status
    BY <2>1, <2>2, <2>3, TaskFields DEF Due, Base, TypeOK
  <2>5. task[u].proc \in Proc => procs'[task[u].proc] = procs[task[u].proc]
    BY <1>4, NoneAssumption DEF Names, Busy
  <2>6. task[u].pc \in {"wire", "subscribe", "unwire", "quiet"} => task[u].proc \in Proc
    BY <2>1 DEF Base, Shape
  <2>7. Target(task[u].op) \in Status \/ task[u].pc # "persist"
    BY <2>1 DEF Base, Shape, OpsAt, Target, Status
  <2>8. "PAUSED" \in Status
    BY DEF Status
  <2> QED
    BY <1>2, <1>7, <2>1, <2>2, <2>4, <2>5, <2>6, <2>7, <2>8 DEF Stage
<1> QED
  BY <1>1, <1>3, <1>5, <1>7, <1>8, <1>9

(* A step of a request keeps the invariant if it keeps that of its instance. *)
LEMMA RequestKeeps ==
  ASSUME IInv, TypeOK', NEW t \in Task, NEW i \in Instance, Elsewhere(t, i), Shape(t)',
         Cardinality(Subscribed(i))' <= subs'[i],
         task'[t].pc # "idle" /\ row'[i].status = "ERROR" => task'[t].op = "delete",
         row'[i].status = "ERROR" => row[i].status = "ERROR",
         grid'[i].state = "none" => ~grid'[i].orders,
         Alone(i)' => Followed(i)'
  PROVE  IInv'
<1>0. Base
  BY DEF IInv
<1>1. \A u \in Task : Shape(u)'
  <2>1. ASSUME NEW u \in Task \ {t} PROVE Shape(u)'
    BY <1>0 DEF Elsewhere, Base, Shape
  <2> QED
    BY <2>1
<1>2. Owned'
  <2>1. ASSUME NEW j \in Instance, j # i PROVE Names(i)' \cap Names(j)' = {}
    BY <1>0, <2>1, OthersFollow, NamesInUse DEF Base, Owned, Elsewhere
  <2>2. ASSUME NEW j \in Instance, NEW k \in Instance, j # i, k # i, j # k
        PROVE  Names(k)' \cap Names(j)' = {}
    BY <1>0, <2>2, OthersFollow DEF Base, Owned
  <2> QED
    BY <2>1, <2>2 DEF Owned
<1>3. Counted'
  BY <1>0, OthersFollow DEF Base, Counted, Elsewhere
<1>4. ErrorFinal'
  <2> SUFFICES ASSUME NEW u \in Task, task'[u].pc # "idle",
                      row'[task'[u].inst].status = "ERROR"
               PROVE  task'[u].op = "delete"
    BY DEF ErrorFinal
  <2>1. CASE u = t
    <3>1. task'[t].inst = i
      BY <1>1, <2>1, NoneAssumption DEF Elsewhere, Shape
    <3> QED
      BY <2>1, <3>1
  <2>2. CASE u # t
    <3>1. task'[u] = task[u] /\ task[u].inst \in Instance
      BY <1>0, <2>2, AtWork DEF Elsewhere
    <3>2. row[task[u].inst].status = "ERROR"
      BY <3>1 DEF Elsewhere
    <3> QED
      BY <1>0, <3>1, <3>2 DEF Base, ErrorFinal
  <2> QED
    BY <2>1, <2>2
<1>5. \A j \in Instance : grid'[j].state = "none" => ~grid'[j].orders
  BY <1>0 DEF Elsewhere, Base
<1>6. Base'
  BY <1>1, <1>2, <1>3, <1>4, <1>5 DEF Base, Elsewhere
<1>7. ASSUME NEW j \in Instance, Alone(j)' PROVE Followed(j)'
  <2>1. CASE j = i
    BY <1>7, <2>1
  <2>2. CASE j # i
    <3>1. Alone(j) /\ Whole(j)' = Whole(j) /\ row'[j] = row[j] /\ phase' = phase
      BY <1>7, <2>2 DEF Elsewhere, Alone, Whole
    <3>2. Followed(j)
      BY <3>1 DEF IInv
    <3>3. row[j].status \in Status
      BY <1>0 DEF Base, TypeOK
    <3>4. As(j, row[j].status)' = As(j, row[j].status)
      BY <1>0, <2>2, <3>1, <3>3, OthersFollow
    <3> QED
      BY <1>0, <2>2, <3>1, <3>2, <3>4, OthersFollow DEF Followed
  <2> QED
    BY <2>1, <2>2
<1> QED
  BY <1>6, <1>7 DEF IInv, Elsewhere

(* On an instance without overlaps, the request at work is the only one. *)
LEMMA OnlyRequest ==
  ASSUME IInv, NEW t \in Task, NEW i \in Instance, Elsewhere(t, i), task[t].inst = i, Alone(i)
  PROVE  /\ Busy(i) = {t} /\ From(i, task[t].op) /\ (Whole(i) => Stage(i, t))
         /\ task'[t].inst = i => Busy(i)' = {t}
         /\ task'[t].inst = NoInstance => Busy(i)' = {}
<1>1. Followed(i)
  BY DEF IInv
<1>2. t \in Busy(i)
  BY DEF Busy
<1>3. Busy(i) = {t}
  BY <1>1, <1>2 DEF Followed
<1>4. \A u \in Task \ {t} : task[u].inst # i /\ task'[u].inst # i
  BY <1>3 DEF Busy, Elsewhere
<1> QED
  BY <1>1, <1>3, <1>4, NoneAssumption DEF Followed, Busy

-----------------------------------------------------------------------------
(* Steps that move only the request.                                       *)

(* The request t goes to a point, with the objects it had. *)
Steps(t, pc) ==
  /\ task' \in [Task -> TaskRecord]
  /\ task'[t].pc = pc /\ task'[t].op = task[t].op /\ task'[t].inst = task[t].inst
  /\ \A u \in Task \ {t} : task'[u] = task[u]

LEMMA GotoEffect ==
  ASSUME TypeOK, NEW t \in Task, NEW pc \in DOMAIN OpsAt, Goto(t, pc)
  PROVE  Steps(t, pc) /\ task'[t].proc = task[t].proc /\ task'[t].write = task[t].write
<1>1. task[t] \in TaskRecord /\ task \in [Task -> TaskRecord]
  BY DEF TypeOK
<1>2. [task[t] EXCEPT !.pc = pc] \in TaskRecord
  BY <1>1 DEF TaskRecord, OpsAt
<1>3. task' = [task EXCEPT ![t] = [task[t] EXCEPT !.pc = pc]]
  BY <1>1 DEF Goto
<1> QED
  BY <1>1, <1>2, <1>3 DEF Steps, TaskRecord

(* The request flushes a status and goes on; or it takes an object. *)
Writes(t, s, pc) == task' = [task EXCEPT ![t].write.status = s, ![t].pc = pc]
Takes(t, p, pc)  == task' = [task EXCEPT ![t].proc = p, ![t].pc = pc]

LEMMA WriteEffect ==
  ASSUME TypeOK, NEW t \in Task, NEW pc \in DOMAIN OpsAt, NEW s \in Status, Writes(t, s, pc)
  PROVE  /\ Steps(t, pc) /\ task'[t].proc = task[t].proc
         /\ task'[t].write.status = s /\ task'[t].write.deleted = task[t].write.deleted
<1>1. task[t] \in TaskRecord /\ task \in [Task -> TaskRecord]
  BY DEF TypeOK
<1> DEFINE w == [task[t].write EXCEPT !.status = s]
           rec == [task[t] EXCEPT !.write = w, !.pc = pc]
<1>2. w \in [status : Status, deleted : BOOLEAN] /\ w.status = s
      /\ w.deleted = task[t].write.deleted
  BY <1>1 DEF TaskRecord
<1>3. rec \in TaskRecord /\ rec.pc = pc /\ rec.op = task[t].op /\ rec.inst = task[t].inst
      /\ rec.proc = task[t].proc /\ rec.write = w
  BY <1>1, <1>2 DEF TaskRecord, OpsAt
<1>4. task' = [task EXCEPT ![t] = rec]
  BY <1>1 DEF Writes, TaskRecord
<1> HIDE DEF w, rec
<1>5. /\ task'[t] = rec /\ task' \in [Task -> TaskRecord]
      /\ \A u \in Task \ {t} : task'[u] = task[u]
  <2>1. rec \in TaskRecord
    BY <1>3
  <2> QED
    BY <1>1, <1>4, <2>1
<1> QED
  BY <1>2, <1>3, <1>5 DEF Steps

LEMMA RollbackEffect ==
  ASSUME TypeOK, NEW t \in Task, Rollback(t)
  PROVE  /\ task' \in [Task -> TaskRecord] /\ task'[t] = Idle
         /\ \A u \in Task \ {t} : task'[u] = task[u]
<1>1. Idle \in TaskRecord
  BY DEF Idle, Kept, TaskRecord, Status
<1> QED
  BY <1>1 DEF TypeOK, Rollback

(* What an idle request is. *)
LEMMA IdleFields ==
  /\ Idle.op = "none" /\ Idle.inst = NoInstance /\ Idle.pc = "idle" /\ Idle.proc = NoProc
  /\ Idle.write.status = "NONE"
BY DEF Idle, Kept

World == <<row, registry, procs, subs, grid, orphans, boot, phase, fixed, mishap>>

(* The world of an instance is the same when only its request moved. *)
LEMMA SameWorld ==
  ASSUME IInv, UNCHANGED World, NEW i \in Instance
  PROVE  /\ \A s : As(i, s)' = As(i, s) /\ Quiet(i, s)' = Quiet(i, s)
         /\ row' = row /\ registry' = registry /\ procs' = procs /\ subs' = subs
         /\ grid' = grid /\ orphans' = orphans /\ boot' = boot /\ phase' = phase
         /\ mishap' = mishap /\ Alone(i)' = Alone(i) /\ Whole(i)' = Whole(i)
         /\ Clear(i)' = Clear(i) /\ PausesHold(i)' = PausesHold(i)
<1>1. UNCHANGED <<row, registry, procs, subs, grid, orphans, boot, phase, mishap>>
  BY DEF World
<1>2. /\ Alone(i)' = Alone(i) /\ Whole(i)' = Whole(i)
      /\ Clear(i)' = Clear(i) /\ PausesHold(i)' = PausesHold(i)
  BY <1>1 DEF Alone, Whole, Clear, PausesHold
<1> QED
  BY <1>1, <1>2 DEF As, Quiet

(* A request that moves alone. *)
LEMMA AloneElsewhere ==
  ASSUME IInv, NEW t \in Task, NEW i \in Instance, task[t].inst = i, UNCHANGED World,
         \A u \in Task \ {t} : task'[u] = task[u],
         task'[t].inst \in {i, NoInstance}, task'[t].proc \in {task[t].proc, NoProc}
  PROVE  /\ Elsewhere(t, i)
         /\ Cardinality(Subscribed(i))' <= subs'[i]
<1>0. Base /\ i # NoInstance /\ task[t].pc # "idle"
  BY AtWork DEF IInv
<1>1. phase = "serving"
  BY <1>0 DEF Base, TypeOK
<1>2. Names(i)' \subseteq Names(i)
  <2> SUFFICES ASSUME NEW p \in Names(i)' PROVE p \in Names(i)
    OBVIOUS
  <2>1. registry' = registry
    BY DEF World
  <2>2. CASE p = registry[i]
    BY <2>1, <2>2 DEF Names
  <2>3. CASE p # registry[i]
    <3>1. PICK u \in Task : task'[u].inst = i /\ task'[u].proc = p /\ p # NoProc
      <4>1. p \in ({registry'[i]} \cup {task'[u].proc : u \in Busy(i)'}) \ {NoProc}
        BY DEF Names
      <4>2. PICK u \in Busy(i)' : p = task'[u].proc
        BY <2>1, <2>3, <4>1
      <4> QED
        BY <4>1, <4>2 DEF Busy
    <3>2. task[u].inst = i /\ task[u].proc = p
      BY <1>0, <3>1
    <3> QED
      BY <3>1, <3>2 DEF Names, Busy
  <2> QED
    BY <2>2, <2>3
<1>3. Elsewhere(t, i)
  BY <1>0, <1>1, <1>2 DEF Elsewhere, World
<1>4. Cardinality(Subscribed(i))' <= subs'[i]
  <2>1. Subscribed(i)' \subseteq Subscribed(i)
    BY <1>2 DEF Subscribed, World
  <2>2. IsFiniteSet(Subscribed(i))
    <3>1. Names(i) \subseteq Proc
      BY <1>0, TaskFields DEF Names, Busy, Base, TypeOK
    <3> QED
      BY <3>1, ProcAssumption, FS_Subset DEF Subscribed
  <2>3. /\ Cardinality(Subscribed(i)') <= Cardinality(Subscribed(i))
        /\ Cardinality(Subscribed(i)') \in Nat /\ Cardinality(Subscribed(i)) \in Nat
    BY <2>1, <2>2, FS_Subset, FS_CardinalityType
  <2>4. Cardinality(Subscribed(i)) <= subs[i] /\ subs[i] \in Nat /\ subs'[i] = subs[i]
    BY <1>0 DEF Base, Counted, TypeOK, World
  <2> QED
    BY <2>3, <2>4
<1> QED
  BY <1>3, <1>4

(* A request that moves on alone keeps the invariant. *)
LEMMA MovesKeep ==
  ASSUME IInv, TypeOK', NEW t \in Task, NEW i \in Instance, task[t].inst = i, UNCHANGED World,
         NEW pc \in DOMAIN OpsAt \ {"idle"}, Steps(t, pc), task'[t].proc = task[t].proc,
         Shape(t)',
         From(i, task[t].op) /\ Stage(i, t) => Stage(i, t)'
  PROVE  IInv'
<1>1. Elsewhere(t, i) /\ Cardinality(Subscribed(i))' <= subs'[i]
  BY AloneElsewhere DEF Steps
<1>2. ASSUME Alone(i)' PROVE Followed(i)'
  <2>1. Alone(i) /\ Whole(i)' = Whole(i)
    BY <1>2, SameWorld
  <2>2. task'[t].inst = i /\ task'[t].op = task[t].op
    BY DEF Steps
  <2>3. Busy(i)' = {t} /\ From(i, task[t].op) /\ (Whole(i)' => Stage(i, t)')
    BY <1>1, <2>1, <2>2, OnlyRequest
  <2>4. From(i, task[t].op)'
    BY <2>2, <2>3 DEF From, World
  <2> QED
    BY <2>3, <2>4 DEF Followed
<1>3. grid'[i].state = "none" => ~grid'[i].orders
  BY DEF IInv, Base, World
<1>4. row'[i].status = "ERROR" => row[i].status = "ERROR" /\ task'[t].op = "delete"
  BY AtWork DEF IInv, Base, ErrorFinal, World, Steps
<1> QED
  BY <1>1, <1>2, <1>3, <1>4, RequestKeeps

(* A request that ends without a commit does too. *)
LEMMA EndsKeep ==
  ASSUME IInv, TypeOK', NEW t \in Task, NEW i \in Instance, task[t].inst = i, UNCHANGED World,
         Rollback(t),
         From(i, task[t].op) /\ Stage(i, t) => As(i, row[i].status)
  PROVE  IInv'
<1>0. task'[t] = Idle /\ \A u \in Task \ {t} : task'[u] = task[u]
  BY RollbackEffect DEF IInv, Base
<1>1. Elsewhere(t, i) /\ Cardinality(Subscribed(i))' <= subs'[i]
  BY <1>0, IdleFields, AloneElsewhere
<1>2. ASSUME Alone(i)' PROVE Followed(i)'
  <2>1. Alone(i) /\ Whole(i)' = Whole(i)
    BY <1>2, SameWorld
  <2>2. Busy(i)' = {} /\ From(i, task[t].op) /\ (Whole(i) => Stage(i, t))
    BY <1>0, <1>1, <2>1, IdleFields, OnlyRequest
  <2>3. Whole(i)' => As(i, row[i].status)'
    BY <2>1, <2>2, SameWorld DEF As
  <2> QED
    BY <2>2, <2>3 DEF Followed
<1>3. Shape(t)'
  BY <1>0, IdleFields DEF Shape, OpsAt
<1>4. grid'[i].state = "none" => ~grid'[i].orders
  BY DEF IInv, Base, World
<1>5. row'[i].status = "ERROR" => row[i].status = "ERROR"
  BY DEF World
<1> QED
  BY <1>0, <1>1, <1>2, <1>3, <1>4, <1>5, IdleFields, RequestKeeps

(* The types outlive a step that moves requests and locks only. *)
LEMMA MovesType ==
  ASSUME Base, UNCHANGED World, task' \in [Task -> TaskRecord], lock' \in [Instance -> 0 .. boot]
  PROVE  TypeOK'
BY DEF Base, TypeOK, World

(* What the invariant gives a request of instance i at a point. *)
LEMMA AtPoint ==
  ASSUME IInv, NEW t \in Task, task[t].pc # "idle"
  PROVE  /\ Base /\ TypeOK /\ Shape(t) /\ task[t].op \in OpsAt[task[t].pc]
         /\ task \in [Task -> TaskRecord] /\ lock \in [Instance -> 0 .. boot]
         /\ \E i \in Instance : task[t].inst = i
BY AtWork DEF IInv, Base, TypeOK, Shape

(* Statuses without a process are all the same to the instance. *)
LEMMA AsOther ==
  ASSUME NEW i, NEW s1, NEW s2, s1 \notin {"RUNNING", "PAUSED"}, s2 \notin {"RUNNING", "PAUSED"},
         As(i, s1)
  PROVE  As(i, s2)
BY DEF As, Quiet

(* prepare, and create with auto_start: the account is verified. *)
LEMMA VerifiedKeeps ==
  ASSUME IInv, NEW t \in Task, Verified(t)
  PROVE  IInv'
<1>1. task[t].pc = "verify" /\ UNCHANGED World /\ lock' = lock
  BY DEF Verified, At, World, memory
<1>2. PICK i \in Instance : task[t].inst = i
  BY <1>1, AtPoint
<1>3. task[t].op \in {"create", "prepare"} /\ TypeOK /\ Base
  BY <1>1, AtPoint DEF OpsAt
<1> DEFINE pc == IF task[t].op = "create" THEN "duplicates" ELSE "commit"
<1>4. /\ Steps(t, pc) /\ task'[t].proc = task[t].proc /\ task'[t].write.status = "READY"
  <2>1. pc \in DOMAIN OpsAt /\ "READY" \in Status
    BY DEF OpsAt, Status
  <2> QED
    <3>1. Writes(t, "READY", pc)
      BY DEF Verified, Writes
    <3> HIDE DEF pc
    <3> QED
      BY <1>3, <2>1, <3>1, WriteEffect
<1>5. TypeOK'
  BY <1>1, <1>3, <1>4, AtPoint, MovesType DEF Steps
<1>6. Shape(t)'
  BY <1>1, <1>3, <1>4, AtPoint DEF Steps, Shape, OpsAt, Written
<1>7. ASSUME From(i, task[t].op), Stage(i, t) PROVE Stage(i, t)'
  <2>1. As(i, row[i].status)' /\ row'[i] = row[i]
    BY <1>1, <1>7, SameWorld DEF Stage, As
  <2>2. CASE task[t].op = "create"
    BY <1>4, <2>1, <2>2 DEF Steps, Stage
  <2>3. CASE task[t].op = "prepare"
    <3>1. row[i].status = "CREATED" /\ Due(t)' = "READY"
      BY <1>4, <1>7, <2>3 DEF From, Due
    <3>2. As(i, "CREATED")
      BY <1>1, <1>7, <3>1 DEF Stage
    <3>3. As(i, "READY")'
      BY <1>1, <3>2, SameWorld, AsOther
    <3>4. As(i, Due(t))'
      BY <3>1, <3>3 DEF As, Quiet
    <3> QED
      BY <1>4, <2>3, <3>4 DEF Steps, Stage
  <2> QED
    BY <1>3, <2>2, <2>3
<1>8. pc \in DOMAIN OpsAt \ {"idle"}
  BY DEF OpsAt
<1> QED
  BY <1>1, <1>2, <1>4, <1>5, <1>6, <1>7, <1>8, MovesKeep

(* The points at which a request is still free to give up. *)
LEMMA GivesUp ==
  ASSUME IInv, NEW t \in Task, UNCHANGED World, lock' = lock, Rollback(t),
         task[t].pc \in {"verify", "duplicates", "lock", "build", "rebuild"}
  PROVE  IInv'
<1>1. PICK i \in Instance : task[t].inst = i
  BY AtPoint
<1>2. TypeOK'
  BY AtPoint, RollbackEffect, MovesType
<1>3. Stage(i, t) => As(i, row[i].status)
  BY DEF Stage
<1> QED
  BY <1>1, <1>2, <1>3, EndsKeep

(* A request that goes on without having changed anything, from one point  *)
(* where the instance is as its row says to another.                       *)
WaitingAt == {"verify", "duplicates", "lock", "build", "mark", "get", "rebuild", "remove"}

LEMMA GoesOn ==
  ASSUME IInv, NEW t \in Task, UNCHANGED World, lock' \in [Instance -> 0 .. boot],
         NEW pc \in WaitingAt, Steps(t, pc), task'[t].proc = task[t].proc,
         task'[t].write.status \in {task[t].write.status, "STOPPING"},
         task[t].op # "delete", task[t].op \in OpsAt[pc],
         pc = "rebuild" => registry[Of(t)] = NoProc,
         task[t].pc \in WaitingAt \/ (task[t].pc = "release" /\ task[t].op = "resume")
  PROVE  IInv'
<1>1. PICK i \in Instance : task[t].inst = i
  BY AtPoint DEF WaitingAt
<1>2. Base /\ TypeOK'
  BY MovesType DEF Steps, IInv
<1>3. Shape(t)'
  <2>1. Shape(t) /\ task[t].proc = NoProc
    BY DEF IInv, Base, Shape, WaitingAt
  <2> QED
    BY <1>1, <2>1 DEF WaitingAt, Steps, Shape
<1>4. Stage(i, t) => Stage(i, t)'
  <2> SUFFICES ASSUME Stage(i, t) PROVE Stage(i, t)'
    OBVIOUS
  <2>1. As(i, row[i].status)
    BY DEF Stage, WaitingAt
  <2>2. As(i, row[i].status)'
    BY <2>1, SameWorld DEF As
  <2>3. pc = "rebuild" => registry'[i] = NoProc
    BY <1>1 DEF World, Of
  <2> QED
    BY <2>2, <2>3 DEF Steps, Stage, WaitingAt
<1>5. pc \in DOMAIN OpsAt \ {"idle"}
  BY DEF WaitingAt, OpsAt
<1> QED
  BY <1>1, <1>2, <1>3, <1>4, <1>5, MovesKeep

(* start and create: a running twin ends the request. *)
LEMMA CheckDuplicateRunningKeeps ==
  ASSUME IInv, NEW t \in Task, CheckDuplicateRunning(t)
  PROVE  IInv'
<1>1. task[t].pc = "duplicates" /\ UNCHANGED World /\ lock' = lock
  BY DEF CheckDuplicateRunning, At, World, memory
<1>2. TypeOK /\ task[t].op \in {"create", "start"} /\ Shape(t) /\ lock \in [Instance -> 0 .. boot]
  BY <1>1, AtPoint DEF OpsAt
<1>3. CASE Rollback(t)
  BY <1>1, <1>3, GivesUp
<1>4. CASE Goto(t, "lock")
  <2>1. /\ Steps(t, "lock") /\ task'[t].proc = task[t].proc /\ task'[t].write = task[t].write
    BY <1>2, <1>4, GotoEffect DEF OpsAt
  <2>2. "lock" \in WaitingAt /\ task[t].pc \in WaitingAt /\ task[t].op \in OpsAt["lock"]
    BY <1>1, <1>2 DEF WaitingAt, OpsAt
  <2> QED
    BY <1>1, <1>2, <2>1, <2>2, GoesOn
<1> QED
  BY <1>3, <1>4 DEF CheckDuplicateRunning

(* The lock is taken, or Redis does not answer: the request goes on. *)
LEMMA LockedKeeps ==
  ASSUME IInv, NEW t \in Task, AcquireLock(t) \/ LockUnavailable(t)
  PROVE  IInv'
<1>1. task[t].pc = "lock" /\ UNCHANGED World
  BY DEF AcquireLock, LockUnavailable, At, World, memory
<1>2. /\ TypeOK /\ task[t].op \in {"create", "start", "resume"} /\ Shape(t)
      /\ lock \in [Instance -> 0 .. boot]
  BY <1>1, AtPoint DEF OpsAt
<1>3. boot \in 0 .. boot
  BY <1>2, BoundsAssumption DEF TypeOK
<1>4. CASE Rollback(t) /\ lock' = lock
  BY <1>1, <1>4, GivesUp
<1> DEFINE pc == IF task[t].op = "resume" THEN "get" ELSE "build"
<1>5. CASE Goto(t, pc) /\ lock' \in [Instance -> 0 .. boot]
  <2>1. pc \in DOMAIN OpsAt /\ pc \in WaitingAt
    BY DEF OpsAt, WaitingAt
  <2>2. /\ Steps(t, pc) /\ task'[t].proc = task[t].proc /\ task'[t].write = task[t].write
    BY <1>2, <1>5, <2>1, GotoEffect
  <2>3. task[t].op \in OpsAt[pc]
    BY <1>2 DEF OpsAt
  <2>4. task[t].pc \in WaitingAt
    BY <1>1 DEF WaitingAt
  <2> QED
    BY <1>1, <1>2, <1>5, <2>1, <2>2, <2>3, <2>4, GoesOn
<1> QED
  BY <1>2, <1>3, <1>4, <1>5 DEF AcquireLock, LockUnavailable

(* stop flushes STOPPING and goes on. *)
LEMMA MarkStoppingKeeps ==
  ASSUME IInv, NEW t \in Task, MarkStopping(t)
  PROVE  IInv'
<1>1. task[t].pc = "mark" /\ UNCHANGED World /\ lock' = lock
  BY DEF MarkStopping, At, World, memory
<1>2. TypeOK /\ task[t].op = "stop" /\ Shape(t) /\ lock \in [Instance -> 0 .. boot]
  BY <1>1, AtPoint DEF OpsAt
<1>3. /\ Steps(t, "get") /\ task'[t].proc = task[t].proc /\ task'[t].write.status = "STOPPING"
  <2>1. Writes(t, "STOPPING", "get")
    BY DEF MarkStopping, Writes
  <2>2. "STOPPING" \in Status /\ "get" \in DOMAIN OpsAt
    BY DEF Status, OpsAt
  <2> QED
    BY <1>2, <2>1, <2>2, WriteEffect
<1>4. "get" \in WaitingAt /\ task[t].pc \in WaitingAt /\ task[t].op \in OpsAt["get"]
  BY <1>1, <1>2 DEF WaitingAt, OpsAt
<1> QED
  BY <1>1, <1>2, <1>3, <1>4, GoesOn

(* No process is registered; on an instance without overlaps that is not   *)
(* stop, which finds a RUNNING row.                                        *)
LEMMA NoProcessKeeps ==
  ASSUME IInv, NEW t \in Task, NoProcess(t)
  PROVE  IInv'
<1>1. task[t].pc = "get" /\ UNCHANGED World /\ lock' = lock /\ registry[Of(t)] = NoProc
  BY DEF NoProcess, At, World, memory
<1>2. /\ TypeOK /\ Base /\ task[t].op \in {"pause", "resume", "stop"} /\ Shape(t)
      /\ lock \in [Instance -> 0 .. boot]
  BY <1>1, AtPoint DEF OpsAt
<1>3. PICK i \in Instance : task[t].inst = i
  BY <1>1, AtPoint
<1>4. CASE task[t].op = "stop"
  <2>1. /\ Steps(t, "release") /\ task'[t].proc = task[t].proc /\ task'[t].write = task[t].write
    BY <1>2, <1>4, GotoEffect DEF NoProcess, OpsAt
  <2>2. ASSUME From(i, task[t].op), Stage(i, t) PROVE FALSE
    <3>1. row[i].status = "RUNNING" /\ As(i, row[i].status)
      BY <1>1, <1>4, <2>2 DEF From, Stage
    <3> QED
      BY <1>1, <1>3, <3>1 DEF As, Of
  <2>3. Shape(t)'
    BY <1>2, <1>3, <1>4, <2>1 DEF Steps, Shape, OpsAt
  <2>4. TypeOK'
    BY <1>1, <1>2, <2>1, MovesType DEF Steps
  <2>5. "release" \in DOMAIN OpsAt \ {"idle"}
    BY DEF OpsAt
  <2> QED
    BY <1>1, <1>3, <2>1, <2>2, <2>3, <2>4, <2>5, MovesKeep
<1>5. CASE task[t].op # "stop"
  <2>1. /\ Steps(t, "rebuild") /\ task'[t].proc = task[t].proc /\ task'[t].write = task[t].write
    BY <1>2, <1>5, GotoEffect DEF NoProcess, OpsAt
  <2>2. "rebuild" \in WaitingAt /\ task[t].pc \in WaitingAt /\ task[t].op \in OpsAt["rebuild"]
    BY <1>1, <1>2, <1>5 DEF WaitingAt, OpsAt
  <2> QED
    BY <1>1, <1>2, <2>1, <2>2, GoesOn
<1> QED
  BY <1>4, <1>5

(* The lock is released, or not: each operation goes on. *)
LEMMA ReleasedKeeps ==
  ASSUME IInv, NEW t \in Task, ReleaseLock(t) \/ ReleaseFails(t)
  PROVE  IInv'
<1>1. task[t].pc = "release" /\ UNCHANGED World /\ Goto(t, After(task[t].op, "release"))
  BY DEF ReleaseLock, ReleaseFails, At, World, memory
<1>2. /\ TypeOK /\ Base /\ task[t].op \in {"pause", "resume", "stop"} /\ Shape(t)
      /\ lock \in [Instance -> 0 .. boot]
  BY <1>1, AtPoint DEF OpsAt
<1>3. lock' \in [Instance -> 0 .. boot]
  BY <1>2, BoundsAssumption DEF ReleaseLock, ReleaseFails, TypeOK
<1>4. PICK i \in Instance : task[t].inst = i
  BY <1>1, AtPoint
<1>5. CASE task[t].op = "resume"
  <2>1. After(task[t].op, "release") = "lock"
    BY <1>5 DEF After
  <2>2. /\ Steps(t, "lock") /\ task'[t].proc = task[t].proc /\ task'[t].write = task[t].write
    BY <1>1, <1>2, <2>1, GotoEffect DEF OpsAt
  <2>3. "lock" \in WaitingAt /\ task[t].op \in OpsAt["lock"]
    BY <1>5 DEF WaitingAt, OpsAt
  <2> QED
    BY <1>1, <1>2, <1>3, <1>5, <2>2, <2>3, GoesOn
<1>6. CASE task[t].op = "pause"
  <2>1. After(task[t].op, "release") = "commit"
    BY <1>6 DEF After
  <2>2. /\ Steps(t, "commit") /\ task'[t].proc = task[t].proc /\ task'[t].write = task[t].write
    BY <1>1, <1>2, <2>1, GotoEffect DEF OpsAt
  <2>3. TypeOK'
    BY <1>1, <1>2, <1>3, <2>2, MovesType DEF Steps
  <2>4. task[t].write.status = "PAUSED"
    BY <1>2, <1>1, <1>6 DEF Shape
  <2>5. Shape(t)'
    BY <1>1, <1>2, <1>4, <1>6, <2>2, <2>4 DEF Steps, Shape, OpsAt, Written
  <2>6. ASSUME Stage(i, t) PROVE Stage(i, t)'
    <3>1. As(i, "PAUSED")'
      BY <1>1, <1>6, <2>6, SameWorld DEF Stage
    <3>2. Due(t)' = "PAUSED"
      BY <2>2, <2>4 DEF Due
    <3>3. As(i, Due(t))'
      BY <3>1, <3>2 DEF As, Quiet
    <3> QED
      BY <1>6, <2>2, <3>3 DEF Steps, Stage
  <2>7. "commit" \in DOMAIN OpsAt \ {"idle"}
    BY DEF OpsAt
  <2> QED
    BY <1>1, <1>4, <2>2, <2>3, <2>5, <2>6, <2>7, MovesKeep
<1>7. CASE task[t].op = "stop"
  <2>1. After(task[t].op, "release") = "unregister"
    BY <1>7 DEF After
  <2>2. /\ Steps(t, "unregister") /\ task'[t].proc = task[t].proc /\ task'[t].write = task[t].write
    BY <1>1, <1>2, <2>1, GotoEffect DEF OpsAt
  <2>3. TypeOK'
    BY <1>1, <1>2, <1>3, <2>2, MovesType DEF Steps
  <2>4. Shape(t)'
    BY <1>2, <1>4, <1>7, <2>2 DEF Steps, Shape, OpsAt
  <2>5. ASSUME Stage(i, t) PROVE Stage(i, t)'
    BY <1>1, <1>7, <2>2, <2>5, SameWorld DEF Steps, Stage
  <2>6. "unregister" \in DOMAIN OpsAt \ {"idle"}
    BY DEF OpsAt
  <2> QED
    BY <1>1, <1>4, <2>2, <2>3, <2>4, <2>5, <2>6, MovesKeep
<1> QED
  BY <1>2, <1>5, <1>6, <1>7

(* The wiring is left out or has failed: the process runs without it. *)
LEMMA WireSkippedKeeps ==
  ASSUME IInv, NEW t \in Task, WireSkipped(t)
  PROVE  IInv'
<1>1. task[t].pc \in {"wire", "subscribe"} /\ UNCHANGED World /\ lock' = lock
  BY DEF WireSkipped, At, World, memory
<1>2. PICK i \in Instance : task[t].inst = i
  BY <1>1, AtPoint
<1>3. /\ Base /\ TypeOK /\ task[t].op \in {"create", "start"} /\ Shape(t)
      /\ lock \in [Instance -> 0 .. boot]
  BY <1>1, AtPoint DEF OpsAt
<1>4. /\ Steps(t, "persist") /\ task'[t].proc = task[t].proc /\ task'[t].write = task[t].write
  BY <1>3, GotoEffect DEF WireSkipped, OpsAt
<1>5. TypeOK'
  BY <1>1, <1>3, <1>4, MovesType DEF Steps
<1>6. Shape(t)'
  BY <1>1, <1>2, <1>3, <1>4 DEF Steps, Shape, OpsAt
<1>7. ASSUME From(i, task[t].op), Stage(i, t) PROVE Stage(i, t)'
  <2>1. Target(task[t].op) = "RUNNING" /\ task[t].proc # NoProc
    BY <1>1, <1>3, NoneAssumption DEF Target, Shape
  <2>2. As(i, "RUNNING")
    BY <1>1, <1>7, <2>1 DEF Stage, As, Quiet
  <2>3. As(i, "RUNNING")' /\ Target(task[t].op)' = "RUNNING"
    BY <1>1, <1>4, <2>1, <2>2, SameWorld DEF Steps
  <2>4. As(i, Target(task[t].op))'
    BY <2>3 DEF As, Quiet
  <2> QED
    BY <1>3, <1>4, <2>4 DEF Steps, Stage
<1>8. "persist" \in DOMAIN OpsAt \ {"idle"}
  BY DEF OpsAt
<1> QED
  BY <1>1, <1>2, <1>4, <1>5, <1>6, <1>7, <1>8, MovesKeep

(* The status is flushed. *)
LEMMA PersistKeeps ==
  ASSUME IInv, NEW t \in Task, Persist(t)
  PROVE  IInv'
<1>1. task[t].pc = "persist" /\ UNCHANGED World /\ lock' = lock
  BY DEF Persist, At, World, memory
<1>2. PICK i \in Instance : task[t].inst = i
  BY <1>1, AtPoint
<1>3. /\ Base /\ TypeOK /\ task[t].op \in {"create", "start", "pause", "resume"} /\ Shape(t)
      /\ lock \in [Instance -> 0 .. boot]
  BY <1>1, AtPoint DEF OpsAt
<1>4. CASE task[t].op = "pause"
  <2>1. Writes(t, "PAUSED", "release")
    BY <1>4 DEF Persist, Target, Writes
  <2>2. "PAUSED" \in Status /\ "release" \in DOMAIN OpsAt \ {"idle"}
    BY DEF Status, OpsAt
  <2>3. /\ Steps(t, "release") /\ task'[t].proc = task[t].proc
        /\ task'[t].write.status = "PAUSED"
    BY <1>3, <2>1, <2>2, WriteEffect
  <2>4. TypeOK'
    BY <1>1, <1>3, <2>3, MovesType DEF Steps
  <2>5. Shape(t)'
    BY <1>1, <1>2, <1>3, <1>4, <2>3 DEF Steps, Shape, OpsAt
  <2>6. ASSUME Stage(i, t) PROVE Stage(i, t)'
    <3>1. As(i, "PAUSED")
      BY <1>1, <1>4, <2>6 DEF Stage, Target
    <3>2. As(i, "PAUSED")'
      BY <1>1, <3>1, SameWorld
    <3> QED
      BY <1>4, <2>3, <3>2 DEF Steps, Stage
  <2> QED
    BY <1>1, <1>2, <2>2, <2>3, <2>4, <2>5, <2>6, MovesKeep
<1>5. CASE task[t].op # "pause"
  <2>1. Writes(t, "RUNNING", "commit")
    BY <1>3, <1>5 DEF Persist, Target, Writes
  <2>2. "RUNNING" \in Status /\ "commit" \in DOMAIN OpsAt \ {"idle"}
    BY DEF Status, OpsAt
  <2>3. /\ Steps(t, "commit") /\ task'[t].proc = task[t].proc
        /\ task'[t].write.status = "RUNNING"
    BY <1>3, <2>1, <2>2, WriteEffect
  <2>4. TypeOK'
    BY <1>1, <1>3, <2>3, MovesType DEF Steps
  <2>5. Shape(t)'
    BY <1>1, <1>2, <1>3, <1>5, <2>3 DEF Steps, Shape, OpsAt, Written
  <2>6. ASSUME Stage(i, t) PROVE Stage(i, t)'
    <3>1. As(i, "RUNNING")
      BY <1>1, <1>3, <1>5, <2>6 DEF Stage, Target
    <3>2. As(i, "RUNNING")' /\ Due(t)' = "RUNNING"
      BY <1>1, <2>3, <3>1, SameWorld DEF Due
    <3>3. As(i, Due(t))'
      BY <3>2 DEF As, Quiet
    <3> QED
      BY <1>3, <1>5, <2>3, <3>3 DEF Steps, Stage
  <2> QED
    BY <1>1, <1>2, <2>2, <2>3, <2>4, <2>5, <2>6, MovesKeep
<1> QED
  BY <1>4, <1>5

(* The row is marked deleted; its status stays. *)
LEMMA RemoveKeeps ==
  ASSUME IInv, NEW t \in Task, Remove(t)
  PROVE  IInv'
<1>1. task[t].pc = "remove" /\ UNCHANGED World /\ lock' = lock
  BY DEF Remove, At, World, memory
<1>2. PICK i \in Instance : task[t].inst = i
  BY <1>1, AtPoint
<1>3. /\ Base /\ TypeOK /\ task[t].op = "delete" /\ Shape(t) /\ task[t] \in TaskRecord
      /\ lock \in [Instance -> 0 .. boot] /\ task \in [Task -> TaskRecord]
  BY <1>1, AtPoint DEF OpsAt
<1> DEFINE w == [task[t].write EXCEPT !.deleted = TRUE]
           rec == [task[t] EXCEPT !.write = w, !.pc = "commit"]
<1>4. w \in [status : Status, deleted : BOOLEAN] /\ w.status = task[t].write.status
  BY <1>3 DEF TaskRecord
<1>5. rec \in TaskRecord /\ rec.pc = "commit" /\ rec.op = task[t].op /\ rec.inst = task[t].inst
      /\ rec.proc = task[t].proc /\ rec.write = w
  BY <1>3, <1>4 DEF TaskRecord
<1>6. task' = [task EXCEPT ![t] = rec]
  BY <1>3 DEF Remove, TaskRecord
<1> HIDE DEF w, rec
<1>7. /\ Steps(t, "commit") /\ task'[t].proc = task[t].proc
      /\ task'[t].write.status = task[t].write.status
  BY <1>3, <1>4, <1>5, <1>6 DEF Steps
<1>8. TypeOK'
  BY <1>1, <1>3, <1>7, MovesType DEF Steps
<1>9. Shape(t)'
  BY <1>2, <1>3, <1>7 DEF Steps, Shape, OpsAt, Written
<1>10. ASSUME Stage(i, t) PROVE Stage(i, t)'
  <2>1. As(i, row[i].status)
    BY <1>1, <1>10 DEF Stage
  <2>2. As(i, row[i].status)'
    BY <1>1, <2>1, SameWorld DEF As
  <2>3. Due(t)' = row[i].status
    BY <1>1, <1>2, <1>3, <1>7 DEF Due, Of, Steps, Shape, World
  <2>4. As(i, Due(t))'
    BY <1>1, <2>2, <2>3, SameWorld DEF As, Quiet
  <2> QED
    BY <1>3, <1>7, <2>4 DEF Steps, Stage
<1>11. "commit" \in DOMAIN OpsAt \ {"idle"}
  BY DEF OpsAt
<1> QED
  BY <1>1, <1>2, <1>7, <1>8, <1>9, <1>10, <1>11, MovesKeep

-----------------------------------------------------------------------------
(* Steps that change what the instance has.                                *)

(* The other instances keep what they have. *)
OthersKeep(i) ==
  \A j \in Instance \ {i} :
    /\ registry'[j] = registry[j] /\ subs'[j] = subs[j]
    /\ grid'[j] = grid[j] /\ orphans'[j] = orphans[j]
    /\ \A p \in Names(j) : procs'[p] = procs[p]

(* The objects an instance names come from its registry entry and its      *)
(* requests.                                                               *)
LEMMA NamedBy ==
  ASSUME Base, NEW t \in Task, NEW i \in Instance, task[t].inst = i,
         \A u \in Task \ {t} : task'[u] = task[u]
  PROVE  \A p \in Names(i)' : p \in Names(i) \/ p = registry'[i] \/ p = task'[t].proc
<1>1. SUFFICES ASSUME NEW p \in Names(i)', p # registry'[i], p # task'[t].proc
               PROVE  p \in Names(i)
  OBVIOUS
<1>2. p \in ({registry'[i]} \cup {task'[u].proc : u \in Busy(i)'}) \ {NoProc}
  BY DEF Names
<1>3. PICK u \in Busy(i)' : p = task'[u].proc
  BY <1>1, <1>2
<1>4. u \in Task /\ task'[u].inst = i /\ u # t
  BY <1>1, <1>3 DEF Busy
<1>5. task[u].inst = i /\ task[u].proc = p
  BY <1>3, <1>4
<1> QED
  BY <1>2, <1>4, <1>5 DEF Names, Busy

(* The sets of objects are finite, their sizes numbers. *)
LEMMA FewNames ==
  ASSUME Base, NEW i \in Instance
  PROVE  /\ Names(i) \subseteq Proc /\ IsFiniteSet(Subscribed(i))
         /\ Cardinality(Subscribed(i)) \in Nat /\ subs[i] \in Nat
         /\ Cardinality(Subscribed(i)) <= subs[i]
<1>1. Names(i) \subseteq Proc
  BY TaskFields DEF Names, Busy, Base, TypeOK
<1>2. IsFiniteSet(Subscribed(i))
  BY <1>1, ProcAssumption, FS_Subset DEF Subscribed
<1> QED
  BY <1>1, <1>2, FS_CardinalityType DEF Base, Counted, TypeOK

(* No new object that can unsubscribe: the count still holds. *)
LEMMA CountStays ==
  ASSUME Base, NEW i \in Instance, subs'[i] = subs[i], Subscribed(i)' \subseteq Subscribed(i)
  PROVE  Cardinality(Subscribed(i))' <= subs'[i]
<1>1. /\ Cardinality(Subscribed(i)') <= Cardinality(Subscribed(i))
      /\ Cardinality(Subscribed(i)') \in Nat
  BY FewNames, FS_Subset, FS_CardinalityType
<1> QED
  BY <1>1, FewNames

(* A request that moves on and changes its instance, well or badly, keeps   *)
(* the invariant.                                                          *)
LEMMA WorksOn ==
  ASSUME IInv, TypeOK', NEW t \in Task, NEW i \in Instance, task[t].inst = i,
         NEW pc \in DOMAIN OpsAt \ {"idle"}, Steps(t, pc), Shape(t)',
         UNCHANGED <<row, boot, phase>>, OthersKeep(i),
         \A j \in Instance \ {i} : mishap'[j] = mishap[j],
         Alone(i)' => Alone(i), Whole(i)' => Whole(i),
         \A p \in Names(i)' : p \in Names(i) \/ p \notin InUse,
         Cardinality(Subscribed(i))' <= subs'[i],
         grid'[i].state = "none" => ~grid'[i].orders,
         Whole(i)' /\ From(i, task[t].op) /\ Stage(i, t) => Stage(i, t)'
  PROVE  IInv'
<1>0. Base /\ task[t].pc # "idle"
  BY AtWork DEF IInv
<1>1. Elsewhere(t, i)
  BY <1>0 DEF Elsewhere, OthersKeep, Steps, Base, TypeOK
<1>2. ASSUME Alone(i)' PROVE Followed(i)'
  <2>1. Alone(i) /\ (Whole(i)' => Whole(i))
    BY <1>2
  <2>2. task'[t].inst = i /\ task'[t].op = task[t].op
    BY DEF Steps
  <2>3. Busy(i)' = {t} /\ From(i, task[t].op) /\ (Whole(i)' => Stage(i, t)')
    BY <1>1, <2>1, <2>2, OnlyRequest
  <2>4. From(i, task[t].op)'
    BY <2>2, <2>3 DEF From
  <2> QED
    BY <2>3, <2>4 DEF Followed
<1>3. row'[i].status = "ERROR" => row[i].status = "ERROR" /\ task'[t].op = "delete"
  BY <1>0 DEF Base, ErrorFinal, Steps
<1> QED
  BY <1>1, <1>2, <1>3, RequestKeeps

(* The same, of steps without mishap. *)
LEMMA WorksKeep ==
  ASSUME IInv, TypeOK', NEW t \in Task, NEW i \in Instance, task[t].inst = i,
         NEW pc \in DOMAIN OpsAt \ {"idle"}, Steps(t, pc), Shape(t)',
         UNCHANGED <<row, boot, phase, mishap>>, OthersKeep(i),
         \A p \in Names(i)' : p \in Names(i) \/ p \notin InUse,
         Cardinality(Subscribed(i))' <= subs'[i],
         grid'[i].state = "none" => ~grid'[i].orders,
         From(i, task[t].op) /\ Stage(i, t) => Stage(i, t)'
  PROVE  IInv'
<1>1. (Alone(i)' => Alone(i)) /\ (Whole(i)' => Whole(i))
  BY DEF Alone, Whole
<1>2. \A j \in Instance \ {i} : mishap'[j] = mishap[j]
  OBVIOUS
<1> QED
  BY <1>1, <1>2, WorksOn

(* The objects of other instances are none of this one's. *)
LEMMA NamesApart ==
  ASSUME Base, NEW i \in Instance, NEW j \in Instance \ {i}, NEW p \in Names(j)
  PROVE  p \notin Names(i) /\ p # registry[i] /\ p \in Proc /\ p \in InUse
BY FewNames, NamesInUse, NoneAssumption DEF Base, Owned, Names

(* The wiring puts a new grid over the old one. *)
LEMMA WiredKeeps ==
  ASSUME IInv, NEW t \in Task, WireGrid(t) \/ \E placed \in BOOLEAN : WireBreaks(t, placed)
  PROVE  IInv'
<1>1. task[t].pc = "wire" /\ UNCHANGED <<row, lock, registry, procs, subs, boot, phase, fixed, mishap>>
  BY DEF WireGrid, WireBreaks, At
<1>2. PICK i \in Instance : task[t].inst = i
  BY <1>1, AtPoint
<1>3. /\ Base /\ TypeOK /\ task[t].op \in {"create", "start"} /\ Shape(t)
  BY <1>1, AtPoint DEF OpsAt
<1>4. PICK placed \in BOOLEAN, pc \in {"subscribe", "persist"} :
        /\ Goto(t, pc)
        /\ grid' = [grid EXCEPT ![i] = [state |-> "active", orders |-> placed]]
        /\ orphans' = [orphans EXCEPT ![i] = @ \/ grid[i].orders]
  BY <1>2 DEF WireGrid, WireBreaks, Of
<1>5. pc \in DOMAIN OpsAt \ {"idle"}
  BY DEF OpsAt
<1>6. /\ Steps(t, pc) /\ task'[t].proc = task[t].proc /\ task'[t].write = task[t].write
  BY <1>3, <1>4, <1>5, GotoEffect
<1>7. /\ grid \in [Instance -> [state : {"none", "active", "paused"}, orders : BOOLEAN]]
      /\ orphans \in [Instance -> BOOLEAN]
  BY <1>3 DEF TypeOK
<1>8. /\ grid'[i] = [state |-> "active", orders |-> placed]
      /\ orphans'[i] = (orphans[i] \/ grid[i].orders)
      /\ grid' \in [Instance -> [state : {"none", "active", "paused"}, orders : BOOLEAN]]
      /\ orphans' \in [Instance -> BOOLEAN]
  BY <1>4, <1>7
<1>9. TypeOK'
  BY <1>1, <1>3, <1>6, <1>8 DEF TypeOK, Steps
<1>10. Shape(t)'
  BY <1>1, <1>2, <1>3, <1>4, <1>6 DEF Steps, Shape, OpsAt
<1>11. OthersKeep(i)
  BY <1>1, <1>4, <1>7 DEF OthersKeep
<1>12. \A p \in Names(i)' : p \in Names(i)
  <2>1. registry'[i] = NoProc \/ registry'[i] \in Names(i)
    BY <1>1 DEF Names
  <2>2. task'[t].proc = NoProc \/ task'[t].proc \in Names(i)
    BY <1>2, <1>6 DEF Names, Busy
  <2>3. NoProc \notin Names(i)'
    BY DEF Names
  <2> QED
    BY <1>2, <1>3, <1>6, <2>1, <2>2, <2>3, NamedBy DEF Steps
<1>13. Cardinality(Subscribed(i))' <= subs'[i]
  <2>1. Subscribed(i)' \subseteq Subscribed(i)
    BY <1>1, <1>12 DEF Subscribed
  <2> QED
    BY <1>1, <1>3, <2>1, CountStays
<1>14. ASSUME Stage(i, t) PROVE Stage(i, t)'
  <2>1. /\ registry[i] = task[t].proc /\ procs[task[t].proc].status = "RUNNING"
        /\ ~procs[task[t].proc].sub /\ subs[i] = 0
        /\ Clear(i)
        /\ PausesHold(i) => ~grid[i].orders
    BY <1>1, <1>14 DEF Stage
  <2>2. task[t].proc # NoProc
    BY <1>1, <1>3, NoneAssumption DEF Shape
  <2>3. /\ registry'[i] = task'[t].proc /\ procs'[task'[t].proc].status = "RUNNING"
        /\ ~procs'[task'[t].proc].sub /\ subs'[i] = 0
        /\ Clear(i)'
    BY <1>1, <1>6, <1>8, <2>1 DEF Clear, PausesHold
  <2>4. CASE pc = "subscribe"
    BY <1>3, <1>6, <2>3, <2>4 DEF Steps, Stage
  <2>5. CASE pc = "persist"
    <3>1. As(i, "RUNNING")' /\ Target(task[t].op)' = "RUNNING"
      BY <1>3, <1>6, <2>2, <2>3 DEF As, Quiet, Target, Steps
    <3>2. As(i, Target(task[t].op))'
      BY <3>1 DEF As, Quiet
    <3> QED
      BY <1>6, <2>5, <3>2 DEF Steps, Stage
  <2> QED
    BY <2>4, <2>5
<1> QED
  BY <1>1, <1>2, <1>5, <1>6, <1>8, <1>9, <1>10, <1>11, <1>12, <1>13, <1>14, WorksKeep

(* Giving one object to a request. *)
LEMMA GivenEffect ==
  ASSUME TypeOK, NEW t \in Task, NEW pc \in DOMAIN OpsAt, NEW p \in Proc,
         Takes(t, p, pc)
  PROVE  Steps(t, pc) /\ task'[t].proc = p /\ task'[t].write = task[t].write
<1>1. task[t] \in TaskRecord /\ task \in [Task -> TaskRecord]
  BY DEF TypeOK
<1> DEFINE rec == [task[t] EXCEPT !.proc = p, !.pc = pc]
<1>2. /\ rec \in TaskRecord /\ rec.pc = pc /\ rec.op = task[t].op /\ rec.inst = task[t].inst
      /\ rec.proc = p /\ rec.write = task[t].write
  BY <1>1 DEF TaskRecord, OpsAt
<1>3. task' = [task EXCEPT ![t] = rec]
  BY <1>1 DEF Takes, TaskRecord
<1> HIDE DEF rec
<1>4. /\ task'[t] = rec /\ task' \in [Task -> TaskRecord]
      /\ \A u \in Task \ {t} : task'[u] = task[u]
  <2>1. rec \in TaskRecord
    BY <1>2
  <2> QED
    BY <1>1, <1>3, <2>1
<1> QED
  BY <1>2, <1>4 DEF Steps

(* start, create, and pause and resume that find no process: a new object  *)
(* is put over the registered one, which is gone unless a request holds it. *)
LEMMA BuildsKeep ==
  ASSUME IInv, NEW t \in Task, Build(t) \/ Rebuild(t)
  PROVE  IInv'
<1>1. /\ task[t].pc \in {"build", "rebuild"}
      /\ UNCHANGED <<row, lock, subs, grid, orphans, boot, phase, fixed, mishap>>
  BY DEF Build, Rebuild, At
<1>2. PICK i \in Instance : task[t].inst = i
  BY <1>1, AtPoint
<1>3. /\ Base /\ TypeOK /\ Shape(t) /\ task[t].proc = NoProc
      /\ task[t].pc = "build" => task[t].op \in {"create", "start"}
      /\ task[t].pc = "rebuild" => task[t].op \in {"pause", "resume"}
  BY <1>1, AtPoint DEF OpsAt, Shape
<1> DEFINE p == NewProc
           new == [procs EXCEPT ![p] = [status |-> "RUNNING", sub |-> FALSE]]
           kept == {p} \cup (InUse \ ({registry[i]} \ HeldByOthers(t)))
<1>4. PICK pc \in {"wire", "unwire", "persist"} :
        /\ pc = "wire" <=> task[t].op \in {"create", "start"}
        /\ pc = "unwire" <=> task[t].op = "pause"
        /\ registry' = [registry EXCEPT ![i] = p]
        /\ procs' = Collected(new, kept)
        /\ Takes(t, p, pc)
  <2>1. CASE Build(t)
    BY <1>2, <1>3, <2>1 DEF Build, BuildAs, Of, At, Takes
  <2>2. CASE Rebuild(t)
    BY <1>2, <1>3, <2>2 DEF Rebuild, BuildAs, Of, At, After, Takes
  <2> QED
    BY <2>1, <2>2
<1>5. p \in Proc /\ p \notin InUse /\ p # NoProc
  BY <1>3, NewProcFree, NoneAssumption
<1>6. /\ registry \in [Instance -> Proc \cup {NoProc}]
      /\ procs \in [Proc -> [status : Status, sub : BOOLEAN]]
  BY <1>3 DEF TypeOK
<1>7. new \in [Proc -> [status : Status, sub : BOOLEAN]]
      /\ new[p] = [status |-> "RUNNING", sub |-> FALSE]
      /\ \A q \in Proc : q # p => new[q] = procs[q]
  BY <1>5, <1>6 DEF Status
<1>a. p \in kept /\ kept = {p} \cup (InUse \ ({registry[i]} \ HeldByOthers(t)))
  OBVIOUS
<1> HIDE DEF p, new, kept
<1>8. pc \in DOMAIN OpsAt \ {"idle"}
  BY DEF OpsAt
<1>9. Steps(t, pc) /\ task'[t].proc = p /\ task'[t].write = task[t].write
  BY <1>3, <1>4, <1>5, <1>8, GivenEffect
<1>10. /\ registry'[i] = p /\ \A j \in Instance \ {i} : registry'[j] = registry[j]
       /\ registry' \in [Instance -> Proc \cup {NoProc}]
  BY <1>4, <1>5, <1>6
<1>11. /\ procs' \in [Proc -> [status : Status, sub : BOOLEAN]]
       /\ procs'[p] = [status |-> "RUNNING", sub |-> FALSE]
       /\ \A q \in Proc : procs'[q].sub => q # p /\ procs[q].sub
       /\ \A q \in Proc : q # p /\ q \in kept => procs'[q] = procs[q]
  <2>1. Blank \in [status : Status, sub : BOOLEAN] /\ ~Blank.sub
    BY DEF Blank, Status
  <2> QED
    BY <1>4, <1>5, <1>7, <1>a, <2>1 DEF Collected
<1>12. TypeOK'
  BY <1>1, <1>3, <1>9, <1>10, <1>11 DEF TypeOK, Steps
<1>13. Shape(t)'
  <2>1. task[t].op \in {"create", "start", "pause", "resume"} /\ task[t].write.status # "ERROR"
    BY <1>1, <1>3 DEF Shape
  <2>2. task[t].op \in OpsAt[pc]
    BY <1>4, <2>1 DEF OpsAt
  <2> QED
    BY <1>2, <1>5, <1>9, <2>1, <2>2 DEF Steps, Shape
<1>14. OthersKeep(i)
  <2>1. ASSUME NEW j \in Instance \ {i}, NEW q \in Names(j) PROVE procs'[q] = procs[q]
    <3>1. q \in Proc /\ q \in InUse /\ q # registry[i] /\ q # p
      BY <1>3, <1>5, NamesApart
    <3> QED
      BY <1>11, <1>a, <3>1
  <2> QED
    BY <1>1, <1>10, <2>1 DEF OthersKeep
<1>15. \A q \in Names(i)' : q \in Names(i) \/ q = p
  BY <1>2, <1>3, <1>9, <1>10, NamedBy DEF Steps
<1>16. Cardinality(Subscribed(i))' <= subs'[i]
  <2>1. Names(i) \subseteq Proc
    BY <1>3, FewNames
  <2>2. Subscribed(i)' \subseteq Subscribed(i)
    BY <1>5, <1>11, <1>15, <2>1 DEF Subscribed
  <2> QED
    BY <1>1, <1>3, <2>2, CountStays
<1>17. ASSUME From(i, task[t].op), Stage(i, t) PROVE Stage(i, t)'
  <2>1. As(i, row[i].status)
    BY <1>1, <1>17 DEF Stage
  <2>2. Clear(i)
    BY <2>1 DEF As, Quiet
  <2>a. Clear(i)' /\ PausesHold(i)' = PausesHold(i)
    BY <1>1, <2>2 DEF Clear, PausesHold
  <2>3. CASE pc = "wire"
    <3>1. row[i].status \notin {"RUNNING"} /\ (row[i].status = "PAUSED" => subs[i] = 0)
      <4>1. row[i].status # "RUNNING"
        BY <1>4, <1>17, <2>3 DEF From
      <4> QED
        BY <1>3, <2>1, <4>1 DEF As, Quiet, TypeOK
    <3>2. subs[i] = 0 /\ (PausesHold(i) => ~grid[i].orders)
      BY <1>3, <2>1, <3>1 DEF As, Quiet, TypeOK
    <3> QED
      BY <1>1, <1>4, <1>9, <1>10, <1>11, <2>a, <2>3, <3>2 DEF Steps, Stage
  <2>4. CASE pc = "unwire"
    <3>1. task[t].pc = "rebuild"
      BY <1>1, <1>3, <1>4, <2>4
    <3>2. subs[i] = 0
      BY <1>17, <2>1, <3>1 DEF Stage, As, Quiet
    <3> QED
      BY <1>1, <1>4, <1>9, <1>10, <1>11, <2>a, <2>4, <3>2 DEF Steps, Stage
  <2>5. CASE pc = "persist"
    <3>1. task[t].pc = "rebuild" /\ task[t].op = "resume"
      BY <1>1, <1>3, <1>4, <2>5
    <3>2. subs[i] = 0
      BY <1>17, <2>1, <3>1 DEF Stage, As, Quiet
    <3>3. As(i, "RUNNING")' /\ Target(task[t].op)' = "RUNNING"
      BY <1>1, <1>5, <1>9, <1>10, <1>11, <2>a, <3>1, <3>2 DEF As, Quiet, Target, Steps
    <3>4. As(i, Target(task[t].op))'
      BY <3>3 DEF As, Quiet
    <3> QED
      BY <1>3, <1>9, <2>5, <3>1, <3>4 DEF Steps, Stage
  <2> QED
    BY <2>3, <2>4, <2>5
<1>18. grid'[i].state = "none" => ~grid'[i].orders
  BY <1>1, <1>3 DEF Base
<1> QED
  BY <1>1, <1>2, <1>5, <1>8, <1>9, <1>12, <1>13, <1>14, <1>15, <1>16, <1>17, <1>18, WorksKeep

(* start and create listen to the market. *)
LEMMA SubscribeKeeps ==
  ASSUME IInv, NEW t \in Task, Subscribe(t)
  PROVE  IInv'
<1>1. /\ task[t].pc = "subscribe" /\ Goto(t, "persist")
      /\ UNCHANGED <<row, lock, registry, grid, orphans, boot, phase, fixed, mishap>>
  BY DEF Subscribe, At
<1>2. PICK i \in Instance : task[t].inst = i
  BY <1>1, AtPoint
<1>3. /\ Base /\ TypeOK /\ task[t].op \in {"create", "start"} /\ Shape(t)
      /\ task[t].proc \in Proc
  BY <1>1, AtPoint DEF OpsAt, Shape
<1> DEFINE p == task[t].proc
<1>4. /\ subs' = [subs EXCEPT ![i] = @ + 1] /\ subs \in [Instance -> Nat]
      /\ procs' = [procs EXCEPT ![p].sub = TRUE]
      /\ procs \in [Proc -> [status : Status, sub : BOOLEAN]]
      /\ p \in Proc /\ p # NoProc
  BY <1>2, <1>3, NoneAssumption DEF Subscribe, Of, TypeOK
<1>5. "persist" \in DOMAIN OpsAt \ {"idle"}
  BY DEF OpsAt
<1>6. /\ Steps(t, "persist") /\ task'[t].proc = p /\ task'[t].write = task[t].write
  BY <1>1, <1>3, <1>5, GotoEffect
<1>7. /\ p \in Names(i) /\ \A j \in Instance \ {i} : p \notin Names(j)
  <2>1. p \in Names(i)
    BY <1>2, <1>4 DEF Names, Busy
  <2> QED
    BY <1>3, <2>1, NamesApart
<1> HIDE DEF p
<1>8. /\ procs' \in [Proc -> [status : Status, sub : BOOLEAN]]
      /\ procs'[p].sub /\ procs'[p].status = procs[p].status
      /\ \A q \in Proc : q # p => procs'[q] = procs[q]
      /\ subs'[i] = subs[i] + 1 /\ subs' \in [Instance -> Nat]
      /\ \A j \in Instance : j # i => subs'[j] = subs[j]
  <2>1. /\ subs'[i] = subs[i] + 1 /\ subs' \in [Instance -> Nat]
        /\ \A j \in Instance : j # i => subs'[j] = subs[j]
    <3>1. subs[i] + 1 \in Nat
      BY <1>4
    <3> QED
      BY <1>4, <3>1
  <2>2. /\ procs' \in [Proc -> [status : Status, sub : BOOLEAN]]
        /\ procs'[p].sub /\ procs'[p].status = procs[p].status
        /\ \A q \in Proc : q # p => procs'[q] = procs[q]
    BY <1>4
  <2> QED
    BY <2>1, <2>2
<1>9. TypeOK'
  BY <1>1, <1>3, <1>6, <1>8 DEF TypeOK, Steps
<1>10. Shape(t)'
  BY <1>1, <1>2, <1>3, <1>4, <1>6 DEF Steps, Shape, OpsAt
<1>11. OthersKeep(i)
  BY <1>1, <1>3, <1>7, <1>8, FewNames DEF OthersKeep
<1>12. \A q \in Names(i)' : q \in Names(i)
  <2>1. registry'[i] = NoProc \/ registry'[i] \in Names(i)
    BY <1>1 DEF Names
  <2>2. NoProc \notin Names(i)'
    BY DEF Names
  <2> QED
    BY <1>2, <1>3, <1>6, <1>7, <2>1, <2>2, NamedBy DEF Steps
<1>13. Cardinality(Subscribed(i))' <= subs'[i]
  <2>1. Subscribed(i)' \subseteq Subscribed(i) \cup {p}
    BY <1>3, <1>8, <1>12, FewNames DEF Subscribed
  <2>2. /\ IsFiniteSet(Subscribed(i) \cup {p})
        /\ Cardinality(Subscribed(i) \cup {p}) <= Cardinality(Subscribed(i)) + 1
        /\ Cardinality(Subscribed(i) \cup {p}) \in Nat
    <3>1. /\ IsFiniteSet(Subscribed(i)) /\ Cardinality(Subscribed(i)) \in Nat
      BY <1>3, FewNames
    <3>2. /\ IsFiniteSet(Subscribed(i) \cup {p})
          /\ \/ Cardinality(Subscribed(i) \cup {p}) = Cardinality(Subscribed(i))
             \/ Cardinality(Subscribed(i) \cup {p}) = Cardinality(Subscribed(i)) + 1
      BY <3>1, FS_AddElement
    <3> QED
      BY <3>1, <3>2
  <2>3. /\ Cardinality(Subscribed(i)') <= Cardinality(Subscribed(i) \cup {p})
        /\ Cardinality(Subscribed(i)') \in Nat
    BY <2>1, <2>2, FS_Subset, FS_CardinalityType
  <2> QED
    BY <1>3, <1>8, <2>2, <2>3, FewNames
<1>14. ASSUME Stage(i, t) PROVE Stage(i, t)'
  <2>1. /\ registry[i] = p /\ procs[p].status = "RUNNING" /\ subs[i] = 0
        /\ Clear(i)
    BY <1>1, <1>14 DEF Stage, p
  <2>a. Clear(i)' /\ PausesHold(i)' = PausesHold(i)
    BY <1>1, <2>1 DEF Clear, PausesHold
  <2>2. As(i, "RUNNING")' /\ Target(task[t].op)' = "RUNNING"
    BY <1>1, <1>3, <1>4, <1>6, <1>8, <2>1, <2>a DEF As, Quiet, Target, Steps
  <2>3. As(i, Target(task[t].op))'
    BY <2>2 DEF As, Quiet
  <2> QED
    BY <1>3, <1>6, <2>3 DEF Steps, Stage
<1>15. grid'[i].state = "none" => ~grid'[i].orders
  BY <1>1, <1>3 DEF Base
<1> QED
  BY <1>1, <1>2, <1>5, <1>6, <1>9, <1>10, <1>11, <1>12, <1>13, <1>14, <1>15, WorksKeep

(* pause, resume and stop find the registered process. *)
LEMMA GetProcessKeeps ==
  ASSUME IInv, NEW t \in Task, GetProcess(t)
  PROVE  IInv'
<1>1. /\ task[t].pc = "get"
      /\ UNCHANGED <<row, lock, registry, subs, grid, orphans, boot, phase, fixed, mishap>>
  BY DEF GetProcess, At
<1>2. PICK i \in Instance : task[t].inst = i
  BY <1>1, AtPoint
<1>3. /\ Base /\ TypeOK /\ task[t].op \in {"pause", "resume", "stop"} /\ Shape(t)
  BY <1>1, AtPoint DEF OpsAt
<1> DEFINE p == registry[i]
<1>4. PICK pc \in {"persist", "unwire"}, s \in Status :
      /\ pc = "persist" <=> task[t].op = "resume"
      /\ task[t].op = "pause" => s = procs[p].status
      /\ task[t].op = "resume" => s = "RUNNING"
      /\ p \in Proc /\ p # NoProc
      /\ procs' = [procs EXCEPT ![p].status = s]
      /\ Takes(t, p, pc)
  <2>1. p \in Proc /\ p # NoProc
    BY <1>2, <1>3 DEF GetProcess, TypeOK, Of
  <2>2. procs[p].status \in Status /\ "RUNNING" \in Status /\ "STOPPING" \in Status
    BY <1>3, <2>1 DEF TypeOK, Status
  <2>3. CASE task[t].op = "pause"
    BY <1>2, <2>1, <2>2, <2>3 DEF GetProcess, Of, After, Takes
  <2>4. CASE task[t].op = "resume"
    BY <1>2, <2>1, <2>2, <2>4 DEF GetProcess, Of, After, Target, Takes
  <2>5. CASE task[t].op = "stop"
    BY <1>2, <2>1, <2>2, <2>5 DEF GetProcess, Of, After, Target, Takes
  <2> QED
    BY <1>3, <2>3, <2>4, <2>5
<1>5. p \in Names(i) /\ p = registry[i]
  BY <1>4 DEF Names
<1> HIDE DEF p
<1>6. pc \in DOMAIN OpsAt \ {"idle"}
  BY DEF OpsAt
<1>7. Steps(t, pc) /\ task'[t].proc = p /\ task'[t].write = task[t].write
  BY <1>3, <1>4, <1>6, GivenEffect
<1>8. procs \in [Proc -> [status : Status, sub : BOOLEAN]]
  BY <1>3 DEF TypeOK
<1>9. /\ procs' \in [Proc -> [status : Status, sub : BOOLEAN]]
      /\ procs'[p].status = s
      /\ \A q \in Proc : procs'[q].sub = procs[q].sub
      /\ \A q \in Proc : q # p => procs'[q] = procs[q]
  BY <1>4, <1>8
<1>10. TypeOK'
  BY <1>1, <1>3, <1>7, <1>9 DEF TypeOK, Steps
<1>11. Shape(t)'
  <2>1. task[t].op \in OpsAt[pc]
    BY <1>3, <1>4 DEF OpsAt
  <2>2. task[t].write.status # "ERROR"
    BY <1>3 DEF Shape
  <2> QED
    BY <1>2, <1>3, <1>4, <1>7, <2>1, <2>2 DEF Steps, Shape
<1>12. OthersKeep(i)
  BY <1>1, <1>3, <1>5, <1>9, NamesApart DEF OthersKeep
<1>13. \A q \in Names(i)' : q \in Names(i)
  BY <1>1, <1>2, <1>3, <1>5, <1>7, NamedBy DEF Steps
<1>14. Cardinality(Subscribed(i))' <= subs'[i]
  <2>1. Names(i) \subseteq Proc
    BY <1>3, FewNames
  <2>2. Subscribed(i)' \subseteq Subscribed(i)
    BY <1>9, <1>13, <2>1 DEF Subscribed
  <2> QED
    BY <1>1, <1>3, <2>2, CountStays
<1>15. ASSUME Stage(i, t) PROVE Stage(i, t)'
  <2>1. As(i, row[i].status)
    BY <1>1, <1>15 DEF Stage
  <2>2. /\ subs[i] = (IF procs[p].sub THEN 1 ELSE 0)
        /\ Clear(i)
    BY <1>4, <1>5, <2>1 DEF As, Quiet
  <2>3. /\ registry'[i] = p /\ subs'[i] = (IF procs'[p].sub THEN 1 ELSE 0)
        /\ Clear(i)'
    BY <1>1, <1>4, <1>5, <1>9, <2>2 DEF Clear, PausesHold
  <2>4. CASE pc = "persist"
    <3>1. As(i, "RUNNING")' /\ Target(task[t].op)' = "RUNNING"
      BY <1>4, <1>7, <1>9, <2>3, <2>4 DEF As, Quiet, Target, Steps
    <3>2. As(i, Target(task[t].op))'
      BY <3>1 DEF As, Quiet
    <3> QED
      BY <1>7, <2>4, <3>2 DEF Steps, Stage
  <2>5. CASE pc = "unwire"
    BY <1>7, <2>3, <2>5 DEF Steps, Stage
  <2> QED
    BY <2>4, <2>5
<1>16. grid'[i].state = "none" => ~grid'[i].orders
  BY <1>1, <1>3 DEF Base
<1> QED
  BY <1>1, <1>2, <1>6, <1>7, <1>10, <1>11, <1>12, <1>13, <1>14, <1>15, <1>16, WorksKeep

(* pause and stop unsubscribe through the object they hold. *)
LEMMA UnsubscribeKeeps ==
  ASSUME IInv, NEW t \in Task, Unsubscribe(t)
  PROVE  IInv'
<1>1. /\ task[t].pc = "unwire" /\ Goto(t, "quiet")
      /\ UNCHANGED <<row, lock, registry, grid, orphans, boot, phase, fixed, mishap>>
  BY DEF Unsubscribe, At
<1>2. PICK i \in Instance : task[t].inst = i
  BY <1>1, AtPoint
<1>3. /\ Base /\ TypeOK /\ task[t].op \in {"pause", "stop"} /\ Shape(t)
      /\ task[t].proc \in Proc
  BY <1>1, AtPoint DEF OpsAt, Shape
<1> DEFINE p == task[t].proc
<1>4. /\ subs' = [subs EXCEPT ![i] = IF procs[p].sub THEN @ - 1 ELSE @]
      /\ subs \in [Instance -> Nat]
      /\ procs' = [procs EXCEPT ![p].sub = FALSE]
      /\ procs \in [Proc -> [status : Status, sub : BOOLEAN]]
      /\ p \in Proc /\ p # NoProc /\ p = task[t].proc
  BY <1>2, <1>3, NoneAssumption DEF Unsubscribe, Of, TypeOK
<1>5. "quiet" \in DOMAIN OpsAt \ {"idle"}
  BY DEF OpsAt
<1>6. /\ Steps(t, "quiet") /\ task'[t].proc = p /\ task'[t].write = task[t].write
  BY <1>1, <1>3, <1>5, GotoEffect
<1>7. /\ p \in Names(i) /\ \A j \in Instance \ {i} : p \notin Names(j)
  <2>1. p \in Names(i)
    BY <1>2, <1>4 DEF Names, Busy
  <2> QED
    BY <1>3, <2>1, NamesApart
<1> HIDE DEF p
<1>8. /\ procs' \in [Proc -> [status : Status, sub : BOOLEAN]]
      /\ ~procs'[p].sub /\ procs'[p].status = procs[p].status
      /\ \A q \in Proc : q # p => procs'[q] = procs[q]
  BY <1>4
<1>9. \A q \in Names(i)' : q \in Names(i)
  <2>1. registry'[i] = NoProc \/ registry'[i] \in Names(i)
    BY <1>1 DEF Names
  <2>2. NoProc \notin Names(i)'
    BY DEF Names
  <2> QED
    BY <1>2, <1>3, <1>6, <1>7, <2>1, <2>2, NamedBy DEF Steps
<1>10. /\ Subscribed(i)' \subseteq Subscribed(i) \ {p}
       /\ procs[p].sub => p \in Subscribed(i)
  BY <1>3, <1>7, <1>8, <1>9, FewNames DEF Subscribed
<1>11. /\ Cardinality(Subscribed(i)') <= Cardinality(Subscribed(i) \ {p})
       /\ Cardinality(Subscribed(i)') \in Nat /\ Cardinality(Subscribed(i) \ {p}) \in Nat
       /\ Cardinality(Subscribed(i) \ {p}) =
            IF p \in Subscribed(i) THEN Cardinality(Subscribed(i)) - 1
                                   ELSE Cardinality(Subscribed(i))
  <2>1. /\ IsFiniteSet(Subscribed(i) \ {p})
        /\ Cardinality(Subscribed(i) \ {p}) =
            IF p \in Subscribed(i) THEN Cardinality(Subscribed(i)) - 1
                                   ELSE Cardinality(Subscribed(i))
    BY <1>3, FewNames, FS_RemoveElement
  <2> QED
    BY <1>10, <2>1, FS_Subset, FS_CardinalityType
<1>12. p \in Subscribed(i) => procs[p].sub
  BY DEF Subscribed
<1>13. /\ subs'[i] = IF procs[p].sub THEN subs[i] - 1 ELSE subs[i]
       /\ \A j \in Instance : j # i => subs'[j] = subs[j]
  BY <1>4
<1>14. /\ Cardinality(Subscribed(i)) \in Nat /\ subs[i] \in Nat
       /\ Cardinality(Subscribed(i)) <= subs[i]
  BY <1>3, FewNames
<1>15. Cardinality(Subscribed(i))' <= subs'[i] /\ subs'[i] \in Nat
  BY <1>10, <1>11, <1>12, <1>13, <1>14
<1>16. subs' \in [Instance -> Nat]
  BY <1>4, <1>13, <1>15
<1>17. TypeOK'
  BY <1>1, <1>3, <1>6, <1>8, <1>16 DEF TypeOK, Steps
<1>18. Shape(t)'
  BY <1>1, <1>2, <1>3, <1>4, <1>6 DEF Steps, Shape, OpsAt
<1>19. OthersKeep(i)
  BY <1>1, <1>3, <1>7, <1>8, <1>13, FewNames DEF OthersKeep
<1>20. ASSUME Stage(i, t) PROVE Stage(i, t)'
  <2>1. /\ registry[i] = p /\ subs[i] = (IF procs[p].sub THEN 1 ELSE 0)
        /\ Clear(i)
    BY <1>1, <1>4, <1>20 DEF Stage
  <2>2. /\ registry'[i] = p /\ subs'[i] = 0
        /\ Clear(i)'
    BY <1>1, <1>13, <2>1 DEF Clear, PausesHold
  <2> QED
    BY <1>6, <1>8, <2>2 DEF Steps, Stage
<1>21. grid'[i].state = "none" => ~grid'[i].orders
  BY <1>1, <1>3 DEF Base
<1> QED
  BY <1>1, <1>2, <1>5, <1>6, <1>9, <1>15, <1>17, <1>18, <1>19, <1>20, <1>21, WorksKeep

(* pause and stop pause the grid, which cancels the orders it knows, or     *)
(* fails to.                                                               *)
LEMMA PauseGridKeeps ==
  ASSUME IInv, NEW t \in Task,
         \/ PauseGrid(t)
         \/ \E state \in {"active", "paused"}, lost \in BOOLEAN : PauseGridFails(t, state, lost)
  PROVE  IInv'
<1>1. /\ task[t].pc = "quiet" /\ Goto(t, After(task[t].op, "quiet"))
      /\ UNCHANGED <<row, lock, registry, subs, boot, phase, fixed>>
  BY DEF PauseGrid, PauseGridFails, At
<1>2. PICK i \in Instance : task[t].inst = i
  BY <1>1, AtPoint
<1>3. /\ Base /\ TypeOK /\ task[t].op \in {"pause", "stop"} /\ Shape(t)
      /\ task[t].proc \in Proc
  BY <1>1, AtPoint DEF OpsAt, Shape
<1> DEFINE p == task[t].proc
<1>4. PICK pc \in {"release", "persist"}, s \in Status :
      /\ pc = "release" <=> task[t].op = "stop"
      /\ task[t].op = "pause" => s = "PAUSED"
      /\ procs' = [procs EXCEPT ![p].status = s]
      /\ Goto(t, pc)
  <2>1. procs[p].status \in Status /\ "PAUSED" \in Status
    BY <1>3 DEF TypeOK, Status
  <2>2. CASE task[t].op = "pause"
    BY <1>1, <2>1, <2>2 DEF PauseGrid, PauseGridFails, After
  <2>3. CASE task[t].op = "stop"
    BY <1>1, <2>1, <2>3 DEF PauseGrid, PauseGridFails, After
  <2> QED
    BY <1>3, <2>2, <2>3
<1>5. /\ grid \in [Instance -> [state : {"none", "active", "paused"}, orders : BOOLEAN]]
      /\ procs \in [Proc -> [status : Status, sub : BOOLEAN]]
      /\ orphans \in [Instance -> BOOLEAN] /\ mishap \in [Instance -> Mishap]
      /\ p \in Proc /\ p # NoProc /\ p = task[t].proc
  BY <1>3, NoneAssumption DEF TypeOK
<1>6. /\ grid' \in [Instance -> [state : {"none", "active", "paused"}, orders : BOOLEAN]]
      /\ orphans' \in [Instance -> BOOLEAN] /\ mishap' \in [Instance -> Mishap]
      /\ \A j \in Instance :
           j # i => grid'[j] = grid[j] /\ orphans'[j] = orphans[j] /\ mishap'[j] = mishap[j]
      /\ grid'[i].state = "none" => ~grid'[i].orders
      /\ mishap'[i] = "none" => /\ mishap[i] = "none" /\ orphans'[i] = orphans[i]
                               /\ grid'[i].state # "active" /\ ~grid'[i].orders
      /\ \A m \in {"undone", "mixed"} : mishap'[i] = m <=> mishap[i] = m
  <2>1. CASE PauseGrid(t)
    <3>1. grid[i].state = "none" => ~grid[i].orders
      BY <1>3 DEF Base
    <3>2. /\ grid' = [grid EXCEPT ![i] = IF grid[i].state = "none" THEN grid[i]
                                         ELSE [state |-> "paused", orders |-> FALSE]]
          /\ UNCHANGED <<orphans, mishap>>
      BY <1>2, <2>1 DEF PauseGrid, Of
    <3> QED
      BY <1>5, <3>1, <3>2
  <2>2. ASSUME NEW state \in {"active", "paused"}, NEW lost \in BOOLEAN,
               PauseGridFails(t, state, lost)
        PROVE  <1>6!:
    <3> DEFINE m == IF mishap[i] = "none" THEN "restless" ELSE mishap[i]
    <3>1. /\ grid' = [grid EXCEPT ![i] = [state |-> state, orders |-> ~lost]]
          /\ orphans' = [orphans EXCEPT ![i] = orphans[i] \/ lost]
          /\ mishap' = [mishap EXCEPT ![i] = m]
      BY <1>2, <2>2 DEF PauseGridFails, Of
    <3>2. m \in Mishap /\ m # "none" /\ \A n \in {"undone", "mixed"} : m = n <=> mishap[i] = n
      BY <1>5 DEF Mishap
    <3> HIDE DEF m
    <3> QED
      BY <1>5, <3>1, <3>2
  <2> QED
    BY <2>1, <2>2
<1>7. pc \in DOMAIN OpsAt \ {"idle"}
  BY DEF OpsAt
<1>8. Steps(t, pc) /\ task'[t].proc = p /\ task'[t].write = task[t].write
  BY <1>3, <1>4, <1>7, GotoEffect
<1>9. /\ p \in Names(i) /\ \A j \in Instance \ {i} : p \notin Names(j)
  <2>1. p \in Names(i)
    BY <1>2, <1>5 DEF Names, Busy
  <2> QED
    BY <1>3, <2>1, NamesApart
<1> HIDE DEF p
<1>10. /\ procs' \in [Proc -> [status : Status, sub : BOOLEAN]]
       /\ procs'[p].status = s
       /\ \A q \in Proc : procs'[q].sub = procs[q].sub
       /\ \A q \in Proc : q # p => procs'[q] = procs[q]
  BY <1>4, <1>5
<1>11. TypeOK'
  BY <1>1, <1>3, <1>6, <1>8, <1>10 DEF TypeOK, Steps
<1>12. Shape(t)'
  <2>1. task[t].op \in OpsAt[pc]
    BY <1>3, <1>4 DEF OpsAt
  <2>2. task[t].write.status # "ERROR"
    BY <1>3 DEF Shape
  <2> QED
    BY <1>2, <1>3, <1>4, <1>5, <1>8, <2>1, <2>2 DEF Steps, Shape
<1>13. OthersKeep(i)
  BY <1>1, <1>3, <1>6, <1>9, <1>10, NamesApart DEF OthersKeep
<1>14. \A q \in Names(i)' : q \in Names(i)
  <2>1. registry'[i] = NoProc \/ registry'[i] \in Names(i)
    BY <1>1 DEF Names
  <2>2. NoProc \notin Names(i)'
    BY DEF Names
  <2> QED
    BY <1>2, <1>3, <1>8, <1>9, <2>1, <2>2, NamedBy DEF Steps
<1>15. Cardinality(Subscribed(i))' <= subs'[i]
  <2>1. Names(i) \subseteq Proc
    BY <1>3, FewNames
  <2>2. Subscribed(i)' \subseteq Subscribed(i)
    BY <1>10, <1>14, <2>1 DEF Subscribed
  <2> QED
    BY <1>1, <1>3, <2>2, CountStays
<1>16. ASSUME Whole(i)', Stage(i, t) PROVE Stage(i, t)'
  <2>0. PausesHold(i)' => mishap'[i] = "none"
    BY <1>6, <1>16 DEF Whole, PausesHold, Mishap
  <2>1. /\ registry[i] = p /\ ~procs[p].sub /\ subs[i] = 0
        /\ Clear(i)
    BY <1>1, <1>5, <1>16 DEF Stage
  <2>2. /\ registry'[i] = p /\ ~procs'[p].sub /\ subs'[i] = 0
        /\ Clear(i)'
    BY <1>1, <1>5, <1>6, <1>10, <1>16, <2>1, <2>0 DEF Clear, PausesHold
  <2>3. CASE pc = "persist"
    <3>1. As(i, "PAUSED")' /\ Target(task[t].op)' = "PAUSED"
      BY <1>3, <1>4, <1>5, <1>6, <1>8, <1>10, <2>0, <2>2, <2>3 DEF As, Quiet, Target, Steps
    <3>2. As(i, Target(task[t].op))'
      BY <3>1 DEF As, Quiet
    <3> QED
      BY <1>8, <2>3, <3>2 DEF Steps, Stage
  <2>4. CASE pc = "release"
    BY <1>3, <1>4, <1>5, <1>6, <1>8, <2>0, <2>2, <2>4 DEF Steps, Stage
  <2> QED
    BY <2>3, <2>4
<1>17. (Alone(i)' => Alone(i)) /\ (Whole(i)' => Whole(i))
  BY <1>6 DEF Alone, Whole
<1> QED
  BY <1>2, <1>1, <1>6, <1>7, <1>8, <1>11, <1>12, <1>13, <1>14, <1>15, <1>16, <1>17, WorksOn

(* stop takes the process off the registry and flushes STOPPED. *)
LEMMA UnregisterKeeps ==
  ASSUME IInv, NEW t \in Task, Unregister(t)
  PROVE  IInv'
<1>1. /\ task[t].pc = "unregister"
      /\ Writes(t, "STOPPED", "commit")
      /\ UNCHANGED <<row, lock, procs, subs, grid, orphans, boot, phase, fixed, mishap>>
  BY DEF Unregister, At, Writes
<1>2. PICK i \in Instance : task[t].inst = i
  BY <1>1, AtPoint
<1>3. Base /\ TypeOK /\ task[t].op = "stop" /\ Shape(t)
  BY <1>1, AtPoint DEF OpsAt
<1>4. "commit" \in DOMAIN OpsAt \ {"idle"} /\ "STOPPED" \in Status
  BY DEF OpsAt, Status
<1>5. /\ Steps(t, "commit") /\ task'[t].proc = task[t].proc
      /\ task'[t].write.status = "STOPPED"
  BY <1>1, <1>3, <1>4, WriteEffect
<1>6. registry' = [registry EXCEPT ![i] = NoProc] /\ registry \in [Instance -> Proc \cup {NoProc}]
  BY <1>2, <1>3 DEF Unregister, Of, TypeOK
<1>7. TypeOK'
  BY <1>1, <1>3, <1>5, <1>6 DEF TypeOK, Steps
<1>8. Shape(t)'
  BY <1>2, <1>3, <1>5 DEF Steps, Shape, OpsAt, Written
<1>9. OthersKeep(i)
  BY <1>1, <1>6 DEF OthersKeep
<1>10. \A q \in Names(i)' : q \in Names(i)
  <2>1. task[t].proc = NoProc \/ task[t].proc \in Names(i)
    BY <1>2 DEF Names, Busy
  <2>2. NoProc \notin Names(i)'
    BY DEF Names
  <2> QED
    BY <1>2, <1>3, <1>5, <1>6, <2>1, <2>2, NamedBy DEF Steps
<1>11. Cardinality(Subscribed(i))' <= subs'[i]
  <2>1. Subscribed(i)' \subseteq Subscribed(i)
    BY <1>1, <1>10 DEF Subscribed
  <2> QED
    BY <1>1, <1>3, <2>1, CountStays
<1>12. ASSUME Stage(i, t) PROVE Stage(i, t)'
  <2>1. /\ subs[i] = 0 /\ Clear(i) /\ task[t].proc # NoProc
        /\ PausesHold(i) => grid[i].state # "active" /\ ~grid[i].orders
    BY <1>1, <1>3, <1>12 DEF Stage
  <2>2. As(i, "STOPPED")' /\ Due(t)' = "STOPPED"
    BY <1>1, <1>5, <1>6, <2>1 DEF As, Quiet, Due, Clear, PausesHold
  <2>3. As(i, Due(t))'
    BY <2>2 DEF As, Quiet
  <2> QED
    BY <1>5, <2>1, <2>3 DEF Steps, Stage
<1>13. grid'[i].state = "none" => ~grid'[i].orders
  BY <1>1, <1>3 DEF Base
<1> QED
  BY <1>1, <1>2, <1>4, <1>5, <1>7, <1>8, <1>9, <1>10, <1>11, <1>12, <1>13, WorksKeep

(* A request is over: its row is committed. *)
LEMMA CommitKeeps ==
  ASSUME IInv, NEW t \in Task, Commit(t)
  PROVE  IInv'
<1>1. /\ task[t].pc = "commit" /\ Rollback(t)
      /\ UNCHANGED <<lock, registry, subs, grid, orphans, boot, phase, fixed, mishap>>
  BY DEF Commit, At
<1>2. PICK i \in Instance : task[t].inst = i
  BY <1>1, AtPoint
<1>3. Base /\ TypeOK /\ Shape(t) /\ task[t].op \in OpsAt["commit"] /\ phase = "serving"
  BY <1>1, AtPoint DEF Base, TypeOK
<1>4. /\ task'[t] = Idle /\ task' \in [Task -> TaskRecord]
      /\ \A u \in Task \ {t} : task'[u] = task[u]
  BY <1>1, <1>3, RollbackEffect
<1> DEFINE s == IF task[t].write.status = "NONE" THEN row[i].status ELSE task[t].write.status
           d == row[i].deleted \/ task[t].write.deleted
<1>5. s \in Status /\ d \in BOOLEAN /\ row \in [Instance -> [status : Status, deleted : BOOLEAN]]
  BY <1>3, TaskFields DEF TypeOK
<1>6. row' = [row EXCEPT ![i] = [status |-> s, deleted |-> d]]
  BY <1>2 DEF Commit, Of
<1>7. s = "ERROR" => row[i].status = "ERROR"
  BY <1>3 DEF Shape
<1>8. s = Due(t)
  BY <1>2 DEF Due, Of
<1> HIDE DEF s, d
<1>9. /\ row'[i].status = s /\ \A j \in Instance : j # i => row'[j] = row[j]
      /\ row' \in [Instance -> [status : Status, deleted : BOOLEAN]]
  BY <1>5, <1>6
<1> DEFINE kept == HeldByOthers(t) \cup {registry[j] : j \in Instance}
<1>10. /\ procs' \in [Proc -> [status : Status, sub : BOOLEAN]]
       /\ \A q \in Proc : q \in kept => procs'[q] = procs[q]
       /\ \A q \in Proc : procs'[q].sub => procs[q].sub
  <2>1. Blank \in [status : Status, sub : BOOLEAN] /\ ~Blank.sub
    BY DEF Blank, Status
  <2>2. procs \in [Proc -> [status : Status, sub : BOOLEAN]]
    BY <1>3 DEF TypeOK
  <2>3. procs' = Collected(procs, kept)
    BY DEF Commit
  <2> HIDE DEF kept
  <2> QED
    BY <2>1, <2>2, <2>3 DEF Collected
<1>11. TypeOK'
  BY <1>1, <1>3, <1>4, <1>9, <1>10 DEF TypeOK
<1>12. Shape(t)'
  BY <1>4, IdleFields DEF Shape, OpsAt
<1>13. \A q \in Names(i)' : q \in Names(i)
  <2>1. registry'[i] = NoProc \/ registry'[i] \in Names(i)
    BY <1>1 DEF Names
  <2>2. NoProc \notin Names(i)'
    BY DEF Names
  <2> QED
    BY <1>2, <1>3, <1>4, <2>1, <2>2, NamedBy, IdleFields
<1>14. Elsewhere(t, i)
  <2>1. ASSUME NEW j \in Instance \ {i}, NEW q \in Names(j) PROVE procs'[q] = procs[q]
    <3>1. q \in Proc
      BY <1>3, NamesApart
    <3>2. q = registry[j] \/ \E u \in Busy(j) : q = task[u].proc
      BY DEF Names
    <3>3. \A u \in Busy(j) : u \in Task \ {t}
      BY <1>2 DEF Busy
    <3>4. q \in kept
      BY <3>2, <3>3 DEF HeldByOthers
    <3> QED
      BY <1>10, <3>1, <3>4
  <2> QED
    BY <1>1, <1>2, <1>3, <1>4, <1>9, <1>13, <2>1, IdleFields DEF Elsewhere
<1>15. Cardinality(Subscribed(i))' <= subs'[i]
  <2>1. Names(i) \subseteq Proc
    BY <1>3, FewNames
  <2>2. Subscribed(i)' \subseteq Subscribed(i)
    BY <1>10, <1>13, <2>1 DEF Subscribed
  <2> QED
    BY <1>1, <1>3, <2>2, CountStays
<1>16. ASSUME Alone(i)' PROVE Followed(i)'
  <2>0. Alone(i) /\ Whole(i)' = Whole(i)
    BY <1>1, <1>16 DEF Alone, Whole
  <2>1. Busy(i)' = {} /\ (Whole(i) => Stage(i, t))
    BY <1>2, <1>4, <1>14, <2>0, IdleFields, OnlyRequest
  <2>2. Whole(i) => As(i, s)
    BY <1>1, <1>8, <2>1 DEF Stage
  <2>3. registry[i] # NoProc => procs'[registry[i]] = procs[registry[i]]
    <3>1. registry[i] # NoProc => registry[i] \in Proc /\ registry[i] \in kept
      BY <1>3 DEF TypeOK
    <3> QED
      BY <1>10, <3>1
  <2>4. Whole(i)' => As(i, row[i].status)'
    BY <1>1, <1>9, <2>0, <2>2, <2>3 DEF As, Quiet, Clear, PausesHold
  <2> QED
    BY <2>1, <2>4 DEF Followed
<1>17. grid'[i].state = "none" => ~grid'[i].orders
  BY <1>1, <1>3 DEF Base
<1>18. task'[t].pc = "idle"
  BY <1>4, IdleFields
<1> QED
  BY <1>7, <1>9, <1>11, <1>12, <1>14, <1>15, <1>16, <1>17, <1>18, RequestKeeps

(* The transaction is rolled back: the row and the grid stay, and so does    *)
(* the registry, but for a stop that had taken the process off.            *)
LEMMA DatabaseFailsKeeps ==
  ASSUME IInv, NEW t \in Task, DatabaseFails(t)
  PROVE  IInv'
<1>1. /\ task[t].pc \in {"duplicates", "wire", "mark", "unregister", "persist", "remove", "commit"}
      /\ Rollback(t) /\ UNCHANGED <<row, lock, subs, grid, orphans, boot, phase, fixed>>
  BY DEF DatabaseFails
<1>2. PICK i \in Instance : task[t].inst = i
  BY <1>1, AtPoint
<1>3. Base /\ TypeOK /\ Shape(t) /\ task[t].op \in OpsAt[task[t].pc] /\ phase = "serving"
  BY <1>1, AtPoint DEF Base, TypeOK
<1>4. /\ task'[t] = Idle /\ task' \in [Task -> TaskRecord]
      /\ \A u \in Task \ {t} : task'[u] = task[u]
  BY <1>1, <1>3, RollbackEffect
<1>5. /\ registry' \in [Instance -> Proc \cup {NoProc}]
      /\ \A j \in Instance \ {i} : registry'[j] = registry[j]
      /\ registry'[i] \in {registry[i], NoProc}
      /\ task[t].pc # "unregister" => registry' = registry
  BY <1>2, <1>3 DEF DatabaseFails, At, Of, TypeOK
<1> DEFINE m == IF task[t].proc = NoProc \/ mishap[i] = "mixed" THEN mishap[i] ELSE "undone"
<1>6. mishap' = [mishap EXCEPT ![i] = m] /\ mishap \in [Instance -> Mishap] /\ m \in Mishap
  BY <1>2, <1>3 DEF DatabaseFails, Of, TypeOK, Mishap
<1>7. /\ mishap' \in [Instance -> Mishap]
      /\ \A j \in Instance : j # i => mishap'[j] = mishap[j]
      /\ mishap'[i] # "mixed" => mishap[i] # "mixed"
      /\ mishap'[i] \notin {"undone", "mixed"} =>
           task[t].proc = NoProc /\ mishap'[i] = mishap[i]
  <2>1. /\ mishap' \in [Instance -> Mishap] /\ mishap'[i] = m
        /\ \A j \in Instance : j # i => mishap'[j] = mishap[j]
    <3> HIDE DEF m
    <3> QED
      BY <1>6
  <2> QED
    BY <2>1
<1> HIDE DEF m
<1> DEFINE kept == HeldByOthers(t) \cup {registry'[j] : j \in Instance}
<1>8. /\ procs' \in [Proc -> [status : Status, sub : BOOLEAN]]
      /\ \A q \in Proc : q \in kept => procs'[q] = procs[q]
      /\ \A q \in Proc : procs'[q].sub => procs[q].sub
  <2>1. Blank \in [status : Status, sub : BOOLEAN] /\ ~Blank.sub
    BY DEF Blank, Status
  <2>2. procs \in [Proc -> [status : Status, sub : BOOLEAN]]
    BY <1>3 DEF TypeOK
  <2>3. procs' = Collected(procs, kept)
    BY DEF DatabaseFails
  <2> HIDE DEF kept
  <2> QED
    BY <2>1, <2>2, <2>3 DEF Collected
<1>9. TypeOK'
  BY <1>1, <1>3, <1>4, <1>5, <1>7, <1>8 DEF TypeOK
<1>10. Shape(t)'
  BY <1>4, IdleFields DEF Shape, OpsAt
<1>11. \A q \in Names(i)' : q \in Names(i)
  <2>1. registry'[i] = NoProc \/ registry'[i] \in Names(i)
    BY <1>5 DEF Names
  <2>2. NoProc \notin Names(i)'
    BY DEF Names
  <2> QED
    BY <1>2, <1>3, <1>4, <2>1, <2>2, NamedBy, IdleFields
<1>12. Elsewhere(t, i)
  <2>1. ASSUME NEW j \in Instance \ {i}, NEW q \in Names(j) PROVE procs'[q] = procs[q]
    <3>1. q \in Proc
      BY <1>3, NamesApart
    <3>2. q = registry'[j] \/ \E u \in Busy(j) : q = task[u].proc
      BY <1>5 DEF Names
    <3>3. \A u \in Busy(j) : u \in Task \ {t}
      BY <1>2 DEF Busy
    <3>4. q \in kept
      BY <3>2, <3>3 DEF HeldByOthers
    <3> QED
      BY <1>8, <3>1, <3>4
  <2> QED
    BY <1>1, <1>2, <1>3, <1>4, <1>5, <1>7, <1>11, <2>1, IdleFields DEF Elsewhere
<1>13. Cardinality(Subscribed(i))' <= subs'[i]
  <2>1. Names(i) \subseteq Proc
    BY <1>3, FewNames
  <2>2. Subscribed(i)' \subseteq Subscribed(i)
    BY <1>8, <1>11, <2>1 DEF Subscribed
  <2> QED
    BY <1>1, <1>3, <2>2, CountStays
<1>14. ASSUME Alone(i)' PROVE Followed(i)'
  <2>1. Alone(i)
    BY <1>7, <1>14 DEF Alone
  <2>2. Busy(i)' = {} /\ From(i, task[t].op) /\ (Whole(i) => Stage(i, t))
    BY <1>2, <1>4, <1>12, <2>1, IdleFields, OnlyRequest
  <2>3. ASSUME Whole(i)' PROVE As(i, row[i].status)'
    <3>1. task[t].proc = NoProc /\ mishap'[i] = mishap[i] /\ Stage(i, t)
      BY <1>7, <2>2, <2>3 DEF Whole
    <3>2. \/ task[t].pc \in {"duplicates", "mark", "remove"}
          \/ task[t].pc = "commit" /\ task[t].op # "stop"
      BY <1>1, <1>3, <3>1, NoneAssumption DEF Shape, Stage, OpsAt
    <3>3. As(i, row[i].status)
      <4>1. CASE task[t].pc # "commit"
        BY <3>1, <3>2, <4>1 DEF Stage
      <4>2. CASE task[t].pc = "commit"
        <5>1. As(i, Due(t)) /\ task[t].write.status \notin {"RUNNING", "PAUSED"}
          BY <1>3, <3>1, <4>2, NoneAssumption DEF Stage, Shape
        <5>2. \/ task[t].write.status = "NONE"
              \/ task[t].write.status = "CREATED" /\ row[i].status = "NONE"
              \/ task[t].write.status = "READY" /\ row[i].status = "CREATED"
          <6>1. /\ task[t].op \in {"create", "prepare", "start", "pause", "resume", "delete"}
                /\ task[t].write.status \in Written(task[t].op)
            BY <1>3, <3>2, <4>2 DEF Shape, OpsAt
          <6>2. CASE task[t].op = "create"
            BY <2>2, <5>1, <6>1, <6>2 DEF Written, From
          <6>3. CASE task[t].op = "prepare"
            BY <2>2, <5>1, <6>1, <6>3 DEF Written, From
          <6>4. CASE task[t].op \in {"start", "pause", "resume", "delete"}
            BY <5>1, <6>1, <6>4 DEF Written
          <6> QED
            BY <6>1, <6>2, <6>3, <6>4
        <5>3. CASE task[t].write.status = "NONE"
          <6>1. Due(t) = row[i].status
            BY <1>2, <5>3 DEF Due, Of
          <6> QED
            BY <5>1, <6>1 DEF As, Quiet
        <5>4. CASE task[t].write.status \in {"CREATED", "READY"}
          <6>1. As(i, task[t].write.status)
            BY <5>1, <5>4 DEF As, Quiet, Due
          <6> QED
            BY <5>2, <5>4, <6>1, AsOther
        <5> QED
          BY <5>2, <5>3, <5>4
      <4> QED
        BY <4>1, <4>2
    <3>4. registry' = registry
      BY <1>5, <3>2
    <3>5. registry[i] # NoProc => procs'[registry[i]] = procs[registry[i]]
      <4>1. registry[i] # NoProc => registry[i] \in Proc /\ registry[i] \in kept
        BY <1>3, <3>4 DEF TypeOK
      <4> QED
        BY <1>8, <4>1
    <3> QED
      BY <1>1, <3>1, <3>3, <3>4, <3>5 DEF As, Quiet, Clear, PausesHold
  <2> QED
    BY <2>2, <2>3 DEF Followed
<1>15. grid'[i].state = "none" => ~grid'[i].orders
  BY <1>1, <1>3 DEF Base
<1>16. task'[t].pc = "idle" /\ (row'[i].status = "ERROR" => row[i].status = "ERROR")
  BY <1>1, <1>4, IdleFields
<1> QED
  BY <1>9, <1>10, <1>12, <1>13, <1>14, <1>15, <1>16, RequestKeeps

-----------------------------------------------------------------------------
(* New requests.                                                           *)

(* A request that begins on an instance keeps the invariant, if an instance *)
(* at rest puts it where it should be.                                     *)
LEMMA BeginsKeep ==
  ASSUME IInv, NEW t \in Task, NEW i \in Instance, task[t].pc = "idle", phase = "serving",
         NEW rec \in TaskRecord, task' = [task EXCEPT ![t] = rec],
         rec.inst = i, rec.proc = NoProc,
         UNCHANGED <<row, lock, registry, procs, subs, grid, orphans, boot, phase, fixed>>,
         mishap' \in [Instance -> Mishap], \A j \in Instance : j # i => mishap'[j] = mishap[j],
         Alone(i)' => mishap'[i] = mishap[i] /\ Busy(i) = {},
         Shape(t)', row[i].status = "ERROR" => rec.op = "delete",
         From(i, rec.op),
         mishap'[i] = mishap[i] /\ As(i, row[i].status) => Stage(i, t)'
  PROVE  IInv'
<1>1. Base /\ TypeOK /\ i # NoInstance /\ task \in [Task -> TaskRecord]
  BY NoneAssumption DEF IInv, Base, TypeOK
<1>2. /\ task'[t] = rec /\ \A u \in Task \ {t} : task'[u] = task[u]
      /\ task' \in [Task -> TaskRecord]
  BY <1>1
<1>3. task[t].inst = NoInstance
  BY <1>1, AtWork
<1>4. TypeOK'
  BY <1>1, <1>2 DEF TypeOK
<1>5. \A q \in Names(i)' : q \in Names(i)
  <2> SUFFICES ASSUME NEW q \in Names(i)' PROVE q \in Names(i)
    OBVIOUS
  <2>1. q \in ({registry[i]} \cup {task'[u].proc : u \in Busy(i)'}) \ {NoProc}
    BY DEF Names
  <2>2. CASE q = registry[i]
    BY <2>1, <2>2 DEF Names
  <2>3. CASE q # registry[i]
    <3>1. PICK u \in Busy(i)' : q = task'[u].proc
      BY <2>1, <2>3
    <3>2. u # t /\ u \in Task /\ task'[u].inst = i
      BY <1>2, <2>1, <3>1 DEF Busy
    <3> QED
      BY <1>2, <2>1, <3>1, <3>2 DEF Names, Busy
  <2> QED
    BY <2>2, <2>3
<1>6. Elsewhere(t, i)
  BY <1>2, <1>3, <1>5 DEF Elsewhere
<1>7. Cardinality(Subscribed(i))' <= subs'[i]
  <2>1. Subscribed(i)' \subseteq Subscribed(i)
    BY <1>5 DEF Subscribed
  <2> QED
    BY <1>1, <2>1, CountStays
<1>8. ASSUME Alone(i)' PROVE Followed(i)'
  <2>1. Alone(i) /\ mishap'[i] = mishap[i] /\ Whole(i)' = Whole(i) /\ Busy(i) = {}
    BY <1>8 DEF Alone, Whole
  <2>2. Whole(i)' => Stage(i, t)'
    BY <2>1 DEF IInv, Followed
  <2>3. Busy(i)' = {t}
    BY <1>2, <2>1 DEF Busy
  <2>4. From(i, task[t].op)'
    BY <1>2 DEF From
  <2> QED
    BY <2>2, <2>3, <2>4 DEF Followed
<1>9. grid'[i].state = "none" => ~grid'[i].orders
  BY <1>1 DEF Base
<1>10. task'[t].pc # "idle" /\ row'[i].status = "ERROR" => task'[t].op = "delete"
  BY <1>2
<1>11. row'[i].status = "ERROR" => row[i].status = "ERROR"
  OBVIOUS
<1> QED
  BY <1>4, <1>6, <1>7, <1>8, <1>9, <1>10, <1>11, RequestKeeps

(* An operation of the state machine, or a delete, finds its row. *)
LEMMA CallKeeps ==
  ASSUME IInv, NEW t \in Task, NEW i \in Instance, Call(t, i)
  PROVE  IInv'
<1>1. Base /\ TypeOK /\ i # NoInstance /\ row[i].status \in Status
  BY NoneAssumption DEF IInv, Base, TypeOK
<1>2. ASSUME NEW op \in {"prepare", "start", "pause", "resume", "stop", "delete"},
             NEW pc \in WaitingAt \cup {"release"}, NewRequest(t, op, i, pc),
             UNCHANGED <<row, lock, memory, orphans, boot, phase, fixed>>,
             op \in OpsAt[pc], pc # "rebuild",
             pc = "release" => op = "resume",
             row[i].status = "ERROR" => op = "delete", From(i, op)
      PROVE  IInv'
  <2> DEFINE rec == [Idle EXCEPT !.op = op, !.inst = i, !.pc = pc]
  <2>1. /\ rec.op = op /\ rec.inst = i /\ rec.pc = pc /\ rec.proc = NoProc
        /\ rec.write.status = "NONE" /\ rec \in TaskRecord
    BY DEF Idle, Kept, TaskRecord, Status, WaitingAt
  <2>2. task' = [task EXCEPT ![t] = rec] /\ phase = "serving" /\ task[t].pc = "idle"
    BY <1>2 DEF NewRequest, At
  <2> HIDE DEF rec
  <2>3. /\ mishap' \in [Instance -> Mishap]
        /\ \A j \in Instance : j # i => mishap'[j] = mishap[j]
        /\ Alone(i)' => mishap'[i] = mishap[i] /\ Busy(i) = {}
    BY <1>1, <1>2 DEF NewRequest, TypeOK, Mishap, Alone
  <2>4. task'[t] = rec
    BY <1>1, <2>2 DEF TypeOK
  <2>5. Shape(t)'
    BY <1>2, <2>1, <2>4 DEF Shape, WaitingAt
  <2>6. ASSUME mishap'[i] = mishap[i], As(i, row[i].status) PROVE Stage(i, t)'
    <3>1. As(i, row[i].status)'
      BY <1>2, <2>6 DEF As, Quiet, Clear, PausesHold, memory
    <3> QED
      BY <1>2, <2>1, <2>4, <3>1 DEF Stage, WaitingAt
  <2> QED
    BY <1>2, <2>1, <2>2, <2>3, <2>5, <2>6, BeginsKeep DEF memory
<1>3. ASSUME Prepare(t, i) PROVE IInv'
  <2>1. row[i].status = "CREATED"
    BY <1>1, <1>3 DEF Prepare, Validated, CanMove, TRANSITIONS, Status
  <2> QED
    BY <1>2, <1>3, <2>1 DEF Prepare, Validated, WaitingAt, OpsAt, From
<1>4. ASSUME Start(t, i) PROVE IInv'
  <2>1. row[i].status \in {"READY", "PAUSED", "RECOVERED"}
    BY <1>1, <1>4 DEF Start, Validated, CanMove, TRANSITIONS, Status
  <2> QED
    BY <1>2, <1>4, <2>1 DEF Start, Validated, WaitingAt, OpsAt, From
<1>5. ASSUME Pause(t, i) PROVE IInv'
  <2>1. row[i].status \in {"RUNNING", "RECOVERED"}
    BY <1>1, <1>5 DEF Pause, Validated, CanMove, TRANSITIONS, Status
  <2> QED
    BY <1>2, <1>5, <2>1 DEF Pause, Validated, WaitingAt, OpsAt, From
<1>6. ASSUME Resume(t, i) PROVE IInv'
  <2>1. row[i].status \in {"READY", "PAUSED", "RECOVERED"}
    BY <1>1, <1>6 DEF Resume, Validated, CanMove, TRANSITIONS, Status
  <2> QED
    BY <1>2, <1>6, <2>1 DEF Resume, Validated, WaitingAt, OpsAt, From
<1>7. ASSUME Stop(t, i) PROVE IInv'
  <2>1. row[i].status = "RUNNING"
    BY <1>1, <1>7 DEF Stop, Validated, CanMove, TRANSITIONS, Status
  <2> QED
    BY <1>2, <1>7, <2>1 DEF Stop, Validated, WaitingAt, OpsAt, From
<1>8. ASSUME Delete(t, i) PROVE IInv'
  BY <1>2, <1>8 DEF Delete, WaitingAt, OpsAt, From
<1>9. ASSUME NEW auto \in BOOLEAN, CreateProcess(t, i, auto) PROVE IInv'
  <2> DEFINE pc == IF auto THEN "verify" ELSE "commit"
             rec == [op |-> "create", inst |-> i, pc |-> pc, proc |-> NoProc,
                     write |-> [status |-> "CREATED", deleted |-> FALSE]]
  <2>1. /\ rec.op = "create" /\ rec.inst = i /\ rec.pc \in {"verify", "commit"}
        /\ rec.proc = NoProc /\ rec.write.status = "CREATED" /\ rec \in TaskRecord
    BY DEF TaskRecord, Status
  <2>2. /\ task' = [task EXCEPT ![t] = rec] /\ phase = "serving" /\ task[t].pc = "idle"
        /\ UNCHANGED <<row, lock, registry, procs, subs, grid, orphans, boot, phase, fixed, mishap>>
        /\ row[i].status = "NONE" /\ Busy(i) = {}
    BY <1>9 DEF CreateProcess, NewId, At, memory, Unborn
  <2> HIDE DEF rec, pc
  <2>3. task'[t] = rec /\ mishap \in [Instance -> Mishap]
    BY <1>1, <2>2 DEF TypeOK
  <2>4. Shape(t)'
    BY <2>1, <2>3 DEF Shape, OpsAt, Written
  <2>5. ASSUME As(i, row[i].status) PROVE Stage(i, t)'
    <3>1. As(i, "CREATED")
      BY <2>2, <2>5, AsOther
    <3>2. As(i, row[i].status)' /\ As(i, "CREATED")'
      BY <2>2, <2>5, <3>1 DEF As, Quiet, Clear, PausesHold
    <3>3. Due(t)' = "CREATED"
      BY <2>1, <2>3 DEF Due
    <3>4. As(i, Due(t))'
      BY <3>2, <3>3 DEF As, Quiet
    <3> QED
      BY <2>1, <2>3, <3>2, <3>4 DEF Stage
  <2>6. From(i, "create")
    BY <2>2 DEF From
  <2>7. row[i].status # "ERROR"
    BY <2>2
  <2> QED
    BY <2>1, <2>2, <2>3, <2>4, <2>5, <2>6, <2>7, BeginsKeep
<1> QED
  BY <1>3, <1>4, <1>5, <1>6, <1>7, <1>8, <1>9 DEF Call, CreateTradingInstance

-----------------------------------------------------------------------------
(* Locks, restarts and recovery.                                           *)

(* Nothing but locks changes. *)
LEMMA LockAloneKeeps ==
  ASSUME IInv, UNCHANGED <<World, task>>, lock' \in [Instance -> 0 .. boot]
  PROVE  IInv'
<1>1. Base
  BY DEF IInv
<1>2. TypeOK'
  BY <1>1 DEF Base, TypeOK, World
<1>3. \A t \in Task : Shape(t)'
  BY <1>1 DEF Base, Shape
<1>4. /\ \A i \in Instance : Busy(i)' = Busy(i) /\ Names(i)' = Names(i)
      /\ \A i \in Instance : Subscribed(i)' = Subscribed(i)
  BY DEF Busy, Names, Subscribed, World
<1>5. Owned' /\ Counted' /\ ErrorFinal'
  BY <1>1, <1>4 DEF Base, Owned, Counted, ErrorFinal, World
<1>6. Base'
  BY <1>1, <1>2, <1>3, <1>5 DEF Base, World
<1>7. ASSUME NEW i \in Instance, Alone(i)' PROVE Followed(i)'
  <2>0. mishap' = mishap
    BY DEF World
  <2>1. Followed(i) /\ Whole(i)' = Whole(i)
    BY <1>7, <2>0 DEF IInv, Alone, Whole
  <2>2. \A t \in Task : Stage(i, t) => Stage(i, t)'
    BY DEF Stage, As, Quiet, Clear, PausesHold, Due, Of, World
  <2>3. As(i, row[i].status) => As(i, row[i].status)'
    BY DEF As, Quiet, Clear, PausesHold, World
  <2>4. \A t \in Task : From(i, task[t].op) => From(i, task[t].op)'
    BY DEF From, World
  <2>5. Busy(i) \subseteq Task
    BY DEF Busy
  <2> QED
    BY <1>4, <2>1, <2>2, <2>3, <2>4, <2>5 DEF Followed, World
<1>8. phase' = "recovering" => boot' > 1 /\ \A i \in Instance : Recovered(i)' /\ mishap'[i] = "none"
  BY DEF IInv, Recovered, World
<1> QED
  BY <1>6, <1>7, <1>8 DEF IInv

(* A new boot knows nothing. *)
LEMMA RestartKeeps ==
  ASSUME IInv, Restart
  PROVE  IInv'
<1>1. /\ boot < MaxBoots /\ boot' = boot + 1 /\ phase' = "recovering"
      /\ registry' = [i \in Instance |-> NoProc]
      /\ procs' = [p \in Proc |-> Blank]
      /\ subs' = [i \in Instance |-> 0]
      /\ grid' = [i \in Instance |-> NoGrid]
      /\ orphans' = [i \in Instance |-> orphans[i] \/ grid[i].orders]
      /\ fixed' = [i \in Instance |-> "NONE"]
      /\ mishap' = [i \in Instance |-> "none"]
      /\ task' = [t \in Task |-> Idle]
      /\ row' = row /\ lock' = lock
  BY DEF Restart
<1>2. Base /\ TypeOK
  BY DEF IInv, Base
<1>3. boot \in Nat /\ boot >= 1 /\ boot' \in 1 .. MaxBoots
  BY <1>1, <1>2, BoundsAssumption DEF TypeOK
<1>4. TypeOK'
  <2>0. "none" \in Mishap
    BY DEF Mishap
  <2>1. Idle \in TaskRecord
    BY DEF Idle, Kept, TaskRecord, Status
  <2>2. Blank \in [status : Status, sub : BOOLEAN] /\ "NONE" \in Status
    BY DEF Blank, Status
  <2>3. NoGrid \in [state : {"none", "active", "paused"}, orders : BOOLEAN]
    BY DEF NoGrid
  <2>4. lock' \in [Instance -> 0 .. boot']
    BY <1>1, <1>2, <1>3 DEF TypeOK
  <2>5. orphans' \in [Instance -> BOOLEAN]
    BY <1>1, <1>2 DEF TypeOK
  <2> QED
    BY <1>1, <1>2, <1>3, <2>0, <2>1, <2>2, <2>3, <2>4, <2>5 DEF TypeOK
<1>5. \A t \in Task : task'[t] = Idle /\ Shape(t)'
  BY <1>1, IdleFields DEF Shape, OpsAt
<1>6. \A i \in Instance : Busy(i)' = {} /\ Names(i)' = {} /\ Subscribed(i)' = {}
  <2>1. \A i \in Instance : Busy(i)' = {}
    BY <1>5, IdleFields, NoneAssumption DEF Busy
  <2>2. \A i \in Instance : Names(i)' = {}
    BY <1>1, <2>1 DEF Names
  <2> QED
    BY <2>1, <2>2 DEF Subscribed
<1>7. Owned' /\ Counted' /\ ErrorFinal'
  <2>1. Owned'
    BY <1>6 DEF Owned
  <2>2. Counted'
    <3> SUFFICES ASSUME NEW i \in Instance PROVE Cardinality(Subscribed(i)') <= subs'[i]
      BY DEF Counted
    <3>1. Cardinality(Subscribed(i)') = 0 /\ subs'[i] = 0
      BY <1>1, <1>6, FS_EmptySet
    <3> QED
      BY <3>1
  <2>3. ErrorFinal'
    BY <1>5, IdleFields DEF ErrorFinal
  <2> QED
    BY <2>1, <2>2, <2>3
<1>8. Base'
  BY <1>1, <1>4, <1>5, <1>7, IdleFields DEF Base, NoGrid
<1>9. \A i \in Instance : Followed(i)'
  BY <1>1, <1>6 DEF Followed
<1>10. \A i \in Instance : Recovered(i)' /\ mishap'[i] = "none"
  BY <1>1 DEF Recovered
<1>11. boot' > 1
  BY <1>1, <1>3
<1> QED
  BY <1>8, <1>9, <1>10, <1>11 DEF IInv

(* While recovery runs there are no requests, and an object belongs to the *)
(* instance that registered it.                                            *)
LEMMA Recovering ==
  ASSUME IInv, phase = "recovering"
  PROVE  /\ Base /\ TypeOK /\ boot > 1
         /\ \A t \in Task : task[t].pc = "idle" /\ task[t].inst = NoInstance
                              /\ task[t].proc = NoProc
         /\ \A i \in Instance : Recovered(i) /\ Busy(i) = {} /\ mishap[i] = "none"
         /\ \A i \in Instance : Names(i) = {registry[i]} \ {NoProc}
<1>1. Base /\ TypeOK /\ \A t \in Task : task[t].pc = "idle"
  BY DEF IInv, Base
<1>2. \A t \in Task : task[t].inst = NoInstance /\ task[t].proc = NoProc
  BY <1>1, AtWork
<1>3. \A i \in Instance : Busy(i) = {}
  BY <1>2, NoneAssumption DEF Busy
<1> QED
  BY <1>1, <1>2, <1>3 DEF IInv, Names

(* Recovery flushes what it has found out about one instance. *)
LEMMA RecoverKeeps ==
  ASSUME IInv, NEW i \in Instance, Recover(i)
  PROVE  IInv'
<1>1. /\ phase = "recovering" /\ i \in ToRecover
      /\ UNCHANGED <<row, subs, grid, orphans, boot, phase, mishap, task>>
  BY DEF Recover, RecoverInstance, RecoverFails, memory
<1>2. /\ Base /\ TypeOK /\ boot > 1
      /\ \A t \in Task : task[t].pc = "idle" /\ task[t].inst = NoInstance
                           /\ task[t].proc = NoProc
      /\ \A j \in Instance : Recovered(j) /\ Busy(j) = {} /\ mishap[j] = "none"
      /\ \A j \in Instance : Names(j) = {registry[j]} \ {NoProc}
  BY <1>1, Recovering
<1>3. /\ fixed[i] = "NONE" /\ registry[i] = NoProc
      /\ row[i].status \in {"RUNNING", "PAUSED", "RECOVERING"}
  BY <1>1, <1>2 DEF ToRecover, Recovered
<1>4. lock' \in [Instance -> 0 .. boot]
  <2>1. boot \in 0 .. boot /\ 0 \in 0 .. boot /\ lock \in [Instance -> 0 .. boot]
    BY <1>2, BoundsAssumption DEF TypeOK
  <2> QED
    BY <2>1 DEF Recover, RecoverInstance, RecoverFails
<1>5. \E p \in Proc \cup {NoProc}, s \in Status :
        /\ registry' = [registry EXCEPT ![i] = p]
        /\ fixed' = [fixed EXCEPT ![i] = s]
        /\ \/ s = "ERROR" /\ p = NoProc /\ procs' = procs
           \/ /\ s = row[i].status /\ s \in {"RUNNING", "PAUSED"} /\ p \in Proc \ InUse
              /\ procs' = [procs EXCEPT ![p] = [status |-> s, sub |-> FALSE]]
  <2>1. CASE RecoverFails(i)
    <3>1. registry' = registry /\ procs' = procs /\ fixed' = [fixed EXCEPT ![i] = "ERROR"]
      BY <2>1 DEF RecoverFails, memory
    <3>2. registry' = [registry EXCEPT ![i] = NoProc] /\ "ERROR" \in Status
      BY <1>2, <1>3, <3>1 DEF TypeOK, Status
    <3> QED
      BY <3>1, <3>2
  <2>2. CASE RecoverInstance(i)
    <3>1. NewProc \in Proc \ InUse
      BY <1>2, <1>3, NewProcFree
    <3>2. row[i].status \in {"RUNNING", "PAUSED"} /\ row[i].status \in Status
      BY <1>3, <2>2 DEF RecoverInstance, Status
    <3> HIDE DEF NewProc
    <3> QED
      BY <2>2, <3>1, <3>2 DEF RecoverInstance
  <2> QED
    BY <2>1, <2>2 DEF Recover
<1>6. PICK p \in Proc \cup {NoProc}, s \in Status :
        /\ registry' = [registry EXCEPT ![i] = p]
        /\ fixed' = [fixed EXCEPT ![i] = s]
        /\ \/ s = "ERROR" /\ p = NoProc /\ procs' = procs
           \/ /\ s = row[i].status /\ s \in {"RUNNING", "PAUSED"} /\ p \in Proc \ InUse
              /\ procs' = [procs EXCEPT ![p] = [status |-> s, sub |-> FALSE]]
  BY <1>5
<1>7. /\ registry \in [Instance -> Proc \cup {NoProc}] /\ fixed \in [Instance -> Status]
      /\ procs \in [Proc -> [status : Status, sub : BOOLEAN]]
      /\ NoProc \notin Proc
  BY <1>2, NoneAssumption DEF TypeOK
<1>8. /\ registry'[i] = p /\ \A j \in Instance : j # i => registry'[j] = registry[j]
      /\ registry' \in [Instance -> Proc \cup {NoProc}]
      /\ fixed'[i] = s /\ \A j \in Instance : j # i => fixed'[j] = fixed[j]
      /\ fixed' \in [Instance -> Status]
  BY <1>6, <1>7
<1>9. /\ procs' \in [Proc -> [status : Status, sub : BOOLEAN]]
      /\ \A q \in Proc : q # p => procs'[q] = procs[q]
      /\ p \in Proc => procs'[p] = [status |-> s, sub |-> FALSE]
  <2>1. CASE procs' = procs /\ p = NoProc
    BY <1>7, <2>1
  <2>2. CASE p \in Proc /\ procs' = [procs EXCEPT ![p] = [status |-> s, sub |-> FALSE]]
    BY <1>7, <2>2
  <2> QED
    BY <1>6, <2>1, <2>2
<1>10. p \in Proc => p \notin InUse /\ s = row[i].status /\ s \in {"RUNNING", "PAUSED"}
  BY <1>6, <1>7
<1>11. p \notin Proc => p = NoProc /\ s = "ERROR"
  BY <1>6, <1>7
<1>12. TypeOK'
  BY <1>1, <1>2, <1>4, <1>8, <1>9 DEF TypeOK
<1>13. \A j \in Instance : Busy(j)' = {} /\ Names(j)' = {registry'[j]} \ {NoProc}
  BY <1>1, <1>2 DEF Busy, Names
<1>14. Owned'
  <2>1. \A j \in Instance : registry[j] \in InUse
    BY DEF InUse
  <2>2. \A j, k \in Instance : j # k => registry[j] # registry[k] \/ registry[j] = NoProc
    BY <1>2 DEF Base, Owned
  <2>3. \A j, k \in Instance : j # k => registry'[j] # registry'[k] \/ registry'[j] = NoProc
    BY <1>8, <1>10, <1>11, <2>1, <2>2
  <2> QED
    BY <1>13, <2>3 DEF Owned
<1>15. \A j \in Instance : Subscribed(j)' = {}
  <2>1. ASSUME NEW j \in Instance, registry'[j] # NoProc PROVE ~procs'[registry'[j]].sub
    <3>1. CASE j = i
      BY <1>8, <1>9, <2>1, <3>1
    <3>2. CASE j # i
      <4>1. registry'[j] = registry[j] /\ registry[j] \in Proc /\ registry[j] \in InUse
        BY <1>7, <1>8, <2>1, <3>2 DEF InUse
      <4>2. procs'[registry[j]] = procs[registry[j]]
        BY <1>9, <1>10, <4>1
      <4>3. ~procs[registry[j]].sub
        <5>1. Recovered(j) /\ registry[j] # NoProc
          BY <1>2, <2>1, <4>1
        <5>2. procs[registry[j]] = [status |-> fixed[j], sub |-> FALSE]
          BY <5>1 DEF Recovered
        <5> QED
          BY <5>2
      <4> QED
        BY <4>1, <4>2, <4>3
    <3> QED
      BY <3>1, <3>2
  <2> QED
    BY <1>13, <2>1 DEF Subscribed
<1>16. Counted'
  <2>1. \A j \in Instance : subs'[j] \in Nat
    BY <1>12 DEF TypeOK
  <2> QED
    BY <1>15, <2>1, FS_EmptySet DEF Counted
<1>17. Base'
  <2>1. \A t \in Task : Shape(t)'
    BY <1>1, <1>2 DEF Base, Shape
  <2>2. ErrorFinal'
    BY <1>1, <1>2 DEF ErrorFinal
  <2> QED
    BY <1>1, <1>2, <1>12, <1>14, <1>16, <2>1, <2>2 DEF Base
<1>18. \A j \in Instance : Recovered(j)'
  <2>1. Recovered(i)'
    <3>1. Recovered(i)
      BY <1>2
    <3>2. p \in Proc => Recovered(i)'
      BY <1>1, <1>3, <1>7, <1>8, <1>9, <1>10, <3>1 DEF Recovered
    <3>3. p \notin Proc => Recovered(i)'
      BY <1>1, <1>3, <1>8, <1>11, <3>1 DEF Recovered
    <3> QED
      BY <3>2, <3>3
  <2>2. ASSUME NEW j \in Instance, j # i PROVE Recovered(j)'
    <3>1. registry'[j] = registry[j] /\ fixed'[j] = fixed[j] /\ Recovered(j)
      BY <1>2, <1>8, <2>2
    <3>2. registry[j] # NoProc => procs'[registry[j]] = procs[registry[j]]
      BY <1>7, <1>9, <1>10, <1>8 DEF InUse
    <3> QED
      BY <1>1, <3>1, <3>2 DEF Recovered
  <2> QED
    BY <2>1, <2>2
<1>19. \A j \in Instance : Followed(j)'
  BY <1>1, <1>13 DEF Followed
<1> QED
  BY <1>1, <1>2, <1>17, <1>18, <1>19 DEF IInv

(* Recovery commits, and every instance is as its row says. *)
LEMMA RecoveryEndsKeeps ==
  ASSUME IInv, RecoveryEnds
  PROVE  IInv'
<1>1. /\ phase = "recovering" /\ ToRecover = {} /\ phase' = "serving"
      /\ row' = [i \in Instance |-> IF fixed[i] = "NONE" THEN row[i]
                                    ELSE [row[i] EXCEPT !.status = fixed[i]]]
      /\ UNCHANGED <<lock, registry, procs, subs, grid, orphans, boot, fixed, mishap, task>>
  BY DEF RecoveryEnds, memory
<1>2. /\ Base /\ TypeOK /\ boot > 1
      /\ \A t \in Task : task[t].pc = "idle" /\ task[t].inst = NoInstance
                           /\ task[t].proc = NoProc
      /\ \A j \in Instance : Recovered(j) /\ Busy(j) = {} /\ mishap[j] = "none"
  BY <1>1, Recovering
<1>3. /\ row \in [Instance -> [status : Status, deleted : BOOLEAN]]
      /\ fixed \in [Instance -> Status]
  BY <1>2 DEF TypeOK
<1>4. /\ row' \in [Instance -> [status : Status, deleted : BOOLEAN]]
      /\ \A i \in Instance : row'[i].status = IF fixed[i] = "NONE" THEN row[i].status
                                              ELSE fixed[i]
  BY <1>1, <1>3
<1>5. TypeOK'
  BY <1>1, <1>2, <1>4 DEF TypeOK
<1>6. /\ \A i \in Instance : Busy(i)' = {} /\ Names(i)' = Names(i)
      /\ \A i \in Instance : Subscribed(i)' = Subscribed(i)
  BY <1>1, <1>2 DEF Busy, Names, Subscribed
<1>7. Base'
  <2>1. \A t \in Task : Shape(t)'
    BY <1>1, <1>2 DEF Base, Shape
  <2>2. Owned' /\ Counted'
    BY <1>1, <1>2, <1>6 DEF Base, Owned, Counted
  <2>3. ErrorFinal'
    BY <1>1, <1>2 DEF ErrorFinal
  <2> QED
    BY <1>1, <1>2, <1>5, <2>1, <2>2, <2>3 DEF Base
<1>8. ASSUME NEW i \in Instance PROVE Followed(i)'
  <2>1. /\ grid[i] = NoGrid /\ subs[i] = 0 /\ Recovered(i)
    BY <1>2 DEF Recovered
  <2>2. CASE fixed[i] = "NONE"
    <3>1. row[i].status \notin {"RUNNING", "PAUSED"} /\ registry[i] = NoProc
      BY <1>1, <2>1, <2>2 DEF ToRecover, Recovered
    <3>2. As(i, row[i].status)'
      BY <1>1, <1>2, <1>4, <2>1, <2>2, <3>1 DEF As, Quiet, Clear, NoGrid
    <3> QED
      BY <1>6, <3>2 DEF Followed
  <2>3. CASE fixed[i] = "ERROR"
    <3>1. As(i, row[i].status)'
      BY <1>1, <1>2, <1>4, <2>1, <2>3 DEF As, Quiet, Clear, NoGrid, Recovered
    <3> QED
      BY <1>6, <3>1 DEF Followed
  <2>4. CASE fixed[i] \notin {"NONE", "ERROR"}
    <3>1. /\ registry[i] # NoProc /\ procs[registry[i]].status = fixed[i]
          /\ ~procs[registry[i]].sub /\ fixed[i] \in {"RUNNING", "PAUSED"}
      BY <2>1, <2>4 DEF Recovered
    <3>2. As(i, row[i].status)'
      BY <1>1, <1>2, <1>4, <2>1, <2>4, <3>1 DEF As, Quiet, Clear, NoGrid
    <3> QED
      BY <1>6, <3>2 DEF Followed
  <2> QED
    BY <2>2, <2>3, <2>4
<1> QED
  BY <1>1, <1>7, <1>8 DEF IInv

(* Recovery gives up: what it registered is as its row says.               *)
LEMMA RecoveryBreaksKeeps ==
  ASSUME IInv, RecoveryBreaks
  PROVE  IInv'
<1> DEFINE Missed(i) ==
      row[i].status \in {"RUNNING", "PAUSED", "RECOVERING"} /\ registry[i] = NoProc
<1>1. /\ phase = "recovering" /\ phase' = "serving"
      /\ mishap' = [i \in Instance |-> IF Missed(i) THEN "undone" ELSE mishap[i]]
      /\ UNCHANGED <<row, lock, registry, procs, subs, grid, orphans, boot, fixed, task>>
  BY DEF RecoveryBreaks, memory
<1>2. /\ Base /\ TypeOK /\ boot > 1
      /\ \A t \in Task : task[t].pc = "idle" /\ task[t].inst = NoInstance
                           /\ task[t].proc = NoProc
      /\ \A j \in Instance : Recovered(j) /\ Busy(j) = {} /\ mishap[j] = "none"
  BY <1>1, Recovering
<1>3. mishap' \in [Instance -> Mishap]
  BY <1>1, <1>2 DEF Mishap
<1>4. TypeOK'
  BY <1>1, <1>2, <1>3 DEF TypeOK
<1>5. /\ \A i \in Instance : Busy(i)' = {} /\ Names(i)' = Names(i)
      /\ \A i \in Instance : Subscribed(i)' = Subscribed(i)
  BY <1>1, <1>2 DEF Busy, Names, Subscribed
<1>6. Base'
  <2>1. \A t \in Task : Shape(t)'
    BY <1>1, <1>2 DEF Base, Shape
  <2>2. Owned' /\ Counted' /\ ErrorFinal'
    BY <1>1, <1>2, <1>5 DEF Base, Owned, Counted, ErrorFinal
  <2> QED
    BY <1>1, <1>2, <1>4, <2>1, <2>2 DEF Base
<1>7. ASSUME NEW i \in Instance PROVE Followed(i)'
  <2>1. grid[i] = NoGrid /\ subs[i] = 0 /\ Recovered(i)
    BY <1>2 DEF Recovered
  <2>2. ASSUME Whole(i)' PROVE As(i, row[i].status)'
    <3>1. ~Missed(i)
      BY <1>1, <2>2 DEF Whole
    <3>2. CASE registry[i] = NoProc
      BY <1>1, <1>2, <2>1, <3>1, <3>2 DEF As, Quiet, Clear, NoGrid
    <3>3. CASE registry[i] # NoProc
      <4>1. /\ procs[registry[i]] = [status |-> fixed[i], sub |-> FALSE]
            /\ fixed[i] = row[i].status /\ fixed[i] \in {"RUNNING", "PAUSED"}
        BY <2>1, <3>3 DEF Recovered
      <4> QED
        BY <1>1, <1>2, <2>1, <3>3, <4>1 DEF As, Quiet, Clear, NoGrid
    <3> QED
      BY <3>2, <3>3
  <2> QED
    BY <1>5, <2>2 DEF Followed
<1> QED
  BY <1>1, <1>6, <1>7 DEF IInv

-----------------------------------------------------------------------------
(* The theorems.                                                           *)

LEMMA InitIInv == Init => IInv
<1> SUFFICES ASSUME Init PROVE IInv
  OBVIOUS
<1>1. /\ row = [i \in Instance |-> Unborn] /\ lock = [i \in Instance |-> 0]
      /\ registry = [i \in Instance |-> NoProc] /\ procs = [p \in Proc |-> Blank]
      /\ subs = [i \in Instance |-> 0] /\ grid = [i \in Instance |-> NoGrid]
      /\ orphans = [i \in Instance |-> FALSE] /\ boot = 1 /\ phase = "serving"
      /\ fixed = [i \in Instance |-> "NONE"] /\ mishap = [i \in Instance |-> "none"]
      /\ task = [t \in Task |-> Idle]
  BY DEF Init
<1>2. TypeOK
  <2>0. "none" \in Mishap
    BY DEF Mishap
  <2>1. Idle \in TaskRecord
    BY DEF Idle, Kept, TaskRecord, Status
  <2>2. Blank \in [status : Status, sub : BOOLEAN] /\ "NONE" \in Status
    BY DEF Blank, Status
  <2>3. NoGrid \in [state : {"none", "active", "paused"}, orders : BOOLEAN]
    BY DEF NoGrid
  <2>4. Unborn \in [status : Status, deleted : BOOLEAN]
    BY DEF Unborn, Status
  <2>5. 1 \in 1 .. MaxBoots /\ 0 \in 0 .. 1
    BY BoundsAssumption
  <2> QED
    BY <1>1, <2>0, <2>1, <2>2, <2>3, <2>4, <2>5 DEF TypeOK
<1>3. \A t \in Task : task[t] = Idle /\ Shape(t)
  BY <1>1, IdleFields DEF Shape, OpsAt
<1>4. \A i \in Instance : Busy(i) = {} /\ Names(i) = {} /\ Subscribed(i) = {}
  <2>1. \A i \in Instance : Busy(i) = {}
    BY <1>3, IdleFields, NoneAssumption DEF Busy
  <2>2. \A i \in Instance : Names(i) = {}
    BY <1>1, <2>1 DEF Names
  <2> QED
    BY <2>1, <2>2 DEF Subscribed
<1>5. Owned /\ Counted /\ ErrorFinal
  <2>1. Owned
    BY <1>4 DEF Owned
  <2>2. Counted
    BY <1>1, <1>4, FS_EmptySet DEF Counted
  <2>3. ErrorFinal
    BY <1>3, IdleFields DEF ErrorFinal
  <2> QED
    BY <2>1, <2>2, <2>3
<1>6. Base
  BY <1>1, <1>2, <1>3, <1>5 DEF Base, NoGrid
<1>7. \A i \in Instance : Followed(i)
  BY <1>1, <1>4 DEF Followed, As, Quiet, Clear, Unborn, NoGrid
<1> QED
  BY <1>1, <1>6, <1>7 DEF IInv

(* Every step keeps the invariant. *)
LEMMA StepIInv == IInv /\ [Next]_vars => IInv'
<1> SUFFICES ASSUME IInv, [Next]_vars PROVE IInv'
  OBVIOUS
<1>0. lock \in [Instance -> 0 .. boot] /\ boot \in Nat
  BY BoundsAssumption DEF IInv, Base, TypeOK
<1>1. ASSUME NEW t \in Task, Proceed(t) PROVE IInv'
  BY <1>1, VerifiedKeeps, CheckDuplicateRunningKeeps, LockedKeeps, BuildsKeep, WiredKeeps,
     SubscribeKeeps, MarkStoppingKeeps, GetProcessKeeps, NoProcessKeeps, UnsubscribeKeeps,
     PauseGridKeeps, ReleasedKeeps, UnregisterKeeps, PersistKeeps, RemoveKeeps, CommitKeeps
  DEF Proceed
<1>2. ASSUME NEW t \in Task, VerifyFails(t) \/ BuildFails(t) PROVE IInv'
  <2>1. /\ UNCHANGED World /\ lock' = lock /\ Rollback(t)
        /\ task[t].pc \in {"verify", "duplicates", "lock", "build", "rebuild"}
    BY <1>2 DEF VerifyFails, BuildFails, World, memory, At
  <2> QED
    BY <2>1, GivesUp
<1>3. ASSUME NEW t \in Task, Fault(t) PROVE IInv'
  BY <1>2, <1>3, LockedKeeps, WireSkippedKeeps, WiredKeeps, PauseGridKeeps, ReleasedKeeps,
     DatabaseFailsKeeps DEF Fault
<1>4. ASSUME NEW i \in Instance, LockExpires(i) PROVE IInv'
  <2>1. UNCHANGED <<World, task>> /\ lock' \in [Instance -> 0 .. boot]
    BY <1>0, <1>4 DEF LockExpires, World, memory
  <2> QED
    BY <2>1, LockAloneKeeps
<1>5. CASE UNCHANGED vars
  <2>1. UNCHANGED <<World, task>> /\ lock' = lock
    BY <1>5 DEF vars, World, memory
  <2> QED
    BY <1>0, <2>1, LockAloneKeeps
<1> QED
  BY <1>1, <1>3, <1>4, <1>5, CallKeeps, RecoverKeeps, RestartKeeps, RecoveryEndsKeeps,
     RecoveryBreaksKeeps DEF Next

LEMMA Always == Spec => []IInv
  BY InitIInv, StepIInv, PTL DEF Spec

(* The tables and the requests keep their types in every reachable state.  *)
THEOREM TypeCorrect == Spec => []TypeOK
<1>1. IInv => TypeOK
  BY DEF IInv, Base
<1> QED
  BY <1>1, Always, PTL

(* At rest an instance is as its row says. *)
LEMMA AtRest ==
  ASSUME IInv, NEW i \in Instance, Settled(i)
  PROVE  As(i, row[i].status)
BY DEF IInv, Settled, Followed, Alone, Whole

(* Between requests the in-process registry and the database agree, for    *)
(* any number of instances and requests and through every fault but a      *)
(* transaction that fails after the request has touched the process.       *)
THEOREM RegistryAgrees == Spec => []RegistryMatchesRow
<1>1. IInv => RegistryMatchesRow
  BY AtRest DEF RegistryMatchesRow, As
<1> QED
  BY <1>1, Always, PTL

(* Between requests only a RUNNING instance listens and, unless a pause of  *)
(* the grid failed, trades.                                                *)
THEOREM OnlyRunningTrades == Spec => []QuietUnlessRunning
<1>1. IInv => QuietUnlessRunning
  BY AtRest DEF QuietUnlessRunning, As, Quiet
<1> QED
  BY <1>1, Always, PTL

(* Until a restart, what does not run has nothing left on the exchange,     *)
(* unless a pause of the grid failed.                                      *)
THEOREM StoppedHasNoOrders == Spec => []StopCancelsBeforeRestart
<1>1. IInv => StopCancelsBeforeRestart
  BY AtRest DEF StopCancelsBeforeRestart, As, Quiet, Clear
<1> QED
  BY <1>1, Always, PTL

(* What one and two transitions reach. *)
LEMMA Reached ==
  ASSUME NEW from \in Status
  PROVE  /\ from \in Reach(from) /\ TRANSITIONS[from] \subseteq Reach(from)
         /\ \A s \in TRANSITIONS[from] : TRANSITIONS[s] \subseteq Reach(from)
<1> DEFINE step(S) == S \cup UNION {TRANSITIONS[s] : s \in S}
<1>1. /\ \A S : S \subseteq step(S)
      /\ \A S : \A s \in S : TRANSITIONS[s] \subseteq step(S)
  OBVIOUS
<1>2. Reach(from) = step(step(step({from})))
  BY DEF Reach
<1> HIDE DEF step
<1>3. from \in step({from}) /\ TRANSITIONS[from] \subseteq step({from})
  BY <1>1
<1>4. \A s \in step({from}) : s \in Reach(from) /\ TRANSITIONS[s] \subseteq Reach(from)
  <2>1. \A s \in step({from}) : s \in step(step({from})) /\ TRANSITIONS[s] \subseteq step(step({from}))
    BY <1>1
  <2>2. step(step({from})) \subseteq Reach(from)
    BY <1>1, <1>2
  <2> QED
    BY <2>1, <2>2
<1> QED
  BY <1>3, <1>4

(* What a step may do to a row. *)
RowMoves(i) ==
  /\ row[i].status = "ERROR" => row'[i].status = "ERROR"
  /\ row[i].deleted => row'[i].deleted
  /\ row[i].status # "NONE" /\ mishap[i] # "mixed" => row'[i].status \in Reach(row[i].status)

LEMMA RowStays ==
  ASSUME TypeOK, NEW i \in Instance, row'[i] = row[i]
  PROVE  RowMoves(i)
BY Reached DEF RowMoves, TypeOK

LEMMA CommitMoves ==
  ASSUME IInv, NEW t \in Task, Commit(t), NEW i \in Instance
  PROVE  RowMoves(i)
<1>1. task[t].pc = "commit" /\ phase = "serving"
  BY DEF Commit, At, IInv, Base, TypeOK
<1>2. PICK j \in Instance : task[t].inst = j
  BY <1>1, AtPoint
<1>3. /\ Base /\ TypeOK /\ task[t].op \in OpsAt["commit"]
      /\ task[t].write.status \in Written(task[t].op)
      /\ task[t].op = "delete" => task[t].write.status = "NONE"
      /\ row \in [Instance -> [status : Status, deleted : BOOLEAN]]
      /\ row[i].status \in Status
  BY <1>1, AtPoint DEF Shape, TypeOK
<1>4. row' = [row EXCEPT ![j] =
        [status  |-> IF task[t].write.status = "NONE" THEN row[j].status
                     ELSE task[t].write.status,
         deleted |-> row[j].deleted \/ task[t].write.deleted]]
  BY <1>2 DEF Commit, Of
<1>5. CASE i # j
  BY <1>3, <1>4, <1>5, RowStays
<1>6. CASE i = j
  <2>1. /\ row'[i].status = IF task[t].write.status = "NONE" THEN row[i].status
                            ELSE task[t].write.status
        /\ row[i].deleted => row'[i].deleted
    BY <1>3, <1>4, <1>6
  <2>2. row[i].status = "ERROR" => row'[i].status = "ERROR"
    BY <1>1, <1>2, <1>3, <1>6, <2>1 DEF Base, ErrorFinal
  <2>3. ASSUME row[i].status # "NONE", mishap[i] # "mixed"
        PROVE  row'[i].status \in Reach(row[i].status)
    <3>1. From(i, task[t].op)
      BY <1>1, <1>2, <1>6, <2>3 DEF IInv, Followed, Alone, Busy
    <3>2. CASE task[t].op \in {"create", "delete"}
      BY <1>3, <2>1, <2>3, <3>1, <3>2, Reached DEF From
    <3>3. CASE task[t].op = "prepare"
      <4>1. row[i].status = "CREATED" /\ row'[i].status = "READY"
        BY <1>3, <2>1, <3>1, <3>3 DEF From, Written
      <4> QED
        BY <1>3, <4>1, Reached DEF TRANSITIONS
    <3>4. CASE task[t].op \in {"start", "resume"}
      <4>1. /\ row[i].status \in {"READY", "PAUSED", "RECOVERED"}
            /\ row'[i].status = "RUNNING"
        BY <1>3, <2>1, <3>1, <3>4 DEF From, Written
      <4> QED
        BY <1>3, <4>1, Reached DEF TRANSITIONS
    <3>5. CASE task[t].op = "pause"
      <4>1. row[i].status \in {"RUNNING", "RECOVERED"} /\ row'[i].status = "PAUSED"
        BY <1>3, <2>1, <3>1, <3>5 DEF From, Written
      <4> QED
        BY <1>3, <4>1, Reached DEF TRANSITIONS
    <3>6. CASE task[t].op = "stop"
      <4>1. row[i].status = "RUNNING" /\ row'[i].status = "STOPPED"
        BY <1>3, <2>1, <3>1, <3>6 DEF From, Written
      <4>2. "STOPPING" \in TRANSITIONS["RUNNING"] /\ "STOPPED" \in TRANSITIONS["STOPPING"]
        BY DEF TRANSITIONS
      <4> QED
        BY <1>3, <4>1, <4>2, Reached
    <3> QED
      BY <1>3, <3>2, <3>3, <3>4, <3>5, <3>6 DEF OpsAt
  <2> QED
    BY <2>1, <2>2, <2>3 DEF RowMoves
<1> QED
  BY <1>5, <1>6

LEMMA RecoveryMoves ==
  ASSUME IInv, RecoveryEnds, NEW i \in Instance
  PROVE  RowMoves(i)
<1>1. /\ phase = "recovering"
      /\ row' = [j \in Instance |-> IF fixed[j] = "NONE" THEN row[j]
                                    ELSE [row[j] EXCEPT !.status = fixed[j]]]
  BY DEF RecoveryEnds
<1>2. /\ TypeOK /\ Recovered(i) /\ row[i] \in [status : Status, deleted : BOOLEAN]
      /\ row[i].status \in Status
  BY <1>1, Recovering DEF TypeOK
<1>3. CASE fixed[i] = "NONE" \/ fixed[i] = row[i].status
  <2>1. row'[i] = row[i]
    BY <1>1, <1>2, <1>3
  <2> QED
    BY <1>2, <2>1, RowStays
<1>4. CASE fixed[i] = "ERROR"
  <2>1. /\ row[i].status \in {"RUNNING", "PAUSED", "RECOVERING"}
        /\ row'[i].status = "ERROR" /\ row'[i].deleted = row[i].deleted
    BY <1>1, <1>2, <1>4 DEF Recovered
  <2>2. "ERROR" \in TRANSITIONS[row[i].status]
    BY <2>1 DEF TRANSITIONS
  <2> QED
    BY <1>2, <2>1, <2>2, Reached DEF RowMoves
<1> QED
  BY <1>2, <1>3, <1>4 DEF Recovered

(* No other step touches a row. *)
LEMMA StepMoves ==
  ASSUME IInv, Next, NEW i \in Instance
  PROVE  RowMoves(i)
<1>0. TypeOK
  BY DEF IInv, Base
<1>1. ASSUME NEW t \in Task, Proceed(t) PROVE RowMoves(i)
  <2>1. Commit(t) \/ row' = row
    BY <1>1 DEF Proceed, Verified, CheckDuplicateRunning, AcquireLock, Build, WireGrid, Subscribe,
                MarkStopping, GetProcess, NoProcess, Rebuild, Unsubscribe, PauseGrid, ReleaseLock,
                Unregister, Persist, Remove
  <2> QED
    BY <1>0, <2>1, CommitMoves, RowStays
<1>2. ASSUME NEW t \in Task, Fault(t) PROVE RowMoves(i)
  <2>1. row' = row
    BY <1>2 DEF Fault, VerifyFails, LockUnavailable, BuildFails, WireSkipped, WireBreaks,
                PauseGridFails, ReleaseFails, DatabaseFails
  <2> QED
    BY <1>0, <2>1, RowStays
<1>3. ASSUME NEW t \in Task, NEW j \in Instance, Call(t, j) PROVE RowMoves(i)
  <2>1. row' = row
    BY <1>3 DEF Call, CreateTradingInstance, CreateProcess, Prepare, Start, Pause, Resume, Stop,
                Delete, Validated
  <2> QED
    BY <1>0, <2>1, RowStays
<1>4. ASSUME NEW j \in Instance, LockExpires(j) \/ Recover(j) PROVE RowMoves(i)
  <2>1. row' = row
    BY <1>4 DEF LockExpires, Recover, RecoverInstance, RecoverFails
  <2> QED
    BY <1>0, <2>1, RowStays
<1>5. CASE Restart
  <2>1. row' = row
    BY <1>5 DEF Restart
  <2> QED
    BY <1>0, <2>1, RowStays
<1>6. CASE RecoveryBreaks
  <2>1. row' = row
    BY <1>6 DEF RecoveryBreaks
  <2> QED
    BY <1>0, <2>1, RowStays
<1> QED
  BY <1>1, <1>2, <1>3, <1>4, <1>5, <1>6, RecoveryMoves DEF Next

(* Committed statuses are left along TRANSITIONS only, and ERROR and       *)
(* deletion are final, overlaps or not.                                    *)
THEOREM StatusesFollowTable == Spec => RowsFollowTable
<1>1. IInv /\ [Next]_vars =>
        [\A i \in Instance :
           /\ row[i].status = "ERROR" => row'[i].status = "ERROR"
           /\ row[i].deleted => row'[i].deleted
           /\ row[i].status # "NONE" /\ mishap[i] # "mixed" => row'[i].status \in Reach(row[i].status)]_vars
  BY StepMoves DEF RowMoves
<1> QED
  BY <1>1, Always, PTL DEF Spec, RowsFollowTable

=============================================================================
