--------------------------- MODULE ProcessManager ---------------------------
(***************************************************************************)
(* src/backend/engine/trading: TradingProcessManager, its Redis lock, its  *)
(* in-process registry and ProcessStateMachine, with the API endpoints     *)
(* that call it and the recovery of main.lifespan.  The instances are the  *)
(* bots of one symbol, strategy and exchange account.                      *)
(*                                                                         *)
(* One server process serves the API; WORKER_ID is new in each boot.  A    *)
(* request is a coroutine with a database transaction of its own: it sees  *)
(* committed rows, a flush takes the row's lock until the commit, and an   *)
(* exception, of the database too, rolls the transaction back but nothing  *)
(* else.  The grid and the market hub are modelled by what wiring does to  *)
(* them.                                                                   *)
(***************************************************************************)
EXTENDS Naturals, FiniteSets

CONSTANTS
  Instance,     \* trading instances
  Task,         \* requests that may be in flight at one time
  Proc,         \* TradingProcess objects, reused once nothing names them
  MaxBoots,     \* bound: boots of the server
  MaxMixed,     \* bound: boots in which requests overlap on an instance
  MaxSubs,      \* bound: no start once this many subscriptions have leaked
  NoInstance, NoProc

ASSUME NoneAssumption ==
  NoInstance \notin Instance /\ NoProc \notin Proc /\ Proc \subseteq Nat
ASSUME BoundsAssumption == {MaxBoots, MaxMixed, MaxSubs} \subseteq Nat \ {0}
(* There is always a process object left to build. *)
ASSUME ProcAssumption ==
  /\ IsFiniteSet(Instance) /\ IsFiniteSet(Task) /\ IsFiniteSet(Proc)
  /\ Cardinality(Proc) >= Cardinality(Instance) + Cardinality(Task)

VARIABLES
  row,       \* committed trading_instances rows
  lock,      \* Redis process:<id>:lock, by the boot that holds it; 0 is free
  registry,  \* _process_registry
  procs,     \* the TradingProcess objects
  subs,      \* live MarketHub subscriptions made for an instance
  grid,      \* GridEngine's grid of an instance
  orphans,   \* the exchange works orders of the instance that no grid knows
  boot,      \* number of the running boot (its WORKER_ID)
  phase,     \* "recovering" in lifespan, then "serving"
  fixed,     \* status recovery has flushed for an instance
  mishap,    \* history: the worst that happened to an instance in this boot
  task

memory == <<registry, procs, subs, grid>>
vars == <<row, lock, memory, orphans, boot, phase, fixed, mishap, task>>

(* From bad to worse: a pause failed to quiet the grid; a transaction was  *)
(* rolled back after the request had changed the registry, the process,    *)
(* the grid or the subscription; two requests overlapped.                  *)
Mishap == {"none", "restless", "undone", "mixed"}

Status == {"NONE", "CREATED", "READY", "RUNNING", "PAUSED", "STOPPING",
           "STOPPED", "ERROR", "RECOVERING", "RECOVERED"}

TRANSITIONS ==
  [NONE       |-> {},
   CREATED    |-> {"READY"},
   READY      |-> {"RUNNING"},
   RUNNING    |-> {"PAUSED", "STOPPING", "RECOVERING", "ERROR"},
   PAUSED     |-> {"RUNNING", "RECOVERING", "ERROR"},
   STOPPING   |-> {"STOPPED", "ERROR"},
   STOPPED    |-> {},
   ERROR      |-> {},
   RECOVERING |-> {"RECOVERED", "ERROR"},
   RECOVERED  |-> {"RUNNING", "PAUSED", "ERROR"}]

(* Mutant: only the status the row already has is refused. *)
CanMoveAnywhere(from, to) == from # "NONE" /\ from # to
CanMove(from, to) == to \in TRANSITIONS[from]

Kept   == [status |-> "NONE", deleted |-> FALSE]
Idle   == [op |-> "none", inst |-> NoInstance, pc |-> "idle", proc |-> NoProc,
           write |-> Kept]
Blank  == [status |-> "NONE", sub |-> FALSE]
NoGrid == [state |-> "none", orders |-> FALSE]

Unborn == [status |-> "NONE", deleted |-> FALSE]

Init ==
  /\ row = [i \in Instance |-> Unborn]
  /\ lock = [i \in Instance |-> 0]
  /\ registry = [i \in Instance |-> NoProc]
  /\ procs = [p \in Proc |-> Blank]
  /\ subs = [i \in Instance |-> 0]
  /\ grid = [i \in Instance |-> NoGrid]
  /\ orphans = [i \in Instance |-> FALSE]
  /\ boot = 1
  /\ phase = "serving"
  /\ fixed = [i \in Instance |-> "NONE"]
  /\ mishap = [i \in Instance |-> "none"]
  /\ task = [t \in Task |-> Idle]

-----------------------------------------------------------------------------
Busy(i)         == {t \in Task : task[t].inst = i}
At(t, pc)       == task[t].pc = pc
Of(t)           == task[t].inst
Goto(t, pc)     == task' = [task EXCEPT ![t].pc = pc]
(* The end of a request: its transaction is over and its row lock free. *)
Rollback(t)     == task' = [task EXCEPT ![t] = Idle]
Flushed(t)      == task[t].write # Kept
RowLocked(t)    == \E u \in Task \ {t} : task[u].inst = task[t].inst /\ Flushed(u)
InUse           == {registry[i] : i \in Instance} \cup {task[t].proc : t \in Task}
HeldByOthers(t) == {task[u].proc : u \in Task \ {t}}
NewProc         == CHOOSE p \in Proc \ InUse : \A q \in Proc \ InUse : p <= q
(* An object nothing names any more is gone. *)
Collected(objects, names) == [p \in Proc |-> IF p \in names THEN objects[p] ELSE Blank]

NewRequest(t, op, i, pc) ==
  /\ phase = "serving" /\ At(t, "idle")
  /\ Busy(i) = {} \/ boot <= MaxMixed
  /\ task' = [task EXCEPT ![t] = [Idle EXCEPT !.op = op, !.inst = i, !.pc = pc]]
  /\ mishap' = [mishap EXCEPT ![i] = IF Busy(i) = {} THEN @ ELSE "mixed"]

(* A request for a status the row does not allow is refused before it      *)
(* changes anything.                                                       *)
Validated(t, op, i, target, pc) ==
  /\ CanMove(row[i].status, target)
  /\ NewRequest(t, op, i, pc)
  /\ UNCHANGED <<row, lock, memory, orphans, boot, phase, fixed>>

-----------------------------------------------------------------------------
(* create_process: the check looks only for committed, undeleted rows that *)
(* are active; CREATED and READY twins pass.  The id is new: nothing in    *)
(* memory or on the exchange has it.  With auto_start the same transaction *)
(* goes on with prepare and start.                                         *)
ActiveTwin ==
  \E j \in Instance : /\ row[j].status \in {"RUNNING", "PAUSED", "RECOVERING", "STOPPING"}
                      /\ ~row[j].deleted

NewId(i) == /\ row[i] = Unborn /\ Busy(i) = {}
            /\ registry[i] = NoProc /\ grid[i] = NoGrid /\ ~orphans[i]

CreateProcess(t, i, auto) ==
  /\ NewId(i)
  /\ ~ActiveTwin
  /\ phase = "serving" /\ At(t, "idle")
  /\ task' = [task EXCEPT ![t] =
       [op |-> "create", inst |-> i, pc |-> IF auto THEN "verify" ELSE "commit",
        proc |-> NoProc, write |-> [status |-> "CREATED", deleted |-> FALSE]]]
  /\ UNCHANGED <<row, lock, memory, orphans, boot, phase, fixed, mishap>>

(* The endpoint: create, with auto_start also prepare and start. *)
CreateTradingInstance(t, i) == \E auto \in BOOLEAN : CreateProcess(t, i, auto)

Prepare(t, i) == Validated(t, "prepare", i, "READY", "verify")

(* The account, the exchange's answer to the credentials, and the symbol. *)
Verified(t) ==
  /\ At(t, "verify") /\ ~RowLocked(t)
  /\ task' = [task EXCEPT ![t].write.status = "READY",
                          ![t].pc = IF task[t].op = "create" THEN "duplicates" ELSE "commit"]
  /\ UNCHANGED <<row, lock, memory, orphans, boot, phase, fixed, mishap>>

VerifyFails(t) ==
  /\ At(t, "verify")
  /\ Rollback(t)
  /\ UNCHANGED <<row, lock, memory, orphans, boot, phase, fixed, mishap>>

-----------------------------------------------------------------------------
(* start                                                                   *)
Start(t, i) == subs[i] < MaxSubs /\ Validated(t, "start", i, "RUNNING", "duplicates")

RunningTwin(i) == \E j \in Instance \ {i} : row[j].status = "RUNNING"

CheckDuplicateRunning(t) ==
  /\ At(t, "duplicates")
  /\ IF RunningTwin(Of(t)) THEN Rollback(t) ELSE Goto(t, "lock")
  /\ UNCHANGED <<row, lock, memory, orphans, boot, phase, fixed, mishap>>

(* SET NX EX 60.  A refusal ends the request. *)
AcquireLock(t) ==
  /\ At(t, "lock")
  /\ IF lock[Of(t)] = 0
       THEN /\ lock' = [lock EXCEPT ![Of(t)] = boot]
            /\ Goto(t, IF task[t].op = "resume" THEN "get" ELSE "build")
       ELSE Rollback(t) /\ UNCHANGED lock
  /\ UNCHANGED <<row, memory, orphans, boot, phase, fixed, mishap>>

(* Redis answers with an error: the lock counts as taken and is not. *)
LockUnavailable(t) ==
  /\ At(t, "lock")
  /\ Goto(t, IF task[t].op = "resume" THEN "get" ELSE "build")
  /\ UNCHANGED <<row, lock, memory, orphans, boot, phase, fixed, mishap>>

(* _build_process_from_instance and _register: a new object, put over      *)
(* whatever the registry has.                                              *)
BuildAs(t, status, pc) ==
  /\ registry' = [registry EXCEPT ![Of(t)] = NewProc]
  /\ procs' = Collected([procs EXCEPT ![NewProc] = [status |-> status, sub |-> FALSE]],
                        {NewProc} \cup (InUse \ ({registry[Of(t)]} \ HeldByOthers(t))))
  /\ task' = [task EXCEPT ![t].proc = NewProc, ![t].pc = pc]

Build(t) ==
  /\ At(t, "build")
  /\ BuildAs(t, "RUNNING", "wire")
  /\ UNCHANGED <<row, lock, subs, grid, orphans, boot, phase, fixed, mishap>>

(* The account is gone or the exchange refuses it: the lock stays taken. *)
BuildFails(t) ==
  /\ At(t, "build") \/ At(t, "rebuild")
  /\ Rollback(t)
  /\ UNCHANGED <<row, lock, memory, orphans, boot, phase, fixed, mishap>>

(* _wire_grid_and_market: initialize_grid puts a new grid over the old one *)
(* and activate_grid places its orders; an exception (placed: some orders  *)
(* were) is only logged.                                                   *)
WireGrid(t) ==
  /\ At(t, "wire")
  /\ grid' = [grid EXCEPT ![Of(t)] = [state |-> "active", orders |-> TRUE]]
  /\ orphans' = [orphans EXCEPT ![Of(t)] = @ \/ grid[Of(t)].orders]
  /\ Goto(t, "subscribe")
  /\ UNCHANGED <<row, lock, registry, procs, subs, boot, phase, fixed, mishap>>

WireBreaks(t, placed) ==
  /\ At(t, "wire")
  /\ grid' = [grid EXCEPT ![Of(t)] = [state |-> "active", orders |-> placed]]
  /\ orphans' = [orphans EXCEPT ![Of(t)] = @ \/ grid[Of(t)].orders]
  /\ Goto(t, "persist")
  /\ UNCHANGED <<row, lock, registry, procs, subs, boot, phase, fixed, mishap>>

(* No grid profile, or the hub has no price.  A query that fails here is   *)
(* not caught (DatabaseFails).                                             *)
WireSkipped(t) ==
  /\ At(t, "wire") \/ At(t, "subscribe")
  /\ Goto(t, "persist")
  /\ UNCHANGED <<row, lock, memory, orphans, boot, phase, fixed, mishap>>

Subscribe(t) ==
  /\ At(t, "subscribe")
  /\ subs' = [subs EXCEPT ![Of(t)] = @ + 1]
  /\ procs' = [procs EXCEPT ![task[t].proc].sub = TRUE]
  /\ Goto(t, "persist")
  /\ UNCHANGED <<row, lock, registry, grid, orphans, boot, phase, fixed, mishap>>

-----------------------------------------------------------------------------
(* pause, resume and stop                                                  *)
Pause(t, i)  == Validated(t, "pause", i, "PAUSED", "get")
Resume(t, i) == Validated(t, "resume", i, "RUNNING", "release")
Stop(t, i)   == Validated(t, "stop", i, "STOPPING", "mark")

(* stop flushes STOPPING before anything else. *)
MarkStopping(t) ==
  /\ At(t, "mark") /\ ~RowLocked(t)
  /\ task' = [task EXCEPT ![t].write.status = "STOPPING", ![t].pc = "get"]
  /\ UNCHANGED <<row, lock, memory, orphans, boot, phase, fixed, mishap>>

(* The next step of each operation once it has its process, and once the   *)
(* grid is quiet or the lock is released.                                  *)
After(op, done) ==
  CASE done = "get"     -> IF op = "resume" THEN "persist" ELSE "unwire"
    [] done = "quiet"   -> IF op = "stop" THEN "release" ELSE "persist"
    [] done = "release" -> CASE op = "pause"  -> "commit"
                             [] op = "resume" -> "lock"
                             [] op = "stop"   -> "unregister"

Target(op) ==
  CASE op \in {"create", "start", "resume"} -> "RUNNING"
    [] op = "pause"                         -> "PAUSED"
    [] op = "stop"                          -> "STOPPING"

(* _get_process finds the registered object.  resume and stop set its      *)
(* status at once, pause when the grid is quiet.                           *)
GetProcess(t) ==
  LET p == registry[Of(t)] IN
  /\ At(t, "get") /\ p # NoProc
  /\ procs' = [procs EXCEPT ![p].status = IF task[t].op = "pause" THEN @
                                          ELSE Target(task[t].op)]
  /\ task' = [task EXCEPT ![t].proc = p, ![t].pc = After(task[t].op, "get")]
  /\ UNCHANGED <<row, lock, registry, subs, grid, orphans, boot, phase, fixed, mishap>>

(* There is none: stop goes on without, pause and resume build one. *)
NoProcess(t) ==
  /\ At(t, "get") /\ registry[Of(t)] = NoProc
  /\ Goto(t, IF task[t].op = "stop" THEN "release" ELSE "rebuild")
  /\ UNCHANGED <<row, lock, memory, orphans, boot, phase, fixed, mishap>>

Rebuild(t) ==
  /\ At(t, "rebuild")
  /\ BuildAs(t, "RUNNING", After(task[t].op, "get"))
  /\ UNCHANGED <<row, lock, subs, grid, orphans, boot, phase, fixed, mishap>>

(* Mutant: unwiring forgets the subscription id and does not unsubscribe. *)
UnsubscribeForgets(t) ==
  /\ At(t, "unwire")
  /\ procs' = [procs EXCEPT ![task[t].proc].sub = FALSE]
  /\ Goto(t, "quiet")
  /\ UNCHANGED <<row, lock, registry, subs, grid, orphans, boot, phase, fixed, mishap>>

(* _unwire_grid_and_market *)
Unsubscribe(t) ==
  /\ At(t, "unwire")
  /\ subs' = [subs EXCEPT ![Of(t)] = IF procs[task[t].proc].sub THEN @ - 1 ELSE @]
  /\ procs' = [procs EXCEPT ![task[t].proc].sub = FALSE]
  /\ Goto(t, "quiet")
  /\ UNCHANGED <<row, lock, registry, grid, orphans, boot, phase, fixed, mishap>>

(* Mutant: pausing the grid leaves its orders on the exchange. *)
PauseGridOnly(t) ==
  /\ At(t, "quiet")
  /\ grid' = [grid EXCEPT ![Of(t)].state = IF @ = "none" THEN "none" ELSE "paused"]
  /\ procs' = [procs EXCEPT ![task[t].proc].status =
                 IF task[t].op = "pause" THEN "PAUSED" ELSE @]
  /\ Goto(t, After(task[t].op, "quiet"))
  /\ UNCHANGED <<row, lock, registry, subs, orphans, boot, phase, fixed, mishap>>

(* pause_grid cancels the orders the grid knows; with no grid it raises    *)
(* and that is logged.                                                     *)
PauseGrid(t) ==
  /\ At(t, "quiet")
  /\ grid' = [grid EXCEPT ![Of(t)] =
                IF @.state = "none" THEN @ ELSE [state |-> "paused", orders |-> FALSE]]
  /\ procs' = [procs EXCEPT ![task[t].proc].status =
                 IF task[t].op = "pause" THEN "PAUSED" ELSE @]
  /\ Goto(t, After(task[t].op, "quiet"))
  /\ UNCHANGED <<row, lock, registry, subs, orphans, boot, phase, fixed, mishap>>

(* pause_grid raises at a cancel, which is logged too, a price update      *)
(* under way places an order after it, or a cancel was answered for an     *)
(* order that still works (OrderExecution), which no level names then.     *)
PauseGridFails(t, state, lost) ==
  /\ At(t, "quiet") /\ grid[Of(t)].state # "none"
  /\ grid' = [grid EXCEPT ![Of(t)] = [state |-> state, orders |-> ~lost]]
  /\ orphans' = [orphans EXCEPT ![Of(t)] = @ \/ lost]
  /\ procs' = [procs EXCEPT ![task[t].proc].status =
                 IF task[t].op = "pause" THEN "PAUSED" ELSE @]
  /\ mishap' = [mishap EXCEPT ![Of(t)] = IF @ = "none" THEN "restless" ELSE @]
  /\ Goto(t, After(task[t].op, "quiet"))
  /\ UNCHANGED <<row, lock, registry, subs, boot, phase, fixed>>

(* release_lock deletes the key, whoever holds it. *)
ReleaseLock(t) ==
  /\ At(t, "release")
  /\ lock' = [lock EXCEPT ![Of(t)] = 0]
  /\ Goto(t, After(task[t].op, "release"))
  /\ UNCHANGED <<row, memory, orphans, boot, phase, fixed, mishap>>

(* Redis answers with an error, which is ignored. *)
ReleaseFails(t) ==
  /\ At(t, "release")
  /\ Goto(t, After(task[t].op, "release"))
  /\ UNCHANGED <<row, lock, memory, orphans, boot, phase, fixed, mishap>>

(* Mutant: stop leaves the process in the registry. *)
UnregisterSkipped(t) ==
  /\ At(t, "unregister")
  /\ task' = [task EXCEPT ![t].write.status = "STOPPED", ![t].pc = "commit"]
  /\ UNCHANGED <<row, lock, memory, orphans, boot, phase, fixed, mishap>>

(* stop unregisters and flushes STOPPED; it already has the row's lock. *)
Unregister(t) ==
  /\ At(t, "unregister")
  /\ registry' = [registry EXCEPT ![Of(t)] = NoProc]
  /\ task' = [task EXCEPT ![t].write.status = "STOPPED", ![t].pc = "commit"]
  /\ UNCHANGED <<row, lock, procs, subs, grid, orphans, boot, phase, fixed, mishap>>

(* _persist_instance of start, pause and resume. *)
Persist(t) ==
  /\ At(t, "persist") /\ ~RowLocked(t)
  /\ task' = [task EXCEPT ![t].write.status = Target(task[t].op),
                          ![t].pc = IF task[t].op = "pause" THEN "release" ELSE "commit"]
  /\ UNCHANGED <<row, lock, memory, orphans, boot, phase, fixed, mishap>>

-----------------------------------------------------------------------------
Delete(t, i) ==
  /\ row[i].status \notin {"NONE", "RUNNING", "PAUSED"} /\ ~row[i].deleted
  /\ NewRequest(t, "delete", i, "remove")
  /\ UNCHANGED <<row, lock, memory, orphans, boot, phase, fixed>>

Remove(t) ==
  /\ At(t, "remove") /\ ~RowLocked(t)
  /\ task' = [task EXCEPT ![t].write.deleted = TRUE, ![t].pc = "commit"]
  /\ UNCHANGED <<row, lock, memory, orphans, boot, phase, fixed, mishap>>

(* get_db commits when the request is over. *)
Commit(t) ==
  /\ At(t, "commit")
  /\ row' = [row EXCEPT ![Of(t)] =
       [status  |-> IF task[t].write.status = "NONE" THEN @.status ELSE task[t].write.status,
        deleted |-> @.deleted \/ task[t].write.deleted]]
  /\ Rollback(t)
  /\ procs' = Collected(procs, HeldByOthers(t) \cup {registry[i] : i \in Instance})
  /\ UNCHANGED <<lock, registry, subs, grid, orphans, boot, phase, fixed, mishap>>

(* A query, a flush or the commit raises: get_db rolls back and memory     *)
(* stays as the request has made it.  stop flushes after unregistering.    *)
DatabaseFails(t) ==
  /\ task[t].pc \in {"duplicates", "wire", "mark", "unregister", "persist", "remove", "commit"}
  /\ registry' = IF At(t, "unregister") THEN [registry EXCEPT ![Of(t)] = NoProc] ELSE registry
  /\ Rollback(t)
  /\ procs' = Collected(procs, HeldByOthers(t) \cup {registry'[i] : i \in Instance})
  /\ mishap' = [mishap EXCEPT ![Of(t)] =
                  IF task[t].proc = NoProc \/ @ = "mixed" THEN @ ELSE "undone"]
  /\ UNCHANGED <<row, lock, subs, grid, orphans, boot, phase, fixed>>

-----------------------------------------------------------------------------
(* The lock's 60 seconds pass; nothing ever refreshes it. *)
LockExpires(i) ==
  /\ lock[i] # 0
  /\ lock' = [lock EXCEPT ![i] = 0]
  /\ UNCHANGED <<row, memory, orphans, boot, phase, fixed, mishap, task>>

(* The server stops at any point and starts again: memory and open         *)
(* transactions are gone, Redis, the rows and the exchange's orders stay.  *)
Restart ==
  /\ boot < MaxBoots
  /\ boot' = boot + 1
  /\ phase' = "recovering"
  /\ registry' = [i \in Instance |-> NoProc]
  /\ procs' = [p \in Proc |-> Blank]
  /\ subs' = [i \in Instance |-> 0]
  /\ grid' = [i \in Instance |-> NoGrid]
  /\ orphans' = [i \in Instance |-> orphans[i] \/ grid[i].orders]
  /\ fixed' = [i \in Instance |-> "NONE"]
  /\ mishap' = [i \in Instance |-> "none"]
  /\ task' = [t \in Task |-> Idle]
  /\ UNCHANGED <<row, lock>>

ToRecover == {i \in Instance : /\ row[i].status \in {"RUNNING", "PAUSED", "RECOVERING"}
                               /\ fixed[i] = "NONE"}

(* Mutant: the registered object stays RECOVERING. *)
RecoverStaysRecovering(i) ==
  /\ phase = "recovering" /\ i \in ToRecover /\ row[i].status # "RECOVERING"
  /\ \/ lock[i] = 0 /\ lock' = [lock EXCEPT ![i] = boot]
     \/ UNCHANGED lock
  /\ registry' = [registry EXCEPT ![i] = NewProc]
  /\ procs' = [procs EXCEPT ![NewProc] = [status |-> "RECOVERING", sub |-> FALSE]]
  /\ fixed' = [fixed EXCEPT ![i] = row[i].status]
  /\ UNCHANGED <<row, subs, grid, orphans, boot, phase, mishap, task>>

(* _recover_instance, passing through RECOVERING to the status the row     *)
(* had: the lock is free, or it expires between the refused SET and the    *)
(* GET, after which recovery goes on without one, or Redis does not answer *)
(* and acquire_lock allows it.  Nothing is wired.                          *)
RecoverInstance(i) ==
  /\ phase = "recovering" /\ i \in ToRecover /\ row[i].status # "RECOVERING"
  /\ \/ lock[i] = 0 /\ lock' = [lock EXCEPT ![i] = boot]
     \/ lock[i] # 0 /\ lock' = [lock EXCEPT ![i] = 0]
     \/ UNCHANGED lock
  /\ registry' = [registry EXCEPT ![i] = NewProc]
  /\ procs' = [procs EXCEPT ![NewProc] = [status |-> row[i].status, sub |-> FALSE]]
  /\ fixed' = [fixed EXCEPT ![i] = row[i].status]
  /\ UNCHANGED <<row, subs, grid, orphans, boot, phase, mishap, task>>

(* The lock is another boot's, or the account, the exchange's health or    *)
(* the symbol does not pass, the lock being taken already.                 *)
RecoverFails(i) ==
  /\ phase = "recovering" /\ i \in ToRecover
  /\ lock' = [lock EXCEPT ![i] = IF @ = 0 THEN boot ELSE @]
  /\ fixed' = [fixed EXCEPT ![i] = "ERROR"]
  /\ UNCHANGED <<row, memory, orphans, boot, phase, mishap, task>>

(* _recover_trading_processes commits; then the API is served. *)
RecoveryEnds ==
  /\ phase = "recovering" /\ ToRecover = {}
  /\ row' = [i \in Instance |-> IF fixed[i] = "NONE" THEN row[i]
                                ELSE [row[i] EXCEPT !.status = fixed[i]]]
  /\ phase' = "serving"
  /\ UNCHANGED <<lock, memory, orphans, boot, fixed, mishap, task>>

(* A flush or the commit raises: main.lifespan logs it and serves, the rows *)
(* as they were, the objects registered so far in the registry.            *)
RecoveryBreaks ==
  /\ phase = "recovering"
  /\ mishap' = [i \in Instance |->
       IF row[i].status \in {"RUNNING", "PAUSED", "RECOVERING"} /\ registry[i] = NoProc
         THEN "undone" ELSE mishap[i]]
  /\ phase' = "serving"
  /\ UNCHANGED <<row, lock, memory, orphans, boot, fixed, task>>

-----------------------------------------------------------------------------
Proceed(t) ==
  \/ Verified(t) \/ CheckDuplicateRunning(t) \/ AcquireLock(t) \/ Build(t)
  \/ WireGrid(t) \/ Subscribe(t) \/ MarkStopping(t) \/ GetProcess(t) \/ NoProcess(t)
  \/ Rebuild(t) \/ Unsubscribe(t) \/ PauseGrid(t) \/ ReleaseLock(t) \/ Unregister(t)
  \/ Persist(t) \/ Remove(t) \/ Commit(t)

Fault(t) ==
  \/ VerifyFails(t) \/ LockUnavailable(t) \/ BuildFails(t) \/ WireSkipped(t)
  \/ \E placed \in BOOLEAN : WireBreaks(t, placed)
  \/ \E state \in {"active", "paused"}, lost \in BOOLEAN : PauseGridFails(t, state, lost)
  \/ ReleaseFails(t) \/ DatabaseFails(t)

Call(t, i) ==
  \/ CreateTradingInstance(t, i)
  \/ Prepare(t, i) \/ Start(t, i) \/ Pause(t, i) \/ Resume(t, i) \/ Stop(t, i)
  \/ Delete(t, i)

Recover(i) == RecoverInstance(i) \/ RecoverFails(i)

Next ==
  \/ \E t \in Task : Proceed(t) \/ Fault(t) \/ \E i \in Instance : Call(t, i)
  \/ \E i \in Instance : LockExpires(i) \/ Recover(i)
  \/ Restart \/ RecoveryEnds \/ RecoveryBreaks

Spec == Init /\ [][Next]_vars

-----------------------------------------------------------------------------
TaskRecord ==
  [op    : {"none", "create", "prepare", "start", "pause", "resume", "stop", "delete"},
   inst  : Instance \cup {NoInstance},
   pc    : {"idle", "verify", "duplicates", "lock", "build", "wire", "subscribe", "mark",
            "get", "rebuild", "unwire", "quiet", "release", "unregister", "persist",
            "remove", "commit"},
   proc  : Proc \cup {NoProc},
   write : [status : Status, deleted : BOOLEAN]]

(* The tables and requests keep their types: a lock never names a boot     *)
(* that has not happened, there is always an object left to build and no   *)
(* subscription is given back twice.                                       *)
TypeOK ==
  /\ row \in [Instance -> [status : Status, deleted : BOOLEAN]]
  /\ lock \in [Instance -> 0 .. boot]
  /\ registry \in [Instance -> Proc \cup {NoProc}]
  /\ procs \in [Proc -> [status : Status, sub : BOOLEAN]]
  /\ subs \in [Instance -> Nat]
  /\ grid \in [Instance -> [state : {"none", "active", "paused"}, orders : BOOLEAN]]
  /\ orphans \in [Instance -> BOOLEAN]
  /\ boot \in 1 .. MaxBoots /\ phase \in {"recovering", "serving"}
  /\ fixed \in [Instance -> Status] /\ mishap \in [Instance -> Mishap]
  /\ task \in [Task -> TaskRecord]

(* Nothing is under way on the instance, and in this boot no two requests  *)
(* overlapped on it and no failed transaction left memory changed.         *)
Settled(i) ==
  phase = "serving" /\ Busy(i) = {} /\ mishap[i] \notin {"undone", "mixed"}

(* Every pause left the grid quiet. *)
PausesHold(i) == mishap[i] # "restless"

(* Between requests the registry and the database agree: an instance has a *)
(* process exactly while its row is RUNNING or PAUSED, with that status,   *)
(* through failed builds, wirings and pauses, transactions that fail       *)
(* before they touch the process, expired locks, restarts and broken       *)
(* recoveries (start, pause, resume, stop and recover).  A transaction     *)
(* that fails later (process_manager.py:440, database/base.py:149) is      *)
(* excepted: nothing takes the registry back.                              *)
RegistryMatchesRow ==
  \A i \in Instance : Settled(i) =>
    IF row[i].status \in {"RUNNING", "PAUSED"}
      THEN registry[i] # NoProc /\ procs[registry[i]].status = row[i].status
      ELSE registry[i] = NoProc

(* Between requests only a RUNNING instance listens to the market, once,   *)
(* through the object that can unsubscribe it, and, unless a pause failed  *)
(* (process_manager.py:608), only its grid trades.                         *)
QuietUnlessRunning ==
  \A i \in Instance : Settled(i) =>
    /\ subs[i] = IF registry[i] # NoProc /\ procs[registry[i]].sub THEN 1 ELSE 0
    /\ subs[i] > 0 => row[i].status = "RUNNING"
    /\ PausesHold(i) /\ grid[i].state = "active" => row[i].status = "RUNNING"

(* Until a restart an instance that does not run has no order left on the  *)
(* exchange (_unwire_grid_and_market), not even from a wiring that failed  *)
(* half way, unless a pause failed.  After a restart recovery rebuilds no  *)
(* grid, and stop and pause leave the orders of the boot before.           *)
StopCancelsBeforeRestart ==
  \A i \in Instance :
    Settled(i) /\ PausesHold(i) /\ boot = 1 /\ row[i].status # "RUNNING" =>
      ~grid[i].orders /\ ~orphans[i]

(* Committed statuses are only left along ProcessStateMachine.TRANSITIONS, *)
(* possibly several transitions in one request, unless two requests        *)
(* overlapped; ERROR and deletion are final even then.                     *)
Reach(from) ==
  LET step(S) == S \cup UNION {TRANSITIONS[s] : s \in S} IN step(step(step({from})))

RowsFollowTable ==
  [][\A i \in Instance :
       /\ row[i].status = "ERROR" => row'[i].status = "ERROR"
       /\ row[i].deleted => row'[i].deleted
       /\ row[i].status # "NONE" /\ mishap[i] # "mixed"
            => row'[i].status \in Reach(row[i].status)]_vars

(* "Duplicate running process prevention": of the instances of one symbol, *)
(* strategy and exchange account at most one is RUNNING.                   *)
NoRunningTwins == Cardinality({i \in Instance : row[i].status = "RUNNING"}) <= 1
=============================================================================
