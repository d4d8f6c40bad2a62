-------------------------- MODULE BackgroundTasks --------------------------
(***************************************************************************)
(* src/backend/engine/scheduler: RetryWorker run by a JobScheduler task,   *)
(* its DeadLetterQueue, and HeartbeatMonitor.  One event loop: a step runs *)
(* up to the next await.                                                   *)
(***************************************************************************)
EXTENDS Naturals, Sequences, SequencesExt, FiniteSets

CONSTANTS
  Job,          \* jobs that may be submitted
  Pass,         \* runs of process_queue that may overlap
  MaxRetries,   \* RetryWorker(max_retries)
  Part          \* components with a health check

VARIABLES
  retry_queue,  \* RetryWorker._queue
  retry_count,  \* retry_count of a job
  outcome,      \* history: "new", "waiting", then how the job ended
  hand,         \* jobs a run of process_queue copied and has not handled
  sched,        \* the JobScheduler task whose coroutine is process_queue
  entries,      \* jobs with an entry in the DeadLetterQueue
  checks,       \* HeartbeatMonitor._checks
  results,      \* HeartbeatMonitor._results
  checking,     \* components whose check function is awaited
  ghost         \* history: unregistered while a check of it was awaited

retryVars == <<retry_queue, retry_count, outcome, hand, entries>>
heartVars == <<checks, results, checking, ghost>>
bgVars    == <<retryVars, sched, heartVars>>

Outcome == {"new", "waiting", "success", "failed", "unrecorded", "interrupted"}

Init ==
  /\ retry_queue = <<>> /\ hand = [p \in Pass |-> <<>>]
  /\ retry_count = [j \in Job |-> 0]
  /\ outcome = [j \in Job |-> "new"]
  /\ sched = "absent"
  /\ entries = {}
  /\ checks = {} /\ results = [c \in Part |-> "none"]
  /\ checking = {} /\ ghost = {}

-----------------------------------------------------------------------------
(* JobScheduler: disabling or removing a task lets its runs finish. *)
AddTask     == sched = "absent" /\ sched' = "enabled"
RemoveTask  == sched # "absent" /\ sched' = "absent"
EnableTask  == sched = "disabled" /\ sched' = "enabled"
DisableTask == sched = "enabled" /\ sched' = "disabled"

Submit(j) ==
  /\ outcome[j] = "new"
  /\ retry_queue' = Append(retry_queue, j)
  /\ outcome' = [outcome EXCEPT ![j] = "waiting"]
  /\ UNCHANGED <<retry_count, hand, sched, entries, heartVars>>

(* Mutant: the copy leaves the queue as it is. *)
CopyOnly(p) == hand' = [hand EXCEPT ![p] = retry_queue] /\ UNCHANGED retry_queue
CopyAndClear(p) == hand' = [hand EXCEPT ![p] = retry_queue] /\ retry_queue' = <<>>

(* run_task looks at enabled only; another run may be under way. *)
RunTask(p) ==
  /\ sched = "enabled" /\ hand[p] = <<>> /\ retry_queue # <<>>
  /\ CopyAndClear(p)
  /\ UNCHANGED <<retry_count, outcome, sched, entries, heartVars>>

Handled(p) == hand' = [hand EXCEPT ![p] = Tail(@)]

JobSucceeds(p) ==
  /\ hand[p] # <<>>
  /\ outcome' = [outcome EXCEPT ![Head(hand[p])] = "success"]
  /\ Handled(p)
  /\ UNCHANGED <<retry_queue, retry_count, sched, entries, heartVars>>

JobRetried(p) ==
  LET j == Head(hand[p]) IN
  /\ hand[p] # <<>> /\ retry_count[j] + 1 < MaxRetries
  /\ retry_count' = [retry_count EXCEPT ![j] = @ + 1]
  /\ retry_queue' = Append(retry_queue, j)
  /\ Handled(p)
  /\ UNCHANGED <<outcome, sched, entries, heartVars>>

(* The last failure: the callback adds the job to the dead letters, unless *)
(* there is none or it raises.                                             *)
JobFails(p) ==
  LET j == Head(hand[p]) IN
  /\ hand[p] # <<>> /\ retry_count[j] + 1 >= MaxRetries
  /\ retry_count' = [retry_count EXCEPT ![j] = @ + 1]
  /\ \/ /\ entries' = entries \cup {j}
        /\ outcome' = [outcome EXCEPT ![j] = "failed"]
     \/ /\ outcome' = [outcome EXCEPT ![j] = "unrecorded"]
        /\ UNCHANGED entries
  /\ Handled(p)
  /\ UNCHANGED <<retry_queue, sched, heartVars>>

(* The run's task is cancelled at an await: CancelledError is no           *)
(* Exception, so what is still in hand is gone.                            *)
Interrupt(p) ==
  /\ hand[p] # <<>>
  /\ outcome' = [j \in Job |-> IF j \in ToSet(hand[p]) THEN "interrupted" ELSE outcome[j]]
  /\ hand' = [hand EXCEPT ![p] = <<>>]
  /\ UNCHANGED <<retry_queue, retry_count, sched, entries, heartVars>>

(* DeadLetterQueue.replay removes an entry only when its handler succeeds. *)
Replay(j) ==
  /\ j \in entries
  /\ entries' = entries \ {j}
  /\ outcome' = [outcome EXCEPT ![j] = "success"]
  /\ UNCHANGED <<retry_queue, retry_count, hand, sched, heartVars>>

Clear ==
  /\ entries # {}
  /\ outcome' = [j \in Job |-> IF j \in entries THEN "unrecorded" ELSE outcome[j]]
  /\ entries' = {}
  /\ UNCHANGED <<retry_queue, retry_count, hand, sched, heartVars>>

-----------------------------------------------------------------------------
Register(c) ==
  /\ c \notin checks
  /\ checks' = checks \cup {c}
  /\ ghost' = ghost \ {c}
  /\ UNCHANGED <<results, checking, retryVars, sched>>

ResultPopped(c) == [results EXCEPT ![c] = "none"]

Unregister(c) ==
  /\ c \in checks
  /\ checks' = checks \ {c}
  /\ results' = ResultPopped(c)
  /\ ghost' = IF c \in checking THEN ghost \cup {c} ELSE ghost
  /\ UNCHANGED <<checking, retryVars, sched>>

CheckBegins(c) ==
  /\ c \in checks \ checking
  /\ checking' = checking \cup {c}
  /\ UNCHANGED <<checks, results, ghost, retryVars, sched>>

(* check stores its result without looking whether the component is still  *)
(* registered.                                                             *)
CheckEnds(c) ==
  /\ c \in checking
  /\ checking' = checking \ {c}
  /\ \E r \in {"healthy", "unhealthy"} : results' = [results EXCEPT ![c] = r]
  /\ UNCHANGED <<checks, ghost, retryVars, sched>>

Schedule ==
  /\ AddTask \/ RemoveTask \/ EnableTask \/ DisableTask
  /\ UNCHANGED <<retryVars, heartVars>>
RetryStep ==
  \/ \E j \in Job : Submit(j) \/ Replay(j)
  \/ \E p \in Pass : RunTask(p) \/ JobSucceeds(p) \/ JobRetried(p) \/ JobFails(p)
                     \/ Interrupt(p)
  \/ Clear
HeartStep == \E c \in Part : Register(c) \/ Unregister(c) \/ CheckBegins(c) \/ CheckEnds(c)

RetryPart == Schedule \/ RetryStep

Next == RetryPart \/ HeartStep
Spec == Init /\ [][Next]_bgVars

-----------------------------------------------------------------------------
Copies(j) ==
  Cardinality({n \in DOMAIN retry_queue : retry_queue[n] = j})
  + Cardinality({x \in Pass \X (1..Cardinality(Job)) :
                   x[2] \in DOMAIN hand[x[1]] /\ hand[x[1]][x[2]] = j})

(* A submitted job waits in exactly one place, the queue or one run's      *)
(* hand, until it ends; it is tried at most MaxRetries times, and it is    *)
(* given up or a dead letter only after that many failures, however runs   *)
(* of process_queue overlap and whatever the scheduler does to the task.   *)
(* HeartbeatMonitor reports no component that is not registered, except    *)
(* one that was unregistered while its check was awaited.                  *)
TasksAccounted ==
  /\ \A j \in Job :
       /\ Copies(j) = (IF outcome[j] = "waiting" THEN 1 ELSE 0)
       /\ outcome[j] = "waiting" => retry_count[j] < MaxRetries
       /\ outcome[j] \in {"failed", "unrecorded"} => retry_count[j] = MaxRetries
       /\ j \in entries <=> outcome[j] = "failed"
  /\ \A c \in Part : results[c] # "none" => c \in checks \cup ghost
=============================================================================
