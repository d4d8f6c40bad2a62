---------------------------- MODULE Notification ----------------------------
(***************************************************************************)
(* src/backend/engine/notification: AutomationRules decide, the service    *)
(* renders and enqueues, NotificationQueue.process dispatches to channels  *)
(* with retries.  A step runs up to the next await; two process_queue      *)
(* calls may overlap.                                                      *)
(***************************************************************************)
EXTENDS Naturals, Sequences, SequencesExt, FiniteSets

CONSTANTS
  Channel,     \* channel names
  Worker,      \* calls of process_queue that may overlap
  MaxSends,    \* NotificationQueue(max_retries)
  MaxNotes     \* bound: notifications per channel

VARIABLES
  rule,        \* the automation rule of a channel: absent, enabled, disabled
  registered,  \* NotificationService._channels
  working,     \* those of them that have a function to send with
  sender,      \* whether the queue was given a function to send with
  notes,       \* notifications created for a channel so far
  pending,     \* NotificationQueue._queue
  attempts,    \* retry_count of a notification
  delivered,   \* how often the recipient got it
  verdict,     \* history: how a notification stands
  batch,       \* what a call of process has copied and not handled
  tally,       \* results a call has collected for the service's metrics
  counted      \* queue and service metrics, and whether a call was lost

noteVars == <<rule, registered, working, sender, notes, pending, attempts, delivered,
              verdict, batch, tally, counted>>

Note   == Channel \X (1..MaxNotes)
Zero   == [sent |-> 0, failed |-> 0]

Init ==
  /\ rule = [c \in Channel |-> "absent"]
  /\ registered = {} /\ working = {} /\ sender \in BOOLEAN
  /\ notes = [c \in Channel |-> 0]
  /\ pending = <<>> /\ batch = [w \in Worker |-> <<>>]
  /\ attempts = [n \in Note |-> 0] /\ delivered = [n \in Note |-> 0]
  /\ verdict = [n \in Note |-> "new"]
  /\ tally = [w \in Worker |-> Zero]
  /\ counted = [queue |-> Zero, service |-> Zero, lost |-> FALSE]

-----------------------------------------------------------------------------
(* A channel made without a function to send with answers True and sends   *)
(* nothing.                                                                *)
RegisterChannel(c, real) ==
  /\ c \notin registered
  /\ registered' = registered \cup {c}
  /\ working' = IF real THEN working \cup {c} ELSE working
  /\ UNCHANGED <<rule, sender, notes, pending, attempts, delivered, verdict,
                 batch, tally, counted>>

(* add_rule, enable_rule, disable_rule, remove_rule. *)
SetRule(c, s) ==
  /\ rule[c] # s /\ (rule[c] = "absent" => s = "enabled")
  /\ rule' = [rule EXCEPT ![c] = s]
  /\ UNCHANGED <<registered, working, sender, notes, pending, attempts,
                 delivered, verdict, batch, tally, counted>>

(* The service skips channels it does not know.                            *)
NotifyMulti(channels) == channels \cap registered

(* An event: the enabled rules whose condition holds, a condition that     *)
(* raises counting as false; one notification is enqueued for each channel *)
(* the service knows.                                                      *)
Evaluate(hits) ==
  LET reached == NotifyMulti(hits) IN
  /\ hits # {} /\ \A c \in hits : rule[c] = "enabled" /\ notes[c] < MaxNotes
  /\ notes' = [c \in Channel |-> IF c \in reached THEN notes[c] + 1 ELSE notes[c]]
  /\ pending' = pending \o SetToSeq({<<c, notes[c] + 1>> : c \in reached})
  /\ verdict' = [n \in Note |-> IF n[1] \in reached /\ n[2] = notes[n[1]] + 1
                                THEN "waiting" ELSE verdict[n]]
  /\ UNCHANGED <<rule, registered, working, sender, attempts, delivered, batch,
                 tally, counted>>

Process(w) ==
  /\ batch[w] = <<>> /\ tally[w] = Zero /\ pending # <<>>
  /\ batch' = [batch EXCEPT ![w] = pending]
  /\ pending' = <<>>
  /\ UNCHANGED <<rule, registered, working, sender, notes, attempts, delivered,
                 verdict, tally, counted>>

Settled(w, n, how, field) ==
  /\ batch' = [batch EXCEPT ![w] = Tail(@)]
  /\ verdict' = [verdict EXCEPT ![n] = how]
  /\ tally' = [tally EXCEPT ![w][field] = @ + 1]
  /\ counted' = [counted EXCEPT !.queue[field] = @ + 1]

SendSucceeds(w) ==
  LET n == Head(batch[w]) IN
  /\ sender /\ batch[w] # <<>>
  /\ \/ /\ n[1] \in working
        /\ delivered' = [delivered EXCEPT ![n] = @ + 1]
        /\ Settled(w, n, "success", "sent")
     \/ /\ n[1] \notin working
        /\ Settled(w, n, "stubbed", "sent")
        /\ UNCHANGED delivered
  /\ UNCHANGED <<rule, registered, working, sender, notes, pending, attempts>>

(* Mutant: the retry is not counted. *)
RetryUncounted(n) == attempts
RetryCounted(n)   == [attempts EXCEPT ![n] = @ + 1]

(* The channel raised or answered False; the message may have got through. *)
SendFails(w) ==
  LET n == Head(batch[w]) IN
  /\ sender /\ batch[w] # <<>> /\ n[1] \in working
  /\ \E through \in {0, 1} : delivered' = [delivered EXCEPT ![n] = @ + through]
  /\ attempts' = RetryCounted(n)
  /\ \/ /\ attempts[n] + 1 < MaxSends
        /\ pending' = Append(pending, n)
        /\ batch' = [batch EXCEPT ![w] = Tail(@)]
        /\ UNCHANGED <<verdict, tally, counted>>
     \/ /\ attempts[n] + 1 >= MaxSends
        /\ Settled(w, n, "failed", "failed")
        /\ UNCHANGED pending
  /\ UNCHANGED <<rule, registered, working, sender, notes>>

(* A queue with nothing to send with: a failed result, which the queue's   *)
(* own metrics do not count.                                               *)
NoSender(w) ==
  /\ ~sender /\ batch[w] # <<>>
  /\ batch' = [batch EXCEPT ![w] = Tail(@)]
  /\ verdict' = [verdict EXCEPT ![Head(batch[w])] = "unsent"]
  /\ tally' = [tally EXCEPT ![w].failed = @ + 1]
  /\ UNCHANGED <<rule, registered, working, sender, notes, pending, attempts,
                 delivered, counted>>

Plus(a, b) == [sent |-> a.sent + b.sent, failed |-> a.failed + b.failed]

(* process returns, and the service adds up the results it was given. *)
ProcessReturns(w) ==
  /\ batch[w] = <<>> /\ tally[w] # Zero
  /\ counted' = [counted EXCEPT !.service = Plus(@, tally[w])]
  /\ tally' = [tally EXCEPT ![w] = Zero]
  /\ UNCHANGED <<rule, registered, working, sender, notes, pending, attempts,
                 delivered, verdict, batch>>

(* The call is cancelled while it awaits a channel; a stub awaits nothing. *)
Interrupted(w) ==
  /\ sender /\ batch[w] # <<>> /\ Head(batch[w])[1] \in working
  /\ verdict' = [n \in Note |-> IF n \in ToSet(batch[w]) THEN "lost" ELSE verdict[n]]
  /\ batch' = [batch EXCEPT ![w] = <<>>] /\ tally' = [tally EXCEPT ![w] = Zero]
  /\ counted' = [counted EXCEPT !.lost = TRUE]
  /\ UNCHANGED <<rule, registered, working, sender, notes, pending, attempts,
                 delivered>>

Next ==
  \/ \E c \in Channel : (\E real \in BOOLEAN : RegisterChannel(c, real))
                        \/ \E s \in {"enabled", "disabled", "absent"} : SetRule(c, s)
  \/ \E hits \in SUBSET Channel : Evaluate(hits)
  \/ \E w \in Worker : \/ Process(w) \/ SendSucceeds(w) \/ SendFails(w)
                       \/ NoSender(w) \/ ProcessReturns(w) \/ Interrupted(w)
Spec == Init /\ [][Next]_noteVars

-----------------------------------------------------------------------------
Waiting(n) ==
  Cardinality({k \in DOMAIN pending : pending[k] = n})
  + Cardinality({x \in Worker \X (1..Cardinality(Note)) :
                   x[2] \in DOMAIN batch[x[1]] /\ batch[x[1]][x[2]] = n})

(* A notification waits in one place until it is settled; success over a   *)
(* channel that has something to send with means the recipient got it, and *)
(* nobody gets it more than MaxSends times.  Once no call is under way the *)
(* service and its queue agree on what was sent and what failed, unless a  *)
(* call was cancelled; a queue with nothing to send with counts neither,   *)
(* and sends nothing, while the service counts the failures.               *)
NotifyAccounted ==
  /\ \A n \in Note :
       /\ Waiting(n) = (IF verdict[n] = "waiting" THEN 1 ELSE 0)
       /\ verdict[n] = "success" => delivered[n] >= 1
       /\ delivered[n] <= MaxSends
  /\ (\A w \in Worker : batch[w] = <<>> /\ tally[w] = Zero) /\ ~counted.lost
       => IF sender THEN counted.service = counted.queue
          ELSE counted.queue = Zero /\ counted.service.sent = 0
=============================================================================
