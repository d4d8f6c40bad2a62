--------------------------- MODULE OrderLifecycle ---------------------------
(***************************************************************************)
(* What ExecutionEngine promises the callers of place_order about one      *)
(* request_id, whatever tasks place, cancel, sync or sweep concurrently:   *)
(* it is submitted to the exchange once, it settles at most once, and an   *)
(* outcome that was reported is never replaced by another one.             *)
(***************************************************************************)
CONSTANT Request

VARIABLE phase

Settled == {"filled", "cancelled", "rejected", "failed"}
Phase   == {"new", "submitting", "working"} \cup Settled

TypeOK == phase \in [Request -> Phase]

Init == phase = [r \in Request |-> "new"]

Submit(r) ==
  /\ phase[r] = "new"
  /\ phase' = [phase EXCEPT ![r] = "submitting"]

(* The exchange has accepted the order and it is still being worked on. *)
Accept(r) ==
  /\ phase[r] = "submitting"
  /\ phase' = [phase EXCEPT ![r] = "working"]

(* A submission ends at once in any outcome but "cancelled": an order the  *)
(* exchange answers as expired is a failed placement.                      *)
Conclude(r) ==
  /\ phase[r] = "submitting"
  /\ \E outcome \in {"filled", "rejected", "failed"} :
       phase' = [phase EXCEPT ![r] = outcome]

(* An order that was accepted can no longer be rejected or fail. *)
Settle(r) ==
  /\ phase[r] = "working"
  /\ \E outcome \in {"filled", "cancelled"} :
       phase' = [phase EXCEPT ![r] = outcome]

Next == \E r \in Request : Submit(r) \/ Accept(r) \/ Conclude(r) \/ Settle(r)

Spec == Init /\ [][Next]_phase
=============================================================================
