-------------------------- MODULE MCOrderExecution --------------------------
(* Instances of OrderExecution for TLC. *)
EXTENDS OrderExecution, TLC

(* Requests are interchangeable, and so are coroutines. *)
Symmetry == Permutations(Request) \cup Permutations(Task)
=============================================================================
