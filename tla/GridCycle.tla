------------------------------ MODULE GridCycle ------------------------------
(***************************************************************************)
(* What a grid promises about one level: it bids, holds what the bid       *)
(* bought, offers it, and is flat again when the offer sold.  A bid or an  *)
(* offer may be withdrawn, which takes the level off the market.           *)
(***************************************************************************)
CONSTANT Level
VARIABLE phase

Init == phase = [l \in Level |-> "flat"]

Moves == {<<"flat", "bid">>, <<"bid", "held">>, <<"held", "offered">>,
          <<"offered", "flat">>, <<"bid", "off">>, <<"offered", "off">>}

Next == \E l \in Level, m \in Moves :
          phase[l] = m[1] /\ phase' = [phase EXCEPT ![l] = m[2]]

Spec == Init /\ [][Next]_phase
=============================================================================
