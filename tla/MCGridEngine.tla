---------------------------- MODULE MCGridEngine ----------------------------
(* Two levels a tenth apart, and prices from above the upper level to below *)
(* the lower one: from a day's open of 10 the fall to 9 is exactly the      *)
(* threshold of ten percent.                                                *)
EXTENDS GridEngine, TLC

Symmetry == Permutations(Task)

MCLevel == {0, 1}
MCPrice == {8, 9, 10}
MCModes == ResumeMode \cup {"none"}
MCBuyPrice == 0 :> 9 @@ 1 :> 8
MCSellPrice == 0 :> 10 @@ 1 :> 9

(* One level, for the runs in which everything else may happen at once. *)
MCOne == {0}
MCOneBuyPrice == 0 :> 9
MCOneSellPrice == 0 :> 10
=============================================================================
