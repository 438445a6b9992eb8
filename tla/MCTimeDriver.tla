---------------------------- MODULE MCTimeDriver ---------------------------
(* Ratios for the model checker: two counts to a tick on CH582, and three   *)
(* to two on CH585, so that ticks begin between counts as they do there.   *)
EXTENDS TimeDriver, TLC

MCNum == [c \in Chips |-> IF c = "ch585" THEN 3 ELSE 2]
MCDen == [c \in Chips |-> IF c = "ch585" THEN 2 ELSE 1]
MCSymmetry == Permutations(Tasks)
=============================================================================
