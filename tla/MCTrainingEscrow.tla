-------------------------- MODULE MCTrainingEscrow --------------------------
(* Two jobs deposited by one of two users for a gym the other may list.    *)
(* A deposit of 15 wei makes all three shares round (12, 1 and 2), one of  *)
(* 4 leaves no royalty at all.                                             *)
EXTENDS TrainingEscrow

CONSTANTS alice, bob

MCEndowment == [u \in Users |-> IF u = alice THEN 19 ELSE 0]
=============================================================================
