-------------------------- MODULE MCGymMarketplace --------------------------
(* A small marketplace: amounts are chosen so that fees round (5% of 30    *)
(* wei is 1.5) and an overpayment (30 for a gym priced 10) is possible.    *)
EXTENDS GymMarketplace

CONSTANTS alice, bob

MCEndowment == [u \in Users |-> IF u = alice THEN 30 ELSE 10]
=============================================================================
