------------------------------- MODULE Chain -------------------------------
(***************************************************************************)
(* The native token of the EVM chain the 440hz contracts are deployed on,  *)
(* as the contracts use it: every account has a balance, msg.value moves   *)
(* with a call, and payable(a).transfer(v) moves v or reverts the whole    *)
(* transaction.  A reverted transaction changes nothing, so it is not a    *)
(* step: each contract operation is one action whose guard is the          *)
(* conjunction of everything that would revert it.                         *)
(***************************************************************************)
EXTENDS Wei

CONSTANTS
  Users,        \* externally owned accounts and contracts that are not 440hz's
  Contracts,    \* the addresses of the 440hz contracts
  NoOne,        \* address(0)
  Rejecting,    \* users whose receive() reverts, or needs more than 2300 gas
  Endowment     \* the wei each user starts with

Accounts == Users \cup Contracts \cup {NoOne}

ASSUME ChainAssumption ==
  /\ IsFiniteSet(Users) /\ IsFiniteSet(Contracts)
  /\ Users \cap Contracts = {}
  /\ NoOne \notin Users \cup Contracts
  /\ Rejecting \subseteq Users
  /\ Endowment \in [Users -> Nat]

VARIABLE balance

ChainInit ==
  balance = [a \in Accounts |-> IF a \in Users THEN Endowment[a] ELSE 0]

(* None of the 440hz contracts declares receive() or a payable fallback,   *)
(* so a plain transfer to one of them reverts.                             *)
Accepts(a) == a \notin Rejecting \cup Contracts

Transfer(b, from, to, v) == [b EXCEPT ![from] = @ - v, ![to] = @ + v]
=============================================================================
