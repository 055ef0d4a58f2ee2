---------------------------- MODULE EscrowPromise ----------------------------
(***************************************************************************)
(* What TrainingEscrow promises whoever pays for a training job, without   *)
(* saying who is paid or how: a deposit is locked in a vault, the vault is *)
(* opened for a job once, for exactly its deposit, and the job then is     *)
(* completed or refunded for ever.                                         *)
(***************************************************************************)
EXTENDS Integers

CONSTANT JobIds

VARIABLES
  outcome,  \* outcome[j] \in {"none", "Pending", "Completed", "Refunded"}
  locked,   \* locked[j]: what was deposited for j
  vault     \* what the escrow holds for all jobs together

Init ==
  /\ outcome = [j \in JobIds |-> "none"]
  /\ locked = [j \in JobIds |-> 0]
  /\ vault = 0

(* The amount is whatever the depositor sends, as long as it is not zero.  *)
Lock(j) ==
  /\ outcome[j] = "none"
  /\ outcome' = [outcome EXCEPT ![j] = "Pending"]
  /\ locked'[j] \in Nat \ {0}
  /\ locked' = [locked EXCEPT ![j] = locked'[j]]
  /\ vault' = vault + locked'[j]

Release(j, how) ==
  /\ outcome[j] = "Pending"
  /\ outcome' = [outcome EXCEPT ![j] = how]
  /\ vault' = vault - locked[j]
  /\ UNCHANGED locked

Next ==
  \E j \in JobIds :
    \/ Lock(j)
    \/ \E how \in {"Completed", "Refunded"} : Release(j, how)

Spec == Init /\ [][Next]_<<outcome, locked, vault>>
=============================================================================
