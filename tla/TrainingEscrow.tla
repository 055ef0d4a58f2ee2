--------------------------- MODULE TrainingEscrow ---------------------------
(***************************************************************************)
(* contracts/contracts/TrainingEscrow.sol composed with the GymMarketplace *)
(* it credits royalties to: deposits per training job, paid out 80/10/10   *)
(* by the oracle when the job completes, or returned to the creator.       *)
(***************************************************************************)
EXTENDS GymMarketplace

CONSTANTS
  Escrow,       \* address of this contract
  JobIds,       \* keccak256 of a task id
  Deposits      \* the msg.value a caller of depositJob may attach

ASSUME EscrowAssumption ==
  /\ Escrow \in Contracts \ {Market}
  /\ IsFiniteSet(JobIds)
  /\ Deposits \subseteq Nat

VARIABLES
  jobs,            \* jobs[jobId]
  marketplace,     \* the marketplace royalties are credited to
  oracle,          \* who may complete and refund jobs
  escrowTreasury   \* treasury

escrowConfig == <<marketplace, oracle, escrowTreasury>>
escrowVars == <<marketVars, jobs, escrowConfig>>

(* The zero Job of the mapping stands for a job that does not exist.       *)
Job == [creator : Accounts, provider : Accounts, gym : GymKeys,
        deposit : Nat, status : {"Pending", "Completed", "Refunded"}]
NoJob == [creator |-> NoOne, provider |-> NoOne, gym |-> CHOOSE k \in GymKeys : TRUE,
          deposit |-> 0, status |-> "Pending"]

JobExists(j) == jobs[j].creator # NoOne
JobPending(j) == JobExists(j) /\ jobs[j].status = "Pending"

EscrowInit ==
  /\ jobs = [j \in JobIds |-> NoJob]
  /\ marketplace = Market
  /\ oracle \in Appointees \cap Users
  /\ escrowTreasury \in Appointees \cap Users

-----------------------------------------------------------------------------
(* The job lifecycle.                                                      *)

(* Mutant of DepositJob: no "Job already exists" check.                    *)
DepositJobAgain(u, j, provider, gym, value) ==
  /\ provider # NoOne
  /\ value > 0
  /\ balance[u] >= value
  /\ jobs' = [jobs EXCEPT ![j] =
                [creator |-> u, provider |-> provider, gym |-> gym,
                 deposit |-> value, status |-> "Pending"]]
  /\ balance' = Transfer(balance, u, Escrow, value)
  /\ UNCHANGED <<marketState, marketConfig, escrowConfig>>

DepositJob(u, j, provider, gym, value) ==
  /\ ~JobExists(j)
  /\ provider # NoOne
  /\ value > 0
  /\ balance[u] >= value
  /\ jobs' = [jobs EXCEPT ![j] =
                [creator |-> u, provider |-> provider, gym |-> gym,
                 deposit |-> value, status |-> "Pending"]]
  /\ balance' = Transfer(balance, u, Escrow, value)
  /\ UNCHANGED <<marketState, marketConfig, escrowConfig>>

ProviderShareBps == 8000
RoyaltyShareBps == 1000

ProviderShare(deposit) == (deposit * ProviderShareBps) \div 10000
RoyaltyShare(deposit) == (deposit * RoyaltyShareBps) \div 10000
(* Mutant of PlatformShare: the royalty is paid out a second time.         *)
PlatformShareWithRoyalty(deposit) == deposit - ProviderShare(deposit)

PlatformShare(deposit) ==
  deposit - ProviderShare(deposit) - RoyaltyShare(deposit)

(* The builder of the job's gym, and whether it is owed a royalty.         *)
Builder(j) == listings[jobs[j].gym].seller
(* Mutant of OwesRoyalty: royalties end when the gym is delisted.          *)
OwesListedRoyalty(j) ==
  listings[jobs[j].gym].active /\ RoyaltyShare(jobs[j].deposit) > 0

OwesRoyalty(j) == Builder(j) # NoOne /\ RoyaltyShare(jobs[j].deposit) > 0

(* completeJob called by c.  Any transfer that fails, a marketplace        *)
(* address without that contract's code, and a creditRoyalty the           *)
(* marketplace refuses revert everything, the new status included.         *)
CompleteJob(c, j) ==
  LET job == jobs[j]
      royalty == RoyaltyShare(job.deposit)
      paid == Transfer(Transfer(balance,
                Escrow, job.provider, ProviderShare(job.deposit)),
                Escrow, escrowTreasury, PlatformShare(job.deposit))
  IN  /\ c = oracle
      /\ JobPending(j)
      /\ balance[Escrow] >= job.deposit
      /\ Accepts(job.provider)
      /\ Accepts(escrowTreasury)
      /\ marketplace = Market
      /\ jobs' = [jobs EXCEPT ![j].status = "Completed"]
      /\ \/ /\ OwesRoyalty(j)
            /\ marketEscrow = Escrow
            /\ royalties' = CreditedRoyalties(Builder(j), royalty)
            /\ balance' = Transfer(paid, Escrow, Market, royalty)
         \/ /\ ~OwesRoyalty(j)
            /\ balance' = Transfer(paid, Escrow, escrowTreasury, royalty)
            /\ UNCHANGED royalties
      /\ UNCHANGED <<listings, access, keys, marketConfig, escrowConfig>>

(* Mutant of RefundJob: no check that the job is still pending.            *)
RefundJobAnyStatus(c, j) ==
  /\ c = oracle
  /\ JobExists(j)
  /\ balance[Escrow] >= jobs[j].deposit
  /\ Accepts(jobs[j].creator)
  /\ jobs' = [jobs EXCEPT ![j].status = "Refunded"]
  /\ balance' = Transfer(balance, Escrow, jobs[j].creator, jobs[j].deposit)
  /\ UNCHANGED <<marketState, marketConfig, escrowConfig>>

RefundJob(c, j) ==
  LET job == jobs[j]
  IN  /\ c = oracle
      /\ JobPending(j)
      /\ balance[Escrow] >= job.deposit
      /\ Accepts(job.creator)
      /\ jobs' = [jobs EXCEPT ![j].status = "Refunded"]
      /\ balance' = Transfer(balance, Escrow, job.creator, job.deposit)
      /\ UNCHANGED <<marketState, marketConfig, escrowConfig>>

-----------------------------------------------------------------------------
(* Administration, by the owner.                                           *)

SetOracle(a) ==
  /\ oracle' = a
  /\ UNCHANGED <<marketVars, jobs, marketplace, escrowTreasury>>

SetMarketplace(a) ==
  /\ marketplace' = a
  /\ UNCHANGED <<marketVars, jobs, oracle, escrowTreasury>>

SetEscrowTreasury(a) ==
  /\ escrowTreasury' = a
  /\ UNCHANGED <<marketVars, jobs, marketplace, oracle>>

-----------------------------------------------------------------------------
EscrowUserStep(u) ==
  \/ \E j \in JobIds, provider \in Users \cup {NoOne}, gym \in GymKeys,
        value \in Deposits : DepositJob(u, j, provider, gym, value)
  \/ \E j \in JobIds : CompleteJob(u, j) \/ RefundJob(u, j)

EscrowOwnerStep ==
  \E a \in Appointees : SetOracle(a) \/ SetMarketplace(a) \/ SetEscrowTreasury(a)

EscrowNext ==
  \/ \E u \in Users : EscrowUserStep(u)
  \/ EscrowOwnerStep
  \/ MarketNext /\ UNCHANGED <<jobs, escrowConfig>>

EscrowDeployed ==
  /\ ChainInit
  /\ \E treasury \in Appointees : MarketInit(treasury, Escrow)
  /\ EscrowInit

EscrowSpec == EscrowDeployed /\ [][EscrowNext]_escrowVars

-----------------------------------------------------------------------------
EscrowTypeOK ==
  /\ MarketTypeOK
  /\ jobs \in [JobIds -> Job]
  /\ marketplace \in Accounts
  /\ oracle \in Accounts
  /\ escrowTreasury \in Accounts

PendingDeposits ==
  [j \in JobIds |-> IF JobPending(j) THEN jobs[j].deposit ELSE 0]

(* The escrow holds, to the wei, the deposits of the jobs that are neither *)
(* completed nor refunded: every other deposit has left it in full, and no *)
(* settlement of one job ever spends the deposit of another.               *)
EscrowSolvent == balance[Escrow] = Total(PendingDeposits)

(* completeJob hands out all of a deposit and only it, the provider and    *)
(* the builder at their rounded-down shares and the treasury at the rest;  *)
(* a royalty nobody is owed goes to the treasury too.  Stated on the       *)
(* balances before and after, for parties that are different accounts.     *)
PayoutSplit ==
  [][\A j \in JobIds :
       LET job == jobs[j]
           gained(a) == balance'[a] - balance[a]
           royalty == (job.deposit * 10) \div 100
       IN  JobPending(j) /\ jobs'[j].status = "Completed"
             /\ job.provider # escrowTreasury =>
           /\ gained(job.provider) = (job.deposit * 80) \div 100
           /\ gained(escrowTreasury) + gained(job.provider)
                + (royalties'[Builder(j)] - royalties[Builder(j)]) = job.deposit
           /\ Builder(j) # NoOne =>
                royalties'[Builder(j)] - royalties[Builder(j)] = royalty]_escrowVars

(* The escrow implements EscrowPromise: whoever completes or refunds jobs  *)
(* in whatever order, a job has one release, of its whole deposit.         *)
Outcomes == [j \in JobIds |-> IF JobExists(j) THEN jobs[j].status ELSE "none"]
DepositsMade == [j \in JobIds |-> jobs[j].deposit]

Promise == INSTANCE EscrowPromise WITH
  outcome <- Outcomes, locked <- DepositsMade, vault <- balance[Escrow]

ImplementsPromise == Promise!Spec
=============================================================================
