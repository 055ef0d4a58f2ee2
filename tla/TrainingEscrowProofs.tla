------------------------ MODULE TrainingEscrowProofs ------------------------
(***************************************************************************)
(* The escrow is typed and solvent, pays a released deposit out in full    *)
(* and implements EscrowPromise, for any jobs, users, gyms and amounts,    *)
(* composed with the marketplace.                                          *)
(***************************************************************************)
EXTENDS TrainingEscrow, GymMarketplaceProofs

(* Solvency is inductive only along with the types and with what the       *)
(* marketplace keeps about itself.                                         *)
EscrowInv == EscrowTypeOK /\ RoyaltiesBacked /\ EscrowSolvent

(* The three shares are whole amounts and leave nothing of a deposit.      *)
LEMMA SharesSplit ==
  ASSUME NEW deposit \in Nat
  PROVE  /\ ProviderShare(deposit) \in Nat
         /\ RoyaltyShare(deposit) \in Nat
         /\ PlatformShare(deposit) \in Nat
         /\ ProviderShare(deposit) + PlatformShare(deposit) + RoyaltyShare(deposit)
              = deposit
BY DEF ProviderShare, RoyaltyShare, PlatformShare, ProviderShareBps, RoyaltyShareBps

(* The escrow is a contract account of its own.                            *)
LEMMA EscrowAddress == Escrow \in Accounts \ {Market} /\ Escrow \notin Users
BY EscrowAssumption, ChainAssumption DEF Accounts

(* What one job adds to what the escrow must hold.                         *)
Due(job) == IF job.creator # NoOne /\ job.status = "Pending" THEN job.deposit ELSE 0

(* What the escrow owes is a sum over the jobs one by one.                 *)
LEMMA PendingIsDue ==
  ASSUME jobs \in [JobIds -> Job]
  PROVE  /\ PendingDeposits = [j \in JobIds |-> Due(jobs[j])]
         /\ PendingDeposits \in [JobIds -> Nat]
<1>1. PendingDeposits = [j \in JobIds |-> Due(jobs[j])]
  BY DEF PendingDeposits, JobPending, JobExists, Due
<1>2. \A j \in JobIds : Due(jobs[j]) \in Nat
  BY DEF Due, Job
<1>3. QED
  BY <1>1, <1>2

(* A step that changes one job and the escrow's balance by the same amount *)
(* keeps the escrow solvent.                                               *)
LEMMA SolventUpdate ==
  ASSUME EscrowInv, NEW j \in JobIds, NEW job \in Job,
         jobs' = [jobs EXCEPT ![j] = job],
         balance'[Escrow] = balance[Escrow] - Due(jobs[j]) + Due(job)
  PROVE  jobs' \in [JobIds -> Job] /\ EscrowSolvent'
<1>1. jobs \in [JobIds -> Job] /\ balance[Escrow] = Total(PendingDeposits)
  BY DEF EscrowInv, EscrowTypeOK, EscrowSolvent
<1>2. jobs' \in [JobIds -> Job]
  BY <1>1
<1>3. PendingDeposits \in [JobIds -> Nat] /\ PendingDeposits[j] = Due(jobs[j])
  BY <1>1, PendingIsDue
<1>4. Due(job) \in Nat
  BY DEF Due, Job
<1>5. PendingDeposits' = [PendingDeposits EXCEPT ![j] = Due(job)]
  <2>1. PendingDeposits' = [i \in JobIds |-> Due(jobs'[i])]
    BY DEF PendingDeposits, JobPending, JobExists, Due
  <2>2. \A i \in JobIds : jobs'[i] = IF i = j THEN job ELSE jobs[i]
    BY <1>1
  <2>3. PendingDeposits = [i \in JobIds |-> Due(jobs[i])]
    BY <1>1, PendingIsDue
  <2> HIDE DEF PendingDeposits
  <2>4. QED
    BY <2>1, <2>2, <2>3
<1>6. Total([PendingDeposits EXCEPT ![j] = Due(job)]) =
        Total(PendingDeposits) - PendingDeposits[j] + Due(job)
  <2>1. \A n \in Nat : Total([PendingDeposits EXCEPT ![j] = n]) =
                         Total(PendingDeposits) - PendingDeposits[j] + n
    BY <1>3, TotalUpdate, EscrowAssumption, Zenon
  <2>2. QED
    BY <1>4, <2>1, Zenon
<1>7. balance'[Escrow] = Total(PendingDeposits')
  BY <1>1, <1>3, <1>5, <1>6, Zenon
<1>8. QED
  BY <1>2, <1>7 DEF EscrowSolvent

(* The escrow always holds what it owes for one job: releasing a pending   *)
(* deposit never fails for want of funds.                                  *)
LEMMA PendingCovered ==
  ASSUME EscrowInv, NEW j \in JobIds, JobPending(j)
  PROVE  jobs[j].deposit <= balance[Escrow]
<1>1. jobs \in [JobIds -> Job]
  BY DEF EscrowInv, EscrowTypeOK
<1>2. PendingDeposits \in [JobIds -> Nat] /\ PendingDeposits[j] = jobs[j].deposit
  BY <1>1, PendingIsDue DEF JobPending, JobExists, Due
<1>3. PendingDeposits[j] <= Total(PendingDeposits)
  BY <1>2, TotalUpdate, EscrowAssumption
<1>4. QED
  BY <1>2, <1>3 DEF EscrowInv, EscrowSolvent

(* The deployed escrow holds nothing and no job exists.                    *)
LEMMA EscrowInitInv ==
  ASSUME ChainInit, NEW treasury \in Appointees, MarketInit(treasury, Escrow),
         EscrowInit
  PROVE  EscrowInv
<1>1. MarketTypeOK /\ RoyaltiesBacked
  BY MarketInitInv, EscrowAddress DEF MarketInv
<1>2. NoJob \in Job
  BY Addresses, MarketAssumption DEF NoJob, Job
<1>3. EscrowTypeOK
  BY <1>1, <1>2, Addresses, MarketAssumption DEF EscrowInit, EscrowTypeOK
<1>4. EscrowSolvent
  <2>1. PendingDeposits = [j \in JobIds |-> 0]
    BY DEF PendingDeposits, JobPending, JobExists, EscrowInit, NoJob
  <2>2. Total(PendingDeposits) = 0
    BY <2>1, TotalOfNothing
  <2>3. balance[Escrow] = 0
    BY EscrowAddress DEF ChainInit
  <2>4. QED
    BY <2>2, <2>3 DEF EscrowSolvent
<1>5. QED
  BY <1>1, <1>3, <1>4 DEF EscrowInv

(* A deposit arrives along with the job that it pays for.                  *)
LEMMA DepositInv ==
  ASSUME EscrowInv, NEW u \in Users, NEW j \in JobIds, NEW provider \in Users \cup {NoOne},
         NEW gym \in GymKeys, NEW value \in Deposits,
         DepositJob(u, j, provider, gym, value)
  PROVE  EscrowInv'
<1> DEFINE job == [creator |-> u, provider |-> provider, gym |-> gym,
                   deposit |-> value, status |-> "Pending"]
<1>1. /\ value \in Nat /\ u \in Accounts /\ provider \in Accounts /\ u # NoOne
      /\ u # Escrow /\ Escrow \in Accounts /\ value <= balance[u]
      /\ balance \in [Accounts -> Nat] /\ u # Market /\ Market \in Accounts
  <2>1. /\ value \in Nat /\ value <= balance[u] /\ balance \in [Accounts -> Nat]
    BY EscrowAssumption DEF DepositJob, EscrowInv, EscrowTypeOK, MarketTypeOK
  <2>2. u \in Accounts /\ provider \in Accounts /\ Market \in Accounts
    BY Addresses
  <2>3. u # NoOne /\ u # Escrow /\ u # Market /\ Escrow \in Accounts
    BY EscrowAddress, Addresses, ChainAssumption
  <2>4. QED
    BY <2>1, <2>2, <2>3
<1>2. job \in Job /\ Due(job) = value
  BY <1>1 DEF Job, Due
<1>3. Due(jobs[j]) = 0
  BY DEF DepositJob, JobExists, Due
<1>4. balance' = Transfer(balance, u, Escrow, value) /\ jobs' = [jobs EXCEPT ![j] = job]
  BY DEF DepositJob
<1>5. /\ balance' \in [Accounts -> Nat]
      /\ balance'[Escrow] = balance[Escrow] + value
      /\ balance'[Market] = balance[Market]
  <2>1. Market \in Accounts \ {u, Escrow}
    BY <1>1, EscrowAddress
  <2> HIDE DEF job
  <2>2. QED
    BY <1>1, <1>4, <2>1, TransferMoves
<1>6. jobs' \in [JobIds -> Job] /\ EscrowSolvent'
  <2>1. balance[Escrow] \in Nat
    BY <1>1
  <2> HIDE DEF job
  <2>2. balance'[Escrow] = balance[Escrow] - Due(jobs[j]) + Due(job)
    BY <1>1, <1>2, <1>3, <1>5, <2>1
  <2>3. QED
    BY <1>2, <1>4, <2>2, SolventUpdate
<1>7. UNCHANGED <<marketState, marketConfig, escrowConfig>>
  BY DEF DepositJob
<1>8. RoyaltiesBacked'
  BY <1>5, <1>7 DEF EscrowInv, RoyaltiesBacked, marketState
<1>9. EscrowTypeOK'
  BY <1>5, <1>6, <1>7
  DEF EscrowInv, EscrowTypeOK, MarketTypeOK, marketState, marketConfig, escrowConfig
<1>10. QED
  BY <1>6, <1>8, <1>9 DEF EscrowInv

(* The last part of a job's release, common to completion and refund: the  *)
(* job leaves Pending and exactly its deposit leaves the escrow.           *)
LEMMA ReleaseInv ==
  ASSUME EscrowInv, NEW j \in JobIds, JobPending(j), NEW status \in {"Completed", "Refunded"},
         jobs' = [jobs EXCEPT ![j].status = status],
         balance'[Escrow] = balance[Escrow] - jobs[j].deposit
  PROVE  jobs' \in [JobIds -> Job] /\ EscrowSolvent'
<1> DEFINE job == [jobs[j] EXCEPT !.status = status]
<1>1. jobs \in [JobIds -> Job] /\ balance[Escrow] \in Nat
  BY EscrowAddress DEF EscrowInv, EscrowTypeOK, MarketTypeOK
<1>2. job \in Job /\ Due(job) = 0
  BY <1>1 DEF Job, Due
<1>3. Due(jobs[j]) = jobs[j].deposit /\ jobs[j].deposit \in Nat
  BY <1>1 DEF JobPending, JobExists, Due, Job
<1>4. jobs' = [jobs EXCEPT ![j] = job]
  OBVIOUS
<1> HIDE DEF job
<1>5. balance'[Escrow] = balance[Escrow] - Due(jobs[j]) + Due(job)
  BY <1>1, <1>2, <1>3
<1>6. QED
  BY <1>2, <1>4, <1>5, SolventUpdate

(* A refund sends out exactly the deposit of the job it closes.            *)
LEMMA RefundInv ==
  ASSUME EscrowInv, NEW c \in Accounts, NEW j \in JobIds, RefundJob(c, j)
  PROVE  /\ EscrowInv'
         /\ balance'[Escrow] = balance[Escrow] - jobs[j].deposit
<1> DEFINE creator == jobs[j].creator
           deposit == jobs[j].deposit
<1>1. /\ balance \in [Accounts -> Nat] /\ creator \in Accounts /\ deposit \in Nat
      /\ deposit <= balance[Escrow] /\ balance' = Transfer(balance, Escrow, creator, deposit)
      /\ jobs' = [jobs EXCEPT ![j].status = "Refunded"] /\ JobPending(j)
  BY DEF RefundJob, EscrowInv, EscrowTypeOK, MarketTypeOK, Job
<1>2. /\ creator \notin Contracts /\ creator # Escrow /\ creator # Market
      /\ Escrow \in Accounts /\ Market \in Accounts \ {Escrow, creator}
  BY EscrowAddress, EscrowAssumption, MarketAssumption, Addresses DEF RefundJob, Accepts
<1>3. /\ balance' \in [Accounts -> Nat]
      /\ balance'[Escrow] = balance[Escrow] - deposit
      /\ balance'[Market] = balance[Market]
  <2> HIDE DEF creator, deposit
  <2>1. QED
    BY <1>1, <1>2, TransferMoves
<1>4. jobs' \in [JobIds -> Job] /\ EscrowSolvent'
  BY <1>1, <1>3, ReleaseInv
<1>5. UNCHANGED <<marketState, marketConfig, escrowConfig>>
  BY DEF RefundJob
<1>6. RoyaltiesBacked'
  BY <1>3, <1>5 DEF EscrowInv, RoyaltiesBacked, marketState
<1>7. EscrowTypeOK'
  BY <1>3, <1>4, <1>5
  DEF EscrowInv, EscrowTypeOK, MarketTypeOK, marketState, marketConfig, escrowConfig
<1>8. QED
  BY <1>3, <1>4, <1>6, <1>7 DEF EscrowInv

(* A completion sends out exactly the deposit, in three shares.            *)
LEMMA CompleteInv ==
  ASSUME EscrowInv, NEW c \in Accounts, NEW j \in JobIds, CompleteJob(c, j)
  PROVE  /\ EscrowInv'
         /\ balance'[Escrow] = balance[Escrow] - jobs[j].deposit
<1> DEFINE provider == jobs[j].provider
           deposit == jobs[j].deposit
           cut == ProviderShare(deposit)
           rest == PlatformShare(deposit)
           royalty == RoyaltyShare(deposit)
           once == Transfer(balance, Escrow, provider, cut)
           paid == Transfer(once, Escrow, escrowTreasury, rest)
<1>1. /\ balance \in [Accounts -> Nat] /\ royalties \in [Accounts -> Nat]
      /\ jobs[j] \in Job /\ escrowTreasury \in Accounts
      /\ listings \in [GymKeys -> Listing]
  BY DEF EscrowInv, EscrowTypeOK, MarketTypeOK
<1>2. provider \in Accounts /\ deposit \in Nat /\ Builder(j) \in Accounts
  BY <1>1 DEF Job, Listing, Builder
<1>3. /\ JobPending(j) /\ deposit <= balance[Escrow]
      /\ provider \notin Contracts /\ escrowTreasury \notin Contracts
      /\ jobs' = [jobs EXCEPT ![j].status = "Completed"]
      /\ UNCHANGED <<listings, access, keys, marketConfig, escrowConfig>>
  BY DEF CompleteJob, Accepts
<1>4. /\ Escrow \in Accounts \ {Market} /\ Market \in Accounts \ {Escrow}
      /\ escrowTreasury # Escrow /\ Market \in Accounts \ {Escrow, escrowTreasury}
  BY <1>3, EscrowAddress, EscrowAssumption, MarketAssumption, Addresses
<1>5. cut \in Nat /\ rest \in Nat /\ royalty \in Nat /\ cut + rest + royalty = deposit
  BY <1>2, SharesSplit
<1>6. /\ paid \in [Accounts -> Nat]
      /\ paid[Escrow] = balance[Escrow] - (cut + rest)
      /\ royalty <= paid[Escrow]
      /\ paid[Market] = balance[Market]
  <2>1. balance[Escrow] \in Nat /\ provider # Escrow
    BY <1>1, <1>3, <1>4, EscrowAssumption
  <2>2. Market \in Accounts \ {Escrow, provider}
    BY <1>3, <1>4, MarketAssumption
  <2> HIDE DEF provider, deposit, cut, rest, royalty
  <2>3. cut <= balance[Escrow]
    BY <1>2, <1>3, <1>5, <2>1
  <2>4. /\ once \in [Accounts -> Nat]
        /\ once[Escrow] = balance[Escrow] - cut
        /\ once[Market] = balance[Market]
    BY <1>1, <1>2, <1>4, <1>5, <2>1, <2>2, <2>3, TransferMoves
  <2> HIDE DEF once
  <2>5. rest <= once[Escrow]
    BY <1>2, <1>3, <1>5, <2>1, <2>4
  <2>6. /\ paid \in [Accounts -> Nat]
        /\ paid[Escrow] = once[Escrow] - rest
        /\ paid[Market] = once[Market]
    BY <1>1, <1>4, <1>5, <2>4, <2>5, TransferMoves
  <2> HIDE DEF paid
  <2>7. QED
    BY <1>2, <1>3, <1>5, <2>1, <2>4, <2>6
<1>7. /\ balance' \in [Accounts -> Nat] /\ royalties' \in [Accounts -> Nat]
      /\ balance'[Escrow] = paid[Escrow] - royalty
      /\ RoyaltiesBacked'
  <2>1. CASE /\ royalties' = CreditedRoyalties(Builder(j), royalty)
             /\ balance' = Transfer(paid, Escrow, Market, royalty)
    <3> HIDE DEF royalty, once, paid
    <3>1. MarketInv
      BY DEF EscrowInv, EscrowTypeOK, MarketInv
    <3>2. QED
      BY <1>2, <1>4, <1>5, <1>6, <2>1, <3>1, CreditedInv
  <2>2. CASE /\ balance' = Transfer(paid, Escrow, escrowTreasury, royalty)
             /\ royalties' = royalties
    <3>1. /\ balance' \in [Accounts -> Nat]
          /\ balance'[Escrow] = paid[Escrow] - royalty
          /\ balance'[Market] = paid[Market]
      <4> HIDE DEF royalty, once, paid
      <4>1. QED
        BY <1>1, <1>4, <1>5, <1>6, <2>2, TransferMoves
    <3>2. RoyaltiesBacked'
      BY <1>6, <2>2, <3>1 DEF EscrowInv, RoyaltiesBacked
    <3>3. QED
      BY <1>1, <2>2, <3>1, <3>2
  <2>3. QED
    BY <2>1, <2>2 DEF CompleteJob
<1>8. balance'[Escrow] = balance[Escrow] - deposit
  <2>1. balance[Escrow] \in Nat
    BY <1>1, <1>4
  <2> HIDE DEF deposit, cut, rest, royalty, once, paid
  <2>2. QED
    BY <1>2, <1>5, <1>6, <1>7, <2>1
<1>9. jobs' \in [JobIds -> Job] /\ EscrowSolvent'
  BY <1>3, <1>8, ReleaseInv
<1>10. EscrowTypeOK'
  BY <1>3, <1>7, <1>9
  DEF EscrowInv, EscrowTypeOK, MarketTypeOK, marketConfig, escrowConfig
<1>11. QED
  BY <1>7, <1>8, <1>9, <1>10 DEF EscrowInv

(* Steps of the marketplace and of the owner leave every job and the       *)
(* escrow's balance alone.                                                 *)
LEMMA OtherStepInv ==
  ASSUME EscrowInv,
         \/ EscrowOwnerStep
         \/ MarketNext /\ UNCHANGED <<jobs, escrowConfig>>
         \/ UNCHANGED escrowVars
  PROVE  EscrowInv' /\ jobs' = jobs /\ balance'[Escrow] = balance[Escrow]
<1>1. MarketInv
  BY DEF EscrowInv, EscrowTypeOK, MarketInv
<1>2. jobs' = jobs /\ balance'[Escrow] = balance[Escrow] /\ MarketInv'
  <2>1. CASE EscrowOwnerStep
    <3>1. UNCHANGED <<marketVars, jobs>>
      BY <2>1 DEF EscrowOwnerStep, SetOracle, SetMarketplace, SetEscrowTreasury
    <3>2. QED
      BY <1>1, <3>1
      DEF marketVars, marketState, marketConfig, MarketInv, MarketTypeOK, RoyaltiesBacked
  <2>2. CASE MarketNext /\ UNCHANGED <<jobs, escrowConfig>>
    <3>1. MarketInv' /\ OthersKeepBalance
      BY <1>1, <2>2, MarketStepInv
    <3>2. QED
      BY <2>2, <3>1, EscrowAssumption DEF OthersKeepBalance
  <2>3. CASE UNCHANGED escrowVars
    BY <1>1, <2>3
    DEF escrowVars, marketVars, marketState, marketConfig, MarketInv, MarketTypeOK,
        RoyaltiesBacked
  <2>4. QED
    BY <2>1, <2>2, <2>3
<1>3. marketplace' \in Accounts /\ oracle' \in Accounts /\ escrowTreasury' \in Accounts
  <2> DEFINE Config == /\ marketplace \in Accounts /\ oracle \in Accounts
                       /\ escrowTreasury \in Accounts
  <2>1. Config
    BY DEF EscrowInv, EscrowTypeOK
  <2>2. ASSUME NEW a \in Appointees,
               SetOracle(a) \/ SetMarketplace(a) \/ SetEscrowTreasury(a)
        PROVE  Config'
    BY <2>1, <2>2, MarketAssumption DEF SetOracle, SetMarketplace, SetEscrowTreasury
  <2>3. CASE UNCHANGED escrowConfig
    BY <2>1, <2>3 DEF escrowConfig
  <2>4. QED
    BY <2>2, <2>3 DEF EscrowOwnerStep, escrowVars
<1>4. EscrowSolvent'
  BY <1>2 DEF EscrowInv, EscrowSolvent, PendingDeposits, JobPending, JobExists
<1>5. QED
  BY <1>2, <1>3, <1>4 DEF EscrowInv, EscrowTypeOK, MarketInv

(* Deposits, completions and refunds by users, the oracle among them.      *)
LEMMA EscrowUserStepInv ==
  ASSUME EscrowInv, NEW u \in Users, EscrowUserStep(u)
  PROVE  EscrowInv'
<1>1. ASSUME NEW j \in JobIds, NEW provider \in Users \cup {NoOne}, NEW gym \in GymKeys,
             NEW value \in Deposits, DepositJob(u, j, provider, gym, value)
      PROVE  EscrowInv'
  BY <1>1, DepositInv
<1>2. ASSUME NEW j \in JobIds, CompleteJob(u, j) \/ RefundJob(u, j)
      PROVE  EscrowInv'
  BY <1>2, CompleteInv, RefundInv, Addresses
<1>3. QED
  BY <1>1, <1>2 DEF EscrowUserStep

(* EscrowInv is an invariant of the escrow and its marketplace.            *)
LEMMA EscrowInvariant == EscrowSpec => []EscrowInv
<1>1. ASSUME ChainInit, \E treasury \in Appointees : MarketInit(treasury, Escrow),
             EscrowInit
      PROVE  EscrowInv
  BY <1>1, EscrowInitInv
<1>2. ASSUME EscrowInv, [EscrowNext]_escrowVars
      PROVE  EscrowInv'
  BY <1>2, EscrowUserStepInv, OtherStepInv DEF EscrowNext
<1>3. QED
  BY <1>1, <1>2, PTL DEF EscrowSpec, EscrowDeployed

(* The escrow, and the marketplace it is composed with, keep the types     *)
(* their contracts declare.                                                *)
THEOREM EscrowTyped == EscrowSpec => []EscrowTypeOK
<1>1. EscrowInv => EscrowTypeOK
  BY DEF EscrowInv
<1>2. QED
  BY <1>1, EscrowInvariant, PTL

(* The escrow holds exactly the deposits of the pending jobs, whatever     *)
(* order jobs are deposited, completed and refunded in.                    *)
THEOREM EscrowStaysSolvent == EscrowSpec => []EscrowSolvent
<1>1. EscrowInv => EscrowSolvent
  BY DEF EscrowInv
<1>2. QED
  BY <1>1, EscrowInvariant, PTL

(* Composed with the escrow that credits royalties, the marketplace can    *)
(* still pay every royalty it owes.                                        *)
THEOREM EscrowRoyaltiesBacked == EscrowSpec => []RoyaltiesBacked
<1>1. EscrowInv => RoyaltiesBacked
  BY DEF EscrowInv
<1>2. QED
  BY <1>1, EscrowInvariant, PTL

(* Whatever was paid out before, the escrow can release any pending        *)
(* deposit in full: completeJob and refundJob never revert for want of wei.*)
THEOREM ReleaseNeverLacksFunds ==
  EscrowSpec => [](\A j \in JobIds : JobPending(j) => jobs[j].deposit <= balance[Escrow])
<1>1. EscrowInv => \A j \in JobIds : JobPending(j) => jobs[j].deposit <= balance[Escrow]
  BY PendingCovered
<1>2. QED
  BY <1>1, EscrowInvariant, PTL

-----------------------------------------------------------------------------
(* Nothing but completing job j completes job j.                           *)
LEMMA OnlyCompleteJobCompletes ==
  ASSUME EscrowInv, [EscrowNext]_escrowVars, NEW j \in JobIds,
         JobPending(j), jobs'[j].status = "Completed"
  PROVE  \E u \in Users : CompleteJob(u, j)
<1>1. jobs \in [JobIds -> Job] /\ jobs[j].status = "Pending"
  BY DEF EscrowInv, EscrowTypeOK, JobPending
<1>2. jobs' # jobs
  BY <1>1
<1>3. PICK u \in Users : EscrowUserStep(u)
  BY <1>2, OtherStepInv DEF EscrowNext
<1>4. ASSUME NEW i \in JobIds, NEW provider \in Users \cup {NoOne}, NEW gym \in GymKeys,
             NEW value \in Deposits, DepositJob(u, i, provider, gym, value)
      PROVE  FALSE
  BY <1>1, <1>4 DEF DepositJob, JobPending
<1>5. ASSUME NEW i \in JobIds, RefundJob(u, i)
      PROVE  FALSE
  BY <1>1, <1>5 DEF RefundJob, Job
<1>6. ASSUME NEW i \in JobIds, CompleteJob(u, i)
      PROVE  i = j
  BY <1>1, <1>6 DEF CompleteJob, Job
<1>7. QED
  BY <1>3, <1>4, <1>5, <1>6 DEF EscrowUserStep

(* The shares in percent, as the contract's documentation gives them.      *)
LEMMA SharesInPercent ==
  ASSUME NEW deposit \in Nat
  PROVE  /\ ProviderShare(deposit) = (deposit * 80) \div 100
         /\ RoyaltyShare(deposit) = (deposit * 10) \div 100
BY DEF ProviderShare, RoyaltyShare, ProviderShareBps, RoyaltyShareBps

(* What a completion pays to whom, its provider not being the treasury.    *)
LEMMA CompletionPays ==
  ASSUME EscrowInv, NEW c \in Accounts, NEW j \in JobIds, CompleteJob(c, j),
         jobs[j].provider # escrowTreasury
  PROVE  LET job == jobs[j]
             gained(a) == balance'[a] - balance[a]
             credited == royalties'[Builder(j)] - royalties[Builder(j)]
         IN  /\ gained(job.provider) = ProviderShare(job.deposit)
             /\ gained(escrowTreasury) + gained(job.provider) + credited = job.deposit
             /\ Builder(j) # NoOne => credited = RoyaltyShare(job.deposit)
<1> DEFINE provider == jobs[j].provider
           deposit == jobs[j].deposit
           cut == ProviderShare(deposit)
           rest == PlatformShare(deposit)
           royalty == RoyaltyShare(deposit)
           once == Transfer(balance, Escrow, provider, cut)
           paid == Transfer(once, Escrow, escrowTreasury, rest)
<1>1. /\ balance \in [Accounts -> Nat] /\ royalties \in [Accounts -> Nat]
      /\ provider \in Accounts /\ deposit \in Nat /\ Builder(j) \in Accounts
      /\ escrowTreasury \in Accounts /\ deposit <= balance[Escrow]
      /\ provider # escrowTreasury
  BY DEF CompleteJob, EscrowInv, EscrowTypeOK, MarketTypeOK, Job, Listing, Builder
<1>2. /\ Escrow \in Accounts /\ Market \in Accounts /\ Escrow # Market
      /\ provider # Escrow /\ provider # Market
      /\ escrowTreasury # Escrow /\ escrowTreasury # Market
  BY EscrowAddress, EscrowAssumption, MarketAssumption, Addresses
  DEF CompleteJob, Accepts
<1>3. /\ cut \in Nat /\ rest \in Nat /\ royalty \in Nat /\ cut + rest + royalty = deposit
  BY <1>1, SharesSplit
<1> HIDE DEF provider, deposit, cut, rest, royalty
<1>4. /\ once \in [Accounts -> Nat] /\ once[Escrow] = balance[Escrow] - cut
      /\ once[provider] = balance[provider] + cut
      /\ once[escrowTreasury] = balance[escrowTreasury]
  <2>1. /\ balance \in [Accounts -> Nat] /\ Escrow \in Accounts
        /\ provider \in Accounts /\ Escrow # provider
        /\ cut \in Nat /\ cut <= balance[Escrow]
    <3>1. balance[Escrow] \in Nat
      BY <1>1, <1>2
    <3>2. QED
      BY <1>1, <1>2, <1>3, <3>1
  <2>2. /\ once \in [Accounts -> Nat]
        /\ \A a \in Accounts \ {Escrow, provider} : once[a] = balance[a]
        /\ once[Escrow] = balance[Escrow] - cut
        /\ once[provider] = balance[provider] + cut
    BY <2>1, TransferMoves
  <2> HIDE DEF once
  <2>3. QED
    BY <1>1, <1>2, <2>2
<1> HIDE DEF once
<1>5. /\ paid \in [Accounts -> Nat] /\ royalty <= paid[Escrow]
      /\ paid[provider] = balance[provider] + cut
      /\ paid[escrowTreasury] = balance[escrowTreasury] + rest
  <2>1. /\ Escrow \in Accounts /\ escrowTreasury \in Accounts /\ Escrow # escrowTreasury
        /\ once \in [Accounts -> Nat] /\ rest \in Nat /\ rest <= once[Escrow]
        /\ balance[Escrow] \in Nat
    BY <1>1, <1>2, <1>3, <1>4
  <2>2. /\ paid \in [Accounts -> Nat]
        /\ \A a \in Accounts \ {Escrow, escrowTreasury} : paid[a] = once[a]
        /\ paid[Escrow] = once[Escrow] - rest
        /\ paid[escrowTreasury] = once[escrowTreasury] + rest
    BY <2>1, TransferMoves
  <2> HIDE DEF paid
  <2>3. royalty <= paid[Escrow]
    BY <1>1, <1>2, <1>3, <1>4, <2>1, <2>2
  <2>4. paid[provider] = once[provider]
    BY <1>1, <1>2, <2>2
  <2>5. QED
    BY <1>4, <2>2, <2>3, <2>4
<1> HIDE DEF paid
<1>6. /\ balance'[provider] = balance[provider] + cut
      /\ \/ /\ balance'[escrowTreasury] = balance[escrowTreasury] + rest
            /\ royalties'[Builder(j)] = royalties[Builder(j)] + royalty
         \/ /\ balance'[escrowTreasury] = balance[escrowTreasury] + rest + royalty
            /\ royalties' = royalties /\ (Builder(j) = NoOne \/ royalty = 0)
  <2>1. CASE /\ royalties' = CreditedRoyalties(Builder(j), royalty)
             /\ balance' = Transfer(paid, Escrow, Market, royalty)
    <3>1. royalties'[Builder(j)] = royalties[Builder(j)] + royalty
      BY <1>1, <2>1 DEF CreditedRoyalties
    <3>2. /\ balance'[provider] = paid[provider]
          /\ balance'[escrowTreasury] = paid[escrowTreasury]
      <4>1. \A a \in Accounts \ {Escrow, Market} : balance'[a] = paid[a]
        BY <1>2, <1>3, <1>5, <2>1, TransferMoves
      <4>2. QED
        BY <1>1, <1>2, <4>1
    <3>3. QED
      BY <1>5, <3>1, <3>2
  <2>2. CASE /\ balance' = Transfer(paid, Escrow, escrowTreasury, royalty)
             /\ royalties' = royalties /\ ~OwesRoyalty(j)
    <3>1. /\ balance'[provider] = paid[provider]
          /\ balance'[escrowTreasury] = paid[escrowTreasury] + royalty
      <4>1. /\ Escrow \in Accounts /\ escrowTreasury \in Accounts /\ Escrow # escrowTreasury
            /\ paid \in [Accounts -> Nat] /\ royalty \in Nat /\ royalty <= paid[Escrow]
        BY <1>1, <1>2, <1>3, <1>5
      <4>2. /\ \A a \in Accounts \ {Escrow, escrowTreasury} : balance'[a] = paid[a]
            /\ balance'[escrowTreasury] = paid[escrowTreasury] + royalty
        BY <2>2, <4>1, TransferMoves
      <4>3. QED
        BY <1>1, <1>2, <4>2
    <3>2. Builder(j) = NoOne \/ royalty = 0
      BY <1>3, <2>2 DEF OwesRoyalty, royalty, deposit
    <3>3. QED
      BY <1>5, <2>2, <3>1, <3>2
  <2>3. QED
    BY <2>1, <2>2 DEF CompleteJob, paid, once, cut, rest, royalty, provider, deposit
<1>7. /\ balance[provider] \in Nat /\ balance[escrowTreasury] \in Nat
      /\ royalties[Builder(j)] \in Nat
  BY <1>1
<1>8. /\ balance'[provider] - balance[provider] = cut
      /\ (balance'[escrowTreasury] - balance[escrowTreasury])
           + (balance'[provider] - balance[provider])
           + (royalties'[Builder(j)] - royalties[Builder(j)]) = deposit
      /\ Builder(j) # NoOne => royalties'[Builder(j)] - royalties[Builder(j)] = royalty
  BY <1>3, <1>6, <1>7
<1>9. QED
  BY <1>8 DEF cut, royalty, provider, deposit

(* Every completed job's deposit is split 80/10/10, to the wei, whatever   *)
(* else is pending and whoever the builder and the treasury are.           *)
THEOREM PayoutsSplit == EscrowSpec => PayoutSplit
<1>1. ASSUME EscrowInv, [EscrowNext]_escrowVars
      PROVE  [\A j \in JobIds :
       LET job == jobs[j]
           gained(a) == balance'[a] - balance[a]
           royalty == (job.deposit * 10) \div 100
       IN  JobPending(j) /\ jobs'[j].status = "Completed"
             /\ job.provider # escrowTreasury =>
           /\ gained(job.provider) = (job.deposit * 80) \div 100
           /\ gained(escrowTreasury) + gained(job.provider)
                + (royalties'[Builder(j)] - royalties[Builder(j)]) = job.deposit
           /\ Builder(j) # NoOne =>
                royalties'[Builder(j)] - royalties[Builder(j)] = royalty]_escrowVars
  <2> SUFFICES ASSUME NEW j \in JobIds, JobPending(j), jobs'[j].status = "Completed",
                      jobs[j].provider # escrowTreasury
               PROVE  LET job == jobs[j]
                          gained(a) == balance'[a] - balance[a]
                          royalty == (job.deposit * 10) \div 100
                      IN  /\ gained(job.provider) = (job.deposit * 80) \div 100
                          /\ gained(escrowTreasury) + gained(job.provider)
                               + (royalties'[Builder(j)] - royalties[Builder(j)])
                               = job.deposit
                          /\ Builder(j) # NoOne =>
                               royalties'[Builder(j)] - royalties[Builder(j)] = royalty
    OBVIOUS
  <2>1. PICK u \in Users : CompleteJob(u, j)
    BY <1>1, OnlyCompleteJobCompletes
  <2>2. u \in Accounts /\ jobs[j].deposit \in Nat
    BY <1>1, Addresses DEF EscrowInv, EscrowTypeOK, Job
  <2>3. QED
    BY <1>1, <2>1, <2>2, CompletionPays, SharesInPercent
<1>2. QED
  BY <1>1, EscrowInvariant, PTL DEF EscrowSpec, PayoutSplit

-----------------------------------------------------------------------------
(* A deposit locks a job nobody used before.                               *)
LEMMA DepositLocks ==
  ASSUME EscrowInv, NEW u \in Users, NEW j \in JobIds, NEW provider \in Users \cup {NoOne},
         NEW gym \in GymKeys, NEW value \in Deposits,
         DepositJob(u, j, provider, gym, value)
  PROVE  Promise!Lock(j)
<1>1. /\ jobs \in [JobIds -> Job] /\ balance \in [Accounts -> Nat]
      /\ value \in Nat \ {0} /\ u # NoOne
  BY EscrowAssumption, ChainAssumption
  DEF DepositJob, EscrowInv, EscrowTypeOK, MarketTypeOK
<1>2. /\ jobs'[j].creator = u /\ jobs'[j].deposit = value /\ jobs'[j].status = "Pending"
      /\ \A i \in JobIds \ {j} : jobs'[i] = jobs[i]
      /\ ~JobExists(j)
  BY <1>1 DEF DepositJob
<1>3. Outcomes[j] = "none" /\ Outcomes' = [Outcomes EXCEPT ![j] = "Pending"]
  BY <1>1, <1>2 DEF Outcomes, JobExists
<1>4. /\ DepositsMade'[j] = value
      /\ DepositsMade' = [DepositsMade EXCEPT ![j] = DepositsMade'[j]]
  BY <1>2 DEF DepositsMade
<1>5. balance'[Escrow] = balance[Escrow] + value
  <2>1. /\ u \in Accounts /\ Escrow \in Accounts /\ u # Escrow /\ value <= balance[u]
        /\ balance' = Transfer(balance, u, Escrow, value)
    BY EscrowAddress, Addresses DEF DepositJob
  <2>2. QED
    BY <1>1, <2>1, TransferMoves
<1>6. QED
  BY <1>1, <1>3, <1>4, <1>5 DEF Promise!Lock

(* A job's completion or refund is its one release.                        *)
LEMMA SettlementReleases ==
  ASSUME EscrowInv, NEW c \in Accounts, NEW j \in JobIds,
         CompleteJob(c, j) \/ RefundJob(c, j)
  PROVE  \E how \in {"Completed", "Refunded"} : Promise!Release(j, how)
<1>1. jobs \in [JobIds -> Job] /\ JobPending(j)
  BY DEF EscrowInv, EscrowTypeOK, CompleteJob, RefundJob
<1>2. PICK how \in {"Completed", "Refunded"} : jobs' = [jobs EXCEPT ![j].status = how]
  BY DEF CompleteJob, RefundJob
<1>3. /\ jobs'[j].status = how /\ jobs'[j].creator = jobs[j].creator
      /\ jobs'[j].deposit = jobs[j].deposit
      /\ \A i \in JobIds \ {j} : jobs'[i] = jobs[i]
  BY <1>1, <1>2 DEF Job
<1>4. Outcomes[j] = "Pending" /\ Outcomes' = [Outcomes EXCEPT ![j] = how]
  BY <1>1, <1>3 DEF Outcomes, JobExists, JobPending
<1>5. DepositsMade' = DepositsMade /\ DepositsMade[j] = jobs[j].deposit
  BY <1>3 DEF DepositsMade
<1>6. balance'[Escrow] = balance[Escrow] - DepositsMade[j]
  BY <1>5, CompleteInv, RefundInv
<1>7. Promise!Release(j, how)
  BY <1>4, <1>5, <1>6 DEF Promise!Release
<1>8. QED
  BY <1>7

(* TrainingEscrow implements EscrowPromise: each job's deposit leaves the  *)
(* escrow once and whole, whatever else the contracts do.                  *)
THEOREM EscrowKeepsPromise == EscrowSpec => ImplementsPromise
<1>1. ASSUME ChainInit, EscrowInit
      PROVE  Promise!Init
  <2>1. Outcomes = [j \in JobIds |-> "none"] /\ DepositsMade = [j \in JobIds |-> 0]
    BY <1>1 DEF EscrowInit, Outcomes, DepositsMade, JobExists, NoJob
  <2>2. balance[Escrow] = 0
    BY <1>1, EscrowAddress DEF ChainInit
  <2>3. QED
    BY <2>1, <2>2 DEF Promise!Init
<1>2. ASSUME EscrowInv, [EscrowNext]_escrowVars
      PROVE  [Promise!Next]_<<Outcomes, DepositsMade, balance[Escrow]>>
  <2>1. ASSUME NEW u \in Users, EscrowUserStep(u)
        PROVE  Promise!Next
    <3>1. ASSUME NEW j \in JobIds, NEW provider \in Users \cup {NoOne},
                 NEW gym \in GymKeys, NEW value \in Deposits,
                 DepositJob(u, j, provider, gym, value)
          PROVE  Promise!Next
      BY <1>2, <3>1, DepositLocks DEF Promise!Next
    <3>2. ASSUME NEW j \in JobIds, CompleteJob(u, j) \/ RefundJob(u, j)
          PROVE  Promise!Next
      BY <1>2, <3>2, SettlementReleases, Addresses DEF Promise!Next
    <3>3. QED
      BY <2>1, <3>1, <3>2 DEF EscrowUserStep
  <2>2. CASE \/ EscrowOwnerStep
             \/ MarketNext /\ UNCHANGED <<jobs, escrowConfig>>
             \/ UNCHANGED escrowVars
    <3>1. jobs' = jobs /\ balance'[Escrow] = balance[Escrow]
      BY <1>2, <2>2, OtherStepInv
    <3>2. QED
      BY <3>1 DEF Outcomes, DepositsMade, JobExists
  <2>3. QED
    BY <1>2, <2>1, <2>2 DEF EscrowNext
<1>3. QED
  BY <1>1, <1>2, EscrowInvariant, PTL DEF EscrowSpec, EscrowDeployed, ImplementsPromise, Promise!Spec
=============================================================================
