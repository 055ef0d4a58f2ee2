--------------------- MODULE ZKSettlementVerifierProofs ---------------------
(***************************************************************************)
(* With the verifier as oracle a deposit is released once, by a request    *)
(* both parties signed whose signals name the job, for any jobs, keys,     *)
(* signal indexes, requests and field.                                     *)
(***************************************************************************)
EXTENDS ZKSettlementVerifier, TrainingEscrowProofs

(* A settlement needs the job's type for its status to mean anything.      *)
VerifierInv == EscrowInv /\ VerifierTypeOK

(* The verifier is no user: what users do is never done as the verifier.   *)
LEMMA VerifierAddress == Verifier \in Accounts /\ Verifier \notin Users
BY VerifierAssumption, ChainAssumption DEF Accounts

(* What the installed signal index lets a signed request say of job j.     *)
NamedBySigned(j) ==
  \E r \in signed :
    /\ SignalOf(r, jobIdSignalIndex) = j % FieldOrder
    /\ jobIdSignalIndex \in NonceSlots /\ j < NonceLimit => r.nonce = j
    /\ jobIdSignalIndex = 0 /\ j < FieldOrder => Address[r.user] = j

(* A number below the field's order is its own residue.                    *)
LEMMA OwnResidue ==
  ASSUME NEW n \in Nat, n < FieldOrder
  PROVE  n % FieldOrder = n
BY VerifierAssumption

(* The signals of a request at the index of its user and of its nonce.     *)
LEMMA SignalSlotValues ==
  ASSUME NEW r
  PROVE  /\ SignalOf(r, 0) = Address[r.user]
         /\ SignalOf(r, 2) = r.nonce
         /\ SignalOf(r, 3) = r.nonce
BY DEF SignalOf, NonceSlots, OtherSlots

(* A proof of the proving server one of whose public signals denotes a job *)
(* is a proof of a signed request, and names the job as far as the number  *)
(* modulo the field's order does.                                          *)
LEMMA ProofNamesJob ==
  ASSUME NEW proof \in Proofs, NEW j \in JobIds,
         Denotes(j, Signal(proof, jobIdSignalIndex))
  PROVE  NamedBySigned(j)
<1> DEFINE r == proof.request
<1>1. r \in signed /\ SignalOf(r, jobIdSignalIndex) = j % FieldOrder
  BY DEF Denotes, Signal, Proofs
<1>2. j \in Nat /\ NonceLimit \in Nat /\ NonceLimit <= FieldOrder /\ FieldOrder \in Nat
  BY VerifierAssumption
<1>3. jobIdSignalIndex \in NonceSlots /\ j < NonceLimit => r.nonce = j
  <2>1. SUFFICES ASSUME jobIdSignalIndex \in NonceSlots, j < NonceLimit
                 PROVE  r.nonce = j
    OBVIOUS
  <2>2. SignalOf(r, jobIdSignalIndex) = r.nonce
    BY <2>1, SignalSlotValues DEF NonceSlots
  <2>3. j < FieldOrder
    BY <1>2, <2>1
  <2>4. QED
    BY <1>1, <1>2, <2>2, <2>3, OwnResidue
<1>4. jobIdSignalIndex = 0 /\ j < FieldOrder => Address[r.user] = j
  BY <1>1, <1>2, OwnResidue, SignalSlotValues
<1>5. QED
  BY <1>1, <1>3, <1>4 DEF NamedBySigned

(* A settlement is by a signed request naming an unused job, and has the   *)
(* escrow complete that job or, pointed at another escrow, leaves this one *)
(* as it was.                                                              *)
LEMMA SettlementShape ==
  ASSUME EscrowInv, VerifierTypeOK, NEW j \in JobIds, NEW proof \in Proofs,
         SettleWithProof(j, proof)
  PROVE  /\ NamedBySigned(j) /\ ~settled[j]
         /\ settled' = [settled EXCEPT ![j] = TRUE]
         /\ UNCHANGED <<verifierConfig, signed>>
         /\ \/ verifierEscrow = Escrow /\ oracle = Verifier /\ CompleteJob(Verifier, j)
            \/ verifierEscrow = OtherEscrow /\ UNCHANGED escrowVars
         /\ EscrowInv'
<1>1. NamedBySigned(j)
  BY ProofNamesJob DEF SettleWithProof
<1>2. CompleteJob(Verifier, j) => EscrowInv'
  BY CompleteInv, VerifierAddress
<1>3. UNCHANGED escrowVars => EscrowInv'
  BY OtherStepInv
<1>4. CompleteJob(Verifier, j) => oracle = Verifier
  BY DEF CompleteJob
<1>5. QED
  BY <1>1, <1>2, <1>3, <1>4 DEF SettleWithProof

(* What each step of the verifier's own keeps.                             *)
LEMMA VerifierStepInv ==
  ASSUME VerifierInv, [Next]_verifierVars
  PROVE  VerifierInv'
<1> DEFINE Types == /\ settled \in [JobIds -> BOOLEAN]
                    /\ verifierEscrow \in {Escrow, OtherEscrow}
                    /\ vk \in VerifyingKeys \cup {Placeholder}
                    /\ jobIdSignalIndex \in Indexes \cup {0}
                    /\ signed \subseteq Requests
<1> SUFFICES EscrowInv' /\ Types'
  BY DEF VerifierInv, VerifierTypeOK, EscrowInv
<1>1. EscrowInv /\ VerifierTypeOK /\ Types
  BY DEF VerifierInv, VerifierTypeOK
<1>2. ASSUME NEW j \in JobIds, NEW proof \in Proofs, SettleWithProof(j, proof)
      PROVE  EscrowInv' /\ Types'
  BY <1>1, <1>2, SettlementShape DEF verifierConfig
<1>3. ASSUME NEW r \in Requests, Sign(r)
      PROVE  EscrowInv' /\ Types'
  BY <1>1, <1>3, OtherStepInv DEF Sign, verifierConfig
<1>4. CASE VerifierOwnerStep
  BY <1>1, <1>4, OtherStepInv DEF VerifierOwnerStep, UpdateEscrow, UpdateVK
<1>5. CASE [EscrowNext]_escrowVars /\ UNCHANGED <<settled, verifierConfig, signed>>
  <2>1. EscrowInv'
    BY <1>1, <1>5, EscrowUserStepInv, OtherStepInv DEF EscrowNext
  <2>2. QED
    BY <1>1, <1>5, <2>1 DEF verifierConfig
<1>6. QED
  BY <1>2, <1>3, <1>4, <1>5 DEF Next, VerifierUserStep, verifierVars

(* The verifier and the contracts it is composed with keep VerifierInv.    *)
LEMMA VerifierInvariant == Spec => []VerifierInv
<1>1. ASSUME ChainInit, \E treasury \in Appointees : MarketInit(treasury, Escrow),
             EscrowInit, VerifierInit
      PROVE  VerifierInv
  <2>1. EscrowInv
    BY <1>1, EscrowInitInv
  <2>2. QED
    BY <1>1, <2>1, VerifierAssumption
    DEF VerifierInit, VerifierInv, VerifierTypeOK, EscrowInv
<1>2. QED
  BY <1>1, VerifierStepInv, PTL DEF Spec, Init, EscrowDeployed

(* The verifier and what it is composed with keep their declared types.    *)
THEOREM VerifierTyped == Spec => []VerifierTypeOK
<1>1. VerifierInv => VerifierTypeOK
  BY DEF VerifierInv
<1>2. QED
  BY <1>1, VerifierInvariant, PTL

(* Settled by proof, the escrow still holds exactly the deposits of the    *)
(* pending jobs: no proof releases more than the deposit of its job.       *)
THEOREM SettlementKeepsSolvent == Spec => []EscrowSolvent
<1>1. VerifierInv => EscrowSolvent
  BY DEF VerifierInv, EscrowInv
<1>2. QED
  BY <1>1, VerifierInvariant, PTL

(* Every completion of a job, by whom and over which proof.                *)
LEMMA CompletionCases ==
  ASSUME VerifierInv, [Next]_verifierVars, NEW j \in JobIds,
         JobPending(j), jobs'[j].status = "Completed"
  PROVE  \/ oracle = Verifier /\ NamedBySigned(j) /\ ~settled[j] /\ settled'[j]
         \/ oracle # Verifier /\ settled' = settled
<1>1. /\ EscrowInv /\ VerifierTypeOK
      /\ jobs \in [JobIds -> Job] /\ settled \in [JobIds -> BOOLEAN]
      /\ jobs[j].status = "Pending"
  BY DEF VerifierInv, VerifierTypeOK, EscrowTypeOK, JobPending
<1>2. ASSUME NEW i \in JobIds, NEW proof \in Proofs, SettleWithProof(i, proof)
      PROVE  oracle = Verifier /\ NamedBySigned(j) /\ ~settled[j] /\ settled'[j]
  <2>1. CompleteJob(Verifier, i) \/ UNCHANGED escrowVars
    BY <1>1, <1>2, SettlementShape
  <2>2. CompleteJob(Verifier, i)
    BY <1>1, <2>1 DEF escrowVars
  <2>3. i = j /\ oracle = Verifier
    BY <1>1, <2>2 DEF CompleteJob, Job
  <2>4. QED
    BY <1>1, <1>2, <2>3, SettlementShape
<1>3. CASE [EscrowNext]_escrowVars /\ UNCHANGED <<settled, verifierConfig, signed>>
  <2>1. PICK u \in Users : CompleteJob(u, j)
    BY <1>1, <1>3, OnlyCompleteJobCompletes
  <2>2. QED
    BY <1>3, <2>1, VerifierAddress DEF CompleteJob
<1>4. ASSUME \/ \E r \in Requests : Sign(r)
             \/ VerifierOwnerStep
      PROVE  FALSE
  BY <1>1, <1>4 DEF Sign, VerifierOwnerStep, UpdateEscrow, UpdateVK, escrowVars
<1>5. QED
  BY <1>2, <1>3, <1>4 DEF Next, VerifierUserStep, verifierVars

(* With the verifier as oracle only a signed request that names the job,   *)
(* and only once, releases its deposit; with a wallet no proof does.       *)
THEOREM ProofReleases == Spec => ReleaseNeedsProof
<1>1. ASSUME VerifierInv, [Next]_verifierVars
      PROVE  [\A j \in JobIds :
                JobPending(j) /\ jobs'[j].status = "Completed" =>
                  IF oracle = Verifier
                  THEN ~settled[j] /\ settled'[j] /\ NamedBySigned(j)
                  ELSE settled' = settled]_verifierVars
  BY <1>1, CompletionCases
<1>2. [\A j \in JobIds :
         JobPending(j) /\ jobs'[j].status = "Completed" =>
           IF oracle = Verifier
           THEN ~settled[j] /\ settled'[j] /\ NamedBySigned(j)
           ELSE settled' = settled]_verifierVars
      => [\A j \in JobIds :
            JobPending(j) /\ jobs'[j].status = "Completed" =>
              IF oracle = Verifier
              THEN /\ ~settled[j] /\ settled'[j]
                   /\ \E r \in signed :
                        /\ SignalOf(r, jobIdSignalIndex) = j % FieldOrder
                        /\ jobIdSignalIndex \in NonceSlots /\ j < NonceLimit => r.nonce = j
                        /\ jobIdSignalIndex = 0 /\ j < FieldOrder => Address[r.user] = j
              ELSE settled' = settled]_verifierVars
  BY Zenon DEF NamedBySigned
<1>3. QED
  BY <1>1, <1>2, VerifierInvariant, PTL DEF Spec, ReleaseNeedsProof

(* The replay guard is set only by the step that releases the deposit.     *)
THEOREM GuardNeverAhead == Spec => SettledWithRelease
<1>1. ASSUME VerifierInv, [Next]_verifierVars, NEW j \in JobIds,
             settled'[j], ~settled[j], verifierEscrow = Escrow
      PROVE  JobPending(j) /\ jobs'[j].status = "Completed"
  <2>1. /\ EscrowInv /\ VerifierTypeOK
        /\ jobs \in [JobIds -> Job] /\ settled \in [JobIds -> BOOLEAN]
    BY <1>1 DEF VerifierInv, VerifierTypeOK, EscrowTypeOK
  <2>2. settled' # settled
    BY <1>1
  <2>3. PICK i \in JobIds, proof \in Proofs : SettleWithProof(i, proof)
    BY <1>1, <2>2
    DEF Next, VerifierUserStep, Sign, VerifierOwnerStep, UpdateEscrow, UpdateVK,
        verifierVars
  <2>4. i = j
    BY <1>1, <2>1, <2>3, SettlementShape
  <2>5. CompleteJob(Verifier, j)
    BY <1>1, <2>1, <2>3, <2>4, SettlementShape, VerifierAssumption, EscrowAssumption
  <2>6. QED
    BY <2>1, <2>5 DEF CompleteJob, Job
<1>2. ASSUME VerifierInv, [Next]_verifierVars
      PROVE  [\A j \in JobIds :
                settled'[j] /\ ~settled[j] /\ verifierEscrow = Escrow =>
                  JobPending(j) /\ jobs'[j].status = "Completed"]_verifierVars
  BY <1>1, <1>2
<1>3. QED
  BY <1>2, VerifierInvariant, PTL DEF Spec, SettledWithRelease
=============================================================================
