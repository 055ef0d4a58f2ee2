------------------------ MODULE ZKSettlementVerifier ------------------------
(***************************************************************************)
(* contracts/contracts/ZKSettlementVerifier.sol composed with              *)
(* TrainingEscrow: a Groth16 proof that a user and a provider signed a     *)
(* request releases the deposit of the job whose id is one of the proof's  *)
(* public signals, once the owner has made the verifier the escrow's       *)
(* oracle.  A job id is a number of 256 bits, chosen by whoever deposits;  *)
(* a public signal is an element of the proof system's scalar field.       *)
(***************************************************************************)
EXTENDS TrainingEscrow

CONSTANTS
  Verifier,     \* address of this contract
  OtherEscrow,  \* an escrow deployed elsewhere, external to the model
  VerifyingKeys,\* the Groth16 keys updateVK may install
  Placeholder,  \* the all-zero key of the deployment
  Indexes,      \* the signal indexes updateVK may install
  FieldOrder,   \* q, the order of the scalar field
  NonceLimit,   \* 2^64: the circuit's nonce has 8 bytes
  Address,      \* Address[u]: the number an address is
  Requests,     \* the requests a user and a provider may sign
  Other         \* Other[r]: the total fee and the halves of both signers' keys

Request == [user : Users, provider : Users, nonce : 0..(NonceLimit - 1)]

(* The public signals in the circuit's order: userAddress,                 *)
(* providerAddress, initNonce, finalNonce, and the rest.                   *)
NonceSlots == {2, 3}
OtherSlots == 4..8
SignalSlots == {0, 1} \cup NonceSlots \cup OtherSlots

Field == 0..(FieldOrder - 1)

ASSUME VerifierAssumption ==
  /\ Verifier \in Contracts \ {Market, Escrow}
  /\ OtherEscrow \notin Contracts
  /\ Placeholder \notin VerifyingKeys
  /\ Indexes \subseteq Nat
  /\ JobIds \subseteq Nat
  /\ FieldOrder \in Nat \ {0} /\ NonceLimit \in 0..FieldOrder
  /\ Address \in [Users -> Field]
  /\ Requests \subseteq Request
  /\ Other \in [Requests -> [OtherSlots -> Field]]

VARIABLES
  settled,          \* settled[jobId]
  verifierEscrow,   \* escrow
  vk,               \* vk and vkGammaABC
  jobIdSignalIndex,
  signed            \* the requests user and provider have both signed

verifierConfig == <<verifierEscrow, vk, jobIdSignalIndex>>
verifierVars == <<escrowVars, settled, verifierConfig, signed>>

VerifierInit ==
  /\ settled = [j \in JobIds |-> FALSE]
  /\ verifierEscrow = Escrow
  /\ vk = Placeholder
  /\ jobIdSignalIndex = 0
  /\ signed = {}

(* User and provider sign a request and its response, off the chain (the   *)
(* circuit checks both signatures).                                        *)
Sign(r) ==
  /\ signed' = signed \cup {r}
  /\ UNCHANGED <<escrowVars, settled, verifierConfig>>

(* The proofs the proving server makes, each under the key of a compiled   *)
(* circuit and for one request that both parties signed.                   *)
Proofs == [key : VerifyingKeys, request : signed]

(* The public signals.  One request is the first and the last of its       *)
(* trace.                                                                  *)
SignalOf(r, i) ==
  CASE i = 0 -> Address[r.user]
    [] i = 1 -> Address[r.provider]
    [] i \in NonceSlots -> r.nonce
    [] i \in OtherSlots -> Other[r][i]

Signal(proof, i) == SignalOf(proof.request, i)

(* The pairing check: a proof of the server passes under its own key only. *)
(* BatchVerifier reduces the numbers it is given modulo q, so that the     *)
(* caller may write a signal as any number congruent to it.                *)
BatchVerify(proof) == proof.key = vk
Denotes(number, signal) == number % FieldOrder = signal

(* Mutant of SettleWithProof: the proof is not tied to the job.            *)
SettleWithAnySignal(j, proof) ==
  /\ ~settled[j]
  /\ BatchVerify(proof)
  /\ settled' = [settled EXCEPT ![j] = TRUE]
  /\ verifierEscrow = Escrow
  /\ CompleteJob(Verifier, j)
  /\ UNCHANGED <<verifierConfig, signed>>

(* Mutant of SettleWithProof: a refused completeJob is ignored.            *)
SettleDespiteRevert(j, proof) ==
  /\ ~settled[j]
  /\ jobIdSignalIndex \in SignalSlots
  /\ Denotes(j, Signal(proof, jobIdSignalIndex))
  /\ BatchVerify(proof)
  /\ settled' = [settled EXCEPT ![j] = TRUE]
  /\ \/ CompleteJob(Verifier, j)
     \/ oracle # Verifier /\ UNCHANGED escrowVars
  /\ UNCHANGED <<verifierConfig, signed>>

(* settleWithProof called by anyone, with j at the index of the job id; a  *)
(* completeJob that reverts takes the settled flag back with it.           *)
SettleWithProof(j, proof) ==
  /\ ~settled[j]
  /\ jobIdSignalIndex \in SignalSlots
  /\ Denotes(j, Signal(proof, jobIdSignalIndex))
  /\ BatchVerify(proof)
  /\ settled' = [settled EXCEPT ![j] = TRUE]
  /\ \/ /\ verifierEscrow = Escrow
        /\ CompleteJob(Verifier, j)
     \/ /\ verifierEscrow = OtherEscrow
        /\ UNCHANGED escrowVars
  /\ UNCHANGED <<verifierConfig, signed>>

UpdateEscrow(a) ==
  /\ verifierEscrow' = a
  /\ UNCHANGED <<escrowVars, settled, vk, jobIdSignalIndex, signed>>

(* Mutant of UpdateVK: the signal index counts from one.                   *)
UpdateVKOneBased(key, index) ==
  /\ vk' = key
  /\ jobIdSignalIndex' = index + 1
  /\ UNCHANGED <<escrowVars, settled, verifierEscrow, signed>>

UpdateVK(key, index) ==
  /\ vk' = key
  /\ jobIdSignalIndex' = index
  /\ UNCHANGED <<escrowVars, settled, verifierEscrow, signed>>

-----------------------------------------------------------------------------
VerifierUserStep ==
  \/ \E r \in Requests : Sign(r)
  \/ \E j \in JobIds, proof \in Proofs : SettleWithProof(j, proof)

VerifierOwnerStep ==
  \/ \E a \in {Escrow, OtherEscrow} : UpdateEscrow(a)
  \/ \E key \in VerifyingKeys, index \in Indexes : UpdateVK(key, index)

Next ==
  \/ VerifierUserStep
  \/ VerifierOwnerStep
  \/ EscrowNext /\ UNCHANGED <<settled, verifierConfig, signed>>

Init == EscrowDeployed /\ VerifierInit

Spec == Init /\ [][Next]_verifierVars

-----------------------------------------------------------------------------
VerifierTypeOK ==
  /\ EscrowTypeOK
  /\ settled \in [JobIds -> BOOLEAN]
  /\ verifierEscrow \in {Escrow, OtherEscrow}
  /\ vk \in VerifyingKeys \cup {Placeholder}
  /\ jobIdSignalIndex \in Indexes \cup {0}
  /\ signed \subseteq Requests

(* While the verifier is the oracle, a job's deposit is released only by a *)
(* first use of its id and by a request both parties signed, whose public  *)
(* signal at the installed index is the id modulo the field.  What that    *)
(* says of the request depends on the index and on the id: at a nonce slot *)
(* an id that is a nonce is the request's own nonce; at index 0 a signed   *)
(* request of the user whose address the id is will do, whatever its       *)
(* nonce.  While a wallet is the oracle no proof releases anything.        *)
ReleaseNeedsProof ==
  [][\A j \in JobIds :
       JobPending(j) /\ jobs'[j].status = "Completed" =>
         IF oracle = Verifier
         THEN /\ ~settled[j] /\ settled'[j]
              /\ \E r \in signed :
                   /\ SignalOf(r, jobIdSignalIndex) = j % FieldOrder
                   /\ jobIdSignalIndex \in NonceSlots /\ j < NonceLimit => r.nonce = j
                   /\ jobIdSignalIndex = 0 /\ j < FieldOrder => Address[r.user] = j
         ELSE settled' = settled]_verifierVars

(* Replay protection never gets ahead of the escrow it protects: a job is  *)
(* marked settled only by the call that releases its deposit, so that a    *)
(* settlement the escrow refuses can be tried again.                       *)
SettledWithRelease ==
  [][\A j \in JobIds :
       settled'[j] /\ ~settled[j] /\ verifierEscrow = Escrow =>
         JobPending(j) /\ jobs'[j].status = "Completed"]_verifierVars

(* A job whose creator and provider signed its request, with the job's id  *)
(* as its nonce, can be settled: once the owner has installed the          *)
(* circuit's key, whenever the escrow would complete the job for the       *)
(* verifier some proof makes it do so.                                     *)
RequestOf(j) == [user |-> jobs[j].creator, provider |-> jobs[j].provider, nonce |-> j]

SignedJobSettles ==
  \A j \in JobIds :
    /\ RequestOf(j) \in signed
    /\ vk \in VerifyingKeys
    /\ verifierEscrow = Escrow
    /\ ENABLED CompleteJob(Verifier, j)
    => \E proof \in Proofs : ENABLED SettleWithProof(j, proof)

(* The oracle can return the deposit of a job that failed or was cancelled *)
(* to a creator able to receive it.                                        *)
FailedJobRefundable ==
  \A j \in JobIds :
    JobPending(j) /\ Accepts(jobs[j].creator) =>
      \E u \in Users : ENABLED RefundJob(u, j)
=============================================================================
