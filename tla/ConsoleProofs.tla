---------------------------- MODULE ConsoleProofs ----------------------------
(***************************************************************************)
(* What a job that the arenas page has posted agrees with, for any number  *)
(* of jobs, edits, refusals and accounts: an invariant of the wizard ties  *)
(* the estimate to the draft, one of each job ties the deposit and the     *)
(* signature to the job.                                                   *)
(***************************************************************************)
EXTENDS Console, TLAPS, SequenceTheorems, FiniteSetTheorems

Draft == [named : BOOLEAN, gym : GymHashes \cup {NoGymHash}, episodes : Episodes]
Stage == {"address", "deposit", "key", "signature", "post", "over"}
Requested == [number : Nat, episodes : Episodes]
Escrowed == [task : Nat, payer : Accounts, provider : Providers,
             gym : GymHashes \cup {NoGymHash}, amount : Nat]
SignedJob == [task : Nat, user : Accounts, provider : Providers,
              gym : GymHashes \cup {NoGymHash}, fee : Nat]
Job == [at : Stage, draft : Draft, amount : Nat, asked : Nat, answered : Requested,
        submitter : Accounts, switched : BOOLEAN, provider : Providers,
        receipt : Escrowed \cup {NoReceipt}, signature : SignedJob \cup {NoSignature}]
Bodies == [submitter : Accounts, gym : GymHashes \cup {NoGymHash}, episodes : Episodes,
           receipt : Escrowed \cup {NoReceipt}, signature : SignedJob \cup {NoSignature}]
Receipts == [sent : Nat, body : Bodies]
Wizards == [open : BOOLEAN, step : 1..4, draft : Draft, estimate : Nat, asked : Nat,
            answered : Requested, submitting : BOOLEAN]

ArenasTypes ==
  /\ account \in Accounts /\ wizard \in Wizards
  /\ estimates \subseteq Requested
  /\ jobs \in Seq(Job) /\ deposits \subseteq Escrowed
  /\ posted \in Seq(Receipts)

(* On the fourth step the answer to the last request, and that request, are *)
(* about the draft that is shown; no request has a number yet to be given;  *)
(* the estimate is that of the answer that came last.                       *)
Estimated(r) == IF r.number = 0 THEN 0 ELSE Costs[r.episodes]

EstimateFollowsDraft ==
  /\ \A r \in estimates : /\ r.number > 0 /\ r.number <= wizard.asked
                          /\ wizard.step = 4 /\ r.number = wizard.asked
                               => r.episodes = wizard.draft.episodes
  /\ wizard.answered.number <= wizard.asked
  /\ wizard.estimate = Estimated(wizard.answered)
  /\ wizard.step = 4 =>
       /\ wizard.asked > 0
       /\ wizard.answered.number = wizard.asked
            => wizard.answered.episodes = wizard.draft.episodes

(* The receipt a job has is of its own deposit; what was signed is the job  *)
(* as it is; neither is there while the provider may still change.          *)
Consistent(n, job) ==
  /\ job.switched \/ job.submitter = account
  /\ job.receipt # NoReceipt =>
       /\ job.receipt \in deposits /\ job.receipt.task = n
       /\ job.receipt.amount = job.amount /\ job.amount > 0
       /\ job.receipt.provider = job.provider /\ job.receipt.gym = job.draft.gym
       /\ job.switched \/ job.receipt.payer = job.submitter
  /\ job.signature \in {NoSignature,
       [task |-> n, user |-> job.submitter, provider |-> job.provider,
        gym |-> job.draft.gym, fee |-> job.amount]}
  /\ job.at = "address" => job.receipt = NoReceipt /\ job.signature = NoSignature
  /\ job.answered.number <= job.asked /\ job.amount = Estimated(job.answered)
  /\ job.answered.number = job.asked => job.answered.episodes = job.draft.episodes

JobsConsistent == \A n \in DOMAIN jobs : Consistent(n, jobs[n])

(* What was posted is a job that is over, as it is, and no job twice.       *)
PostedAreOver ==
  /\ \A i \in DOMAIN posted :
       /\ posted[i].sent \in DOMAIN jobs /\ jobs[posted[i].sent].at = "over"
       /\ posted[i].body = Body(jobs[posted[i].sent])
  /\ \A i, k \in DOMAIN posted : posted[i].sent = posted[k].sent => i = k

ArenasInv == ArenasTypes /\ EstimateFollowsDraft /\ JobsConsistent /\ PostedAreOver

----------------------------------------------------------------------------
(* A step of handleSubmit changes one job.                                 *)
LEMMA OneJobMoves ==
  ASSUME jobs \in Seq(Job), NEW n \in DOMAIN jobs, NEW j \in Job,
         jobs' = [jobs EXCEPT ![n] = j]
  PROVE  /\ jobs' \in Seq(Job) /\ DOMAIN jobs' = DOMAIN jobs
         /\ \A i \in DOMAIN jobs : jobs'[i] = IF i = n THEN j ELSE jobs[i]
<1>1. DOMAIN jobs = 1..Len(jobs) /\ n \in 1..Len(jobs)
  BY LenProperties
<1>2. /\ jobs' \in Seq(Job) /\ Len(jobs') = Len(jobs)
      /\ \A i \in 1..Len(jobs) : jobs'[i] = IF i = n THEN j ELSE jobs[i]
  BY <1>1, ExceptSeq, Zenon
<1>3. DOMAIN jobs' = 1..Len(jobs')
  BY <1>2, LenProperties
<1>4. QED
  BY <1>1, <1>2, <1>3

LEMMA MoveKeepsPosted ==
  ASSUME ArenasInv, NEW n \in DOMAIN jobs, NEW j \in Job,
         jobs' = [jobs EXCEPT ![n] = j], jobs[n].at # "over", posted' = posted
  PROVE  PostedAreOver'
<1>1. /\ DOMAIN jobs' = DOMAIN jobs
      /\ \A i \in DOMAIN jobs : jobs'[i] = IF i = n THEN j ELSE jobs[i]
  BY OneJobMoves DEF ArenasInv, ArenasTypes
<1>2. ASSUME NEW i \in DOMAIN posted
      PROVE  /\ posted[i].sent \in DOMAIN jobs /\ jobs'[posted[i].sent].at = "over"
             /\ posted[i].body = Body(jobs'[posted[i].sent])
  <2>1. /\ posted[i].sent \in DOMAIN jobs /\ jobs[posted[i].sent].at = "over"
        /\ posted[i].body = Body(jobs[posted[i].sent])
    BY <1>2 DEF ArenasInv, PostedAreOver
  <2>2. jobs'[posted[i].sent] = jobs[posted[i].sent]
    BY <1>1, <2>1
  <2>3. QED
    BY <2>1, <2>2
<1>3. QED
  BY <1>1, <1>2 DEF ArenasInv, PostedAreOver

(* The other jobs stay consistent when deposits are only added.            *)
LEMMA MoveKeepsInv ==
  ASSUME ArenasInv, NEW n \in DOMAIN jobs, NEW j \in Job,
         jobs' = [jobs EXCEPT ![n] = j], UNCHANGED <<account, wizard, estimates, posted>>,
         deposits \subseteq deposits', deposits' \subseteq Escrowed,
         jobs[n].at # "over", Consistent(n, j)'
  PROVE  ArenasInv'
<1>1. /\ jobs' \in Seq(Job) /\ DOMAIN jobs' = DOMAIN jobs
      /\ \A i \in DOMAIN jobs : jobs'[i] = IF i = n THEN j ELSE jobs[i]
  BY OneJobMoves DEF ArenasInv, ArenasTypes
<1>2. ArenasTypes'
  BY <1>1 DEF ArenasInv, ArenasTypes
<1>3. EstimateFollowsDraft'
  BY DEF ArenasInv, EstimateFollowsDraft
<1>4. JobsConsistent'
  <2>1. SUFFICES ASSUME NEW i \in DOMAIN jobs PROVE Consistent(i, jobs[i])' 
    BY <1>1 DEF JobsConsistent
  <2>2. CASE i = n
    BY <1>1, <2>2 DEF Consistent
  <2>3. CASE i # n
    BY <1>1, <2>3 DEF Consistent, ArenasInv, JobsConsistent
  <2>4. QED
    BY <2>2, <2>3
<1>5. PostedAreOver'
  BY MoveKeepsPosted
<1>6. QED
  BY <1>2, <1>3, <1>4, <1>5 DEF ArenasInv

----------------------------------------------------------------------------
(* A wizard that is not shown is as a new one is, but for that.            *)
LEMMA ClosedIsNew ==
  /\ Closed \in Wizards /\ Closed.step = 1 /\ Closed.asked = 0
  /\ Closed.answered = NoRequest /\ Closed.estimate = 0
  /\ NewWizard \in Wizards /\ NoRequest \in Requested /\ NoRequest.number = 0
<1>0. NoRequest \in Requested /\ NoRequest.number = 0
  BY ArenasAssumption DEF NoRequest, Requested
<1>1. /\ NewWizard \in Wizards /\ NewWizard.step = 1 /\ NewWizard.asked = 0
      /\ NewWizard.answered = NoRequest /\ NewWizard.estimate = 0
  BY <1>0, ArenasAssumption DEF NewWizard, DraftDefaults, Wizards, Draft
<1>2. ASSUME NEW w \in Wizards
      PROVE  LET c == [w EXCEPT !.open = FALSE]
             IN /\ c \in Wizards /\ c.step = w.step /\ c.asked = w.asked
                /\ c.answered = w.answered /\ c.estimate = w.estimate
  BY DEF Wizards
<1>3. QED
  BY <1>0, <1>1, <1>2 DEF Closed

LEMMA ArenasStart == ArenasInit => ArenasInv
<1>1. SUFFICES ASSUME ArenasInit PROVE ArenasInv
  OBVIOUS
<1>2. account \in Accounts
  BY <1>1, ArenasAssumption DEF ArenasInit
<1>3. wizard \in Wizards
  BY <1>1, ClosedIsNew DEF ArenasInit
<1>4. jobs \in Seq(Job) /\ DOMAIN jobs = {}
  BY <1>1, EmptySeq DEF ArenasInit
<1>5. ArenasTypes
  BY <1>1, <1>2, <1>3, <1>4, EmptySeq DEF ArenasInit, ArenasTypes
<1>6. EstimateFollowsDraft
  BY <1>1, ClosedIsNew DEF ArenasInit, EstimateFollowsDraft, Estimated
<1>7. JobsConsistent /\ PostedAreOver
  BY <1>1, <1>4 DEF ArenasInit, JobsConsistent, PostedAreOver
<1>8. QED
  BY <1>5, <1>6, <1>7 DEF ArenasInv

(* The wizard's own steps leave the jobs alone.                            *)
LEMMA WizardStepsKeepJobs ==
  ASSUME ArenasInv, UNCHANGED <<account, jobs, deposits, posted>>
  PROVE  JobsConsistent' /\ PostedAreOver'
BY DEF ArenasInv, JobsConsistent, Consistent, PostedAreOver

LEMMA WizardMoves ==
  ASSUME ArenasInv, UNCHANGED <<account, jobs, deposits, posted>>, wizard' \in Wizards,
         estimates' \subseteq Requested, EstimateFollowsDraft'
  PROVE  ArenasInv'
BY WizardStepsKeepJobs DEF ArenasInv, ArenasTypes

LEMMA OpenWizardInv == ArenasInv /\ OpenWizard => ArenasInv'
<1>1. SUFFICES ASSUME ArenasInv, OpenWizard PROVE ArenasInv'
  OBVIOUS
<1>2. wizard' \in Wizards
  BY <1>1, ClosedIsNew DEF OpenWizard
<1>3. EstimateFollowsDraft'
  BY <1>1, ClosedIsNew DEF OpenWizard, EstimateFollowsDraft, NewWizard, Estimated
<1>4. QED
  BY <1>1, <1>2, <1>3, WizardMoves DEF OpenWizard, Same

LEMMA CloseWizardInv == ArenasInv /\ CloseWizard => ArenasInv'
<1>1. SUFFICES ASSUME ArenasInv, CloseWizard PROVE ArenasInv'
  OBVIOUS
<1>2. wizard' \in Wizards
  BY <1>1, ClosedIsNew DEF CloseWizard
<1>3. EstimateFollowsDraft'
  BY <1>1, ClosedIsNew DEF CloseWizard, EstimateFollowsDraft, Estimated
<1>4. QED
  BY <1>1, <1>2, <1>3, WizardMoves DEF CloseWizard, Same

(* The draft is edited before the fourth step only.                        *)
LEMMA SetFieldInv == ArenasInv /\ SetField => ArenasInv'
<1>1. SUFFICES ASSUME ArenasInv, SetField PROVE ArenasInv'
  OBVIOUS
<1>2. wizard \in Wizards
  BY <1>1 DEF ArenasInv, ArenasTypes
<1>3. /\ wizard' \in Wizards /\ wizard.step # 4 /\ wizard'.step = wizard.step
      /\ wizard'.asked = wizard.asked /\ wizard'.answered = wizard.answered
      /\ wizard'.estimate = wizard.estimate
  <2>0. ASSUME NEW d \in Draft, wizard' = [wizard EXCEPT !.draft = d], wizard.step # 4
        PROVE  <1>3!:
    BY <1>2, <2>0 DEF Wizards
  <2>1. wizard.draft \in Draft
    BY <1>2 DEF Wizards
  <2>2. PICK d \in Draft : wizard' = [wizard EXCEPT !.draft = d]
    <3>1. /\ [wizard.draft EXCEPT !.named = TRUE] \in Draft
          /\ \A g \in GymHashes : [wizard.draft EXCEPT !.gym = g] \in Draft
          /\ \A e \in Episodes : [wizard.draft EXCEPT !.episodes = e] \in Draft
      BY <2>1 DEF Draft
    <3>2. QED
      BY <1>1, <3>1, Zenon DEF SetField, SetName, SetGym, SetEpisodes
  <2>3. wizard.step # 4
    BY <1>1 DEF SetField, SetName, SetGym, SetEpisodes
  <2>4. QED
    BY <2>0, <2>2, <2>3
<1>4. EstimateFollowsDraft'
  BY <1>1, <1>3 DEF SetField, EstimateFollowsDraft, ArenasInv
<1>5. QED
  BY <1>1, <1>3, <1>4, WizardMoves DEF SetField, Same, ArenasInv, ArenasTypes

(* The request that goes out has a number no other request has.            *)
LEMMA NextStepInv == ArenasInv /\ NextStep => ArenasInv'
<1>1. SUFFICES ASSUME ArenasInv, NextStep PROVE ArenasInv'
  OBVIOUS
<1>2. wizard \in Wizards
  BY <1>1 DEF ArenasInv, ArenasTypes
<1>3. CASE wizard.step = 3
  <2>1. Cardinality(Ask(wizard)) = 1
    BY FS_Singleton DEF Ask
  <2>2. /\ wizard' = [wizard EXCEPT !.step = 4, !.asked = @ + 1]
        /\ estimates' = estimates \cup {Request(wizard)}
    BY <1>1, <1>3, <2>1 DEF NextStep, Ask
  <2>3. wizard' \in Wizards
    <3>1. PICK w \in Wizards : /\ wizard' = [w EXCEPT !.asked = wizard.asked + 1]
                              /\ w = [wizard EXCEPT !.step = 4]
      <4>1. [wizard EXCEPT !.step = 4] \in Wizards
        BY <1>2 DEF Wizards
      <4>2. QED
        BY <2>2, <4>1, Zenon
    <3>2. wizard.asked + 1 \in Nat
      BY <1>2 DEF Wizards
    <3>3. QED
      BY <3>1, <3>2 DEF Wizards
  <2>4. Request(wizard) \in Requested
    BY <1>2 DEF Request, Requested, Wizards, Draft
  <2>5. EstimateFollowsDraft'
    <3>1. /\ wizard'.step = 4 /\ wizard'.asked = wizard.asked + 1
          /\ wizard'.draft = wizard.draft /\ wizard'.answered = wizard.answered
          /\ wizard'.estimate = wizard.estimate
          /\ wizard.asked \in Nat /\ wizard.answered.number \in Nat
      BY <1>2, <2>2 DEF Wizards, Requested
    <3>2. \A r \in estimates : r.number \in Nat /\ r.number > 0 /\ r.number <= wizard.asked
      BY <1>1 DEF ArenasInv, ArenasTypes, EstimateFollowsDraft, Requested
    <3>3. \A r \in estimates' : /\ r.number > 0 /\ r.number <= wizard'.asked
                                /\ r.number = wizard'.asked => r.episodes = wizard'.draft.episodes
      BY <2>2, <3>1, <3>2 DEF Request
    <3>4. /\ wizard.answered.number <= wizard.asked
          /\ wizard.estimate = Estimated(wizard.answered)
      BY <1>1 DEF ArenasInv, EstimateFollowsDraft
    <3>5. QED
      BY <3>1, <3>3, <3>4 DEF EstimateFollowsDraft
  <2>6. QED
    BY <1>1, <2>2, <2>3, <2>4, <2>5, WizardMoves DEF NextStep, Same, ArenasInv, ArenasTypes
<1>4. CASE wizard.step # 3
  <2>1. /\ wizard' = [wizard EXCEPT !.step = @ + 1] /\ estimates' = estimates
        /\ wizard.step \in 1..2
    BY <1>1, <1>2, <1>4 DEF NextStep, Wizards
  <2>2. /\ wizard' \in Wizards /\ wizard'.step # 4 /\ wizard'.asked = wizard.asked
        /\ wizard'.answered = wizard.answered /\ wizard'.estimate = wizard.estimate
    BY <1>2, <2>1 DEF Wizards
  <2>3. EstimateFollowsDraft'
    BY <1>1, <2>1, <2>2 DEF EstimateFollowsDraft, ArenasInv
  <2>4. QED
    BY <1>1, <2>1, <2>2, <2>3, WizardMoves DEF NextStep, Same, ArenasInv, ArenasTypes
<1>5. QED
  BY <1>3, <1>4

LEMMA BackStepInv == ArenasInv /\ BackStep => ArenasInv'
<1>1. SUFFICES ASSUME ArenasInv, BackStep PROVE ArenasInv'
  OBVIOUS
<1>2. wizard \in Wizards
  BY <1>1 DEF ArenasInv, ArenasTypes
<1>3. /\ wizard' \in Wizards /\ wizard'.step # 4 /\ wizard'.asked = wizard.asked
      /\ wizard'.answered = wizard.answered /\ wizard'.estimate = wizard.estimate
  BY <1>1, <1>2 DEF BackStep, Wizards
<1>4. EstimateFollowsDraft'
  BY <1>1, <1>3 DEF BackStep, EstimateFollowsDraft, ArenasInv
<1>5. QED
  BY <1>1, <1>3, <1>4, WizardMoves DEF BackStep, Same, ArenasInv, ArenasTypes

(* An answer counts as the last one only if it answers the last request.   *)
LEMMA EstimateArrivesInv == ArenasInv /\ EstimateArrives => ArenasInv'
<1>1. SUFFICES ASSUME ArenasInv, EstimateArrives PROVE ArenasInv'
  OBVIOUS
<1>2. wizard \in Wizards /\ estimates \subseteq Requested
  BY <1>1 DEF ArenasInv, ArenasTypes
<1>3. PICK r \in estimates :
        /\ estimates' = estimates \ {r}
        /\ \/ wizard' = [wizard EXCEPT !.estimate = Costs[r.episodes], !.answered = r]
           \/ wizard' = [wizard EXCEPT !.estimate = 0, !.answered = NoRequest]
  BY <1>1 DEF EstimateArrives
<1>4. /\ r \in Requested /\ Costs[r.episodes] \in Nat
      /\ r.number > 0 /\ r.number <= wizard.asked
  BY <1>1, <1>2, <1>3, ArenasAssumption DEF Requested, ArenasInv, EstimateFollowsDraft
<1>5. /\ wizard' \in Wizards /\ wizard'.step = wizard.step /\ wizard'.asked = wizard.asked
      /\ wizard'.draft = wizard.draft
      /\ \/ wizard'.estimate = Costs[r.episodes] /\ wizard'.answered = r
         \/ wizard'.estimate = 0 /\ wizard'.answered = NoRequest
  <2>1. ASSUME NEW e \in Nat, NEW a \in Requested,
               wizard' = [wizard EXCEPT !.estimate = e, !.answered = a]
        PROVE  /\ wizard' \in Wizards /\ wizard'.step = wizard.step
               /\ wizard'.asked = wizard.asked /\ wizard'.draft = wizard.draft
               /\ wizard'.estimate = e /\ wizard'.answered = a
    <3>1. PICK w \in Wizards : /\ wizard' = [w EXCEPT !.answered = a]
                              /\ w = [wizard EXCEPT !.estimate = e]
      <4>1. [wizard EXCEPT !.estimate = e] \in Wizards
        BY <1>2 DEF Wizards
      <4>2. QED
        BY <2>1, <4>1, Zenon
    <3>2. QED
      BY <1>2, <3>1 DEF Wizards
  <2>2. QED
    BY <1>3, <1>4, <2>1, ClosedIsNew
<1>6. EstimateFollowsDraft'
  <2>1. /\ wizard.asked \in Nat /\ r.number \in Nat
        /\ wizard.step = 4 => wizard.asked > 0
        /\ wizard.step = 4 /\ r.number = wizard.asked => r.episodes = wizard.draft.episodes
    BY <1>1, <1>2, <1>3, <1>4 DEF ArenasInv, EstimateFollowsDraft, Wizards, Requested
  <2>2. /\ wizard'.answered.number <= wizard'.asked
        /\ wizard'.estimate = Estimated(wizard'.answered)
    BY <1>4, <1>5, <2>1, ClosedIsNew DEF Estimated
  <2>3. wizard'.step = 4 =>
          /\ wizard'.asked > 0
          /\ wizard'.answered.number = wizard'.asked
               => wizard'.answered.episodes = wizard'.draft.episodes
    BY <1>5, <2>1, ClosedIsNew
  <2>4. \A q \in estimates' : /\ q.number > 0 /\ q.number <= wizard'.asked
                              /\ wizard'.step = 4 /\ q.number = wizard'.asked
                                   => q.episodes = wizard'.draft.episodes
    BY <1>1, <1>3, <1>5 DEF ArenasInv, EstimateFollowsDraft
  <2>5. QED
    BY <2>2, <2>3, <2>4 DEF EstimateFollowsDraft
<1>7. QED
  BY <1>1, <1>2, <1>3, <1>5, <1>6, WizardMoves DEF EstimateArrives

LEMMA SwitchAccountsInv == ArenasInv /\ SwitchAccounts => ArenasInv'
<1>1. SUFFICES ASSUME ArenasInv, SwitchAccounts PROVE ArenasInv'
  OBVIOUS
<1>2. jobs \in Seq(Job) /\ DOMAIN jobs = 1..Len(jobs) /\ Len(jobs) \in Nat
  BY <1>1, LenProperties DEF ArenasInv, ArenasTypes
<1>3. \A n \in DOMAIN jobs : jobs[n] \in Job
  BY <1>2, ElementOfSeq
<1>4. \A n \in DOMAIN jobs : [jobs[n] EXCEPT !.switched = TRUE] \in Job
  BY <1>3 DEF Job
<1>5. jobs' = [n \in 1..Len(jobs) |-> [jobs[n] EXCEPT !.switched = TRUE]]
  BY <1>1, <1>2 DEF SwitchAccounts
<1>6. jobs' \in Seq(Job) /\ DOMAIN jobs' = DOMAIN jobs
  <2>1. jobs' \in [1..Len(jobs) -> Job]
    BY <1>2, <1>4, <1>5
  <2>2. QED
    BY <1>2, <2>1, SeqDef
<1>7. ArenasTypes'
  BY <1>1, <1>6 DEF ArenasInv, ArenasTypes, SwitchAccounts
<1>8. EstimateFollowsDraft'
  BY <1>1 DEF ArenasInv, EstimateFollowsDraft, SwitchAccounts
<1>9. JobsConsistent'
  <2>1. SUFFICES ASSUME NEW n \in DOMAIN jobs PROVE Consistent(n, jobs[n])'
    BY <1>6 DEF JobsConsistent
  <2>2. Consistent(n, jobs[n]) /\ jobs[n] \in Job /\ deposits' = deposits
    BY <1>1, <1>3 DEF ArenasInv, JobsConsistent, SwitchAccounts
  <2>3. jobs'[n] = [jobs[n] EXCEPT !.switched = TRUE]
    BY <1>2, <1>5
  <2>4. QED
    BY <2>2, <2>3 DEF Consistent, Job
<1>10. PostedAreOver'
  <2>1. SUFFICES ASSUME NEW i \in DOMAIN posted
                 PROVE  /\ posted[i].sent \in DOMAIN jobs
                        /\ jobs'[posted[i].sent].at = "over"
                        /\ posted[i].body = Body(jobs'[posted[i].sent])
    BY <1>1, <1>6 DEF ArenasInv, PostedAreOver, SwitchAccounts
  <2>2. PICK n \in DOMAIN jobs :
          n = posted[i].sent /\ jobs[n].at = "over" /\ posted[i].body = Body(jobs[n])
    BY <1>1 DEF ArenasInv, PostedAreOver
  <2>3. jobs'[n] = [jobs[n] EXCEPT !.switched = TRUE] /\ jobs[n] \in Job
    BY <1>2, <1>3, <1>5
  <2>4. QED
    BY <2>2, <2>3 DEF Body, Job
<1>11. QED
  BY <1>7, <1>8, <1>9, <1>10 DEF ArenasInv

(* A new job has neither a deposit nor a signature; its amount is the       *)
(* estimate that is shown.                                                  *)
LEMMA SubmitInv == ArenasInv /\ Submit => ArenasInv'
<1>1. SUFFICES ASSUME ArenasInv, Submit PROVE ArenasInv'
  OBVIOUS
<1>2. /\ jobs \in Seq(Job) /\ DOMAIN jobs = 1..Len(jobs) /\ Len(jobs) \in Nat
      /\ wizard \in Wizards /\ account \in Accounts
  BY <1>1, LenProperties DEF ArenasInv, ArenasTypes
<1>3. PICK j \in Job :
        j = [at |-> "address", draft |-> wizard.draft, amount |-> wizard.estimate,
             asked |-> wizard.asked, answered |-> wizard.answered, submitter |-> account,
             switched |-> FALSE, provider |-> DefaultProvider,
             receipt |-> NoReceipt, signature |-> NoSignature]
  BY <1>2, ArenasAssumption DEF Wizards, Job, Stage
<1>4. jobs' = Append(jobs, j) /\ wizard.step = 4
  BY <1>1, <1>3 DEF Submit
<1>5. \A n \in DOMAIN jobs : Consistent(n, jobs'[n])
  <2>1. SUFFICES ASSUME NEW n \in DOMAIN jobs PROVE Consistent(n, jobs'[n])
    OBVIOUS
  <2>2. jobs'[n] = jobs[n]
    BY <1>2, <1>4
  <2>3. QED
    BY <1>1, <2>2 DEF ArenasInv, JobsConsistent
<1>6. \A n : Consistent(n, j)
  <2>1. /\ j.answered.number <= j.asked /\ j.amount = Estimated(j.answered)
        /\ j.answered.number = j.asked => j.answered.episodes = j.draft.episodes
    BY <1>1, <1>3, <1>4 DEF ArenasInv, EstimateFollowsDraft
  <2>2. j.submitter = account /\ j.receipt = NoReceipt /\ j.signature = NoSignature
    BY <1>3
  <2>3. QED
    BY <2>1, <2>2 DEF Consistent
<1>7. /\ jobs' \in Seq(Job) /\ DOMAIN jobs' = 1..(Len(jobs) + 1)
      /\ jobs'[Len(jobs) + 1] = j
  BY <1>2, <1>3, <1>4
<1>8. ArenasTypes'
  <2>1. wizard' \in Wizards
    BY <1>1, <1>2 DEF Submit, Wizards
  <2>2. QED
    BY <1>1, <1>2, <1>7, <2>1 DEF Submit, ArenasInv, ArenasTypes
<1>9. EstimateFollowsDraft'
  <2>1. /\ wizard'.step = wizard.step /\ wizard'.draft = wizard.draft
        /\ wizard'.estimate = wizard.estimate /\ wizard'.asked = wizard.asked
        /\ wizard'.answered = wizard.answered
    BY <1>1, <1>2 DEF Submit, Wizards
  <2>2. QED
    BY <1>1, <2>1 DEF Submit, ArenasInv, EstimateFollowsDraft
<1>10. JobsConsistent'
  <2>1. \A n \in DOMAIN jobs' : Consistent(n, jobs'[n])
    BY <1>2, <1>5, <1>6, <1>7
  <2>2. account' = account /\ deposits' = deposits
    BY <1>1 DEF Submit
  <2>3. QED
    BY <2>1, <2>2 DEF JobsConsistent, Consistent
<1>11. PostedAreOver'
  <2>1. DOMAIN jobs \subseteq DOMAIN jobs' /\ \A n \in DOMAIN jobs : jobs'[n] = jobs[n]
    BY <1>2, <1>4, <1>7
  <2>2. QED
    BY <1>1, <2>1 DEF Submit, ArenasInv, PostedAreOver
<1>12. QED
  BY <1>8, <1>9, <1>10, <1>11 DEF ArenasInv

----------------------------------------------------------------------------
(* handleSubmit, step by step                                              *)

LEMMA JobTyped ==
  ASSUME ArenasInv, NEW n \in DOMAIN jobs
  PROVE  /\ jobs[n] \in Job /\ Consistent(n, jobs[n]) /\ n \in Nat
         /\ deposits \subseteq Escrowed
<1>1. jobs \in Seq(Job) /\ DOMAIN jobs = 1..Len(jobs)
  BY LenProperties DEF ArenasInv, ArenasTypes
<1>2. QED
  BY <1>1, ElementOfSeq DEF ArenasInv, ArenasTypes, JobsConsistent

(* The provider is settled before there is anything that names it.         *)
LEMMA AddressKnownInv ==
  ASSUME ArenasInv, NEW n \in DOMAIN jobs, AddressKnown(n) PROVE ArenasInv'
<1>1. jobs[n] \in Job /\ Consistent(n, jobs[n]) /\ jobs[n].at = "address"
  BY JobTyped DEF AddressKnown
<1>2. UNCHANGED <<account, wizard, estimates, deposits, posted>>
  BY DEF AddressKnown, Page
<1>3. PICK p \in Providers : jobs' = [jobs EXCEPT ![n] = [jobs[n] EXCEPT !.at = "deposit",
                                                                      !.provider = p]]
  <2>1. jobs' = [jobs EXCEPT ![n].at = "deposit"]
          => jobs' = [jobs EXCEPT ![n] = [jobs[n] EXCEPT !.at = "deposit",
                                                        !.provider = jobs[n].provider]]
    BY <1>1 DEF Job
  <2>2. jobs[n].provider \in Providers
    BY <1>1 DEF Job
  <2>3. QED
    BY <2>1, <2>2 DEF AddressKnown
<1>4. PICK j : j = [jobs[n] EXCEPT !.at = "deposit", !.provider = p]
  OBVIOUS
<1>5. j \in Job
  BY <1>1, <1>4 DEF Job, Stage
<1>6. Consistent(n, j)'
  BY <1>1, <1>2, <1>4 DEF Consistent, Job
<1>7. jobs' = [jobs EXCEPT ![n] = j]
  BY <1>3, <1>4
<1>8. deposits \subseteq deposits' /\ deposits' \subseteq Escrowed
  BY <1>2, JobTyped
<1>9. QED
  BY <1>1, <1>2, <1>5, <1>6, <1>7, <1>8, MoveKeepsInv

(* What is deposited is the job's, and the account that pays is the         *)
(* submitter's unless it was switched.                                     *)
LEMMA DepositMadeInv ==
  ASSUME ArenasInv, NEW n \in DOMAIN jobs, DepositMade(n) PROVE ArenasInv'
<1>1. /\ jobs[n] \in Job /\ Consistent(n, jobs[n]) /\ jobs[n].at = "deposit"
      /\ n \in Nat /\ account \in Accounts
  BY JobTyped DEF DepositMade, ArenasInv, ArenasTypes
<1>2. UNCHANGED <<account, wizard, estimates, posted>>
  BY DEF DepositMade, Page
<1>3. Deposit(n) \in Escrowed
  BY <1>1 DEF Deposit, Escrowed, Job, Draft
<1>4. deposits \subseteq deposits' /\ deposits' \subseteq Escrowed
  BY <1>3, JobTyped DEF DepositMade
<1>5. CASE jobs' = [jobs EXCEPT ![n].at = "key"]
  <2>1. PICK j : j = [jobs[n] EXCEPT !.at = "key"]
    OBVIOUS
  <2>2. j \in Job
    BY <1>1, <2>1 DEF Job, Stage
  <2>3. Consistent(n, j)'
    BY <1>1, <1>2, <1>4, <2>1 DEF Consistent, Job
  <2>4. QED
    BY <1>1, <1>2, <1>4, <1>5, <2>1, <2>2, <2>3, MoveKeepsInv
<1>6. CASE /\ jobs' = [jobs EXCEPT ![n].at = "key", ![n].receipt = Deposit(n)]
           /\ deposits' = deposits \cup {Deposit(n)} /\ jobs[n].amount > 0
  <2>1. PICK j : j = [jobs[n] EXCEPT !.at = "key", !.receipt = Deposit(n)]
    OBVIOUS
  <2>2. j \in Job
    <3>1. PICK i \in Job : i = [jobs[n] EXCEPT !.at = "key"]
      BY <1>1 DEF Job, Stage
    <3>2. j = [i EXCEPT !.receipt = Deposit(n)]
      BY <2>1, <3>1
    <3>3. QED
      BY <1>3, <3>1, <3>2 DEF Job
  <2>3. jobs' = [jobs EXCEPT ![n] = j]
    BY <1>6, <2>1
  <2>4. /\ j.switched = jobs[n].switched /\ j.submitter = jobs[n].submitter
        /\ j.amount = jobs[n].amount /\ j.provider = jobs[n].provider
        /\ j.draft = jobs[n].draft /\ j.asked = jobs[n].asked
        /\ j.answered = jobs[n].answered /\ j.signature = jobs[n].signature
        /\ j.at = "key" /\ j.receipt = Deposit(n)
    BY <1>1, <2>1 DEF Job
  <2>5. Consistent(n, j)'
    <3>1. /\ j.receipt \in deposits' /\ j.receipt.task = n
          /\ j.receipt.amount = j.amount /\ j.amount > 0
          /\ j.receipt.provider = j.provider /\ j.receipt.gym = j.draft.gym
          /\ (j.switched \/ j.receipt.payer = j.submitter)
      <4>1. /\ j.receipt \in deposits' /\ j.receipt.task = n
            /\ j.receipt.amount = j.amount /\ j.amount > 0
            /\ j.receipt.provider = j.provider /\ j.receipt.gym = j.draft.gym
        BY <1>6, <2>4 DEF Deposit
      <4>2. j.switched \/ j.receipt.payer = j.submitter
        BY <1>1, <2>4 DEF Deposit, Consistent
      <4>3. QED
        BY <4>1, <4>2
    <3>2. QED
      BY <1>1, <1>2, <2>4, <3>1 DEF Consistent
  <2>6. QED
    BY <1>1, <1>2, <1>4, <2>2, <2>3, <2>5, MoveKeepsInv
<1>7. QED
  BY <1>5, <1>6 DEF DepositMade

(* A job moves on with nothing but its stage changed.                      *)
LEMMA StageMoves ==
  ASSUME ArenasInv, NEW n \in DOMAIN jobs, NEW at \in Stage \ {"address"},
         jobs[n].at # "over",
         jobs' = [jobs EXCEPT ![n].at = at],
         UNCHANGED <<account, deposits, posted, wizard, estimates>>
  PROVE  ArenasInv'
<1>1. jobs[n] \in Job /\ Consistent(n, jobs[n])
  BY JobTyped
<1>2. PICK j : j = [jobs[n] EXCEPT !.at = at]
  OBVIOUS
<1>3. j \in Job
  BY <1>1, <1>2 DEF Job
<1>4. Consistent(n, j)'
  BY <1>1, <1>2 DEF Consistent, Job
<1>5. QED
  BY <1>2, <1>3, <1>4, JobTyped, MoveKeepsInv

LEMMA KeyHadInv == ASSUME ArenasInv, NEW n \in DOMAIN jobs, KeyHad(n) PROVE ArenasInv'
<1>1. /\ UNCHANGED <<account, deposits, posted, wizard, estimates>> /\ jobs[n].at = "key"
      /\ \/ jobs' = [jobs EXCEPT ![n].at = "signature"]
         \/ jobs' = [jobs EXCEPT ![n].at = "post"]
  BY DEF KeyHad, Page
<1>2. QED
  BY <1>1, StageMoves DEF Stage

(* The signature is given for the job as it is, and nothing it names will   *)
(* change.                                                                 *)
LEMMA SignedInv == ASSUME ArenasInv, NEW n \in DOMAIN jobs, Signed(n) PROVE ArenasInv'
<1>1. /\ jobs[n] \in Job /\ Consistent(n, jobs[n]) /\ n \in Nat
      /\ UNCHANGED <<account, deposits, posted, wizard, estimates>>
      /\ jobs[n].at = "signature"
  BY JobTyped DEF Signed, Page
<1>2. CASE jobs' = [jobs EXCEPT ![n].at = "post"]
  BY <1>1, <1>2, StageMoves DEF Stage
<1>3. CASE jobs' = [jobs EXCEPT ![n].at = "post", ![n].signature = Signature(n)]
  <2>1. PICK j : j = [jobs[n] EXCEPT !.at = "post", !.signature = Signature(n)]
    OBVIOUS
  <2>2. Signature(n) \in SignedJob
    BY <1>1 DEF Signature, SignedJob, Job, Draft
  <2>3. j \in Job
    <3>1. PICK i \in Job : i = [jobs[n] EXCEPT !.at = "post"]
      BY <1>1 DEF Job, Stage
    <3>2. j = [i EXCEPT !.signature = Signature(n)]
      BY <2>1, <3>1
    <3>3. QED
      BY <2>2, <3>1, <3>2 DEF Job
  <2>4. /\ j.at = "post" /\ j.signature = Signature(n) /\ j.switched = jobs[n].switched
        /\ j.submitter = jobs[n].submitter /\ j.receipt = jobs[n].receipt
        /\ j.amount = jobs[n].amount /\ j.provider = jobs[n].provider
        /\ j.draft = jobs[n].draft /\ j.asked = jobs[n].asked
        /\ j.answered = jobs[n].answered
    BY <1>1, <2>1 DEF Job
  <2>5. Consistent(n, j)'
    BY <1>1, <2>4 DEF Consistent, Signature
  <2>6. jobs' = [jobs EXCEPT ![n] = j]
    BY <1>3, <2>1
  <2>7. QED
    BY <1>1, <2>3, <2>5, <2>6, JobTyped, MoveKeepsInv
<1>4. QED
  BY <1>2, <1>3 DEF Signed

(* The wizard that is closed may be another one than the job's.            *)
LEMMA PostedInv == ASSUME ArenasInv, NEW n \in DOMAIN jobs, Posted(n) PROVE ArenasInv'
<1>1. /\ jobs[n] \in Job /\ Consistent(n, jobs[n]) /\ jobs \in Seq(Job)
      /\ posted \in Seq(Receipts) /\ n \in Nat /\ jobs[n].at = "post"
      /\ jobs' = [jobs EXCEPT ![n].at = "over"] /\ UNCHANGED <<account, deposits>>
      /\ posted' \in {posted, Received(n)} /\ wizard' = Closed /\ estimates' = {}
  BY JobTyped DEF Posted, ArenasInv, ArenasTypes
<1>2. PICK j : j = [jobs[n] EXCEPT !.at = "over"]
  OBVIOUS
<1>3. j \in Job /\ Consistent(n, j) /\ Body(j) = Body(jobs[n]) /\ j.at = "over"
  BY <1>1, <1>2 DEF Job, Stage, Consistent, Body
<1>4. /\ jobs' \in Seq(Job) /\ DOMAIN jobs' = DOMAIN jobs
      /\ \A i \in DOMAIN jobs : jobs'[i] = IF i = n THEN j ELSE jobs[i]
  BY <1>1, <1>2, <1>3, OneJobMoves
<1>5. Received(n) \in Seq(Receipts)
  <2>1. Body(jobs[n]) \in Bodies
    BY <1>1 DEF Body, Bodies, Job, Draft
  <2>2. [sent |-> n, body |-> Body(jobs[n])] \in Receipts
    BY <1>1, <2>1 DEF Receipts
  <2>3. QED
    BY <1>1, <2>2 DEF Received
<1>6. ArenasTypes'
  BY <1>1, <1>4, <1>5, ClosedIsNew DEF ArenasInv, ArenasTypes
<1>7. EstimateFollowsDraft'
  BY <1>1, ClosedIsNew DEF EstimateFollowsDraft, Estimated
<1>8. JobsConsistent'
  <2>1. \A i \in DOMAIN jobs' : Consistent(i, jobs'[i])
    BY <1>3, <1>4 DEF ArenasInv, JobsConsistent
  <2>2. QED
    BY <1>1, <2>1 DEF JobsConsistent, Consistent
<1>9. PostedAreOver'
  <2>1. CASE posted' = posted
    BY <1>1, <1>2, <1>3, <2>1, MoveKeepsPosted
  <2>2. CASE posted' = Received(n)
    <3>1. /\ Len(posted) \in Nat /\ DOMAIN posted = 1..Len(posted)
          /\ DOMAIN posted' = 1..(Len(posted) + 1)
          /\ \A i \in DOMAIN posted : posted'[i] = posted[i]
          /\ posted'[Len(posted) + 1] = [sent |-> n, body |-> Body(jobs[n])]
      BY <1>1, <2>2 DEF Received
    <3>2. \A i \in DOMAIN posted :
            /\ posted[i].sent \in DOMAIN jobs /\ jobs[posted[i].sent].at = "over"
            /\ posted[i].body = Body(jobs[posted[i].sent])
      BY DEF ArenasInv, PostedAreOver
    <3>3. \A i \in DOMAIN posted : posted[i].sent # n
      BY <1>1, <3>2
    <3>4. ASSUME NEW i \in DOMAIN posted'
          PROVE  /\ posted'[i].sent \in DOMAIN jobs'
                 /\ jobs'[posted'[i].sent].at = "over"
                 /\ posted'[i].body = Body(jobs'[posted'[i].sent])
      <4>1. CASE i \in DOMAIN posted
        <5>1. jobs'[posted[i].sent] = jobs[posted[i].sent]
          BY <1>4, <3>2, <3>3, <4>1
        <5>2. QED
          BY <1>4, <3>1, <3>2, <4>1, <5>1
      <4>2. CASE i = Len(posted) + 1
        BY <1>3, <1>4, <3>1, <4>2
      <4>3. QED
        BY <3>1, <4>1, <4>2
    <3>5. ASSUME NEW i \in DOMAIN posted', NEW k \in DOMAIN posted',
                 posted'[i].sent = posted'[k].sent
          PROVE  i = k
      <4>1. /\ i \in DOMAIN posted \/ i = Len(posted) + 1
            /\ k \in DOMAIN posted \/ k = Len(posted) + 1
        BY <3>1
      <4>2. CASE i \in DOMAIN posted /\ k \in DOMAIN posted
        BY <3>1, <3>5, <4>2 DEF ArenasInv, PostedAreOver
      <4>3. QED
        BY <3>1, <3>3, <3>5, <4>1, <4>2
    <3>6. QED
      BY <3>4, <3>5 DEF PostedAreOver
  <2>3. QED
    BY <1>1, <2>1, <2>2
<1>10. QED
  BY <1>6, <1>7, <1>8, <1>9 DEF ArenasInv

----------------------------------------------------------------------------
LEMMA ArenasStep == ArenasInv /\ [ArenasNext]_arenaVars => ArenasInv'
<1>1. SUFFICES ASSUME ArenasInv, [ArenasNext]_arenaVars PROVE ArenasInv'
  OBVIOUS
<1>2. CASE UNCHANGED arenaVars
  BY <1>1, <1>2, WizardMoves DEF arenaVars, ArenasInv, ArenasTypes, EstimateFollowsDraft
<1>3. CASE SubmitStep
  BY <1>1, <1>3, AddressKnownInv, DepositMadeInv, KeyHadInv, SignedInv, PostedInv
     DEF SubmitStep
<1>4. QED
  BY <1>1, <1>2, <1>3, OpenWizardInv, CloseWizardInv, SetFieldInv, NextStepInv, BackStepInv,
     EstimateArrivesInv, SwitchAccountsInv, SubmitInv DEF ArenasNext

LEMMA ConsistentJobsPay == ArenasInv => JobPaysItsEstimate
<1>1. SUFFICES ASSUME ArenasInv, NEW i \in DOMAIN posted,
                      posted[i].body.receipt # NoReceipt
      PROVE  LET body == posted[i].body
                 receipt == body.receipt
                 job == jobs[posted[i].sent]
             IN /\ receipt \in deposits /\ receipt.gym = body.gym
                /\ job.switched \/ receipt.payer = body.submitter
                /\ body.signature \in
                     {NoSignature, [task |-> receipt.task, user |-> body.submitter,
                                    provider |-> receipt.provider, gym |-> body.gym,
                                    fee |-> receipt.amount]}
                /\ \A k \in DOMAIN posted : posted[k].body.receipt = receipt => k = i
                /\ job.answered.number \in 1..job.asked
                /\ receipt.amount = Costs[job.answered.episodes]
                /\ job.answered.number = job.asked => job.answered.episodes = body.episodes
  BY DEF JobPaysItsEstimate
<1>2. \A k \in DOMAIN posted :
        LET n == posted[k].sent
        IN n \in DOMAIN jobs /\ Consistent(n, jobs[n]) /\ posted[k].body = Body(jobs[n])
  BY <1>1 DEF ArenasInv, JobsConsistent, PostedAreOver
<1>3. PICK n \in DOMAIN jobs :
        n = posted[i].sent /\ Consistent(n, jobs[n]) /\ posted[i].body = Body(jobs[n])
  BY <1>2
<1>4. /\ posted[i].body.receipt = jobs[n].receipt /\ posted[i].body.gym = jobs[n].draft.gym
      /\ posted[i].body.submitter = jobs[n].submitter
      /\ posted[i].body.signature = jobs[n].signature
      /\ posted[i].body.episodes = jobs[n].draft.episodes
  BY <1>3 DEF Body
<1>5. \A k \in DOMAIN posted : posted[k].body.receipt = posted[i].body.receipt => k = i
  <2>1. SUFFICES ASSUME NEW k \in DOMAIN posted,
                        posted[k].body.receipt = posted[i].body.receipt
                 PROVE  k = i
    OBVIOUS
  <2>2. PICK m \in DOMAIN jobs :
          m = posted[k].sent /\ Consistent(m, jobs[m]) /\ posted[k].body = Body(jobs[m])
    BY <1>2
  <2>3. jobs[m].receipt = posted[k].body.receipt
    BY <2>2 DEF Body
  <2>4. jobs[m].receipt.task = m /\ jobs[n].receipt.task = n
    BY <1>1, <1>3, <1>4, <2>1, <2>2, <2>3 DEF Consistent
  <2>5. m = n
    BY <1>4, <2>1, <2>3, <2>4
  <2>6. QED
    BY <1>1, <1>3, <2>2, <2>5 DEF ArenasInv, PostedAreOver
<1>6. /\ jobs[n].answered.number \in 1..jobs[n].asked
      /\ jobs[n].amount = Costs[jobs[n].answered.episodes]
  <2>1. jobs[n].answered \in Requested /\ jobs[n].asked \in Nat
    BY <1>1, JobTyped DEF Job
  <2>2. jobs[n].amount > 0 /\ jobs[n].amount = Estimated(jobs[n].answered)
    BY <1>1, <1>3, <1>4 DEF Consistent
  <2>3. jobs[n].answered.number # 0
    BY <2>2 DEF Estimated
  <2>4. QED
    BY <1>3, <2>1, <2>2, <2>3 DEF Estimated, Requested, Consistent
<1>7. QED
  BY <1>1, <1>3, <1>4, <1>5, <1>6 DEF Consistent

(* A task the provider has that names a deposit is paid by it, and by it    *)
(* alone, in the amount that was signed for and that the escrow estimated   *)
(* for a request of the same wizard, the task's own episodes when the last  *)
(* request was answered last (handleSubmit and the effect of the fourth     *)
(* step, arenas/page.tsx), whatever the user edits, closes and switches,    *)
(* whatever fails and in whatever order the provider gets the jobs.         *)
THEOREM JobsPayTheirEstimates == Spec => []JobPaysItsEstimate
<1>1. Init => ArenasInv
  BY ArenasStart DEF Init
<1>2. ArenasInv /\ [Next]_consoleVars => ArenasInv'
  <2>1. [Next]_consoleVars => [ArenasNext]_arenaVars
    BY DEF Next, consoleVars
  <2>2. QED
    BY <2>1, ArenasStep
<1>3. QED
  BY <1>1, <1>2, ConsistentJobsPay, PTL DEF Spec
=============================================================================
