------------------------------- MODULE Arenas -------------------------------
(***************************************************************************)
(* The arenas page: a wizard of four steps whose last one estimates the    *)
(* cost of a job, and handleSubmit, which asks the provider for its        *)
(* address, locks the estimate in the escrow, has the job signed, posts it *)
(* to the provider, and adds an arena whatever came of all that.  It works *)
(* on the draft and the estimate of the moment Submit was clicked; the     *)
(* transaction alone is sent by whatever account is then connected.        *)
(***************************************************************************)
EXTENDS Naturals, Sequences, FiniteSets, SequencesExt

CONSTANTS Accounts, GymHashes, Episodes, DefaultEpisodes,
          Costs,        \* what the escrow contract estimates
          Providers, DefaultProvider,
          NoGymHash, NoSignature, NoReceipt,
          MaxJobs,      \* bound: jobs submitted
          MaxEntries,   \* bound: fields of the draft set, steps back, closings, switches
          MaxRefusals   \* bound: calls that fail

ASSUME ArenasAssumption ==
  /\ Costs \in [Episodes -> Nat \ {0}] /\ DefaultEpisodes \in Episodes
  /\ Accounts # {} /\ DefaultProvider \in Providers
  /\ NoGymHash \notin GymHashes /\ {MaxJobs, MaxEntries, MaxRefusals} \subseteq Nat

VARIABLES account,   \* the account connected
          wizard,    \* the wizard, open or not
          estimates, \* requests for an estimate that the open wizard waits for
          jobs,      \* runs of handleSubmit
          deposits,  \* what the escrow holds
          posted,    \* what the provider has got, in the order of its arrival
          arenas,    \* arenas of the page
          keys,      \* accounts with a key pair in the browser's storage
          entries, refusals

arenaVars == <<account, wizard, estimates, jobs, deposits, posted, arenas, keys, entries,
               refusals>>

Refuse == refusals < MaxRefusals /\ refusals' = refusals + 1
Entry == entries < MaxEntries /\ entries' = entries + 1

DraftDefaults == [named |-> FALSE, gym |-> NoGymHash, episodes |-> DefaultEpisodes]

\* Requests for an estimate are numbered: the last one, and the one whose answer came last.
NoRequest == [number |-> 0, episodes |-> DefaultEpisodes]
NewWizard == [open |-> TRUE, step |-> 1, draft |-> DraftDefaults, estimate |-> 0,
              asked |-> 0, answered |-> NoRequest, submitting |-> FALSE]
Closed == [NewWizard EXCEPT !.open = FALSE]

----------------------------------------------------------------------------
(* The wizard *)

Same == UNCHANGED <<account, jobs, deposits, posted, arenas, keys, refusals>>

OpenWizard ==
  /\ ~wizard.open /\ Len(jobs) < MaxJobs
  /\ wizard' = NewWizard /\ estimates' = {}
  /\ Same /\ UNCHANGED entries

\* Cancel, the cross and the backdrop; what was submitted goes on.
CloseWizard ==
  /\ Entry /\ wizard.open
  /\ wizard' = Closed /\ estimates' = {}
  /\ Same

\* A field of the form that is shown.
SetName == wizard.step = 1 /\ wizard' = [wizard EXCEPT !.draft.named = TRUE]
SetGym == wizard.step = 2 /\ \E g \in GymHashes : wizard' = [wizard EXCEPT !.draft.gym = g]
SetEpisodes ==
  wizard.step = 3 /\ \E e \in Episodes : wizard' = [wizard EXCEPT !.draft.episodes = e]

SetField ==
  /\ Entry /\ wizard.open
  /\ SetName \/ SetGym \/ SetEpisodes
  /\ Same /\ UNCHANGED estimates

ValidateStep ==
  /\ wizard.step = 1 => wizard.draft.named
  /\ wizard.step = 2 => wizard.draft.gym # NoGymHash

Request(w) == [number |-> w.asked + 1, episodes |-> w.draft.episodes]

\* Mutant: a wizard that has an estimate asks for no other.
AskOnce(w) == IF w.estimate > 0 THEN {} ELSE {Request(w)}

\* The effect of the fourth step: a request goes out, and an older one is not withdrawn.
Ask(w) == {Request(w)}

NextStep ==
  /\ wizard.open /\ wizard.step < 4 /\ ValidateStep
  /\ IF wizard.step = 3
     THEN /\ wizard' = [wizard EXCEPT !.step = 4, !.asked = @ + Cardinality(Ask(wizard))]
          /\ estimates' = estimates \cup Ask(wizard)
     ELSE wizard' = [wizard EXCEPT !.step = @ + 1] /\ UNCHANGED estimates
  /\ Same /\ UNCHANGED entries

BackStep ==
  /\ Entry /\ wizard.open /\ wizard.step > 1
  /\ wizard' = [wizard EXCEPT !.step = @ - 1]
  /\ Same /\ UNCHANGED estimates

\* Answers come in any order, and the one that comes last is shown.  An estimate that
\* cannot be had is zero.
EstimateArrives ==
  /\ \E r \in estimates :
       /\ estimates' = estimates \ {r}
       /\ \/ /\ wizard' = [wizard EXCEPT !.estimate = Costs[r.episodes], !.answered = r]
             /\ UNCHANGED refusals
          \/ Refuse /\ wizard' = [wizard EXCEPT !.estimate = 0, !.answered = NoRequest]
  /\ UNCHANGED <<account, jobs, deposits, posted, arenas, keys, entries>>

SwitchAccounts ==
  /\ Entry
  /\ \E a \in Accounts \ {account} : account' = a
  /\ jobs' = [n \in DOMAIN jobs |-> [jobs[n] EXCEPT !.switched = TRUE]]
  /\ UNCHANGED <<wizard, estimates, deposits, posted, arenas, keys, refusals>>

----------------------------------------------------------------------------
(* handleSubmit.  The number of a job stands for the page's task id, the   *)
(* time of the click, under which it deposits and has the user sign.       *)

Submit ==
  /\ wizard.open /\ wizard.step = 4 /\ ~wizard.submitting /\ Len(jobs) < MaxJobs
  /\ jobs' = Append(jobs, [at |-> "address", draft |-> wizard.draft, amount |-> wizard.estimate,
                           asked |-> wizard.asked, answered |-> wizard.answered,
                           submitter |-> account, switched |-> FALSE,
                           provider |-> DefaultProvider,
                           receipt |-> NoReceipt, signature |-> NoSignature])
  /\ wizard' = [wizard EXCEPT !.submitting = TRUE]
  /\ UNCHANGED <<account, estimates, deposits, posted, arenas, keys, entries, refusals>>

Page == UNCHANGED <<account, wizard, estimates, arenas, entries>>

\* A provider that is offline or has no address leaves the default.
AddressKnown(n) ==
  /\ jobs[n].at = "address"
  /\ \/ \E p \in Providers : jobs' = [jobs EXCEPT ![n].at = "deposit", ![n].provider = p]
                             /\ UNCHANGED refusals
     \/ Refuse /\ jobs' = [jobs EXCEPT ![n].at = "deposit"]
  /\ Page /\ UNCHANGED <<deposits, posted, keys>>

Deposit(n) ==
  [task |-> n, payer |-> account, provider |-> jobs[n].provider, gym |-> jobs[n].draft.gym,
   amount |-> jobs[n].amount]

\* The escrow takes no empty deposit.  A deposit that fails, or is made and not confirmed,
\* stops nothing and leaves no receipt, the hash of its transaction.
DepositMade(n) ==
  /\ jobs[n].at = "deposit"
  /\ \/ /\ jobs[n].amount > 0
        /\ deposits' = deposits \cup {Deposit(n)}
        /\ jobs' = [jobs EXCEPT ![n].at = "key", ![n].receipt = Deposit(n)]
        /\ UNCHANGED refusals
     \/ /\ jobs[n].amount = 0
        /\ jobs' = [jobs EXCEPT ![n].at = "key"]
        /\ UNCHANGED <<deposits, refusals>>
     \/ /\ jobs[n].amount > 0 /\ Refuse
        /\ deposits' \in {deposits, deposits \cup {Deposit(n)}}
        /\ jobs' = [jobs EXCEPT ![n].at = "key"]
  /\ Page /\ UNCHANGED <<posted, keys>>

\* The key pair of the account the page was drawn for, made by the server the first time.
\* Without one the job goes out unsigned.
KeyHad(n) ==
  /\ jobs[n].at = "key"
  /\ \/ /\ jobs' = [jobs EXCEPT ![n].at = "signature"]
        /\ keys' = keys \cup {jobs[n].submitter}
        /\ UNCHANGED refusals
     \/ /\ jobs[n].submitter \notin keys /\ Refuse
        /\ jobs' = [jobs EXCEPT ![n].at = "post"]
        /\ UNCHANGED keys
  /\ Page /\ UNCHANGED <<deposits, posted>>

\* What the user signs for the settlement of a job.
Signature(n) ==
  [task |-> n, user |-> jobs[n].submitter, provider |-> jobs[n].provider,
   gym |-> jobs[n].draft.gym, fee |-> jobs[n].amount]

Signed(n) ==
  /\ jobs[n].at = "signature"
  /\ \/ /\ jobs' = [jobs EXCEPT ![n].at = "post", ![n].signature = Signature(n)]
        /\ UNCHANGED refusals
     \/ Refuse /\ jobs' = [jobs EXCEPT ![n].at = "post"]
  /\ Page /\ UNCHANGED <<deposits, posted, keys>>

\* What is posted.  It has no task id: all that tells which deposit is its own is the
\* receipt and, inside the signature, what was signed.
Body(job) ==
  [submitter |-> job.submitter, gym |-> job.draft.gym, episodes |-> job.draft.episodes,
   receipt |-> job.receipt, signature |-> job.signature]

\* The provider makes an id of its own for what it gets: its place among the posted.  That
\* job n of the page sent it is nowhere in it.
Received(n) == Append(posted, [sent |-> n, body |-> Body(jobs[n])])

\* POST /tasks.  The page adds its arena whether or not the provider took the job, and
\* closes the wizard that is open, be it another one than the job's.
Posted(n) ==
  /\ jobs[n].at = "post"
  /\ \/ posted' = Received(n) /\ UNCHANGED refusals
     \/ Refuse /\ posted' \in {posted, Received(n)}
  /\ jobs' = [jobs EXCEPT ![n].at = "over"]
  /\ arenas' = Append(arenas, n)
  /\ wizard' = Closed /\ estimates' = {}
  /\ UNCHANGED <<account, deposits, keys, entries>>

SubmitStep == \E n \in DOMAIN jobs : \/ AddressKnown(n) \/ DepositMade(n) \/ KeyHad(n)
                                     \/ Signed(n) \/ Posted(n)

----------------------------------------------------------------------------
ArenasInit ==
  /\ account = (CHOOSE a \in Accounts : TRUE) /\ wizard = Closed /\ estimates = {}
  /\ jobs = << >> /\ deposits = {} /\ posted = << >> /\ arenas = << >> /\ keys = {}
  /\ entries = 0 /\ refusals = 0

ArenasNext == \/ OpenWizard \/ CloseWizard \/ SetField \/ NextStep \/ BackStep
              \/ EstimateArrives \/ SwitchAccounts \/ Submit \/ SubmitStep

----------------------------------------------------------------------------
(* The page and the provider number a job each in its own way.  The        *)
(* provider finds the deposit by the receipt alone: it is a deposit of the *)
(* escrow, for the gym posted, made by the submitter unless the account    *)
(* was switched on the way, of the amount and for the job that the user    *)
(* signed for, if the user signed, and no other posted job has it.  The    *)
(* amount is the estimate of some request of the same wizard, however late *)
(* or out of order the answers came, and of the episodes posted when the   *)
(* answer that came last is the last request's.                            *)
JobPaysItsEstimate ==
  \A i \in DOMAIN posted :
    LET body == posted[i].body
        receipt == body.receipt
        job == jobs[posted[i].sent]
    IN receipt # NoReceipt =>
         /\ receipt \in deposits /\ receipt.gym = body.gym
         /\ job.switched \/ receipt.payer = body.submitter
         /\ body.signature \in
              {NoSignature, [task |-> receipt.task, user |-> body.submitter,
                             provider |-> receipt.provider, gym |-> body.gym,
                             fee |-> receipt.amount]}
         /\ \A k \in DOMAIN posted : posted[k].body.receipt = receipt => k = i
         /\ job.answered.number \in 1..job.asked
         /\ receipt.amount = Costs[job.answered.episodes]
         /\ job.answered.number = job.asked => job.answered.episodes = body.episodes
=============================================================================
