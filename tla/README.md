# A TLA+ model of 440hz

440hz trains LoRA adapters for language models against reinforcement-learning
gyms. A creator composes a gym in a web application, rents a provider's
machine, and pays through contracts on an EVM chain. This directory holds TLA+
modules for the parts whose correctness depends on the order of events, the TLC
configurations that check them on small instances, and TLAPS proofs for the
contracts, the daemon, the submission of jobs, the hub, the profile and the gym
editor. Paths below are relative to the repository.

## 1. Inventory

| part | where | state | operations | what is hard |
|---|---|---|---|---|
| Gym marketplace | `contracts/contracts/GymMarketplace.sol` | listings, access, `_keys`, royalties, settings | list, delist, purchase, credit, claim, setters | any order of calls, relisting, money credited in one call and claimed in another, rejecting recipients |
| Training escrow | `contracts/contracts/TrainingEscrow.sol` | jobs, oracle, treasury, marketplace | deposit, complete, refund, setters | rounding, one release per job, a call into the marketplace that may revert |
| Settlement verifier | `contracts/contracts/ZKSettlementVerifier.sol`, `BatchVerifier.sol` | settled, key, signal index, escrow | settle, update | replay, changed keys, agreement with circuit and scripts, being the only oracle |
| Circuit and proving server | `0g-zk-settlement-server/` | witness file, Rust backend flags | sign, prove | concurrent requests share one witness file; a failed init is never retried |
| Provider daemon, tasks | `core/api/task_manager.py`, `main.py` | `_tasks`, `tasks.json`, `_processes`, queues | submit, run, cancel, stream, merge, restart | every `await` is an interleaving point; processes, deadline, crash |
| Provider daemon, settlement | `core/api/settlement.py` | wallet nonce | ZK path, oracle path | shared nonce, fallback, no retry |
| Executor | `core/executor/` | receipt, gym server, container | five sequential stages | exit code against receipt, processes it leaves behind |
| Federation | `core/executor/federation.py`, `core/aggregator/` | adapters received, weights | submit with retry, aggregate | retries counted twice, missing clients, zero weights |
| Gym SDK | `core/gym_sdk/server.py` | active session | reset, step | two handlers in a thread pool |
| Merger | `core/merger/merge.py` | files | one script | supervised by the daemon |
| Gym hub | `web/lib/utils/kvMarketplace.ts`, `web/app/api/marketplace/`, `web/app/console/gym-hub/` | KV stream, Redis list, counters, the page | publish, rate, load, download, search | count and batch seconds apart, timeouts that do not cancel, two commands per rating, local and loaded counters |
| Profile and onboarding | `web/app/api/profile/`, `web/app/api/ens/`, `web/lib/profileStore.ts`, `web/app/onboarding/`, `web/app/console/layout.tsx`, `settings/` | bundle, two indices, subnames, store, wizard | save, hydrate, register, redirect | read-merge-write without a lock, partial failure, late answers after the wallet has changed |
| Arenas | `web/app/console/arenas/`, `web/lib/contracts/` | wizard, arenas, key pairs | estimate, deposit, sign, post | six awaits per submission, each allowed to fail, while the user edits and switches accounts |
| Models page | `web/app/console/models/` | rows, selection | poll, export, merge | polling for a merger that may fail silently |
| Gym editor | `web/app/console/gym-builder/`, `web/lib/nodeui/`, `web/lib/gymStore.ts` | canvas, code, saved gyms, conversation | edit, save, open, roll back, publish, chat | two debounced effects that feed each other, handlers working on the values of an older render, cyclic graphs |
| Other pages | landing, overview, search, compute | what they show | | show figures and start single calls |
| Registrar | `contracts/contracts/L2Registrar.sol` | owner | register | forwards to an external registry |

Interactions: the browser deposits a job (`depositJob`), signs its request for
the circuit, and posts the task to the daemon. The daemon spawns one executor
per task, reads its stdout through a pipe, and on exit code 0 starts
`settle_job`, which asks the proving server for a proof and calls
`settleWithProof`, or calls `completeJob` as the oracle. The escrow pays
provider, treasury and, through the marketplace, the gym's builder. The pages
of the console share a library of gyms and a profile store in the browser; what
one user publishes or rates reaches another through the key-value stream and
Redis, with no server that orders the writes.

What makes each part correct: the marketplace never owes more than it holds and shows
every active listing; the escrow holds exactly its pending deposits and releases each
once, in full; the verifier releases only on a signed request whose signal the job id
denotes and never marks a job settled that the escrow refused; the daemon never shows
a task that nothing will finish, settles once per success, ends every stream and every
run; the hub shows what either store holds; an index leads to the bundle it describes
and no field is lost by updates that do not overlap; what is locked for a job is what
was estimated and signed; no version of a gym is lost and nothing is called listed
that is not.

`PROJECT.json` lists every component with its status and, under `hazards`,
each place of the code where one of these can go wrong.

## 2. Modules

| module | models | on top of |
|---|---|---|
| `Wei` | sums of amounts, as cardinalities of sets of units | |
| `Chain` | native-token balances and transfers (external: the EVM) | `Wei` |
| `GymMarketplace` | the contract of that name | `Chain` |
| `TrainingEscrow` | the contract, composed with the marketplace | `GymMarketplace` |
| `EscrowPromise` | the abstract specification of the escrow | |
| `ZKSettlementVerifier` | the contract, composed with both, and what the circuit proves | `TrainingEscrow` |
| `TaskManager` | the daemon's task lifecycle with executors, crash and restart | |
| `GymHub` | listings in two stores, ratings, and the hub page | |
| `Arenas` | the wizard and `handleSubmit` | |
| `Models` | the provider's tasks and mergers as the models page sees them | |
| `Console` | a tab on one of the three pages | the three |
| `ProfileApi` | `POST /api/profile`, its two indices, registration of names | |
| `Onboarding` | a tab: wallet, store, wizard, settings, redirects | `ProfileApi` |
| `GymGraph` | the graph store, traversal and recursion of the generator | |
| `GymBuilder` | the gym editor page | `GymGraph` |
| `MC*` | constants for TLC | |
| `*Proofs` | theorems about the module of that name | |

### The contracts

A call that reverts changes nothing, so it is not a step: an action's guard is
the conjunction of everything that would revert the call, callees included.
`CompleteJob` contains the two transfers, `getListing`, the credit or the third
transfer, and its guard contains `marketEscrow = Escrow`, because the credit of
a marketplace wired to another escrow reverts. `nonReentrant` and the 2300 gas
of `transfer` exclude re-entry, so a call is one atomic step. None of the three
contracts has a `receive` function; `Accepts` says so, and the constant
`Rejecting` holds users whose wallet rejects plain transfers.

A job that does not exist is the zero record (`creator = NoOne`), as in the
mapping. An address that is 0 accepts money. Amounts are unbounded naturals:
Solidity 0.8 reverts on overflow, and a balance bounds every value.

The composed modules add their state to the modules they extend. A step of the
escrow alone leaves the marketplace's settings unchanged and the reverse, and
`EscrowNext` and `Next` are the unions. The owners' setters are actions with any
appointee, so that misconfiguration is part of what is checked.

In `ZKSettlementVerifier` a job id is a number, as `depositJob` takes any, and a
public signal an element of the scalar field. A request is a user, a provider and a
nonce; a proof is the key it was made under and a request both parties signed, which
is what the circuit proves. `SignalOf` gives the public signals in the order the
circuit outputs them. `Denotes` is what `BatchVerifier` makes of a number: it is
reduced modulo the field, so a signal may be written as any number congruent to it,
while the contract compares the job id with the number as it is written. Nothing ties
a request to a deposit: the id is compared with one signal and that is all, so that at
index 0 any request of a user releases the job whose id is that user's address, and an
id beyond the field is matched by what it is modulo the field. The nonce has eight
bytes; an id that is longer, such as the 32-byte hashes the application uses, is no
nonce. Requests with a fee of zero need no user signature in the circuit; they are
left out.

### The daemon

The daemon is one asyncio event loop: the code between two awaits is one
action, and every await is a place where `pc` of a run stands. The table:

| code of `_run_executor` | actions |
|---|---|
| up to `await create_subprocess_exec` | `Start` |
| handle stored, drain started | `Spawned`, or `SpawnFailed` |
| `wait_for(shield(drain_task))` | `Drained`, `Timeout`, `DrainFailed` |
| `proc.kill()`, `await drain_task` | `Timeout`, then `KilledDrained` |
| `await proc.wait()`, `_finish_task` up to `_persist` | `Reaped`, with `Finish` |
| `_persist` | `EndPersist` or `PersistFails` |
| `settle_job` started, `finally` | `Conclude` |
| `await put(None)` on a full queue | `CloseStream` |

`Finish` is `_finish_task` up to its write of the table and `Conclude` what follows
the write, so that a crash can come between the two: the gap in which a completed
task is never settled. Everything in `_finish_task` that can raise is caught where it
is called. Writing `tasks.json` is two steps, truncate and write; the event loop is
blocked between them (`LoopFree`) and only a crash or an executor can move. A write
may fail, before it truncated the file or after, which `_persist` logs and nothing
else; `saved` says that the last one did not.

A log queue is open, full or closed by its sentinel. The drain never waits for room,
since it drops the oldest entry (`QueueFills`, also over a sentinel of an earlier
run); the sentinel waits, and only a reader makes room (`EntryRead`). A new submission
of the id replaces the queue: a coroutine that still waits on the old one is done. The
executor process is the environment: it reports, exits, fails, is killed, and may
launch a source gym that inherits its stdout. A crash empties memory, keeps the file,
and leaves executors running.

Left out of `TaskManager`: log entries (only whether the queue is full), the
DA event stream, merge jobs, the 0G task bridge (a second way to submit), what
`settle_job` does.

### The web application

A handler of the page runs up to its next await, so an action is the code between
two awaits and every request under way is a record that holds what the closure of
the handler holds: the values of the render it was started in. That is where the
behaviours come from, since the page, the wallet and other tabs move meanwhile. An
effect that React runs because a value has changed is part of the action that
changes it (`SetCode`, `LoadGraph`, `Asking`, `Ask`). Names of actions are the
handlers' where there is one: `Save`, `Publish`, `Rollback` are `handleSave`,
`handlePublish`, `handleRollback` up to their first await, `SaveDone` and
`ListingStored` what follows.

`GymHub`. A publication reads the count (`CountRead`), writes entry and count in
one batch (`BatchWritten`), and mirrors (`Appended`); `StoreFails` is the error or
the eight seconds, after which the batch may still land. A rating is two commands
(`RatingStep`); when Redis cannot be asked it ends at the first that fails, but an
error that Redis answers is not looked at, and the second command follows a first that
did nothing (`RatingFails`, stage `skipped`, counted as `bare`). A load reads the
stream entry by entry and the list at once, merges, and then asks for the counters,
which an error that is answered sets to zero; the ghosts `stored` and `mirrored` are
what the stores had when it started, `Published` and `Mirrored` from before the first
step included.

`ProfileApi` and `Onboarding`. A request is `PostMerges`, `PostIndexes`,
`PostAnswers`, each with the failures the route swallows. The root hash of an
upload is the position of its request, because a bundle holds the time and no two
are equal. `hydrate` is a request with a second one for the bundle; `AfterHydrate`
is the `then` of the onboarding page, with the store as it is at that moment.

`Arenas`. `Submit` captures draft, estimate and account; `AddressKnown`,
`DepositMade`, `KeyHad`, `Signed` and `Posted` are the rest of `handleSubmit`, none of
which stops when an earlier one has failed. Only the transaction is sent by the
account connected at that moment. What is posted (`Body`) has no task id, so the
provider makes one of its own (`Received`: the place of the task among the posted) and
finds the deposit by the receipt, the hash of its transaction. Which job of the page
it was (`sent`) is known to the model and not to the provider. Requests for an
estimate are numbered, answers come in any order, and ghost fields keep which one the
wizard shows (`answered`), which one was asked for last, and whether the account was
switched since the click.

`Models`. The provider's tasks, mergers and results are the environment;
`handleMerge` is `Merge`, `MergeAccepted`, the polls, and `MergeFails`.

`GymGraph` and `GymBuilder`. `GraphToPython` and `PythonToGraph` are the two
effects, their timers `GenerateFires` and `ParseFires`, `locks` the timers of
`lockSync`. The text of the code is abstracted to what the synchronisation tells
apart: the graph in its metadata comment and how the text came to be. `Throws`
says when the recursion of the generator has no end. The list of saved gyms is
`gymStore`, cut at `MaxSaved`. An upload begins with a prompt of the wallet
(`SaveSigned`, `SaveRefused`), and so does the listing in the contract
(`ListingSigned`, `ListingRefused`). A listing ends in the store or its mirror
(`ListingStored`), or in neither when the mirror's route takes an error that Redis
answered for success (`ListingIgnored`, set `unkept`). A name is asked for under one of
`Labels`; `named` and `refused` are the roots that were published under each, and the
entry gets its label either way (`NameAnswered`). A text record is kept for each label
and can be written only by the holder of the name. `Reload` ends every handler;
`Navigate`, leaving the page for another of the application and coming back, ends none:
they go on without their page (`live`), on the stores, while the new page starts from
the canvas that outlived it (`Mounted`).

Left out: the counter of downloads, the order of listings, the seeds shown when the
market is empty, filters and detail panels; positions and labels of nodes, file
tabs, the run and download panels; the avatar's text record, network pings,
wrong-chain warnings. One finish, one naming and one search for names are under way
at a time; requests of `hydrate` beyond `MaxHydrates` get no answer. A merge that
the provider accepts while its answer is lost is not in `Models`; an answer of
`GET /tasks` and what is shown of it are one step. A tab of `Console` stays on its
page, since the three pages share nothing that one changes and another reads.

## 3. Runs

| run | states | what it shows |
|---|---|---|
| `marketplace` | 1.1 million | two users, two gyms, prices 0 and 10, payments 10 and 30 |
| `escrow` | 126 thousand | two jobs, deposits 4 and 15, changing oracle and treasury |
| `verifier` | 1.2 million | three jobs: a nonce, the same modulo the field, a user's address; two requests, one key, two signal indexes, two escrows, one rejecting wallet |
| `taskmanager_safety` | 3.3 million | two submissions of any ids, two crashes, one failing write, a source gym |
| `taskmanager_fair` | 136 thousand | two submissions of different ids, one crash, queues that fill up, containers only |
| `gym_builder` | 667 thousand | four nodes with a possible branching cycle, three user actions out of sixteen, two stored bundles, two earlier gyms of which one has no history, two saved gyms at most, one name |
| `onboarding` | 530 thousand | two wallets, three names of which one leaves no label, two saves, one failing call, two user actions |
| `console` | 711 thousand | a gym in either store, two publications, two ratings or one and a revisit, two failing calls; two jobs, five edits, one failing call; two tasks, two polls, two mergers, one outage |
| `refund_with_verifier_oracle` | violation | see findings |
| `signed_job_not_settled` | violation | see findings |
| `deadline_with_source_gym` | violation | see findings |
| `cancelled_task_settled` | violation | see findings |

Why the bounds are enough. Two users suffice because every rule of the contracts
concerns one caller and one counterparty; two gyms and three entries of `_keys` give
duplicates, pages of every size and a gap between two listings. The amounts are chosen
for rounding: 5% of 30, 10% and 80% of 15, and 4, which has no royalty at all. Two
jobs let one job's payment touch the other's deposit, which is all a solvency error
needs. The theorems remove these bounds for what they state. In the daemon, runs
interact only when they share a task id, a file or the event loop, which two runs do
in every way one can; the second crash covers a restart from a file torn by the first,
the failing write one from a file that was left behind. The verifier's field has order
7 and its nonces are below 4: job 2 is a nonce, job 9 the same number modulo the
field, job 5 the address of a user. One key is enough for the run, since a proof
passes under its own only; the theorems have any number.

In the editor, two saves or a save, an opening and a publication meet in three
actions, the least that makes handlers with different closures overlap; two saved gyms
stand for fifty, so that the list overflows; one name is shared by every gym that is
published, which is where one gym's manifest can reach another's, and the theorem has
any number of names. In onboarding one failing call reaches every path of the route,
and two wallets let an answer arrive for one that has left. In the console, two
publications are what overwriting each other needs; five edits are a way back, a
change and a way forward between two estimates of two jobs; two polls stand for three
hundred. The mixes of `Budgets` divide the hub's behaviours by what they are about.

`CHECK_DEADLOCK FALSE` appears where the system may stop: a daemon that has served
`MaxRuns` submissions is idle, and so is a page whose user does nothing more.

Bounds: `MaxListings` (length of `_keys`), `MaxRuns` (submissions), `MaxCrashes`,
`MaxFaults` (failing writes);
`MaxInputs`, `MaxEdits`, `MaxSaved` in the editor; `MaxSaves`, `MaxFaults`,
`MaxInputs`, `MaxHydrates` and `Openers` in onboarding; `Budgets`, `MaxLost`,
`MaxJobs`, `MaxEntries`, `MaxRefusals`, `MaxPolls`, `MaxPresses`, `MaxMerges` and
`MaxOutages` in the console; all others are the finite sets of the configurations.

### Properties

Marketplace: `RoyaltiesBacked` (claims never lack funds), `PagesCoverKeys` and
`ActiveListingsShown` (pagination under relisting: each page has the length asked for
or what is left, each key its place on one page), `EveryPaymentBuysAccess` (money
is taken only for a gym not bought before, which `checkAccess` then grants).
Escrow: `EscrowSolvent` is an equality, so neither a lost nor a created wei
passes; `PayoutSplit` checks balances before and after against the percentages;
`ImplementsPromise` is the refinement of `EscrowPromise`, with the outcome of a
job, its deposit and the escrow's balance as the mapping. Verifier:
`ReleaseNeedsProof` says what a release under the verifier rests on, slot by slot, and
no more than that: a signed request whose signal is the id modulo the field;
`SettledWithRelease`. Daemon: `LiveTaskHasRun`, `DiskCurrent` (since the last write that
did not fail), `SettledOncePerSuccess` whatever ids are reused;
`CompletedHasReceipt`, `StreamClosedAfterTask`, `CancelKills` when ids are not
reused, because a second submission of an id shares the first one's receipt file,
queue and handle and breaks all three; nothing in the repository promises
otherwise, so this is a precondition of the run and not a finding.

Hub: `LoadShowsStored` (a load shows what either store had, also from before, unless
publications overwrote each other), `RatingsBalanced` (the order of the two commands,
with ratings half done and ratings without stars counted out, and of local and loaded
counters). Profile: `IndexNamesItsBundle` under every partial failure,
`DoneHasName` under late answers, `SequentialPostsMerge` (no field lost without
overlap or failure), `TabSettles` (guard and redirects do not chase each other).
Arenas: `JobPaysItsEstimate` starts from what the provider has: a receipt leads to one
deposit, of the gym posted and the amount signed, and that amount is an estimate of the
same wizard; of the very draft if no older answer came after it. Models:
`MergeEnds`. Editor: `NoVersionLost`, `RecordIsOfNamedGym`, `ListedIsListed` and
`PublishEnds` under overlapping handlers, `ChatAlternates` (the history sent to the
model), and two properties of the algorithms for every graph drawn, opened or
parsed: `TraversalVisitsReachable` against plain reachability and
`RecursionUnbounded`, which compares `Throws` with the depth of the emission.

Several of these have a condition that names what the code does not guarantee: a
failed write of `tasks.json`, a log queue that stays full, two publications whose
count and batch interleave, ratings whose stars were refused, overlapping profile
updates, a switched account, an estimate overtaken by an older one, a refusal of the
mirror or of a name that nobody looks at, a prompt of the wallet that nobody answers,
a graph on which the generator throws. They are the precise edge of what holds and are
listed under 4.

For each property there is a mutant, an operator defined just before the one it
replaces, that makes TLC find the property violated.

### Fairness

`FairSpec` asks weak fairness of the steps the event loop owns: a coroutine that
can move is resumed, a file write ends, in success or not, a spawn returns, the timer
of a run expires. It asks nothing of executors, gyms, clients, crash or restart, and
nothing of readers of a log: `CloseStream` is possible only while the queue has room,
and `StreamEnds` has the condition that it does so again and again. `DeadlineEnforced`
needs no reader: the outcome is recorded and the handle dropped before the sentinel
has to wait.

In the browser nothing is asked of the user, the wallet included. The editor's `Spec`
asks that an upload that was signed and the requests of a publication end, in success
or failure. An upload and the listing in the contract begin with prompts that have no
time limit, so `PublishEnds` says that a publication ends or comes to wait for the
wallet, and goes on from a prompt once that is answered either way. The tab of
`Onboarding` asks that an effect which is due runs (`Redirect`) and that answers of
`hydrate` come and are applied. On the models page a call of `handleMerge` ends; the
fetches have no timeout of their own, so this is the network's promise.

## 4. Findings

1. `FailedJobRefundable`: the verifier's deployment flow makes it the escrow's
   oracle, and it has no way to call `refundJob`.
2. `SignedJobSettles`: contract and scripts read the job id from signal 0; the
   circuit puts the user's address there, and the nonce, which has eight bytes,
   at 2 and 3. The deployment also sizes `vkGammaABC` for five signals where the
   circuit has nine.
3. `DeadlineEnforced`: after the kill the daemon waits for end of file on a pipe
   a source gym still holds. The same wait keeps a successful source-gym task
   from ever being completed.
4. `CancelledNotSettled`: a cancellation before the coroutine starts, during the
   spawn, or between the exit of the executor and its outcome, is overwritten, and
   the job is settled.

Seen while modelling, and part of the models as they are. None contradicts a
statement of the repository precisely enough to be a finding, except where noted.

* Verifier: a request that both parties signed releases any job whose id its signal
  denotes: at index 0, the installed one, every job deposited under the number of the
  user's address, whatever was signed; and ids that differ by a multiple of the field's
  order are matched by the same signal, each once.
* Daemon: a failed write of `tasks.json` is only logged, and a restart before the next
  one loses what happened since, or every task when the file was cut short; a crash
  between the write of an outcome and the start of `settle_job` leaves a completed task
  that is never settled; the log stream of a task that wrote 4096 entries nobody reads
  never ends, and its coroutine neither.
* Hub: two publications that read the same count overwrite each other's entry, and
  only the mirror has both; a rating interrupted between its commands leaves an
  average above five for good; one whose stars Redis refuses is counted, and leaves an
  average below one; refused ratings are counted by the page; an answer
  that holds the page's own rating is counted once more.
* Profile: concurrent updates lose fields; a key-value write that failed leaves an
  older index that is preferred to the newer one in Redis; an upload that fails
  writes sequence number 0, which sends the user through onboarding again; a bundle
  that cannot be fetched resets every field; a refused name is saved all the same; a
  name of dashes leaves an empty label; signing out keeps the store although
  `web/app/console/settings/page.tsx:393` speaks of clearing the local session; a
  late answer for one wallet fills the store of the next.
* Arenas: the body posted has no `task_id`, so the provider's task has another id than
  the escrow's job, of which `core/api/models.py:131-132` warns: the settlement the
  daemon starts is for an id nobody deposited under; a deposit that failed does not stop
  the submission; a deposit is sent by the
  account connected then while the signature names the earlier one; an older
  estimate may land last; the end of one submission closes the wizard of the next.
* Models: the first poll of a second merge returns the first merge's result; a sample
  row's merge is sent to the provider; the row looks for the result in the receipt,
  where the daemon does not put it.
* Editor: canvas edits do not start the generator, so the code stays behind while the
  badge says synced; an upload holds its time, so unchanged content is never noticed;
  a name's manifest may be overwritten by an older one; saving while another gym is
  being opened mixes their histories; opening a gym from a version it no longer heads
  shows no history and the next save forks; a branching cycle makes the generator
  throw outside the `try`, and the publish button stays busy; removing a router's
  condition leaves its edges; the assistant's answer replaces whatever gym is open by
  then; the fiftieth gym drops out silently; a listing that Redis refused is called
  listed although neither store has it; a refused name is kept as the gym's, and a gym
  refused a name that the user holds for another gym writes its history over that one's;
  a prompt of the wallet that nobody answers keeps the publish button busy.

## 5. Proofs

All theorems are proved by `tlapm` with no assumption beyond the named assumptions
of the modules: constants are sets and addresses that differ, users, contracts and
node ids are finite, amounts are naturals, bounds are numbers, and what was stored
before the first step is something the program can have stored. Every theorem speaks
of the specification that its run checks, with all constants free: the bounds of
section 3 are gone.

### The contracts

* Sums. `Total` is a natural number for a function of naturals on a finite set, and
  updating one entry changes it by the difference (`TotalUpdate`, in
  `GymMarketplaceProofs`). A sum is the cardinality of a set of units because the
  provers can reason about cardinalities and not by induction over a fold.
* `GymMarketplaceProofs`. The inductive invariant is the type invariant with
  `RoyaltiesBacked`. The type half needs the other: that the balance stays a natural
  number when a royalty is claimed follows from the contract's own balance check, and
  that this check holds is what `RoyaltiesBacked` says. `PagesAlwaysCover` is
  arithmetic on top of it: an index of `_keys` is a quotient and a remainder of the
  page size (`Division`), and the page, which is as long as what is left of them
  allows, holds it (`PageEntry`). `ActiveAlwaysShown` adds to the invariant that an
  active gym is in `_keys`: only listing makes a gym active, and nothing is ever
  removed from `_keys`. `PaymentsBuyAccess`: a balance other than the contract's falls
  only for who sends a payment (`OnlySenderPays`), and a purchase leaves what
  `checkAccess` looks for.
* `TrainingEscrowProofs`. The invariant adds `EscrowSolvent`. `MarketStepInv` gives
  the steps of the marketplace; the equality is preserved because they cannot touch
  the escrow's balance (`Escrow` is neither a user nor accepts transfers), which is
  why `Contracts` and `Users` are disjoint. `ReleaseNeverLacksFunds` follows: one
  pending deposit is at most the sum of all. `PayoutsSplit` needs the invariant to
  know that the three shares are whole amounts of a deposit that is there, and that
  no other transfer of the step reaches the same account. `EscrowKeepsPromise` maps
  every step to `Lock`, `Release` or a stutter.
* `ZKSettlementVerifierProofs`. The same invariant under the third contract, and the
  two action properties from it: `ReleaseNeedsProof` needs that the verifier is not a
  user, so no call other than `SettleWithProof` completes a job while it is the
  oracle. No assumption says which ids jobs have: `VerifierAssumption` has ids be
  numbers, addresses and nonces be field elements, and the rest is the arithmetic of
  `Denotes`.

### The daemon

`TaskManagerProofs` has two inductive invariants.

* `TaskInv`: the types with `LiveTaskHasRun`, `DiskCurrent`, `RecordedIsTrue` and
  `SettledOncePerSuccess`. They need each other: the types bound the number of
  settlements, which only `SettledOncePerSuccess` gives; a restart leaves no live
  task because what the file holds is a typed table or torn. Between the write of an
  outcome and what follows it, `RecordedIsTrue` keeps that the daemon runs and that
  completed means the executor exited with 0. Successes are counted as the
  cardinality of a set of runs, and only a run not yet in that set can add a
  settlement. `TornAssumption` says that a torn file is no table.
* `OwnersInv`: a task belongs to one run that has begun (`OneRunPerTask`), its
  receipt file, stream and process handle are that run's (`ReceiptsAgree`,
  `StreamsInOrder`, `HandlesKept`). From it `CompletionsHaveReceipts`,
  `StreamsEndAfterTasks` and `CancellationsKill`. These three have the hypothesis
  `Resubmission = FALSE`, as the run that checks them: a second submission of an id
  shares file, queue and handle with the first and breaks each of them.

### The web application

* `ConsoleProofs`: `JobPaysItsEstimate`, for any number of jobs, edits, accounts and
  failures. The property speaks of jobs the provider has; the invariant follows a
  job from its click. `EstimateFollowsDraft` is about the wizard: requests are
  numbered, the last one made for the fourth step is about the draft that is shown,
  because the episodes cannot be edited there and every way onto the step asks anew,
  and the estimate is that of whichever answer came last. `JobsConsistent` is about
  each job: the receipt it has is of its own deposit, what was signed is the job as it
  is, and neither is there while its provider may still change. `PostedAreOver` says
  that what was posted is a job that is over, as it is, and no job twice.
  `OneJobMoves` reduces a step of `handleSubmit` to the job that moves.
* `GymHubProofs`: `RatingsBalanced` and `LoadShowsStored`, for any gyms, pages,
  publications, ratings and failures.
  `CountersBalanced` counts, as cardinalities of sets of requests, the ratings whose
  stars are there before they are counted (`Ahead`) and those that were counted without
  their stars (`Bare`); `PageCounts` says the same of what the page shows and of the
  answer it is about to show, without which the step that shows it would not preserve
  anything. That a page rates only gyms needs `MarketTypes` and `PageGyms`: what the
  stores hold are gyms, and the page shows what they hold.
  For the loads, `Kept` says that an entry lies below the count and below every
  count that a batch still to be written was read at, which is what "no interleaved
  publication can overwrite it" amounts to. `StoresKeep` gives it to every publication
  without an overlap and to what was published before the first step. `LoadFinds` says
  of a load under way that what the store had at its start is found already or lies
  kept between the entry it reads next and the count it has read.
* `OnboardingProofs`. `OnboardingInv` makes `IndexNamesItsBundle` and `DoneHasName`
  inductive: an index, in either store or in the hands of a `hydrate` under way,
  points at a request that is past its upload, for the same wallet, with the same
  label (`IndexesLead`, `HydrateOK`), and a name goes into a patch only after its
  check (`PatchesNamed`, `TabTyped`). `OnboardingAssumption` says who may open the
  page, `EarlierAssumption` that no earlier profile was complete without a checked
  name. `MergeInv` is for `SequentialPostsMerge`: as long as nothing has failed, a
  request that did not overlap found the earlier ones of its wallet over (`Ordered`),
  and for a wallet without overlaps (`Calm`) every bundle is what merging its patches
  in order gives, while the index leads to the last one written (`Merged`).
  `ProfileAfter`, the reference, is a recursive function over positions; that it is a
  function (`AfterExists`) and that it depends only on the wallet's own requests
  (`SameProfile`, `ProfileRests`) is shown by the least position at which it would
  not.
* `GymBuilderProofs`. `BuilderInv` holds of the whole page. For `NoVersionLost` the
  difficulty is a save that comes back after the list has changed: `SavesInv` says
  that the entry a save will replace, if it is still there, has the versions the
  save was begun with, which needs that roots in the list are distinct and that a
  saved gym never changes its root. `LeftStep`, `FilterKeeps` and `FilterDrops` say
  what a filter of the list leaves. `ListedIsListed` needs what the stage of a listing
  says of the market (`ListingsInv`, `Reached`) and that the modal has one handler
  under way, whose flags and root it shows (`ModalInv`). `RecordIsOfNamedGym` needs
  that a label goes only with a history that holds a gym published as that label,
  registered or refused, wherever saves and manifests under way carry it (`Labelled`,
  `Holds`, in `NamesInv`); the registry adds that only a name which is held can be
  written. `ChatAlternates` needs what each request under way will answer to
  (`ChatInv`). `Frame` says once, for every action, what it leaves alone.
* The generator's algorithms, in the same module, for every graph over any finite
  set of node ids. `Traverse` is a loop: it ends because a node that becomes visited
  counts for more than all it can add to the queue (`Measure`, `TurnFalls`), so its
  recursive definition has a solution (`LoopExists`, by the least measure without
  one). Its invariant `SearchInv` says that what is visited or queued contains the
  root, lies in every closed set that does, and loses no successor of a visited node;
  when the queue is empty this is the smallest closed set (`IsReach`).
  `ReachableIsReach` shows the same of the plain iteration, which is closed after as
  many steps as there are nodes. Together: `TraversalsVisitReachable`. For
  `ThrowsWhenUnbounded`, what a node emits is transitive (`EmitsTransitive`): a node
  behind its own branch is emitted at every depth, and without one the emitted sets
  fall strictly from depth to depth.

### Model-checked only

`DeadlineEnforced`, `StreamEnds`, `PublishEnds`, `TabSettles` and `MergeEnds` are
liveness under fairness, `FailedJobRefundable` and `SignedJobSettles` speak of
`ENABLED`: both are outside of what the prover can do. `CancelledNotSettled` is
violated by the code. Every other property of a passing run is a theorem.

## 6. Plan

1. Proofs: the abstract specifications worth adding above the daemon and the profile
   service, with their refinements.
2. `Settlement`: `settlement.py` with the wallet nonce, the health probe, the ZK
   path, the fallback and the chain's mempool, above an abstract escrow. Claims:
   no job is released twice; a job's transaction is not replaced by another's.
3. `LogStreams`: the bounded queues, several consumers, merge jobs.
4. `Federation`: Flower client retries, one round of `LoRAFedAvg`.
5. `GymSession`: concurrent reset and step.

Not planned: trainer, supervisor and containers (sequential code over tensors and
services), the text of the generated code, the circuits' arithmetic, `provider.py`
and `metrics.py` (queries), the landing, overview, search and compute pages (they
show what others keep), the sample `Counter` contract.
