----------------------------- MODULE Onboarding -----------------------------
(***************************************************************************)
(* A browser tab of the console: the wallet it is connected to, the        *)
(* onboarding page with its four steps, the console with the header and    *)
(* the settings page, and the profile store they share.  Answers of the    *)
(* server come back whenever they do, to whatever page is then shown and   *)
(* to whatever wallet is then connected; nothing clears the store.         *)
(***************************************************************************)
EXTENDS ProfileApi

CONSTANTS Openers, \* who may be connected when the tab is opened
          NoJob,
          MaxInputs,   \* bound: what the user does, the moves between forms aside
          MaxHydrates  \* bound: requests of hydrate under way

ASSUME OnboardingAssumption == Openers \subseteq Wallets \cup {Nobody}

VARIABLES tab,      \* wallet, page, and the state of the onboarding page
          store,    \* profileStore
          hydrates, \* GET requests of hydrate, and the bundle it loads afterwards
          finish,   \* handleFinish under way
          naming,   \* handleEnsRegister of the settings page under way
          lookup,   \* wallet whose subnames are being searched for
          inputs     \* what is left of MaxInputs

session == <<tab, store, hydrates, finish, naming, lookup, inputs>>
vars == <<api, session>>

NewPage(w, page) == [wallet |-> w, page |-> page, step |-> 0, input |-> NoName,
                     checking |-> FALSE]
NewStore == [user |-> NoName, ens |-> NoName, persona |-> FirstPersona,
             done |-> FALSE, pic |-> FALSE, hydrated |-> FALSE]

Hydrate(w, page) == [wallet |-> w, page |-> page, at |-> "sent", index |-> NoIndex]

\* Each page hydrates the store when it is mounted with a wallet or the wallet changes.
\* A request beyond the bound gets no answer.
Asking(hs, w, page) == IF w = Nobody \/ Cardinality(hs) >= MaxHydrates THEN hs
                       ELSE hs \cup {Hydrate(w, page)}
Hydrating(w, page) == Asking(hydrates, w, page)

Init ==
  /\ ApiInit
  /\ \E w \in Openers, page \in {"onboarding", "console"} :
       /\ tab = NewPage(w, page)
       /\ hydrates = IF w = Nobody THEN {} ELSE {Hydrate(w, page)}
  /\ store = NewStore
  /\ finish = NoJob /\ naming = NoJob /\ lookup = Nobody /\ inputs = MaxInputs

\* save of profileStore: the patch is shown at once, the answer when it comes.  A save
\* beyond the bound is not made.
Room == Len(posts) < MaxSaves
Save(w, patch) == Room /\ store' = Patched(patch, store) /\ Post(w, patch)

----------------------------------------------------------------------------
(* The wallet, and what sends the tab from one page to the other *)

Input == inputs > 0 /\ inputs' = inputs - 1

On(page) == tab.page = page
Connected == tab.wallet # Nobody

Push(page) ==
  IF On(page) THEN UNCHANGED <<tab, hydrates>>
  ELSE /\ tab' = NewPage(tab.wallet, page)
       /\ hydrates' = Hydrating(tab.wallet, page)

Connect(w) ==
  /\ Input
  /\ ~Connected /\ On("onboarding") /\ tab.step = 0
  /\ tab' = [tab EXCEPT !.wallet = w] /\ hydrates' = Hydrating(w, tab.page)
  /\ UNCHANGED <<api, store, finish, naming, lookup>>

\* The wallet extension changes the account under the page.
SwitchAccount(w) ==
  /\ Input
  /\ Connected /\ w # tab.wallet
  /\ tab' = [tab EXCEPT !.wallet = w] /\ hydrates' = Hydrating(w, tab.page)
  /\ UNCHANGED <<api, store, finish, naming, lookup>>

\* Back on the first form.
LeaveWizard ==
  /\ Input
  /\ On("onboarding") /\ tab.step = 1
  /\ tab' = [tab EXCEPT !.wallet = Nobody, !.step = 0]
  /\ UNCHANGED <<api, store, hydrates, finish, naming, lookup>>

SignOut ==
  /\ Input
  /\ On("console")
  /\ tab' = NewPage(Nobody, "onboarding")
  /\ UNCHANGED <<api, store, hydrates, finish, naming, lookup>>

ToConsole == On("onboarding") /\ store.done /\ Connected

\* Mutant: the guard wants a name.
GuardWantsName == On("console") /\ store.hydrated /\ (~Connected \/ store.ens = NoName)

\* The guard of the console's layout.
ToOnboarding == On("console") /\ store.hydrated /\ (~Connected \/ ~store.done)

Redirect ==
  /\ \/ ToConsole /\ Push("console")
     \/ ToOnboarding /\ Push("onboarding")
  /\ UNCHANGED <<api, store, finish, naming, lookup, inputs>>

----------------------------------------------------------------------------
(* hydrate *)

\* GET /api/profile; the store may time out, and Redis is asked instead.
HydrateAnswered ==
  /\ \E h \in {g \in hydrates : g.at = "sent"} :
       \/ /\ hydrates' = (hydrates \ {h}) \cup
                           {[h EXCEPT !.at = "answered", !.index = IndexFor(h.wallet)]}
          /\ UNCHANGED faults
       \/ /\ Fault
          /\ \E at \in {"answered", "refused"} :
               hydrates' = (hydrates \ {h}) \cup
                             {[h EXCEPT !.at = at, !.index = redis[h.wallet]]}
  /\ UNCHANGED <<posts, kv, redis, owner, tab, store, finish, naming, lookup, inputs>>

\* A request that never got an answer: hydrate rejects, and what follows it is not run.
HydrateLost ==
  /\ Fault
  /\ \E h \in {g \in hydrates : g.at = "sent"} : hydrates' = hydrates \ {h}
  /\ UNCHANGED <<posts, kv, redis, owner, tab, store, finish, naming, lookup, inputs>>

\* The store after an answer, or after one that was not ok or held no profile.
Filled(h) ==
  IF h.at = "refused" \/ h.index = NoIndex THEN [store EXCEPT !.hydrated = TRUE]
  ELSE [store EXCEPT !.ens = h.index.ens, !.done = (h.index.seq > 0), !.hydrated = TRUE]

\* Mutant: the bundle of an index without a root hash is asked for.
RemainingAny(h) ==
  (hydrates \ {h}) \cup
    (IF h.at = "answered" /\ h.index # NoIndex THEN {[h EXCEPT !.at = "bundle"]} ELSE {})

\* The bundle is asked for unless the index has no root hash.
Remaining(h) ==
  (hydrates \ {h}) \cup
    (IF h.at = "answered" /\ h.index # NoIndex /\ h.index.root > 0
     THEN {[h EXCEPT !.at = "bundle"]} ELSE {})

\* What the onboarding page does once hydrate has ended, with the store as it is then.
AfterHydrate(w, st, rest) ==
  IF st.done
  THEN /\ lookup' = IF st.ens = NoName /\ lookup = Nobody THEN w ELSE lookup
       /\ IF On("console") THEN tab' = tab /\ hydrates' = rest
          ELSE /\ tab' = NewPage(tab.wallet, "console")
               /\ hydrates' = Asking(rest, tab.wallet, "console")
  ELSE /\ tab' = IF On("onboarding") THEN [tab EXCEPT !.step = 1] ELSE tab
       /\ hydrates' = rest /\ UNCHANGED lookup

HydrateApplied ==
  /\ \E h \in {g \in hydrates : g.at \in {"answered", "refused"}} :
       /\ store' = Filled(h)
       /\ IF h.page = "onboarding" THEN AfterHydrate(h.wallet, Filled(h), Remaining(h))
          ELSE hydrates' = Remaining(h) /\ UNCHANGED <<tab, lookup>>
  /\ UNCHANGED <<api, finish, naming, inputs>>

\* The bundle arrives and fills everything but onboardingComplete.
BundleLoaded ==
  /\ \E h \in {g \in hydrates : g.at = "bundle"} :
       /\ hydrates' = hydrates \ {h}
       /\ store' = Patched([posts[h.index.root].bundle EXCEPT !.done = store.done], store)
  /\ UNCHANGED <<api, tab, finish, naming, lookup, inputs>>

BundleLost ==
  /\ Fault
  /\ \E h \in {g \in hydrates : g.at = "bundle"} : hydrates' = hydrates \ {h}
  /\ UNCHANGED <<posts, kv, redis, owner, tab, store, finish, naming, lookup, inputs>>

\* The search for the wallet's subnames ends, with one of them, with none or with an error.
LookupEnds ==
  /\ lookup # Nobody /\ lookup' = Nobody
  /\ \/ \E label \in Labels : owner[label] = lookup /\ Save(lookup, [ens |-> label])
     \/ UNCHANGED <<store, posts>>
  /\ UNCHANGED <<kv, redis, owner, faults, tab, hydrates, finish, naming, inputs>>

----------------------------------------------------------------------------
(* The steps of the onboarding page *)

Wizard == On("onboarding")
FormStays == UNCHANGED <<api, store, hydrates, finish, naming, lookup, inputs>>

TypeName ==
  /\ Wizard /\ tab.step = 1
  /\ \E n \in Names : tab' = [tab EXCEPT !.input = n]
  /\ FormStays

\* Mutant: the button moves on with any name.
NameNextUnchecked ==
  /\ Wizard /\ tab.step = 1 /\ tab.input # NoName
  /\ tab' = [tab EXCEPT !.step = 2]
  /\ FormStays

NameNext ==
  /\ Wizard /\ tab.step = 1 /\ tab.input \in Valid
  /\ tab' = [tab EXCEPT !.step = 2]
  /\ FormStays

ChoosePersona ==
  /\ Input
  /\ Wizard /\ tab.step = 2
  /\ \E p \in Personas : store' = [store EXCEPT !.persona = p]
  /\ UNCHANGED <<api, tab, hydrates, finish, naming, lookup>>

\* Back and Continue of the second form, Back of the third.
StepTo ==
  /\ Wizard
  /\ \E move \in {<<2, 1>>, <<2, 3>>, <<3, 2>>} :
       tab.step = move[1] /\ tab' = [tab EXCEPT !.step = move[2]]
  /\ FormStays

\* handleFinish works on the form and the store of the moment it was started, here with no
\* picture chosen on the first form.
Launch ==
  /\ Input
  /\ Wizard /\ Connected /\ tab.step = 3 /\ ~tab.checking /\ finish = NoJob /\ Room
  /\ tab' = [tab EXCEPT !.checking = TRUE]
  /\ finish' = [wallet |-> tab.wallet, name |-> tab.input, ens |-> store.ens,
                persona |-> store.persona, pic |-> FALSE, post |-> 0,
                at |-> IF store.ens = NoName THEN "asked" ELSE "named"]
  /\ UNCHANGED <<api, store, hydrates, naming, lookup>>

\* A step of the registration a job waits for.
Naming(job) ==
  \/ /\ job.at = "asked"
     /\ \/ job' = [job EXCEPT !.at = Lookup(job.wallet, SlugOf[job.name])]
           /\ UNCHANGED faults
        \/ Fault /\ job' = [job EXCEPT !.at = "refused"]
     /\ UNCHANGED owner
  \/ /\ job.at = "free"
     /\ \E at \in {"named", "refused"} :
          /\ Registered(job.wallet, SlugOf[job.name], at)
          /\ job' = [job EXCEPT !.at = at]
     /\ UNCHANGED faults

FinishNames ==
  /\ finish # NoJob /\ Naming(finish)
  /\ UNCHANGED <<posts, kv, redis, tab, store, hydrates, naming, lookup, inputs>>

\* Registered or refused, the name that was asked for is the name that is saved.
FinishSaves ==
  /\ finish # NoJob /\ finish.at \in {"named", "refused"}
  /\ Save(finish.wallet,
          [user |-> finish.name, persona |-> finish.persona, done |-> TRUE,
           pic |-> finish.pic,
           ens |-> IF finish.ens # NoName THEN finish.ens ELSE SlugOf[finish.name]])
  /\ finish' = [finish EXCEPT !.at = "saving", !.post = Len(posts')]
  /\ UNCHANGED <<kv, redis, owner, faults, tab, hydrates, naming, lookup, inputs>>

----------------------------------------------------------------------------
(* The console: the header's persona button and the settings page *)

ChangePersona ==
  /\ Input
  /\ On("console") /\ Connected
  /\ \E p \in Personas \ {store.persona} : Save(tab.wallet, [persona |-> p])
  /\ UNCHANGED <<kv, redis, owner, faults, tab, hydrates, finish, naming, lookup>>

ChangePicture ==
  /\ Input
  /\ On("console") /\ Connected
  /\ Save(tab.wallet, [pic |-> TRUE])
  /\ UNCHANGED <<kv, redis, owner, faults, tab, hydrates, finish, naming, lookup>>

AskName ==
  /\ Input
  /\ On("console") /\ Connected /\ store.ens = NoName /\ naming = NoJob /\ Room
  /\ \E n \in Valid :
       naming' = [wallet |-> tab.wallet, name |-> n, at |-> "asked", post |-> 0]
  /\ UNCHANGED <<api, tab, store, hydrates, finish, lookup>>

NamingStep ==
  /\ naming # NoJob /\ Naming(naming)
  /\ UNCHANGED <<posts, kv, redis, tab, store, hydrates, finish, lookup, inputs>>

NameSaved ==
  /\ naming # NoJob /\ naming.at = "named"
  /\ Save(naming.wallet, [ens |-> SlugOf[naming.name], user |-> naming.name])
  /\ naming' = [naming EXCEPT !.at = "saving", !.post = Len(posts')]
  /\ UNCHANGED <<kv, redis, owner, faults, tab, hydrates, finish, lookup, inputs>>

NameRefused ==
  /\ naming # NoJob /\ naming.at = "refused" /\ naming' = NoJob
  /\ UNCHANGED <<api, tab, store, hydrates, finish, lookup, inputs>>

----------------------------------------------------------------------------
(* Answers of POST /api/profile *)

Over(i, at) == posts' = [posts EXCEPT ![i].at = at]
Awaits(job, i) == job # NoJob /\ job.at = "saving" /\ job.post = i
NamingAfter(i) == naming' = IF Awaits(naming, i) THEN NoJob ELSE naming

\* The answer fills the store; after handleFinish's own the page is left.
SaveAnswered(i) ==
  /\ posts[i].at = "answered" /\ Over(i, "over")
  /\ store' = Patched(posts[i].bundle, store)
  /\ IF Awaits(finish, i)
     THEN /\ finish' = NoJob
          /\ IF On("console") THEN UNCHANGED <<tab, hydrates>> ELSE Push("console")
     ELSE UNCHANGED <<finish, tab, hydrates>>
  /\ NamingAfter(i)
  /\ UNCHANGED <<kv, redis, owner, faults, lookup, inputs>>

\* Nothing catches a failed save in handleFinish: the button stays as it is.
SaveFailed(i) ==
  /\ posts[i].at = "failed" /\ Over(i, "lost")
  /\ finish' = IF Awaits(finish, i) THEN NoJob ELSE finish
  /\ NamingAfter(i)
  /\ UNCHANGED <<kv, redis, owner, faults, tab, store, hydrates, lookup, inputs>>

----------------------------------------------------------------------------
ServerStep ==
  /\ \E i \in DOMAIN posts : PostStep(i)
  /\ UNCHANGED session

HydrateStep == HydrateAnswered \/ HydrateApplied \/ BundleLoaded
JobStep == FinishNames \/ FinishSaves \/ NamingStep \/ NameSaved \/ NameRefused
             \/ LookupEnds
Answer == \E i \in DOMAIN posts : SaveAnswered(i) \/ SaveFailed(i)

User == \/ \E w \in Wallets : Connect(w) \/ SwitchAccount(w)
        \/ LeaveWizard \/ SignOut \/ TypeName \/ NameNext
        \/ ChoosePersona \/ StepTo \/ Launch
        \/ ChangePersona \/ ChangePicture \/ AskName

Next == \/ User \/ Redirect \/ HydrateStep \/ HydrateLost \/ BundleLost
        \/ JobStep \/ Answer \/ ServerStep

\* Effects run, requests end; the user need not do anything.
Spec == /\ Init /\ [][Next]_vars
        /\ WF_vars(Redirect) /\ WF_vars(HydrateStep)

----------------------------------------------------------------------------
Tabs == [wallet : Wallets \cup {Nobody}, page : {"onboarding", "console"}, step : 0..3,
         input : Names \cup {NoName}, checking : BOOLEAN]

(* The store, the tab and the requests are what their types say.           *)
ProfileTypeOK ==
  /\ \A i \in DOMAIN posts : /\ posts[i].wallet \in Wallets
                             /\ posts[i].bundle \in Bundle
                             /\ {posts[i].root, posts[i].seq} \subseteq 0..i
  /\ \A w \in Wallets : {kv[w], redis[w]} \subseteq Index \cup {NoIndex}
  /\ owner \in [Labels -> Wallets \cup {Nobody, Someone}]
  /\ tab \in Tabs
  /\ [f \in DOMAIN EmptyBundle |-> store[f]] \in Bundle /\ store.hydrated \in BOOLEAN
  /\ \A h \in hydrates : h.at = "bundle" => h.index.root \in DOMAIN posts
  /\ lookup \in Wallets \cup {Nobody} /\ faults \in 0..MaxFaults

(* Whatever fails and whatever overtakes what, an index of a wallet leads  *)
(* to a bundle of that wallet, stored under the name the index shows: the  *)
(* name GET /api/profile answers with and the name in the bundle that      *)
(* hydrate loads next never differ.                                        *)
IndexNamesItsBundle ==
  \A w \in Wallets : \A ix \in {kv[w], redis[w]} \ {NoIndex} :
    /\ ix.root > 0 => /\ posts[ix.root].wallet = w /\ posts[ix.root].bundle.ens = ix.ens
                      /\ posts[ix.root].at # "sent"
    /\ ix.seq \in {0, ix.root}

(* Late answers of hydrate move the wizard back to its first form, wallets *)
(* change under it and its handler reads the name when it is launched, yet *)
(* no profile is stored as complete without a name that passed the check.  *)
DoneHasName ==
  \A i \in DOMAIN posts : posts[i].bundle.done => posts[i].bundle.user \in Valid

(* As long as no call failed and a wallet's requests did not overlap, its  *)
(* stored profile is all its patches applied in the order they were sent:  *)
(* no field is lost that a request did not name.                           *)
SequentialPostsMerge ==
  \A w \in Wallets :
    (/\ faults = 0
     /\ \A i \in DOMAIN posts : posts[i].wallet = w => posts[i].at = "over" /\ ~posts[i].overlaps)
      => BundleAt(IndexFor(w)) = ProfileAfter(posts, w)[Len(posts)]

(* The console's guard and the two redirects of onboarding never send the  *)
(* tab back and forth: again and again it rests on the page it belongs to. *)
TabSettles == []<>~(ToConsole \/ ToOnboarding)
=============================================================================
