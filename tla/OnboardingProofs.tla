-------------------------- MODULE OnboardingProofs --------------------------
(***************************************************************************)
(* The profile service and the tab that uses it are typed, an index leads  *)
(* to the bundle it names, a complete profile has a name that passed the   *)
(* check, and requests that neither overlap nor fail lose no field, for    *)
(* any wallets, names, subnames, earlier requests, failures and numbers of *)
(* requests.                                                               *)
(***************************************************************************)
EXTENDS Onboarding, TLAPS, SequenceTheorems, WellFoundedInduction

Fields == {"user", "ens", "persona", "done", "pic"}
Stages == {"sent", "uploaded", "indexed", "answered", "failed", "over", "lost"}

\* A request to POST /api/profile.
PostRec == [wallet : Wallets, patch : Patches, at : Stages, bundle : Bundle,
            root : Nat, seq : Nat, overlaps : BOOLEAN]

\* A bundle is complete only with a name that passed the check.
Complete(bundle) == bundle.done => bundle.user \in Valid

\* What the pages put into a patch: a name that passed the check, and no completion
\* without a name.
Named(patch) == /\ "user" \in DOMAIN patch => patch["user"] \in Valid
                /\ "done" \in DOMAIN patch => "user" \in DOMAIN patch

PostsTyped == /\ posts \in Seq(PostRec)
              /\ \A i \in DOMAIN posts : /\ posts[i].root \in {0, i}
                                         /\ posts[i].seq \in {0, posts[i].root}

PatchesNamed == \A i \in DOMAIN posts : posts[i].at = "sent" => Named(posts[i].patch)

\* An index and what it leads to, kv[w] or redis[w].
Leads(w, ix) ==
  /\ ix \in Index \cup {NoIndex}
  /\ ix # NoIndex =>
       /\ ix.root \in 0..Len(posts) /\ ix.seq \in {0, ix.root}
       /\ ix.root > 0 => /\ posts[ix.root].wallet = w /\ posts[ix.root].bundle.ens = ix.ens
                         /\ posts[ix.root].at # "sent"

IndexesLead == /\ kv \in [Wallets -> Index \cup {NoIndex}]
               /\ redis \in [Wallets -> Index \cup {NoIndex}]
               /\ \A w \in Wallets : Leads(w, kv[w]) /\ Leads(w, redis[w])

RegistryTyped == /\ owner \in [Labels -> Wallets \cup {Nobody, Someone}]
                 /\ faults \in 0..MaxFaults

\* What the server keeps.
ApiInv == PostsTyped /\ PatchesNamed /\ IndexesLead /\ DoneHasName /\ RegistryTyped

Pages == {"onboarding", "console"}

\* The name is past the first form only when it passed the check.
TabTyped == tab \in Tabs /\ (tab.step \in {2, 3} => tab.input \in Valid)

StoreTyped ==
  store \in [user : Names \cup {NoName}, ens : Labels \cup {NoName}, persona : Personas,
             done : BOOLEAN, pic : BOOLEAN, hydrated : BOOLEAN]

JobStages == {"asked", "free", "named", "refused", "saving"}

JobsTyped ==
  /\ finish # NoJob =>
       finish \in [wallet : Wallets, name : Valid, ens : Labels \cup {NoName},
                   persona : Personas, pic : BOOLEAN, post : Nat, at : JobStages]
  /\ naming # NoJob =>
       naming \in [wallet : Wallets, name : Valid, at : JobStages, post : Nat]

HydrateRec == [wallet : Wallets, page : Pages,
               at : {"sent", "answered", "refused", "bundle"}, index : Index \cup {NoIndex}]

\* A request of hydrate holds an index that was stored.
HydrateOK(h) ==
  /\ h \in HydrateRec
  /\ h.index # NoIndex => h.index.root \in 0..Len(posts)
  /\ h.at = "bundle" => h.index # NoIndex /\ h.index.root > 0

HydratesTyped == \A h \in hydrates : HydrateOK(h)

\* What the tab keeps.
SessionInv == /\ TabTyped /\ StoreTyped /\ JobsTyped /\ HydratesTyped
              /\ lookup \in Wallets \cup {Nobody}

OnboardingInv == ApiInv /\ SessionInv

-----------------------------------------------------------------------------
(* Patches and what merging them makes.                                    *)

(* A bundle merged with a patch is a bundle, and stays complete only with  *)
(* a name that passed the check.                                           *)
LEMMA PatchedBundle ==
  ASSUME NEW bundle \in Bundle, NEW patch \in Patches
  PROVE  /\ Patched(patch, bundle) \in Bundle
         /\ Complete(bundle) /\ Named(patch) => Complete(Patched(patch, bundle))
<1>1. PICK fs \in SUBSET Fields, b \in Bundle : patch = [f \in fs |-> b[f]]
  BY DEF Patches, EmptyBundle, Fields
<1>2. Patched(patch, bundle)
        = [f \in Fields |-> IF f \in fs THEN b[f] ELSE bundle[f]]
  BY <1>1 DEF Patched, Bundle, Fields
<1>3. Patched(patch, bundle) \in Bundle
  BY <1>2 DEF Bundle, Fields
<1>4. ASSUME Complete(bundle), Named(patch)
      PROVE  Complete(Patched(patch, bundle))
  BY <1>1, <1>2, <1>4 DEF Complete, Named, Bundle, Fields
<1>5. QED
  BY <1>3, <1>4

(* The same for the store, which holds one field more, and for a whole     *)
(* bundle as the patch.                                                    *)
LEMMA PatchedStore ==
  ASSUME StoreTyped, NEW patch \in Patches, store' = Patched(patch, store)
  PROVE  StoreTyped'
<1>1. PICK fs \in SUBSET Fields, b \in Bundle : patch = [f \in fs |-> b[f]]
  BY DEF Patches, EmptyBundle, Fields
<1>2. store' = [f \in Fields \cup {"hydrated"} |-> IF f \in fs THEN b[f] ELSE store[f]]
  BY <1>1 DEF Patched, StoreTyped, Fields
<1>3. QED
  BY <1>2 DEF StoreTyped, Bundle, Fields

(* A whole bundle is a patch, and so is what some of its fields make.      *)
LEMMA PartOfBundle ==
  ASSUME NEW fs \in SUBSET Fields, NEW b \in Bundle
  PROVE  [f \in fs |-> b[f]] \in Patches /\ b \in Patches
<1>1. Fields = DOMAIN EmptyBundle
  BY DEF Fields, EmptyBundle
<1>2. [f \in fs |-> b[f]] \in Patches
  BY <1>1 DEF Patches
<1>3. b = [f \in Fields |-> b[f]]
  BY DEF Bundle, Fields
<1>4. b \in Patches
  BY <1>1, <1>3 DEF Patches
<1>5. QED
  BY <1>2, <1>4

(* The patches the pages send.                                             *)
LEMMA EnsPatch ==
  ASSUME NEW label \in Labels
  PROVE  [ens |-> label] \in Patches /\ Named([ens |-> label])
<1> DEFINE b == [EmptyBundle EXCEPT !.ens = label]
<1>1. b \in Bundle
  BY ProfileAssumption DEF Bundle, EmptyBundle
<1>2. [ens |-> label] = [f \in {"ens"} |-> b[f]]
  BY DEF EmptyBundle
<1>3. QED
  BY <1>1, <1>2, PartOfBundle DEF Named, Fields

LEMMA PersonaPatch ==
  ASSUME NEW p \in Personas
  PROVE  [persona |-> p] \in Patches /\ Named([persona |-> p])
<1> DEFINE b == [EmptyBundle EXCEPT !.persona = p]
<1>1. b \in Bundle
  BY ProfileAssumption DEF Bundle, EmptyBundle
<1>2. [persona |-> p] = [f \in {"persona"} |-> b[f]]
  BY DEF EmptyBundle
<1>3. QED
  BY <1>1, <1>2, PartOfBundle DEF Named, Fields

LEMMA PicturePatch ==
  ASSUME NEW on \in BOOLEAN
  PROVE  [pic |-> on] \in Patches /\ Named([pic |-> on])
<1> DEFINE b == [EmptyBundle EXCEPT !.pic = on]
<1>1. b \in Bundle
  BY ProfileAssumption DEF Bundle, EmptyBundle
<1>2. [pic |-> on] = [f \in {"pic"} |-> b[f]]
  BY DEF EmptyBundle
<1>3. QED
  BY <1>1, <1>2, PartOfBundle DEF Named, Fields

LEMMA NamePatch ==
  ASSUME NEW label \in Labels, NEW n \in Valid
  PROVE  [ens |-> label, user |-> n] \in Patches /\ Named([ens |-> label, user |-> n])
<1> DEFINE b == [EmptyBundle EXCEPT !.ens = label, !.user = n]
<1>1. b \in Bundle
  BY ProfileAssumption DEF Bundle, EmptyBundle
<1>2. [ens |-> label, user |-> n] = [f \in {"ens", "user"} |-> b[f]]
  <2>1. b["ens"] = label /\ b["user"] = n
    BY DEF EmptyBundle
  <2> HIDE DEF b
  <2>2. QED
    BY <2>1
<1>3. QED
  BY <1>1, <1>2, PartOfBundle DEF Named, Fields

-----------------------------------------------------------------------------
(* Steps of the server.                                                    *)

(* A step that changes one request, leaving its wallet and whatever an     *)
(* index shows of it alone, keeps what the indexes lead to.                *)
LEMMA RequestChanges ==
  ASSUME ApiInv, NEW i \in DOMAIN posts, NEW p \in PostRec,
         posts' = [posts EXCEPT ![i] = p], p.wallet = posts[i].wallet,
         p.root \in {0, i}, p.seq \in {0, p.root}, p.at # "sent", Complete(p.bundle),
         posts[i].at # "sent" => p.bundle = posts[i].bundle
  PROVE  /\ PostsTyped' /\ PatchesNamed' /\ DoneHasName'
         /\ Len(posts') = Len(posts)
         /\ \A w \in Wallets, ix \in Index \cup {NoIndex} : Leads(w, ix) => Leads(w, ix)'
<1>1. /\ posts \in Seq(PostRec) /\ DOMAIN posts = 1..Len(posts)
      /\ \A j \in DOMAIN posts : /\ posts[j].root \in {0, j}
                                 /\ posts[j].seq \in {0, posts[j].root}
  BY DEF ApiInv, PostsTyped
<1>2. /\ posts' \in Seq(PostRec) /\ DOMAIN posts' = DOMAIN posts
      /\ Len(posts') = Len(posts)
      /\ \A j \in DOMAIN posts : posts'[j] = IF j = i THEN p ELSE posts[j]
  BY <1>1
<1>3. PostsTyped'
  BY <1>1, <1>2 DEF PostsTyped
<1>4. PatchesNamed'
  BY <1>2 DEF ApiInv, PatchesNamed
<1>5. DoneHasName'
  BY <1>2 DEF ApiInv, DoneHasName, Complete
<1>6. ASSUME NEW w \in Wallets, NEW ix \in Index \cup {NoIndex}, Leads(w, ix)
      PROVE  Leads(w, ix)'
  <2>1. CASE ix # NoIndex /\ ix.root > 0
    <3>1. ix.root \in DOMAIN posts
      BY <1>1, <1>6, <2>1 DEF Leads
    <3>2. QED
      BY <1>2, <1>6, <2>1, <3>1 DEF Leads
  <2>2. CASE ~(ix # NoIndex /\ ix.root > 0)
    BY <1>2, <1>6, <2>2 DEF Leads
  <2>3. QED
    BY <2>1, <2>2
<1>7. QED
  BY <1>2, <1>3, <1>4, <1>5, <1>6

(* The bundle an index leads to is a bundle, complete only with a name.    *)
LEMMA BundleFound ==
  ASSUME ApiInv, NEW w \in Wallets, NEW ix \in {kv[w], redis[w]}
  PROVE  BundleAt(ix) \in Bundle /\ Complete(BundleAt(ix))
<1>1. EmptyBundle \in Bundle /\ Complete(EmptyBundle)
  BY ProfileAssumption DEF EmptyBundle, Bundle, Complete
<1>2. Leads(w, ix)
  BY DEF ApiInv, IndexesLead
<1>3. ASSUME ix # NoIndex, ix.seq > 0
      PROVE  posts[ix.seq] \in PostRec /\ Complete(posts[ix.seq].bundle)
  <2>1. posts \in Seq(PostRec)
    BY DEF ApiInv, PostsTyped
  <2>2. ix.seq \in 1..Len(posts)
    BY <1>2, <1>3 DEF Leads, Index
  <2>3. QED
    BY <2>1, <2>2 DEF ApiInv, DoneHasName, Complete
<1>4. QED
  BY <1>1, <1>3 DEF BundleAt, PostRec

(* Reading the index, fetching, merging and uploading.                     *)
LEMMA MergeKeeps ==
  ASSUME ApiInv, NEW i \in DOMAIN posts, PostMerges(i)
  PROVE  ApiInv' /\ Len(posts') = Len(posts)
<1>1. /\ posts \in Seq(PostRec) /\ DOMAIN posts = 1..Len(posts) /\ i \in Nat
      /\ posts[i] \in PostRec /\ posts[i].at = "sent" /\ Named(posts[i].patch)
  BY DEF ApiInv, PostsTyped, PatchesNamed, PostMerges
<1>2. /\ EmptyBundle \in Bundle /\ Complete(EmptyBundle)
      /\ faults' \in 0..MaxFaults
      /\ UNCHANGED <<kv, redis, owner>>
  BY ProfileAssumption
  DEF EmptyBundle, Bundle, Complete, PostMerges, Fault, ApiInv, RegistryTyped
<1>3. PICK old \in Bundle, root \in {0, i}, seq \in {0, i} :
        /\ Complete(old) /\ seq \in {0, root} /\ MergeInto(i, old, root, seq)
  <2>1. posts[i].wallet \in Wallets
    BY <1>1 DEF PostRec
  <2>2. /\ BundleAt(IndexFor(posts[i].wallet)) \in Bundle
        /\ Complete(BundleAt(IndexFor(posts[i].wallet)))
        /\ BundleAt(redis[posts[i].wallet]) \in Bundle
        /\ Complete(BundleAt(redis[posts[i].wallet]))
    BY <2>1, BundleFound DEF IndexFor
  <2>3. QED
    BY <1>2, <2>2 DEF PostMerges
<1>4. PICK p \in PostRec :
        /\ posts' = [posts EXCEPT ![i] = p] /\ p.wallet = posts[i].wallet
        /\ p.root = root /\ p.seq = seq /\ p.at = "uploaded" /\ Complete(p.bundle)
  <2> DEFINE merged == Patched(posts[i].patch, old)
             p == [posts[i] EXCEPT !.at = "uploaded", !.bundle = merged, !.root = root,
                                   !.seq = seq]
  <2>1. merged \in Bundle /\ Complete(merged)
    BY <1>1, <1>3, PatchedBundle DEF PostRec
  <2>2. posts' = [posts EXCEPT ![i] = p]
    BY <1>1, <1>3 DEF MergeInto
  <2> HIDE DEF merged
  <2>3. root \in Nat /\ seq \in Nat
    BY <1>1, <1>3
  <2>4. /\ p.wallet = posts[i].wallet /\ p.patch = posts[i].patch /\ p.at = "uploaded"
        /\ p.bundle = merged /\ p.root = root /\ p.seq = seq
        /\ p.overlaps = posts[i].overlaps
    BY <1>1 DEF PostRec
  <2>5. p \in PostRec
    BY <1>1, <2>1, <2>3 DEF PostRec, Stages
  <2> HIDE DEF p
  <2>6. QED
    BY <2>1, <2>2, <2>4, <2>5
<1>5. /\ PostsTyped' /\ PatchesNamed' /\ DoneHasName' /\ Len(posts') = Len(posts)
      /\ \A w \in Wallets, ix \in Index \cup {NoIndex} : Leads(w, ix) => Leads(w, ix)'
  BY <1>1, <1>3, <1>4, RequestChanges
<1>6. IndexesLead'
  BY <1>2, <1>5 DEF ApiInv, IndexesLead
<1>7. QED
  BY <1>2, <1>5, <1>6 DEF ApiInv, RegistryTyped

(* A request that has uploaded moves on; its index leads to its bundle.    *)
LEMMA StageKeeps ==
  ASSUME ApiInv, NEW i \in DOMAIN posts, NEW stage \in Stages \ {"sent"},
         posts[i].at # "sent", posts' = [posts EXCEPT ![i].at = stage],
         NEW w, w = posts[i].wallet, NEW ix, ix = IndexOf(i, posts[i])
  PROVE  /\ PostsTyped' /\ PatchesNamed' /\ DoneHasName' /\ Len(posts') = Len(posts)
         /\ \A u \in Wallets, x \in Index \cup {NoIndex} : Leads(u, x) => Leads(u, x)'
         /\ w \in Wallets /\ ix \in Index /\ Leads(w, ix)'
<1>1. /\ posts \in Seq(PostRec) /\ DOMAIN posts = 1..Len(posts) /\ i \in 1..Len(posts)
      /\ posts[i] \in PostRec /\ Complete(posts[i].bundle)
      /\ posts[i].root \in {0, i} /\ posts[i].seq \in {0, posts[i].root}
  BY DEF ApiInv, PostsTyped, DoneHasName, Complete
<1>2. PICK p \in PostRec :
        /\ p.wallet = posts[i].wallet /\ p.bundle = posts[i].bundle
        /\ p.root = posts[i].root /\ p.seq = posts[i].seq /\ p.at = stage
        /\ posts' = [posts EXCEPT ![i] = p]
  <2> DEFINE p == [posts[i] EXCEPT !.at = stage]
  <2>1. /\ p \in PostRec /\ p.wallet = posts[i].wallet /\ p.bundle = posts[i].bundle
        /\ p.root = posts[i].root /\ p.seq = posts[i].seq /\ p.at = stage
    BY <1>1 DEF PostRec
  <2>2. posts' = [posts EXCEPT ![i] = p]
    OBVIOUS
  <2> HIDE DEF p
  <2>3. QED
    BY <2>1, <2>2
<1>3. /\ PostsTyped' /\ PatchesNamed' /\ DoneHasName' /\ Len(posts') = Len(posts)
      /\ \A u \in Wallets, x \in Index \cup {NoIndex} : Leads(u, x) => Leads(u, x)'
  <2>1. p.root \in {0, i} /\ p.seq \in {0, p.root} /\ p.at # "sent" /\ Complete(p.bundle)
    BY <1>1, <1>2
  <2>2. QED
    BY <1>2, <2>1, RequestChanges
<1>4. /\ w \in Wallets /\ ix \in Index /\ ix.ens = p.bundle.ens
      /\ ix.root = p.root /\ ix.seq = p.seq
  BY <1>1, <1>2 DEF IndexOf, Index, PostRec, Bundle
<1>5. posts'[i] = p
  BY <1>1, <1>2
<1>6. Leads(w, ix)'
  BY <1>1, <1>2, <1>3, <1>4, <1>5 DEF Leads
<1>7. QED
  BY <1>3, <1>4, <1>6

(* Writing the index to the key-value store, or failing to.                *)
LEMMA IndexKeeps ==
  ASSUME ApiInv, NEW i \in DOMAIN posts, PostIndexes(i)
  PROVE  ApiInv' /\ Len(posts') = Len(posts)
<1>1. PICK w, ix : w = posts[i].wallet /\ ix = IndexOf(i, posts[i])
  OBVIOUS
<1>2. posts[i].at # "sent" /\ posts' = [posts EXCEPT ![i].at = "indexed"]
  BY DEF PostIndexes
<1>3. /\ PostsTyped' /\ PatchesNamed' /\ DoneHasName' /\ Len(posts') = Len(posts)
      /\ \A u \in Wallets, x \in Index \cup {NoIndex} : Leads(u, x) => Leads(u, x)'
      /\ w \in Wallets /\ ix \in Index /\ Leads(w, ix)'
  BY <1>1, <1>2, StageKeeps DEF Stages
<1>4. kv' \in {kv, [kv EXCEPT ![w] = ix]} /\ redis' = redis /\ RegistryTyped'
  BY <1>1, ProfileAssumption DEF PostIndexes, Fault, ApiInv, RegistryTyped
<1>5. IndexesLead'
  BY <1>3, <1>4 DEF ApiInv, IndexesLead
<1>6. QED
  BY <1>3, <1>4, <1>5 DEF ApiInv

(* Writing it to Redis and answering, or failing.                          *)
LEMMA AnswerKeeps ==
  ASSUME ApiInv, NEW i \in DOMAIN posts, PostAnswers(i)
  PROVE  ApiInv' /\ Len(posts') = Len(posts)
<1>1. PICK w, ix : w = posts[i].wallet /\ ix = IndexOf(i, posts[i])
  OBVIOUS
<1>2. PICK stage \in Stages \ {"sent"} : posts' = [posts EXCEPT ![i].at = stage]
  BY DEF PostAnswers, Stages
<1>3. /\ PostsTyped' /\ PatchesNamed' /\ DoneHasName' /\ Len(posts') = Len(posts)
      /\ \A u \in Wallets, x \in Index \cup {NoIndex} : Leads(u, x) => Leads(u, x)'
      /\ w \in Wallets /\ ix \in Index /\ Leads(w, ix)'
  <2>1. posts[i].at # "sent"
    BY DEF PostAnswers
  <2>2. QED
    BY <1>1, <1>2, <2>1, StageKeeps
<1>4. redis' \in {redis, [redis EXCEPT ![w] = ix]} /\ kv' = kv /\ RegistryTyped'
  BY <1>1, ProfileAssumption DEF PostAnswers, Fault, ApiInv, RegistryTyped
<1>5. IndexesLead'
  BY <1>3, <1>4 DEF ApiInv, IndexesLead
<1>6. QED
  BY <1>3, <1>4, <1>5 DEF ApiInv

(* Every step of the server keeps what it keeps.                           *)
LEMMA ServerKeeps ==
  ASSUME ApiInv, NEW i \in DOMAIN posts, PostStep(i)
  PROVE  ApiInv' /\ Len(posts') = Len(posts)
BY MergeKeeps, IndexKeeps, AnswerKeeps DEF PostStep

(* The page takes note of an answer.                                       *)
LEMMA OverKeeps ==
  ASSUME ApiInv, NEW i \in DOMAIN posts, NEW stage \in {"over", "lost"},
         posts[i].at # "sent", Over(i, stage), UNCHANGED <<kv, redis, owner, faults>>
  PROVE  ApiInv' /\ Len(posts') = Len(posts)
<1>1. PICK w, ix : w = posts[i].wallet /\ ix = IndexOf(i, posts[i])
  OBVIOUS
<1>2. stage \in Stages \ {"sent"} /\ posts' = [posts EXCEPT ![i].at = stage]
  BY DEF Over, Stages
<1>3. /\ PostsTyped' /\ PatchesNamed' /\ DoneHasName' /\ Len(posts') = Len(posts)
      /\ \A u \in Wallets, x \in Index \cup {NoIndex} : Leads(u, x) => Leads(u, x)'
  BY <1>1, <1>2, StageKeeps
<1>4. QED
  BY <1>3 DEF ApiInv, IndexesLead, RegistryTyped

(* A request is sent: it is the newest, and no index leads to it yet.      *)
LEMMA PostKeeps ==
  ASSUME ApiInv, NEW w \in Wallets, NEW patch \in Patches, Named(patch), Post(w, patch),
         UNCHANGED <<kv, redis, owner, faults>>
  PROVE  ApiInv' /\ Len(posts') = Len(posts) + 1
<1>1. /\ posts \in Seq(PostRec) /\ DOMAIN posts = 1..Len(posts)
      /\ \A j \in DOMAIN posts : /\ posts[j].root \in {0, j}
                                 /\ posts[j].seq \in {0, posts[j].root}
  BY DEF ApiInv, PostsTyped
<1>2. PICK p \in PostRec : /\ posts' = Append(posts, p) /\ p.root = 0 /\ p.seq = 0
                           /\ p.patch = patch /\ p.bundle.done = FALSE
  <2>1. EmptyBundle \in Bundle /\ EmptyBundle.done = FALSE
    BY ProfileAssumption DEF EmptyBundle, Bundle
  <2>2. /\ Request(w, patch) \in PostRec /\ Request(w, patch).root = 0
        /\ Request(w, patch).seq = 0 /\ Request(w, patch).patch = patch
        /\ Request(w, patch).bundle = EmptyBundle
    BY <2>1 DEF Request, PostRec, Stages
  <2>3. QED
    BY <2>1, <2>2 DEF Post
<1>3. /\ posts' \in Seq(PostRec) /\ Len(posts') = Len(posts) + 1
      /\ DOMAIN posts' = 1..(Len(posts) + 1)
      /\ posts'[Len(posts) + 1] = p
      /\ \A j \in 1..Len(posts) : posts'[j] = posts[j]
  BY <1>1, <1>2
<1>4. PostsTyped' /\ PatchesNamed' /\ DoneHasName'
  BY <1>1, <1>2, <1>3 DEF ApiInv, PostsTyped, PatchesNamed, DoneHasName
<1>5. ASSUME NEW u \in Wallets, NEW ix \in Index \cup {NoIndex}, Leads(u, ix)
      PROVE  Leads(u, ix)'
  <2>1. CASE ix # NoIndex /\ ix.root > 0
    BY <1>1, <1>3, <1>5, <2>1 DEF Leads, Index
  <2>2. CASE ~(ix # NoIndex /\ ix.root > 0)
    BY <1>1, <1>3, <1>5, <2>2 DEF Leads, Index
  <2>3. QED
    BY <2>1, <2>2
<1>6. QED
  BY <1>3, <1>4, <1>5 DEF ApiInv, IndexesLead, RegistryTyped

-----------------------------------------------------------------------------
(* The profiles stored before.                                             *)

(* A non-empty set of numbers has a least one.                             *)
LEMMA LeastNumber ==
  ASSUME NEW S \in SUBSET Nat, S # {}
  PROVE  \E m \in S : \A k \in S : m <= k
<1>1. PICK m \in S : \A k \in S : ~(<<k, m>> \in OpToRel(<, Nat))
  BY NatLessThanWellFounded, WFMin, Zenon
<1>2. \A k \in S : ~(k < m)
  BY <1>1 DEF OpToRel
<1>3. QED
  BY <1>2

(* A non-empty set of positions of a sequence has a last one.              *)
LEMMA LastPosition ==
  ASSUME NEW n \in Nat, NEW own \in SUBSET (1..n), own # {}
  PROVE  \E i \in own : \A j \in own : j <= i
<1> DEFINE Bounds == {m \in Nat : \A j \in own : j <= m}
<1>1. n \in Bounds
  OBVIOUS
<1>2. PICK m \in Bounds : \A k \in Bounds : m <= k
  <2>1. Bounds \in SUBSET Nat /\ Bounds # {}
    BY <1>1
  <2> HIDE DEF Bounds
  <2>2. QED
    BY <2>1, LeastNumber
<1>3. m \in own
  <2> SUFFICES ASSUME m \notin own
               PROVE  FALSE
    OBVIOUS
  <2>1. m \in Nat /\ \A j \in own : j <= m /\ j # m /\ j \in 1..n
    BY <1>2
  <2>2. m - 1 \in Nat
    <3>1. PICK j \in own : TRUE
      OBVIOUS
    <3>2. j \in Nat /\ 1 <= j /\ j <= m
      BY <2>1
    <3>3. QED
      BY <2>1, <3>2
  <2>3. \A j \in own : j <= m - 1
    BY <2>1
  <2>4. m - 1 \in Bounds
    BY <2>2, <2>3
  <2>5. QED
    BY <1>2, <2>1, <2>4
<1>4. QED
  BY <1>2, <1>3

\* f is what ProfileAfter defines, for the first m requests.
IsAfter(f, ps, w, m) ==
  f = [k \in 0 .. m |->
         IF k = 0 THEN EmptyBundle
         ELSE IF ps[k].wallet = w THEN Patched(ps[k].patch, f[k - 1]) ELSE f[k - 1]]

(* There is such a function: one that is defined for one request less can  *)
(* be extended by the next.                                                *)
LEMMA AfterExists ==
  ASSUME NEW ps, NEW w, NEW m \in Nat
  PROVE  \E f : IsAfter(f, ps, w, m)
<1> DEFINE Fails(k) == ~(\E f : IsAfter(f, ps, w, k))
           Bad == {k \in Nat : Fails(k)}
<1> SUFFICES ASSUME Bad # {}
             PROVE  FALSE
  OBVIOUS
<1>1. PICK k \in Bad : \A j \in Bad : k <= j
  BY LeastNumber
<1>2. k # 0
  <2>1. IsAfter([n \in 0 .. 0 |-> EmptyBundle], ps, w, 0)
    BY DEF IsAfter
  <2>2. QED
    BY <2>1
<1>3. k - 1 \in Nat /\ k - 1 \notin Bad
  BY <1>1, <1>2
<1>4. PICK f : IsAfter(f, ps, w, k - 1)
  BY <1>3
<1> DEFINE last == IF ps[k].wallet = w THEN Patched(ps[k].patch, f[k - 1]) ELSE f[k - 1]
           g == [n \in 0 .. k |-> IF n = k THEN last ELSE f[n]]
<1>5. ASSUME NEW n \in 0 .. k
      PROVE  g[n] = IF n = 0 THEN EmptyBundle
                    ELSE IF ps[n].wallet = w THEN Patched(ps[n].patch, g[n - 1]) ELSE g[n - 1]
  <2>1. CASE n = k
    <3>1. g[n] = last /\ n - 1 \in 0 .. k /\ n - 1 # k /\ g[n - 1] = f[k - 1]
      BY <1>2, <2>1
    <3> HIDE DEF g
    <3>2. QED
      BY <1>2, <2>1, <3>1
  <2>2. CASE n # k
    <3>1. n \in 0 .. (k - 1) /\ g[n] = f[n]
      BY <2>2
    <3>2. f[n] = IF n = 0 THEN EmptyBundle
                 ELSE IF ps[n].wallet = w THEN Patched(ps[n].patch, f[n - 1]) ELSE f[n - 1]
      BY <1>4, <3>1 DEF IsAfter
    <3>3. n # 0 => n - 1 \in 0 .. k /\ n - 1 # k
      BY <3>1
    <3>4. n # 0 => g[n - 1] = f[n - 1]
      BY <3>3
    <3> HIDE DEF g
    <3>5. QED
      BY <3>1, <3>2, <3>4
  <2>3. QED
    BY <2>1, <2>2
<1>6. IsAfter(g, ps, w, k)
  <2> HIDE DEF last
  <2>1. g = [n \in 0 .. k |-> g[n]]
    OBVIOUS
  <2> HIDE DEF g
  <2>2. QED
    BY <1>5, <2>1 DEF IsAfter
<1>7. QED
  BY <1>1, <1>6

(* What ProfileAfter says request by request.                              *)
LEMMA ProfileSteps ==
  ASSUME NEW ps, NEW w, Len(ps) \in Nat
  PROVE  /\ ProfileAfter(ps, w)[0] = EmptyBundle
         /\ \A n \in 1 .. Len(ps) :
              ProfileAfter(ps, w)[n] =
                IF ps[n].wallet = w THEN Patched(ps[n].patch, ProfileAfter(ps, w)[n - 1])
                ELSE ProfileAfter(ps, w)[n - 1]
<1> DEFINE after == ProfileAfter(ps, w)
<1>1. \E f : IsAfter(f, ps, w, Len(ps))
  BY AfterExists
<1>2. after = CHOOSE f : IsAfter(f, ps, w, Len(ps))
  BY Zenon DEF ProfileAfter, IsAfter
<1>3. IsAfter(after, ps, w, Len(ps))
  <2> HIDE DEF after
  <2>1. QED
    BY <1>1, <1>2, Zenon
<1> HIDE DEF after
<1>4. after = [n \in 0 .. Len(ps) |->
                 IF n = 0 THEN EmptyBundle
                 ELSE IF ps[n].wallet = w THEN Patched(ps[n].patch, after[n - 1])
                      ELSE after[n - 1]]
  BY <1>3, Zenon DEF IsAfter
<1>5. \A n \in 0 .. Len(ps) :
        after[n] = IF n = 0 THEN EmptyBundle
                   ELSE IF ps[n].wallet = w THEN Patched(ps[n].patch, after[n - 1])
                        ELSE after[n - 1]
  BY <1>4
<1>6. after[0] = EmptyBundle
      /\ \A n \in 1 .. Len(ps) :
           after[n] = IF ps[n].wallet = w THEN Patched(ps[n].patch, after[n - 1])
                      ELSE after[n - 1]
  BY <1>5
<1>7. QED
  BY <1>6 DEF after

(* It depends on the wallets and the patches only, and not on what follows.*)
LEMMA SameProfile ==
  ASSUME NEW ps, NEW qs, NEW w, Len(ps) \in Nat, Len(qs) \in Nat, Len(ps) <= Len(qs),
         \A n \in 1 .. Len(ps) : qs[n].wallet = ps[n].wallet /\ qs[n].patch = ps[n].patch
  PROVE  \A n \in 0 .. Len(ps) : ProfileAfter(qs, w)[n] = ProfileAfter(ps, w)[n]
<1> DEFINE f == ProfileAfter(ps, w)
           g == ProfileAfter(qs, w)
           Bad == {n \in 0 .. Len(ps) : g[n] # f[n]}
<1>1. /\ f[0] = EmptyBundle /\ g[0] = EmptyBundle
      /\ \A n \in 1 .. Len(ps) :
           /\ f[n] = IF ps[n].wallet = w THEN Patched(ps[n].patch, f[n - 1]) ELSE f[n - 1]
           /\ g[n] = IF qs[n].wallet = w THEN Patched(qs[n].patch, g[n - 1]) ELSE g[n - 1]
  BY ProfileSteps
<1> HIDE DEF f, g
<1>2. SUFFICES ASSUME Bad # {}
               PROVE  FALSE
  BY DEF f, g
<1>3. PICK n \in Bad : \A j \in Bad : n <= j
  <2>1. Bad \in SUBSET Nat
    OBVIOUS
  <2>2. QED
    BY <1>2, <2>1, LeastNumber
<1>4. n \in 1 .. Len(ps) /\ n - 1 \in 0 .. Len(ps) /\ ~(n <= n - 1)
  BY <1>1, <1>3
<1>5. g[n - 1] = f[n - 1]
  BY <1>3, <1>4
<1>6. g[n] = f[n]
  BY <1>1, <1>4, <1>5
<1>7. QED
  BY <1>3, <1>6

(* Requests of other wallets leave it as it is.                            *)
LEMMA ProfileRests ==
  ASSUME NEW ps, NEW w, Len(ps) \in Nat, NEW m \in 0 .. Len(ps), NEW n \in m .. Len(ps),
         \A k \in (m + 1) .. n : ps[k].wallet # w
  PROVE  ProfileAfter(ps, w)[n] = ProfileAfter(ps, w)[m]
<1> DEFINE f == ProfileAfter(ps, w)
           Bad == {k \in m .. n : f[k] # f[m]}
<1>1. \A k \in 1 .. Len(ps) :
        f[k] = IF ps[k].wallet = w THEN Patched(ps[k].patch, f[k - 1]) ELSE f[k - 1]
  BY ProfileSteps
<1> HIDE DEF f
<1>2. SUFFICES ASSUME Bad # {}
               PROVE  FALSE
  BY DEF f
<1>3. PICK k \in Bad : \A j \in Bad : k <= j
  <2>1. Bad \in SUBSET Nat
    OBVIOUS
  <2>2. QED
    BY <1>2, <2>1, LeastNumber
<1>4. k # m /\ k \in (m + 1) .. n /\ k \in 1 .. Len(ps) /\ k - 1 \in m .. n /\ ~(k <= k - 1)
  BY <1>3
<1>5. f[k - 1] = f[m]
  BY <1>3, <1>4
<1>6. f[k] = f[k - 1]
  BY <1>1, <1>4
<1>7. QED
  BY <1>3, <1>5, <1>6

(* What earlier requests stored are bundles.                               *)
LEMMA EarlierBundles ==
  \A i \in DOMAIN Earlier : EarlierBundle(i) \in Bundle
<1>1. /\ Earlier \in Seq([wallet : Wallets, patch : Patches])
      /\ Len(Earlier) \in Nat /\ DOMAIN Earlier = 1 .. Len(Earlier)
      /\ \A i \in 1 .. Len(Earlier) : Earlier[i].patch \in Patches
  <2>1. /\ Earlier \in Seq([wallet : Wallets, patch : Patches])
        /\ Len(Earlier) \in Nat /\ DOMAIN Earlier = 1 .. Len(Earlier)
    BY ProfileAssumption
  <2>2. \A i \in 1 .. Len(Earlier) : Earlier[i] \in [wallet : Wallets, patch : Patches]
    BY <2>1, ElementOfSeq
  <2>3. QED
    BY <2>1, <2>2
<1>2. SUFFICES ASSUME NEW w
               PROVE  \A n \in 0 .. Len(Earlier) : ProfileAfter(Earlier, w)[n] \in Bundle
  BY <1>1 DEF EarlierBundle
<1> DEFINE f == ProfileAfter(Earlier, w)
           Bad == {n \in 0 .. Len(Earlier) : f[n] \notin Bundle}
<1>3. /\ f[0] = EmptyBundle
      /\ \A n \in 1 .. Len(Earlier) :
           f[n] = IF Earlier[n].wallet = w THEN Patched(Earlier[n].patch, f[n - 1]) ELSE f[n - 1]
  BY <1>1, ProfileSteps
<1> HIDE DEF f
<1>4. SUFFICES ASSUME Bad # {}
               PROVE  FALSE
  BY DEF f
<1>5. PICK n \in Bad : \A j \in Bad : n <= j
  <2>1. Bad \in SUBSET Nat
    OBVIOUS
  <2>2. QED
    BY <1>4, <2>1, LeastNumber
<1>6. EmptyBundle \in Bundle
  BY ProfileAssumption DEF EmptyBundle, Bundle
<1>7. n \in 1 .. Len(Earlier) /\ n - 1 \in 0 .. Len(Earlier) /\ ~(n <= n - 1)
  BY <1>1, <1>3, <1>5, <1>6
<1>8. f[n - 1] \in Bundle
  BY <1>5, <1>7
<1>9. f[n] \in Bundle
  BY <1>1, <1>3, <1>7, <1>8, PatchedBundle
<1>10. QED
  BY <1>5, <1>9

(* The server starts with the earlier requests answered and the indexes    *)
(* that the last of each wallet wrote.                                     *)
LEMMA ApiInitInv ==
  ASSUME ApiInit
  PROVE  ApiInv
<1>1. /\ posts \in Seq(PostRec) /\ Len(posts) = Len(Earlier)
      /\ DOMAIN posts = 1..Len(posts) /\ DOMAIN Earlier = 1..Len(posts)
      /\ \A i \in DOMAIN posts : posts[i] = EarlierPost(i)
  <2>1. DOMAIN Earlier = 1..Len(Earlier) /\ Len(Earlier) \in Nat
    BY ProfileAssumption
  <2>2. \A i \in DOMAIN Earlier : EarlierPost(i) \in PostRec
    <3>1. \A i \in DOMAIN Earlier : /\ Earlier[i].wallet \in Wallets
                                    /\ Earlier[i].patch \in Patches
      <4>1. Earlier \in Seq([wallet : Wallets, patch : Patches])
        BY ProfileAssumption
      <4>2. \A i \in DOMAIN Earlier : Earlier[i] \in [wallet : Wallets, patch : Patches]
        BY <2>1, <4>1, ElementOfSeq
      <4>3. QED
        BY <4>2
    <3>2. QED
      BY <2>1, <3>1, EarlierBundles DEF EarlierPost, PostRec, Stages
  <2>3. posts = [i \in 1..Len(Earlier) |-> EarlierPost(i)]
    BY <2>1 DEF ApiInit
  <2>4. QED
    BY <2>1, <2>2, <2>3
<1>2. \A i \in DOMAIN posts :
        /\ posts[i].wallet = Earlier[i].wallet /\ posts[i].at = "over"
        /\ posts[i].root = i /\ posts[i].seq = i
  BY <1>1 DEF EarlierPost
<1>3. PostsTyped /\ PatchesNamed
  BY <1>1, <1>2 DEF PostsTyped, PatchesNamed
<1>4. DoneHasName
  BY <1>1, EarlierAssumption DEF DoneHasName, EarlierPost
<1>5. ASSUME NEW w \in Wallets
      PROVE  Leads(w, EarlierIndex(w))
  <2> DEFINE own == {i \in DOMAIN Earlier : Earlier[i].wallet = w}
  <2>1. CASE own = {}
    BY <2>1 DEF EarlierIndex, Leads
  <2>2. CASE own # {}
    <3> DEFINE last == CHOOSE i \in own : \A j \in own : j <= i
    <3>1. last \in own
      <4>1. own \in SUBSET (1..Len(posts)) /\ Len(posts) \in Nat
        BY <1>1
      <4> HIDE DEF own
      <4>2. \E i \in own : \A j \in own : j <= i
        BY <2>2, <4>1, LastPosition
      <4>3. QED
        BY <4>2
    <3>2. EarlierIndex(w) = IndexOf(last, posts[last])
      BY <1>1, <2>2, <3>1 DEF EarlierIndex
    <3>3. /\ last \in DOMAIN posts /\ posts[last].wallet = w /\ posts[last].at = "over"
          /\ posts[last].root = last /\ posts[last].seq = last
          /\ posts[last] \in PostRec /\ last \in 1..Len(posts)
      <4>1. last \in DOMAIN posts /\ Earlier[last].wallet = w /\ last \in 1..Len(posts)
        BY <1>1, <3>1
      <4> HIDE DEF last
      <4>2. posts[last] \in PostRec
        BY <1>1, <4>1
      <4>3. QED
        BY <1>2, <4>1, <4>2
    <3> HIDE DEF last
    <3>4. QED
      BY <3>2, <3>3 DEF IndexOf, Leads, Index, PostRec, Bundle
  <2>3. QED
    BY <2>1, <2>2
<1>6. IndexesLead
  BY <1>5 DEF IndexesLead, ApiInit, Leads
<1>7. RegistryTyped
  BY ProfileAssumption DEF RegistryTyped, ApiInit
<1>8. QED
  BY <1>3, <1>4, <1>6, <1>7 DEF ApiInv

-----------------------------------------------------------------------------
(* Steps of the tab.                                                       *)

(* Steps that send no request and take note of none.                       *)
LEMMA ApiStays ==
  ASSUME ApiInv, UNCHANGED <<posts, kv, redis>>, RegistryTyped'
  PROVE  ApiInv' /\ Len(posts') = Len(posts)
BY DEF ApiInv, PostsTyped, PatchesNamed, IndexesLead, Leads, DoneHasName

LEMMA ApiUnchanged ==
  ASSUME ApiInv, UNCHANGED api
  PROVE  ApiInv' /\ Len(posts') = Len(posts)
<1>1. UNCHANGED <<posts, kv, redis>> /\ RegistryTyped'
  BY DEF ApiInv, api, RegistryTyped
<1>2. QED
  BY <1>1, ApiStays

LEMMA ApiFault ==
  ASSUME ApiInv, UNCHANGED <<posts, kv, redis, owner>>, Fault \/ UNCHANGED faults
  PROVE  ApiInv' /\ Len(posts') = Len(posts)
<1>1. UNCHANGED <<posts, kv, redis>> /\ RegistryTyped'
  BY ProfileAssumption DEF ApiInv, RegistryTyped, Fault
<1>2. QED
  BY <1>1, ApiStays

(* What hydrate holds stays good while requests are only added.            *)
LEMMA HydratesKept ==
  ASSUME ApiInv, Len(posts') \in {Len(posts), Len(posts) + 1},
         \A h \in hydrates' : HydrateOK(h)
  PROVE  HydratesTyped'
<1>1. Len(posts) \in Nat
  BY DEF ApiInv, PostsTyped
<1>2. ASSUME NEW h, HydrateOK(h)
      PROVE  HydrateOK(h)'
  <2>1. h.index # NoIndex => h.index.root \in Nat
    BY <1>2 DEF HydrateOK, HydrateRec, Index
  <2>2. QED
    BY <1>1, <1>2, <2>1 DEF HydrateOK
<1>3. QED
  BY <1>2 DEF HydratesTyped

(* A new request of hydrate holds no index.                                *)
LEMMA AskingOK ==
  ASSUME NEW hs, \A h \in hs : HydrateOK(h), NEW w \in Wallets \cup {Nobody},
         NEW page \in Pages
  PROVE  \A h \in Asking(hs, w, page) : HydrateOK(h)
<1>1. CASE w \in Wallets
  <2>1. HydrateOK(Hydrate(w, page))
    BY <1>1 DEF HydrateOK, HydrateRec, Hydrate
  <2>2. QED
    BY <2>1 DEF Asking
<1>2. CASE w = Nobody
  BY <1>2 DEF Asking
<1>3. QED
  BY <1>1, <1>2

(* A page that has just been opened.                                       *)
LEMMA NewPageTyped ==
  ASSUME NEW w \in Wallets \cup {Nobody}, NEW page \in Pages
  PROVE  NewPage(w, page) \in Tabs /\ NewPage(w, page).step = 0
BY DEF NewPage, Tabs, Pages

(* A wallet is connected, changed or left: hydrate asks for its profile.   *)
LEMMA WalletKeeps ==
  ASSUME OnboardingInv,
         \/ \E w \in Wallets : Connect(w) \/ SwitchAccount(w)
         \/ LeaveWizard \/ SignOut
  PROVE  OnboardingInv'
<1>1. /\ ApiInv /\ TabTyped /\ StoreTyped /\ JobsTyped /\ HydratesTyped
      /\ lookup \in Wallets \cup {Nobody}
  BY DEF OnboardingInv, SessionInv
<1>2. UNCHANGED <<api, store, finish, naming, lookup>>
  BY DEF Connect, SwitchAccount, LeaveWizard, SignOut
<1>3. ApiInv' /\ Len(posts') = Len(posts)
  BY <1>1, <1>2, ApiUnchanged
<1>4. TabTyped'
  <2>1. CASE (\E w \in Wallets : Connect(w) \/ SwitchAccount(w)) \/ LeaveWizard
    <3>1. \/ \E w \in Wallets : tab' = [tab EXCEPT !.wallet = w]
          \/ tab' = [tab EXCEPT !.wallet = Nobody, !.step = 0]
      BY <2>1 DEF Connect, SwitchAccount, LeaveWizard
    <3>2. CASE \E w \in Wallets : tab' = [tab EXCEPT !.wallet = w]
      BY <1>1, <3>2 DEF TabTyped, Tabs
    <3>3. CASE tab' = [tab EXCEPT !.wallet = Nobody, !.step = 0]
      <4> DEFINE t == [tab EXCEPT !.wallet = Nobody]
      <4>1. t \in Tabs /\ tab' = [t EXCEPT !.step = 0]
        BY <1>1, <3>3 DEF TabTyped, Tabs
      <4> HIDE DEF t
      <4>2. tab' \in Tabs /\ tab'.step = 0
        BY <4>1 DEF Tabs
      <4>3. QED
        BY <4>2 DEF TabTyped
    <3>4. QED
      BY <3>1, <3>2, <3>3
  <2>2. CASE SignOut
    <3>1. tab' = NewPage(Nobody, "onboarding")
      BY <2>2 DEF SignOut
    <3>2. tab' \in Tabs /\ tab'.step = 0
      BY <3>1, NewPageTyped DEF Pages
    <3>3. QED
      BY <3>2 DEF TabTyped
  <2>3. QED
    BY <2>1, <2>2
<1>5. HydratesTyped'
  <2>1. \A h \in hydrates : HydrateOK(h)
    BY <1>1 DEF HydratesTyped
  <2>2. tab.page \in Pages
    BY <1>1 DEF TabTyped, Tabs, Pages
  <2>3. \A h \in hydrates' : HydrateOK(h)
    BY <2>1, <2>2, AskingOK DEF Connect, SwitchAccount, LeaveWizard, SignOut, Hydrating
  <2>4. QED
    BY <1>1, <1>3, <2>3, HydratesKept
<1>6. StoreTyped' /\ JobsTyped' /\ lookup' \in Wallets \cup {Nobody}
  BY <1>1, <1>2 DEF StoreTyped, JobsTyped
<1>7. QED
  BY <1>3, <1>4, <1>5, <1>6 DEF OnboardingInv, SessionInv

(* Opening the other page: a new page, hydrating.                          *)
LEMMA PushKeeps ==
  ASSUME ApiInv, TabTyped, HydratesTyped, NEW page \in Pages, Push(page),
         Len(posts') = Len(posts)
  PROVE  TabTyped' /\ HydratesTyped'
<1>1. CASE UNCHANGED <<tab, hydrates>>
  <2>1. \A h \in hydrates' : HydrateOK(h)
    BY <1>1 DEF HydratesTyped
  <2>2. QED
    BY <1>1, <2>1, HydratesKept DEF TabTyped
<1>2. CASE tab' = NewPage(tab.wallet, page) /\ hydrates' = Hydrating(tab.wallet, page)
  <2>1. tab.wallet \in Wallets \cup {Nobody}
    BY DEF TabTyped, Tabs
  <2>2. tab' \in Tabs /\ tab'.step = 0
    BY <1>2, <2>1, NewPageTyped
  <2>3. \A h \in hydrates' : HydrateOK(h)
    BY <1>2, <2>1, AskingOK DEF Hydrating, HydratesTyped
  <2>4. QED
    BY <2>2, <2>3, HydratesKept DEF TabTyped
<1>3. QED
  BY <1>1, <1>2 DEF Push

(* The guards of the two pages.                                            *)
LEMMA RedirectKeeps ==
  ASSUME OnboardingInv, Redirect
  PROVE  OnboardingInv'
<1>1. /\ ApiInv /\ TabTyped /\ StoreTyped /\ JobsTyped /\ HydratesTyped
      /\ lookup \in Wallets \cup {Nobody}
  BY DEF OnboardingInv, SessionInv
<1>2. UNCHANGED <<api, store, finish, naming, lookup>>
  BY DEF Redirect
<1>3. ApiInv' /\ Len(posts') = Len(posts)
  BY <1>1, <1>2, ApiUnchanged
<1>4. TabTyped' /\ HydratesTyped'
  BY <1>1, <1>3, PushKeeps DEF Redirect, Pages
<1>5. StoreTyped' /\ JobsTyped' /\ lookup' \in Wallets \cup {Nobody}
  BY <1>1, <1>2 DEF StoreTyped, JobsTyped
<1>6. QED
  BY <1>3, <1>4, <1>5 DEF OnboardingInv, SessionInv

(* Answers of GET /api/profile, and the bundle, or the loss of either.     *)
LEMMA HydrateKeeps ==
  ASSUME OnboardingInv, HydrateAnswered \/ HydrateLost \/ BundleLost
  PROVE  OnboardingInv'
<1>1. /\ ApiInv /\ TabTyped /\ StoreTyped /\ JobsTyped /\ HydratesTyped
      /\ lookup \in Wallets \cup {Nobody}
  BY DEF OnboardingInv, SessionInv
<1>2. /\ UNCHANGED <<posts, kv, redis, owner, tab, store, finish, naming, lookup>>
      /\ Fault \/ UNCHANGED faults
  BY DEF HydrateAnswered, HydrateLost, BundleLost
<1>3. ApiInv' /\ Len(posts') = Len(posts)
  BY <1>1, <1>2, ApiFault
<1>4. \A h \in hydrates' : HydrateOK(h)
  <2>1. CASE HydrateAnswered
    <3>1. PICK h, at, ix :
            /\ h \in hydrates /\ at \in {"answered", "refused"}
            /\ ix \in {IndexFor(h.wallet), redis[h.wallet]}
            /\ hydrates' = (hydrates \ {h}) \cup {[h EXCEPT !.at = at, !.index = ix]}
      BY <2>1 DEF HydrateAnswered
    <3>2. h \in HydrateRec
      BY <1>1, <3>1 DEF HydratesTyped, HydrateOK
    <3>3. ix \in Index \cup {NoIndex} /\ (ix # NoIndex => ix.root \in 0..Len(posts))
      <4>1. h.wallet \in Wallets
        BY <3>2 DEF HydrateRec
      <4>2. QED
        BY <1>1, <3>1, <4>1 DEF ApiInv, IndexesLead, Leads, IndexFor
    <3>4. HydrateOK([h EXCEPT !.at = at, !.index = ix])
      BY <3>1, <3>2, <3>3 DEF HydrateOK, HydrateRec
    <3>5. QED
      BY <1>1, <3>1, <3>4 DEF HydratesTyped
  <2>2. CASE HydrateLost \/ BundleLost
    BY <1>1, <2>2 DEF HydratesTyped, HydrateLost, BundleLost
  <2>3. QED
    BY <2>1, <2>2
<1>5. HydratesTyped'
  BY <1>1, <1>3, <1>4, HydratesKept
<1>6. TabTyped' /\ StoreTyped' /\ JobsTyped' /\ lookup' \in Wallets \cup {Nobody}
  BY <1>1, <1>2 DEF TabTyped, StoreTyped, JobsTyped
<1>7. QED
  BY <1>3, <1>5, <1>6 DEF OnboardingInv, SessionInv

(* The store after an answer holds what an index shows, and the bundle     *)
(* that is asked for next is the one of that index.                        *)
LEMMA FilledTyped ==
  ASSUME SessionInv, NEW h \in hydrates, h.at \in {"answered", "refused"}
  PROVE  /\ store' = Filled(h) => StoreTyped'
         /\ \A g \in Remaining(h) : HydrateOK(g)
<1>1. HydrateOK(h) /\ StoreTyped /\ \A g \in hydrates : HydrateOK(g)
  BY DEF SessionInv, HydratesTyped
<1>2. ASSUME store' = Filled(h)
      PROVE  StoreTyped'
  <2>1. CASE h.at = "refused" \/ h.index = NoIndex
    BY <1>1, <1>2, <2>1 DEF Filled, StoreTyped
  <2>2. CASE h.index \in Index
    <3>1. (h.index.seq > 0) \in BOOLEAN /\ h.index.ens \in Labels \cup {NoName}
      BY <2>2 DEF Index
    <3>2. QED
      BY <1>1, <1>2, <2>1, <3>1 DEF Filled, StoreTyped
  <2>3. QED
    BY <1>1, <2>1, <2>2 DEF HydrateOK, HydrateRec
<1>3. \A g \in Remaining(h) : HydrateOK(g)
  <2>1. CASE h.at = "answered" /\ h.index # NoIndex /\ h.index.root > 0
    <3>1. HydrateOK([h EXCEPT !.at = "bundle"])
      BY <1>1, <2>1 DEF HydrateOK, HydrateRec
    <3>2. QED
      BY <1>1, <3>1 DEF Remaining
  <2>2. CASE ~(h.at = "answered" /\ h.index # NoIndex /\ h.index.root > 0)
    BY <1>1, <2>2 DEF Remaining
  <2>3. QED
    BY <2>1, <2>2
<1>4. QED
  BY <1>2, <1>3

(* What the page does with an answer: it fills the store, and on the       *)
(* onboarding page opens the console, the first form, or a search.         *)
LEMMA AppliedKeeps ==
  ASSUME OnboardingInv, HydrateApplied
  PROVE  OnboardingInv'
<1>1. /\ ApiInv /\ TabTyped /\ StoreTyped /\ JobsTyped /\ HydratesTyped
      /\ lookup \in Wallets \cup {Nobody} /\ SessionInv
  BY DEF OnboardingInv, SessionInv
<1>2. UNCHANGED <<api, finish, naming>>
  BY DEF HydrateApplied
<1>3. ApiInv' /\ Len(posts') = Len(posts)
  BY <1>1, <1>2, ApiUnchanged
<1>4. PICK h \in hydrates :
        /\ h.at \in {"answered", "refused"} /\ store' = Filled(h)
        /\ IF h.page = "onboarding" THEN AfterHydrate(h.wallet, Filled(h), Remaining(h))
           ELSE hydrates' = Remaining(h) /\ UNCHANGED <<tab, lookup>>
  BY DEF HydrateApplied
<1>5. StoreTyped' /\ (\A g \in Remaining(h) : HydrateOK(g)) /\ h.wallet \in Wallets
  BY <1>1, <1>4, FilledTyped DEF HydratesTyped, HydrateOK, HydrateRec
<1>6. lookup' \in Wallets \cup {Nobody}
  BY <1>1, <1>4, <1>5 DEF AfterHydrate
<1>7. TabTyped' /\ \A g \in hydrates' : HydrateOK(g)
  <2>1. CASE tab' = tab /\ hydrates' = Remaining(h)
    BY <1>1, <1>5, <2>1 DEF TabTyped
  <2>2. CASE tab' = [tab EXCEPT !.step = 1] /\ hydrates' = Remaining(h)
    BY <1>1, <1>5, <2>2 DEF TabTyped, Tabs
  <2>3. CASE /\ tab' = NewPage(tab.wallet, "console")
             /\ hydrates' = Asking(Remaining(h), tab.wallet, "console")
    <3>1. tab.wallet \in Wallets \cup {Nobody} /\ "console" \in Pages
      BY <1>1 DEF TabTyped, Tabs, Pages
    <3>2. tab' \in Tabs /\ tab'.step = 0
      BY <2>3, <3>1, NewPageTyped
    <3>3. QED
      BY <1>5, <2>3, <3>1, <3>2, AskingOK DEF TabTyped
  <2>4. QED
    BY <1>4, <2>1, <2>2, <2>3 DEF AfterHydrate
<1>8. HydratesTyped'
  BY <1>1, <1>3, <1>7, HydratesKept
<1>9. JobsTyped'
  BY <1>1, <1>2 DEF JobsTyped
<1>10. QED
  BY <1>3, <1>5, <1>6, <1>7, <1>8, <1>9 DEF OnboardingInv, SessionInv

(* The rest of a bundle arrives.                                           *)
LEMMA BundleKeeps ==
  ASSUME OnboardingInv, BundleLoaded
  PROVE  OnboardingInv'
<1>1. /\ ApiInv /\ TabTyped /\ StoreTyped /\ JobsTyped /\ HydratesTyped
      /\ lookup \in Wallets \cup {Nobody}
  BY DEF OnboardingInv, SessionInv
<1>2. UNCHANGED <<api, tab, finish, naming, lookup>>
  BY DEF BundleLoaded
<1>3. ApiInv' /\ Len(posts') = Len(posts)
  BY <1>1, <1>2, ApiUnchanged
<1>4. PICK h \in hydrates :
        /\ h.at = "bundle" /\ hydrates' = hydrates \ {h}
        /\ store' = Patched([posts[h.index.root].bundle EXCEPT !.done = store.done], store)
  BY DEF BundleLoaded
<1>5. StoreTyped'
  <2> DEFINE bundle == [posts[h.index.root].bundle EXCEPT !.done = store.done]
  <2>1. HydrateOK(h)
    BY <1>1, <1>4 DEF HydratesTyped
  <2>2. h.index.root \in 1..Len(posts)
    BY <1>4, <2>1 DEF HydrateOK, HydrateRec, Index
  <2>3. posts[h.index.root] \in PostRec
    BY <1>1, <2>2 DEF ApiInv, PostsTyped
  <2>4. bundle \in Bundle
    BY <1>1, <2>3 DEF PostRec, Bundle, StoreTyped
  <2> HIDE DEF bundle
  <2>5. bundle \in Patches
    BY <2>4, PartOfBundle
  <2>6. store' = Patched(bundle, store)
    BY <1>4 DEF bundle
  <2>7. QED
    BY <1>1, <2>5, <2>6, PatchedStore
<1>6. \A g \in hydrates' : HydrateOK(g)
  BY <1>1, <1>4 DEF HydratesTyped
<1>7. HydratesTyped'
  BY <1>1, <1>3, <1>6, HydratesKept
<1>8. TabTyped' /\ JobsTyped' /\ lookup' \in Wallets \cup {Nobody}
  BY <1>1, <1>2 DEF TabTyped, JobsTyped
<1>9. QED
  BY <1>3, <1>5, <1>7, <1>8 DEF OnboardingInv, SessionInv

(* Typing and the moves between the forms: only a name that passed the     *)
(* check gets past the first form, and hydrate's late answer, which brings *)
(* the form back, keeps it from being launched with any other.             *)
LEMMA FormKeeps ==
  ASSUME OnboardingInv, TypeName \/ NameNext \/ StepTo
  PROVE  OnboardingInv'
<1>1. /\ ApiInv /\ TabTyped /\ StoreTyped /\ JobsTyped /\ HydratesTyped
      /\ lookup \in Wallets \cup {Nobody}
  BY DEF OnboardingInv, SessionInv
<1>2. UNCHANGED <<api, store, hydrates, finish, naming, lookup>>
  BY DEF TypeName, NameNext, StepTo, FormStays
<1>3. ApiInv' /\ Len(posts') = Len(posts)
  BY <1>1, <1>2, ApiUnchanged
<1>4. TabTyped'
  <2>1. CASE TypeName
    BY <1>1, <2>1 DEF TypeName, TabTyped, Tabs
  <2>2. CASE NameNext
    BY <1>1, <2>2 DEF NameNext, TabTyped, Tabs
  <2>3. CASE StepTo
    <3>1. \/ tab.step = 2 /\ tab' = [tab EXCEPT !.step = 1]
          \/ tab.step = 2 /\ tab' = [tab EXCEPT !.step = 3]
          \/ tab.step = 3 /\ tab' = [tab EXCEPT !.step = 2]
      BY <2>3 DEF StepTo
    <3>2. QED
      BY <1>1, <3>1 DEF TabTyped, Tabs
  <2>4. QED
    BY <2>1, <2>2, <2>3
<1>5. HydratesTyped'
  BY <1>1, <1>2, <1>3, HydratesKept DEF HydratesTyped
<1>6. StoreTyped' /\ JobsTyped' /\ lookup' \in Wallets \cup {Nobody}
  BY <1>1, <1>2 DEF StoreTyped, JobsTyped
<1>7. QED
  BY <1>3, <1>4, <1>5, <1>6 DEF OnboardingInv, SessionInv

(* The persona of the second form changes the store alone.                 *)
LEMMA PersonaKeeps ==
  ASSUME OnboardingInv, ChoosePersona
  PROVE  OnboardingInv'
<1>1. /\ ApiInv /\ TabTyped /\ StoreTyped /\ JobsTyped /\ HydratesTyped
      /\ lookup \in Wallets \cup {Nobody}
  BY DEF OnboardingInv, SessionInv
<1>2. UNCHANGED <<api, tab, hydrates, finish, naming, lookup>>
  BY DEF ChoosePersona
<1>3. ApiInv' /\ Len(posts') = Len(posts)
  BY <1>1, <1>2, ApiUnchanged
<1>4. StoreTyped'
  BY <1>1 DEF ChoosePersona, StoreTyped
<1>5. HydratesTyped'
  BY <1>1, <1>2, <1>3, HydratesKept DEF HydratesTyped
<1>6. TabTyped' /\ JobsTyped' /\ lookup' \in Wallets \cup {Nobody}
  BY <1>1, <1>2 DEF TabTyped, JobsTyped
<1>7. QED
  BY <1>3, <1>4, <1>5, <1>6 DEF OnboardingInv, SessionInv

(* handleFinish and handleEnsRegister start with a name that passed.       *)
LEMMA JobStarts ==
  ASSUME OnboardingInv, Launch \/ AskName \/ NameRefused
  PROVE  OnboardingInv'
<1>1. /\ ApiInv /\ TabTyped /\ StoreTyped /\ JobsTyped /\ HydratesTyped
      /\ lookup \in Wallets \cup {Nobody}
  BY DEF OnboardingInv, SessionInv
<1>2. UNCHANGED <<api, store, hydrates, lookup>>
  BY DEF Launch, AskName, NameRefused
<1>3. ApiInv' /\ Len(posts') = Len(posts)
  BY <1>1, <1>2, ApiUnchanged
<1>4. TabTyped'
  <2>1. CASE Launch
    <3>1. tab' = [tab EXCEPT !.checking = TRUE]
      BY <2>1 DEF Launch
    <3>2. QED
      BY <1>1, <3>1 DEF TabTyped, Tabs
  <2>2. CASE AskName \/ NameRefused
    BY <1>1, <2>2 DEF AskName, NameRefused, TabTyped
  <2>3. QED
    BY <2>1, <2>2
<1>5. JobsTyped'
  <2>1. CASE Launch
    <3>1. tab.wallet \in Wallets /\ tab.input \in Valid
      BY <1>1, <2>1 DEF Launch, Connected, TabTyped, Tabs
    <3>2. store.ens \in Labels \cup {NoName} /\ store.persona \in Personas
      BY <1>1 DEF StoreTyped
    <3>3. finish' \in [wallet : Wallets, name : Valid, ens : Labels \cup {NoName},
                       persona : Personas, pic : BOOLEAN, post : Nat, at : JobStages]
      BY <2>1, <3>1, <3>2 DEF Launch, JobStages
    <3>4. QED
      BY <1>1, <2>1, <3>3 DEF JobsTyped, Launch
  <2>2. CASE AskName
    <3>1. tab.wallet \in Wallets
      BY <1>1, <2>2 DEF AskName, Connected, TabTyped, Tabs
    <3>2. naming' \in [wallet : Wallets, name : Valid, at : JobStages, post : Nat]
      BY <2>2, <3>1 DEF AskName, JobStages
    <3>3. QED
      BY <1>1, <2>2, <3>2 DEF JobsTyped, AskName
  <2>3. CASE NameRefused
    BY <1>1, <2>3 DEF JobsTyped, NameRefused
  <2>4. QED
    BY <2>1, <2>2, <2>3
<1>6. HydratesTyped'
  BY <1>1, <1>2, <1>3, HydratesKept DEF HydratesTyped
<1>7. StoreTyped' /\ lookup' \in Wallets \cup {Nobody}
  BY <1>1, <1>2 DEF StoreTyped
<1>8. QED
  BY <1>3, <1>4, <1>5, <1>6, <1>7 DEF OnboardingInv, SessionInv

(* A step of a registration keeps the registry typed.                      *)
LEMMA RegistryKeeps ==
  ASSUME RegistryTyped, NEW w \in Wallets, NEW label \in Labels,
         Fault \/ UNCHANGED faults,
         UNCHANGED owner \/ \E at \in {"named", "refused"} : Registered(w, label, at)
  PROVE  RegistryTyped'
<1>1. owner \in [Labels -> Wallets \cup {Nobody, Someone}] /\ faults \in 0..MaxFaults
  BY DEF RegistryTyped
<1>2. faults' \in 0..MaxFaults
  BY <1>1, ProfileAssumption DEF Fault
<1>3. owner' \in [Labels -> Wallets \cup {Nobody, Someone}]
  BY <1>1 DEF Registered
<1>4. QED
  BY <1>2, <1>3 DEF RegistryTyped

(* The registrations that the two handlers wait for.                       *)
LEMMA NamesKeep ==
  ASSUME OnboardingInv, FinishNames \/ NamingStep
  PROVE  OnboardingInv'
<1>1. /\ ApiInv /\ TabTyped /\ StoreTyped /\ JobsTyped /\ HydratesTyped
      /\ lookup \in Wallets \cup {Nobody} /\ RegistryTyped
  BY DEF OnboardingInv, SessionInv, ApiInv
<1>2. UNCHANGED <<posts, kv, redis, tab, store, hydrates, lookup>>
  BY DEF FinishNames, NamingStep
<1>3. \A w, label : Lookup(w, label) \in JobStages
  BY DEF Lookup, JobStages
<1>4. RegistryTyped' /\ JobsTyped'
  <2>1. CASE FinishNames
    <3>1. /\ finish # NoJob
          /\ finish \in [wallet : Wallets, name : Valid, ens : Labels \cup {NoName},
                         persona : Personas, pic : BOOLEAN, post : Nat, at : JobStages]
      BY <1>1, <2>1 DEF FinishNames, JobsTyped
    <3>2. finish.wallet \in Wallets /\ SlugOf[finish.name] \in Labels
      BY <3>1, ProfileAssumption
    <3>3. /\ Fault \/ UNCHANGED faults
          /\ \/ UNCHANGED owner
             \/ \E at \in {"named", "refused"} :
                  Registered(finish.wallet, SlugOf[finish.name], at)
      BY <2>1 DEF FinishNames, Naming
    <3>4. \E at \in JobStages : finish' = [finish EXCEPT !.at = at]
      BY <1>3, <2>1 DEF FinishNames, Naming, JobStages
    <3>5. JobsTyped'
      BY <1>1, <2>1, <3>1, <3>4 DEF JobsTyped, FinishNames
    <3>6. QED
      BY <1>1, <3>2, <3>3, <3>5, RegistryKeeps
  <2>2. CASE NamingStep
    <3>1. /\ naming # NoJob
          /\ naming \in [wallet : Wallets, name : Valid, at : JobStages, post : Nat]
      BY <1>1, <2>2 DEF NamingStep, JobsTyped
    <3>2. naming.wallet \in Wallets /\ SlugOf[naming.name] \in Labels
      BY <3>1, ProfileAssumption
    <3>3. /\ Fault \/ UNCHANGED faults
          /\ \/ UNCHANGED owner
             \/ \E at \in {"named", "refused"} :
                  Registered(naming.wallet, SlugOf[naming.name], at)
      BY <2>2 DEF NamingStep, Naming
    <3>4. \E at \in JobStages : naming' = [naming EXCEPT !.at = at]
      BY <1>3, <2>2 DEF NamingStep, Naming, JobStages
    <3>5. JobsTyped'
      BY <1>1, <2>2, <3>1, <3>4 DEF JobsTyped, NamingStep
    <3>6. QED
      BY <1>1, <3>2, <3>3, <3>5, RegistryKeeps
  <2>3. QED
    BY <2>1, <2>2
<1>5. ApiInv' /\ Len(posts') = Len(posts)
  BY <1>1, <1>2, <1>4, ApiStays
<1>6. HydratesTyped'
  BY <1>1, <1>2, <1>5, HydratesKept DEF HydratesTyped
<1>7. TabTyped' /\ StoreTyped' /\ lookup' \in Wallets \cup {Nobody}
  BY <1>1, <1>2 DEF TabTyped, StoreTyped
<1>8. QED
  BY <1>4, <1>5, <1>6, <1>7 DEF OnboardingInv, SessionInv

(* save of profileStore: the store is patched, and the patch is posted.    *)
LEMMA SaveKeeps ==
  ASSUME ApiInv, StoreTyped, NEW w \in Wallets, NEW patch \in Patches, Named(patch),
         Save(w, patch), UNCHANGED <<kv, redis, owner, faults>>
  PROVE  ApiInv' /\ StoreTyped' /\ Len(posts') = Len(posts) + 1
<1>1. Post(w, patch) /\ store' = Patched(patch, store)
  BY DEF Save
<1>2. QED
  BY <1>1, PostKeeps, PatchedStore

(* The saves that leave both handlers alone: the persona and the picture   *)
(* of the console, and the subname that was found.                         *)
LEMMA ConsoleSaves ==
  ASSUME OnboardingInv, ChangePersona \/ ChangePicture \/ LookupEnds
  PROVE  OnboardingInv'
<1>1. /\ ApiInv /\ TabTyped /\ StoreTyped /\ JobsTyped /\ HydratesTyped
      /\ lookup \in Wallets \cup {Nobody}
  BY DEF OnboardingInv, SessionInv
<1>2. UNCHANGED <<kv, redis, owner, faults, tab, hydrates, finish, naming>>
  BY DEF ChangePersona, ChangePicture, LookupEnds
<1>3. lookup' \in Wallets \cup {Nobody}
  BY <1>1 DEF ChangePersona, ChangePicture, LookupEnds
<1>4. \/ \E w \in Wallets, patch \in Patches : Named(patch) /\ Save(w, patch)
      \/ UNCHANGED <<store, posts>>
  <2>1. CASE ChangePersona
    <3>1. tab.wallet \in Wallets
      BY <1>1, <2>1 DEF ChangePersona, Connected, TabTyped, Tabs
    <3>2. QED
      BY <2>1, <3>1, PersonaPatch DEF ChangePersona
  <2>2. CASE ChangePicture
    <3>1. tab.wallet \in Wallets
      BY <1>1, <2>2 DEF ChangePicture, Connected, TabTyped, Tabs
    <3>2. [pic |-> TRUE] \in Patches /\ Named([pic |-> TRUE])
      BY PicturePatch, Zenon
    <3>3. Save(tab.wallet, [pic |-> TRUE])
      BY <2>2 DEF ChangePicture
    <3>4. QED
      BY <3>1, <3>2, <3>3, Zenon
  <2>3. CASE LookupEnds
    <3>1. lookup \in Wallets
      BY <1>1, <2>3 DEF LookupEnds
    <3>2. QED
      BY <2>3, <3>1, EnsPatch DEF LookupEnds
  <2>4. QED
    BY <2>1, <2>2, <2>3
<1>5. /\ ApiInv' /\ StoreTyped'
      /\ Len(posts') \in {Len(posts), Len(posts) + 1}
  <2>1. CASE \E w \in Wallets, patch \in Patches : Named(patch) /\ Save(w, patch)
    BY <1>1, <1>2, <2>1, SaveKeeps
  <2>2. CASE UNCHANGED <<store, posts>>
    <3>1. UNCHANGED api
      BY <1>2, <2>2 DEF api
    <3>2. QED
      BY <1>1, <2>2, <3>1, ApiUnchanged DEF StoreTyped
  <2>3. QED
    BY <1>4, <2>1, <2>2
<1>6. HydratesTyped'
  BY <1>1, <1>2, <1>5, HydratesKept DEF HydratesTyped
<1>7. TabTyped' /\ JobsTyped'
  BY <1>1, <1>2 DEF TabTyped, JobsTyped
<1>8. QED
  BY <1>3, <1>5, <1>6, <1>7 DEF OnboardingInv, SessionInv

(* handleFinish saves a complete profile under the name it was launched    *)
(* with, whatever the form shows by then.                                  *)
LEMMA FinishKeeps ==
  ASSUME OnboardingInv, FinishSaves
  PROVE  OnboardingInv'
<1>1. /\ ApiInv /\ TabTyped /\ StoreTyped /\ JobsTyped /\ HydratesTyped
      /\ lookup \in Wallets \cup {Nobody}
  BY DEF OnboardingInv, SessionInv
<1>2. /\ UNCHANGED <<kv, redis, owner, faults, tab, hydrates, naming, lookup>>
      /\ finish # NoJob
      /\ finish \in [wallet : Wallets, name : Valid, ens : Labels \cup {NoName},
                     persona : Personas, pic : BOOLEAN, post : Nat, at : JobStages]
  BY <1>1 DEF FinishSaves, JobsTyped
<1>3. PICK patch \in Patches : Named(patch) /\ Save(finish.wallet, patch)
  <2> DEFINE ens == IF finish.ens # NoName THEN finish.ens ELSE SlugOf[finish.name]
             b == [user |-> finish.name, persona |-> finish.persona, done |-> TRUE,
                   pic |-> finish.pic, ens |-> ens]
  <2>1. ens \in Labels \cup {NoName}
    BY <1>2, ProfileAssumption
  <2>2. Save(finish.wallet, b)
    BY DEF FinishSaves
  <2> HIDE DEF ens
  <2>3. b \in Bundle /\ b["user"] \in Valid /\ "user" \in DOMAIN b
    BY <1>2, <2>1, ProfileAssumption DEF Bundle
  <2> HIDE DEF b
  <2>4. b \in Patches /\ Named(b)
    BY <2>3, PartOfBundle DEF Named
  <2>5. QED
    BY <2>2, <2>4
<1>4. ApiInv' /\ StoreTyped' /\ Len(posts') = Len(posts) + 1
  <2>1. finish.wallet \in Wallets
    BY <1>2
  <2>2. QED
    BY <1>1, <1>2, <1>3, <2>1, SaveKeeps
<1>5. JobsTyped'
  <2>1. Len(posts') \in Nat
    BY <1>4 DEF ApiInv, PostsTyped
  <2>2. finish' = [finish EXCEPT !.at = "saving", !.post = Len(posts')]
    BY DEF FinishSaves
  <2> DEFINE f == [finish EXCEPT !.at = "saving"]
  <2>3. /\ f \in [wallet : Wallets, name : Valid, ens : Labels \cup {NoName},
                  persona : Personas, pic : BOOLEAN, post : Nat, at : JobStages]
        /\ finish' = [f EXCEPT !.post = Len(posts')]
    BY <1>2, <2>2 DEF JobStages
  <2> HIDE DEF f
  <2>4. finish' \in [wallet : Wallets, name : Valid, ens : Labels \cup {NoName},
                     persona : Personas, pic : BOOLEAN, post : Nat, at : JobStages]
    BY <2>1, <2>3
  <2>5. QED
    BY <1>1, <1>2, <2>4 DEF JobsTyped
<1>6. HydratesTyped'
  BY <1>1, <1>2, <1>4, HydratesKept DEF HydratesTyped
<1>7. TabTyped' /\ lookup' \in Wallets \cup {Nobody}
  BY <1>1, <1>2 DEF TabTyped
<1>8. QED
  BY <1>4, <1>5, <1>6, <1>7 DEF OnboardingInv, SessionInv

(* handleEnsRegister saves the subname along with the name it was made of. *)
LEMMA NameSavedKeeps ==
  ASSUME OnboardingInv, NameSaved
  PROVE  OnboardingInv'
<1>1. /\ ApiInv /\ TabTyped /\ StoreTyped /\ JobsTyped /\ HydratesTyped
      /\ lookup \in Wallets \cup {Nobody}
  BY DEF OnboardingInv, SessionInv
<1>2. /\ UNCHANGED <<kv, redis, owner, faults, tab, hydrates, finish, lookup>>
      /\ naming # NoJob
      /\ naming \in [wallet : Wallets, name : Valid, at : JobStages, post : Nat]
  BY <1>1 DEF NameSaved, JobsTyped
<1>3. PICK patch \in Patches : Named(patch) /\ Save(naming.wallet, patch)
  <2>1. naming.name \in Valid /\ SlugOf[naming.name] \in Labels
    BY <1>2, ProfileAssumption
  <2>2. Save(naming.wallet, [ens |-> SlugOf[naming.name], user |-> naming.name])
    BY DEF NameSaved
  <2>3. QED
    BY <2>1, <2>2, NamePatch
<1>4. ApiInv' /\ StoreTyped' /\ Len(posts') = Len(posts) + 1
  <2>1. naming.wallet \in Wallets
    BY <1>2
  <2>2. QED
    BY <1>1, <1>2, <1>3, <2>1, SaveKeeps
<1>5. JobsTyped'
  <2>1. Len(posts') \in Nat
    BY <1>4 DEF ApiInv, PostsTyped
  <2>2. naming' = [naming EXCEPT !.at = "saving", !.post = Len(posts')]
    BY DEF NameSaved
  <2> DEFINE n == [naming EXCEPT !.at = "saving"]
  <2>3. /\ n \in [wallet : Wallets, name : Valid, at : JobStages, post : Nat]
        /\ naming' = [n EXCEPT !.post = Len(posts')]
    BY <1>2, <2>2 DEF JobStages
  <2> HIDE DEF n
  <2>4. naming' \in [wallet : Wallets, name : Valid, at : JobStages, post : Nat]
    BY <2>1, <2>3
  <2>5. QED
    BY <1>1, <1>2, <2>4 DEF JobsTyped
<1>6. HydratesTyped'
  BY <1>1, <1>2, <1>4, HydratesKept DEF HydratesTyped
<1>7. TabTyped' /\ lookup' \in Wallets \cup {Nobody}
  BY <1>1, <1>2 DEF TabTyped
<1>8. QED
  BY <1>4, <1>5, <1>6, <1>7 DEF OnboardingInv, SessionInv

(* An answer to a save fills the store and ends the job that waited.       *)
LEMMA SaveAnsweredKeeps ==
  ASSUME OnboardingInv, NEW i \in DOMAIN posts, SaveAnswered(i)
  PROVE  OnboardingInv'
<1>1. /\ ApiInv /\ TabTyped /\ StoreTyped /\ JobsTyped /\ HydratesTyped
      /\ lookup \in Wallets \cup {Nobody}
  BY DEF OnboardingInv, SessionInv
<1>2. /\ UNCHANGED <<kv, redis, owner, faults, lookup>> /\ Over(i, "over")
      /\ posts[i].at # "sent" /\ store' = Patched(posts[i].bundle, store)
      /\ naming' \in {naming, NoJob} /\ finish' \in {finish, NoJob}
      /\ UNCHANGED <<tab, hydrates>> \/ Push("console")
  BY DEF SaveAnswered, NamingAfter
<1>3. ApiInv' /\ Len(posts') = Len(posts)
  BY <1>1, <1>2, OverKeeps
<1>4. StoreTyped'
  <2>1. posts[i].bundle \in Bundle
    <3>1. posts[i] \in PostRec
      BY <1>1 DEF ApiInv, PostsTyped
    <3>2. QED
      BY <3>1 DEF PostRec
  <2>2. posts[i].bundle \in Patches
    BY <2>1, PartOfBundle
  <2>3. QED
    BY <1>1, <1>2, <2>2, PatchedStore
<1>5. TabTyped' /\ HydratesTyped'
  <2>1. CASE UNCHANGED <<tab, hydrates>>
    BY <1>1, <1>3, <2>1, HydratesKept DEF TabTyped, HydratesTyped
  <2>2. CASE Push("console")
    BY <1>1, <1>3, <2>2, PushKeeps DEF Pages
  <2>3. QED
    BY <1>2, <2>1, <2>2
<1>6. JobsTyped' /\ lookup' \in Wallets \cup {Nobody}
  BY <1>1, <1>2 DEF JobsTyped
<1>7. QED
  BY <1>3, <1>4, <1>5, <1>6 DEF OnboardingInv, SessionInv

(* A failed save only ends the job that waited.                            *)
LEMMA SaveFailedKeeps ==
  ASSUME OnboardingInv, NEW i \in DOMAIN posts, SaveFailed(i)
  PROVE  OnboardingInv'
<1>1. /\ ApiInv /\ TabTyped /\ StoreTyped /\ JobsTyped /\ HydratesTyped
      /\ lookup \in Wallets \cup {Nobody}
  BY DEF OnboardingInv, SessionInv
<1>2. /\ UNCHANGED <<kv, redis, owner, faults, tab, store, hydrates, lookup>>
      /\ Over(i, "lost") /\ posts[i].at # "sent"
      /\ naming' \in {naming, NoJob} /\ finish' \in {finish, NoJob}
  BY DEF SaveFailed, NamingAfter
<1>3. ApiInv' /\ Len(posts') = Len(posts)
  BY <1>1, <1>2, OverKeeps
<1>4. HydratesTyped'
  BY <1>1, <1>2, <1>3, HydratesKept DEF HydratesTyped
<1>5. TabTyped' /\ StoreTyped' /\ JobsTyped' /\ lookup' \in Wallets \cup {Nobody}
  BY <1>1, <1>2 DEF TabTyped, StoreTyped, JobsTyped
<1>6. QED
  BY <1>3, <1>4, <1>5 DEF OnboardingInv, SessionInv

(* The server works while the tab does nothing.                            *)
LEMMA ServerStepKeeps ==
  ASSUME OnboardingInv, ServerStep \/ UNCHANGED vars
  PROVE  OnboardingInv'
<1>1. /\ ApiInv /\ TabTyped /\ StoreTyped /\ JobsTyped /\ HydratesTyped
      /\ lookup \in Wallets \cup {Nobody}
  BY DEF OnboardingInv, SessionInv
<1>2. UNCHANGED <<tab, store, hydrates, finish, naming, lookup>>
  BY DEF ServerStep, session, vars
<1>3. ApiInv' /\ Len(posts') = Len(posts)
  BY <1>1, ServerKeeps, ApiUnchanged DEF ServerStep, vars
<1>4. HydratesTyped'
  BY <1>1, <1>2, <1>3, HydratesKept DEF HydratesTyped
<1>5. TabTyped' /\ StoreTyped' /\ JobsTyped' /\ lookup' \in Wallets \cup {Nobody}
  BY <1>1, <1>2 DEF TabTyped, StoreTyped, JobsTyped
<1>6. QED
  BY <1>3, <1>4, <1>5 DEF OnboardingInv, SessionInv

-----------------------------------------------------------------------------
(* The tab is opened, with or without a wallet.                            *)
LEMMA OnboardingInitInv ==
  ASSUME Init
  PROVE  OnboardingInv
<1>1. PICK w \in Openers, page \in Pages :
        /\ tab = NewPage(w, page)
        /\ hydrates = IF w = Nobody THEN {} ELSE {Hydrate(w, page)}
  BY DEF Init, Pages
<1>2. w \in Wallets \cup {Nobody}
  BY OnboardingAssumption
<1>3. ApiInv
  BY ApiInitInv DEF Init
<1>4. TabTyped
  <2>1. tab \in Tabs /\ tab.step = 0
    BY <1>1, <1>2, NewPageTyped
  <2>2. QED
    BY <2>1 DEF TabTyped
<1>5. HydratesTyped
  BY <1>1, <1>2 DEF HydratesTyped, HydrateOK, HydrateRec, Hydrate
<1>6. StoreTyped /\ JobsTyped /\ lookup \in Wallets \cup {Nobody}
  BY ProfileAssumption DEF Init, NewStore, StoreTyped, JobsTyped
<1>7. QED
  BY <1>3, <1>4, <1>5, <1>6 DEF OnboardingInv, SessionInv

(* What the server and the tab keep, they keep together: each action of    *)
(* either, whatever overtakes what and whatever fails.                     *)
LEMMA OnboardingInvariant == Spec => []OnboardingInv
<1>1. Init => OnboardingInv
  BY OnboardingInitInv
<1>2. ASSUME OnboardingInv, [Next]_vars
      PROVE  OnboardingInv'
  <2>1. ASSUME User
        PROVE  OnboardingInv'
    BY <1>2, <2>1, WalletKeeps, FormKeeps, PersonaKeeps, JobStarts, ConsoleSaves DEF User
  <2>2. ASSUME NEW i \in DOMAIN posts, SaveAnswered(i) \/ SaveFailed(i)
        PROVE  OnboardingInv'
    BY <1>2, <2>2, SaveAnsweredKeeps, SaveFailedKeeps
  <2>3. CASE HydrateStep \/ HydrateLost \/ BundleLost
    BY <1>2, <2>3, HydrateKeeps, AppliedKeeps, BundleKeeps DEF HydrateStep
  <2>4. CASE JobStep
    BY <1>2, <2>4, NamesKeep, FinishKeeps, NameSavedKeeps, JobStarts, ConsoleSaves
    DEF JobStep
  <2>5. CASE Redirect \/ ServerStep \/ UNCHANGED vars
    BY <1>2, <2>5, RedirectKeeps, ServerStepKeeps
  <2>6. QED
    BY <1>2, <2>1, <2>2, <2>3, <2>4, <2>5 DEF Next, Answer
<1>3. QED
  BY <1>1, <1>2, PTL DEF Spec

(* Requests, indexes, the tab and its store keep the types the pages and   *)
(* the API declare; a bundle is only asked for where one was stored.       *)
THEOREM ProfileTyped == Spec => []ProfileTypeOK
<1>1. OnboardingInv => ProfileTypeOK
  <2> SUFFICES ASSUME OnboardingInv
               PROVE  ProfileTypeOK
    OBVIOUS
  <2>1. /\ posts \in Seq(PostRec) /\ DOMAIN posts = 1..Len(posts)
        /\ \A i \in DOMAIN posts : /\ posts[i] \in PostRec
                                   /\ posts[i].root \in {0, i}
                                   /\ posts[i].seq \in {0, posts[i].root}
    BY DEF OnboardingInv, ApiInv, PostsTyped
  <2>2. \A i \in DOMAIN posts : /\ posts[i].wallet \in Wallets
                                /\ posts[i].bundle \in Bundle
                                /\ {posts[i].root, posts[i].seq} \subseteq 0..i
    BY <2>1 DEF PostRec
  <2>3. \A w \in Wallets : {kv[w], redis[w]} \subseteq Index \cup {NoIndex}
    BY DEF OnboardingInv, ApiInv, IndexesLead
  <2>4. [f \in DOMAIN EmptyBundle |-> store[f]] \in Bundle /\ store.hydrated \in BOOLEAN
    BY DEF OnboardingInv, SessionInv, StoreTyped, EmptyBundle, Bundle
  <2>5. \A h \in hydrates : h.at = "bundle" => h.index.root \in DOMAIN posts
    BY <2>1 DEF OnboardingInv, SessionInv, HydratesTyped, HydrateOK, HydrateRec, Index
  <2>6. QED
    BY <2>2, <2>3, <2>4, <2>5
    DEF ProfileTypeOK, OnboardingInv, ApiInv, RegistryTyped, SessionInv, TabTyped
<1>2. QED
  BY <1>1, OnboardingInvariant, PTL

(* The name GET /api/profile answers with is the name in the bundle that   *)
(* hydrate loads next, of the same wallet, although the two stores and the *)
(* bundle are written one after the other and each write may fail.         *)
THEOREM IndexesNameBundles == Spec => []IndexNamesItsBundle
<1>1. OnboardingInv => IndexNamesItsBundle
  BY DEF OnboardingInv, ApiInv, IndexesLead, Leads, IndexNamesItsBundle
<1>2. QED
  BY <1>1, OnboardingInvariant, PTL

(* No profile is ever stored as complete without a name that passed the    *)
(* check of the form.                                                      *)
THEOREM CompleteProfilesNamed == Spec => []DoneHasName
<1>1. OnboardingInv => DoneHasName
  BY DEF OnboardingInv, ApiInv
<1>2. QED
  BY <1>1, OnboardingInvariant, PTL

-----------------------------------------------------------------------------
(* Requests of one wallet that do not overlap.                             *)

\* Stages of a request that has written its index.
Written == {"indexed", "answered", "failed", "over", "lost"}

Of(i, w) == i \in DOMAIN posts /\ posts[i].wallet = w

\* No request of the wallet was sent while another was under way.
Calm(w) == \A i \in DOMAIN posts : Of(i, w) => ~posts[i].overlaps

\* Without failures no request is lost, what is uploaded is found under its number, and the
\* key-value store holds an index wherever Redis does.
NothingFailed ==
  /\ \A i \in DOMAIN posts : /\ posts[i].at \notin {"failed", "lost"}
                             /\ posts[i].at # "sent" => posts[i].seq = i
                             /\ posts[i].at \in Written => kv[posts[i].wallet] # NoIndex
  /\ \A w \in Wallets : kv[w] = NoIndex => redis[w] = NoIndex

\* A request that did not overlap found the earlier ones of its wallet answered.
Ordered == \A i, j \in DOMAIN posts :
             posts[i].wallet = posts[j].wallet /\ i < j /\ ~posts[j].overlaps
               => posts[i].at = "over"

\* What was merged is the profile up to there, and the store knows the last that wrote.
Merged(w) ==
  /\ \A i \in DOMAIN posts : Of(i, w) /\ posts[i].at # "sent"
                               => posts[i].bundle = ProfileAfter(posts, w)[i]
  /\ \A i \in DOMAIN posts : Of(i, w) /\ posts[i].at \in Written
                               => kv[w] # NoIndex /\ i <= kv[w].seq
  /\ kv[w] # NoIndex => Of(kv[w].seq, w) /\ posts[kv[w].seq].at \in Written

MergeInv == faults = 0 => /\ NothingFailed /\ Ordered
                          /\ \A w \in Wallets : Calm(w) => Merged(w)

(* When the requests of a wallet did not overlap, and those before the     *)
(* n-th have written, the store leads to the profile they made.            *)
LEMMA StoredProfile ==
  ASSUME ApiInv, faults = 0, MergeInv, NEW w \in Wallets, Calm(w),
         NEW n \in 0 .. Len(posts),
         \A i \in DOMAIN posts : Of(i, w) /\ posts[i].at \in Written => i <= n,
         \A i \in 1 .. n : Of(i, w) => posts[i].at \in Written
  PROVE  BundleAt(IndexFor(w)) = ProfileAfter(posts, w)[n]
<1>1. /\ Len(posts) \in Nat /\ DOMAIN posts = 1 .. Len(posts)
      /\ NothingFailed /\ Merged(w)
  BY DEF ApiInv, PostsTyped, MergeInv
<1>2. CASE kv[w] = NoIndex
  <2>1. BundleAt(IndexFor(w)) = EmptyBundle
    BY <1>1, <1>2 DEF NothingFailed, IndexFor, BundleAt
  <2>2. \A k \in (0 + 1) .. n : posts[k].wallet # w
    BY <1>1, <1>2 DEF Merged, Of
  <2>3. 0 \in 0 .. Len(posts) /\ n \in 0 .. Len(posts)
    BY <1>1
  <2>4. ProfileAfter(posts, w)[n] = ProfileAfter(posts, w)[0]
    BY <1>1, <2>2, <2>3, ProfileRests
  <2>5. QED
    BY <1>1, <2>1, <2>4, ProfileSteps
<1>3. CASE kv[w] # NoIndex
  <2> DEFINE s == kv[w].seq
  <2>1. s \in 1 .. Len(posts) /\ posts[s].wallet = w /\ posts[s].at \in Written /\ s <= n
    BY <1>1, <1>3 DEF Merged, Of
  <2>2. \A k \in (s + 1) .. n : posts[k].wallet # w
    <3> SUFFICES ASSUME NEW k \in (s + 1) .. n, posts[k].wallet = w
                 PROVE  FALSE
      OBVIOUS
    <3>1. k \in 1 .. n /\ k \in DOMAIN posts /\ ~(k <= s)
      BY <1>1, <2>1
    <3>2. posts[k].at \in Written
      BY <3>1 DEF Of
    <3>3. QED
      BY <1>1, <3>1, <3>2 DEF Merged, Of
  <2>3. BundleAt(IndexFor(w)) = posts[s].bundle
    BY <1>3, <2>1 DEF IndexFor, BundleAt
  <2>4. posts[s].bundle = ProfileAfter(posts, w)[s]
    BY <1>1, <2>1 DEF Merged, Of, Written
  <2> HIDE DEF s
  <2>5. s \in 0 .. Len(posts) /\ n \in s .. Len(posts)
    BY <1>1, <2>1
  <2>6. ProfileAfter(posts, w)[n] = ProfileAfter(posts, w)[s]
    BY <1>1, <2>2, <2>5, ProfileRests
  <2>7. QED
    BY <2>3, <2>4, <2>6
<1>4. QED
  BY <1>2, <1>3

(* A request moves and changes neither wallet nor patch nor what it        *)
(* overlaps with.                                                          *)
Moves(i, p) ==
  /\ posts' = [posts EXCEPT ![i] = p]
  /\ p.wallet = posts[i].wallet /\ p.patch = posts[i].patch
  /\ p.overlaps = posts[i].overlaps

LEMMA MoveKeeps ==
  ASSUME ApiInv, NEW i \in DOMAIN posts, NEW p, Moves(i, p)
  PROVE  /\ DOMAIN posts = 1 .. Len(posts) /\ Len(posts) \in Nat
         /\ DOMAIN posts' = DOMAIN posts /\ Len(posts') = Len(posts)
         /\ \A j \in DOMAIN posts : posts'[j] = IF j = i THEN p ELSE posts[j]
         /\ \A j, w : Of(j, w)' <=> Of(j, w)
         /\ \A w : Calm(w)' <=> Calm(w)
         /\ \A w : \A n \in 0 .. Len(posts) :
              ProfileAfter(posts', w)[n] = ProfileAfter(posts, w)[n]
<1>1. posts \in Seq(PostRec)
  BY DEF ApiInv, PostsTyped
<1>2. /\ DOMAIN posts = 1 .. Len(posts) /\ Len(posts) \in Nat
      /\ DOMAIN posts' = DOMAIN posts /\ Len(posts') = Len(posts)
      /\ \A j \in DOMAIN posts : posts'[j] = IF j = i THEN p ELSE posts[j]
  BY <1>1 DEF Moves
<1>3. \A j \in DOMAIN posts :
        /\ posts'[j].wallet = posts[j].wallet /\ posts'[j].patch = posts[j].patch
        /\ posts'[j].overlaps = posts[j].overlaps
  BY <1>2 DEF Moves
<1>4. \A w : \A n \in 0 .. Len(posts) :
        ProfileAfter(posts', w)[n] = ProfileAfter(posts, w)[n]
  <2>1. /\ Len(posts') \in Nat /\ Len(posts) <= Len(posts')
        /\ \A n \in 1 .. Len(posts) :
             posts'[n].wallet = posts[n].wallet /\ posts'[n].patch = posts[n].patch
    BY <1>2, <1>3
  <2>2. QED
    BY <1>2, <2>1, SameProfile
<1>5. \A j, w : Of(j, w)' <=> Of(j, w)
  BY <1>2, <1>3 DEF Of
<1>6. \A w : Calm(w)' <=> Calm(w)
  BY <1>2, <1>3, <1>5 DEF Calm
<1>7. QED
  BY <1>2, <1>4, <1>5, <1>6

(* The first upload of a request: what it merges with is the profile up to *)
(* the request before it.                                                  *)
LEMMA UploadMerges ==
  ASSUME ApiInv, MergeInv, NEW i \in DOMAIN posts, PostMerges(i), faults' = 0
  PROVE  MergeInv'
<1>1. /\ posts[i].at = "sent" /\ faults = 0 /\ UNCHANGED <<kv, redis>>
      /\ MergeInto(i, BundleAt(IndexFor(posts[i].wallet)), i, i)
      /\ NothingFailed /\ Ordered /\ \A w \in Wallets : Calm(w) => Merged(w)
  <2>1. faults \in Nat
    BY ProfileAssumption DEF ApiInv, RegistryTyped
  <2>2. ~Fault
    BY <2>1 DEF Fault
  <2>3. faults = 0
    BY <2>2 DEF PostMerges
  <2>4. QED
    BY <2>2, <2>3 DEF PostMerges, MergeInv
<1> DEFINE old == BundleAt(IndexFor(posts[i].wallet))
<1>2. PICK p : /\ Moves(i, p) /\ p.at = "uploaded" /\ p.seq = i
               /\ p.bundle = Patched(posts[i].patch, old)
  <2> DEFINE b == Patched(posts[i].patch, old)
             q == [posts[i] EXCEPT !.at = "uploaded", !.bundle = b, !.root = i, !.seq = i]
  <2>1. posts[i] \in PostRec
    BY DEF ApiInv, PostsTyped
  <2>2. posts' = [posts EXCEPT ![i] = q]
    BY <1>1 DEF MergeInto
  <2> HIDE DEF b
  <2>3. /\ q.at = "uploaded" /\ q.bundle = b /\ q.seq = i /\ q.wallet = posts[i].wallet
        /\ q.patch = posts[i].patch /\ q.overlaps = posts[i].overlaps
    BY <2>1 DEF PostRec
  <2> HIDE DEF q
  <2>4. QED
    BY <2>2, <2>3 DEF Moves, b
<1> HIDE DEF old
<1>3. /\ DOMAIN posts = 1 .. Len(posts) /\ Len(posts) \in Nat
      /\ DOMAIN posts' = DOMAIN posts /\ Len(posts') = Len(posts)
      /\ \A j \in DOMAIN posts : posts'[j] = IF j = i THEN p ELSE posts[j]
      /\ \A j, w : Of(j, w)' <=> Of(j, w)
      /\ \A w : Calm(w)' <=> Calm(w)
      /\ \A w : \A n \in 0 .. Len(posts) :
           ProfileAfter(posts', w)[n] = ProfileAfter(posts, w)[n]
  BY <1>2, MoveKeeps
<1>4. p.wallet = posts[i].wallet /\ p.overlaps = posts[i].overlaps
  BY <1>2 DEF Moves
<1>5. NothingFailed'
  BY <1>1, <1>2, <1>3, <1>4 DEF NothingFailed, Written
<1>6. Ordered'
  BY <1>1, <1>3, <1>4 DEF Ordered
<1>7. ASSUME NEW w \in Wallets, Calm(w)
      PROVE  Merged(w)'
  <2>1. ASSUME NEW j \in DOMAIN posts, Of(j, w), posts'[j].at # "sent"
        PROVE  posts'[j].bundle = ProfileAfter(posts', w)[j]
    <3>1. CASE j # i
      BY <1>1, <1>3, <1>7, <2>1, <3>1 DEF Merged
    <3>2. CASE j = i
      <4>1. w = posts[i].wallet
        BY <2>1, <3>2 DEF Of
      <4>2. i - 1 \in 0 .. Len(posts) /\ i \in 1 .. Len(posts)
        BY <1>3
      <4>3. \A k \in 1 .. (i - 1) : Of(k, w) => posts[k].at \in Written
        BY <1>1, <1>3, <1>7, <4>1, <4>2 DEF Ordered, Calm, Of, Written
      <4>4. \A k \in DOMAIN posts : Of(k, w) /\ posts[k].at \in Written => k <= i - 1
        <5> SUFFICES ASSUME NEW k \in DOMAIN posts, Of(k, w), posts[k].at \in Written,
                            ~(k <= i - 1)
                     PROVE  FALSE
          OBVIOUS
        <5>1. i < k
          BY <1>1, <1>3, <4>2 DEF Written
        <5>2. posts[i].at = "over"
          BY <1>1, <1>3, <1>7, <4>1, <5>1 DEF Ordered, Calm, Of
        <5>3. QED
          BY <1>1, <5>2
      <4>5. old = ProfileAfter(posts, w)[i - 1]
        BY <1>1, <1>7, <4>1, <4>2, <4>3, <4>4, StoredProfile DEF old
      <4>6. ProfileAfter(posts, w)[i] = Patched(posts[i].patch, ProfileAfter(posts, w)[i - 1])
        BY <1>3, <4>1, <4>2, ProfileSteps
      <4>7. QED
        BY <1>2, <1>3, <3>2, <4>2, <4>5, <4>6
    <3>3. QED
      BY <3>1, <3>2
  <2>2. ASSUME NEW j \in DOMAIN posts, Of(j, w), posts'[j].at \in Written
        PROVE  kv[w] # NoIndex /\ j <= kv[w].seq
    BY <1>1, <1>2, <1>3, <1>7, <2>2 DEF Merged, Written
  <2>3. ASSUME kv[w] # NoIndex
        PROVE  Of(kv[w].seq, w) /\ posts'[kv[w].seq].at \in Written
    BY <1>1, <1>2, <1>3, <1>7, <2>3 DEF Merged, Written, Of
  <2>4. QED
    BY <1>1, <1>3, <2>1, <2>2, <2>3 DEF Merged
<1>8. QED
  BY <1>3, <1>5, <1>6, <1>7 DEF MergeInv

(* A request moves on past its upload, and its index is written, to the    *)
(* key-value store first.                                                  *)
LEMMA IndexMerges ==
  ASSUME ApiInv, MergeInv, NEW i \in DOMAIN posts,
         PostIndexes(i) \/ PostAnswers(i) \/ SaveAnswered(i) \/ SaveFailed(i), faults' = 0
  PROVE  MergeInv'
<1>1. /\ faults = 0 /\ NothingFailed /\ Ordered /\ \A w \in Wallets : Calm(w) => Merged(w)
      /\ posts[i] \in PostRec /\ posts \in Seq(PostRec) /\ ~Fault
  <2>1. faults \in Nat /\ posts \in Seq(PostRec)
    BY ProfileAssumption DEF ApiInv, RegistryTyped, PostsTyped
  <2>2. ~Fault
    BY <2>1 DEF Fault
  <2>3. faults = 0
    BY <2>2 DEF PostIndexes, PostAnswers, SaveAnswered, SaveFailed
  <2>4. QED
    BY <2>1, <2>2, <2>3 DEF MergeInv
<1>2. PICK stage \in {"indexed", "answered", "over"} :
        /\ posts' = [posts EXCEPT ![i].at = stage]
        /\ posts[i].at = IF stage = "indexed" THEN "uploaded"
                         ELSE IF stage = "answered" THEN "indexed" ELSE "answered"
        /\ kv' = IF stage = "indexed" THEN [kv EXCEPT ![posts[i].wallet] = IndexOf(i, posts[i])]
                 ELSE kv
        /\ redis' = IF stage = "answered"
                    THEN [redis EXCEPT ![posts[i].wallet] = IndexOf(i, posts[i])]
                    ELSE redis
  <2>1. CASE PostIndexes(i)
    BY <1>1, <2>1 DEF PostIndexes
  <2>2. CASE PostAnswers(i)
    BY <1>1, <2>2 DEF PostAnswers
  <2>3. CASE SaveAnswered(i)
    BY <2>3 DEF SaveAnswered, Over
  <2>4. ~SaveFailed(i)
    BY <1>1 DEF SaveFailed, NothingFailed
  <2>5. QED
    BY <2>1, <2>2, <2>3, <2>4
<1>3. PICK p : /\ Moves(i, p) /\ p.at = stage /\ p.seq = i /\ p.bundle = posts[i].bundle
  <2> DEFINE q == [posts[i] EXCEPT !.at = stage]
  <2>1. posts[i].seq = i
    BY <1>1, <1>2 DEF NothingFailed
  <2>2. posts' = [posts EXCEPT ![i] = q]
    BY <1>2
  <2>3. /\ q.at = stage /\ q.bundle = posts[i].bundle /\ q.seq = i
        /\ q.wallet = posts[i].wallet /\ q.patch = posts[i].patch
        /\ q.overlaps = posts[i].overlaps
    BY <1>1, <2>1 DEF PostRec
  <2> HIDE DEF q
  <2>4. QED
    BY <2>2, <2>3 DEF Moves
<1>4. /\ DOMAIN posts = 1 .. Len(posts) /\ Len(posts) \in Nat
      /\ DOMAIN posts' = DOMAIN posts /\ Len(posts') = Len(posts)
      /\ \A j \in DOMAIN posts : posts'[j] = IF j = i THEN p ELSE posts[j]
      /\ \A j, w : Of(j, w)' <=> Of(j, w)
      /\ \A w : Calm(w)' <=> Calm(w)
      /\ \A w : \A n \in 0 .. Len(posts) :
           ProfileAfter(posts', w)[n] = ProfileAfter(posts, w)[n]
  BY <1>3, MoveKeeps
<1> DEFINE ix == IndexOf(i, posts[i])
           own == posts[i].wallet
<1>5. /\ own \in Wallets /\ ix # NoIndex /\ ix.seq = i
      /\ p.wallet = own /\ p.overlaps = posts[i].overlaps
      /\ kv \in [Wallets -> Index \cup {NoIndex}]
      /\ redis \in [Wallets -> Index \cup {NoIndex}]
  <2>1. posts[i].seq = i
    BY <1>1, <1>2 DEF NothingFailed
  <2>2. ix \in Index /\ ix.seq = i
    BY <1>1, <2>1 DEF IndexOf, Index, PostRec, Bundle
  <2>3. QED
    BY <1>1, <1>3, <2>2, ProfileAssumption DEF Moves, PostRec, ApiInv, IndexesLead
<1> HIDE DEF ix, own
<1>6. kv' = IF stage = "indexed" THEN [kv EXCEPT ![own] = ix] ELSE kv
  BY <1>2 DEF ix, own
<1>7. redis' = IF stage = "answered" THEN [redis EXCEPT ![own] = ix] ELSE redis
  BY <1>2 DEF ix, own
<1>8. Ordered'
  BY <1>1, <1>2, <1>3, <1>4, <1>5 DEF Ordered, own
<1>9. ASSUME NEW w \in Wallets, Calm(w)
      PROVE  Merged(w)'
  <2>1. Merged(w)
    BY <1>1, <1>9
  <2>2. ASSUME NEW j \in DOMAIN posts, Of(j, w), posts'[j].at # "sent"
        PROVE  posts'[j].bundle = ProfileAfter(posts', w)[j]
    <3>1. posts'[j].bundle = posts[j].bundle /\ posts[j].at # "sent"
      BY <1>2, <1>3, <1>4, <2>2
    <3>2. posts[j].bundle = ProfileAfter(posts, w)[j]
      BY <2>1, <2>2, <3>1 DEF Merged
    <3>3. j \in 0 .. Len(posts)
      BY <1>4
    <3>4. QED
      BY <1>4, <3>1, <3>2, <3>3
  <2>3. CASE stage = "indexed" /\ w = own
    <3>1. kv'[w] = ix
      BY <1>5, <1>6, <2>3
    <3>2. Of(i, w) /\ posts'[i].at \in Written
      BY <1>3, <1>4, <2>3 DEF Of, own, Written
    <3>3. ASSUME NEW j \in DOMAIN posts, Of(j, w), posts'[j].at \in Written
          PROVE  j <= i
      <4> SUFFICES ASSUME ~(j <= i)
                   PROVE  FALSE
        OBVIOUS
      <4>1. i < j /\ ~posts[j].overlaps /\ posts[i].wallet = posts[j].wallet
        BY <1>4, <1>9, <2>3, <3>3 DEF Calm, Of, own
      <4>2. posts[i].at = "over"
        BY <1>1, <4>1 DEF Ordered
      <4>3. QED
        BY <1>2, <2>3, <4>2
    <3>4. QED
      BY <1>4, <1>5, <2>2, <3>1, <3>2, <3>3 DEF Merged
  <2>4. CASE ~(stage = "indexed" /\ w = own)
    <3>1. kv'[w] = kv[w]
      BY <1>5, <1>6, <2>4
    <3>2. ASSUME NEW j, Of(j, w)
          PROVE  posts'[j].at \in Written <=> posts[j].at \in Written
      <4>1. CASE j = i
        <5>1. stage # "indexed"
          BY <2>4, <3>2, <4>1 DEF Of, own
        <5>2. QED
          BY <1>2, <1>3, <1>4, <4>1, <5>1 DEF Written
      <4>2. CASE j # i
        BY <1>4, <3>2, <4>2 DEF Of
      <4>3. QED
        BY <4>1, <4>2
    <3>3. QED
      BY <1>4, <2>1, <2>2, <3>1, <3>2 DEF Merged
  <2>5. QED
    BY <2>3, <2>4
<1>10. NothingFailed'
  <2>1. ASSUME NEW j \in DOMAIN posts
        PROVE  /\ posts'[j].at \notin {"failed", "lost"}
               /\ posts'[j].at # "sent" => posts'[j].seq = j
    BY <1>1, <1>3, <1>4 DEF NothingFailed
  <2>2. ASSUME NEW j \in DOMAIN posts, posts'[j].at \in Written
        PROVE  kv'[posts'[j].wallet] # NoIndex
    <3>1. posts[j].wallet \in Wallets /\ posts'[j].wallet = posts[j].wallet
      <4>1. posts[j] \in PostRec
        BY <1>1
      <4>2. QED
        BY <1>4, <1>5, <4>1 DEF PostRec, own
    <3>2. kv'[posts[j].wallet] = ix \/ kv'[posts[j].wallet] = kv[posts[j].wallet]
      BY <1>5, <1>6, <3>1
    <3>3. CASE stage = "indexed" /\ j = i
      BY <1>5, <1>6, <3>1, <3>3 DEF own
    <3>4. CASE ~(stage = "indexed" /\ j = i)
      <4>1. posts[j].at \in Written
        BY <1>2, <1>3, <1>4, <2>2, <3>4 DEF Written
      <4>2. QED
        BY <1>1, <1>5, <3>1, <3>2, <4>1 DEF NothingFailed
    <3>5. QED
      BY <3>3, <3>4
  <2>3. ASSUME NEW w \in Wallets, kv'[w] = NoIndex
        PROVE  redis'[w] = NoIndex
    <3>1. kv[w] = NoIndex
      BY <1>5, <1>6, <2>3
    <3>2. redis[w] = NoIndex
      BY <1>1, <3>1 DEF NothingFailed
    <3>3. ~(stage = "answered" /\ w = own)
      BY <1>1, <1>2, <3>1 DEF NothingFailed, Written, own
    <3>4. QED
      BY <1>5, <1>7, <3>2, <3>3
  <2>4. QED
    BY <1>4, <2>1, <2>2, <2>3 DEF NothingFailed
<1>11. QED
  BY <1>4, <1>8, <1>9, <1>10 DEF MergeInv

(* A new request finds the earlier ones of its wallet answered, or it      *)
(* overlaps.                                                               *)
LEMMA PostMergesNothing ==
  ASSUME ApiInv, MergeInv, NEW u, NEW patch, Post(u, patch),
         UNCHANGED <<kv, redis, faults>>
  PROVE  MergeInv'
<1> SUFFICES ASSUME faults = 0
             PROVE  /\ NothingFailed' /\ Ordered'
                    /\ \A w \in Wallets : Calm(w)' => Merged(w)'
  BY DEF MergeInv
<1> DEFINE n == Len(posts)
           new == Request(u, patch)
<1>1. /\ posts \in Seq(PostRec) /\ DOMAIN posts = 1 .. n /\ n \in Nat
      /\ NothingFailed /\ Ordered /\ \A w \in Wallets : Calm(w) => Merged(w)
  BY DEF ApiInv, PostsTyped, MergeInv
<1>2. /\ new.wallet = u /\ new.at = "sent"
      /\ new.overlaps <=> \E i \in DOMAIN posts : posts[i].wallet = u /\ Waiting(i)
  BY DEF Request
<1>3. posts' = Append(posts, new)
  BY DEF Post
<1> HIDE DEF new
<1>4. /\ DOMAIN posts' = 1 .. (n + 1) /\ Len(posts') = n + 1 /\ posts'[n + 1] = new
      /\ \A i \in 1 .. n : posts'[i] = posts[i]
  BY <1>1, <1>3
<1> HIDE DEF n
<1>5. NothingFailed'
  BY <1>1, <1>2, <1>4 DEF NothingFailed, Written
<1>6. Ordered'
  <2> SUFFICES ASSUME NEW i \in DOMAIN posts', NEW j \in DOMAIN posts',
                      posts'[i].wallet = posts'[j].wallet, i < j, ~posts'[j].overlaps
               PROVE  posts'[i].at = "over"
    BY DEF Ordered
  <2>1. i \in 1 .. n /\ posts'[i] = posts[i]
    BY <1>1, <1>4
  <2>2. CASE j \in 1 .. n
    BY <1>1, <1>4, <2>1, <2>2 DEF Ordered
  <2>3. CASE j = n + 1
    <3>1. ~Waiting(i)
      BY <1>1, <1>2, <1>4, <2>1, <2>3
    <3>2. QED
      BY <1>1, <2>1, <3>1 DEF Waiting, NothingFailed
  <2>4. QED
    BY <1>1, <1>4, <2>2, <2>3
<1>7. ASSUME NEW w \in Wallets, Calm(w)'
      PROVE  Merged(w)'
  <2>1. Calm(w)
    BY <1>1, <1>4, <1>7 DEF Calm, Of
  <2>2. Merged(w)
    BY <1>1, <2>1
  <2>3. \A k \in 0 .. n : ProfileAfter(posts', w)[k] = ProfileAfter(posts, w)[k]
    <3>1. /\ Len(posts) = n /\ Len(posts') \in Nat /\ Len(posts) <= Len(posts')
          /\ \A k \in 1 .. Len(posts) :
               posts'[k].wallet = posts[k].wallet /\ posts'[k].patch = posts[k].patch
      BY <1>1, <1>4 DEF n
    <3>2. QED
      BY <1>1, <3>1, SameProfile
  <2>4. ASSUME NEW i \in DOMAIN posts', Of(i, w)', posts'[i].at # "sent"
        PROVE  /\ posts'[i].bundle = ProfileAfter(posts', w)[i]
               /\ posts'[i].at \in Written => kv[w] # NoIndex /\ i <= kv[w].seq
    <3>1. i \in 1 .. n /\ i \in 0 .. n /\ posts'[i] = posts[i] /\ Of(i, w)
      BY <1>1, <1>2, <1>4, <2>4 DEF Of
    <3>2. QED
      BY <1>1, <2>2, <2>3, <2>4, <3>1 DEF Merged
  <2>5. ASSUME kv[w] # NoIndex
        PROVE  Of(kv[w].seq, w)' /\ posts'[kv[w].seq].at \in Written
    BY <1>1, <1>4, <2>2, <2>5 DEF Merged, Of
  <2>6. \A i \in DOMAIN posts' : posts'[i].at \in Written => posts'[i].at # "sent"
    BY DEF Written
  <2>7. QED
    BY <2>4, <2>5, <2>6 DEF Merged
<1>8. QED
  BY <1>5, <1>6, <1>7

(* A step that leaves requests and indexes alone, or a failure.            *)
LEMMA MergeStays ==
  ASSUME ApiInv, MergeInv, UNCHANGED <<posts, kv, redis>>, Fault \/ UNCHANGED faults
  PROVE  MergeInv'
<1>1. CASE Fault
  <2>1. faults' # 0
    BY <1>1, ProfileAssumption DEF ApiInv, RegistryTyped, Fault
  <2>2. QED
    BY <2>1 DEF MergeInv
<1>2. CASE UNCHANGED faults
  BY <1>2 DEF MergeInv, NothingFailed, Ordered, Calm, Of, Merged
<1>3. QED
  BY <1>1, <1>2

(* The requests of before are answered, each with the profile up to it.    *)
LEMMA MergeStarts ==
  ASSUME ApiInit, ApiInv
  PROVE  MergeInv
<1>1. /\ posts \in Seq(PostRec) /\ DOMAIN posts = 1 .. Len(posts) /\ Len(posts) \in Nat
      /\ DOMAIN Earlier = 1 .. Len(Earlier) /\ Len(Earlier) \in Nat
      /\ posts = [i \in DOMAIN Earlier |-> EarlierPost(i)] /\ redis = kv
      /\ kv = [w \in Wallets |-> EarlierIndex(w)]
  BY ProfileAssumption DEF ApiInit, ApiInv, PostsTyped
<1>2. Len(posts) = Len(Earlier) /\ DOMAIN posts = DOMAIN Earlier
  <2>1. DOMAIN posts = DOMAIN Earlier
    BY <1>1
  <2>2. QED
    BY <1>1, <2>1
<1>3. \A i \in DOMAIN posts :
        /\ posts[i].wallet = Earlier[i].wallet /\ posts[i].patch = Earlier[i].patch
        /\ posts[i].at = "over" /\ posts[i].seq = i /\ posts[i].bundle = EarlierBundle(i)
        /\ IndexOf(i, EarlierPost(i)).seq = i
  BY <1>1, <1>2 DEF EarlierPost, IndexOf
<1>4. ASSUME NEW w \in Wallets
      PROVE  \/ kv[w] = NoIndex /\ \A i \in DOMAIN posts : ~Of(i, w)
             \/ /\ kv[w] # NoIndex /\ Of(kv[w].seq, w)
                /\ \A i \in DOMAIN posts : Of(i, w) => i <= kv[w].seq
  <2> DEFINE own == {i \in DOMAIN Earlier : Earlier[i].wallet = w}
             last == CHOOSE i \in own : \A j \in own : j <= i
  <2>1. \A i : Of(i, w) <=> i \in own
    BY <1>2, <1>3 DEF Of
  <2>2. CASE own = {}
    BY <1>1, <2>1, <2>2 DEF EarlierIndex
  <2>3. CASE own # {}
    <3>1. last \in own /\ \A j \in own : j <= last
      <4>1. own \in SUBSET (1 .. Len(posts))
        BY <1>1, <1>2
      <4> HIDE DEF own
      <4>2. \E i \in own : \A j \in own : j <= i
        BY <1>1, <2>3, <4>1, LastPosition
      <4>3. QED
        BY <4>2
    <3>2. kv[w] = IndexOf(last, EarlierPost(last))
      BY <1>1, <2>3 DEF EarlierIndex
    <3>3. last \in DOMAIN posts /\ Of(last, w)
      BY <2>1, <3>1 DEF Of
    <3> HIDE DEF last, own
    <3>4. kv[w].seq = last
      BY <1>3, <3>2, <3>3
    <3>5. kv[w] # NoIndex
      <4>1. posts[last] \in PostRec /\ kv[w] = IndexOf(last, posts[last])
        BY <1>1, <1>2, <3>2, <3>3
      <4>2. kv[w] \in Index
        BY <4>1 DEF IndexOf, Index, PostRec, Bundle
      <4>3. QED
        BY <4>2, ProfileAssumption
    <3>6. QED
      BY <2>1, <3>1, <3>3, <3>4, <3>5
  <2>4. QED
    BY <2>2, <2>3
<1>5. NothingFailed
  <2>1. \A i \in DOMAIN posts : kv[posts[i].wallet] # NoIndex
    <3> SUFFICES ASSUME NEW i \in DOMAIN posts
                 PROVE  kv[posts[i].wallet] # NoIndex
      OBVIOUS
    <3>1. posts[i].wallet \in Wallets /\ Of(i, posts[i].wallet)
      <4>1. posts[i] \in PostRec
        BY <1>1
      <4>2. QED
        BY <4>1 DEF PostRec, Of
    <3>2. QED
      BY <1>4, <3>1
  <2>2. QED
    BY <1>1, <1>3, <2>1 DEF NothingFailed
<1>6. Ordered
  BY <1>3 DEF Ordered
<1>7. ASSUME NEW w \in Wallets
      PROVE  Merged(w)
  <2>1. ASSUME NEW i \in DOMAIN posts, Of(i, w)
        PROVE  posts[i].bundle = ProfileAfter(posts, w)[i]
    <3>1. Earlier[i].wallet = w /\ i \in 0 .. Len(Earlier)
      BY <1>1, <1>2, <1>3, <2>1 DEF Of
    <3>2. \A n \in 1 .. Len(Earlier) :
            posts[n].wallet = Earlier[n].wallet /\ posts[n].patch = Earlier[n].patch
      BY <1>1, <1>2, <1>3
    <3>3. ProfileAfter(posts, w)[i] = ProfileAfter(Earlier, w)[i]
      <4>1. Len(posts) \in Nat /\ Len(Earlier) \in Nat /\ Len(Earlier) <= Len(posts)
        BY <1>1, <1>2
      <4>2. \A n \in 0 .. Len(Earlier) :
              ProfileAfter(posts, w)[n] = ProfileAfter(Earlier, w)[n]
        BY <3>2, <4>1, SameProfile
      <4>3. QED
        BY <3>1, <4>2
    <3>4. QED
      BY <1>3, <3>1, <3>3 DEF EarlierBundle
  <2>2. QED
    BY <1>3, <1>4, <2>1 DEF Merged, Of, Written
<1>8. QED
  BY <1>5, <1>6, <1>7 DEF MergeInv

(* What a step of the server or of the tab does to requests and indexes.   *)
LEMMA PostEffects ==
  ASSUME [Next]_vars
  PROVE  \/ UNCHANGED <<posts, kv, redis>> /\ (Fault \/ UNCHANGED faults)
         \/ /\ \E w, patch : Post(w, patch)
            /\ UNCHANGED <<kv, redis, faults>>
         \/ \E i \in DOMAIN posts :
              \/ PostMerges(i) \/ PostIndexes(i) \/ PostAnswers(i)
              \/ SaveAnswered(i) \/ SaveFailed(i)
<1>1. CASE User \/ Redirect \/ UNCHANGED vars
  BY <1>1 DEF User, Redirect, Connect, SwitchAccount, LeaveWizard, SignOut, TypeName, NameNext,
              ChoosePersona, StepTo, Launch, ChangePersona, ChangePicture, AskName, FormStays,
              Save, vars, api
<1>2. CASE HydrateStep \/ HydrateLost \/ BundleLost
  BY <1>2 DEF HydrateStep, HydrateAnswered, HydrateApplied, BundleLoaded, HydrateLost,
              BundleLost, api
<1>3. CASE JobStep
  BY <1>3 DEF JobStep, FinishNames, FinishSaves, NamingStep, NameSaved, NameRefused,
              LookupEnds, Naming, Save, api
<1>4. CASE ServerStep \/ Answer
  BY <1>4 DEF ServerStep, PostStep, Answer
<1>5. QED
  BY <1>1, <1>2, <1>3, <1>4 DEF Next

LEMMA MergeInvariant == Spec => []MergeInv
<1>1. Init /\ OnboardingInv => MergeInv
  BY MergeStarts DEF Init, OnboardingInv
<1>2. ASSUME OnboardingInv, MergeInv, [Next]_vars
      PROVE  MergeInv'
  <2>1. ApiInv
    BY <1>2 DEF OnboardingInv
  <2>2. CASE UNCHANGED <<posts, kv, redis>> /\ (Fault \/ UNCHANGED faults)
    BY <1>2, <2>1, <2>2, MergeStays
  <2>3. CASE (\E w, patch : Post(w, patch)) /\ UNCHANGED <<kv, redis, faults>>
    BY <1>2, <2>1, <2>3, PostMergesNothing
  <2>4. ASSUME NEW i \in DOMAIN posts,
               \/ PostMerges(i) \/ PostIndexes(i) \/ PostAnswers(i)
               \/ SaveAnswered(i) \/ SaveFailed(i)
        PROVE  MergeInv'
    <3>1. CASE faults' = 0
      BY <1>2, <2>1, <2>4, <3>1, UploadMerges, IndexMerges
    <3>2. CASE faults' # 0
      BY <3>2 DEF MergeInv
    <3>3. QED
      BY <3>1, <3>2
  <2>5. QED
    BY <1>2, <2>2, <2>3, <2>4, PostEffects
<1>3. QED
  BY <1>1, <1>2, OnboardingInvariant, PTL DEF Spec

(* Requests of a wallet that neither overlapped nor failed have lost no    *)
(* field: the profile that is found is all their patches in order.         *)
THEOREM PostsMerge == Spec => []SequentialPostsMerge
<1>1. OnboardingInv /\ MergeInv => SequentialPostsMerge
  <2> SUFFICES ASSUME ApiInv, MergeInv, NEW w \in Wallets, faults = 0,
                      \A i \in DOMAIN posts : posts[i].wallet = w
                        => posts[i].at = "over" /\ ~posts[i].overlaps
               PROVE  BundleAt(IndexFor(w)) = ProfileAfter(posts, w)[Len(posts)]
    BY DEF SequentialPostsMerge, OnboardingInv
  <2>1. Len(posts) \in Nat /\ DOMAIN posts = 1 .. Len(posts)
    BY DEF ApiInv, PostsTyped
  <2>2. /\ Calm(w)
        /\ \A i \in DOMAIN posts : Of(i, w) /\ posts[i].at \in Written => i <= Len(posts)
        /\ \A i \in 1 .. Len(posts) : Of(i, w) => posts[i].at \in Written
    BY <2>1 DEF Calm, Of, Written
  <2>3. QED
    BY <2>1, <2>2, StoredProfile
<1>2. QED
  BY <1>1, OnboardingInvariant, MergeInvariant, PTL
=============================================================================
