----------------------------- MODULE ProfileApi -----------------------------
(***************************************************************************)
(* What the web server keeps of a wallet's profile.  POST /api/profile     *)
(* reads the wallet's index, merges the patch into the bundle the index    *)
(* points at, uploads the result, and writes the new index to the          *)
(* key-value store and then to Redis.  Nothing orders the requests of one  *)
(* wallet, each call may fail, and most failures are logged and ignored.   *)
(*                                                                         *)
(* The root hash of an upload is the position of its request in posts: a   *)
(* bundle holds the time of its request, so no two of them are equal.      *)
(***************************************************************************)
EXTENDS Naturals, SequencesExt

CONSTANTS Wallets, Personas,
          Names, Valid,       \* what the user may type; what passes the check of the form
          Labels, SlugOf,     \* subnames; the one that a typed name becomes
          EmptyLabel,         \* what is left of a name made of dashes
          Earlier,            \* requests answered before: a sequence of patches
          FirstPersona, NoName, NoIndex, Nobody, Someone,
          MaxSaves,           \* bound: requests, those of Earlier among them
          MaxFaults           \* bound: calls that fail

VARIABLES posts,  \* requests to POST /api/profile, and the bundles they stored
          kv,     \* the index of each wallet in the key-value store
          redis,  \* and in Redis
          owner,  \* the owner of each subname in the registry
          faults  \* calls that have failed

api == <<posts, kv, redis, owner, faults>>

Bundle == [user : Names \cup {NoName}, ens : Labels \cup {NoName}, persona : Personas,
           done : BOOLEAN, pic : BOOLEAN]
EmptyBundle == [user |-> NoName, ens |-> NoName, persona |-> FirstPersona,
                done |-> FALSE, pic |-> FALSE]

\* A patch names some fields of a bundle.
Patches == {[f \in fs |-> b[f]] : fs \in SUBSET DOMAIN EmptyBundle, b \in Bundle}

\* The bundle that a patch makes of another, field by field.
Patched(patch, old) ==
  [f \in DOMAIN old \cup DOMAIN patch |-> IF f \in DOMAIN patch THEN patch[f] ELSE old[f]]

\* Zero stands for the root hash '' and for the sequence number 0.
Index == [ens : Labels \cup {NoName}, seq : Nat, root : Nat]

\* Mutant: the index shows the name of the patch or none.
IndexOfPatch(i, p) == [ens |-> IF "ens" \in DOMAIN p.patch THEN p.patch.ens ELSE NoName,
                       seq |-> p.seq, root |-> p.root]

\* The name the index shows is the merged bundle's.
IndexOf(i, p) == [ens |-> p.bundle.ens, seq |-> p.seq, root |-> p.root]

ASSUME ProfileAssumption ==
  /\ Valid \subseteq Names /\ SlugOf \in [Names -> Labels] /\ EmptyLabel \in Labels
  /\ FirstPersona \in Personas /\ NoName \notin Names \cup Labels /\ NoIndex \notin Index
  /\ {Nobody, Someone} \cap Wallets = {}
  /\ MaxSaves \in Nat /\ MaxFaults \in Nat /\ Len(Earlier) <= MaxSaves
  /\ Earlier \in Seq([wallet : Wallets, patch : Patches])

Fault == faults < MaxFaults /\ faults' = faults + 1

----------------------------------------------------------------------------
(* POST /api/profile *)

Waiting(i) == posts[i].at \notin {"over", "lost"}

\* A request, and whether another of its wallet was under way then.
Request(w, patch) ==
  [wallet |-> w, patch |-> patch, at |-> "sent", bundle |-> EmptyBundle,
   root |-> 0, seq |-> 0,
   overlaps |-> \E i \in DOMAIN posts : posts[i].wallet = w /\ Waiting(i)]

Post(w, patch) == posts' = Append(posts, Request(w, patch))

\* The bundle an index leads to; it is looked up by sequence number.
BundleAt(ix) ==
  IF ix = NoIndex THEN EmptyBundle
  ELSE IF ix.seq > 0 THEN posts[ix.seq].bundle ELSE EmptyBundle

\* The key-value store first, Redis when it holds nothing.
IndexFor(w) == IF kv[w] # NoIndex THEN kv[w] ELSE redis[w]

\* Mutant: a field the patch does not name is reset.
ReplaceBy(i, old, root, seq) ==
  posts' = [posts EXCEPT ![i].at = "uploaded", ![i].bundle = Patched(posts[i].patch, EmptyBundle),
                         ![i].root = root, ![i].seq = seq]

MergeInto(i, old, root, seq) ==
  posts' = [posts EXCEPT ![i].at = "uploaded", ![i].bundle = Patched(posts[i].patch, old),
                         ![i].root = root, ![i].seq = seq]

\* The index is read, the bundle fetched, merged and uploaded: nothing of this is seen by
\* others before the index is written.  A store that times out leaves Redis to ask; a
\* bundle that does not come counts as empty; an error of the indexer leaves the root hash
\* of the tree and no sequence number, and an exception neither.
PostMerges(i) ==
  /\ posts[i].at = "sent"
  /\ LET w == posts[i].wallet
         old == BundleAt(IndexFor(w))
     IN \/ MergeInto(i, old, i, i) /\ UNCHANGED faults
        \/ Fault /\ \/ MergeInto(i, BundleAt(redis[w]), i, i)
                    \/ MergeInto(i, EmptyBundle, i, i)
                    \/ MergeInto(i, old, i, 0)
                    \/ MergeInto(i, old, 0, 0)
  /\ UNCHANGED <<kv, redis, owner>>

PostIndexes(i) ==
  /\ posts[i].at = "uploaded"
  /\ posts' = [posts EXCEPT ![i].at = "indexed"]
  /\ \/ kv' = [kv EXCEPT ![posts[i].wallet] = IndexOf(i, posts[i])] /\ UNCHANGED faults
     \/ Fault /\ UNCHANGED kv
  /\ UNCHANGED <<redis, owner>>

\* Redis is the last: when it throws, so does the request.
PostAnswers(i) ==
  /\ posts[i].at = "indexed"
  /\ \/ /\ redis' = [redis EXCEPT ![posts[i].wallet] = IndexOf(i, posts[i])]
        /\ posts' = [posts EXCEPT ![i].at = "answered"]
        /\ UNCHANGED faults
     \/ Fault /\ posts' = [posts EXCEPT ![i].at = "failed"] /\ UNCHANGED redis
  /\ UNCHANGED <<kv, owner>>

PostStep(i) == PostMerges(i) \/ PostIndexes(i) \/ PostAnswers(i)

----------------------------------------------------------------------------
(* POST /api/ens/register: the owner is read, then the registration sent. *)

\* What the request that is at stage `at' comes to; `named' is an answer with a name.
Lookup(w, label) ==
  IF label = EmptyLabel THEN "refused"
  ELSE CASE owner[label] = w -> "named"
         [] owner[label] = Nobody -> "free"
         [] OTHER -> "refused"

\* Somebody else may be faster: an error that holds `already' is taken for a success.
Registered(w, label, at) ==
  \/ owner[label] = Nobody /\ at = "named" /\ owner' = [owner EXCEPT ![label] = w]
  \/ /\ at \in {"named", "refused"}
     /\ owner' = [owner EXCEPT ![label] = IF @ = Nobody THEN Someone ELSE @]

----------------------------------------------------------------------------
\* A wallet's profile after each of a sequence of requests, when its patches are applied one
\* after the other.
ProfileAfter(ps, w) ==
  LET after[k \in 0 .. Len(ps)] ==
        IF k = 0 THEN EmptyBundle
        ELSE IF ps[k].wallet = w THEN Patched(ps[k].patch, after[k - 1]) ELSE after[k - 1]
  IN after

EarlierBundle(i) == ProfileAfter(Earlier, Earlier[i].wallet)[i]

\* What was stored before was stored by the same pages: nothing is complete without a name
\* that passed the check.
ASSUME EarlierAssumption ==
  \A i \in DOMAIN Earlier : EarlierBundle(i).done => EarlierBundle(i).user \in Valid

EarlierPost(i) ==
  [wallet |-> Earlier[i].wallet, patch |-> Earlier[i].patch, at |-> "over",
   bundle |-> EarlierBundle(i), root |-> i, seq |-> i, overlaps |-> FALSE]

EarlierIndex(w) ==
  LET own == {i \in DOMAIN Earlier : Earlier[i].wallet = w}
  IN IF own = {} THEN NoIndex
     ELSE LET last == CHOOSE i \in own : \A j \in own : j <= i
          IN IndexOf(last, EarlierPost(last))

ApiInit ==
  /\ posts = [i \in DOMAIN Earlier |-> EarlierPost(i)]
  /\ kv = [w \in Wallets |-> EarlierIndex(w)] /\ redis = kv
  /\ owner = [label \in Labels |-> Nobody] /\ faults = 0
=============================================================================
