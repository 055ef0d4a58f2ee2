-------------------------- MODULE GymBuilderProofs --------------------------
(***************************************************************************)
(* The gym editor is typed, no saved version is lost, a gym that the modal *)
(* calls listed is where it was put, each name's text record holds the     *)
(* history of a gym published as that name, and the conversation with the  *)
(* assistant alternates: for any graphs, stored bundles, saved gyms and    *)
(* labels, any bounds, and any overlap of saving, opening, rolling back,   *)
(* publishing, reloading and leaving the page.  At the end, what the       *)
(* generator's loop and recursion do with any graph of the canvas: a loop  *)
(* with a measure that falls computes something, and its invariants say    *)
(* what.                                                                   *)
(***************************************************************************)
EXTENDS GymBuilder, TLAPS, SequenceTheorems, FiniteSetTheorems

Statuses == {"synced", "pending", "parsing", "manual"}

EditorType ==
  [graph : Graphs, code : Code, buffer : Code \cup {NoCode}, monaco : BOOLEAN,
   generating : BOOLEAN, parsing : Code \cup {NoCode}, fromGraph : BOOLEAN, locks : Nat,
   status : Statuses, edits : Nat]

\* While the code editor is shown it has a buffer.
EditorTyped == editor \in EditorType /\ (editor.monaco => editor.buffer \in Code)

Roles == {"user", "assistant", "call", "tool"}

\* A conversation that begins with a question, each question but the first after an answer.
Asked(h) ==
  /\ h \in Seq(Roles) /\ Len(h) > 0 /\ h[1] = "user"
  /\ \A i \in 2 .. Len(h) : h[i] = "user" => h[i - 1] = "assistant"

Answered(h) == h = << >> \/ (Asked(h) /\ h[Len(h)] = "assistant")

CallRec == [id : Nat, history : Seq(Roles), stage : {"asked", "built"}, live : BOOLEAN]

(* The conversation ends with an answer; what a request under way makes of *)
(* it begins with a question, and keeps them apart.                        *)
ChatInv ==
  /\ chat \in [history : Seq(Roles), loading : BOOLEAN] /\ Answered(chat.history)
  /\ \A c \in calls : c \in CallRec /\ Asked(c.history)

SaveRec ==
  [by : {"button", "publish"}, label : Labels \cup {NoLabel}, id : Nat,
   stage : {"prompt", "sent"}, live : BOOLEAN, bundle : Bundle, prev : Nat \cup {NoRoot},
   versions : Seq(Nat), ensLabel : Labels \cup {NoLabel}]

ListingRec ==
  [root : Nat, label : Labels, stage : {"store", "prompt", "contract", "name"}, live : BOOLEAN]

MarketTyped(m) ==
  /\ DOMAIN m = {"listed", "unkept", "onChain", "named", "refused", "record"}
  /\ m.named \in [Labels -> SUBSET Nat] /\ m.refused \in [Labels -> SUBSET Nat]
  /\ m.record \in [Labels -> Seq(Nat)]

\* What the stage of a listing says of the market.
Reached(h, m) ==
  /\ h.stage # "store" => h.root \in m.listed \cup m.unkept
  /\ h.stage = "name" => h.root \in m.onChain

ListingOK(h, roots, m) == h \in ListingRec /\ h.root \in roots /\ Reached(h, m)

(* A listing that has come to its later stages is where the stages before  *)
(* put it.                                                                 *)
ListingsInv == MarketTyped(market) /\ \A h \in listings : ListingOK(h, Roots, market)

\* A save that the handler of the page's modal waits for.
Publishes(s) == s.live /\ s.by = "publish"

(* The page's modal has one handler under way at most, before or after the *)
(* upload, and its flags and its root are that handler's.  One that ended  *)
(* without an error leaves a gym that has come all the way.                *)
ModalInv ==
  /\ DOMAIN publish = DOMAIN NewPublish
  /\ \A s \in saves : Publishes(s) => publish.publishing /\ ~publish.listing
  /\ \A s, r \in saves : Publishes(s) /\ Publishes(r) => s = r
  /\ \A h \in listings : h.live => publish.listing /\ publish.root = h.root
  /\ \A h, g \in listings : h.live /\ g.live => h = g
  /\ ~publish.listing /\ publish.done /\ ~publish.listError
       => publish.root \in market.onChain \cap (market.listed \cup market.unkept)

\* No two saved gyms have the same root.
DistinctRoots(saved) ==
  \A i, j \in DOMAIN saved : saved[i].root = saved[j].root => i = j

\* The storage, the list of saved gyms and the versions to be kept.
EntriesInv ==
  /\ bundles \in Seq(Bundle) /\ kept \subseteq Roots
  /\ DOMAIN gyms = {"saved", "current"} /\ gyms.current \in Roots \cup {NoRoot}
  /\ gyms.saved \in Seq(Entry) /\ Len(gyms.saved) <= MaxSaved /\ DistinctRoots(gyms.saved)
  /\ \A i \in DOMAIN gyms.saved : /\ gyms.saved[i].root \in Roots
                                  /\ gyms.saved[i].versions \in Seq(Roots)

(* What a save holds is what was known when it began.  The entry it will   *)
(* replace still has these versions if it is there at all: an entry never  *)
(* changes its root, and a new one has a new root.                         *)
SaveOK(s) ==
  /\ s \in SaveRec /\ (s.by = "publish" => s.label \in Labels)
  /\ s.versions \in Seq(Roots) /\ s.prev \in Roots \cup {NoRoot}
  /\ \A i \in DOMAIN gyms.saved : gyms.saved[i].root = s.prev
                                   => gyms.saved[i].versions = s.versions

\* The entry that a save adds, and the list it leaves.
SavedEntry(s) == [root |-> Len(bundles) + 1, versions |-> Append(s.versions, Len(bundles) + 1),
                  ensLabel |-> s.ensLabel]
SavedList(s) ==
  LET added == AddSavedGym(gyms.saved, SavedEntry(s))
  IN IF s.prev = NoRoot THEN added ELSE Without(added, s.prev)

SavesInv == \A s \in saves : SaveOK(s)

OpenRec == [id : Nat, root : Nat, rollback : BOOLEAN, live : BOOLEAN]

WaitingInv ==
  /\ \A o \in opens : o \in OpenRec /\ o.root \in Roots
  /\ DOMAIN page = DOMAIN NewPage /\ page.history \in Seq(Roots)

\* A history that holds a gym published as a label, registered or refused.
Holds(versions, label, m) == Range(versions) \cap (m.named[label] \cup m.refused[label]) # {}

Labelled(r, m) == r.ensLabel # NoLabel => Holds(r.versions, r.ensLabel, m)

ManifestOK(w, m) == w.label \in Labels /\ w.versions \in Seq(Nat) /\ Holds(w.versions, w.label, m)

RecordOK(l, m) == m.record[l] # << >> => m.named[l] # {} /\ Holds(m.record[l], l, m)

\* The gym that is being published has itself in its history, while it is in the list.
SelfHeld(h, saved) ==
  \A i \in DOMAIN saved : saved[i].root = h.root => h.root \in Range(saved[i].versions)

(* A label, wherever it has been carried to, goes with a history that      *)
(* holds a gym published as it; the gym that is being named is in its own  *)
(* history.                                                                *)
NamesInv ==
  /\ \A i \in DOMAIN gyms.saved : Labelled(gyms.saved[i], market)
  /\ \A s \in saves : Labelled(s, market)
  /\ \A w \in manifests : ManifestOK(w, market)
  /\ \A l \in Labels : RecordOK(l, market)
  /\ \A h \in listings : SelfHeld(h, gyms.saved)

BuilderInv ==
  /\ inputs \in Nat /\ EditorTyped /\ ChatInv /\ ListingsInv /\ ModalInv
  /\ EntriesInv /\ SavesInv /\ WaitingInv /\ NoVersionLost /\ NamesInv

-----------------------------------------------------------------------------
(* What a step leaves alone.                                               *)

PagesLeft == Reload \/ Navigate
SaveFailing == SaveFailed \/ SaveRefused
ListingMoving == ListingStored \/ ListingIgnored \/ ListingSigned \/ ListedOnChain
ListingFailing == ListingFailed \/ ListingRefused
Naming == NameRegistered \/ NameRefused

LEMMA Frame ==
  ASSUME [Next]_vars
  PROVE  /\ bundles' = bundles \/ SaveDone
         /\ \/ editor' = editor \/ Timers \/ EditCanvas \/ ToggleEditor \/ TypeCode
            \/ ChatBuildsGraph \/ OpenByHash \/ OpenSaved \/ OpenFromHub \/ Rollback
            \/ OpenDone \/ Publish \/ PagesLeft
         /\ \/ (chat' = chat /\ calls' = calls) \/ ToggleEditor \/ ChatSend \/ ChatBuildsGraph
            \/ ChatAnswers \/ ChatFails \/ SwitchProvider \/ PagesLeft
         /\ \/ (gyms' = gyms /\ kept' = kept) \/ ForgetGym \/ SaveDone \/ OpenDone \/ Naming
         /\ saves' = saves \/ Save \/ Publish \/ SaveSigned \/ SaveDone \/ SaveFailing \/ PagesLeft
         /\ \/ opens' = opens \/ OpenByHash \/ OpenSaved \/ OpenFromHub \/ Rollback
            \/ OpenDone \/ OpenFailed \/ PagesLeft
         /\ manifests' = manifests \/ SaveDone \/ TextRecordSet \/ ManifestFailed \/ Reload
         /\ \/ page' = page \/ Save \/ SaveDone \/ SaveFailing \/ Rollback \/ OpenDone
            \/ OpenFailed \/ Publish \/ PagesLeft
         /\ \/ publish' = publish \/ OpenPublish \/ ClosePublish \/ Publish \/ SaveDone
            \/ SaveFailing \/ ListingFailing \/ Naming \/ NameFailed \/ PagesLeft
         /\ \/ listings' = listings \/ SaveDone \/ ListingMoving \/ ListingFailing \/ Naming
            \/ NameFailed \/ PagesLeft
         /\ \/ market' = market \/ ListingStored \/ ListingIgnored \/ ListedOnChain \/ Naming
            \/ TextRecordSet
         /\ inputs' = inputs \/ (inputs > 0 /\ inputs' = inputs - 1)
<1> USE DEF Next, User, Wallet, Timers, Uploads, Listings, Answers, EditCanvas, ToggleEditor,
            TypeCode, ChatSend, SwitchProvider, ForgetGym, Save, OpenByHash, OpenSaved,
            OpenFromHub, OpenedByUser, Rollback, BeginOpen, OpenPublish, ClosePublish, Publish,
            Reload, Navigate, GenerateFires, ParseFires, Unlock, SaveSigned, SaveDone,
            SaveFailed, SaveRefused, SaveFails, ListingStored, ListingIgnored, ListingSigned,
            ListedOnChain, ListingMoves, ListingFailed, ListingRefused, ListingFails,
            ListingEnds, NameRegistered, NameRefused, NameAnswered, NameFailed,
            ChatBuildsGraph, ChatAnswers, ChatFails, TextRecordSet, ManifestFailed, OpenDone,
            OpenFailed, vars, storage, Input, PagesLeft, SaveFailing, ListingMoving,
            ListingFailing, Naming
<1>1. bundles' = bundles \/ SaveDone
  OBVIOUS
<1>2. \/ editor' = editor \/ Timers \/ EditCanvas \/ ToggleEditor \/ TypeCode
      \/ ChatBuildsGraph \/ OpenByHash \/ OpenSaved \/ OpenFromHub \/ Rollback
      \/ OpenDone \/ Publish \/ PagesLeft
  OBVIOUS
<1>3. \/ (chat' = chat /\ calls' = calls) \/ ToggleEditor \/ ChatSend \/ ChatBuildsGraph
      \/ ChatAnswers \/ ChatFails \/ SwitchProvider \/ PagesLeft
  OBVIOUS
<1>4. \/ (gyms' = gyms /\ kept' = kept) \/ ForgetGym \/ SaveDone \/ OpenDone \/ Naming
  OBVIOUS
<1>5. saves' = saves \/ Save \/ Publish \/ SaveSigned \/ SaveDone \/ SaveFailing \/ PagesLeft
  OBVIOUS
<1>6. \/ opens' = opens \/ OpenByHash \/ OpenSaved \/ OpenFromHub \/ Rollback
      \/ OpenDone \/ OpenFailed \/ PagesLeft
  OBVIOUS
<1>7. manifests' = manifests \/ SaveDone \/ TextRecordSet \/ ManifestFailed \/ Reload
  OBVIOUS
<1>8. \/ page' = page \/ Save \/ SaveDone \/ SaveFailing \/ Rollback \/ OpenDone
      \/ OpenFailed \/ Publish \/ PagesLeft
  OBVIOUS
<1>9. \/ publish' = publish \/ OpenPublish \/ ClosePublish \/ Publish \/ SaveDone
      \/ SaveFailing \/ ListingFailing \/ Naming \/ NameFailed \/ PagesLeft
  OBVIOUS
<1>10. \/ listings' = listings \/ SaveDone \/ ListingMoving \/ ListingFailing \/ Naming
       \/ NameFailed \/ PagesLeft
  OBVIOUS
<1>11. \/ market' = market \/ ListingStored \/ ListingIgnored \/ ListedOnChain \/ Naming
       \/ TextRecordSet
  OBVIOUS
<1>12. inputs' = inputs \/ (inputs > 0 /\ inputs' = inputs - 1)
  OBVIOUS
<1>13. QED
  BY <1>1, <1>2, <1>3, <1>4, <1>5, <1>6, <1>7, <1>8, <1>9, <1>10, <1>11, <1>12

-----------------------------------------------------------------------------
(* What filter leaves of the list of saved gyms.                           *)

(* A non-empty set of numbers has a least one.                             *)
LEMMA LeastNumber ==
  ASSUME NEW S \in SUBSET Nat, S # {}
  PROVE  \E m \in S : \A k \in S : m <= k
<1>1. PICK m \in S : \A k \in S : ~(<<k, m>> \in OpToRel(<, Nat))
  BY NatLessThanWellFounded, WFMin, Zenon
<1>2. \A k \in S : ~(k < m)
  BY <1>1 DEF OpToRel
<1>3. QED
  BY <1>2

\* f is the filter's work on the first m entries.
IsLeft(f, saved, root, m) ==
  f = [n \in 0 .. m |->
         IF n = 0 THEN << >>
         ELSE IF saved[n].root = root THEN f[n - 1] ELSE Append(f[n - 1], saved[n])]

(* The recursive definition of LeftOf defines a function: otherwise there  *)
(* were a least number of entries on which it does not.                    *)
LEMMA LeftExists ==
  ASSUME NEW saved, NEW root, NEW m \in Nat
  PROVE  \E f : IsLeft(f, saved, root, m)
<1> DEFINE Fails(k) == ~(\E f : IsLeft(f, saved, root, k))
           Bad == {k \in Nat : Fails(k)}
<1> SUFFICES ASSUME Bad # {}
             PROVE  FALSE
  OBVIOUS
<1>1. PICK k \in Bad : \A j \in Bad : k <= j
  BY LeastNumber
<1>2. k # 0
  <2>1. IsLeft([n \in 0 .. 0 |-> << >>], saved, root, 0)
    BY DEF IsLeft
  <2>2. QED
    BY <2>1
<1>3. k - 1 \in Nat /\ k - 1 \notin Bad
  BY <1>1, <1>2
<1>4. PICK f : IsLeft(f, saved, root, k - 1)
  BY <1>3
<1> DEFINE last == IF saved[k].root = root THEN f[k - 1] ELSE Append(f[k - 1], saved[k])
           g == [n \in 0 .. k |-> IF n = k THEN last ELSE f[n]]
<1>5. ASSUME NEW n \in 0 .. k
      PROVE  g[n] = IF n = 0 THEN << >>
                    ELSE IF saved[n].root = root THEN g[n - 1] ELSE Append(g[n - 1], saved[n])
  <2>1. CASE n = k
    <3>1. g[n] = last /\ n - 1 \in 0 .. k /\ n - 1 # k /\ g[n - 1] = f[k - 1]
      BY <1>2, <2>1
    <3>2. QED
      BY <1>2, <2>1, <3>1
  <2>2. CASE n # k
    <3>1. n \in 0 .. (k - 1) /\ g[n] = f[n]
      BY <2>2
    <3>2. f[n] = IF n = 0 THEN << >>
                 ELSE IF saved[n].root = root THEN f[n - 1] ELSE Append(f[n - 1], saved[n])
      BY <1>4, <3>1 DEF IsLeft
    <3>3. n # 0 => n - 1 \in 0 .. k /\ n - 1 # k
      BY <3>1
    <3>4. n # 0 => g[n - 1] = f[n - 1]
      BY <3>3
    <3> HIDE DEF g
    <3>5. QED
      BY <3>1, <3>2, <3>4
  <2>3. QED
    BY <2>1, <2>2
<1>6. DOMAIN g = 0 .. k /\ g = [n \in 0 .. k |-> g[n]]
  OBVIOUS
<1>7. IsLeft(g, saved, root, k)
  <2> HIDE DEF g
  <2>1. QED
    BY <1>5, <1>6 DEF IsLeft
<1>8. QED
  BY <1>7

(* So the filter is what its definition says.                              *)
LEMMA LeftStep ==
  ASSUME NEW saved, NEW root, Len(saved) \in Nat
  PROVE  /\ LeftOf(saved, root)[0] = << >>
         /\ \A n \in 1 .. Len(saved) :
              LeftOf(saved, root)[n] = IF saved[n].root = root THEN LeftOf(saved, root)[n - 1]
                                       ELSE Append(LeftOf(saved, root)[n - 1], saved[n])
<1> DEFINE left == LeftOf(saved, root)
<1>1. \E f : IsLeft(f, saved, root, Len(saved))
  BY LeftExists
<1>2. left = CHOOSE f : IsLeft(f, saved, root, Len(saved))
  BY Zenon DEF LeftOf, IsLeft
<1>3. IsLeft(left, saved, root, Len(saved))
  <2> HIDE DEF left
  <2>1. QED
    BY <1>1, <1>2, Zenon
<1> HIDE DEF left
<1>4. left = [n \in 0 .. Len(saved) |->
                IF n = 0 THEN << >>
                ELSE IF saved[n].root = root THEN left[n - 1] ELSE Append(left[n - 1], saved[n])]
  BY <1>3, Zenon DEF IsLeft
<1>5. \A n \in 0 .. Len(saved) :
        left[n] = IF n = 0 THEN << >>
                  ELSE IF saved[n].root = root THEN left[n - 1] ELSE Append(left[n - 1], saved[n])
  BY <1>4
<1>6. left[0] = << >> /\ \A n \in 1 .. Len(saved) :
        left[n] = IF saved[n].root = root THEN left[n - 1] ELSE Append(left[n - 1], saved[n])
  BY <1>5
<1>7. QED
  BY <1>6 DEF left
\* s holds, in the order of saved, the first n entries without those of root.
Filtered(s, saved, root, n) ==
  /\ s \in Seq(Entry) /\ Len(s) <= n
  /\ \A k \in 1 .. Len(s) : \E i \in 1 .. n : saved[i] = s[k] /\ saved[i].root # root
  /\ \A i \in 1 .. n : saved[i].root # root => \E k \in 1 .. Len(s) : s[k] = saved[i]
  /\ DistinctRoots(s)
  /\ (\A i \in 1 .. n : saved[i].root # root)
       => Len(s) = n /\ \A i \in 1 .. n : s[i] = saved[i]

(* One more entry is kept or left out.                                     *)
LEMMA FilterKeeps ==
  ASSUME NEW saved \in Seq(Entry), NEW root, NEW n \in 1 .. Len(saved), NEW s,
         DistinctRoots(saved), Filtered(s, saved, root, n - 1), saved[n].root # root
  PROVE  Filtered(Append(s, saved[n]), saved, root, n)
<1> DEFINE t == Append(s, saved[n])
<1>1. saved[n] \in Entry /\ s \in Seq(Entry) /\ Len(s) <= n - 1 /\ Len(s) \in Nat
  BY DEF Filtered
<1>2. /\ t \in Seq(Entry) /\ Len(t) = Len(s) + 1
      /\ \A k \in 1 .. Len(s) : t[k] = s[k]
      /\ t[Len(s) + 1] = saved[n]
      /\ DOMAIN t = 1 .. Len(t)
  BY <1>1
<1> HIDE DEF t
<1>3. ASSUME NEW k \in 1 .. Len(t)
      PROVE  \E i \in 1 .. n : saved[i] = t[k] /\ saved[i].root # root
  <2>1. CASE k = Len(s) + 1
    BY <1>2, <2>1
  <2>2. CASE k # Len(s) + 1
    <3>1. k \in 1 .. Len(s) /\ t[k] = s[k]
      BY <1>1, <1>2, <2>2
    <3>2. PICK i \in 1 .. (n - 1) : saved[i] = s[k] /\ saved[i].root # root
      BY <3>1 DEF Filtered
    <3>3. QED
      BY <3>1, <3>2
  <2>3. QED
    BY <2>1, <2>2
<1>4. ASSUME NEW i \in 1 .. n, saved[i].root # root
      PROVE  \E k \in 1 .. Len(t) : t[k] = saved[i]
  <2>1. CASE i = n
    BY <1>1, <1>2, <2>1
  <2>2. CASE i # n
    <3>1. PICK k \in 1 .. Len(s) : s[k] = saved[i]
      BY <1>4, <2>2 DEF Filtered
    <3>2. k \in 1 .. Len(t) /\ t[k] = saved[i]
      BY <1>1, <1>2, <3>1
    <3>3. QED
      BY <3>2
  <2>3. QED
    BY <2>1, <2>2
<1>5. ASSUME NEW k \in 1 .. Len(s)
      PROVE  t[k].root # t[Len(s) + 1].root
  <2>1. PICK i \in 1 .. (n - 1) : saved[i] = s[k]
    BY DEF Filtered
  <2>2. i \in DOMAIN saved /\ n \in DOMAIN saved /\ i # n
    OBVIOUS
  <2>3. QED
    BY <1>2, <2>1, <2>2 DEF DistinctRoots
<1>6. ASSUME NEW k \in DOMAIN t, NEW l \in DOMAIN t, t[k].root = t[l].root
      PROVE  k = l
  <2>1. DOMAIN s = 1 .. Len(s) /\ DistinctRoots(s)
    BY <1>1 DEF Filtered
  <2>2. /\ k \in 1 .. Len(s) \/ k = Len(s) + 1
        /\ l \in 1 .. Len(s) \/ l = Len(s) + 1
    BY <1>1, <1>2
  <2>3. CASE k \in 1 .. Len(s) /\ l \in 1 .. Len(s)
    BY <1>2, <1>6, <2>1, <2>3 DEF DistinctRoots
  <2>4. QED
    BY <1>5, <1>6, <2>2, <2>3
<1>7. ASSUME \A i \in 1 .. n : saved[i].root # root
      PROVE  Len(t) = n /\ \A i \in 1 .. n : t[i] = saved[i]
  <2>1. Len(s) = n - 1 /\ \A i \in 1 .. (n - 1) : s[i] = saved[i]
    BY <1>7 DEF Filtered
  <2>2. QED
    BY <1>2, <2>1
<1>8. DistinctRoots(t)
  BY <1>6 DEF DistinctRoots
<1>9. Filtered(t, saved, root, n)
  BY <1>1, <1>2, <1>3, <1>4, <1>7, <1>8 DEF Filtered
<1>10. QED
  BY <1>9 DEF t

LEMMA FilterDrops ==
  ASSUME NEW saved \in Seq(Entry), NEW root, NEW n \in 1 .. Len(saved), NEW s,
         Filtered(s, saved, root, n - 1), saved[n].root = root
  PROVE  Filtered(s, saved, root, n)
<1>1. s \in Seq(Entry) /\ Len(s) <= n /\ DistinctRoots(s)
  BY DEF Filtered
<1>2. ASSUME NEW k \in 1 .. Len(s)
      PROVE  \E i \in 1 .. n : saved[i] = s[k] /\ saved[i].root # root
  <2>1. PICK i \in 1 .. (n - 1) : saved[i] = s[k] /\ saved[i].root # root
    BY DEF Filtered
  <2>2. QED
    BY <2>1
<1>3. ASSUME NEW i \in 1 .. n, saved[i].root # root
      PROVE  \E k \in 1 .. Len(s) : s[k] = saved[i]
  <2>1. i \in 1 .. (n - 1)
    BY <1>3
  <2>2. QED
    BY <1>3, <2>1 DEF Filtered
<1>4. ~(\A i \in 1 .. n : saved[i].root # root)
  OBVIOUS
<1>5. QED
  BY <1>1, <1>2, <1>3, <1>4 DEF Filtered

(* Without is a filter: by the least number of entries for which the work  *)
(* on them were none.                                                      *)
LEMMA WithoutFilters ==
  ASSUME NEW saved \in Seq(Entry), NEW root, DistinctRoots(saved)
  PROVE  Filtered(Without(saved, root), saved, root, Len(saved))
<1> DEFINE left == LeftOf(saved, root)
           Bad == {n \in 0 .. Len(saved) : ~Filtered(left[n], saved, root, n)}
<1>1. Len(saved) \in Nat
  OBVIOUS
<1>2. /\ left[0] = << >>
      /\ \A n \in 1 .. Len(saved) :
           left[n] = IF saved[n].root = root THEN left[n - 1] ELSE Append(left[n - 1], saved[n])
  BY <1>1, LeftStep
<1> HIDE DEF left
<1>3. Bad = {}
  <2> SUFFICES ASSUME Bad # {}
               PROVE  FALSE
    OBVIOUS
  <2>1. PICK n \in Bad : \A k \in Bad : n <= k
    <3>1. Bad \subseteq Nat
      OBVIOUS
    <3>2. QED
      BY <3>1, LeastNumber
  <2>2. n # 0
    <3>1. << >> \in Seq(Entry) /\ Len(<< >>) = 0 /\ DOMAIN << >> = {}
      OBVIOUS
    <3>2. Filtered(<< >>, saved, root, 0)
      BY <3>1 DEF Filtered, DistinctRoots
    <3>3. QED
      BY <1>2, <2>1, <3>2
  <2>3. n \in 1 .. Len(saved) /\ n - 1 \in 0 .. Len(saved) /\ n - 1 \notin Bad
    BY <1>1, <2>1, <2>2
  <2>4. Filtered(left[n - 1], saved, root, n - 1)
    BY <2>3
  <2>5. CASE saved[n].root = root
    <3>1. left[n] = left[n - 1]
      BY <1>2, <2>3, <2>5
    <3>2. Filtered(left[n], saved, root, n)
      BY <2>3, <2>4, <2>5, <3>1, FilterDrops
    <3>3. QED
      BY <2>1, <3>2
  <2>6. CASE saved[n].root # root
    <3>1. left[n] = Append(left[n - 1], saved[n])
      BY <1>2, <2>3, <2>6
    <3>2. Filtered(Append(left[n - 1], saved[n]), saved, root, n)
      BY <2>3, <2>4, <2>6, FilterKeeps
    <3>3. QED
      BY <2>1, <3>1, <3>2
  <2>7. QED
    BY <2>5, <2>6
<1>4. Filtered(left[Len(saved)], saved, root, Len(saved))
  BY <1>1, <1>3
<1>5. QED
  BY <1>4 DEF Without, left

(* The list without a root: the other entries, all of them.                *)
LEMMA WithoutEntries ==
  ASSUME NEW saved \in Seq(Entry), NEW root, DistinctRoots(saved)
  PROVE  \E t \in Seq(Entry) :
           /\ t = Without(saved, root) /\ Len(t) <= Len(saved) /\ DistinctRoots(t)
           /\ \A k \in DOMAIN t : \E i \in DOMAIN saved : saved[i] = t[k] /\ saved[i].root # root
           /\ \A i \in DOMAIN saved : saved[i].root # root => \E k \in DOMAIN t : t[k] = saved[i]
<1>1. PICK t : t = Without(saved, root)
  OBVIOUS
<1>2. Filtered(t, saved, root, Len(saved))
  BY <1>1, WithoutFilters
<1>3. t \in Seq(Entry) /\ Len(t) <= Len(saved) /\ DistinctRoots(t)
  BY <1>2 DEF Filtered
<1>4. DOMAIN t = 1 .. Len(t) /\ DOMAIN saved = 1 .. Len(saved)
  BY <1>3
<1>5. \A k \in DOMAIN t : \E i \in DOMAIN saved : saved[i] = t[k] /\ saved[i].root # root
  BY <1>2, <1>4 DEF Filtered
<1>6. \A i \in DOMAIN saved : saved[i].root # root => \E k \in DOMAIN t : t[k] = saved[i]
  BY <1>2, <1>4 DEF Filtered
<1>7. QED
  BY <1>1, <1>3, <1>5, <1>6

(* Adding a gym with a new root: it comes first, and at most the last      *)
(* entry is pushed off the end.                                            *)
LEMMA AddedEntries ==
  ASSUME NEW saved \in Seq(Entry), DistinctRoots(saved), Len(saved) <= MaxSaved,
         NEW e \in Entry, \A i \in DOMAIN saved : saved[i].root # e.root
  PROVE  \E t \in Seq(Entry) :
           /\ t = AddSavedGym(saved, e) /\ Len(t) <= MaxSaved /\ DistinctRoots(t)
           /\ \A k \in DOMAIN t : t[k] = e \/ \E i \in DOMAIN saved : saved[i] = t[k]
           /\ \E k \in DOMAIN t : t[k] = e
           /\ \A i \in DOMAIN saved : \/ \E k \in DOMAIN t : t[k] = saved[i]
                                      \/ Len(saved) = MaxSaved /\ i = Len(saved)
<1> DEFINE rest == Without(saved, e.root)
<1>1. Len(saved) \in Nat /\ DOMAIN saved = 1 .. Len(saved) /\ MaxSaved \in Nat /\ MaxSaved >= 1
  BY BuilderAssumption
<1>2. rest = saved
  <2>1. Filtered(rest, saved, e.root, Len(saved))
    BY WithoutFilters
  <2> HIDE DEF rest
  <2>2. /\ rest \in Seq(Entry) /\ Len(rest) = Len(saved)
        /\ \A i \in 1 .. Len(saved) : rest[i] = saved[i]
    BY <1>1, <2>1 DEF Filtered
  <2>3. QED
    BY <2>2, SeqEqual
<1> DEFINE all == <<e>> \o saved
<1>3. /\ all \in Seq(Entry) /\ Len(all) = Len(saved) + 1 /\ all[1] = e
      /\ \A i \in 1 .. Len(saved) : all[i + 1] = saved[i]
  OBVIOUS
<1>4. AddSavedGym(saved, e) = IF Len(all) > MaxSaved THEN Front(all) ELSE all
  BY <1>2, Zenon DEF AddSavedGym
<1> HIDE DEF all
<1>5. PICK t : t = AddSavedGym(saved, e)
  OBVIOUS
<1>6. PICK n \in Nat :
        /\ n >= 1 /\ n <= MaxSaved /\ n <= Len(saved) + 1
        /\ Len(all) > MaxSaved => n = Len(saved) /\ Len(saved) = MaxSaved
        /\ ~(Len(all) > MaxSaved) => n = Len(saved) + 1
  <2>1. PICK l \in Nat : l = Len(saved)
    BY <1>1
  <2>2. Len(all) = l + 1 /\ l <= MaxSaved
    BY <1>3, <2>1
  <2>3. CASE Len(all) > MaxSaved
    <3>1. l = MaxSaved
      BY <1>1, <2>2, <2>3
    <3>2. QED
      BY <1>1, <2>1, <2>2, <2>3, <3>1
  <2>4. CASE ~(Len(all) > MaxSaved)
    <3>1. l + 1 <= MaxSaved /\ l + 1 \in Nat /\ l + 1 >= 1
      BY <1>1, <2>2, <2>4
    <3>2. QED
      BY <2>1, <2>4, <3>1
  <2>5. QED
    BY <2>3, <2>4
<1>7. t \in Seq(Entry) /\ Len(t) = n /\ \A k \in 1 .. n : t[k] = all[k]
  <2>1. CASE Len(all) > MaxSaved
    <3>1. t = SubSeq(all, 1, Len(all) - 1)
      BY <1>4, <1>5, <2>1 DEF Front
    <3>2. PICK l \in Nat : l = Len(saved) /\ Len(all) = l + 1 /\ n = l
      BY <1>1, <1>3, <1>6, <2>1
    <3>3. Len(t) = l /\ t \in Seq(Entry) /\ \A k \in 1 .. l : t[k] = all[k]
      BY <1>3, <3>1, <3>2, SubSeqProperties
    <3>4. QED
      BY <3>2, <3>3
  <2>2. CASE ~(Len(all) > MaxSaved)
    BY <1>3, <1>4, <1>5, <1>6, <2>2
  <2>3. QED
    BY <2>1, <2>2
<1>8. DOMAIN t = 1 .. n
  BY <1>7
<1>9. t[1] = e /\ 1 \in DOMAIN t
  BY <1>3, <1>6, <1>7, <1>8
<1>10. ASSUME NEW k \in DOMAIN t, k # 1
       PROVE  k - 1 \in DOMAIN saved /\ t[k] = saved[k - 1]
  <2>1. k \in 1 .. n /\ k - 1 \in 1 .. Len(saved)
    <3>1. k \in 1 .. n /\ k # 1
      BY <1>8, <1>10
    <3>2. PICK l \in Nat : l = Len(saved) /\ n <= l + 1
      BY <1>1, <1>6
    <3>3. k - 1 \in 1 .. l
      BY <3>1, <3>2
    <3>4. QED
      BY <3>1, <3>2, <3>3
  <2>2. all[(k - 1) + 1] = saved[k - 1]
    BY <1>3, <2>1
  <2>3. QED
    BY <1>1, <1>7, <2>1, <2>2
<1>11. DistinctRoots(t)
  <2> SUFFICES ASSUME NEW k \in DOMAIN t, NEW l \in DOMAIN t, t[k].root = t[l].root
               PROVE  k = l
    BY DEF DistinctRoots
  <2>1. CASE k = 1 \/ l = 1
    BY <1>9, <1>10, <2>1
  <2>2. CASE k # 1 /\ l # 1
    <3>1. k - 1 = l - 1
      BY <1>10, <2>2 DEF DistinctRoots
    <3>2. QED
      BY <1>8, <3>1
  <2>3. QED
    BY <2>1, <2>2
<1>12. \A k \in DOMAIN t : t[k] = e \/ \E i \in DOMAIN saved : saved[i] = t[k]
  BY <1>9, <1>10
<1>13. ASSUME NEW i \in DOMAIN saved, ~(Len(saved) = MaxSaved /\ i = Len(saved))
       PROVE  \E k \in DOMAIN t : t[k] = saved[i]
  <2>1. i + 1 \in 1 .. n
    <3>1. i \in 1 .. Len(saved)
      BY <1>1
    <3>2. n = Len(saved) + 1 \/ i # Len(saved)
      BY <1>6, <1>13
    <3>3. PICK l \in Nat : l = Len(saved) /\ (n = l + 1 \/ (n = l /\ i # l))
      BY <1>1, <1>6, <3>2
    <3>4. QED
      BY <3>1, <3>3
  <2>2. t[i + 1] = saved[i]
    BY <1>1, <1>3, <1>7, <2>1
  <2>3. QED
    BY <1>8, <2>1, <2>2
<1>14. QED
  BY <1>5, <1>6, <1>7, <1>9, <1>11, <1>12, <1>13

(* A label changes neither roots nor versions.                             *)
LEMMA LabelledEntries ==
  ASSUME NEW saved \in Seq(Entry), NEW root, NEW label \in Labels
  PROVE  \E t \in Seq(Entry) :
           /\ t = UpdateGymEntry(saved, root, label) /\ Len(t) = Len(saved)
           /\ \A i \in DOMAIN saved :
                /\ t[i].root = saved[i].root /\ t[i].versions = saved[i].versions
                /\ t[i].ensLabel = IF saved[i].root = root THEN label ELSE saved[i].ensLabel
<1>1. PICK t : t = UpdateGymEntry(saved, root, label)
  OBVIOUS
<1>2. t = [i \in 1 .. Len(saved) |-> IF saved[i].root = root
                                     THEN [saved[i] EXCEPT !.ensLabel = label] ELSE saved[i]]
  BY <1>1 DEF UpdateGymEntry
<1>3. ASSUME NEW i \in 1 .. Len(saved)
      PROVE  /\ t[i] \in Entry
             /\ t[i].root = saved[i].root /\ t[i].versions = saved[i].versions
             /\ t[i].ensLabel = IF saved[i].root = root THEN label ELSE saved[i].ensLabel
  <2>1. PICK e \in Entry : e = saved[i]
    OBVIOUS
  <2>2. t[i] = IF e.root = root THEN [e EXCEPT !.ensLabel = label] ELSE e
    BY <1>2, <2>1
  <2>3. /\ [e EXCEPT !.ensLabel = label] \in Entry
        /\ [e EXCEPT !.ensLabel = label].root = e.root
        /\ [e EXCEPT !.ensLabel = label].versions = e.versions
        /\ [e EXCEPT !.ensLabel = label].ensLabel = label
    BY DEF Entry
  <2>4. CASE e.root = root
    BY <2>1, <2>2, <2>3, <2>4
  <2>5. CASE e.root # root
    BY <2>1, <2>2, <2>5
  <2>6. QED
    BY <2>4, <2>5
<1>4. Len(saved) \in Nat
  OBVIOUS
<1>5. t \in Seq(Entry) /\ Len(t) = Len(saved)
  <2>1. t \in [1 .. Len(saved) -> Entry]
    BY <1>2, <1>3
  <2>2. QED
    BY <1>4, <2>1
<1>6. QED
  BY <1>1, <1>3, <1>5

-----------------------------------------------------------------------------
(* The canvas and the code editor.                                         *)

(* Every edit of the canvas gives a graph.                                 *)
LEMMA EditsGiveGraphs ==
  ASSUME NEW g \in Graphs
  PROVE  CanvasEdits(g) \subseteq Graphs
<1>1. ASSUME NEW n \in NodeIds
      PROVE  AddNode(g, n) \in Graphs
  <2> DEFINE h == [g EXCEPT !.nodes = @ \cup {n}]
  <2>1. h \in Graphs
    BY DEF Graphs
  <2>2. AddNode(g, n) = [h EXCEPT !.conditions[n] = {}]
    BY DEF AddNode, Graphs
  <2> HIDE DEF h
  <2>3. h.conditions \in [NodeIds -> SUBSET Conditions]
    BY <2>1 DEF Graphs
  <2>4. [h.conditions EXCEPT ![n] = {}] \in [NodeIds -> SUBSET Conditions]
    BY <2>3
  <2>5. [h EXCEPT !.conditions = [h.conditions EXCEPT ![n] = {}]] \in Graphs
    BY <2>1, <2>4 DEF Graphs
  <2>6. QED
    BY <2>2, <2>5
<1>2. ASSUME NEW n \in NodeIds
      PROVE  RemoveNode(g, n) \in Graphs
  <2> DEFINE h == [g EXCEPT !.nodes = @ \ {n}]
             es == {e \in g.edges : e.source # n /\ e.target # n}
  <2>1. h \in Graphs /\ h.edges = g.edges
    BY DEF Graphs
  <2>2. es \in SUBSET Edges
    BY DEF Graphs
  <2>3. RemoveNode(g, n) = [h EXCEPT !.edges = es]
    BY DEF RemoveNode, Graphs
  <2> HIDE DEF h, es
  <2>4. QED
    BY <2>1, <2>2, <2>3 DEF Graphs
<1>3. ASSUME NEW e \in Edges
      PROVE  Connect(g, e) \in Graphs
  BY DEF Connect, Graphs
<1>4. ASSUME NEW n \in NodeIds, NEW cs \in SUBSET Conditions
      PROVE  [g EXCEPT !.conditions[n] = cs] \in Graphs
  <2>1. g.conditions \in [NodeIds -> SUBSET Conditions]
    BY DEF Graphs
  <2>2. [g.conditions EXCEPT ![n] = cs] \in [NodeIds -> SUBSET Conditions]
    BY <2>1
  <2>3. [g EXCEPT !.conditions = [g.conditions EXCEPT ![n] = cs]] \in Graphs
    BY <2>2 DEF Graphs
  <2>4. QED
    BY <2>3
<1>5. ASSUME NEW n \in NodeIds, NEW c \in Conditions
      PROVE  AddRouterCondition(g, n, c) \in Graphs
  <2>1. g.conditions[n] \cup {c} \in SUBSET Conditions
    BY DEF Graphs
  <2>2. QED
    BY <1>4, <2>1 DEF AddRouterCondition
<1>6. ASSUME NEW n \in NodeIds, NEW c \in Conditions
      PROVE  RemoveRouterCondition(g, n, c) \in Graphs
  <2>1. g.conditions[n] \ {c} \in SUBSET Conditions
    BY DEF Graphs
  <2>2. QED
    BY <1>4, <2>1 DEF RemoveRouterCondition
<1>7. g.nodes \subseteq NodeIds
  BY DEF Graphs
<1>8. QED
  BY <1>1, <1>2, <1>3, <1>5, <1>6, <1>7 DEF CanvasEdits

LEMMA EmptyIsGraph == EmptyGraph \in Graphs
BY DEF EmptyGraph, Graphs

(* What is generated, parsed and typed.                                    *)
LEMMA CodeTyped ==
  /\ DefaultCode \in Code
  /\ \A g \in Graphs : GeneratePython(g) \in Code
  /\ \A c \in Code : ParsePython(c) \in Graphs \cup {NoGraph}
  /\ \A b \in Code : Typed(b) \subseteq Code
<1>1. ASSUME NEW c \in Code
      PROVE  ParsePython(c) \in Graphs \cup {NoGraph}
  BY BuilderAssumption DEF ParsePython, Code
<1>2. ASSUME NEW b \in Code
      PROVE  Typed(b) \subseteq Code
  <2>1. [b EXCEPT !.text = "edited"] \in Code
    BY DEF Code
  <2>2. \A t \in {"class", "unparsed"} : [meta |-> NoGraph, text |-> t] \in Code
    BY DEF Code
  <2>3. QED
    BY <2>1, <2>2 DEF Typed
<1>3. DefaultCode \in Code /\ \A g \in Graphs : GeneratePython(g) \in Code
  BY DEF DefaultCode, GeneratePython, Code
<1>4. QED
  BY <1>1, <1>2, <1>3

\* The fields that the two effects leave alone.
SameView(ed, old) == ed.monaco = old.monaco /\ ed.buffer = old.buffer

(* The two effects keep the editor typed, and its view.                    *)
LEMMA EffectsTyped ==
  ASSUME NEW ed \in EditorType
  PROVE  /\ GraphToPython(ed) \in EditorType /\ SameView(GraphToPython(ed), ed)
         /\ PythonToGraph(ed) \in EditorType /\ SameView(PythonToGraph(ed), ed)
<1>1. /\ [ed EXCEPT !.generating = FALSE] \in EditorType
      /\ [ed EXCEPT !.generating = TRUE] \in EditorType
      /\ [ed EXCEPT !.parsing = NoCode] \in EditorType
      /\ [ed EXCEPT !.parsing = ed.code] \in EditorType
  BY DEF EditorType
<1>2. [ed EXCEPT !.generating = TRUE, !.status = "pending"] \in EditorType
  <2> DEFINE e == [ed EXCEPT !.generating = TRUE]
  <2>1. [e EXCEPT !.status = "pending"] \in EditorType
    <3> HIDE DEF e
    <3>1. e \in EditorType
      BY <1>1 DEF e
    <3>2. QED
      BY <3>1 DEF EditorType, Statuses
  <2>2. QED
    BY <2>1
<1>3. [ed EXCEPT !.parsing = NoCode, !.fromGraph = FALSE] \in EditorType
  <2> DEFINE e == [ed EXCEPT !.parsing = NoCode]
  <2>1. [e EXCEPT !.fromGraph = FALSE] \in EditorType
    <3> HIDE DEF e
    <3>1. e \in EditorType
      BY <1>1 DEF e
    <3>2. QED
      BY <3>1 DEF EditorType
  <2>2. QED
    BY <2>1
<1>4. [ed EXCEPT !.parsing = ed.code, !.status = "parsing"] \in EditorType
  <2> DEFINE e == [ed EXCEPT !.parsing = ed.code]
  <2>1. [e EXCEPT !.status = "parsing"] \in EditorType
    <3> HIDE DEF e
    <3>1. e \in EditorType
      BY <1>1 DEF e
    <3>2. QED
      BY <3>1 DEF EditorType, Statuses
  <2>2. QED
    BY <2>1
<1>5. GraphToPython(ed) \in EditorType /\ PythonToGraph(ed) \in EditorType
  BY <1>1, <1>2, <1>3, <1>4 DEF GraphToPython, PythonToGraph
<1>6. SameView(GraphToPython(ed), ed)
  BY DEF GraphToPython, SameView, EditorType
<1>7. SameView(PythonToGraph(ed), ed)
  BY DEF PythonToGraph, SameView, EditorType
<1>8. QED
  BY <1>5, <1>6, <1>7

(* So does a graph that is put into it,                                    *)
LEMMA LoadTyped ==
  ASSUME NEW ed \in EditorType, NEW g \in Graphs
  PROVE  LoadGraph(ed, g) \in EditorType /\ SameView(LoadGraph(ed, g), ed)
<1> DEFINE drawn == [ed EXCEPT !.graph = g]
<1>1. drawn \in EditorType /\ SameView(drawn, ed)
  BY DEF EditorType, SameView
<1>2. LoadGraph(ed, g) = GraphToPython(drawn)
  BY DEF LoadGraph
<1> HIDE DEF drawn
<1>3. GraphToPython(drawn) \in EditorType /\ SameView(GraphToPython(drawn), drawn)
  BY <1>1, EffectsTyped
<1>4. QED
  BY <1>1, <1>2, <1>3 DEF SameView

(* and a code.                                                             *)
LEMMA SetTyped ==
  ASSUME NEW ed \in EditorType, NEW c \in Code
  PROVE  SetCode(ed, c) \in EditorType /\ SameView(SetCode(ed, c), ed)
<1> DEFINE typed == [ed EXCEPT !.code = c]
<1>1. typed \in EditorType /\ SameView(typed, ed)
  BY DEF EditorType, SameView
<1>2. SetCode(ed, c) = ed \/ SetCode(ed, c) = PythonToGraph(typed)
  BY DEF SetCode
<1> HIDE DEF typed
<1>3. PythonToGraph(typed) \in EditorType /\ SameView(PythonToGraph(typed), typed)
  BY <1>1, EffectsTyped
<1>4. QED
  BY <1>1, <1>2, <1>3 DEF SameView

(* An editor put in place of another keeps the view, or has a buffer.      *)
LEMMA NextEditor ==
  ASSUME EditorTyped, NEW ed, ed \in EditorType, SameView(ed, editor), editor' = ed
  PROVE  EditorTyped'
BY DEF EditorTyped, SameView

LEMMA GenerateFiresEditor ==
  ASSUME EditorTyped, GenerateFires
  PROVE  EditorTyped'
<1> DEFINE fired == [editor EXCEPT !.generating = FALSE]
           marked == [fired EXCEPT !.fromGraph = TRUE]
           synced == [marked EXCEPT !.status = "synced"]
           code == GeneratePython(editor.graph)
<1>1. fired \in EditorType /\ SameView(fired, editor)
  BY DEF EditorTyped, EditorType, SameView
<1>2. synced \in EditorType /\ SameView(synced, editor)
  <2> HIDE DEF fired
  <2>1. marked \in EditorType /\ SameView(marked, editor)
    BY <1>1 DEF EditorType, SameView
  <2> HIDE DEF marked
  <2>2. QED
    BY <2>1 DEF EditorType, SameView, Statuses
<1>3. code \in Code
  BY CodeTyped DEF EditorTyped, EditorType
<1>4. editor' = fired \/ editor' = SetCode(synced, code)
  BY DEF GenerateFires
<1> HIDE DEF fired, synced, code
<1>5. SetCode(synced, code) \in EditorType /\ SameView(SetCode(synced, code), synced)
  BY <1>2, <1>3, SetTyped
<1>6. QED
  BY <1>1, <1>2, <1>4, <1>5 DEF EditorTyped, SameView

LEMMA ParseFiresEditor ==
  ASSUME EditorTyped, ParseFires
  PROVE  EditorTyped'
<1> DEFINE parsed == ParsePython(editor.parsing)
           fired == [editor EXCEPT !.parsing = NoCode]
           manual == [fired EXCEPT !.status = "manual"]
           synced == [fired EXCEPT !.status = "synced"]
<1>1. fired \in EditorType /\ SameView(fired, editor)
  BY DEF EditorTyped, EditorType, SameView
<1>2. /\ manual \in EditorType /\ SameView(manual, editor)
      /\ synced \in EditorType /\ SameView(synced, editor)
  <2> HIDE DEF fired
  <2>1. QED
    BY <1>1 DEF EditorType, SameView, Statuses
<1>3. parsed \in Graphs \cup {NoGraph}
  <2>1. editor.parsing \in Code
    BY DEF ParseFires, EditorTyped, EditorType
  <2>2. QED
    BY <2>1, CodeTyped
<1>4. editor' = IF parsed = NoGraph THEN manual ELSE LoadGraph(synced, parsed)
  BY DEF ParseFires
<1> HIDE DEF fired, manual, synced, parsed
<1>5. CASE parsed = NoGraph
  BY <1>2, <1>4, <1>5, NextEditor
<1>6. CASE parsed # NoGraph
  <2>1. LoadGraph(synced, parsed) \in EditorType /\ SameView(LoadGraph(synced, parsed), synced)
    BY <1>2, <1>3, <1>6, LoadTyped
  <2>2. QED
    BY <1>2, <1>4, <1>6, <2>1 DEF EditorTyped, SameView
<1>7. QED
  BY <1>5, <1>6

LEMMA UserEditor ==
  ASSUME EditorTyped, EditCanvas \/ ToggleEditor \/ TypeCode
  PROVE  EditorTyped'
<1>1. CASE EditCanvas
  <2>1. PICK g \in CanvasEdits(editor.graph) :
          editor' = [editor EXCEPT !.graph = g, !.edits = @ + 1]
    BY <1>1 DEF EditCanvas
  <2>2. g \in Graphs
    BY EditsGiveGraphs DEF EditorTyped, EditorType
  <2> DEFINE drawn == [editor EXCEPT !.graph = g]
  <2>3. drawn \in EditorType /\ SameView(drawn, editor) /\ editor' = [drawn EXCEPT !.edits = @ + 1]
    BY <2>1, <2>2 DEF EditorTyped, EditorType, SameView
  <2> HIDE DEF drawn
  <2>4. [drawn EXCEPT !.edits = @ + 1] \in EditorType
    BY <2>3 DEF EditorType
  <2>5. SameView([drawn EXCEPT !.edits = @ + 1], editor)
    BY <2>3 DEF EditorType, SameView
  <2>6. QED
    BY <2>3, <2>4, <2>5 DEF EditorTyped, SameView
<1>2. CASE ToggleEditor
  <2>1. PICK buffer \in IF editor.monaco THEN {NoCode, editor.buffer} ELSE {MountedBuffer} :
          editor' = [editor EXCEPT !.monaco = ~@, !.buffer = buffer]
    BY <1>2 DEF ToggleEditor
  <2>2. buffer \in Code \cup {NoCode} /\ (~editor.monaco => buffer \in Code)
    BY <2>1 DEF MountedBuffer, EditorTyped, EditorType
  <2> DEFINE shown == [editor EXCEPT !.monaco = ~@]
  <2>3. shown \in EditorType /\ shown.monaco = ~editor.monaco
    BY DEF EditorTyped, EditorType
  <2>4. editor' = [shown EXCEPT !.buffer = buffer]
    BY <2>1
  <2> HIDE DEF shown
  <2>5. editor' \in EditorType /\ editor'.buffer = buffer /\ editor'.monaco = shown.monaco
    BY <2>2, <2>3, <2>4 DEF EditorType
  <2>6. QED
    BY <2>2, <2>3, <2>5 DEF EditorTyped
<1>3. CASE TypeCode
  <2>1. PICK b \in Typed(editor.buffer) : editor' = SetCode([editor EXCEPT !.buffer = b], b)
    BY <1>3 DEF TypeCode
  <2>2. b \in Code
    BY <1>3, CodeTyped DEF TypeCode, EditorTyped
  <2> DEFINE typed == [editor EXCEPT !.buffer = b]
  <2>3. typed \in EditorType /\ typed.buffer = b
    BY <2>2 DEF EditorTyped, EditorType
  <2> HIDE DEF typed
  <2>4. SetCode(typed, b) \in EditorType /\ SameView(SetCode(typed, b), typed)
    BY <2>2, <2>3, SetTyped
  <2>5. editor' = SetCode(typed, b)
    BY <2>1 DEF typed
  <2>6. QED
    BY <2>2, <2>3, <2>4, <2>5 DEF EditorTyped, SameView
<1>4. QED
  BY <1>1, <1>2, <1>3

LEMMA OpenDoneEditor ==
  ASSUME EditorTyped, bundles \in Seq(Bundle), \A o \in opens : o.root \in Roots, OpenDone
  PROVE  EditorTyped'
<1>1. PICK o \in opens :
        \/ editor' = SetCode(LoadGraph(editor, bundles[o.root].graph), bundles[o.root].code)
        \/ editor' = LoadGraph(editor, bundles[o.root].graph)
  BY DEF OpenDone
<1>2. PICK b \in Bundle : b = bundles[o.root]
  <2>1. o.root \in DOMAIN bundles
    BY DEF Roots
  <2>2. QED
    BY <2>1, ElementOfSeq
<1>3. b.graph \in Graphs /\ b.code \in Code
  BY DEF Bundle
<1>4. PICK drawn \in EditorType : drawn = LoadGraph(editor, b.graph) /\ SameView(drawn, editor)
  BY <1>3, LoadTyped DEF EditorTyped
<1>5. SetCode(drawn, b.code) \in EditorType /\ SameView(SetCode(drawn, b.code), drawn)
  BY <1>3, <1>4, SetTyped
<1>6. editor' = SetCode(drawn, b.code) \/ editor' = drawn
  BY <1>1, <1>2, <1>4
<1>7. QED
  BY <1>4, <1>5, <1>6 DEF EditorTyped, SameView

(* The editor of a page that is mounted again.                             *)
LEMMA NavigateEditor ==
  ASSUME EditorTyped, Navigate
  PROVE  EditorTyped'
<1>1. PICK buffer \in {NoCode, editor.buffer} : editor' = Mounted(buffer)
  BY DEF Navigate
<1>2. editor.graph \in Graphs /\ editor.edits \in Nat /\ buffer \in Code \cup {NoCode}
  BY <1>1 DEF EditorTyped, EditorType
<1> DEFINE drawn == [NewEditor EXCEPT !.graph = editor.graph]
           edited == [drawn EXCEPT !.edits = editor.edits]
           mounted == [edited EXCEPT !.buffer = buffer]
<1>3. NewEditor \in EditorType /\ ~NewEditor.monaco
  BY EmptyIsGraph, CodeTyped DEF NewEditor, EditorType, Statuses
<1>4. drawn \in EditorType /\ ~drawn.monaco
  <2>1. PICK ed \in EditorType : ed = NewEditor /\ ~ed.monaco
    BY <1>3
  <2>2. [ed EXCEPT !.graph = editor.graph] \in EditorType
    BY <1>2 DEF EditorType
  <2>3. ~[ed EXCEPT !.graph = editor.graph].monaco
    BY <2>1 DEF EditorType
  <2>4. QED
    BY <2>1, <2>2, <2>3
<1>5. editor' = GraphToPython(mounted)
  BY <1>1 DEF Mounted, NewEditor
<1> HIDE DEF drawn
<1>6. edited \in EditorType /\ ~edited.monaco
  BY <1>2, <1>4 DEF EditorType
<1> HIDE DEF edited
<1>7. mounted \in EditorType /\ ~mounted.monaco
  BY <1>2, <1>6 DEF EditorType
<1> HIDE DEF mounted
<1>8. GraphToPython(mounted) \in EditorType /\ SameView(GraphToPython(mounted), mounted)
  BY <1>7, EffectsTyped
<1>9. QED
  BY <1>5, <1>7, <1>8 DEF EditorTyped, SameView

LEMMA PublishEditor ==
  ASSUME EditorTyped, Publish
  PROVE  EditorTyped'
<1> DEFINE marked == [editor EXCEPT !.fromGraph = TRUE]
           code == GeneratePython(editor.graph)
<1>1. editor' = editor \/ editor' = SetCode(marked, code)
  BY DEF Publish
<1>2. marked \in EditorType /\ SameView(marked, editor)
  BY DEF EditorTyped, EditorType, SameView
<1>3. code \in Code
  BY CodeTyped DEF EditorTyped, EditorType
<1> HIDE DEF marked, code
<1>4. SetCode(marked, code) \in EditorType /\ SameView(SetCode(marked, code), marked)
  BY <1>2, <1>3, SetTyped
<1>5. QED
  BY <1>1, <1>2, <1>4 DEF EditorTyped, SameView

(* The editor stays typed in every step.                                   *)
LEMMA EditorStep ==
  ASSUME EditorTyped, bundles \in Seq(Bundle), \A o \in opens : o.root \in Roots, [Next]_vars
  PROVE  EditorTyped'
<1>1. CASE GenerateFires
  BY <1>1, GenerateFiresEditor
<1>2. CASE ParseFires
  BY <1>2, ParseFiresEditor
<1>3. CASE Unlock
  <2>1. editor' = [editor EXCEPT !.locks = @ - 1] /\ editor.locks > 0
    BY <1>3 DEF Unlock
  <2>2. QED
    BY <2>1 DEF EditorTyped, EditorType
<1>4. CASE EditCanvas \/ ToggleEditor \/ TypeCode
  BY <1>4, UserEditor
<1>5. CASE ChatBuildsGraph
  <2>1. PICK g \in ChatGraphs : editor' = LoadGraph(editor, g)
    BY <1>5 DEF ChatBuildsGraph
  <2>2. LoadGraph(editor, g) \in EditorType /\ SameView(LoadGraph(editor, g), editor)
    BY LoadTyped, CodeTyped, BuilderAssumption DEF EditorTyped
  <2>3. QED
    BY <2>1, <2>2, NextEditor
<1>6. CASE OpenByHash \/ OpenSaved \/ OpenFromHub \/ Rollback
  <2>1. editor' = [editor EXCEPT !.locks = @ + 1]
    BY <1>6 DEF OpenByHash, OpenSaved, OpenFromHub, Rollback, OpenedByUser, BeginOpen
  <2>2. QED
    BY <2>1 DEF EditorTyped, EditorType
<1>7. CASE OpenDone
  BY <1>7, OpenDoneEditor
<1>8. CASE Publish
  BY <1>8, PublishEditor
<1>9. CASE Reload
  <2>1. editor' = NewEditor
    BY <1>9 DEF Reload
  <2>2. NewEditor \in EditorType
    BY EmptyIsGraph, CodeTyped DEF NewEditor, EditorType, Statuses
  <2>3. QED
    BY <2>1, <2>2 DEF EditorTyped, NewEditor
<1>10. CASE Navigate
  BY <1>10, NavigateEditor
<1>11. CASE editor' = editor
  BY <1>11 DEF EditorTyped
<1>12. QED
  BY <1>1, <1>2, <1>3, <1>4, <1>5, <1>6, <1>7, <1>8, <1>9, <1>10, <1>11, Frame
  DEF Timers, PagesLeft

-----------------------------------------------------------------------------
(* The assistant.                                                          *)

(* A question after an answer, and what follows a question.                *)
LEMMA Conversations ==
  ASSUME NEW h \in Seq(Roles)
  PROVE  /\ Answered(h) => Asked(Append(h, "user"))
         /\ Asked(h) => Answered(Append(h, "assistant")) /\ Asked(h \o <<"call", "tool">>)
<1>1. ASSUME Answered(h)
      PROVE  Asked(Append(h, "user"))
  BY <1>1 DEF Answered, Asked, Roles
<1>2. ASSUME Asked(h)
      PROVE  Answered(Append(h, "assistant"))
  BY <1>2 DEF Answered, Asked, Roles
<1>3. ASSUME Asked(h)
      PROVE  Asked(h \o <<"call", "tool">>)
  <2> DEFINE t == h \o <<"call", "tool">>
  <2>1. t \in Seq(Roles)
    BY DEF Roles
  <2>2. /\ Len(t) = Len(h) + 2
        /\ \A i \in 1 .. Len(h) : t[i] = h[i]
        /\ t[Len(h) + 1] = "call" /\ t[Len(h) + 2] = "tool"
    OBVIOUS
  <2> HIDE DEF t
  <2>3. QED
    BY <1>3, <2>1, <2>2 DEF Asked
<1>4. QED
  BY <1>1, <1>2, <1>3

(* The requests under way stay as they should be when one ends or moves on. *)
LEMMA ChatStep ==
  ASSUME ChatInv, inputs \in Nat, [Next]_vars
  PROVE  ChatInv'
<1>1. CASE ChatSend
  <2>1. /\ chat' = [chat EXCEPT !.loading = TRUE]
        /\ calls' = calls \cup {[id |-> inputs, history |-> Append(chat.history, "user"),
                                 stage |-> "asked", live |-> TRUE]}
    BY <1>1 DEF ChatSend
  <2>2. chat.history \in Seq(Roles) /\ Asked(Append(chat.history, "user"))
    BY Conversations DEF ChatInv
  <2>3. chat' \in [history : Seq(Roles), loading : BOOLEAN] /\ chat'.history = chat.history
    BY <2>1 DEF ChatInv
  <2>4. Append(chat.history, "user") \in Seq(Roles)
    BY <2>2 DEF Asked
  <2>5. PICK sent \in CallRec :
          calls' = calls \cup {sent} /\ sent.history = Append(chat.history, "user")
    <3> DEFINE sent == [id |-> inputs, history |-> Append(chat.history, "user"),
                        stage |-> "asked", live |-> TRUE]
    <3>1. sent \in CallRec /\ sent.history = Append(chat.history, "user")
      BY <2>4 DEF CallRec
    <3>2. calls' = calls \cup {sent}
      BY <2>1
    <3> HIDE DEF sent
    <3>3. QED
      BY <3>1, <3>2
  <2>6. Answered(chat'.history)
    BY <2>3 DEF ChatInv
  <2>7. \A c \in calls' : c \in CallRec /\ Asked(c.history)
    BY <2>1, <2>2, <2>5 DEF ChatInv
  <2>8. QED
    BY <2>3, <2>6, <2>7 DEF ChatInv
<1>2. CASE ChatBuildsGraph
  <2>1. PICK c \in calls :
          calls' = (calls \ {c})
                     \cup {[c EXCEPT !.stage = "built", !.history = @ \o <<"call", "tool">>]}
    BY <1>2 DEF ChatBuildsGraph
  <2>2. c \in CallRec /\ Asked(c.history) /\ c.history \in Seq(Roles)
    BY DEF ChatInv, CallRec
  <2>3. PICK h \in Seq(Roles) : h = c.history \o <<"call", "tool">> /\ Asked(h)
    <3>1. Asked(c.history \o <<"call", "tool">>)
      BY <2>2, Conversations
    <3>2. QED
      BY <3>1 DEF Asked
  <2> DEFINE built == [c EXCEPT !.stage = "built"]
  <2>4. built \in CallRec /\ calls' = (calls \ {c}) \cup {[built EXCEPT !.history = h]}
    BY <2>1, <2>2, <2>3 DEF CallRec
  <2> HIDE DEF built
  <2>5. [built EXCEPT !.history = h] \in CallRec /\ [built EXCEPT !.history = h].history = h
    BY <2>4 DEF CallRec
  <2>6. chat' = chat
    BY <1>2 DEF ChatBuildsGraph
  <2>7. QED
    BY <2>3, <2>4, <2>5, <2>6 DEF ChatInv
<1>3. CASE ChatAnswers
  <2>1. PICK c \in calls :
          /\ calls' = calls \ {c}
          /\ chat' \in {chat, [history |-> Append(c.history, "assistant"), loading |-> FALSE]}
    BY <1>3 DEF ChatAnswers
  <2>2. c.history \in Seq(Roles) /\ Asked(c.history)
    BY DEF ChatInv, CallRec
  <2>3. PICK h \in Seq(Roles) : h = Append(c.history, "assistant") /\ Answered(h)
    <3>1. Answered(Append(c.history, "assistant"))
      BY <2>2, Conversations
    <3>2. QED
      BY <2>2, <3>1, AppendProperties DEF Roles
  <2>4. chat' \in [history : Seq(Roles), loading : BOOLEAN] /\ Answered(chat'.history)
    <3>1. [history |-> h, loading |-> FALSE] \in [history : Seq(Roles), loading : BOOLEAN]
      OBVIOUS
    <3>2. CASE chat' = chat
      BY <3>2 DEF ChatInv
    <3>3. CASE chat' = [history |-> h, loading |-> FALSE]
      BY <2>3, <3>1, <3>3
    <3>4. QED
      BY <2>1, <2>3, <3>2, <3>3
  <2>5. \A d \in calls' : d \in CallRec /\ Asked(d.history)
    BY <2>1 DEF ChatInv
  <2>6. QED
    BY <2>4, <2>5 DEF ChatInv
<1>4. CASE ChatFails
  <2>1. calls' \subseteq calls /\ chat' \in {chat, [chat EXCEPT !.loading = FALSE]}
    BY <1>4 DEF ChatFails
  <2>2. QED
    BY <2>1 DEF ChatInv
<1>5. CASE SwitchProvider
  <2>1. calls' = calls /\ chat' = [chat EXCEPT !.history = << >>]
    BY <1>5 DEF SwitchProvider
  <2>2. chat' \in [history : Seq(Roles), loading : BOOLEAN] /\ chat'.history = << >>
    <3>1. << >> \in Seq(Roles)
      OBVIOUS
    <3>2. QED
      BY <2>1, <3>1 DEF ChatInv
  <2>3. \A c \in calls' : c \in CallRec /\ Asked(c.history)
    BY <2>1 DEF ChatInv
  <2>4. QED
    BY <2>2, <2>3 DEF ChatInv, Answered
<1>6. CASE ToggleEditor \/ Navigate
  <2>1. chat' = NewChat /\ calls' = Orphaned(calls)
    BY <1>6 DEF ToggleEditor, Navigate
  <2>2. ASSUME NEW c \in calls
        PROVE  /\ [c EXCEPT !.live = FALSE] \in CallRec
               /\ Asked([c EXCEPT !.live = FALSE].history)
    BY DEF ChatInv, CallRec
  <2>3. chat' \in [history : Seq(Roles), loading : BOOLEAN] /\ chat'.history = << >>
    BY <2>1 DEF NewChat
  <2>4. \A c \in calls' : c \in CallRec /\ Asked(c.history)
    BY <2>1, <2>2 DEF Orphaned
  <2>5. QED
    BY <2>3, <2>4 DEF ChatInv, Answered
<1>7. CASE Reload
  BY <1>7 DEF Reload, ChatInv, NewChat, Answered
<1>8. CASE chat' = chat /\ calls' = calls
  BY <1>8 DEF ChatInv
<1>9. QED
  BY <1>1, <1>2, <1>3, <1>4, <1>5, <1>6, <1>7, <1>8, Frame DEF PagesLeft

(* What the invariant says of the conversation is ChatAlternates.          *)
LEMMA ConversationAlternates ==
  ASSUME ChatInv
  PROVE  ChatAlternates
<1>1. CASE chat.history = << >>
  BY <1>1 DEF ChatAlternates
<1>2. CASE chat.history # << >>
  <2>1. Asked(chat.history) /\ chat.history[Len(chat.history)] = "assistant"
    BY <1>2 DEF ChatInv, Answered
  <2>2. DOMAIN chat.history = 1 .. Len(chat.history) /\ Len(chat.history) \in Nat
    BY <2>1 DEF Asked
  <2>3. QED
    BY <2>1, <2>2 DEF Asked, ChatAlternates
<1>3. QED
  BY <1>1, <1>2

-----------------------------------------------------------------------------
(* Publishing.                                                             *)

(* Nothing takes an upload back.                                           *)
LEMMA RootsStay ==
  ASSUME bundles \in Seq(Bundle), [Next]_vars
  PROVE  Roots \subseteq Roots'
<1>1. CASE SaveDone
  <2>1. PICK s \in saves : bundles' = Append(bundles, s.bundle)
    BY <1>1 DEF SaveDone
  <2>2. QED
    BY <2>1 DEF Roots
<1>2. CASE bundles' = bundles
  BY <1>2 DEF Roots
<1>3. QED
  BY <1>1, <1>2, Frame

\* The second market holds what the first does, but for the text records.
Grows(m, n) ==
  /\ m.listed \subseteq n.listed /\ m.unkept \subseteq n.unkept /\ m.onChain \subseteq n.onChain
  /\ \A l \in Labels : m.named[l] \subseteq n.named[l] /\ m.refused[l] \subseteq n.refused[l]

(* A gym stays listed and named, and only a manifest changes a text record. *)
LEMMA MarketGrows ==
  ASSUME MarketTyped(market), \A w \in manifests : w.label \in Labels /\ w.versions \in Seq(Nat),
         \A h \in listings : h \in ListingRec, [Next]_vars
  PROVE  /\ MarketTyped(market') /\ Grows(market, market')
         /\ market'.record = market.record \/ TextRecordSet
<1>1. CASE ListingStored
  <2>1. PICK h \in listings : market' = [market EXCEPT !.listed = @ \cup {h.root}]
    BY <1>1 DEF ListingStored
  <2>2. QED
    BY <2>1 DEF MarketTyped, Grows
<1>2. CASE ListingIgnored
  <2>1. PICK h \in listings : market' = [market EXCEPT !.unkept = @ \cup {h.root}]
    BY <1>2 DEF ListingIgnored
  <2>2. QED
    BY <2>1 DEF MarketTyped, Grows
<1>3. CASE ListedOnChain
  <2>1. PICK h \in listings : market' = [market EXCEPT !.onChain = @ \cup {h.root}]
    BY <1>3 DEF ListedOnChain
  <2>2. QED
    BY <2>1 DEF MarketTyped, Grows
<1>4. CASE NameRegistered
  <2>1. PICK h \in listings : market' = [market EXCEPT !.named[h.label] = @ \cup {h.root}]
    BY <1>4 DEF NameRegistered
  <2>2. h.label \in Labels /\ h.root \in Nat
    BY DEF ListingRec
  <2>3. QED
    BY <2>1, <2>2 DEF MarketTyped, Grows
<1>5. CASE NameRefused
  <2>1. PICK h \in listings : market' = [market EXCEPT !.refused[h.label] = @ \cup {h.root}]
    BY <1>5 DEF NameRefused
  <2>2. h.label \in Labels /\ h.root \in Nat
    BY DEF ListingRec
  <2>3. QED
    BY <2>1, <2>2 DEF MarketTyped, Grows
<1>6. CASE TextRecordSet
  <2>1. PICK w \in manifests : market' = [market EXCEPT !.record[w.label] = w.versions]
    BY <1>6 DEF TextRecordSet
  <2>2. PICK label \in Labels, vs \in Seq(Nat) : label = w.label /\ vs = w.versions
    OBVIOUS
  <2>3. market' = [market EXCEPT !.record[label] = vs]
    BY <2>1, <2>2
  <2>4. /\ DOMAIN market' = DOMAIN market /\ market'.record = [market.record EXCEPT ![label] = vs]
        /\ market'.named = market.named /\ market'.refused = market.refused
        /\ market'.listed = market.listed /\ market'.unkept = market.unkept
        /\ market'.onChain = market.onChain
    BY <2>3 DEF MarketTyped
  <2>5. [market.record EXCEPT ![label] = vs] \in [Labels -> Seq(Nat)]
    BY DEF MarketTyped
  <2>6. QED
    BY <1>6, <2>4, <2>5 DEF MarketTyped, Grows
<1>7. CASE market' = market
  BY <1>7 DEF Grows
<1>8. QED
  BY <1>1, <1>2, <1>3, <1>4, <1>5, <1>6, <1>7, Frame DEF Naming

(* What becomes of a listing that moves on, or that loses its page.        *)
LEMMA ListingMarked ==
  ASSUME NEW h \in ListingRec, NEW next \in {"store", "prompt", "contract", "name"}
  PROVE  /\ [h EXCEPT !.stage = next] \in ListingRec /\ [h EXCEPT !.live = FALSE] \in ListingRec
         /\ [h EXCEPT !.stage = next].stage = next /\ [h EXCEPT !.stage = next].root = h.root
         /\ [h EXCEPT !.stage = next].live = h.live
         /\ [h EXCEPT !.live = FALSE].stage = h.stage /\ [h EXCEPT !.live = FALSE].root = h.root
         /\ ~[h EXCEPT !.live = FALSE].live
BY DEF ListingRec

(* The four steps that move a listing on.                                  *)
LEMMA MovingEffects ==
  ASSUME ListingMoving, \A h \in listings : h \in ListingRec
  PROVE  \E h \in listings, g \in ListingRec :
           /\ listings' = (listings \ {h}) \cup {g}
           /\ g.root = h.root /\ g.live = h.live
           /\ UNCHANGED <<bundles, gyms, saves, manifests, publish>>
           /\ \/ g.stage = "prompt" /\ h.root \in market'.listed \cup market'.unkept
              \/ g.stage = "contract" /\ h.stage = "prompt"
              \/ g.stage = "name" /\ h.stage = "contract" /\ h.root \in market'.onChain
              \/ ~MarketTyped(market)
<1> USE DEF ListingMoves, storage
<1>1. CASE ListingStored
  <2>1. PICK h \in listings : /\ ListingMoves(h, "prompt")
                              /\ market' = [market EXCEPT !.listed = @ \cup {h.root}]
    BY <1>1 DEF ListingStored
  <2>2. MarketTyped(market) => h.root \in market'.listed
    BY <2>1 DEF MarketTyped
  <2>3. PICK g \in ListingRec :
          /\ g = [h EXCEPT !.stage = "prompt"] /\ g.stage = "prompt"
          /\ g.root = h.root /\ g.live = h.live
    BY ListingMarked
  <2>4. /\ listings' = (listings \ {h}) \cup {g}
        /\ UNCHANGED <<bundles, gyms, saves, manifests, publish>>
    BY <2>1, <2>3
  <2>5. QED
    BY <2>1, <2>2, <2>3, <2>4
<1>2. CASE ListingIgnored
  <2>1. PICK h \in listings : /\ ListingMoves(h, "prompt")
                              /\ market' = [market EXCEPT !.unkept = @ \cup {h.root}]
    BY <1>2 DEF ListingIgnored
  <2>2. MarketTyped(market) => h.root \in market'.unkept
    BY <2>1 DEF MarketTyped
  <2>3. PICK g \in ListingRec :
          /\ g = [h EXCEPT !.stage = "prompt"] /\ g.stage = "prompt"
          /\ g.root = h.root /\ g.live = h.live
    BY ListingMarked
  <2>4. /\ listings' = (listings \ {h}) \cup {g}
        /\ UNCHANGED <<bundles, gyms, saves, manifests, publish>>
    BY <2>1, <2>3
  <2>5. QED
    BY <2>1, <2>2, <2>3, <2>4
<1>3. CASE ListingSigned
  <2>1. PICK h \in listings : h.stage = "prompt" /\ ListingMoves(h, "contract")
    BY <1>3 DEF ListingSigned
  <2>2. QED
    BY <2>1, ListingMarked
<1>4. CASE ListedOnChain
  <2>1. PICK h \in listings : /\ h.stage = "contract" /\ ListingMoves(h, "name")
                              /\ market' = [market EXCEPT !.onChain = @ \cup {h.root}]
    BY <1>4 DEF ListedOnChain
  <2>2. MarketTyped(market) => h.root \in market'.onChain
    BY <2>1 DEF MarketTyped
  <2>3. PICK g \in ListingRec :
          /\ g = [h EXCEPT !.stage = "name"] /\ g.stage = "name"
          /\ g.root = h.root /\ g.live = h.live
    BY ListingMarked
  <2>4. /\ listings' = (listings \ {h}) \cup {g}
        /\ UNCHANGED <<bundles, gyms, saves, manifests, publish>>
    BY <2>1, <2>3
  <2>5. QED
    BY <2>1, <2>2, <2>3, <2>4
<1>5. QED
  BY <1>1, <1>2, <1>3, <1>4 DEF ListingMoving

(* The steps that end one.                                                 *)
LEMMA EndingEffects ==
  ASSUME ListingFailing \/ Naming \/ NameFailed
  PROVE  \E h \in listings : listings' = listings \ {h}
BY DEF ListingFailing, ListingFailed, ListingRefused, ListingFails, Naming, NameRegistered,
       NameRefused, NameAnswered, NameFailed, ListingEnds

LEMMA ListingsStep ==
  ASSUME ListingsInv, SavesInv, bundles \in Seq(Bundle),
         \A w \in manifests : w.label \in Labels /\ w.versions \in Seq(Nat), [Next]_vars
  PROVE  ListingsInv'
<1>1. Roots \subseteq Roots'
  BY RootsStay
<1>2. MarketTyped(market') /\ Grows(market, market')
  BY MarketGrows DEF ListingsInv, ListingOK
<1>3. \A h \in listings : ListingOK(h, Roots', market')
  BY <1>1, <1>2 DEF ListingsInv, ListingOK, Reached, Grows
<1>4. CASE SaveDone
  <2>1. PICK s \in saves :
          /\ bundles' = Append(bundles, s.bundle)
          /\ listings' \in {listings,
               listings \cup {[root |-> Len(bundles) + 1, label |-> s.label, stage |-> "store",
                               live |-> s.live]}}
          /\ s.by = "button" => listings' = listings
    BY <1>4 DEF SaveDone
  <2>2. s \in SaveRec /\ (s.by = "publish" => s.label \in Labels)
    BY DEF SavesInv, SaveOK
  <2>3. PICK root \in Nat : root = Len(bundles) + 1
    OBVIOUS
  <2>4. root \in Roots'
    BY <2>1, <2>3 DEF Roots
  <2>5. CASE s.by = "publish"
    <3>1. PICK h \in ListingRec :
            /\ h = [root |-> root, label |-> s.label, stage |-> "store", live |-> s.live]
            /\ h.root = root /\ h.stage = "store"
      <4>1. s.live \in BOOLEAN /\ s.label \in Labels
        BY <2>2, <2>5 DEF SaveRec
      <4> DEFINE h == [root |-> root, label |-> s.label, stage |-> "store", live |-> s.live]
      <4>2. h \in ListingRec /\ h.root = root /\ h.stage = "store"
        BY <4>1 DEF ListingRec
      <4> HIDE DEF h
      <4>3. QED
        BY <4>2 DEF h
    <3>2. ListingOK(h, Roots', market')
      BY <2>4, <3>1 DEF ListingOK, Reached
    <3>3. listings' \subseteq listings \cup {h}
      BY <2>1, <2>3, <3>1
    <3>4. QED
      BY <1>2, <1>3, <3>2, <3>3 DEF ListingsInv
  <2>6. CASE s.by = "button"
    BY <1>2, <1>3, <2>1, <2>6 DEF ListingsInv
  <2>7. QED
    BY <2>2, <2>5, <2>6 DEF SaveRec
<1>5. CASE ListingMoving
  <2>1. PICK h \in listings, g \in ListingRec :
          /\ listings' = (listings \ {h}) \cup {g} /\ g.root = h.root
          /\ \/ g.stage = "prompt" /\ h.root \in market'.listed \cup market'.unkept
             \/ g.stage = "contract" /\ h.stage = "prompt"
             \/ g.stage = "name" /\ h.stage = "contract" /\ h.root \in market'.onChain
    BY <1>5, MovingEffects DEF ListingsInv, ListingOK
  <2>2. ListingOK(h, Roots', market')
    BY <1>3
  <2>3. ListingOK(g, Roots', market')
    BY <2>1, <2>2 DEF ListingOK, Reached
  <2>4. QED
    BY <1>2, <1>3, <2>1, <2>3 DEF ListingsInv
<1>6. CASE ListingFailing \/ Naming \/ NameFailed
  <2>1. listings' \subseteq listings
    BY <1>6, EndingEffects
  <2>2. QED
    BY <1>2, <1>3, <2>1 DEF ListingsInv
<1>7. CASE Navigate
  <2>1. listings' = Orphaned(listings)
    BY <1>7 DEF Navigate
  <2>2. ASSUME NEW g \in listings'
        PROVE  ListingOK(g, Roots', market')
    <3>1. PICK h \in listings : g = [h EXCEPT !.live = FALSE]
      BY <2>1 DEF Orphaned
    <3>2. h \in ListingRec /\ ListingOK(h, Roots', market')
      BY <1>3 DEF ListingOK
    <3>3. g \in ListingRec /\ g.stage = h.stage /\ g.root = h.root
      BY <3>1, <3>2, ListingMarked
    <3>4. QED
      BY <3>2, <3>3 DEF ListingOK, Reached
  <2>3. QED
    BY <1>2, <2>2 DEF ListingsInv
<1>8. CASE Reload
  <2>1. listings' = {}
    BY <1>8 DEF Reload
  <2>2. QED
    BY <1>2, <2>1 DEF ListingsInv
<1>9. CASE listings' = listings
  BY <1>2, <1>3, <1>9 DEF ListingsInv
<1>10. QED
  BY <1>4, <1>5, <1>6, <1>7, <1>8, <1>9, Frame DEF PagesLeft

\* What the modal says, as far as the handlers are concerned.
SameModal(p, q) ==
  /\ DOMAIN p = DOMAIN NewPublish
  /\ p.publishing = q.publishing /\ p.listing = q.listing /\ p.root = q.root
  /\ p.done => q.done /\ p.listError = q.listError

(* A modal that looks the same to handlers that are the same.              *)
LEMMA ModalStays ==
  ASSUME ModalInv, MarketTyped(market), Grows(market, market'), SameModal(publish', publish),
         \A s \in saves' : Publishes(s) => s \in saves,
         \A h \in listings' : h.live => h \in listings
  PROVE  ModalInv'
<1>1. /\ \A s \in saves' : Publishes(s) => publish'.publishing /\ ~publish'.listing
      /\ \A s, r \in saves' : Publishes(s) /\ Publishes(r) => s = r
  BY DEF ModalInv, SameModal
<1>2. /\ \A h \in listings' : h.live => publish'.listing /\ publish'.root = h.root
      /\ \A h, g \in listings' : h.live /\ g.live => h = g
  BY DEF ModalInv, SameModal
<1>3. ~publish'.listing /\ publish'.done /\ ~publish'.listError
        => publish'.root \in market'.onChain \cap (market'.listed \cup market'.unkept)
  BY DEF ModalInv, SameModal, Grows
<1>4. QED
  BY <1>1, <1>2, <1>3 DEF ModalInv, SameModal, Publishes

(* A save of the publish button keeps the modal's account of itself.       *)
LEMMA PublishClicked ==
  ASSUME ModalInv, Publish
  PROVE  ModalInv'
<1>1. ~publish.publishing /\ ~publish.listing /\ listings' = listings /\ market' = market
  BY DEF Publish
<1>2. PICK r : saves' \subseteq saves \cup {r}
  BY DEF Publish
<1> DEFINE clicked == [publish EXCEPT !.publishing = TRUE, !.error = FALSE,
                                      !.done = FALSE, !.listError = FALSE]
<1>3. publish' \in {clicked, [clicked EXCEPT !.diverged = TRUE]}
  BY DEF Publish
<1>4. /\ DOMAIN clicked = DOMAIN publish /\ ~clicked.done /\ clicked.publishing
      /\ clicked.listing = publish.listing
  BY DEF ModalInv, NewPublish
<1> HIDE DEF clicked
<1>5. /\ DOMAIN publish' = DOMAIN publish /\ ~publish'.done /\ publish'.publishing
      /\ publish'.listing = publish.listing
  BY <1>3, <1>4 DEF ModalInv, NewPublish
<1>6. \A s \in saves : ~Publishes(s)
  BY <1>1 DEF ModalInv
<1>7. \A h \in listings : ~h.live
  BY <1>1 DEF ModalInv
<1>8. QED
  BY <1>1, <1>2, <1>5, <1>6, <1>7 DEF ModalInv, Publishes

(* The end of an upload starts a listing, for the modal or for a page left. *)
LEMMA UploadEndsModal ==
  ASSUME ModalInv, ListingsInv, SavesInv, SaveDone
  PROVE  ModalInv'
<1>1. PICK s \in saves :
        /\ saves' = saves \ {s} /\ market' = market
        /\ publish' = IF s.by = "publish" /\ s.live
                      THEN [publish EXCEPT !.publishing = FALSE, !.listing = TRUE,
                                           !.root = Len(bundles) + 1]
                      ELSE publish
        /\ listings' = IF s.by = "button" THEN listings
                       ELSE listings \cup {[root |-> Len(bundles) + 1, label |-> s.label,
                                            stage |-> "store", live |-> s.live]}
  BY Zenon DEF SaveDone
<1>2. s.by \in {"button", "publish"} /\ s.live \in BOOLEAN
  BY DEF SavesInv, SaveOK, SaveRec
<1>3. Grows(market, market') /\ MarketTyped(market)
  BY <1>1 DEF Grows, ListingsInv
<1>4. CASE Publishes(s)
  <2>1. PICK root, g : /\ root = Len(bundles) + 1
                       /\ g = [root |-> root, label |-> s.label, stage |-> "store",
                               live |-> s.live]
    OBVIOUS
  <2>2. /\ listings' = listings \cup {g} /\ g.root = root
        /\ publish' = [publish EXCEPT !.publishing = FALSE, !.listing = TRUE, !.root = root]
    BY <1>1, <1>4, <2>1 DEF Publishes
  <2>3. publish'.listing /\ publish'.root = root /\ DOMAIN publish' = DOMAIN publish
    BY <2>2 DEF ModalInv, NewPublish
  <2>4. \A h \in listings : ~h.live
    BY <1>4 DEF ModalInv
  <2>5. \A r \in saves' : ~Publishes(r)
    BY <1>1, <1>4 DEF ModalInv
  <2>6. QED
    BY <2>2, <2>3, <2>4, <2>5 DEF ModalInv, Publishes
<1>5. CASE ~Publishes(s)
  <2>1. SameModal(publish', publish)
    BY <1>1, <1>5 DEF Publishes, SameModal, ModalInv
  <2>2. ASSUME NEW h \in listings', h.live
        PROVE  h \in listings
    <3>1. CASE s.by = "button"
      BY <1>1, <2>2, <3>1
    <3>2. CASE s.by = "publish"
      <4>1. ~s.live
        BY <1>5, <3>2 DEF Publishes
      <4>2. QED
        BY <1>1, <2>2, <3>2, <4>1
    <3>3. QED
      BY <1>2, <3>1, <3>2
  <2>3. saves' \subseteq saves
    BY <1>1
  <2>4. QED
    BY <1>3, <2>1, <2>2, <2>3, ModalStays
<1>6. QED
  BY <1>4, <1>5

(* The end of a listing of the modal is shown by the modal.                *)
LEMMA ListingEndsModal ==
  ASSUME ModalInv, ListingsInv, MarketTyped(market'), Grows(market, market'),
         ListingFailing \/ Naming \/ NameFailed
  PROVE  ModalInv'
<1>1. PICK h \in listings :
        /\ listings' = listings \ {h} /\ saves' = saves
        /\ \/ /\ publish' = IF h.live THEN [publish EXCEPT !.listing = FALSE, !.done = TRUE]
                            ELSE publish
              /\ h.stage = "name"
           \/ publish' = IF h.live THEN [publish EXCEPT !.listing = FALSE, !.done = TRUE,
                                                        !.listError = TRUE]
                         ELSE publish
  BY DEF ListingFailing, ListingFailed, ListingRefused, ListingFails, Naming, NameRegistered,
         NameRefused, NameAnswered, NameFailed, ListingEnds, storage
<1>2. CASE ~h.live
  <2>1. publish' = publish
    BY <1>1, <1>2
  <2>2. SameModal(publish', publish)
    BY <2>1 DEF SameModal, ModalInv
  <2>3. QED
    BY <1>1, <2>2, ModalStays DEF ListingsInv
<1>3. CASE h.live
  <2>1. publish.listing /\ publish.root = h.root
    BY <1>3 DEF ModalInv
  <2>2. \A g \in listings' : ~g.live
    BY <1>1, <1>3 DEF ModalInv
  <2>3. \A s \in saves' : ~Publishes(s)
    BY <1>1, <2>1 DEF ModalInv
  <2>4. /\ DOMAIN publish' = DOMAIN publish /\ publish'.root = publish.root
        /\ publish'.listError \/ h.stage = "name"
    BY <1>1, <1>3 DEF ModalInv, NewPublish
  <2>5. h.stage = "name" => h.root \in market.onChain \cap (market.listed \cup market.unkept)
    BY DEF ListingsInv, ListingOK, Reached
  <2>6. ~publish'.listError
          => publish'.root \in market'.onChain \cap (market'.listed \cup market'.unkept)
    BY <2>1, <2>4, <2>5 DEF Grows
  <2>7. QED
    BY <2>2, <2>3, <2>4, <2>6 DEF ModalInv, Publishes
<1>4. QED
  BY <1>2, <1>3

(* A save that was signed, and one whose page was left.                    *)
LEMMA SaveMarked ==
  ASSUME NEW s \in SaveRec
  PROVE  /\ [s EXCEPT !.stage = "sent"] \in SaveRec /\ [s EXCEPT !.live = FALSE] \in SaveRec
         /\ \A r \in {[s EXCEPT !.stage = "sent"], [s EXCEPT !.live = FALSE]} :
              /\ r.by = s.by /\ r.label = s.label /\ r.prev = s.prev
              /\ r.versions = s.versions /\ r.ensLabel = s.ensLabel
         /\ [s EXCEPT !.stage = "sent"].live = s.live /\ ~[s EXCEPT !.live = FALSE].live
<1>1. /\ [s EXCEPT !.stage = "sent"].by = s.by /\ [s EXCEPT !.stage = "sent"].label = s.label
      /\ [s EXCEPT !.stage = "sent"].prev = s.prev
      /\ [s EXCEPT !.stage = "sent"].versions = s.versions
      /\ [s EXCEPT !.stage = "sent"].ensLabel = s.ensLabel
      /\ [s EXCEPT !.stage = "sent"].live = s.live /\ [s EXCEPT !.stage = "sent"] \in SaveRec
  BY DEF SaveRec
<1>2. /\ [s EXCEPT !.live = FALSE].by = s.by /\ [s EXCEPT !.live = FALSE].label = s.label
      /\ [s EXCEPT !.live = FALSE].prev = s.prev
      /\ [s EXCEPT !.live = FALSE].versions = s.versions
      /\ [s EXCEPT !.live = FALSE].ensLabel = s.ensLabel
      /\ ~[s EXCEPT !.live = FALSE].live /\ [s EXCEPT !.live = FALSE] \in SaveRec
  BY DEF SaveRec
<1>3. QED
  BY <1>1, <1>2

LEMMA ModalStep ==
  ASSUME ModalInv, ListingsInv, SavesInv,
         \A w \in manifests : w.label \in Labels /\ w.versions \in Seq(Nat), [Next]_vars
  PROVE  ModalInv'
<1>1. MarketTyped(market) /\ MarketTyped(market') /\ Grows(market, market')
  BY MarketGrows DEF ListingsInv, ListingOK
<1>2. SameModal(publish, publish)
  BY DEF SameModal, ModalInv
<1>3. CASE Publish
  BY <1>3, PublishClicked
<1>4. CASE SaveDone
  BY <1>4, UploadEndsModal
<1>5. CASE ListingFailing \/ Naming \/ NameFailed
  BY <1>1, <1>5, ListingEndsModal
<1>6. CASE Save
  <2>1. PICK r : r = SaveRecord("button", NoLabel, editor.graph, editor.code)
    OBVIOUS
  <2>2. r.by = "button"
    BY <2>1 DEF SaveRecord
  <2>3. saves' = saves \cup {r} /\ publish' = publish /\ listings' = listings
    BY <1>6, <2>1 DEF Save
  <2>4. \A s \in saves' : Publishes(s) => s \in saves
    BY <2>2, <2>3 DEF Publishes
  <2>5. QED
    BY <1>1, <1>2, <2>3, <2>4, ModalStays
<1>7. CASE SaveSigned
  <2>1. PICK s \in saves :
          /\ saves' = (saves \ {s}) \cup {[s EXCEPT !.stage = "sent"]}
          /\ publish' = publish /\ listings' = listings /\ market' = market
    BY <1>7 DEF SaveSigned
  <2>2. Publishes([s EXCEPT !.stage = "sent"]) => Publishes(s)
    BY SaveMarked DEF SavesInv, SaveOK, Publishes
  <2>3. /\ \A q \in saves' : Publishes(q) => publish'.publishing /\ ~publish'.listing
        /\ \A p, q \in saves' : Publishes(p) /\ Publishes(q) => p = q
    BY <2>1, <2>2 DEF ModalInv
  <2>4. QED
    BY <2>1, <2>3 DEF ModalInv, Publishes
<1>8. CASE SaveFailing
  <2>1. PICK s \in saves :
          /\ saves' = saves \ {s} /\ listings' = listings
          /\ publish' = IF s.by = "publish" /\ s.live
                        THEN [publish EXCEPT !.publishing = FALSE, !.error = TRUE] ELSE publish
    BY <1>8 DEF SaveFailing, SaveFailed, SaveRefused, SaveFails
  <2>2. CASE Publishes(s)
    <3>1. /\ DOMAIN publish' = DOMAIN publish /\ publish'.listing = publish.listing
          /\ publish'.root = publish.root /\ publish'.done = publish.done
          /\ publish'.listError = publish.listError
      BY <2>1, <2>2 DEF Publishes, ModalInv, NewPublish
    <3>2. \A r \in saves' : ~Publishes(r)
      BY <2>1, <2>2 DEF ModalInv
    <3>3. ~publish'.listing /\ publish'.done /\ ~publish'.listError
            => publish'.root \in market'.onChain \cap (market'.listed \cup market'.unkept)
      BY <1>1, <3>1 DEF ModalInv, Grows
    <3>4. QED
      BY <2>1, <3>1, <3>2, <3>3 DEF ModalInv, Publishes
  <2>3. CASE ~Publishes(s)
    <3>1. publish' = publish
      BY <2>1, <2>3 DEF Publishes
    <3>2. QED
      BY <1>1, <1>2, <2>1, <3>1, ModalStays
  <2>4. QED
    BY <2>2, <2>3
<1>9. CASE ListingMoving
  <2>1. PICK h \in listings, g \in ListingRec :
          /\ listings' = (listings \ {h}) \cup {g} /\ g.root = h.root /\ g.live = h.live
          /\ saves' = saves /\ publish' = publish
    BY <1>9, MovingEffects DEF ListingsInv, ListingOK
  <2>2. /\ \A k \in listings' : k.live => publish'.listing /\ publish'.root = k.root
        /\ \A k, l \in listings' : k.live /\ l.live => k = l
    BY <2>1 DEF ModalInv
  <2>3. ~publish'.listing /\ publish'.done /\ ~publish'.listError
          => publish'.root \in market'.onChain \cap (market'.listed \cup market'.unkept)
    BY <1>1, <2>1 DEF ModalInv, Grows
  <2>4. QED
    BY <2>1, <2>2, <2>3 DEF ModalInv, Publishes
<1>10. CASE OpenPublish \/ ClosePublish
  <2>1. publish' \in {[publish EXCEPT !.open = TRUE, !.done = FALSE, !.error = FALSE],
                      [publish EXCEPT !.open = FALSE],
                      [publish EXCEPT !.open = FALSE, !.done = FALSE, !.listError = FALSE]}
    BY <1>10 DEF OpenPublish, ClosePublish
  <2>2. SameModal(publish', publish)
    BY <2>1 DEF SameModal, ModalInv, NewPublish
  <2>3. saves' = saves /\ listings' = listings
    BY <1>10 DEF OpenPublish, ClosePublish, storage
  <2>4. QED
    BY <1>1, <2>2, <2>3, ModalStays
<1>11. CASE PagesLeft
  <2>1. publish' = NewPublish
    BY <1>11 DEF PagesLeft, Reload, Navigate
  <2>2. \A s \in saves' : ~Publishes(s)
    <3>1. CASE Reload
      BY <3>1 DEF Reload
    <3>2. CASE Navigate
      <4>1. saves' = Orphaned(saves)
        BY <3>2 DEF Navigate
      <4>2. \A s \in saves : ~Publishes([s EXCEPT !.live = FALSE])
        BY SaveMarked DEF SavesInv, SaveOK, Publishes
      <4>3. QED
        BY <4>1, <4>2 DEF Orphaned
    <3>3. QED
      BY <1>11, <3>1, <3>2 DEF PagesLeft
  <2>3. \A h \in listings' : ~h.live
    <3>1. CASE Reload
      BY <3>1 DEF Reload
    <3>2. CASE Navigate
      <4>1. listings' = Orphaned(listings)
        BY <3>2 DEF Navigate
      <4>2. \A h \in listings : ~[h EXCEPT !.live = FALSE].live
        BY ListingMarked DEF ListingsInv, ListingOK
      <4>3. QED
        BY <4>1, <4>2 DEF Orphaned
    <3>3. QED
      BY <1>11, <3>1, <3>2 DEF PagesLeft
  <2>4. QED
    BY <2>1, <2>2, <2>3 DEF ModalInv, NewPublish, Publishes
<1>12. CASE saves' = saves /\ listings' = listings /\ publish' = publish
  BY <1>1, <1>2, <1>12, ModalStays
<1>13. QED
  BY <1>3, <1>4, <1>5, <1>6, <1>7, <1>8, <1>9, <1>10, <1>11, <1>12, Frame

(* What the invariant says of the modal is ListedIsListed.                 *)
LEMMA ModalTellsTruth ==
  ASSUME ModalInv
  PROVE  ListedIsListed
<1>1. ASSUME PublishModal = "listed"
      PROVE  ~publish.listing /\ publish.done /\ ~publish.listError
  BY <1>1 DEF PublishModal
<1>2. QED
  BY <1>1 DEF ModalInv, ListedIsListed

-----------------------------------------------------------------------------
(* The saved gyms.                                                         *)

(* The list that a save leaves: the new entry, and of the others all but   *)
(* the one it replaces and the one that is pushed off the end.             *)
LEMMA SavedListEntries ==
  ASSUME EntriesInv, NEW s, SaveOK(s)
  PROVE  \E t \in Seq(Entry), e \in Entry :
           /\ t = SavedList(s) /\ e = SavedEntry(s) /\ e.root = Len(bundles) + 1
           /\ Len(t) <= MaxSaved /\ DistinctRoots(t)
           /\ \A k \in DOMAIN t : t[k] = e \/ \E i \in DOMAIN gyms.saved : gyms.saved[i] = t[k]
           /\ \E k \in DOMAIN t : t[k] = e
           /\ \A i \in DOMAIN gyms.saved :
                \/ \E k \in DOMAIN t : t[k] = gyms.saved[i]
                \/ gyms.saved[i].root = s.prev
                \/ Len(gyms.saved) = MaxSaved /\ i = Len(gyms.saved)
<1>1. PICK saved \in Seq(Entry) :
        saved = gyms.saved /\ DistinctRoots(saved) /\ Len(saved) <= MaxSaved
  BY DEF EntriesInv
<1>2. PICK root \in Nat : root = Len(bundles) + 1 /\ root \notin Roots
  BY DEF EntriesInv, Roots
<1>3. Roots \subseteq Nat
  BY DEF EntriesInv, Roots
<1>4. PICK e \in Entry : e = SavedEntry(s) /\ e.root = root
  <2>1. Append(s.versions, root) \in Seq(Nat) /\ s.ensLabel \in Labels \cup {NoLabel}
    <3>1. s.versions \in Seq(Nat)
      BY <1>3, SeqMonotonic DEF SaveOK
    <3>2. s.ensLabel \in Labels \cup {NoLabel}
      BY DEF SaveOK, SaveRec
    <3>3. QED
      BY <3>1, <3>2, AppendProperties
  <2> DEFINE e == [root |-> root, versions |-> Append(s.versions, root), ensLabel |-> s.ensLabel]
  <2>2. e \in Entry /\ e.root = root
    BY <2>1 DEF Entry
  <2>3. e = SavedEntry(s)
    BY <1>2 DEF SavedEntry
  <2> HIDE DEF e
  <2>4. QED
    BY <2>2, <2>3
<1>5. \A i \in DOMAIN saved : saved[i].root # e.root
  BY <1>1, <1>2, <1>4 DEF EntriesInv
<1>6. PICK added \in Seq(Entry) :
        /\ added = AddSavedGym(saved, e) /\ Len(added) <= MaxSaved /\ DistinctRoots(added)
        /\ \A k \in DOMAIN added : added[k] = e \/ \E i \in DOMAIN saved : saved[i] = added[k]
        /\ \E k \in DOMAIN added : added[k] = e
        /\ \A i \in DOMAIN saved : \/ \E k \in DOMAIN added : added[k] = saved[i]
                                   \/ Len(saved) = MaxSaved /\ i = Len(saved)
  BY <1>1, <1>5, AddedEntries
<1>7. SavedList(s) = IF s.prev = NoRoot THEN added ELSE Without(added, s.prev)
  BY <1>1, <1>4, <1>6, Zenon DEF SavedList
<1>8. CASE s.prev = NoRoot
  BY <1>1, <1>2, <1>4, <1>6, <1>7, <1>8
<1>9. CASE s.prev # NoRoot
  <2>1. PICK t \in Seq(Entry) :
          /\ t = Without(added, s.prev) /\ Len(t) <= Len(added) /\ DistinctRoots(t)
          /\ \A k \in DOMAIN t : \E i \in DOMAIN added : added[i] = t[k] /\ added[i].root # s.prev
          /\ \A i \in DOMAIN added : added[i].root # s.prev => \E k \in DOMAIN t : t[k] = added[i]
    <3>1. PICK prev : prev = s.prev
      OBVIOUS
    <3>2. DistinctRoots(added)
      BY <1>6
    <3>3. QED
      BY <3>1, <3>2, WithoutEntries
  <2>2. t = SavedList(s)
    BY <1>7, <1>9, <2>1
  <2>3. e.root # s.prev
    BY <1>2, <1>4, <1>9 DEF SaveOK
  <2>4. Len(t) <= MaxSaved
    <3>1. Len(t) \in Nat /\ Len(added) \in Nat /\ MaxSaved \in Nat
      BY <1>6, <2>1, BuilderAssumption
    <3>2. QED
      BY <1>6, <2>1, <3>1
  <2>5. ASSUME NEW k \in DOMAIN t
        PROVE  t[k] = e \/ \E i \in DOMAIN saved : saved[i] = t[k]
    BY <1>6, <2>1
  <2>6. \E k \in DOMAIN t : t[k] = e
    BY <1>6, <2>1, <2>3
  <2>7. ASSUME NEW i \in DOMAIN saved, saved[i].root # s.prev,
               ~(Len(saved) = MaxSaved /\ i = Len(saved))
        PROVE  \E k \in DOMAIN t : t[k] = saved[i]
    <3>1. PICK k \in DOMAIN added : added[k] = saved[i]
      BY <1>6, <2>7
    <3>2. QED
      BY <2>1, <2>7, <3>1
  <2>8. QED
    BY <1>1, <1>2, <1>4, <2>1, <2>2, <2>4, <2>5, <2>6, <2>7
<1>10. QED
  BY <1>8, <1>9

(* What a finished save does.                                              *)
LEMMA SaveDoneEffects ==
  ASSUME EntriesInv, SaveDone
  PROVE  \E s \in saves :
           /\ bundles' = Append(bundles, s.bundle) /\ saves' = saves \ {s}
           /\ DOMAIN gyms' = {"saved", "current"} /\ gyms'.saved = SavedList(s)
           /\ gyms'.current \in {Len(bundles) + 1, NoRoot}
           /\ page' \in {page, [page EXCEPT !.saving = FALSE,
                                           !.history = Append(s.versions, Len(bundles) + 1)]}
           /\ manifests' = IF s.ensLabel = NoLabel THEN manifests
                           ELSE manifests \cup {[label |-> s.ensLabel,
                                                 versions |-> Append(s.versions, Len(bundles) + 1)]}
           /\ listings' = IF s.by = "button" THEN listings
                          ELSE listings \cup {[root |-> Len(bundles) + 1, label |-> s.label,
                                               stage |-> "store", live |-> s.live]}
           /\ kept' = (kept \ Dropped(s)) \cup {Len(bundles) + 1}
           /\ opens' = opens /\ market' = market
<1>1. PICK s \in saves :
        LET root     == Len(bundles) + 1
            versions == Append(s.versions, root)
            added    == AddSavedGym(gyms.saved, [root |-> root, versions |-> versions,
                                                 ensLabel |-> s.ensLabel])
            current  == [saved |-> added, current |-> root]
        IN /\ bundles' = Append(bundles, s.bundle)
           /\ gyms' = IF s.prev = NoRoot THEN current ELSE RemoveSavedGym(current, s.prev)
           /\ page' = IF s.live THEN [page EXCEPT !.saving = FALSE, !.history = versions]
                      ELSE page
           /\ manifests' = IF s.ensLabel = NoLabel THEN manifests
                           ELSE manifests \cup {[label |-> s.ensLabel, versions |-> versions]}
           /\ saves' = saves \ {s}
           /\ listings' = IF s.by = "button" THEN listings
                          ELSE listings \cup {[root |-> root, label |-> s.label,
                                               stage |-> "store", live |-> s.live]}
           /\ kept' = (kept \ Dropped(s)) \cup {root}
           /\ UNCHANGED <<editor, opens, market, chat, calls, inputs>>
  BY Zenon DEF SaveDone
<1> DEFINE added == AddSavedGym(gyms.saved, SavedEntry(s))
           current == [saved |-> added, current |-> Len(bundles) + 1]
<1>2. gyms' = IF s.prev = NoRoot THEN current ELSE RemoveSavedGym(current, s.prev)
  BY <1>1, Zenon DEF SavedEntry
<1>3. SavedList(s) = IF s.prev = NoRoot THEN added ELSE Without(added, s.prev)
  BY Zenon DEF SavedList
<1>4. /\ DOMAIN gyms' = {"saved", "current"} /\ gyms'.saved = SavedList(s)
      /\ gyms'.current \in {Len(bundles) + 1, NoRoot}
  <2> HIDE DEF added
  <2>1. CASE s.prev = NoRoot
    BY <1>2, <1>3, <2>1
  <2>2. CASE s.prev # NoRoot
    BY <1>2, <1>3, <2>2 DEF RemoveSavedGym
  <2>3. QED
    BY <2>1, <2>2
<1>5. QED
  BY <1>1, <1>4, Zenon

\* The steps that change neither storage nor list.
SameList == bundles' = bundles /\ kept' = kept /\ gyms'.saved = gyms.saved

LEMMA ListChanges ==
  ASSUME [Next]_vars, EntriesInv, ~SaveDone, ~ForgetGym, ~Naming
  PROVE  SameList /\ (gyms' = gyms \/ OpenDone)
<1>1. CASE OpenDone
  <2>1. /\ bundles' = bundles /\ kept' = kept
        /\ \E o \in opens : gyms' = [gyms EXCEPT !.current = o.root]
    BY <1>1 DEF OpenDone
  <2>2. QED
    BY <1>1, <2>1 DEF SameList, EntriesInv
<1>2. CASE ~OpenDone
  BY <1>2, Frame DEF SameList
<1>3. QED
  BY <1>1, <1>2

(* What forgetting a gym does.                                             *)
LEMMA ForgetEffects ==
  ASSUME EntriesInv, ForgetGym
  PROVE  \E t \in Seq(Entry), i \in DOMAIN gyms.saved :
           /\ gyms'.saved = t /\ DOMAIN gyms' = {"saved", "current"}
           /\ gyms'.current \in {gyms.current, NoRoot}
           /\ Len(t) <= MaxSaved /\ DistinctRoots(t)
           /\ \A k \in DOMAIN t : \E j \in DOMAIN gyms.saved : gyms.saved[j] = t[k]
           /\ \A j \in DOMAIN gyms.saved :
                j = i \/ \E k \in DOMAIN t : t[k] = gyms.saved[j]
           /\ kept' = kept \ Range(gyms.saved[i].versions)
           /\ bundles' = bundles
<1>1. PICK i \in DOMAIN gyms.saved :
        /\ gyms' = RemoveSavedGym(gyms, gyms.saved[i].root)
        /\ kept' = kept \ Range(gyms.saved[i].versions)
  BY DEF ForgetGym
<1>2. PICK saved \in Seq(Entry), root \in {gyms.saved[i].root} :
        /\ saved = gyms.saved /\ root = gyms.saved[i].root
        /\ DistinctRoots(saved) /\ Len(saved) <= MaxSaved
  BY DEF EntriesInv
<1>3. PICK t \in Seq(Entry) :
        /\ t = Without(saved, root) /\ Len(t) <= Len(saved) /\ DistinctRoots(t)
        /\ \A k \in DOMAIN t : \E j \in DOMAIN saved : saved[j] = t[k] /\ saved[j].root # root
        /\ \A j \in DOMAIN saved : saved[j].root # root => \E k \in DOMAIN t : t[k] = saved[j]
  <2>1. DistinctRoots(saved)
    BY <1>2
  <2>2. QED
    BY <2>1, WithoutEntries
<1>4. /\ gyms'.saved = t /\ DOMAIN gyms' = {"saved", "current"}
      /\ gyms'.current \in {gyms.current, NoRoot}
  BY <1>1, <1>2, <1>3 DEF RemoveSavedGym
<1>5. Len(t) <= MaxSaved
  <2>1. Len(t) \in Nat /\ Len(saved) \in Nat /\ MaxSaved \in Nat
    BY <1>2, <1>3, BuilderAssumption
  <2>2. QED
    BY <1>2, <1>3, <2>1
<1>6. ASSUME NEW j \in DOMAIN saved, j # i
      PROVE  \E k \in DOMAIN t : t[k] = saved[j]
  <2>1. saved[j].root # root
    BY <1>2, <1>6 DEF DistinctRoots
  <2>2. QED
    BY <1>3, <2>1
<1>7. bundles' = bundles
  BY DEF ForgetGym, storage
<1>8. QED
  BY <1>1, <1>2, <1>3, <1>4, <1>5, <1>6, <1>7

(* What the answer about a name does.                                      *)
LEMMA NameEffects ==
  ASSUME EntriesInv, ListingsInv, Naming
  PROVE  \E t \in Seq(Entry), h \in listings :
           /\ gyms'.saved = t /\ DOMAIN gyms' = {"saved", "current"}
           /\ gyms'.current = gyms.current
           /\ DOMAIN t = DOMAIN gyms.saved /\ Len(t) = Len(gyms.saved)
           /\ \A i \in DOMAIN gyms.saved :
                /\ t[i].root = gyms.saved[i].root /\ t[i].versions = gyms.saved[i].versions
                /\ t[i].ensLabel = IF gyms.saved[i].root = h.root THEN h.label
                                   ELSE gyms.saved[i].ensLabel
           /\ bundles' = bundles /\ kept' = kept
           /\ h.root \in market'.named[h.label] \cup market'.refused[h.label]
<1>1. PICK h \in listings :
        /\ NameAnswered(h)
        /\ market' \in {[market EXCEPT !.named[h.label] = @ \cup {h.root}],
                        [market EXCEPT !.refused[h.label] = @ \cup {h.root}]}
        /\ kept' = kept
  BY DEF Naming, NameRegistered, NameRefused, NameAnswered, ListingEnds
<1>2. /\ gyms' = [gyms EXCEPT !.saved = UpdateGymEntry(@, h.root, h.label)]
      /\ bundles' = bundles
  BY <1>1 DEF NameAnswered, ListingEnds, storage
<1>3. PICK saved \in Seq(Entry), root \in Nat, label \in Labels :
        saved = gyms.saved /\ root = h.root /\ label = h.label
  BY DEF EntriesInv, ListingsInv, ListingOK, ListingRec
<1>4. PICK t \in Seq(Entry) :
        /\ t = UpdateGymEntry(saved, root, label) /\ Len(t) = Len(saved)
        /\ \A i \in DOMAIN saved :
             /\ t[i].root = saved[i].root /\ t[i].versions = saved[i].versions
             /\ t[i].ensLabel = IF saved[i].root = root THEN label ELSE saved[i].ensLabel
  BY LabelledEntries
<1>5. DOMAIN t = DOMAIN saved
  BY <1>3, <1>4
<1>6. /\ gyms'.saved = t /\ DOMAIN gyms' = {"saved", "current"}
      /\ gyms'.current = gyms.current
  BY <1>2, <1>3, <1>4 DEF EntriesInv
<1>7. root \in market'.named[label] \cup market'.refused[label]
  <2>1. market' \in {[market EXCEPT !.named[label] = @ \cup {root}],
                     [market EXCEPT !.refused[label] = @ \cup {root}]}
    BY <1>1, <1>3
  <2>2. QED
    BY <2>1 DEF ListingsInv, MarketTyped
<1>8. QED
  BY <1>1, <1>2, <1>3, <1>4, <1>5, <1>6, <1>7

(* Storage and list stay as they should be.                                *)
LEMMA EntriesStep ==
  ASSUME EntriesInv, SavesInv, WaitingInv, ListingsInv, [Next]_vars
  PROVE  EntriesInv'
<1>1. Roots \subseteq Roots' /\ Roots \subseteq Nat
  BY RootsStay DEF EntriesInv, Roots
<1>2. CASE ForgetGym
  <2>1. PICK t \in Seq(Entry) :
          /\ gyms'.saved = t /\ DOMAIN gyms' = {"saved", "current"}
          /\ gyms'.current \in {gyms.current, NoRoot}
          /\ Len(t) <= MaxSaved /\ DistinctRoots(t)
          /\ \A k \in DOMAIN t : \E j \in DOMAIN gyms.saved : gyms.saved[j] = t[k]
          /\ kept' \subseteq kept /\ bundles' = bundles
    BY <1>2, ForgetEffects
  <2>2. Roots' = Roots
    BY <2>1 DEF Roots
  <2>3. \A k \in DOMAIN t : t[k].root \in Roots /\ t[k].versions \in Seq(Roots)
    BY <2>1 DEF EntriesInv
  <2>4. QED
    BY <2>1, <2>2, <2>3 DEF EntriesInv
<1>3. CASE Naming
  <2>1. PICK t \in Seq(Entry) :
          /\ gyms'.saved = t /\ DOMAIN gyms' = {"saved", "current"}
          /\ gyms'.current = gyms.current
          /\ DOMAIN t = DOMAIN gyms.saved /\ Len(t) = Len(gyms.saved)
          /\ \A i \in DOMAIN gyms.saved : /\ t[i].root = gyms.saved[i].root
                                          /\ t[i].versions = gyms.saved[i].versions
          /\ bundles' = bundles /\ kept' = kept
    BY <1>3, NameEffects
  <2>2. Roots' = Roots
    BY <2>1 DEF Roots
  <2>3. DistinctRoots(t)
    BY <2>1 DEF EntriesInv, DistinctRoots
  <2>4. \A k \in DOMAIN t : t[k].root \in Roots /\ t[k].versions \in Seq(Roots)
    BY <2>1 DEF EntriesInv
  <2>5. QED
    BY <2>1, <2>2, <2>3, <2>4 DEF EntriesInv
<1>4. CASE SaveDone
  <2>1. PICK s \in saves :
          /\ bundles' = Append(bundles, s.bundle)
          /\ DOMAIN gyms' = {"saved", "current"} /\ gyms'.saved = SavedList(s)
          /\ gyms'.current \in {Len(bundles) + 1, NoRoot}
          /\ kept' = (kept \ Dropped(s)) \cup {Len(bundles) + 1}
    BY <1>4, SaveDoneEffects
  <2>2. SaveOK(s)
    BY DEF SavesInv
  <2>3. PICK t \in Seq(Entry), e \in Entry :
          /\ t = SavedList(s) /\ e = SavedEntry(s)
          /\ Len(t) <= MaxSaved /\ DistinctRoots(t)
          /\ \A k \in DOMAIN t : t[k] = e \/ \E i \in DOMAIN gyms.saved : gyms.saved[i] = t[k]
    BY <2>2, SavedListEntries
  <2>4. PICK root \in Nat : root = Len(bundles) + 1
    BY DEF EntriesInv
  <2>5. bundles' \in Seq(Bundle) /\ root \in Roots'
    BY <2>1, <2>2, <2>4 DEF EntriesInv, SaveOK, SaveRec, Roots
  <2>6. PICK vs \in Seq(Roots') : vs = Append(s.versions, root)
    <3>1. s.versions \in Seq(Roots')
      BY <1>1, <2>2, SeqMonotonic DEF SaveOK
    <3>2. QED
      BY <2>5, <3>1, AppendProperties
  <2>7. e.root = root /\ e.versions = vs
    BY <2>3, <2>4, <2>6 DEF SavedEntry
  <2>8. ASSUME NEW k \in DOMAIN t
        PROVE  t[k].root \in Roots' /\ t[k].versions \in Seq(Roots')
    <3>1. CASE t[k] = e
      BY <2>5, <2>6, <2>7, <3>1
    <3>2. CASE t[k] # e
      <4>1. PICK i \in DOMAIN gyms.saved : gyms.saved[i] = t[k]
        BY <2>3, <3>2
      <4>2. t[k].root \in Roots /\ t[k].versions \in Seq(Roots)
        BY <4>1 DEF EntriesInv
      <4>3. QED
        BY <1>1, <4>2, SeqMonotonic
    <3>3. QED
      BY <3>1, <3>2
  <2>9. kept' \subseteq Roots'
    BY <1>1, <2>1, <2>4, <2>5 DEF EntriesInv
  <2>10. QED
    BY <2>1, <2>3, <2>4, <2>5, <2>8, <2>9 DEF EntriesInv
<1>5. CASE ~SaveDone /\ ~ForgetGym /\ ~Naming
  <2>1. SameList /\ (gyms' = gyms \/ OpenDone)
    BY <1>5, ListChanges
  <2>2. Roots' = Roots
    BY <2>1 DEF SameList, Roots
  <2>3. DOMAIN gyms' = {"saved", "current"} /\ gyms'.current \in Roots \cup {NoRoot}
    <3>1. CASE gyms' = gyms
      BY <3>1 DEF EntriesInv
    <3>2. CASE OpenDone
      <4>1. PICK o \in opens : gyms' = [gyms EXCEPT !.current = o.root]
        BY <3>2 DEF OpenDone
      <4>2. QED
        BY <4>1 DEF EntriesInv, WaitingInv
    <3>3. QED
      BY <2>1, <3>1, <3>2
  <2>4. QED
    BY <2>1, <2>2, <2>3 DEF SameList, EntriesInv
<1>6. QED
  BY <1>2, <1>3, <1>4, <1>5

(* The versions the page reads off the list.                               *)
LEMMA VersionsKnown ==
  ASSUME EntriesInv, NEW root
  PROVE  /\ VersionsOf(root) \in Seq(Roots)
         /\ \A i \in EntryOf(root) : /\ i \in DOMAIN gyms.saved /\ gyms.saved[i].root = root
                                     /\ VersionsOf(root) = gyms.saved[i].versions
         /\ EntryOf(root) = {} => VersionsOf(root) = << >>
<1>1. CASE EntryOf(root) = {}
  <2>1. << >> \in Seq(Roots)
    OBVIOUS
  <2>2. QED
    BY <1>1, <2>1 DEF VersionsOf
<1>2. CASE EntryOf(root) # {}
  <2>1. PICK i : i = CHOOSE j \in EntryOf(root) : TRUE
    OBVIOUS
  <2>2. i \in EntryOf(root)
    BY <1>2, <2>1
  <2>3. VersionsOf(root) = gyms.saved[i].versions
    BY <1>2, <2>1 DEF VersionsOf
  <2>4. \A j \in EntryOf(root) : j \in DOMAIN gyms.saved /\ gyms.saved[j].root = root
    BY DEF EntryOf
  <2>5. \A j \in EntryOf(root) : j = i
    BY <2>2, <2>4 DEF EntriesInv, DistinctRoots
  <2>6. gyms.saved[i].versions \in Seq(Roots)
    BY <2>2, <2>4 DEF EntriesInv
  <2>7. QED
    BY <1>2, <2>3, <2>4, <2>5, <2>6
<1>3. QED
  BY <1>1, <1>2

(* The label the page reads off the list goes with the versions it reads.  *)
LEMMA LabelKnown ==
  ASSUME EntriesInv, NEW root
  PROVE  \/ LabelOf(root) = NoLabel
         \/ \E i \in DOMAIN gyms.saved : /\ LabelOf(root) = gyms.saved[i].ensLabel
                                         /\ VersionsOf(root) = gyms.saved[i].versions
<1>1. CASE EntryOf(root) = {}
  BY <1>1 DEF LabelOf
<1>2. CASE EntryOf(root) # {}
  <2>1. PICK i : i = CHOOSE j \in EntryOf(root) : TRUE
    OBVIOUS
  <2>2. i \in EntryOf(root)
    BY <1>2, <2>1
  <2>3. VersionsOf(root) = gyms.saved[i].versions /\ LabelOf(root) = gyms.saved[i].ensLabel
    BY <1>2, <2>1 DEF VersionsOf, LabelOf
  <2>4. QED
    BY <2>2, <2>3 DEF EntryOf
<1>3. QED
  BY <1>1, <1>2

(* A save that has just begun.                                             *)
LEMMA SaveBegins ==
  ASSUME EntriesInv, inputs \in Nat, NEW by \in {"button", "publish"},
         NEW label \in Labels \cup {NoLabel}, by = "publish" => label \in Labels,
         NEW graph \in Graphs, NEW code \in Code
  PROVE  SaveOK(SaveRecord(by, label, graph, code))
<1>1. PICK vs \in Seq(Roots) : vs = VersionsOf(gyms.current)
  BY VersionsKnown
<1>2. Roots \subseteq Nat
  BY DEF EntriesInv, Roots
<1>3. vs \in Seq(Nat)
  BY <1>2, SeqMonotonic
<1>4. PICK ens \in Labels \cup {NoLabel} : ens = LabelOf(gyms.current)
  <2>1. \A i \in DOMAIN gyms.saved : gyms.saved[i].ensLabel \in Labels \cup {NoLabel}
    <3>1. \A i \in DOMAIN gyms.saved : gyms.saved[i] \in Entry
      BY DEF EntriesInv
    <3>2. QED
      BY <3>1 DEF Entry
  <2>2. QED
    BY <2>1, LabelKnown
<1>5. PICK b \in Bundle : b = [graph |-> graph, code |-> code]
  BY DEF Bundle
<1>6. PICK prev \in Roots \cup {NoRoot} : prev = gyms.current
  BY DEF EntriesInv
<1> DEFINE s == [by |-> by, label |-> label, id |-> inputs, stage |-> "prompt", live |-> TRUE,
                 bundle |-> b, prev |-> prev, versions |-> vs, ensLabel |-> ens]
<1>7. s \in SaveRec
  BY <1>2, <1>3 DEF SaveRec
<1>8. s.by = by /\ s.label = label /\ s.versions = vs /\ s.prev = prev
  OBVIOUS
<1>9. SaveRecord(by, label, graph, code) = s
  BY <1>1, <1>4, <1>5, <1>6 DEF SaveRecord
<1>10. ASSUME NEW i \in DOMAIN gyms.saved, gyms.saved[i].root = prev
       PROVE  gyms.saved[i].versions = vs
  <2>1. i \in EntryOf(prev)
    BY <1>10 DEF EntryOf
  <2>2. VersionsOf(prev) = gyms.saved[i].versions
    BY <2>1, VersionsKnown
  <2>3. QED
    BY <1>1, <1>6, <2>2
<1> HIDE DEF s
<1>11. SaveOK(s)
  BY <1>7, <1>8, <1>10 DEF SaveOK
<1>12. QED
  BY <1>9, <1>11

(* Only the two buttons begin a save.                                      *)
LEMMA SavesBegun ==
  ASSUME EditorTyped, Save \/ Publish
  PROVE  \E by \in {"button", "publish"}, label \in Labels \cup {NoLabel},
            graph \in Graphs, code \in Code :
           /\ by = "publish" => label \in Labels
           /\ saves' \subseteq saves \cup {SaveRecord(by, label, graph, code)}
           /\ bundles' = bundles /\ gyms' = gyms
<1>1. editor.graph \in Graphs /\ editor.code \in Code
  BY DEF EditorTyped, EditorType
<1>2. GeneratePython(editor.graph) \in Code
  BY <1>1, CodeTyped
<1>3. bundles' = bundles /\ gyms' = gyms
  BY DEF Save, Publish
<1>4. CASE Save
  <2>1. saves' = saves \cup {SaveRecord("button", NoLabel, editor.graph, editor.code)}
    BY <1>4 DEF Save
  <2>2. QED
    BY <1>1, <1>3, <2>1
<1>5. CASE Publish
  <2>1. \/ saves' = saves
        \/ \E l \in Labels :
             saves' = saves \cup {SaveRecord("publish", l, editor.graph,
                                             GeneratePython(editor.graph))}
    BY <1>5 DEF Publish
  <2>2. CASE saves' = saves
    BY <1>1, <1>3, <2>2
  <2>3. CASE saves' # saves
    <3>1. PICK l \in Labels :
            saves' = saves \cup {SaveRecord("publish", l, editor.graph,
                                            GeneratePython(editor.graph))}
      BY <2>1, <2>3
    <3>2. QED
      BY <1>1, <1>2, <1>3, <3>1
  <2>4. QED
    BY <2>2, <2>3
<1>6. QED
  BY <1>4, <1>5

\* Two saves that differ at most in how far they have come and in their page.
SameSave(r, s) ==
  /\ r.by = s.by /\ r.label = s.label /\ r.prev = s.prev
  /\ r.versions = s.versions /\ r.ensLabel = s.ensLabel

(* All other saves after a step were there before it.                      *)
LEMMA SavesFollow ==
  ASSUME SavesInv, [Next]_vars, ~Save, ~Publish
  PROVE  \A r \in saves' : r \in SaveRec /\ \E s \in saves : SameSave(r, s)
<1>1. \A s \in saves : s \in SaveRec /\ SameSave(s, s)
  BY DEF SavesInv, SaveOK, SameSave
<1>2. ASSUME NEW s \in saves
      PROVE  /\ [s EXCEPT !.stage = "sent"] \in SaveRec /\ [s EXCEPT !.live = FALSE] \in SaveRec
             /\ SameSave([s EXCEPT !.stage = "sent"], s) /\ SameSave([s EXCEPT !.live = FALSE], s)
  <2>1. s \in SaveRec
    BY <1>1
  <2>2. QED
    BY <2>1, SaveMarked DEF SameSave
<1>3. CASE SaveSigned
  <2>1. PICK s \in saves : saves' = (saves \ {s}) \cup {[s EXCEPT !.stage = "sent"]}
    BY <1>3 DEF SaveSigned
  <2>2. QED
    BY <1>1, <1>2, <2>1
<1>4. CASE Navigate
  <2>1. saves' = {[s EXCEPT !.live = FALSE] : s \in saves}
    BY <1>4 DEF Navigate, Orphaned
  <2>2. QED
    BY <1>2, <2>1
<1>5. CASE SaveDone \/ SaveFailing \/ Reload
  <2>1. saves' \subseteq saves
    BY <1>5 DEF SaveDone, SaveFailing, SaveFailed, SaveRefused, SaveFails, Reload
  <2>2. QED
    BY <1>1, <2>1
<1>6. CASE saves' = saves
  BY <1>1, <1>6
<1>7. QED
  BY <1>3, <1>4, <1>5, <1>6, Frame DEF PagesLeft

(* A save under way does not mind what others add or take away.            *)
LEMMA SaveStays ==
  ASSUME NEW s, SaveOK(s), Roots \subseteq Roots',
         \A k \in DOMAIN gyms'.saved :
           \/ gyms'.saved[k].root \notin Roots \cup {NoRoot}
           \/ \E i \in DOMAIN gyms.saved : /\ gyms'.saved[k].root = gyms.saved[i].root
                                           /\ gyms'.saved[k].versions = gyms.saved[i].versions
  PROVE  SaveOK(s)'
<1>1. s.versions \in Seq(Roots')
  BY SeqMonotonic DEF SaveOK
<1>2. ASSUME NEW k \in DOMAIN gyms'.saved, gyms'.saved[k].root = s.prev
      PROVE  gyms'.saved[k].versions = s.versions
  <2>1. s.prev \in Roots \cup {NoRoot}
    BY DEF SaveOK
  <2>2. PICK i \in DOMAIN gyms.saved : /\ gyms'.saved[k].root = gyms.saved[i].root
                                       /\ gyms'.saved[k].versions = gyms.saved[i].versions
    BY <1>2, <2>1
  <2>3. QED
    BY <1>2, <2>2 DEF SaveOK
<1>3. QED
  BY <1>1, <1>2 DEF SaveOK

\* Every entry of the new list has the root and the versions of an old one, or a new root.
ListGrows ==
  \A k \in DOMAIN gyms'.saved :
    \/ gyms'.saved[k].root \notin Roots \cup {NoRoot}
    \/ \E i \in DOMAIN gyms.saved : /\ gyms'.saved[k].root = gyms.saved[i].root
                                    /\ gyms'.saved[k].versions = gyms.saved[i].versions

LEMMA ListGrowsAlways ==
  ASSUME EntriesInv, SavesInv, ListingsInv, [Next]_vars
  PROVE  ListGrows
<1>1. CASE ForgetGym
  <2>1. PICK t \in Seq(Entry) :
          /\ gyms'.saved = t
          /\ \A k \in DOMAIN t : \E j \in DOMAIN gyms.saved : gyms.saved[j] = t[k]
    BY <1>1, ForgetEffects
  <2>2. QED
    BY <2>1 DEF ListGrows
<1>2. CASE Naming
  <2>1. PICK t \in Seq(Entry) :
          /\ gyms'.saved = t /\ DOMAIN t = DOMAIN gyms.saved
          /\ \A i \in DOMAIN gyms.saved : /\ t[i].root = gyms.saved[i].root
                                          /\ t[i].versions = gyms.saved[i].versions
    BY <1>2, NameEffects
  <2>2. QED
    BY <2>1 DEF ListGrows
<1>3. CASE SaveDone
  <2>1. PICK s \in saves : gyms'.saved = SavedList(s) /\ SaveOK(s)
    BY <1>3, SaveDoneEffects DEF SavesInv
  <2>2. PICK t \in Seq(Entry), e \in Entry :
          /\ t = SavedList(s) /\ e.root = Len(bundles) + 1
          /\ \A k \in DOMAIN t : t[k] = e \/ \E i \in DOMAIN gyms.saved : gyms.saved[i] = t[k]
    BY <2>1, SavedListEntries
  <2>3. e.root \notin Roots \cup {NoRoot}
    <3>1. e.root \in Nat /\ e.root \notin Roots
      BY <2>2 DEF EntriesInv, Roots
    <3>2. QED
      BY <3>1, BuilderAssumption
  <2>4. QED
    BY <2>1, <2>2, <2>3 DEF ListGrows
<1>4. CASE ~SaveDone /\ ~ForgetGym /\ ~Naming
  BY <1>4, ListChanges DEF SameList, ListGrows
<1>5. QED
  BY <1>1, <1>2, <1>3, <1>4

(* The saves under way stay as they should be.                             *)
LEMMA SavesStep ==
  ASSUME EntriesInv, SavesInv, ListingsInv, EditorTyped, inputs \in Nat, [Next]_vars
  PROVE  SavesInv'
<1>1. \A s \in saves : SaveOK(s)'
  <2>1. Roots \subseteq Roots' /\ ListGrows
    BY RootsStay, ListGrowsAlways DEF EntriesInv
  <2>2. QED
    BY <2>1, SaveStays DEF ListGrows, SavesInv
<1>2. CASE Save \/ Publish
  <2>1. PICK by \in {"button", "publish"}, label \in Labels \cup {NoLabel},
             graph \in Graphs, code \in Code :
          /\ by = "publish" => label \in Labels
          /\ saves' \subseteq saves \cup {SaveRecord(by, label, graph, code)}
          /\ bundles' = bundles /\ gyms' = gyms
    BY <1>2, SavesBegun
  <2>2. PICK s : s = SaveRecord(by, label, graph, code) /\ SaveOK(s)
    BY <2>1, SaveBegins
  <2>3. SaveOK(s)'
    BY <2>1, <2>2 DEF SaveOK, Roots
  <2>4. QED
    BY <1>1, <2>1, <2>2, <2>3 DEF SavesInv
<1>3. CASE ~Save /\ ~Publish
  <2>1. ASSUME NEW r \in saves'
        PROVE  SaveOK(r)'
    <3>1. PICK s \in saves : r \in SaveRec /\ SameSave(r, s)
      BY <1>3, SavesFollow
    <3>2. SaveOK(s)'
      BY <1>1
    <3>3. QED
      BY <3>1, <3>2 DEF SaveOK, SameSave
  <2>2. QED
    BY <2>1 DEF SavesInv
<1>4. QED
  BY <1>2, <1>3

LEMMA RangeOfAppend ==
  ASSUME NEW S, NEW vs \in Seq(S), NEW v
  PROVE  Range(Append(vs, v)) = Range(vs) \cup {v}
<1>1. PICK n \in Nat : n = Len(vs)
  OBVIOUS
<1>2. PICK w : w = Append(vs, v)
  OBVIOUS
<1>3. DOMAIN w = 1 .. (n + 1) /\ w[n + 1] = v /\ \A i \in 1 .. n : w[i] = vs[i]
  <2>1. vs \in Seq(S \cup {v})
    BY SeqMonotonic
  <2>2. QED
    BY <1>1, <1>2, <2>1, AppendProperties
<1>4. DOMAIN vs = 1 .. n
  BY <1>1
<1>5. Range(w) = Range(vs) \cup {v}
  <2>1. n + 1 \in DOMAIN w /\ \A i \in DOMAIN w : i \in DOMAIN vs \/ i = n + 1
    BY <1>3, <1>4
  <2>2. \A i \in DOMAIN vs : i \in DOMAIN w /\ w[i] = vs[i]
    BY <1>3, <1>4
  <2>3. QED
    BY <1>3, <2>1, <2>2 DEF Range
<1>6. QED
  BY <1>2, <1>5

(* No version is lost.                                                     *)
LEMMA VersionsStep ==
  ASSUME EntriesInv, SavesInv, ListingsInv, NoVersionLost, [Next]_vars
  PROVE  NoVersionLost'
<1>1. \A v \in kept : \E i \in DOMAIN gyms.saved : v \in Range(gyms.saved[i].versions)
  BY DEF NoVersionLost
<1>2. SUFFICES ASSUME NEW v \in kept'
               PROVE  \E k \in DOMAIN gyms'.saved : v \in Range(gyms'.saved[k].versions)
  BY DEF NoVersionLost
<1>3. CASE ForgetGym
  <2>1. PICK t \in Seq(Entry), i \in DOMAIN gyms.saved :
          /\ gyms'.saved = t
          /\ \A j \in DOMAIN gyms.saved : j = i \/ \E k \in DOMAIN t : t[k] = gyms.saved[j]
          /\ kept' = kept \ Range(gyms.saved[i].versions)
    BY <1>3, ForgetEffects
  <2>2. PICK j \in DOMAIN gyms.saved : v \in Range(gyms.saved[j].versions)
    BY <1>1, <1>2, <2>1
  <2>3. j # i
    BY <1>2, <2>1, <2>2
  <2>4. PICK k \in DOMAIN t : t[k] = gyms.saved[j]
    BY <2>1, <2>3
  <2>5. QED
    BY <2>1, <2>2, <2>4
<1>4. CASE Naming
  <2>1. PICK t \in Seq(Entry) :
          /\ gyms'.saved = t /\ DOMAIN t = DOMAIN gyms.saved
          /\ \A i \in DOMAIN gyms.saved : t[i].versions = gyms.saved[i].versions
          /\ kept' = kept
    BY <1>4, NameEffects
  <2>2. QED
    BY <1>1, <1>2, <2>1
<1>5. CASE SaveDone
  <2>1. PICK s \in saves :
          /\ gyms'.saved = SavedList(s)
          /\ kept' = (kept \ Dropped(s)) \cup {Len(bundles) + 1}
    BY <1>5, SaveDoneEffects
  <2>2. SaveOK(s)
    BY DEF SavesInv
  <2>3. PICK t \in Seq(Entry), e \in Entry :
          /\ t = SavedList(s) /\ e = SavedEntry(s)
          /\ \E k \in DOMAIN t : t[k] = e
          /\ \A i \in DOMAIN gyms.saved :
               \/ \E k \in DOMAIN t : t[k] = gyms.saved[i]
               \/ gyms.saved[i].root = s.prev
               \/ Len(gyms.saved) = MaxSaved /\ i = Len(gyms.saved)
    BY <2>2, SavedListEntries
  <2>4. PICK vs, root : /\ vs = s.versions /\ root = Len(bundles) + 1
                        /\ vs \in Seq(Roots)
    BY <2>2 DEF SaveOK
  <2>5. e.versions = Append(vs, root)
    BY <2>3, <2>4 DEF SavedEntry
  <2>6. root \in Range(e.versions) /\ Range(vs) \subseteq Range(e.versions)
    BY <2>4, <2>5, RangeOfAppend
  <2>7. v \in Range(e.versions)
          => \E k \in DOMAIN gyms'.saved : v \in Range(gyms'.saved[k].versions)
    BY <2>1, <2>3
  <2>8. CASE v = root
    BY <2>6, <2>7, <2>8
  <2>9. CASE v # root
    <3>1. v \in kept /\ v \notin Dropped(s)
      BY <1>2, <2>1, <2>4, <2>9
    <3>2. PICK i \in DOMAIN gyms.saved : v \in Range(gyms.saved[i].versions)
      BY <1>1, <3>1
    <3>3. CASE gyms.saved[i].root = s.prev
      <4>1. gyms.saved[i].versions = vs
        BY <2>2, <2>4, <3>3 DEF SaveOK
      <4>2. QED
        BY <2>6, <2>7, <3>2, <4>1
    <3>4. CASE gyms.saved[i].root # s.prev
      <4>1. ~(Len(gyms.saved) = MaxSaved /\ i = Len(gyms.saved))
        BY <3>1, <3>2, <3>4 DEF Dropped, Last
      <4>2. PICK k \in DOMAIN t : t[k] = gyms.saved[i]
        BY <2>3, <3>4, <4>1
      <4>3. QED
        BY <2>1, <2>3, <3>2, <4>2
    <3>5. QED
      BY <3>3, <3>4
  <2>10. QED
    BY <2>8, <2>9
<1>6. CASE ~SaveDone /\ ~ForgetGym /\ ~Naming
  <2>1. kept' = kept /\ gyms'.saved = gyms.saved
    BY <1>6, ListChanges DEF SameList
  <2>2. QED
    BY <1>1, <1>2, <2>1
<1>7. QED
  BY <1>3, <1>4, <1>5, <1>6

(* What opens and the version panel refer to stays in the storage.         *)
LEMMA OpensStep ==
  ASSUME EntriesInv, WaitingInv, inputs \in Nat, [Next]_vars
  PROVE  \A o \in opens' : o \in OpenRec /\ o.root \in Roots'
<1>1. Roots \subseteq Roots' /\ Roots \subseteq Nat
  BY RootsStay DEF EntriesInv, Roots
<1>2. CASE OpenByHash \/ OpenSaved \/ OpenFromHub \/ Rollback
  <2>1. PICK root, rollback :
          /\ rollback \in BOOLEAN
          /\ opens' = opens \cup {[id |-> inputs, root |-> root, rollback |-> rollback,
                                   live |-> TRUE]}
          /\ \/ root \in Roots \cup Range(page.history)
             \/ \E i \in DOMAIN gyms.saved : root = gyms.saved[i].root
    <3>1. CASE OpenByHash \/ OpenFromHub
      <4>1. PICK root \in Roots :
              opens' = opens \cup {[id |-> inputs, root |-> root, rollback |-> FALSE,
                                    live |-> TRUE]}
        BY <3>1 DEF OpenByHash, OpenFromHub, OpenedByUser, BeginOpen
      <4>2. QED
        BY <4>1
    <3>2. CASE OpenSaved
      <4>1. PICK i \in DOMAIN gyms.saved :
              opens' = opens \cup {[id |-> inputs, root |-> gyms.saved[i].root,
                                    rollback |-> FALSE, live |-> TRUE]}
        BY <3>2 DEF OpenSaved, OpenedByUser, BeginOpen
      <4>2. QED
        BY <4>1
    <3>3. CASE Rollback
      <4>1. PICK root \in RollbackOffered :
              opens' = opens \cup {[id |-> inputs, root |-> root, rollback |-> TRUE,
                                    live |-> TRUE]}
        BY <3>3 DEF Rollback, BeginOpen
      <4>2. root \in Range(page.history)
        BY <4>1 DEF RollbackOffered
      <4>3. QED
        BY <4>1, <4>2
    <3>4. QED
      BY <1>2, <3>1, <3>2, <3>3
  <2>2. root \in Roots
    <3>1. ASSUME NEW r \in Range(page.history)
          PROVE  r \in Roots
      <4>1. PICK h \in Seq(Roots) : h = page.history
        BY DEF WaitingInv
      <4>2. PICK i \in DOMAIN h : h[i] = r
        BY <4>1 DEF Range
      <4>3. QED
        BY <4>2, ElementOfSeq
    <3>2. QED
      BY <2>1, <3>1 DEF EntriesInv
  <2>3. PICK o : /\ o = [id |-> inputs, root |-> root, rollback |-> rollback, live |-> TRUE]
                 /\ o \in OpenRec /\ o.root = root
    <3> DEFINE o == [id |-> inputs, root |-> root, rollback |-> rollback, live |-> TRUE]
    <3>1. o \in OpenRec /\ o.root = root
      BY <1>1, <2>1, <2>2 DEF OpenRec
    <3> HIDE DEF o
    <3>2. QED
      BY <3>1 DEF o
  <2>4. opens' = opens \cup {o}
    BY <2>1, <2>3
  <2>5. QED
    BY <1>1, <2>2, <2>3, <2>4 DEF WaitingInv
<1>3. CASE Navigate
  <2>1. opens' = {[o EXCEPT !.live = FALSE] : o \in opens}
    BY <1>3 DEF Navigate, Orphaned
  <2>2. ASSUME NEW o \in opens
        PROVE  [o EXCEPT !.live = FALSE] \in OpenRec /\ [o EXCEPT !.live = FALSE].root = o.root
    <3>1. o \in OpenRec
      BY DEF WaitingInv
    <3>2. QED
      BY <3>1 DEF OpenRec
  <2>3. QED
    BY <1>1, <2>1, <2>2 DEF WaitingInv
<1>4. CASE OpenDone \/ OpenFailed \/ Reload \/ opens' = opens
  <2>1. opens' \subseteq opens
    BY <1>4 DEF OpenDone, OpenFailed, Reload
  <2>2. QED
    BY <1>1, <2>1 DEF WaitingInv
<1>5. QED
  BY <1>2, <1>3, <1>4, Frame DEF PagesLeft

LEMMA PageStep ==
  ASSUME EntriesInv, SavesInv, WaitingInv, [Next]_vars
  PROVE  DOMAIN page' = DOMAIN NewPage /\ page'.history \in Seq(Roots')
<1>1. Roots \subseteq Roots'
  BY RootsStay DEF EntriesInv
<1>2. page.history \in Seq(Roots')
  BY <1>1, SeqMonotonic DEF WaitingInv
<1>3. CASE SaveDone
  <2>1. PICK s \in saves :
          /\ bundles' = Append(bundles, s.bundle)
          /\ page' \in {page, [page EXCEPT !.saving = FALSE,
                                          !.history = Append(s.versions, Len(bundles) + 1)]}
    BY <1>3, SaveDoneEffects
  <2>2. s.versions \in Seq(Roots') /\ Len(bundles) + 1 \in Roots'
    BY <1>1, <2>1, SeqMonotonic DEF SavesInv, SaveOK, SaveRec, EntriesInv, Roots
  <2>3. PICK vs \in Seq(Roots') : vs = Append(s.versions, Len(bundles) + 1)
    BY <2>2, AppendProperties
  <2>4. QED
    BY <1>2, <2>1, <2>3 DEF WaitingInv, NewPage
<1>4. CASE OpenDone \/ OpenFailed
  <2>1. PICK o, h :
          /\ o \in opens /\ h \in {VersionsOf(o.root), page.history}
          /\ page' \in {page, [page EXCEPT !.history = h, !.rollingBack = @ /\ ~o.rollback],
                        [page EXCEPT !.rollingBack = @ /\ ~o.rollback, !.history = h]}
    <3>1. CASE OpenDone
      BY <3>1 DEF OpenDone
    <3>2. CASE OpenFailed
      BY <3>2 DEF OpenFailed
    <3>3. QED
      BY <1>4, <3>1, <3>2
  <2>2. h \in Seq(Roots')
    <3>1. VersionsOf(o.root) \in Seq(Roots)
      BY VersionsKnown
    <3>2. QED
      BY <1>1, <1>2, <2>1, <3>1, SeqMonotonic
  <2>3. QED
    BY <1>2, <2>1, <2>2 DEF WaitingInv, NewPage
<1>5. CASE PagesLeft
  <2>1. << >> \in Seq(Roots')
    OBVIOUS
  <2>2. page' = NewPage
    BY <1>5 DEF PagesLeft, Reload, Navigate
  <2>3. QED
    BY <2>1, <2>2 DEF NewPage
<1>6. CASE Save \/ SaveFailing \/ Rollback \/ Publish \/ page' = page
  <2>1. page' \in {page, [page EXCEPT !.saving = TRUE], [page EXCEPT !.saving = FALSE],
                   [page EXCEPT !.rollingBack = TRUE]}
    BY <1>6 DEF Save, SaveFailing, SaveFailed, SaveRefused, SaveFails, Rollback, Publish
  <2>2. QED
    BY <1>2, <2>1 DEF WaitingInv, NewPage
<1>7. QED
  BY <1>3, <1>4, <1>5, <1>6, Frame

LEMMA WaitingStep ==
  ASSUME EntriesInv, SavesInv, WaitingInv, inputs \in Nat, [Next]_vars
  PROVE  WaitingInv'
BY OpensStep, PageStep DEF WaitingInv, NewPage

-----------------------------------------------------------------------------
(* Names.                                                                  *)

LEMMA HoldsStays ==
  ASSUME NEW m, NEW n, Grows(m, n), NEW l \in Labels, NEW vs, Holds(vs, l, m)
  PROVE  Holds(vs, l, n)
BY DEF Holds, Grows

(* What NamesInv says of the entries and of the listings under way.        *)
EntriesNamed(saved, m) == \A i \in DOMAIN saved : Labelled(saved[i], m)
ListingsHeld(hs, saved) == \A h \in hs : SelfHeld(h, saved)

(* A history that grows still holds what it held.                          *)
LEMMA HoldsAppended ==
  ASSUME NEW m, NEW l, NEW vs \in Seq(Nat), NEW root \in Nat, Holds(vs, l, m)
  PROVE  Holds(Append(vs, root), l, m)
<1>1. Range(vs) \subseteq Range(Append(vs, root))
  BY RangeOfAppend
<1>2. QED
  BY <1>1 DEF Holds

(* The entries and the listings after a save has ended.                    *)
LEMMA SaveDoneNames ==
  ASSUME EntriesInv, SavesInv, ListingsInv, NamesInv, SaveDone
  PROVE  /\ EntriesNamed(gyms'.saved, market') /\ ListingsHeld(listings', gyms'.saved)
         /\ \A w \in manifests' : ManifestOK(w, market')
<1>1. PICK s \in saves :
        /\ gyms'.saved = SavedList(s)
        /\ manifests' = IF s.ensLabel = NoLabel THEN manifests
                        ELSE manifests \cup {[label |-> s.ensLabel,
                                              versions |-> Append(s.versions, Len(bundles) + 1)]}
        /\ listings' = IF s.by = "button" THEN listings
                       ELSE listings \cup {[root |-> Len(bundles) + 1, label |-> s.label,
                                            stage |-> "store", live |-> s.live]}
        /\ market' = market
  BY SaveDoneEffects
<1>2. SaveOK(s) /\ Labelled(s, market)
  BY DEF SavesInv, NamesInv
<1>3. PICK t \in Seq(Entry), e \in Entry :
        /\ t = SavedList(s) /\ e = SavedEntry(s)
        /\ \A k \in DOMAIN t : t[k] = e \/ \E i \in DOMAIN gyms.saved : gyms.saved[i] = t[k]
  BY <1>2, SavedListEntries
<1>4. PICK vs \in Seq(Nat), root \in Nat : vs = s.versions /\ root = Len(bundles) + 1
  BY <1>2 DEF SaveOK, SaveRec, EntriesInv
<1>5. PICK ws \in Seq(Nat) : ws = Append(vs, root) /\ Range(ws) = Range(vs) \cup {root}
  BY RangeOfAppend, AppendProperties
<1>6. e.versions = ws /\ e.root = root /\ e.ensLabel = s.ensLabel
  BY <1>3, <1>4, <1>5 DEF SavedEntry
<1>7. s.ensLabel # NoLabel => Holds(ws, s.ensLabel, market)
  BY <1>2, <1>4, <1>5, HoldsAppended DEF Labelled
<1>8. EntriesNamed(gyms'.saved, market')
  <2>1. Labelled(e, market)
    BY <1>6, <1>7 DEF Labelled
  <2>2. \A k \in DOMAIN t : Labelled(t[k], market)
    BY <1>3, <2>1 DEF NamesInv
  <2>3. QED
    BY <1>1, <1>3, <2>2 DEF EntriesNamed
<1>9. \A w \in manifests' : ManifestOK(w, market')
  <2>1. CASE s.ensLabel = NoLabel
    BY <1>1, <2>1 DEF NamesInv
  <2>2. CASE s.ensLabel # NoLabel
    <3>1. s.ensLabel \in Labels
      BY <1>2, <2>2 DEF SaveOK, SaveRec
    <3>2. PICK w : w = [label |-> s.ensLabel, versions |-> ws]
      OBVIOUS
    <3>3. ManifestOK(w, market)
      BY <1>7, <2>2, <3>1, <3>2 DEF ManifestOK
    <3>4. manifests' = manifests \cup {w}
      BY <1>1, <1>4, <1>5, <2>2, <3>2
    <3>5. QED
      BY <1>1, <3>3, <3>4 DEF NamesInv
  <2>3. QED
    BY <2>1, <2>2
<1>10. \A r \in Roots : r # root
  BY <1>4 DEF EntriesInv, Roots
<1>11. ASSUME NEW h \in listings'
       PROVE  SelfHeld(h, t)
  <2>1. h \in listings \/ h.root = root
    BY <1>1, <1>4
  <2>2. SUFFICES ASSUME NEW k \in DOMAIN t, t[k].root = h.root
                 PROVE  h.root \in Range(t[k].versions)
    BY DEF SelfHeld
  <2>3. CASE t[k] = e
    BY <1>5, <1>6, <2>2, <2>3
  <2>4. CASE t[k] # e
    <3>1. PICK i \in DOMAIN gyms.saved : gyms.saved[i] = t[k]
      BY <1>3, <2>4
    <3>2. t[k].root # root
      BY <1>10, <3>1 DEF EntriesInv
    <3>3. h \in listings
      BY <2>1, <2>2, <3>2
    <3>4. QED
      BY <2>2, <3>1, <3>3 DEF NamesInv, SelfHeld
  <2>5. QED
    BY <2>3, <2>4
<1>12. QED
  BY <1>1, <1>3, <1>8, <1>9, <1>11 DEF ListingsHeld

(* Every other listing after a step is of a gym that was on its way before. *)
LEMMA ListingsFollow ==
  ASSUME ListingsInv, [Next]_vars, ~SaveDone
  PROVE  \A g \in listings' : \E h \in listings : g.root = h.root
<1>1. CASE ListingMoving
  <2>1. PICK h \in listings, g \in ListingRec :
          listings' = (listings \ {h}) \cup {g} /\ g.root = h.root
    BY <1>1, MovingEffects DEF ListingsInv, ListingOK
  <2>2. QED
    BY <2>1
<1>2. CASE ListingFailing \/ Naming \/ NameFailed
  BY <1>2, EndingEffects
<1>3. CASE Navigate
  <2>1. listings' = {[h EXCEPT !.live = FALSE] : h \in listings}
    BY <1>3 DEF Navigate, Orphaned
  <2>2. \A h \in listings : [h EXCEPT !.live = FALSE].root = h.root
    BY ListingMarked DEF ListingsInv, ListingOK
  <2>3. QED
    BY <2>1, <2>2
<1>4. CASE Reload
  BY <1>4 DEF Reload
<1>5. CASE listings' = listings
  BY <1>5
<1>6. QED
  BY <1>1, <1>2, <1>3, <1>4, <1>5, Frame DEF PagesLeft

(* Entries keep their labels, unless a name is answered, and the gym that  *)
(* is named is in its history.                                             *)
LEMMA EntriesStayNamed ==
  ASSUME EntriesInv, SavesInv, ListingsInv, NamesInv, Grows(market, market'), [Next]_vars,
         ~SaveDone
  PROVE  EntriesNamed(gyms'.saved, market') /\ ListingsHeld(listings', gyms'.saved)
<1>1. \A i \in DOMAIN gyms.saved :
        gyms.saved[i] \in Entry /\ gyms.saved[i].ensLabel \in Labels \cup {NoLabel}
  <2>1. \A i \in DOMAIN gyms.saved : gyms.saved[i] \in Entry
    BY DEF EntriesInv
  <2>2. QED
    BY <2>1 DEF Entry
<1>2. \A i \in DOMAIN gyms.saved : Labelled(gyms.saved[i], market')
  BY <1>1, HoldsStays DEF NamesInv, Labelled
<1>3. \A g \in listings' : \E h \in listings : g.root = h.root
  BY ListingsFollow
<1>4. \A g \in listings' : SelfHeld(g, gyms.saved)
  BY <1>3 DEF NamesInv, SelfHeld
<1>5. CASE Naming
  <2>1. PICK t \in Seq(Entry), h \in listings :
          /\ gyms'.saved = t /\ DOMAIN t = DOMAIN gyms.saved
          /\ \A i \in DOMAIN gyms.saved :
               /\ t[i].root = gyms.saved[i].root /\ t[i].versions = gyms.saved[i].versions
               /\ t[i].ensLabel = IF gyms.saved[i].root = h.root THEN h.label
                                  ELSE gyms.saved[i].ensLabel
          /\ h.root \in market'.named[h.label] \cup market'.refused[h.label]
    BY <1>5, NameEffects
  <2>2. ASSUME NEW i \in DOMAIN gyms.saved
        PROVE  Labelled(t[i], market')
    <3>1. CASE gyms.saved[i].root = h.root
      <4>1. h.root \in Range(t[i].versions)
        BY <2>1, <3>1 DEF NamesInv, SelfHeld
      <4>2. QED
        BY <2>1, <3>1, <4>1 DEF Labelled, Holds
    <3>2. CASE gyms.saved[i].root # h.root
      BY <1>2, <2>1, <3>2 DEF Labelled
    <3>3. QED
      BY <3>1, <3>2
  <2>3. QED
    BY <1>4, <2>1, <2>2 DEF EntriesNamed, ListingsHeld, SelfHeld
<1>6. CASE ForgetGym
  <2>1. PICK t \in Seq(Entry) :
          /\ gyms'.saved = t
          /\ \A k \in DOMAIN t : \E j \in DOMAIN gyms.saved : gyms.saved[j] = t[k]
    BY <1>6, ForgetEffects
  <2>2. \A k \in DOMAIN t : Labelled(t[k], market')
    BY <1>2, <2>1
  <2>3. \A g \in listings' : SelfHeld(g, t)
    BY <1>4, <2>1 DEF SelfHeld
  <2>4. QED
    BY <2>1, <2>2, <2>3 DEF EntriesNamed, ListingsHeld
<1>7. CASE ~ForgetGym /\ ~Naming
  <2>1. gyms'.saved = gyms.saved
    BY <1>7, ListChanges DEF SameList
  <2>2. QED
    BY <1>2, <1>4, <2>1 DEF EntriesNamed, ListingsHeld
<1>8. QED
  BY <1>5, <1>6, <1>7

(* A save takes its label from the list together with the versions.        *)
LEMMA SavesStayNamed ==
  ASSUME EntriesInv, SavesInv, NamesInv, EditorTyped, Grows(market, market'), [Next]_vars
  PROVE  \A s \in saves' : Labelled(s, market')
<1>1. \A s \in saves : Labelled(s, market')
  <2>1. \A s \in saves : s.ensLabel \in Labels \cup {NoLabel}
    BY DEF SavesInv, SaveOK, SaveRec
  <2>2. QED
    BY <2>1, HoldsStays DEF NamesInv, Labelled
<1>2. CASE Save \/ Publish
  <2>1. PICK by \in {"button", "publish"}, label \in Labels \cup {NoLabel},
             graph \in Graphs, code \in Code :
          saves' \subseteq saves \cup {SaveRecord(by, label, graph, code)}
    BY <1>2, SavesBegun
  <2>2. PICK s : s = SaveRecord(by, label, graph, code)
    OBVIOUS
  <2>3. PICK vs, ens : vs = VersionsOf(gyms.current) /\ ens = LabelOf(gyms.current)
    OBVIOUS
  <2>4. s.versions = vs /\ s.ensLabel = ens
    BY <2>2, <2>3 DEF SaveRecord
  <2>5. \/ ens = NoLabel
        \/ \E i \in DOMAIN gyms.saved : ens = gyms.saved[i].ensLabel /\ vs = gyms.saved[i].versions
    BY <2>3, LabelKnown
  <2>6. ens # NoLabel => ens \in Labels /\ Holds(vs, ens, market)
    <3>1. \A i \in DOMAIN gyms.saved : gyms.saved[i] \in Entry
      BY DEF EntriesInv
    <3>2. \A i \in DOMAIN gyms.saved : gyms.saved[i].ensLabel \in Labels \cup {NoLabel}
      BY <3>1 DEF Entry
    <3>3. QED
      BY <2>5, <3>2 DEF NamesInv, Labelled
  <2>7. Labelled(s, market')
    BY <2>4, <2>6, HoldsStays DEF Labelled
  <2>8. QED
    BY <1>1, <2>1, <2>2, <2>7
<1>3. CASE ~Save /\ ~Publish
  <2>1. \A r \in saves' : \E s \in saves : SameSave(r, s)
    BY <1>3, SavesFollow
  <2>2. QED
    BY <1>1, <2>1 DEF Labelled, SameSave
<1>4. QED
  BY <1>2, <1>3

(* Labels, manifests and the text records go with named gyms.              *)
LEMMA NamesStep ==
  ASSUME EntriesInv, SavesInv, ListingsInv, NamesInv, EditorTyped, [Next]_vars
  PROVE  NamesInv'
<1>1. MarketTyped(market) /\ Grows(market, market')
      /\ (market'.record = market.record \/ TextRecordSet)
  <2>1. /\ \A w \in manifests : w.label \in Labels /\ w.versions \in Seq(Nat)
        /\ \A h \in listings : h \in ListingRec
        /\ MarketTyped(market)
    BY DEF NamesInv, ManifestOK, ListingsInv, ListingOK
  <2>2. QED
    BY <2>1, MarketGrows
<1>2. EntriesNamed(gyms'.saved, market') /\ ListingsHeld(listings', gyms'.saved)
  BY <1>1, SaveDoneNames, EntriesStayNamed
<1>3. \A s \in saves' : Labelled(s, market')
  BY <1>1, SavesStayNamed
<1>4. \A w \in manifests' : ManifestOK(w, market')
  <2>1. CASE SaveDone
    BY <2>1, SaveDoneNames
  <2>2. CASE ~SaveDone
    <3>1. manifests' \subseteq manifests
      BY <2>2, Frame DEF TextRecordSet, ManifestFailed, Reload
    <3>2. \A w \in manifests : ManifestOK(w, market')
      BY <1>1, HoldsStays DEF NamesInv, ManifestOK
    <3>3. QED
      BY <3>1, <3>2
  <2>3. QED
    BY <2>1, <2>2
<1>5. ASSUME NEW l \in Labels
      PROVE  RecordOK(l, market')
  <2>1. RecordOK(l, market)
    BY DEF NamesInv
  <2>2. CASE market'.record = market.record
    <3>1. SUFFICES ASSUME market'.record[l] # << >>
                   PROVE  market'.named[l] # {} /\ Holds(market'.record[l], l, market')
      BY DEF RecordOK
    <3>2. market.named[l] # {} /\ Holds(market.record[l], l, market)
      BY <2>1, <2>2, <3>1 DEF RecordOK
    <3>3. market'.named[l] # {}
      BY <1>1, <3>2 DEF Grows
    <3>4. QED
      BY <1>1, <2>2, <3>2, <3>3, HoldsStays
  <2>3. CASE TextRecordSet
    <3>1. PICK w \in manifests :
            /\ market.named[w.label] # {}
            /\ market' = [market EXCEPT !.record[w.label] = w.versions]
      BY <2>3 DEF TextRecordSet
    <3>2. PICK label \in Labels, vs \in Seq(Nat) :
            label = w.label /\ vs = w.versions /\ Holds(vs, label, market)
      BY DEF NamesInv, ManifestOK
    <3>3. /\ market'.record = [market.record EXCEPT ![label] = vs]
          /\ market'.named = market.named /\ market'.refused = market.refused
      BY <1>1, <3>1, <3>2 DEF MarketTyped
    <3>4. market'.record[l] = IF l = label THEN vs ELSE market.record[l]
      BY <1>1, <3>3 DEF MarketTyped
    <3>5. CASE l = label
      BY <3>1, <3>2, <3>3, <3>4, <3>5 DEF RecordOK, Holds
    <3>6. CASE l # label
      BY <2>1, <3>3, <3>4, <3>6 DEF RecordOK, Holds
    <3>7. QED
      BY <3>5, <3>6
  <2>4. QED
    BY <1>1, <2>2, <2>3
<1>6. QED
  BY <1>2, <1>3, <1>4, <1>5 DEF NamesInv, EntriesNamed, ListingsHeld

-----------------------------------------------------------------------------
(* The editor page as a whole.                                             *)

LEMMA InitInv ==
  ASSUME Init
  PROVE  BuilderInv
<1>1. inputs \in Nat /\ bundles = StoredBundles /\ StoredBundles \in Seq(Bundle)
  BY BuilderAssumption DEF Init
<1>2. EditorTyped
  <2>1. editor = NewEditor
    BY DEF Init
  <2>2. NewEditor \in EditorType
    BY EmptyIsGraph, CodeTyped DEF NewEditor, EditorType, Statuses
  <2>3. QED
    BY <2>1, <2>2 DEF EditorTyped, NewEditor
<1>3. ChatInv
  BY DEF Init, ChatInv, NewChat, Answered
<1>4. ListingsInv /\ ModalInv
  <2>1. publish = NewPublish /\ saves = {} /\ listings = {}
    BY DEF Init
  <2>2. ModalInv
    BY <2>1 DEF ModalInv, NewPublish
  <2>3. market = [listed |-> {}, unkept |-> {}, onChain |-> {}, named |-> EarlierNamed,
                  refused |-> [l \in Labels |-> {}], record |-> [l \in Labels |-> << >>]]
    BY DEF Init
  <2>4. MarketTyped(market)
    BY <2>3, BuilderAssumption DEF MarketTyped
  <2>5. QED
    BY <2>1, <2>2, <2>4 DEF ListingsInv
<1>5. PICK current \in {NoRoot} \cup {EarlierSaved[i].root : i \in DOMAIN EarlierSaved} :
        gyms = [saved |-> EarlierSaved, current |-> current]
  BY DEF Init
<1>6. \A i \in DOMAIN EarlierSaved :
        EarlierSaved[i].root \in Roots /\ Range(EarlierSaved[i].versions) \subseteq Roots
  BY <1>1, BuilderAssumption DEF Roots
<1>7. ASSUME NEW i \in DOMAIN EarlierSaved
      PROVE  EarlierSaved[i].versions \in Seq(Roots)
  <2>1. PICK vs \in Seq(Nat) : vs = EarlierSaved[i].versions
    <3>1. EarlierSaved[i] \in Entry
      BY BuilderAssumption
    <3>2. QED
      BY <3>1 DEF Entry
  <2>2. \A k \in 1 .. Len(vs) : vs[k] \in Roots
    BY <1>6, <2>1 DEF Range
  <2>3. QED
    BY <2>1, <2>2
<1>8. kept = UNION {Range(EarlierSaved[i].versions) : i \in DOMAIN EarlierSaved}
  BY DEF Init
<1>9. EntriesInv
  <2>1. kept \subseteq Roots /\ current \in Roots \cup {NoRoot}
    BY <1>6, <1>8
  <2>2. /\ EarlierSaved \in Seq(Entry) /\ Len(EarlierSaved) <= MaxSaved
        /\ DistinctRoots(EarlierSaved)
    BY BuilderAssumption DEF DistinctRoots
  <2>3. gyms.saved = EarlierSaved /\ gyms.current = current /\ DOMAIN gyms = {"saved", "current"}
    BY <1>5
  <2>4. QED
    BY <1>1, <1>6, <1>7, <2>1, <2>2, <2>3 DEF EntriesInv
<1>10. SavesInv /\ WaitingInv
  <2>1. << >> \in Seq(Roots)
    OBVIOUS
  <2>2. QED
    BY <2>1 DEF Init, SavesInv, WaitingInv, NewPage
<1>11. NoVersionLost
  BY <1>5, <1>8 DEF NoVersionLost
<1>12. NamesInv
  <2>1. /\ market.named = EarlierNamed /\ market.record = [l \in Labels |-> << >>]
        /\ saves = {} /\ manifests = {} /\ listings = {} /\ gyms.saved = EarlierSaved
    BY <1>5 DEF Init
  <2>2. \A i \in DOMAIN EarlierSaved : Labelled(EarlierSaved[i], market)
    BY <2>1, BuilderAssumption DEF Labelled, Holds
  <2>3. \A l \in Labels : RecordOK(l, market)
    BY <2>1 DEF RecordOK
  <2>4. QED
    BY <2>1, <2>2, <2>3 DEF NamesInv
<1>13. QED
  BY <1>1, <1>2, <1>3, <1>4, <1>9, <1>10, <1>11, <1>12 DEF BuilderInv

LEMMA StepInv ==
  ASSUME BuilderInv, [Next]_vars
  PROVE  BuilderInv'
<1>1. inputs' \in Nat
  <2>1. inputs' = inputs \/ (inputs > 0 /\ inputs' = inputs - 1)
    BY Frame
  <2>2. QED
    BY <2>1 DEF BuilderInv
<1>2. EditorTyped'
  BY EditorStep DEF BuilderInv, EntriesInv, WaitingInv
<1>3. ChatInv'
  BY ChatStep DEF BuilderInv
<1>4. ListingsInv' /\ ModalInv'
  <2>1. \A w \in manifests : w.label \in Labels /\ w.versions \in Seq(Nat)
    BY DEF BuilderInv, NamesInv, ManifestOK
  <2>2. QED
    BY <2>1, ListingsStep, ModalStep DEF BuilderInv, EntriesInv
<1>5. EntriesInv' /\ SavesInv' /\ WaitingInv'
  BY EntriesStep, SavesStep, WaitingStep DEF BuilderInv
<1>6. NoVersionLost' /\ NamesInv'
  BY VersionsStep, NamesStep DEF BuilderInv
<1>7. QED
  BY <1>1, <1>2, <1>3, <1>4, <1>5, <1>6 DEF BuilderInv

LEMMA BuilderInvariant == Spec => []BuilderInv
<1>1. Init => BuilderInv
  BY InitInv
<1>2. BuilderInv /\ [Next]_vars => BuilderInv'
  BY StepInv
<1>3. QED
  BY <1>1, <1>2, PTL DEF Spec

(* The editor, the list of saved gyms and the storage keep their types,    *)
(* the list its bound and its distinct roots: graphStore.ts, gymStore.ts.  *)
THEOREM BuilderTyped == Spec => []BuilderTypeOK
<1>1. BuilderInv => BuilderTypeOK
  BY DEF BuilderInv, BuilderTypeOK, EditorTyped, EditorType, Statuses, EntriesInv,
         DistinctRoots, ListingsInv, ListingOK, ListingRec
<1>2. QED
  BY <1>1, BuilderInvariant, PTL

(* Every saved version stays in the history of a saved gym until the user  *)
(* removes that gym or the list overflows, under any overlap of handlers:  *)
(* VersionHistoryPanel.tsx:128, page.tsx:404.                              *)
THEOREM VersionsStay == Spec => []NoVersionLost
<1>1. BuilderInv => NoVersionLost
  BY DEF BuilderInv
<1>2. QED
  BY <1>1, BuilderInvariant, PTL

(* What the modal calls listed is in the contract, and in the store or its *)
(* mirror unless Upstash refused the mirror's write and the route answered *)
(* ok: handlePublish, page.tsx:507.                                        *)
THEOREM ListedIsTrue == Spec => []ListedIsListed
<1>1. BuilderInv => ListedIsListed
  BY ModalTellsTruth DEF BuilderInv
<1>2. QED
  BY <1>1, BuilderInvariant, PTL

(* Whatever the labels, each one's text record is written only once the    *)
(* user has the name, and holds the history of a gym whose publication     *)
(* asked for that very name, with success or without: page.tsx:443.        *)
THEOREM RecordsHoldNamedGyms == Spec => []RecordIsOfNamedGym
<1>1. BuilderInv => RecordIsOfNamedGym
  BY DEF BuilderInv, NamesInv, RecordOK, Holds, RecordIsOfNamedGym
<1>2. QED
  BY <1>1, BuilderInvariant, PTL

(* The conversation sent to the model alternates, whatever fails and       *)
(* whenever the provider or the mode is switched: ChatPanel.tsx.           *)
THEOREM ConversationsAlternate == Spec => []ChatAlternates
<1>1. BuilderInv => ChatAlternates
  BY ConversationAlternates DEF BuilderInv
<1>2. QED
  BY <1>1, BuilderInvariant, PTL

-----------------------------------------------------------------------------
(* Loops and recursions.                                                   *)

(* Among some states there is one with the least measure.                  *)
LEMMA LeastMeasure ==
  ASSUME NEW S, NEW mu \in [S -> Nat], NEW Bad \in SUBSET S, Bad # {}
  PROVE  \E s \in Bad : \A t \in Bad : mu[s] <= mu[t]
<1> DEFINE Ms == {mu[s] : s \in Bad}
<1>1. Ms \in SUBSET Nat /\ Ms # {}
  OBVIOUS
<1>2. PICK m \in Ms : \A k \in Ms : m <= k
  <2> HIDE DEF Ms
  <2>1. QED
    BY <1>1, LeastNumber
<1>3. QED
  BY <1>2

\* f is what a loop computes from the states of D: the value of a state in which it is done,
\* and otherwise what it computes from the next.
IsLoop(f, D, done, value, next) ==
  f = [s \in D |-> IF s \in done THEN value[s] ELSE f[next[s]]]

\* The states of less than some measure.
Below(S, mu, k) == {s \in S : mu[s] < k}

(* A loop with a measure that falls computes something from states of any  *)
(* bounded measure.                                                        *)
LEMMA BoundedLoop ==
  ASSUME NEW S, NEW mu \in [S -> Nat], NEW done, NEW value, NEW next \in [S -> S],
         \A s \in S \ done : mu[next[s]] < mu[s],
         NEW m \in Nat
  PROVE  \E f : IsLoop(f, Below(S, mu, m), done, value, next)
<1> DEFINE Fails(k) == ~(\E f : IsLoop(f, Below(S, mu, k), done, value, next))
           Bad == {k \in Nat : Fails(k)}
<1> SUFFICES ASSUME Bad # {}
             PROVE  FALSE
  OBVIOUS
<1>1. PICK k \in Bad : \A j \in Bad : k <= j
  BY LeastNumber
<1>2. k # 0
  <2>1. Below(S, mu, 0) = {}
    BY DEF Below
  <2>2. IsLoop([s \in {} |-> 0], Below(S, mu, 0), done, value, next)
    BY <2>1 DEF IsLoop
  <2>3. QED
    BY <2>2
<1>3. k - 1 \in Nat /\ k - 1 \notin Bad
  BY <1>1, <1>2
<1>4. PICK f : IsLoop(f, Below(S, mu, k - 1), done, value, next)
  BY <1>3
<1> DEFINE g == [s \in Below(S, mu, k) |-> IF s \in done THEN value[s] ELSE f[next[s]]]
<1>5. ASSUME NEW s \in Below(S, mu, k), s \notin done
      PROVE  g[next[s]] = f[next[s]]
  <2>1. /\ next[s] \in Below(S, mu, k - 1) /\ next[s] \in Below(S, mu, k)
    BY <1>2, <1>3, <1>5 DEF Below
  <2>2. f[next[s]] = IF next[s] \in done THEN value[next[s]] ELSE f[next[next[s]]]
    BY <1>4, <2>1 DEF IsLoop
  <2>3. g[next[s]] = IF next[s] \in done THEN value[next[s]] ELSE f[next[next[s]]]
    BY <2>1
  <2>4. QED
    BY <2>2, <2>3
<1>6. g = [s \in Below(S, mu, k) |-> IF s \in done THEN value[s] ELSE g[next[s]]]
  <2>1. \A s \in Below(S, mu, k) :
          (IF s \in done THEN value[s] ELSE f[next[s]])
            = (IF s \in done THEN value[s] ELSE g[next[s]])
    <3> HIDE DEF g
    <3>1. QED
      BY <1>5
  <2>2. QED
    BY <2>1, Zenon
<1>7. IsLoop(g, Below(S, mu, k), done, value, next)
  <2> HIDE DEF g
  <2>1. QED
    BY <1>6, Zenon DEF IsLoop
<1>8. QED
  BY <1>1, <1>7

(* Two bounds do not differ in what is computed below both.                *)
LEMMA LoopsAgree ==
  ASSUME NEW S, NEW mu \in [S -> Nat], NEW done, NEW value, NEW next \in [S -> S],
         \A s \in S \ done : mu[next[s]] < mu[s],
         NEW m \in Nat, NEW n \in Nat, NEW f, NEW h,
         IsLoop(f, Below(S, mu, m), done, value, next),
         IsLoop(h, Below(S, mu, n), done, value, next)
  PROVE  \A s \in Below(S, mu, m) \cap Below(S, mu, n) : f[s] = h[s]
<1> DEFINE Bad == {s \in Below(S, mu, m) \cap Below(S, mu, n) : f[s] # h[s]}
<1> SUFFICES ASSUME Bad # {}
             PROVE  FALSE
  OBVIOUS
<1>1. PICK s \in Bad : \A t \in Bad : mu[s] <= mu[t]
  <2>1. Bad \in SUBSET S
    BY DEF Below
  <2> HIDE DEF Bad
  <2>2. QED
    BY <2>1, LeastMeasure
<1>2. s \in S /\ mu[s] \in Nat /\ mu[s] < m /\ mu[s] < n
  BY <1>1 DEF Below
<1>3. /\ f[s] = IF s \in done THEN value[s] ELSE f[next[s]]
      /\ h[s] = IF s \in done THEN value[s] ELSE h[next[s]]
  BY <1>1 DEF IsLoop
<1>4. s \notin done
  BY <1>1, <1>3
<1>5. next[s] \in Below(S, mu, m) \cap Below(S, mu, n) /\ ~(mu[s] <= mu[next[s]])
  BY <1>2, <1>4 DEF Below
<1>6. f[next[s]] = h[next[s]]
  BY <1>1, <1>5
<1>7. QED
  BY <1>1, <1>3, <1>6

(* So a loop with a measure that falls computes something from every state.*)
LEMMA LoopExists ==
  ASSUME NEW S, NEW mu \in [S -> Nat], NEW done, NEW value, NEW next \in [S -> S],
         \A s \in S \ done : mu[next[s]] < mu[s]
  PROVE  \E f : IsLoop(f, S, done, value, next)
<1> DEFINE of(k) == CHOOSE f : IsLoop(f, Below(S, mu, k), done, value, next)
           F == [s \in S |-> of(mu[s] + 1)[s]]
<1>1. \A k \in Nat : IsLoop(of(k), Below(S, mu, k), done, value, next)
  BY BoundedLoop
<1> HIDE DEF of
<1>2. ASSUME NEW s \in S
      PROVE  F[s] = IF s \in done THEN value[s] ELSE F[next[s]]
  <2> DEFINE f == of(mu[s] + 1)
             h == of(mu[next[s]] + 1)
  <2>1. /\ mu[s] \in Nat /\ mu[s] + 1 \in Nat /\ s \in Below(S, mu, mu[s] + 1)
        /\ next[s] \in S /\ mu[next[s]] \in Nat /\ mu[next[s]] + 1 \in Nat
        /\ next[s] \in Below(S, mu, mu[next[s]] + 1)
    BY DEF Below
  <2>2. /\ IsLoop(f, Below(S, mu, mu[s] + 1), done, value, next)
        /\ IsLoop(h, Below(S, mu, mu[next[s]] + 1), done, value, next)
    BY <1>1, <2>1
  <2>3. F[s] = f[s] /\ F[next[s]] = h[next[s]]
    BY <2>1
  <2> HIDE DEF f, h, F
  <2>4. f[s] = IF s \in done THEN value[s] ELSE f[next[s]]
    BY <2>1, <2>2 DEF IsLoop
  <2>5. ASSUME s \notin done
        PROVE  f[next[s]] = h[next[s]]
    <3>1. next[s] \in Below(S, mu, mu[s] + 1)
      BY <2>1, <2>5 DEF Below
    <3>2. QED
      BY <2>1, <2>2, <3>1, LoopsAgree
  <2>6. QED
    BY <2>3, <2>4, <2>5
<1>3. F = [s \in S |-> IF s \in done THEN value[s] ELSE F[next[s]]]
  <2>1. F = [s \in S |-> F[s]]
    OBVIOUS
  <2> HIDE DEF F
  <2>2. QED
    BY <1>2, <2>1
<1>4. IsLoop(F, S, done, value, next)
  <2> HIDE DEF F
  <2>1. QED
    BY <1>3 DEF IsLoop
<1>5. QED
  BY <1>4

\* The states of T that m repetitions of a step lead through.
Iterates(f, T, start, step, m) ==
  /\ f \in [0 .. m -> T] /\ f[0] = start
  /\ \A k \in 1 .. m : f[k] = step[f[k - 1]]

(* A step can be repeated any number of times.                             *)
LEMMA IteratesExist ==
  ASSUME NEW T, NEW start \in T, NEW step \in [T -> T], NEW m \in Nat
  PROVE  \E f : Iterates(f, T, start, step, m)
<1> DEFINE Good(f, n) == /\ f \in [0 .. n -> T] /\ f[0] = start
                         /\ \A k \in 1 .. n : f[k] = step[f[k - 1]]
           Fails(n) == ~(\E f : Good(f, n))
           Bad == {n \in Nat : Fails(n)}
<1>1. Bad = {}
  <2> SUFFICES ASSUME Bad # {}
               PROVE  FALSE
    OBVIOUS
  <2>1. PICK n \in Bad : \A j \in Bad : n <= j
    BY LeastNumber
  <2>2. n # 0
    <3>1. Good([k \in 0 .. 0 |-> start], 0)
      OBVIOUS
    <3>2. QED
      BY <3>1
  <2>3. n - 1 \in Nat /\ n - 1 \notin Bad
    BY <2>1, <2>2
  <2>4. PICK f : Good(f, n - 1)
    BY <2>3
  <2> DEFINE g == [k \in 0 .. n |-> IF k = n THEN step[f[n - 1]] ELSE f[k]]
  <2>5. /\ f \in [0 .. (n - 1) -> T] /\ n - 1 \in 0 .. (n - 1) /\ n \in 1 .. n
        /\ \A k \in 0 .. (n - 1) : k \in 0 .. n /\ k # n
    BY <2>2, <2>3, <2>4
  <2>6. step[f[n - 1]] \in T
    BY <2>5
  <2>7. g[n] = step[f[n - 1]] /\ \A k \in 0 .. (n - 1) : g[k] = f[k]
    BY <2>3, <2>5
  <2>8. g \in [0 .. n -> T]
    <3>1. \A k \in 0 .. n : k = n \/ k \in 0 .. (n - 1)
      BY <2>3
    <3>2. QED
      BY <2>5, <2>6, <3>1
  <2> HIDE DEF g
  <2>9. g[0] = start
    BY <2>3, <2>4, <2>7
  <2>10. ASSUME NEW k \in 1 .. n
         PROVE  g[k] = step[g[k - 1]]
    <3>1. k - 1 \in 0 .. (n - 1) /\ (k = n \/ k \in 1 .. (n - 1))
      BY <2>3
    <3>2. k \in 1 .. (n - 1) => k \in 0 .. (n - 1)
      BY <2>3
    <3>3. QED
      BY <2>4, <2>7, <3>1, <3>2
  <2>11. Good(g, n)
    BY <2>8, <2>9, <2>10
  <2>12. QED
    BY <2>1, <2>11
<1>2. PICK f : Good(f, m)
  BY <1>1
<1>3. QED
  BY <1>2 DEF Iterates

-----------------------------------------------------------------------------
(* Sequences as the sets of what they hold.                                *)

LEMMA HeadAndTail ==
  ASSUME NEW S, NEW q \in Seq(S), q # << >>
  PROVE  /\ Head(q) \in S /\ Tail(q) \in Seq(S) /\ Len(Tail(q)) = Len(q) - 1
         /\ Len(q) \in Nat /\ Len(q) > 0
         /\ Range(q) = {Head(q)} \cup Range(Tail(q))
<1>1. /\ Head(q) \in S /\ Tail(q) \in Seq(S) /\ Len(Tail(q)) = Len(q) - 1
      /\ \A i \in 1 .. Len(Tail(q)) : Tail(q)[i] = q[i + 1]
      /\ Len(q) \in Nat /\ Len(q) > 0 /\ Head(q) = q[1]
  BY HeadTailProperties, EmptySeq
<1>2. DOMAIN q = 1 .. Len(q) /\ DOMAIN Tail(q) = 1 .. (Len(q) - 1)
  BY <1>1, LenProperties
<1>3. \A x : x \in Range(q) <=> x = Head(q) \/ x \in Range(Tail(q))
  <2>1. ASSUME NEW i \in DOMAIN q
        PROVE  q[i] = Head(q) \/ q[i] \in Range(Tail(q))
    <3>1. CASE i = 1
      BY <1>1, <3>1
    <3>2. CASE i # 1
      <4>1. i - 1 \in DOMAIN Tail(q) /\ Tail(q)[i - 1] = q[i]
        BY <1>1, <1>2, <3>2
      <4>2. QED
        BY <4>1 DEF Range
    <3>3. QED
      BY <3>1, <3>2
  <2>2. Head(q) \in Range(q)
    <3>1. 1 \in DOMAIN q
      BY <1>1, <1>2
    <3>2. QED
      BY <1>1, <3>1 DEF Range
  <2>3. ASSUME NEW i \in DOMAIN Tail(q)
        PROVE  Tail(q)[i] \in Range(q)
    <3>1. i + 1 \in DOMAIN q /\ Tail(q)[i] = q[i + 1]
      BY <1>1, <1>2
    <3>2. QED
      BY <3>1 DEF Range
  <2>4. \A x \in Range(q) : \E i \in DOMAIN q : x = q[i]
    BY DEF Range
  <2>5. \A x \in Range(Tail(q)) : \E i \in DOMAIN Tail(q) : x = Tail(q)[i]
    BY DEF Range
  <2>6. QED
    BY <2>1, <2>2, <2>3, <2>4, <2>5
<1>4. QED
  BY <1>1, <1>3

LEMMA HeldByConcat ==
  ASSUME NEW S, NEW q \in Seq(S), NEW r \in Seq(S)
  PROVE  /\ q \o r \in Seq(S) /\ Len(q \o r) = Len(q) + Len(r)
         /\ Range(q \o r) = Range(q) \cup Range(r)
<1>1. /\ q \o r \in Seq(S) /\ Len(q \o r) = Len(q) + Len(r)
      /\ Len(q) \in Nat /\ Len(r) \in Nat
      /\ DOMAIN q = 1 .. Len(q) /\ DOMAIN r = 1 .. Len(r)
      /\ DOMAIN (q \o r) = 1 .. (Len(q) + Len(r))
      /\ \A i \in 1 .. (Len(q) + Len(r)) :
           (q \o r)[i] = IF i <= Len(q) THEN q[i] ELSE r[i - Len(q)]
  BY ConcatProperties, LenProperties
<1> DEFINE c == q \o r
<1> HIDE DEF c
<1>2. /\ DOMAIN c = 1 .. (Len(q) + Len(r))
      /\ \A i \in DOMAIN q : i \in DOMAIN c /\ c[i] = q[i]
      /\ \A i \in DOMAIN r : i + Len(q) \in DOMAIN c /\ c[i + Len(q)] = r[i]
      /\ \A i \in DOMAIN c : \/ i \in DOMAIN q /\ c[i] = q[i]
                             \/ i - Len(q) \in DOMAIN r /\ c[i] = r[i - Len(q)]
  BY <1>1 DEF c
<1>3. Range(c) = Range(q) \cup Range(r)
  BY <1>2 DEF Range
<1>4. QED
  BY <1>1, <1>3 DEF c

LEMMA HeldByAppend ==
  ASSUME NEW S, NEW q \in Seq(S), NEW x \in S
  PROVE  /\ Append(q, x) \in Seq(S) /\ Range(Append(q, x)) = Range(q) \cup {x}
         /\ IsInjective(q) /\ x \notin Range(q) => IsInjective(Append(q, x))
<1> DEFINE a == Append(q, x)
<1>1. /\ a \in Seq(S) /\ Len(q) \in Nat /\ DOMAIN q = 1 .. Len(q)
      /\ DOMAIN a = 1 .. (Len(q) + 1) /\ a[Len(q) + 1] = x
      /\ \A i \in 1 .. Len(q) : a[i] = q[i]
  OBVIOUS
<1> HIDE DEF a
<1>2. /\ \A i \in DOMAIN q : i \in DOMAIN a /\ a[i] = q[i]
      /\ Len(q) + 1 \in DOMAIN a
      /\ \A i \in DOMAIN a : i \in DOMAIN q \/ i = Len(q) + 1
  BY <1>1
<1>3. Range(a) = Range(q) \cup {x}
  BY <1>1, <1>2 DEF Range
<1>4. ASSUME IsInjective(q), x \notin Range(q)
      PROVE  IsInjective(a)
  BY <1>1, <1>2, <1>4 DEF IsInjective, Range
<1>5. QED
  BY <1>1, <1>3, <1>4 DEF a

(* The elements of a finite set, one after the other.                      *)
LEMMA SetInSequence ==
  ASSUME NEW S, IsFiniteSet(S)
  PROVE  /\ SetToSeq(S) \in Seq(S) /\ Len(SetToSeq(S)) = Cardinality(S)
         /\ Range(SetToSeq(S)) = S
<1> DEFINE n == Cardinality(S)
           q == SetToSeq(S)
<1>1. n \in Nat /\ ExistsBijection(1 .. n, S)
  BY FS_CardinalityType
<1>2. \E f \in [1 .. n -> S] : IsInjective(f)
  BY <1>1 DEF ExistsBijection, Bijection, Injection
<1>3. q \in [1 .. n -> S] /\ IsInjective(q)
  BY <1>2 DEF SetToSeq
<1> HIDE DEF q
<1>4. q \in Injection(1 .. n, S) /\ IsFiniteSet(1 .. n) /\ Cardinality(1 .. n) = n
  BY <1>1, <1>3, FS_Interval DEF Injection
<1>5. q \in Surjection(1 .. n, S)
  BY <1>4, FS_Injection DEF n
<1>6. Range(q) = S
  BY <1>3, <1>5 DEF Surjection, Range
<1>7. q \in Seq(S) /\ Len(q) = n
  <2> HIDE DEF n
  <2>1. QED
    BY <1>1, <1>3
<1>8. QED
  BY <1>6, <1>7 DEF q

-----------------------------------------------------------------------------
(* The traversal of the execution flow.                                    *)

SearchRec == [queue : Seq(NodeIds), visited : SUBSET NodeIds, ordered : Seq(NodeIds)]

\* One turn of the loop.
Turn(g, s) ==
  IF Head(s.queue) \in s.visited
  THEN [s EXCEPT !.queue = Tail(@)]
  ELSE [queue   |-> Tail(s.queue) \o SetToSeq(Targets(g, Head(s.queue))),
        visited |-> s.visited \cup {Head(s.queue)},
        ordered |-> IF Head(s.queue) \in g.nodes
                    THEN Append(s.ordered, Head(s.queue)) ELSE s.ordered]

\* A node that is visited counts for more than all it can add to the queue.
Measure(s) ==
  (Cardinality(NodeIds) + 1) * Cardinality(NodeIds \ s.visited) + Len(s.queue)

LEMMA NodesFinite ==
  /\ IsFiniteSet(NodeIds) /\ Cardinality(NodeIds) \in Nat
  /\ \A V \in SUBSET NodeIds :
       /\ IsFiniteSet(V) /\ Cardinality(V) \in Nat /\ Cardinality(V) <= Cardinality(NodeIds)
BY GraphAssumption, FS_CardinalityType, FS_Subset

LEMMA TargetsAreNodes ==
  ASSUME NEW g \in Graphs, NEW n
  PROVE  /\ Targets(g, n) \in SUBSET NodeIds
         /\ SetToSeq(Targets(g, n)) \in Seq(NodeIds)
         /\ Len(SetToSeq(Targets(g, n))) <= Cardinality(NodeIds)
         /\ Range(SetToSeq(Targets(g, n))) = Targets(g, n)
<1>1. Targets(g, n) \in SUBSET NodeIds
  BY DEF Targets, Graphs, Edges
<1>2. /\ SetToSeq(Targets(g, n)) \in Seq(Targets(g, n))
      /\ Len(SetToSeq(Targets(g, n))) = Cardinality(Targets(g, n))
      /\ Range(SetToSeq(Targets(g, n))) = Targets(g, n)
  BY <1>1, NodesFinite, SetInSequence
<1>3. SetToSeq(Targets(g, n)) \in Seq(NodeIds)
  BY <1>1, <1>2, SeqMonotonic
<1>4. QED
  BY <1>1, <1>2, <1>3, NodesFinite

\* The head leaves the queue, and is visited together with what it leads to, unless it was.
Turned(g, s, t, c) ==
  /\ t \in SearchRec /\ c \in NodeIds
  /\ Range(s.queue) = {c} \cup Range(Tail(s.queue))
  /\ \/ /\ c \in s.visited
        /\ t.visited = s.visited /\ t.ordered = s.ordered
        /\ Range(t.queue) = Range(Tail(s.queue))
        /\ Len(t.queue) = Len(s.queue) - 1
     \/ /\ c \notin s.visited /\ t.visited = s.visited \cup {c}
        /\ t.ordered = IF c \in g.nodes THEN Append(s.ordered, c) ELSE s.ordered
        /\ Range(t.queue) = Range(Tail(s.queue)) \cup Targets(g, c)
        /\ Len(t.queue) <= Len(s.queue) - 1 + Cardinality(NodeIds)

LEMMA TurnEffects ==
  ASSUME NEW g \in Graphs, NEW s \in SearchRec, s.queue # << >>
  PROVE  Turned(g, s, Turn(g, s), Head(s.queue))
<1> DEFINE c == Head(s.queue)
<1> SUFFICES ASSUME NEW t, t = Turn(g, s)
             PROVE  Turned(g, s, t, c)
  OBVIOUS
<1>1. /\ s.queue \in Seq(NodeIds) /\ s.visited \in SUBSET NodeIds
      /\ s.ordered \in Seq(NodeIds)
  BY DEF SearchRec
<1>2. /\ c \in NodeIds /\ Tail(s.queue) \in Seq(NodeIds)
      /\ Len(Tail(s.queue)) = Len(s.queue) - 1
      /\ Range(s.queue) = {c} \cup Range(Tail(s.queue))
      /\ Len(s.queue) \in Nat
  BY <1>1, HeadAndTail
<1> HIDE DEF c
<1>3. CASE c \in s.visited
  <2>1. t = [s EXCEPT !.queue = Tail(@)]
    BY <1>3 DEF Turn, c
  <2>2. /\ t.queue = Tail(s.queue) /\ t.visited = s.visited /\ t.ordered = s.ordered
        /\ t \in SearchRec
    BY <1>2, <2>1 DEF SearchRec
  <2>3. QED
    BY <1>2, <1>3, <2>2 DEF Turned
<1>4. CASE c \notin s.visited
  <2> DEFINE q == Tail(s.queue) \o SetToSeq(Targets(g, c))
             o == IF c \in g.nodes THEN Append(s.ordered, c) ELSE s.ordered
  <2>1. t = [queue |-> q, visited |-> s.visited \cup {c}, ordered |-> o]
    BY <1>4 DEF Turn, c
  <2>2. /\ SetToSeq(Targets(g, c)) \in Seq(NodeIds)
        /\ Len(SetToSeq(Targets(g, c))) <= Cardinality(NodeIds)
        /\ Range(SetToSeq(Targets(g, c))) = Targets(g, c)
        /\ Len(SetToSeq(Targets(g, c))) \in Nat
    BY TargetsAreNodes, LenProperties
  <2>3. /\ q \in Seq(NodeIds) /\ Range(q) = Range(Tail(s.queue)) \cup Targets(g, c)
        /\ Len(q) <= Len(s.queue) - 1 + Cardinality(NodeIds)
    <3> DEFINE left == Tail(s.queue)
               new == SetToSeq(Targets(g, c))
    <3>1. /\ left \in Seq(NodeIds) /\ new \in Seq(NodeIds) /\ Range(new) = Targets(g, c)
          /\ Len(left) = Len(s.queue) - 1 /\ Len(new) <= Cardinality(NodeIds)
          /\ Len(new) \in Nat
      BY <1>2, <2>2
    <3> HIDE DEF left, new
    <3>2. /\ left \o new \in Seq(NodeIds) /\ Len(left \o new) = Len(left) + Len(new)
          /\ Range(left \o new) = Range(left) \cup Range(new)
      BY <3>1, HeldByConcat
    <3>3. Len(left \o new) <= Len(s.queue) - 1 + Cardinality(NodeIds)
      <4>1. Cardinality(NodeIds) \in Nat /\ Len(s.queue) \in Nat
        BY <1>2, NodesFinite
      <4> DEFINE N == Cardinality(NodeIds)
      <4> HIDE DEF N
      <4>2. Len(left \o new) = Len(s.queue) - 1 + Len(new) /\ Len(new) <= N /\ N \in Nat
        BY <3>1, <3>2, <4>1 DEF N
      <4>3. Len(left \o new) <= Len(s.queue) - 1 + N
        BY <3>1, <4>1, <4>2
      <4>4. QED
        BY <4>3 DEF N
    <3>4. QED
      BY <3>1, <3>2, <3>3 DEF left, new
  <2>4. o \in Seq(NodeIds)
    BY <1>1, <1>2, HeldByAppend
  <2> HIDE DEF q
  <2>5. t \in SearchRec /\ t.queue = q /\ t.visited = s.visited \cup {c} /\ t.ordered = o
    <3> HIDE DEF o
    <3>1. QED
      BY <1>1, <1>2, <2>1, <2>3, <2>4 DEF SearchRec
  <2>6. QED
    BY <1>2, <1>4, <2>3, <2>5 DEF Turned
<1>5. QED
  BY <1>3, <1>4

LEMMA MeasureTyped ==
  ASSUME NEW s \in SearchRec
  PROVE  Measure(s) \in Nat
<1>1. Cardinality(NodeIds) \in Nat /\ Cardinality(NodeIds \ s.visited) \in Nat
  BY NodesFinite
<1>2. Len(s.queue) \in Nat
  BY DEF SearchRec
<1>3. (Cardinality(NodeIds) + 1) * Cardinality(NodeIds \ s.visited) \in Nat
  BY <1>1
<1>4. QED
  BY <1>2, <1>3 DEF Measure

LEMMA TurnFalls ==
  ASSUME NEW g \in Graphs, NEW s \in SearchRec, s.queue # << >>
  PROVE  Measure(Turn(g, s)) < Measure(s)
<1>1. PICK t, c : t = Turn(g, s) /\ Turned(g, s, t, c)
  BY TurnEffects
<1>2. /\ t \in SearchRec /\ c \in NodeIds
      /\ \/ t.visited = s.visited /\ Len(t.queue) = Len(s.queue) - 1
         \/ /\ c \notin s.visited /\ t.visited = s.visited \cup {c}
            /\ Len(t.queue) <= Len(s.queue) - 1 + Cardinality(NodeIds)
  BY <1>1 DEF Turned
<1> DEFINE N == Cardinality(NodeIds)
           a == Cardinality(NodeIds \ s.visited)
           b == Cardinality(NodeIds \ t.visited)
<1>3. /\ N \in Nat /\ a \in Nat /\ b \in Nat
      /\ Len(s.queue) \in Nat /\ Len(t.queue) \in Nat
  BY <1>2, NodesFinite DEF SearchRec
<1>4. Measure(s) = (N + 1) * a + Len(s.queue) /\ Measure(t) = (N + 1) * b + Len(t.queue)
  BY DEF Measure
<1>5. CASE t.visited = s.visited /\ Len(t.queue) = Len(s.queue) - 1
  <2>1. (N + 1) * a \in Nat
    BY <1>3
  <2>2. b = a
    BY <1>5
  <2> HIDE DEF a, b, N
  <2> DEFINE p == (N + 1) * a
  <2>3. p \in Nat /\ Measure(s) = p + Len(s.queue) /\ Measure(t) = p + Len(t.queue)
    BY <1>4, <2>1, <2>2
  <2> HIDE DEF p
  <2>4. QED
    BY <1>1, <1>3, <1>5, <2>3
<1>6. CASE /\ c \notin s.visited /\ t.visited = s.visited \cup {c}
           /\ Len(t.queue) <= Len(s.queue) - 1 + N
  <2>1. b = a - 1
    <3>1. NodeIds \ t.visited = (NodeIds \ s.visited) \ {c} /\ c \in NodeIds \ s.visited
      BY <1>2, <1>6
    <3>2. IsFiniteSet(NodeIds \ s.visited)
      BY NodesFinite
    <3>3. QED
      BY <3>1, <3>2, FS_RemoveElement
  <2> HIDE DEF a, b, N
  <2>2. (N + 1) * b = (N + 1) * a - (N + 1)
    BY <1>3, <2>1
  <2>3. (N + 1) * a \in Nat
    BY <1>3
  <2> DEFINE p == (N + 1) * a
             q == (N + 1) * b
  <2>4. p \in Nat /\ q = p - (N + 1) /\ Measure(s) = p + Len(s.queue)
        /\ Measure(t) = q + Len(t.queue)
    BY <1>4, <2>2, <2>3
  <2> HIDE DEF p, q
  <2>5. QED
    BY <1>1, <1>3, <1>6, <2>4
<1>7. QED
  BY <1>2, <1>5, <1>6

\* f is the loop of the traversal.
IsTraversal(f, g) ==
  f = [s \in SearchRec |-> IF s.queue = << >> THEN s.ordered ELSE f[Turn(g, s)]]

StartOf(root) == [queue |-> <<root>>, visited |-> {}, ordered |-> << >>]

(* The loop ends from every state, so the recursive definition of the      *)
(* traversal defines a function.                                           *)
LEMMA TraversalExists ==
  ASSUME NEW g \in Graphs
  PROVE  \E f : IsTraversal(f, g)
<1> DEFINE mu == [s \in SearchRec |-> Measure(s)]
           done == {s \in SearchRec : s.queue = << >>}
           value == [s \in SearchRec |-> s.ordered]
           next == [s \in SearchRec |-> IF s.queue = << >> THEN s ELSE Turn(g, s)]
<1>1. mu \in [SearchRec -> Nat]
  BY MeasureTyped
<1>2. next \in [SearchRec -> SearchRec]
  BY TurnEffects DEF Turned
<1>3. \A s \in SearchRec \ done : mu[next[s]] < mu[s]
  <2> SUFFICES ASSUME NEW s \in SearchRec, s.queue # << >>
               PROVE  mu[next[s]] < mu[s]
    OBVIOUS
  <2>1. next[s] = Turn(g, s) /\ next[s] \in SearchRec
    BY <1>2
  <2>2. mu[next[s]] = Measure(Turn(g, s)) /\ mu[s] = Measure(s)
    BY <2>1
  <2>3. QED
    BY <2>2, TurnFalls
<1>4. PICK f : IsLoop(f, SearchRec, done, value, next)
  <2> HIDE DEF mu, done, value, next
  <2>1. QED
    BY <1>1, <1>2, <1>3, LoopExists
<1>5. f = [s \in SearchRec |-> IF s \in done THEN value[s] ELSE f[next[s]]]
  BY <1>4, Zenon DEF IsLoop
<1>6. \A s \in SearchRec : (IF s \in done THEN value[s] ELSE f[next[s]])
                             = (IF s.queue = << >> THEN s.ordered ELSE f[Turn(g, s)])
  OBVIOUS
<1>7. f = [s \in SearchRec |-> IF s.queue = << >> THEN s.ordered ELSE f[Turn(g, s)]]
  <2> HIDE DEF done, value, next
  <2>1. QED
    BY <1>5, <1>6
<1>8. QED
  BY <1>7, Zenon DEF IsTraversal

LEMMA TraversalIsLoop ==
  ASSUME NEW g \in Graphs, NEW root
  PROVE  \E f : IsTraversal(f, g) /\ Traverse(g, root) = f[StartOf(root)]
<1> DEFINE f == CHOOSE h : IsTraversal(h, g)
<1>1. IsTraversal(f, g)
  BY TraversalExists
<1>2. Traverse(g, root) = f[StartOf(root)]
  BY Zenon DEF Traverse, IsTraversal, SearchRec, Turn, StartOf
<1>3. QED
  BY <1>1, <1>2

\* Nothing leads out of a closed set of nodes.
Closed(g, C) == C \in SUBSET NodeIds /\ \A n \in C : Targets(g, n) \subseteq C

\* The smallest closed set with the root in it.
IsReach(g, root, V) ==
  /\ Closed(g, V) /\ root \in V
  /\ \A C : Closed(g, C) /\ root \in C => V \subseteq C

\* What is visited and what is still in the queue, on the way to it.
SearchInv(g, root, s) ==
  /\ root \in s.visited \cup Range(s.queue)
  /\ \A C : Closed(g, C) /\ root \in C => s.visited \cup Range(s.queue) \subseteq C
  /\ \A n \in s.visited : Targets(g, n) \subseteq s.visited \cup Range(s.queue)
  /\ Range(s.ordered) = s.visited \cap g.nodes
  /\ IsInjective(s.ordered)

\* What a traversal should return.
Found(g, root, r) ==
  /\ r \in Seq(NodeIds) /\ IsInjective(r)
  /\ \E V : IsReach(g, root, V) /\ Range(r) = V \cap g.nodes

LEMMA TurnKeeps ==
  ASSUME NEW g \in Graphs, NEW root, NEW s \in SearchRec, s.queue # << >>,
         SearchInv(g, root, s)
  PROVE  SearchInv(g, root, Turn(g, s))
<1>1. PICK t, c : t = Turn(g, s) /\ Turned(g, s, t, c)
  BY TurnEffects
<1> DEFINE seen == s.visited \cup Range(s.queue)
           now == t.visited \cup Range(t.queue)
<1>2. /\ t \in SearchRec /\ c \in NodeIds
      /\ Range(s.queue) = {c} \cup Range(Tail(s.queue))
      /\ \/ /\ c \in s.visited
            /\ t.visited = s.visited /\ t.ordered = s.ordered
            /\ Range(t.queue) = Range(Tail(s.queue))
         \/ /\ c \notin s.visited /\ t.visited = s.visited \cup {c}
            /\ t.ordered = IF c \in g.nodes THEN Append(s.ordered, c) ELSE s.ordered
            /\ Range(t.queue) = Range(Tail(s.queue)) \cup Targets(g, c)
  BY <1>1 DEF Turned
<1>3. seen \subseteq now /\ now \subseteq seen \cup Targets(g, c)
  BY <1>2
<1>4. root \in now
  BY <1>3 DEF SearchInv
<1>5. ASSUME NEW C, Closed(g, C), root \in C
      PROVE  now \subseteq C
  <2>1. seen \subseteq C
    BY <1>5 DEF SearchInv
  <2>2. c \in C
    BY <1>2, <2>1
  <2>3. QED
    BY <1>3, <1>5, <2>1, <2>2 DEF Closed
<1>6. ASSUME NEW n \in t.visited
      PROVE  Targets(g, n) \subseteq now
  <2>1. CASE n \in s.visited
    BY <1>3, <2>1 DEF SearchInv
  <2>2. CASE n \notin s.visited
    BY <1>2, <1>6, <2>2
  <2>3. QED
    BY <2>1, <2>2
<1>7. Range(t.ordered) = t.visited \cap g.nodes /\ IsInjective(t.ordered)
  <2>1. CASE t.ordered = Append(s.ordered, c) /\ c \notin s.visited /\ c \in g.nodes
             /\ t.visited = s.visited \cup {c}
    <3>1. s.ordered \in Seq(NodeIds) /\ c \notin Range(s.ordered)
      BY <2>1 DEF SearchRec, SearchInv
    <3>2. /\ Range(Append(s.ordered, c)) = Range(s.ordered) \cup {c}
          /\ IsInjective(Append(s.ordered, c))
      BY <1>2, <3>1, HeldByAppend DEF SearchInv
    <3>3. QED
      BY <2>1, <3>2 DEF SearchInv
  <2>2. CASE t.ordered = s.ordered /\ t.visited \cap g.nodes = s.visited \cap g.nodes
    BY <2>2 DEF SearchInv
  <2>3. QED
    BY <1>2, <2>1, <2>2
<1>8. QED
  BY <1>1, <1>4, <1>5, <1>6, <1>7 DEF SearchInv

(* Once the queue is empty, what is visited is what can be reached.        *)
LEMMA SearchEnds ==
  ASSUME NEW g \in Graphs, NEW root, NEW s \in SearchRec, s.queue = << >>,
         SearchInv(g, root, s)
  PROVE  Found(g, root, s.ordered)
<1>1. Range(s.queue) = {}
  BY DEF Range
<1>2. s.visited \in SUBSET NodeIds /\ s.ordered \in Seq(NodeIds)
  BY DEF SearchRec
<1>3. IsReach(g, root, s.visited)
  BY <1>1, <1>2 DEF IsReach, Closed, SearchInv
<1>4. QED
  BY <1>2, <1>3 DEF Found, SearchInv

(* The traversal of any graph meets exactly what the root leads to.        *)
LEMMA TraversalFinds ==
  ASSUME NEW g \in Graphs, NEW root \in NodeIds
  PROVE  Found(g, root, Traverse(g, root))
<1>1. PICK f : IsTraversal(f, g) /\ Traverse(g, root) = f[StartOf(root)]
  BY TraversalIsLoop
<1> DEFINE mu == [s \in SearchRec |-> Measure(s)]
           Bad == {s \in SearchRec : SearchInv(g, root, s) /\ ~Found(g, root, f[s])}
<1>2. Bad = {}
  <2> SUFFICES ASSUME Bad # {}
               PROVE  FALSE
    OBVIOUS
  <2>1. PICK s \in Bad : \A t \in Bad : mu[s] <= mu[t]
    <3>1. mu \in [SearchRec -> Nat] /\ Bad \in SUBSET SearchRec
      BY MeasureTyped
    <3> HIDE DEF mu, Bad
    <3>2. QED
      BY <3>1, LeastMeasure
  <2>2. s \in SearchRec /\ SearchInv(g, root, s) /\ ~Found(g, root, f[s])
    OBVIOUS
  <2>3. f[s] = IF s.queue = << >> THEN s.ordered ELSE f[Turn(g, s)]
    BY <1>1, <2>2 DEF IsTraversal
  <2>4. s.queue # << >>
    BY <2>2, <2>3, SearchEnds
  <2>5. Turn(g, s) \in SearchRec /\ Measure(Turn(g, s)) < Measure(s)
    BY <2>2, <2>4, TurnEffects, TurnFalls DEF Turned
  <2>6. SearchInv(g, root, Turn(g, s))
    BY <2>2, <2>4, TurnKeeps
  <2>7. Turn(g, s) \in Bad
    BY <2>2, <2>3, <2>4, <2>5, <2>6
  <2>8. Measure(s) <= Measure(Turn(g, s)) /\ Measure(s) \in Nat /\ Measure(Turn(g, s)) \in Nat
    BY <2>1, <2>2, <2>5, <2>7, MeasureTyped
  <2>9. QED
    BY <2>5, <2>8
<1>3. StartOf(root) \in SearchRec /\ SearchInv(g, root, StartOf(root))
  <2>1. <<root>> \in Seq(NodeIds) /\ Range(<<root>>) = {root}
    BY DEF Range
  <2>2. << >> \in Seq(NodeIds) /\ Range(<< >>) = {} /\ IsInjective(<< >>)
    BY DEF Range, IsInjective
  <2>3. QED
    BY <2>1, <2>2 DEF StartOf, SearchRec, SearchInv
<1>4. QED
  BY <1>1, <1>2, <1>3

(* Reachable is what can be reached: a set that grows with every step it   *)
(* is not closed is closed after as many steps as there are nodes.         *)
LEMMA ReachableIsReach ==
  ASSUME NEW g \in Graphs, NEW root \in NodeIds
  PROVE  IsReach(g, root, Reachable(g, root))
<1> DEFINE N == Cardinality(NodeIds)
           Sets == SUBSET NodeIds
           Wider(V) == V \cup UNION {Targets(g, n) : n \in V}
           step == [V \in Sets |-> Wider(V)]
           IsNear(f) == f = [k \in 0 .. N |-> IF k = 0 THEN {root}
                                              ELSE f[k - 1] \cup UNION {Targets(g, n) : n \in f[k - 1]}]
           near == CHOOSE f : IsNear(f)
<1>1. N \in Nat
  BY NodesFinite
<1>2. ASSUME NEW V \in Sets
      PROVE  Wider(V) \in Sets
  BY TargetsAreNodes
<1>3. \E f : IsNear(f)
  <2>1. step \in [Sets -> Sets] /\ {root} \in Sets
    BY <1>2
  <2>2. PICK f : Iterates(f, Sets, {root}, step, N)
    <3> HIDE DEF N, Sets, step, Wider, IsNear, near
    <3>1. QED
      BY <1>1, <2>1, IteratesExist
  <2>3. ASSUME NEW k \in 0 .. N
        PROVE  f[k] = IF k = 0 THEN {root} ELSE Wider(f[k - 1])
    <3>1. CASE k = 0
      BY <2>2, <3>1 DEF Iterates
    <3>2. CASE k # 0
      <4>1. k \in 1 .. N /\ k - 1 \in 0 .. N
        BY <1>1, <3>2
      <4>2. f[k - 1] \in Sets /\ f[k] = step[f[k - 1]]
        BY <2>2, <4>1 DEF Iterates
      <4> HIDE DEF Wider, Sets
      <4>3. QED
        BY <3>2, <4>2
    <3>3. QED
      BY <3>1, <3>2
  <2>4. IsNear(f)
    <3>1. f = [k \in 0 .. N |-> f[k]]
      BY <2>2 DEF Iterates
    <3>2. QED
      BY <2>3, <3>1
  <2>5. QED
    BY <2>4
<1>4. Reachable(g, root) = near[N]
  BY Zenon DEF Reachable
<1>5. IsNear(near)
  BY <1>3, Zenon
<1> HIDE DEF near
<1>6. /\ near[0] = {root}
      /\ \A k \in 1 .. N : near[k] = Wider(near[k - 1])
  BY <1>1, <1>5
<1> DEFINE P(k) == /\ near[k] \in Sets /\ root \in near[k]
                   /\ \A C : Closed(g, C) /\ root \in C => near[k] \subseteq C
                   /\ Closed(g, near[k]) \/ Cardinality(near[k]) > k
           Bad == {k \in 0 .. N : ~P(k)}
<1>7. P(0)
  BY <1>6, FS_Singleton
<1>8. ASSUME NEW k \in 1 .. N, P(k - 1)
      PROVE  P(k)
  <2> DEFINE V == near[k - 1]
             W == near[k]
  <2>1. /\ V \in Sets /\ root \in V /\ W = Wider(V) /\ W \in Sets /\ V \subseteq W
        /\ \A C : Closed(g, C) /\ root \in C => V \subseteq C
        /\ Closed(g, V) \/ Cardinality(V) > k - 1
    BY <1>2, <1>6, <1>8
  <2>2. ASSUME NEW C, Closed(g, C), root \in C
        PROVE  W \subseteq C
    <3>1. V \subseteq C /\ \A n \in V : Targets(g, n) \subseteq C
      BY <2>1, <2>2 DEF Closed
    <3>2. QED
      BY <2>1, <3>1
  <2>3. Closed(g, W) \/ Cardinality(W) > k
    <3>1. CASE Closed(g, V)
      <4>1. W = V
        BY <2>1, <3>1 DEF Closed
      <4>2. QED
        BY <3>1, <4>1
    <3>2. CASE ~Closed(g, V)
      <4>1. V # W
        BY <2>1, <3>2 DEF Closed
      <4>2. IsFiniteSet(W) /\ Cardinality(W) \in Nat /\ Cardinality(V) \in Nat
        BY <2>1, NodesFinite
      <4>3. Cardinality(V) <= Cardinality(W) /\ Cardinality(V) # Cardinality(W)
        BY <2>1, <4>1, <4>2, FS_Subset
      <4>4. Cardinality(V) > k - 1
        BY <2>1, <3>2
      <4> HIDE DEF V, W
      <4>5. QED
        BY <1>1, <4>2, <4>3, <4>4
    <3>3. QED
      BY <3>1, <3>2
  <2>4. QED
    BY <2>1, <2>2, <2>3
<1>9. Bad = {}
  <2> SUFFICES ASSUME Bad # {}
               PROVE  FALSE
    OBVIOUS
  <2> HIDE DEF P
  <2>1. PICK k \in Bad : \A j \in Bad : k <= j
    <3>1. Bad \in SUBSET Nat
      BY <1>1
    <3>2. QED
      BY <3>1, LeastNumber
  <2>2. k \in 1 .. N /\ k - 1 \in 0 .. N /\ ~(k <= k - 1)
    BY <1>1, <1>7, <2>1
  <2>3. P(k - 1)
    BY <2>1, <2>2
  <2>4. QED
    BY <1>8, <2>1, <2>2, <2>3
<1>10. P(N)
  <2> HIDE DEF P
  <2>1. QED
    BY <1>1, <1>9
<1>11. Closed(g, near[N])
  <2>1. Cardinality(near[N]) <= N /\ Cardinality(near[N]) \in Nat
    BY <1>10, NodesFinite
  <2>2. QED
    BY <1>1, <1>10, <2>1
<1>12. QED
  BY <1>4, <1>10, <1>11 DEF IsReach

(* So the traversal meets every reachable node exactly once.               *)
LEMMA TraversalMeetsReachable ==
  ASSUME NEW g \in Graphs, NEW root \in NodeIds
  PROVE  /\ Traverse(g, root) \in Seq(NodeIds) /\ IsInjective(Traverse(g, root))
         /\ Range(Traverse(g, root)) = Reachable(g, root) \cap g.nodes
<1>1. PICK V : IsReach(g, root, V) /\ Range(Traverse(g, root)) = V \cap g.nodes
  BY TraversalFinds DEF Found
<1>2. V = Reachable(g, root)
  BY <1>1, ReachableIsReach DEF IsReach
<1>3. QED
  BY <1>1, <1>2, TraversalFinds DEF Found

(* The traversal of the canvas' graph, whatever was drawn, opened or       *)
(* parsed.                                                                 *)
THEOREM TraversalsVisitReachable == Spec => []TraversalVisitsReachable
<1>1. BuilderInv => TraversalVisitsReachable
  <2> SUFFICES ASSUME BuilderInv
               PROVE  VisitsReachable(editor.graph)
    BY DEF TraversalVisitsReachable
  <2>1. editor.graph \in Graphs
    BY DEF BuilderInv, EditorTyped, EditorType
  <2>2. \A root \in editor.graph.nodes : root \in NodeIds
    BY <2>1 DEF Graphs
  <2>3. QED
    BY <2>1, <2>2, TraversalMeetsReachable DEF VisitsReachable
<1>2. QED
  BY <1>1, BuilderInvariant, PTL

-----------------------------------------------------------------------------
(* The recursive emission of branches.                                     *)

LEMMA TopLevelNodes ==
  ASSUME NEW g \in Graphs
  PROVE  TopLevel(g) \in SUBSET NodeIds
<1>1. ASSUME NEW kind
      PROVE  Flow(g, kind) \in SUBSET NodeIds
  <2> DEFINE entries == {n \in g.nodes : KindOf[n] = kind}
             entry == CHOOSE n \in entries : TRUE
             flow == Traverse(g, entry)
  <2>1. CASE entries = {}
    BY <2>1 DEF Flow
  <2>2. CASE entries # {}
    <3>1. entry \in g.nodes /\ entry \in NodeIds
      BY <2>2 DEF Graphs
    <3> HIDE DEF entry
    <3>2. /\ flow \in Seq(NodeIds) /\ Range(flow) = Reachable(g, entry) \cap g.nodes
          /\ entry \in Reachable(g, entry)
      BY <3>1, TraversalMeetsReachable, ReachableIsReach DEF IsReach
    <3>3. flow # << >>
      BY <3>1, <3>2 DEF Range
    <3> HIDE DEF flow
    <3>4. Tail(flow) \in Seq(NodeIds)
      BY <3>2, <3>3, HeadAndTail
    <3>5. Range(Tail(flow)) \in SUBSET NodeIds
      BY <3>4 DEF Range
    <3>6. Flow(g, kind) = Range(Tail(flow))
      BY <2>2 DEF Flow, flow, entry
    <3>7. QED
      BY <3>5, <3>6
  <2>3. QED
    BY <2>1, <2>2
<1>2. QED
  BY <1>1 DEF TopLevel

(* A branch holds what can be reached from where its edges lead.           *)
LEMMA EmitsReachable ==
  ASSUME NEW g \in Graphs, NEW n, NEW m
  PROVE  m \in Emits(g, n) <=>
           \E h \in BranchHandles(g, n) : \E e \in g.edges :
             /\ e.source = n /\ e.handle = h
             /\ m \in Reachable(g, e.target) /\ m \in g.nodes
<1>1. \A e \in g.edges : Range(Traverse(g, e.target)) = Reachable(g, e.target) \cap g.nodes
  <2> SUFFICES ASSUME NEW e \in g.edges
               PROVE  Range(Traverse(g, e.target)) = Reachable(g, e.target) \cap g.nodes
    OBVIOUS
  <2>1. e.target \in NodeIds
    BY DEF Graphs, Edges
  <2>2. QED
    BY <2>1, TraversalMeetsReachable
<1>2. \A h : m \in Downstream(g, n, h) <=>
               \E e \in g.edges : /\ e.source = n /\ e.handle = h
                                  /\ m \in Range(Traverse(g, e.target))
  BY DEF Downstream
<1>3. m \in Emits(g, n) <=> \E h \in BranchHandles(g, n) : m \in Downstream(g, n, h)
  BY Zenon DEF Emits
<1>4. QED
  BY <1>1, <1>2, <1>3

(* What a node emits also emits only what the node emits.                  *)
LEMMA EmitsTransitive ==
  ASSUME NEW g \in Graphs, NEW n, NEW m \in Emits(g, n)
  PROVE  Emits(g, m) \subseteq Emits(g, n) /\ Emits(g, n) \in SUBSET NodeIds
<1>1. Emits(g, n) \in SUBSET NodeIds
  <2>1. g.nodes \in SUBSET NodeIds
    BY DEF Graphs
  <2>2. QED
    BY <2>1, EmitsReachable
<1>2. PICK h \in BranchHandles(g, n) : \E e \in g.edges :
         /\ e.source = n /\ e.handle = h
         /\ m \in Reachable(g, e.target) /\ m \in g.nodes
  BY EmitsReachable
<1>3. PICK e \in g.edges : /\ e.source = n /\ e.handle = h
                           /\ m \in Reachable(g, e.target) /\ m \in g.nodes
  BY <1>2
<1>4. ASSUME NEW k \in Emits(g, m)
      PROVE  k \in Emits(g, n)
  <2>1. PICK d \in g.edges : d.source = m /\ k \in Reachable(g, d.target) /\ k \in g.nodes
    BY <1>4, EmitsReachable
  <2>2. e.target \in NodeIds /\ d.target \in NodeIds
    BY DEF Graphs, Edges
  <2>3. IsReach(g, e.target, Reachable(g, e.target))
        /\ IsReach(g, d.target, Reachable(g, d.target))
    BY <2>2, ReachableIsReach
  <2>4. d.target \in Targets(g, m)
    BY <2>1 DEF Targets
  <2>5. d.target \in Reachable(g, e.target)
    BY <1>3, <2>3, <2>4 DEF IsReach, Closed
  <2>6. Reachable(g, d.target) \subseteq Reachable(g, e.target)
    BY <2>3, <2>5 DEF IsReach
  <2>7. QED
    BY <1>3, <2>1, <2>6, EmitsReachable
<1>5. QED
  BY <1>1, <1>4

(* The depths of the recursion are what its recursive definition says.     *)
LEMMA EmittedAtDepths ==
  ASSUME NEW g \in Graphs
  PROVE  /\ EmittedAt(g)[0] = TopLevel(g)
         /\ \A d \in 1 .. Cardinality(NodeIds) :
              EmittedAt(g)[d] = UNION {Emits(g, n) : n \in EmittedAt(g)[d - 1]}
<1> DEFINE N == Cardinality(NodeIds)
           Sets == SUBSET NodeIds
           Within(V) == UNION {Emits(g, n) : n \in V}
           step == [V \in Sets |-> Within(V)]
           start == TopLevel(g)
           IsAt(f) == f = [d \in 0 .. N |-> IF d = 0 THEN TopLevel(g)
                                            ELSE UNION {Emits(g, n) : n \in f[d - 1]}]
           at == CHOOSE f : IsAt(f)
<1>1. N \in Nat
  BY NodesFinite
<1>2. step \in [Sets -> Sets] /\ start \in Sets
  <2>1. \A n : Emits(g, n) \in SUBSET NodeIds
    BY EmitsTransitive
  <2>2. QED
    BY <2>1, TopLevelNodes
<1>3. \E f : IsAt(f)
  <2>1. PICK f : Iterates(f, Sets, start, step, N)
    <3> HIDE DEF N, Sets, step, start
    <3>1. QED
      BY <1>1, <1>2, IteratesExist
  <2>2. ASSUME NEW d \in 0 .. N
        PROVE  f[d] = IF d = 0 THEN TopLevel(g) ELSE Within(f[d - 1])
    <3>1. CASE d = 0
      BY <2>1, <3>1 DEF Iterates
    <3>2. CASE d # 0
      <4>1. d \in 1 .. N /\ d - 1 \in 0 .. N
        BY <1>1, <3>2
      <4>2. f[d - 1] \in Sets /\ f[d] = step[f[d - 1]]
        BY <2>1, <4>1 DEF Iterates
      <4> HIDE DEF Within, Sets
      <4>3. QED
        BY <3>2, <4>2
    <3>3. QED
      BY <3>1, <3>2
  <2>3. f = [d \in 0 .. N |-> f[d]]
    BY <2>1 DEF Iterates
  <2>4. IsAt(f)
    BY <2>2, <2>3
  <2>5. QED
    BY <2>4
<1>4. EmittedAt(g) = at
  BY Zenon DEF EmittedAt
<1>5. IsAt(at)
  BY <1>3, Zenon
<1> HIDE DEF at
<1>6. at[0] = TopLevel(g) /\ \A d \in 1 .. N : at[d] = Within(at[d - 1])
  BY <1>1, <1>5
<1>7. QED
  BY <1>4, <1>6

(* A node behind its own branches is emitted at every depth.               *)
LEMMA SelfEmittingForever ==
  ASSUME NEW g \in Graphs, Throws(g)
  PROVE  EmittedAt(g)[Cardinality(NodeIds)] # {}
<1> DEFINE N == Cardinality(NodeIds)
           at == EmittedAt(g)
<1>1. PICK n \in TopLevel(g) \cup UNION {Emits(g, m) : m \in TopLevel(g)} : n \in Emits(g, n)
  BY DEF Throws
<1>2. n \in UNION {Emits(g, m) : m \in TopLevel(g)}
  BY <1>1
<1>3. N \in Nat /\ N # 0
  <2>1. n \in NodeIds
    BY <1>1, EmitsTransitive
  <2>2. QED
    BY <2>1, NodesFinite, FS_EmptySet
<1>4. /\ at[0] = TopLevel(g)
      /\ \A d \in 1 .. N : at[d] = UNION {Emits(g, m) : m \in at[d - 1]}
  BY EmittedAtDepths
<1> HIDE DEF at, N
<1> DEFINE Bad == {d \in 1 .. N : n \notin at[d]}
<1>5. Bad = {}
  <2> SUFFICES ASSUME Bad # {}
               PROVE  FALSE
    OBVIOUS
  <2>1. PICK d \in Bad : \A j \in Bad : d <= j
    <3>1. Bad \in SUBSET Nat
      OBVIOUS
    <3>2. QED
      BY <3>1, LeastNumber
  <2>2. d \in 1 .. N /\ at[d] = UNION {Emits(g, m) : m \in at[d - 1]} /\ n \notin at[d]
    BY <1>4, <2>1
  <2>3. CASE d = 1
    BY <1>2, <1>4, <2>2, <2>3
  <2>4. CASE d # 1
    <3>1. d - 1 \in 1 .. N /\ ~(d <= d - 1)
      BY <1>3, <2>2, <2>4
    <3>2. n \in at[d - 1]
      BY <2>1, <3>1
    <3>3. QED
      BY <1>1, <2>2, <3>2
  <2>5. QED
    BY <2>3, <2>4
<1>6. N \in 1 .. N
  BY <1>3
<1>7. n \in at[N]
  BY <1>5, <1>6
<1>8. QED
  BY <1>7 DEF at, N

(* Without one, every level emits less than the one above it could.        *)
LEMMA RecursionEnds ==
  ASSUME NEW g \in Graphs, ~Throws(g)
  PROVE  EmittedAt(g)[Cardinality(NodeIds)] = {}
<1> DEFINE N == Cardinality(NodeIds)
           at == EmittedAt(g)
           Once == TopLevel(g) \cup UNION {Emits(g, m) : m \in TopLevel(g)}
           P(d) == \A n \in at[d] : n \in Once /\ Cardinality(Emits(g, n)) + d < N
<1>1. /\ at[0] = TopLevel(g)
      /\ \A d \in 1 .. N : at[d] = UNION {Emits(g, m) : m \in at[d - 1]}
  BY EmittedAtDepths
<1>2. N \in Nat
  BY NodesFinite
<1>3. Once \in SUBSET NodeIds /\ \A n \in Once : n \notin Emits(g, n)
  BY TopLevelNodes, EmitsTransitive DEF Throws
<1>4. \A n : /\ Emits(g, n) \in SUBSET NodeIds /\ Cardinality(Emits(g, n)) \in Nat
             /\ IsFiniteSet(Emits(g, n))
  BY EmitsTransitive, NodesFinite
<1> HIDE DEF at
<1>5. P(0)
  <2> SUFFICES ASSUME NEW n \in at[0]
               PROVE  n \in Once /\ Cardinality(Emits(g, n)) + 0 < N
    OBVIOUS
  <2>1. n \in Once /\ n \in NodeIds /\ n \notin Emits(g, n)
    BY <1>1, <1>3
  <2>2. Emits(g, n) # NodeIds
    BY <2>1
  <2>3. Cardinality(Emits(g, n)) <= N /\ Cardinality(Emits(g, n)) # N
    BY <1>4, <2>2, GraphAssumption, FS_Subset
  <2> HIDE DEF N
  <2>4. QED
    BY <1>2, <1>4, <2>1, <2>3
<1>6. ASSUME NEW d \in 1 .. N, P(d - 1)
      PROVE  P(d)
  <2> SUFFICES ASSUME NEW n \in at[d]
               PROVE  n \in Once /\ Cardinality(Emits(g, n)) + d < N
    OBVIOUS
  <2>1. PICK m \in at[d - 1] : n \in Emits(g, m)
    BY <1>1
  <2>2. m \in Once /\ Cardinality(Emits(g, m)) + (d - 1) < N
    BY <1>6
  <2>3. Emits(g, n) \subseteq Emits(g, m)
    BY <2>1, EmitsTransitive
  <2>4. n \in Once
    <3>1. CASE m \in TopLevel(g)
      BY <2>1, <3>1
    <3>2. CASE m \notin TopLevel(g)
      <4>1. PICK t \in TopLevel(g) : m \in Emits(g, t)
        BY <2>2, <3>2
      <4>2. n \in Emits(g, t)
        BY <2>1, <4>1, EmitsTransitive
      <4>3. QED
        BY <4>2
    <3>3. QED
      BY <3>1, <3>2
  <2>5. n \notin Emits(g, n)
    BY <1>3, <2>4
  <2> DEFINE more == Emits(g, m)
             less == Emits(g, n)
  <2>6. less # more /\ less \in SUBSET more /\ IsFiniteSet(more)
    BY <1>4, <2>1, <2>3, <2>5
  <2>7. Cardinality(less) <= Cardinality(more) /\ Cardinality(less) # Cardinality(more)
    <3> HIDE DEF less, more
    <3>1. QED
      BY <2>6, FS_Subset
  <2>8. Cardinality(less) \in Nat /\ Cardinality(more) \in Nat /\ Cardinality(more) + (d - 1) < N
    BY <1>4, <2>2
  <2>9. Cardinality(less) + d < N
    <3> HIDE DEF less, more, N
    <3>1. QED
      BY <1>2, <2>7, <2>8
  <2>10. QED
    BY <2>4, <2>9
<1> HIDE DEF P
<1> DEFINE Bad == {d \in 0 .. N : ~P(d)}
<1>7. Bad = {}
  <2> SUFFICES ASSUME Bad # {}
               PROVE  FALSE
    OBVIOUS
  <2>1. PICK d \in Bad : \A j \in Bad : d <= j
    <3>1. Bad \in SUBSET Nat
      BY <1>2
    <3>2. QED
      BY <3>1, LeastNumber
  <2>2. d \in 1 .. N /\ d - 1 \in 0 .. N /\ ~(d <= d - 1)
    BY <1>2, <1>5, <2>1
  <2>3. QED
    BY <1>6, <2>1, <2>2
<1>8. P(N)
  BY <1>2, <1>7
<1>9. ASSUME NEW n \in at[N]
      PROVE  FALSE
  <2>1. Cardinality(Emits(g, n)) + N < N /\ Cardinality(Emits(g, n)) \in Nat
    BY <1>4, <1>8, <1>9 DEF P
  <2> HIDE DEF N
  <2>2. QED
    BY <1>2, <2>1
<1>10. QED
  BY <1>9 DEF at

(* Generation throws exactly when its recursion has no bound, for every    *)
(* graph of the canvas: generatePython and emitNodeSnippet.                *)
THEOREM ThrowsWhenUnbounded == Spec => []RecursionUnbounded
<1>1. BuilderInv => RecursionUnbounded
  <2> SUFFICES ASSUME BuilderInv
               PROVE  ThrowsIffUnbounded(editor.graph)
    BY DEF RecursionUnbounded
  <2>1. editor.graph \in Graphs
    BY DEF BuilderInv, EditorTyped, EditorType
  <2>2. QED
    BY <2>1, SelfEmittingForever, RecursionEnds DEF ThrowsIffUnbounded
<1>2. QED
  BY <1>1, BuilderInvariant, PTL

=============================================================================
