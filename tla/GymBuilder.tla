----------------------------- MODULE GymBuilder -----------------------------
(***************************************************************************)
(* The gym editor page: a canvas and a code editor that two debounced      *)
(* effects keep in step, an assistant that draws graphs, and saving,       *)
(* opening and publishing of gyms.  Every await of a handler is a place    *)
(* where the user, a timer or another handler may come in between; the     *)
(* handlers work on the values of the render they were started from.       *)
(*                                                                         *)
(* The content addressed storage is the sequence bundles: the root hash    *)
(* of an upload is its position.  A bundle holds the time it was saved at, *)
(* so no two uploads are equal, and the comparison of content hashes in    *)
(* handleSave never finds one unchanged.                                   *)
(***************************************************************************)
EXTENDS GymGraph

CONSTANTS StoredBundles,  \* what the storage holds when the page is opened: a sequence
          EarlierSaved,   \* what gymStore holds then
          Labels,         \* what the name of a gym may be made of it: the ENS labels
          EarlierNamed,   \* the roots that were published under each label before
          ClassGraph,     \* the graph read off a class without metadata
          ChatGraphs,     \* graphs the assistant may draw
          NoGraph, NoCode, NoRoot, NoLabel,
          MaxInputs,      \* bound: what the user does
          MaxEdits,       \* bound: how much of it is editing the canvas
          MaxSaved        \* entries gymStore keeps (50 in the code)

\* What gym_env.py holds: the graph in its metadata comment, and its text.
Code == [meta : Graphs \cup {NoGraph}, text : {"generated", "edited", "class", "unparsed"}]
Bundle == [graph : Graphs, code : Code]

\* A saved gym: its current root, its versions, and the label of its name.  The gym hub
\* adds gyms without versions.
Entry == [root : Nat, versions : Seq(Nat), ensLabel : Labels \cup {NoLabel}]

ASSUME BuilderAssumption ==
  /\ StoredBundles \in Seq(Bundle) /\ ClassGraph \in Graphs /\ ChatGraphs \subseteq Graphs
  /\ EarlierSaved \in Seq(Entry) /\ Len(EarlierSaved) <= MaxSaved
  /\ \A i \in DOMAIN EarlierSaved :
       /\ {EarlierSaved[i].root} \cup Range(EarlierSaved[i].versions) \subseteq DOMAIN StoredBundles
       /\ EarlierSaved[i].ensLabel # NoLabel =>
            Range(EarlierSaved[i].versions) \cap EarlierNamed[EarlierSaved[i].ensLabel] # {}
  /\ \A i, j \in DOMAIN EarlierSaved : EarlierSaved[i].root = EarlierSaved[j].root => i = j
  /\ NoGraph \notin Graphs /\ NoCode \notin Code /\ NoRoot \notin Nat
  /\ NoLabel \notin Labels /\ EarlierNamed \in [Labels -> SUBSET Nat]
  /\ MaxInputs \in Nat /\ MaxEdits \in Nat /\ MaxSaved \in Nat \ {0}

VARIABLES
  editor,     \* canvas, code, the editor's own buffer, and the state of the effects
  gyms,       \* gymStore, kept in localStorage: saved entries and the current root
  bundles,    \* what 0G Storage holds
  saves, opens, manifests,  \* handlers waiting for storage
  page,       \* flags and the version history the page shows
  publish,    \* the publish modal
  listings,   \* publications that are saved and on their way to the marketplace
  market,     \* what publishing has reached: listings, contract, names, text records
  chat, calls, \* the assistant's conversation and its requests under way
  inputs,     \* what is left of MaxInputs
  kept        \* ghost: versions saved and not given up since

vars == <<editor, gyms, bundles, saves, opens, manifests, page, publish, listings,
          market, chat, calls, inputs, kept>>
storage == <<bundles, saves, opens, manifests>>

Roots == DOMAIN bundles
DefaultCode == [meta |-> NoGraph, text |-> "class"]

NewEditor == [graph |-> EmptyGraph, code |-> DefaultCode, buffer |-> NoCode,
              monaco |-> FALSE, generating |-> FALSE, parsing |-> NoCode,
              fromGraph |-> FALSE, locks |-> 0, status |-> "synced", edits |-> 0]
NewPage == [saving |-> FALSE, rollingBack |-> FALSE, history |-> << >>]
NewPublish == [open |-> FALSE, publishing |-> FALSE, listing |-> FALSE, done |-> FALSE,
               error |-> FALSE, listError |-> FALSE, root |-> NoRoot, diverged |-> FALSE]
NewChat == [history |-> << >>, loading |-> FALSE]

Init ==
  /\ editor = NewEditor /\ page = NewPage /\ publish = NewPublish /\ chat = NewChat
  /\ \E current \in {NoRoot} \cup {EarlierSaved[i].root : i \in DOMAIN EarlierSaved} :
       gyms = [saved |-> EarlierSaved, current |-> current]
  /\ bundles = StoredBundles
  /\ saves = {} /\ opens = {} /\ manifests = {} /\ calls = {} /\ listings = {}
  /\ market = [listed |-> {}, unkept |-> {}, onChain |-> {}, named |-> EarlierNamed,
               refused |-> [l \in Labels |-> {}], record |-> [l \in Labels |-> << >>]]
  /\ inputs = MaxInputs
  /\ kept = UNION {Range(EarlierSaved[i].versions) : i \in DOMAIN EarlierSaved}

\* The user does something that counts; opening and closing the modal does not.
Input == inputs > 0 /\ inputs' = inputs - 1

----------------------------------------------------------------------------
(* Keeping canvas and code in step *)

GeneratePython(g) == [meta |-> g, text |-> "generated"]

\* The metadata comment first, then what the patterns find; nothing without a class.
ParsePython(c) ==
  IF c.meta # NoGraph THEN c.meta ELSE IF c.text = "class" THEN ClassGraph ELSE NoGraph

\* Effect 1 runs when loadGraph has raised graphVersion; edits on the canvas do not.
GraphToPython(ed) ==
  IF ed.graph.nodes = {} THEN [ed EXCEPT !.generating = FALSE]
  ELSE [ed EXCEPT !.generating = TRUE, !.status = "pending"]

\* Mounting runs it too: the canvas is kept outside the page, gym_env.py is not.
Mounted(buffer) ==
  GraphToPython([NewEditor EXCEPT !.graph = editor.graph, !.edits = editor.edits,
                                  !.buffer = buffer])

LoadGraph(ed, g) == GraphToPython([ed EXCEPT !.graph = g])

\* Effect 2 runs when gym_env.py has changed.
PythonToGraph(ed) ==
  IF ed.fromGraph THEN [ed EXCEPT !.parsing = NoCode, !.fromGraph = FALSE]
  ELSE IF ed.locks > 0 THEN [ed EXCEPT !.parsing = NoCode]
  ELSE [ed EXCEPT !.parsing = ed.code, !.status = "parsing"]

SetCode(ed, c) == IF c = ed.code THEN ed ELSE PythonToGraph([ed EXCEPT !.code = c])

\* The timer of Effect 1.  A generator that throws leaves the status pending.
GenerateFires ==
  /\ editor.generating
  /\ editor' = LET fired == [editor EXCEPT !.generating = FALSE]
               IN IF editor.locks > 0 \/ Throws(editor.graph) THEN fired
                  ELSE SetCode([fired EXCEPT !.fromGraph = TRUE, !.status = "synced"],
                               GeneratePython(editor.graph))
  /\ UNCHANGED <<gyms, storage, page, publish, listings, market, chat, calls, inputs, kept>>

\* The timer of Effect 2.
ParseFires ==
  /\ editor.parsing # NoCode
  /\ LET parsed == ParsePython(editor.parsing)
         fired  == [editor EXCEPT !.parsing = NoCode]
     IN editor' = IF parsed = NoGraph THEN [fired EXCEPT !.status = "manual"]
                  ELSE LoadGraph([fired EXCEPT !.status = "synced"], parsed)
  /\ UNCHANGED <<gyms, storage, page, publish, listings, market, chat, calls, inputs, kept>>

\* The timer of lockSync: three seconds, however long the download takes.
Unlock ==
  /\ editor.locks > 0
  /\ editor' = [editor EXCEPT !.locks = @ - 1]
  /\ UNCHANGED <<gyms, storage, page, publish, listings, market, chat, calls, inputs, kept>>

OutHandles(g, n) == IF KindOf[n] \in {"HttpsRequest", "RouterSwitch"}
                    THEN BranchHandles(g, n) ELSE {"exec-out"}

CanvasEdits(g) ==
  {AddNode(g, n) : n \in NodeIds \ g.nodes} \cup {RemoveNode(g, n) : n \in g.nodes}
    \cup {Connect(g, e) : e \in {f \in Edges : /\ {f.source, f.target} \subseteq g.nodes
                                               /\ f.handle \in OutHandles(g, f.source)}}
    \cup {AddRouterCondition(g, n, c) : n \in g.nodes, c \in Conditions}
    \cup {RemoveRouterCondition(g, n, c) : n \in g.nodes, c \in Conditions}

EditCanvas ==
  /\ Input /\ ~editor.monaco /\ editor.edits < MaxEdits
  /\ \E g \in CanvasEdits(editor.graph) \ {editor.graph} :
       editor' = [editor EXCEPT !.graph = g, !.edits = @ + 1]
  /\ UNCHANGED <<gyms, storage, page, publish, listings, market, chat, calls, kept>>

\* The buffer is filled from gym_env.py when it is created, and never again.
MountedBuffer == IF editor.buffer = NoCode THEN editor.code ELSE editor.buffer

\* What becomes of handlers whose component is unmounted: they go on without it.
Orphaned(handlers) == {[h EXCEPT !.live = FALSE] : h \in handlers}

(* Leaving the mode disposes of the buffer if gym_env.py is the file shown, *)
(* and unmounts the assistant.                                             *)
ToggleEditor ==
  /\ Input
  /\ \E buffer \in IF editor.monaco THEN {NoCode, editor.buffer} ELSE {MountedBuffer} :
       editor' = [editor EXCEPT !.monaco = ~@, !.buffer = buffer]
  /\ chat' = NewChat
  /\ calls' = Orphaned(calls)
  /\ UNCHANGED <<gyms, storage, page, publish, listings, market, kept>>

\* What a keystroke, or a paste, makes of the buffer.
Typed(b) == ({[meta |-> NoGraph, text |-> t] : t \in {"class", "unparsed"}}
              \cup {[b EXCEPT !.text = "edited"]}) \ {b}

TypeCode ==
  /\ Input /\ editor.monaco
  /\ \E b \in Typed(editor.buffer) : editor' = SetCode([editor EXCEPT !.buffer = b], b)
  /\ UNCHANGED <<gyms, storage, page, publish, listings, market, chat, calls, kept>>

----------------------------------------------------------------------------
(* The assistant *)

\* The input and its button: closed while an answer is awaited.
CanAsk == editor.monaco /\ ~chat.loading

\* Mutant: the question joins the conversation before it is answered.
ChatSendRecorded ==
  /\ Input /\ CanAsk
  /\ chat' = [history |-> Append(chat.history, "user"), loading |-> TRUE]
  /\ calls' = calls \cup {[id |-> inputs, history |-> Append(chat.history, "user"),
                           stage |-> "asked", live |-> TRUE]}
  /\ UNCHANGED <<editor, gyms, storage, page, publish, listings, market, kept>>

\* sendMessage up to its first await.
ChatSend ==
  /\ Input /\ CanAsk
  /\ chat' = [chat EXCEPT !.loading = TRUE]
  /\ calls' = calls \cup {[id |-> inputs, history |-> Append(chat.history, "user"),
                           stage |-> "asked", live |-> TRUE]}
  /\ UNCHANGED <<editor, gyms, storage, page, publish, listings, market, kept>>

\* The answer calls create_graph: the canvas is replaced, and the explanation asked for.
ChatBuildsGraph ==
  \E c \in calls, g \in ChatGraphs :
    /\ c.stage = "asked"
    /\ editor' = LoadGraph(editor, g)
    /\ calls' = (calls \ {c})
                  \cup {[c EXCEPT !.stage = "built", !.history = @ \o <<"call", "tool">>]}
    /\ UNCHANGED <<gyms, storage, page, publish, listings, market, chat, inputs, kept>>

\* An answer in words, from the provider, the fallback, or after a graph was built.
ChatAnswers ==
  \E c \in calls :
    /\ chat' = IF c.live
               THEN [history |-> Append(c.history, "assistant"), loading |-> FALSE]
               ELSE chat
    /\ calls' = calls \ {c}
    /\ UNCHANGED <<editor, gyms, storage, page, publish, listings, market, inputs, kept>>

\* An error is shown as a message and stays out of the conversation.
ChatFails ==
  \E c \in calls :
    /\ c.stage = "asked"
    /\ chat' = IF c.live THEN [chat EXCEPT !.loading = FALSE] ELSE chat
    /\ calls' = calls \ {c}
    /\ UNCHANGED <<editor, gyms, storage, page, publish, listings, market, inputs, kept>>

SwitchProvider ==
  /\ Input /\ editor.monaco
  /\ chat' = [chat EXCEPT !.history = << >>]
  /\ UNCHANGED <<editor, gyms, storage, page, publish, listings, market, calls, kept>>

----------------------------------------------------------------------------
(* The store of saved gyms *)

EntryOf(root) == {i \in DOMAIN gyms.saved : gyms.saved[i].root = root}
VersionsOf(root) ==
  IF EntryOf(root) = {} THEN << >> ELSE gyms.saved[CHOOSE i \in EntryOf(root) : TRUE].versions
LabelOf(root) ==
  IF EntryOf(root) = {} THEN NoLabel ELSE gyms.saved[CHOOSE i \in EntryOf(root) : TRUE].ensLabel

(* filter(g => g.rootHash !== root): what is left of the first n entries.  *)
(* A recursive function, and not SelectSeq, for the sake of the proofs.    *)
LeftOf(saved, root) ==
  LET left[n \in 0 .. Len(saved)] ==
        IF n = 0 THEN << >>
        ELSE IF saved[n].root = root THEN left[n - 1] ELSE Append(left[n - 1], saved[n])
  IN left

Without(saved, root) == LeftOf(saved, root)[Len(saved)]

\* Mutant: the list has no end.
AddSavedGymUncapped(saved, entry) == <<entry>> \o Without(saved, entry.root)

AddSavedGym(saved, entry) ==
  LET all == <<entry>> \o Without(saved, entry.root)
  IN IF Len(all) > MaxSaved THEN Front(all) ELSE all

RemoveSavedGym(s, root) ==
  [saved   |-> Without(s.saved, root),
   current |-> IF s.current = root THEN NoRoot ELSE s.current]

UpdateGymEntry(saved, root, label) ==
  [i \in DOMAIN saved |-> IF saved[i].root = root THEN [saved[i] EXCEPT !.ensLabel = label]
                                                  ELSE saved[i]]

\* The cross in the list of saved gyms.
ForgetGym ==
  /\ Input
  /\ \E i \in DOMAIN gyms.saved :
       /\ gyms' = RemoveSavedGym(gyms, gyms.saved[i].root)
       /\ kept' = kept \ Range(gyms.saved[i].versions)
  /\ UNCHANGED <<editor, storage, page, publish, listings, market, chat, calls>>

----------------------------------------------------------------------------
(* Saving *)

\* Mutant: the history starts afresh with each save.
SaveRecordAlone(by, label, graph, code) ==
  [by |-> by, label |-> label, id |-> inputs, stage |-> "prompt", live |-> TRUE,
   bundle |-> [graph |-> graph, code |-> code], prev |-> gyms.current,
   versions |-> << >>, ensLabel |-> LabelOf(gyms.current)]

\* Mutant: the label of the last saved gym is taken for this one's.
SaveRecordAnyLabel(by, label, graph, code) ==
  [by |-> by, label |-> label, id |-> inputs, stage |-> "prompt", live |-> TRUE,
   bundle |-> [graph |-> graph, code |-> code], prev |-> gyms.current,
   versions |-> VersionsOf(gyms.current),
   ensLabel |-> IF gyms.saved = << >> THEN NoLabel ELSE gyms.saved[1].ensLabel]

(* handleSave up to the upload: what its closure holds.  The wallet is     *)
(* asked to switch its chain and to sign the upload, without a timeout.    *)
SaveRecord(by, label, graph, code) ==
  [by |-> by, label |-> label, id |-> inputs, stage |-> "prompt", live |-> TRUE,
   bundle |-> [graph |-> graph, code |-> code], prev |-> gyms.current,
   versions |-> VersionsOf(gyms.current), ensLabel |-> LabelOf(gyms.current)]

\* The button, or Enter in the version note.
Save ==
  /\ Input /\ ~page.saving
  /\ saves' = saves \cup {SaveRecord("button", NoLabel, editor.graph, editor.code)}
  /\ page' = [page EXCEPT !.saving = TRUE]
  /\ UNCHANGED <<editor, gyms, bundles, opens, manifests, publish, listings, market, chat,
                 calls, kept>>

\* The entry that addSavedGym pushes off the end of the list, unless it is the one replaced.
Dropped(s) ==
  IF Len(gyms.saved) = MaxSaved /\ Last(gyms.saved).root # s.prev
  THEN Range(Last(gyms.saved).versions) ELSE {}

SaveSigned ==
  \E s \in saves :
    /\ s.stage = "prompt"
    /\ saves' = (saves \ {s}) \cup {[s EXCEPT !.stage = "sent"]}
    /\ UNCHANGED <<editor, gyms, bundles, opens, manifests, page, publish, listings, market,
                   chat, calls, inputs, kept>>

(* The upload has ended: the rest of handleSave, and of handlePublish up   *)
(* to the listing.  On a page that was left only the stores are reached.   *)
SaveDone ==
  \E s \in saves :
    LET root     == Len(bundles) + 1
        versions == Append(s.versions, root)
        added    == AddSavedGym(gyms.saved, [root |-> root, versions |-> versions,
                                             ensLabel |-> s.ensLabel])
        current  == [saved |-> added, current |-> root]
    IN /\ s.stage = "sent"
       /\ bundles' = Append(bundles, s.bundle)
       /\ gyms' = IF s.prev = NoRoot THEN current ELSE RemoveSavedGym(current, s.prev)
       /\ page' = IF s.live THEN [page EXCEPT !.saving = FALSE, !.history = versions] ELSE page
       /\ manifests' = IF s.ensLabel = NoLabel THEN manifests
                       ELSE manifests \cup {[label |-> s.ensLabel, versions |-> versions]}
       /\ saves' = saves \ {s}
       /\ publish' = IF s.by = "publish" /\ s.live
                     THEN [publish EXCEPT !.publishing = FALSE, !.listing = TRUE, !.root = root]
                     ELSE publish
       /\ listings' = IF s.by = "button" THEN listings
                      ELSE listings \cup {[root |-> root, label |-> s.label, stage |-> "store",
                                           live |-> s.live]}
       /\ kept' = (kept \ Dropped(s)) \cup {root}
       /\ UNCHANGED <<editor, opens, market, chat, calls, inputs>>

\* Mutant: the button of the modal is not released when the upload fails.
SaveFailsBusy(s) ==
  /\ saves' = saves \ {s}
  /\ page' = IF s.live THEN [page EXCEPT !.saving = FALSE] ELSE page
  /\ publish' = IF s.by = "publish" /\ s.live THEN [publish EXCEPT !.error = TRUE] ELSE publish
  /\ UNCHANGED <<editor, gyms, bundles, opens, manifests, listings, market, chat, calls,
                 inputs, kept>>

SaveFails(s) ==
  /\ saves' = saves \ {s}
  /\ page' = IF s.live THEN [page EXCEPT !.saving = FALSE] ELSE page
  /\ publish' = IF s.by = "publish" /\ s.live
                THEN [publish EXCEPT !.publishing = FALSE, !.error = TRUE] ELSE publish
  /\ UNCHANGED <<editor, gyms, bundles, opens, manifests, listings, market, chat, calls,
                 inputs, kept>>

\* A failed upload; no wallet, or a refused signature.
SaveFailed == \E s \in saves : s.stage = "sent" /\ SaveFails(s)
SaveRefused == \E s \in saves : s.stage = "prompt" /\ SaveFails(s)

(* Phase 2, not waited for: the manifest is uploaded, and the text record  *)
(* of the name is made to point at it, which the registry of names allows  *)
(* the holder of the name alone.  The hash kept in the entry is read       *)
(* nowhere, so a manifest matters only for an entry with a label.          *)
TextRecordSet ==
  \E m \in manifests :
    /\ market.named[m.label] # {}
    /\ market' = [market EXCEPT !.record[m.label] = m.versions]
    /\ manifests' = manifests \ {m}
    /\ UNCHANGED <<editor, gyms, bundles, saves, opens, page, publish, listings, chat,
                   calls, inputs, kept>>

ManifestFailed ==
  \E m \in manifests :
    /\ manifests' = manifests \ {m}
    /\ UNCHANGED <<editor, gyms, bundles, saves, opens, page, publish, listings, market,
                   chat, calls, inputs, kept>>

----------------------------------------------------------------------------
(* Opening and rolling back *)

BeginOpen(root, rollback) ==
  /\ editor' = [editor EXCEPT !.locks = @ + 1]
  /\ opens' = opens \cup {[id |-> inputs, root |-> root, rollback |-> rollback,
                             live |-> TRUE]}

OpenedByUser(roots) ==
  /\ Input
  /\ \E root \in roots : BeginOpen(root, FALSE)
  /\ UNCHANGED <<gyms, bundles, saves, manifests, page, publish, listings, market, chat,
                 calls, kept>>

\* The modal takes any hash; the list of saved gyms gives those of its entries; the
\* gym hub leaves one for the page to open when it is mounted.
OpenByHash == OpenedByUser(Roots)
OpenSaved == OpenedByUser({gyms.saved[i].root : i \in DOMAIN gyms.saved})
OpenFromHub == editor = Mounted(editor.buffer) /\ page = NewPage /\ OpenedByUser(Roots)

\* The Load buttons of the version panel: none for the current version, one at a time.
RollbackOffered == IF page.rollingBack THEN {} ELSE Range(page.history) \ {gyms.current}

\* handleRollback up to the download.
Rollback ==
  /\ Input
  /\ \E root \in RollbackOffered : BeginOpen(root, TRUE)
  /\ page' = [page EXCEPT !.rollingBack = TRUE]
  /\ UNCHANGED <<gyms, bundles, saves, manifests, publish, listings, market, chat, calls,
                 kept>>

\* The download has ended: canvas, code and history are those of the bundle.  If the page
\* was left, the canvas of the page that is there now is.
OpenDone ==
  \E o \in opens :
    /\ editor' = LET loaded == LoadGraph(editor, bundles[o.root].graph)
                 IN IF o.live THEN SetCode(loaded, bundles[o.root].code) ELSE loaded
    /\ gyms' = [gyms EXCEPT !.current = o.root]
    /\ page' = IF o.live THEN [page EXCEPT !.history = VersionsOf(o.root),
                                           !.rollingBack = @ /\ ~o.rollback]
               ELSE page
    /\ opens' = opens \ {o}
    /\ UNCHANGED <<bundles, saves, manifests, publish, listings, market, chat, calls,
                   inputs, kept>>

OpenFailed ==
  \E o \in opens :
    /\ page' = IF o.live THEN [page EXCEPT !.rollingBack = @ /\ ~o.rollback,
                                 !.history = IF o.rollback /\ EntryOf(o.root) # {}
                                             THEN VersionsOf(o.root) ELSE @]
               ELSE page
    /\ opens' = opens \ {o}
    /\ UNCHANGED <<editor, gyms, bundles, saves, manifests, publish, listings, market, chat,
                   calls, inputs, kept>>

----------------------------------------------------------------------------
(* Publishing *)

PublishModal ==
  CASE ~publish.open            -> "closed"
    [] publish.open /\ ~publish.done -> "form"
    [] publish.open /\ publish.done /\ publish.listing -> "listing"
    [] publish.open /\ publish.done /\ ~publish.listing ->
         IF publish.listError THEN "listing failed" ELSE "listed"

OpenPublish ==
  /\ ~publish.open
  /\ publish' = [publish EXCEPT !.open = TRUE, !.done = FALSE, !.error = FALSE]
  /\ UNCHANGED <<editor, gyms, storage, page, listings, market, chat, calls, inputs, kept>>

\* Cancel, the cross and the backdrop; Done also forgets the outcome.
ClosePublish ==
  /\ publish.open
  /\ \/ publish' = [publish EXCEPT !.open = FALSE]
     \/ publish.done /\ publish' = [publish EXCEPT !.open = FALSE, !.done = FALSE,
                                                   !.listError = FALSE]
  /\ UNCHANGED <<editor, gyms, storage, page, listings, market, chat, calls, inputs, kept>>

\* handlePublish up to the upload of handleSave.  The code is generated before the try.
Publish ==
  /\ Input /\ PublishModal = "form" /\ ~publish.publishing /\ ~publish.listing
  /\ LET clicked == [publish EXCEPT !.publishing = TRUE, !.error = FALSE, !.done = FALSE,
                                    !.listError = FALSE]
         code    == GeneratePython(editor.graph)
     IN IF Throws(editor.graph)
        THEN /\ publish' = [clicked EXCEPT !.diverged = TRUE]
             /\ UNCHANGED <<editor, page, saves>>
        ELSE \E l \in Labels :
             /\ publish' = clicked
             /\ editor' = SetCode([editor EXCEPT !.fromGraph = TRUE], code)
             /\ page' = [page EXCEPT !.saving = TRUE]
             /\ saves' = saves \cup {SaveRecord("publish", l, editor.graph, code)}
  /\ UNCHANGED <<gyms, bundles, opens, manifests, listings, market, chat, calls, kept>>

(* The listing goes to the key-value store, within a time limit, or else   *)
(* to its mirror; then the wallet is asked, without one, to sign the       *)
(* listing in the contract.                                                *)
ListingMoves(h, next) ==
  /\ listings' = (listings \ {h}) \cup {[h EXCEPT !.stage = next]}
  /\ UNCHANGED <<editor, gyms, storage, page, publish, chat, calls, inputs, kept>>

ListingStored ==
  \E h \in listings : /\ h.stage = "store" /\ ListingMoves(h, "prompt")
                      /\ market' = [market EXCEPT !.listed = @ \cup {h.root}]

(* The mirror's route answers ok without a look at what Upstash answered   *)
(* it: after a failed write of the store, a refusal passes for a listing.  *)
ListingIgnored ==
  \E h \in listings : /\ h.stage = "store" /\ ListingMoves(h, "prompt")
                      /\ market' = [market EXCEPT !.unkept = @ \cup {h.root}]

ListingSigned ==
  \E h \in listings : h.stage = "prompt" /\ ListingMoves(h, "contract") /\ UNCHANGED market

ListedOnChain ==
  \E h \in listings : /\ h.stage = "contract" /\ ListingMoves(h, "name")
                      /\ market' = [market EXCEPT !.onChain = @ \cup {h.root}]

\* handlePublish ends, on the page it was begun on or on none.
ListingEnds(h, shown) ==
  /\ listings' = listings \ {h}
  /\ publish' = IF h.live THEN shown ELSE publish
  /\ UNCHANGED <<editor, storage, page, chat, calls, inputs, kept>>

\* Mutant: a failing listing is logged and not shown.
ListingFailsQuietly(h) ==
  /\ ListingEnds(h, [publish EXCEPT !.listing = FALSE, !.done = TRUE])
  /\ UNCHANGED <<gyms, market>>

ListingFails(h) ==
  /\ ListingEnds(h, [publish EXCEPT !.listing = FALSE, !.done = TRUE, !.listError = TRUE])
  /\ UNCHANGED <<gyms, market>>

ListingFailed == \E h \in listings : h.stage \in {"store", "contract"} /\ ListingFails(h)
ListingRefused == \E h \in listings : h.stage = "prompt" /\ ListingFails(h)

(* The name is asked for last.  Its answer is not looked at: registered or *)
(* refused, the entry, if it is still there, gets the label.               *)
NameAnswered(h) ==
  /\ h.stage = "name"
  /\ ListingEnds(h, [publish EXCEPT !.listing = FALSE, !.done = TRUE])
  /\ gyms' = [gyms EXCEPT !.saved = UpdateGymEntry(@, h.root, h.label)]

\* The name was free, or the user's own.
NameRegistered ==
  \E h \in listings : /\ NameAnswered(h)
                      /\ market' = [market EXCEPT !.named[h.label] = @ \cup {h.root}]

\* The name is somebody else's, or the server or the chain failed.
NameRefused ==
  \E h \in listings : /\ NameAnswered(h)
                      /\ market' = [market EXCEPT !.refused[h.label] = @ \cup {h.root}]

\* The request threw: no label.
NameFailed ==
  \E h \in listings : /\ h.stage = "name"
                      /\ ListingEnds(h, [publish EXCEPT !.listing = FALSE, !.done = TRUE])
                      /\ UNCHANGED <<gyms, market>>

----------------------------------------------------------------------------

\* The page is reloaded: gymStore survives, handlers under way do not.
Reload ==
  /\ Input
  /\ editor' = NewEditor /\ page' = NewPage /\ publish' = NewPublish /\ chat' = NewChat
  /\ saves' = {} /\ opens' = {} /\ manifests' = {} /\ calls' = {} /\ listings' = {}
  /\ UNCHANGED <<gyms, bundles, market, kept>>

(* The page is left for another of the application and mounted again: the  *)
(* canvas survives, and handlers under way go on without their page.       *)
Navigate ==
  /\ Input
  /\ \E buffer \in IF editor.monaco THEN {NoCode, editor.buffer} ELSE {editor.buffer} :
       editor' = Mounted(buffer)
  /\ page' = NewPage /\ publish' = NewPublish /\ chat' = NewChat
  /\ saves' = Orphaned(saves) /\ opens' = Orphaned(opens)
  /\ calls' = Orphaned(calls) /\ listings' = Orphaned(listings)
  /\ UNCHANGED <<gyms, bundles, manifests, market, kept>>

User == \/ EditCanvas \/ ToggleEditor \/ TypeCode \/ ChatSend \/ SwitchProvider \/ ForgetGym
        \/ Save \/ OpenByHash \/ OpenSaved \/ OpenFromHub \/ Rollback
        \/ OpenPublish \/ ClosePublish \/ Publish
        \/ Reload \/ Navigate

Timers == GenerateFires \/ ParseFires \/ Unlock
Uploads == SaveDone \/ SaveFailed
Listings == \/ ListingStored \/ ListingIgnored \/ ListedOnChain \/ ListingFailed
            \/ NameRegistered \/ NameRefused \/ NameFailed
Wallet == SaveSigned \/ SaveRefused \/ ListingSigned \/ ListingRefused
Answers == \/ ChatBuildsGraph \/ ChatAnswers \/ ChatFails
           \/ TextRecordSet \/ ManifestFailed \/ OpenDone \/ OpenFailed

Next == User \/ Wallet \/ Timers \/ Uploads \/ Listings \/ Answers

(* An upload that was signed, and the requests of a publication, end one   *)
(* way or the other.  Nothing is asked of the user, nor of the wallet.     *)
Spec == Init /\ [][Next]_vars /\ WF_vars(Uploads) /\ WF_vars(Listings)

----------------------------------------------------------------------------

BuilderTypeOK ==
  /\ editor.graph \in Graphs /\ editor.code \in Code
  /\ editor.buffer \in Code \cup {NoCode} /\ editor.parsing \in Code \cup {NoCode}
  /\ editor.locks \in Nat
  /\ editor.status \in {"synced", "pending", "parsing", "manual"}
  /\ bundles \in Seq(Bundle) /\ kept \subseteq Roots
  /\ gyms.saved \in Seq(Entry) /\ Len(gyms.saved) <= MaxSaved
  /\ gyms.current \in Roots \cup {NoRoot}
  /\ \A i, j \in DOMAIN gyms.saved : gyms.saved[i].root = gyms.saved[j].root => i = j
  /\ \A h \in listings : h.root \in Roots /\ h.label \in Labels

(* Every version that was saved stays in the history of some saved gym,    *)
(* until the user removes that gym or the list overflows: "Each save       *)
(* creates a new version. Loading an older version does not delete newer   *)
(* ones" (VersionHistoryPanel.tsx:128), under any overlap of saving,       *)
(* publishing, opening, rolling back and reloading.                        *)
NoVersionLost ==
  kept \subseteq UNION {Range(gyms.saved[i].versions) : i \in DOMAIN gyms.saved}

(* The modal says "Listed on marketplace" only of a gym that is in the     *)
(* contract, and in the store or its mirror unless the mirror's refusal    *)
(* was taken for success, however the modal was closed and opened again    *)
(* and the page left while the listing was under way.                      *)
ListedIsListed ==
  PublishModal = "listed" =>
    publish.root \in market.onChain \cap (market.listed \cup market.unkept)

(* The text record of a name is written only for a name the user got, and  *)
(* holds the history of a gym that was published as that name: never       *)
(* another gym's, also when saves, opens and publications overlap, entries *)
(* are replaced under a manifest on its way, and names are refused.  The   *)
(* precise edge: a gym whose own request for a name the user holds already *)
(* was refused counts as published as it, for the refusal is not noticed.  *)
RecordIsOfNamedGym ==
  \A l \in Labels : market.record[l] # << >> =>
    /\ market.named[l] # {}
    /\ Range(market.record[l]) \cap (market.named[l] \cup market.refused[l]) # {}

(* The conversation sent to the model alternates: no question is followed  *)
(* by another before an answer, whatever fails and whenever the provider   *)
(* or the mode is switched.                                                *)
ChatAlternates ==
  \A i \in DOMAIN chat.history :
    /\ i = 1 => chat.history[i] = "user"
    /\ i = Len(chat.history) => chat.history[i] = "assistant"
    /\ i > 1 /\ chat.history[i] = "user" => chat.history[i - 1] = "assistant"

\* The canvas' graph, whatever was drawn, opened or parsed: see GymGraph.
TraversalVisitsReachable == VisitsReachable(editor.graph)
RecursionUnbounded == ThrowsIffUnbounded(editor.graph)

\* The wallet waits for the user to sign something for the publication of this page.
Prompted ==
  \/ \E s \in saves : s.live /\ s.by = "publish" /\ s.stage = "prompt"
  \/ \E h \in listings : h.live /\ h.stage = "prompt"

(* A publication ends and gives its button back, or comes to wait for the  *)
(* wallet, which it does twice at most: a prompt that is answered, either  *)
(* way, does not leave the button busy.  Unless the graph made the         *)
(* generator throw: that happens before the try, and the button stays busy *)
(* until the page is left.                                                 *)
PublishEnds ==
  ((publish.publishing \/ publish.listing) /\ ~Prompted)
    ~> ((~publish.publishing /\ ~publish.listing) \/ publish.diverged \/ Prompted)
=============================================================================
