------------------------------- MODULE GymHub -------------------------------
(***************************************************************************)
(* The marketplace as the browser keeps it: listings in a stream of the    *)
(* 0G key-value store and, mirrored, in a Redis list; the downloads and    *)
(* ratings of a gym in Redis; and the hub page that shows both.  Tabs      *)
(* publish, rate and load at the same time: a publication reads the number *)
(* of entries and writes after it, a rating is two commands, a load reads  *)
(* entry by entry.                                                         *)
(***************************************************************************)
EXTENDS Naturals, Sequences, FiniteSets, SequencesExt

CONSTANTS Gyms, Stars,      \* root hashes; the values a rating may have
          NoGym, NoLoad,
          Published,  \* what the stream held before: a sequence of root hashes
          Mirrored,   \* what the list held before
          Budgets,    \* bound: publications, ratings and user's steps, in one mix or another
          MaxLost     \* bound: calls that fail

ASSUME HubAssumption ==
  /\ Stars \subseteq 1..5 /\ NoGym \notin Gyms
  /\ {Published, Mirrored} \subseteq Seq(Gyms) /\ MaxLost \in Nat
  /\ Budgets \subseteq [publications : Nat, ratings : Nat, inputs : Nat]

VARIABLES stream,   \* the key-value store: the count and the entries
          mirror,   \* the Redis list
          pubs,     \* publications, in the order they were started
          ratings,  \* rating requests, in the order they were sent
          counters, \* Redis: downloads, stars and ratings of each gym
          hub,      \* the hub page
          owned,    \* root hashes in the library of the browser
          lost,     \* calls that have failed
          budget    \* the mix of Budgets

market == <<stream, mirror, pubs, lost>>
hubVars == <<market, ratings, counters, hub, owned, budget>>

Drop == lost < MaxLost /\ lost' = lost + 1

----------------------------------------------------------------------------
(* publishGymListing *)

\* Whether the batch of a publication may still be written.
Open(p) == p.kv \in {"counting", "writing"}

\* A publication starts in whatever tab; `overlaps' holds when another one may still write.
Publish(g) ==
  /\ Len(pubs) < budget.publications
  /\ pubs' = [i \in DOMAIN pubs |->
                IF Open(pubs[i]) THEN [pubs[i] EXCEPT !.overlaps = TRUE] ELSE pubs[i]]
             \o << [gym |-> g, at |-> "kv", kv |-> "counting", count |-> 0, mirrored |-> FALSE,
                    overlaps |-> \E i \in DOMAIN pubs : Open(pubs[i])] >>
  /\ UNCHANGED <<stream, mirror, lost>>

CountRead(i) ==
  /\ pubs[i].kv = "counting"
  /\ pubs' = [pubs EXCEPT ![i].kv = "writing", ![i].count = stream.count]
  /\ UNCHANGED <<stream, mirror, lost>>

\* The entries with the n-th one written, over the one that was there if there was one.
WithEntry(n, g) ==
  [m \in {n} \cup DOMAIN stream.entries |-> IF m = n THEN g ELSE stream.entries[m]]

\* Mutant: the entry is written and the count is not.
BatchOfEntry(p) == [stream EXCEPT !.entries = WithEntry(p.count, p.gym)]

\* One batch writes the entry and the count.
Batch(p) == [count |-> p.count + 1, entries |-> WithEntry(p.count, p.gym)]

\* The batch is written, also when the publication has given up waiting for it.
BatchWritten(i) ==
  /\ pubs[i].kv = "writing"
  /\ stream' = Batch(pubs[i])
  /\ pubs' = [pubs EXCEPT ![i].kv = "written", ![i].at = IF @ = "kv" THEN "mirroring" ELSE @]
  /\ UNCHANGED <<mirror, lost>>

\* An error of the store, or eight seconds without an answer: the list is asked instead.
\* After an error the batch is not written; after the timeout it still may be.
StoreFails(i) ==
  /\ Drop
  /\ pubs[i].at = "kv"
  /\ \E kv \in {pubs[i].kv, "failed"} : pubs' = [pubs EXCEPT ![i].kv = kv, ![i].at = "fallback"]
  /\ UNCHANGED <<stream, mirror>>

\* A store that answers neither in time nor later.
BatchLost(i) ==
  /\ pubs[i].at # "kv" /\ Open(pubs[i])
  /\ pubs' = [pubs EXCEPT ![i].kv = "failed"]
  /\ UNCHANGED <<stream, mirror, lost>>

\* The listing is appended to the list.  Nobody waits for the mirror, and an error that
\* Redis answers counts as success; a fallback that throws fails the publication.
Appended(i) ==
  /\ pubs[i].at \in {"mirroring", "fallback"}
  /\ \/ /\ mirror' = Append(mirror, pubs[i].gym)
        /\ pubs' = [pubs EXCEPT ![i].at = "done", ![i].mirrored = TRUE]
        /\ UNCHANGED lost
     \/ /\ Drop
        /\ \E at \in {"done"} \cup (IF pubs[i].at = "fallback" THEN {"failed"} ELSE {}) :
             pubs' = [pubs EXCEPT ![i].at = at]
        /\ UNCHANGED mirror
  /\ UNCHANGED stream

PublishStep == /\ \/ \E g \in Gyms : Publish(g)
                  \/ \E i \in DOMAIN pubs : \/ CountRead(i) \/ BatchWritten(i)
                                            \/ StoreFails(i) \/ BatchLost(i) \/ Appended(i)
               /\ UNCHANGED <<ratings, counters, hub, owned>>

----------------------------------------------------------------------------
(* POST /api/marketplace/stats *)

Rating(g, v, here) == [gym |-> g, value |-> v, here |-> here, at |-> "sent", told |-> FALSE]

\* Somebody else rates a gym or downloads one.
RateElsewhere ==
  /\ Len(ratings) < budget.ratings
  /\ \E g \in Gyms, v \in Stars : ratings' = Append(ratings, Rating(g, v, FALSE))
  /\ UNCHANGED <<market, counters, hub, owned>>

\* Where the second command takes a rating: a "bare" one is counted without its stars.
AfterCount(at) == IF at = "summed" THEN "counted" ELSE "bare"

\* Mutant: the rating is counted first and its stars are added afterwards.
RatingStepCounted(i) ==
  LET r == ratings[i]
  IN /\ \/ /\ r.at = "sent" /\ counters' = [counters EXCEPT ![r.gym].ratings = @ + 1]
           /\ ratings' = [ratings EXCEPT ![i].at = "summed"]
        \/ /\ r.at \in {"summed", "skipped"}
           /\ counters' = [counters EXCEPT ![r.gym].stars = @ + r.value]
           /\ ratings' = [ratings EXCEPT ![i].at = AfterCount(@)]
     /\ UNCHANGED <<market, hub, owned>>

\* HINCRBYFLOAT of the stars, then HINCRBY of the ratings.
RatingStep(i) ==
  LET r == ratings[i]
  IN /\ \/ /\ r.at = "sent" /\ counters' = [counters EXCEPT ![r.gym].stars = @ + r.value]
           /\ ratings' = [ratings EXCEPT ![i].at = "summed"]
        \/ /\ r.at \in {"summed", "skipped"}
           /\ counters' = [counters EXCEPT ![r.gym].ratings = @ + 1]
           /\ ratings' = [ratings EXCEPT ![i].at = AfterCount(@)]
     /\ UNCHANGED <<market, hub, owned>>

\* A command fails.  When Redis cannot be asked the request ends there; an error that it
\* answers is not looked at, and the second command follows a first one that did nothing.
RatingFails(i) ==
  /\ Drop
  /\ \E at \in CASE ratings[i].at = "sent"    -> {"refused", "skipped"}
               [] ratings[i].at = "summed"  -> {"half"}
               [] ratings[i].at = "skipped" -> {"refused"}
               [] OTHER                     -> {} :
       ratings' = [ratings EXCEPT ![i].at = at]
  /\ UNCHANGED <<stream, mirror, pubs, counters, hub, owned>>

----------------------------------------------------------------------------
(* The hub page: a load of the listings and then of their counters *)

NoCounters == [g \in Gyms |-> [stars |-> 0, ratings |-> 0]]

\* A load, and what the stores held when it started.
NewLoad ==
  [at |-> "listings", kv |-> "asked", count |-> 0, next |-> 0, list |-> "asked", found |-> {}, listed |-> {},
   counters |-> NoCounters,
   stored |-> ToSet(Published) \cup
                {pubs[i].gym : i \in {j \in DOMAIN pubs : pubs[j].kv = "written"
                                                          /\ ~pubs[j].overlaps}},
   mirrored |-> ToSet(Mirrored) \cup
                  {pubs[i].gym : i \in {j \in DOMAIN pubs : pubs[j].mirrored}}]

Loading == hub.load # NoLoad /\ hub.load.at = "listings"
Off == UNCHANGED <<stream, mirror, pubs, ratings, counters, owned>>

\* An entry that is missing is skipped.
Entries(load) ==
  IF load.next = load.count THEN [load EXCEPT !.kv = "read"]
  ELSE [load EXCEPT !.next = @ + 1,
                    !.found = @ \cup {stream.entries[n] : n \in {load.next} \cap DOMAIN stream.entries}]

\* fetchFromKv reads the count and then entry after entry; when the store fails or takes
\* longer than eight seconds nothing of it is used.
LoadReadsStore ==
  /\ Loading /\ hub.load.kv \in {"asked", "reading"}
  /\ \/ /\ hub' = [hub EXCEPT !.load = IF @.kv = "reading" THEN Entries(@)
                                        ELSE [@ EXCEPT !.kv = "reading", !.count = stream.count]]
        /\ UNCHANGED lost
     \/ Drop /\ hub' = [hub EXCEPT !.load.kv = "failed"]
  /\ Off

\* GET /api/marketplace
LoadReadsList ==
  /\ Loading /\ hub.load.list = "asked"
  /\ \/ hub' = [hub EXCEPT !.load.list = "read", !.load.listed = ToSet(mirror)] /\ UNCHANGED lost
     \/ Drop /\ hub' = [hub EXCEPT !.load.list = "failed"]
  /\ Off

\* The listings are merged, and their counters asked for.
LoadShown ==
  /\ Loading /\ hub.load.kv \in {"read", "failed"} /\ hub.load.list # "asked"
  /\ hub' = [hub EXCEPT !.load.at = "counters", !.listings = hub.load.listed
                        \cup IF hub.load.kv = "read" THEN hub.load.found ELSE {}]
  /\ Off /\ UNCHANGED lost

\* GET /api/marketplace/stats reads the counters in one pipeline.  An error that is
\* answered counts as an answer without counters; a request that fails is dropped.
CountersRead ==
  /\ hub.load # NoLoad /\ hub.load.at = "counters"
  /\ \/ /\ hub' = [hub EXCEPT !.load.at = "answered", !.load.counters = counters]
        /\ UNCHANGED lost
     \/ Drop /\ hub' = [hub EXCEPT !.load.at = "answered", !.load.counters = NoCounters]
     \/ Drop /\ hub' = [hub EXCEPT !.load.at = "over"]
  /\ Off

\* The answer replaces what the page has counted itself meanwhile.
CountersShown ==
  /\ hub.load # NoLoad /\ hub.load.at = "answered"
  /\ hub' = [hub EXCEPT !.load.at = "over", !.counters = hub.load.counters]
  /\ Off /\ UNCHANGED lost

LoadStep == LoadReadsStore \/ LoadReadsList \/ LoadShown \/ CountersRead \/ CountersShown

----------------------------------------------------------------------------
(* What the user of the hub page does *)

HubInput == hub.inputs < budget.inputs
Cards == IF hub.tab = "marketplace" /\ ~Loading THEN hub.listings ELSE {}

OpenHub ==
  /\ hub.tab = "closed"
  /\ hub' = [hub EXCEPT !.tab = "marketplace", !.load = NewLoad]
  /\ Off /\ UNCHANGED lost

\* A load that the tab is left with is abandoned; coming back starts another one.  The
\* cards are drawn anew, and forget that they were rated or are downloading.
ToggleTab ==
  /\ HubInput /\ hub.tab # "closed"
  /\ hub' = [hub EXCEPT !.inputs = @ + 1, !.rated = {}, !.busy = {},
                        !.tab = IF @ = "owned" THEN "marketplace" ELSE "owned",
                        !.load = IF hub.tab = "owned" THEN NewLoad ELSE NoLoad]
  /\ Off /\ UNCHANGED lost

Rate ==
  /\ HubInput /\ Len(ratings) < budget.ratings
  /\ \E g \in Cards \ hub.rated, v \in Stars :
       /\ ratings' = Append(ratings, Rating(g, v, TRUE))
       /\ hub' = [hub EXCEPT !.inputs = @ + 1, !.rated = @ \cup {g}]
  /\ UNCHANGED <<market, counters, owned>>

\* Whatever the answer is, the page counts the rating.
RatingAnswered(i) ==
  /\ ratings[i].here /\ ~ratings[i].told /\ ratings[i].at \in {"counted", "refused", "half", "bare"}
  /\ ratings' = [ratings EXCEPT ![i].told = TRUE]
  /\ hub' = [hub EXCEPT !.counters[ratings[i].gym].stars = @ + ratings[i].value,
                        !.counters[ratings[i].gym].ratings = @ + 1]
  /\ UNCHANGED <<market, counters, owned>>

Download ==
  /\ HubInput
  /\ \E g \in Cards \ (owned \cup hub.busy) :
       hub' = [hub EXCEPT !.inputs = @ + 1, !.busy = @ \cup {g}, !.pulling = @ \cup {g}]
  /\ Off /\ UNCHANGED lost

\* The bundle joins the library, or the card offers the download again.
DownloadEnds ==
  /\ \E g \in hub.pulling :
       /\ hub' = [hub EXCEPT !.pulling = @ \ {g}, !.busy = @ \ {g}]
       /\ \/ owned' = owned \cup {g} /\ UNCHANGED lost
          \/ Drop /\ UNCHANGED owned
  /\ UNCHANGED <<stream, mirror, pubs, ratings, counters>>

\* Enter in the search field: a name that leads to no gym, to one of the library, or to
\* one that is then downloaded.
Search ==
  /\ HubInput /\ hub.tab = "marketplace" /\ hub.found = NoGym
  /\ \E g \in Gyms \ owned : hub' = [hub EXCEPT !.inputs = @ + 1, !.found = g]
  /\ Off /\ UNCHANGED lost

SearchEnds ==
  /\ hub.found # NoGym /\ hub' = [hub EXCEPT !.found = NoGym]
  /\ \/ owned' = owned \cup {hub.found} /\ UNCHANGED lost
     \/ Drop /\ UNCHANGED owned
  /\ UNCHANGED <<stream, mirror, pubs, ratings, counters>>

----------------------------------------------------------------------------
HubInit ==
  /\ budget \in Budgets
  /\ stream = [count |-> Len(Published),
               entries |-> [n \in 0..(Len(Published) - 1) |-> Published[n + 1]]]
  /\ mirror = Mirrored
  /\ pubs = << >> /\ ratings = << >> /\ counters = NoCounters
  /\ owned = {} /\ lost = 0
  /\ hub = [tab |-> "closed", load |-> NoLoad, listings |-> {}, counters |-> NoCounters,
            rated |-> {}, busy |-> {}, pulling |-> {}, found |-> NoGym, inputs |-> 0]

HubUser == OpenHub \/ ToggleTab \/ Rate \/ Download \/ Search
HubAnswer == \/ DownloadEnds \/ SearchEnds
             \/ \E i \in DOMAIN ratings : RatingStep(i) \/ RatingFails(i) \/ RatingAnswered(i)

HubNext == /\ PublishStep \/ RateElsewhere \/ LoadStep \/ HubUser \/ HubAnswer
           /\ UNCHANGED budget

----------------------------------------------------------------------------
(* The two stores make up for each other: a load shows every listing that  *)
(* either of them had when it started, published just now or long ago, if  *)
(* it could read that one.  Only publications whose count and batch        *)
(* interleave may overwrite each other; they overwrite nothing older.      *)
LoadShowsStored ==
  hub.load # NoLoad /\ ~Loading =>
    /\ hub.load.kv = "read" => hub.load.stored \subseteq hub.listings
    /\ hub.load.list = "read" => hub.load.mirrored \subseteq hub.listings

(* The two commands of a rating leave Redis with one to five stars for     *)
(* every rating, whoever reads or writes between them and whatever fails:  *)
(* but for ratings left half done, whose stars are there and which are not *)
(* counted, and for ratings whose stars Redis refused, which are counted   *)
(* all the same.  Only the latter bring an average, or the one a page adds *)
(* its own ratings to, below one star.                                     *)
RatingsOf(g, stages) ==
  Cardinality({i \in DOMAIN ratings : ratings[i].gym = g /\ ratings[i].at \in stages})

RatingsBalanced ==
  \A g \in Gyms :
    LET ahead == RatingsOf(g, {"summed", "half"})
        bare == RatingsOf(g, {"bare"})
    IN  /\ counters[g].ratings + ahead <= counters[g].stars + bare
        /\ counters[g].stars + 5 * bare <= 5 * (counters[g].ratings + ahead)
        /\ hub.counters[g].ratings <= hub.counters[g].stars + bare
=============================================================================
