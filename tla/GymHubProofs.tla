---------------------------- MODULE GymHubProofs ----------------------------
(***************************************************************************)
(* The hub, for any number of gyms, pages, publications, ratings and       *)
(* failures.  The counters of ratings: the invariant counts the ratings    *)
(* whose stars are added and which are not counted yet, and those a        *)
(* failure left there for good.  What a load shows: the invariant says     *)
(* what the entries of the stream and of the list lead to, and what a load *)
(* has read of them so far.                                                *)
(***************************************************************************)
EXTENDS Console, TLAPS, SequenceTheorems, FiniteSetTheorems

Counter == [stars : Nat, ratings : Nat]
RatingStage == {"sent", "summed", "skipped", "half", "counted", "bare", "refused"}
RatingRequest == [gym : Gyms, value : Stars, here : BOOLEAN, at : RatingStage,
                  told : BOOLEAN]

\* The ratings of a gym, out of a sequence of them, that are at one of some stages.
RatingsAt(rs, g, stages) == {i \in DOMAIN rs : rs[i].gym = g /\ rs[i].at \in stages}

\* Stars that are there before their rating is counted; ratings counted without their stars.
Ahead == {"summed", "half"}
Bare == {"bare"}
HowMany(rs, g, stages) == Cardinality(RatingsAt(rs, g, stages))

AtLeastOneStar(c, rs) ==
  /\ c \in [Gyms -> Counter]
  /\ \A g \in Gyms : c[g].ratings <= c[g].stars + HowMany(rs, g, Bare)

RatingTypes == counters \in [Gyms -> Counter] /\ ratings \in Seq(RatingRequest)

(* Between one star and five for every rating, but those ahead and bare.   *)
Balanced(c, ahead, bare) ==
  c.ratings + ahead <= c.stars + bare /\ c.stars + 5 * bare <= 5 * (c.ratings + ahead)

CountersBalanced ==
  \A g \in Gyms :
    Balanced(counters[g], HowMany(ratings, g, Ahead), HowMany(ratings, g, Bare))

(* What the page shows, and the answer it is about to show, given the      *)
(* ratings that were sent.                                                 *)
PageCounts(tab, rs) ==
  /\ {"load", "counters"} \subseteq DOMAIN tab
  /\ AtLeastOneStar(tab.counters, rs)
  /\ tab.load # NoLoad =>
       /\ {"at", "counters"} \subseteq DOMAIN tab.load
       /\ tab.load.at = "answered" => AtLeastOneStar(tab.load.counters, rs)

RatingInv == RatingTypes /\ CountersBalanced /\ PageCounts(hub, ratings)

----------------------------------------------------------------------------
(* One rating moves *)

LEMMA RatingsAtFinite ==
  ASSUME ratings \in Seq(RatingRequest), NEW g, NEW stages
  PROVE  /\ IsFiniteSet(RatingsAt(ratings, g, stages))
         /\ HowMany(ratings, g, stages) \in Nat
<1>1. DOMAIN ratings = 1..Len(ratings) /\ Len(ratings) \in Nat
  BY LenProperties
<1>2. IsFiniteSet(DOMAIN ratings)
  BY <1>1, FS_Interval
<1>3. RatingsAt(ratings, g, stages) \subseteq DOMAIN ratings
  BY DEF RatingsAt
<1>4. QED
  BY <1>2, <1>3, FS_Subset, FS_CardinalityType DEF HowMany

LEMMA OneRatingMoves ==
  ASSUME ratings \in Seq(RatingRequest), NEW i \in DOMAIN ratings, NEW r \in RatingRequest,
         ratings' = [ratings EXCEPT ![i] = r]
  PROVE  /\ ratings' \in Seq(RatingRequest) /\ DOMAIN ratings' = DOMAIN ratings
         /\ \A n \in DOMAIN ratings : ratings'[n] = IF n = i THEN r ELSE ratings[n]
<1>1. DOMAIN ratings = 1..Len(ratings) /\ i \in 1..Len(ratings)
  BY LenProperties
<1>2. /\ ratings' \in Seq(RatingRequest) /\ Len(ratings') = Len(ratings)
      /\ \A n \in 1..Len(ratings) : ratings'[n] = IF n = i THEN r ELSE ratings[n]
  BY <1>1, ExceptSeq, Zenon
<1>3. DOMAIN ratings' = 1..Len(ratings')
  BY <1>2, LenProperties
<1>4. QED
  BY <1>1, <1>2, <1>3

(* A rating that is sent is at neither stage.                              *)
LEMMA RatingSent ==
  ASSUME RatingTypes, CountersBalanced, NEW g \in Gyms, NEW v \in Stars, NEW here \in BOOLEAN,
         ratings' = Append(ratings, Rating(g, v, here)), UNCHANGED counters
  PROVE  /\ RatingTypes' /\ CountersBalanced'
         /\ \A h \in Gyms : HowMany(ratings', h, Bare) = HowMany(ratings, h, Bare)
<1>1. PICK r : r = Rating(g, v, here)
  OBVIOUS
<1>2. r \in RatingRequest /\ r.at = "sent"
  BY <1>1 DEF Rating, RatingRequest, RatingStage
<1>3. ratings' = Append(ratings, r) /\ ratings \in Seq(RatingRequest)
  BY <1>1 DEF RatingTypes
<1>4. /\ DOMAIN ratings = 1..Len(ratings) /\ Len(ratings) \in Nat
      /\ DOMAIN ratings' = 1..(Len(ratings) + 1) /\ ratings'[Len(ratings) + 1] = r
      /\ \A n \in DOMAIN ratings : ratings'[n] = ratings[n]
      /\ ratings' \in Seq(RatingRequest)
  BY <1>2, <1>3, AppendProperties, LenProperties
<1>5. ASSUME NEW h, NEW stages \in {Ahead, Bare}
      PROVE  HowMany(ratings', h, stages) = HowMany(ratings, h, stages)
  <2>1. \A n \in DOMAIN ratings' : n \in DOMAIN ratings \/ n = Len(ratings) + 1
    BY <1>4
  <2>2. DOMAIN ratings \subseteq DOMAIN ratings'
    BY <1>4
  <2>3. "sent" \notin stages
    BY <1>5 DEF Ahead, Bare
  <2>4. RatingsAt(ratings', h, stages) =
          {n \in DOMAIN ratings' : ratings'[n].gym = h /\ ratings'[n].at \in stages}
    BY DEF RatingsAt
  <2>5. RatingsAt(ratings', h, stages) = RatingsAt(ratings, h, stages)
    BY <1>2, <1>4, <2>1, <2>2, <2>3, <2>4 DEF RatingsAt
  <2>6. QED
    BY <2>5 DEF HowMany
<1>6. \A h \in Gyms : /\ HowMany(ratings', h, Ahead) = HowMany(ratings, h, Ahead)
                      /\ HowMany(ratings', h, Bare) = HowMany(ratings, h, Bare)
  BY <1>5
<1>7. QED
  BY <1>4, <1>6 DEF RatingTypes, CountersBalanced

\* How many of a request's ratings, which is one, are those of a gym at some stages.
Counts(r, g, stages) == IF r.gym = g /\ r.at \in stages THEN 1 ELSE 0

LEMMA RatingsCounted ==
  ASSUME ratings \in Seq(RatingRequest), NEW i \in DOMAIN ratings, NEW r \in RatingRequest,
         r.gym = ratings[i].gym, ratings' = [ratings EXCEPT ![i] = r], NEW g, NEW stages
  PROVE  HowMany(ratings', g, stages) =
           HowMany(ratings, g, stages) + Counts(r, g, stages) - Counts(ratings[i], g, stages)
<1>1. PICK P : P = RatingsAt(ratings, g, stages)
  OBVIOUS
<1>2. IsFiniteSet(P) /\ Cardinality(P) \in Nat
  BY <1>1, RatingsAtFinite DEF HowMany
<1>3. i \in P <=> Counts(ratings[i], g, stages) = 1
  BY <1>1 DEF RatingsAt, Counts
<1>4. PICK Q : Q = RatingsAt(ratings', g, stages)
  OBVIOUS
<1>5. /\ g = r.gym /\ r.at \in stages => Q = P \cup {i}
      /\ ~(g = r.gym /\ r.at \in stages) => Q = P \ {i}
  <2>1. /\ DOMAIN ratings' = DOMAIN ratings
        /\ \A n \in DOMAIN ratings : ratings'[n] = IF n = i THEN r ELSE ratings[n]
    BY OneRatingMoves
  <2>2. Q = {n \in DOMAIN ratings : ratings'[n].gym = g /\ ratings'[n].at \in stages}
    BY <1>4, <2>1 DEF RatingsAt
  <2>3. ASSUME g = r.gym, r.at \in stages PROVE Q = P \cup {i}
    BY <1>1, <2>1, <2>2, <2>3 DEF RatingsAt
  <2>4. ASSUME ~(g = r.gym /\ r.at \in stages) PROVE Q = P \ {i}
    BY <1>1, <2>1, <2>2, <2>4 DEF RatingsAt
  <2>5. QED
    BY <2>3, <2>4
<1>6. Cardinality(Q) = Cardinality(P) + Counts(r, g, stages) - (IF i \in P THEN 1 ELSE 0)
  <2>1. Cardinality(P \cup {i}) = Cardinality(P) + 1 - (IF i \in P THEN 1 ELSE 0)
    <3>1. Cardinality(P \cup {i}) = IF i \in P THEN Cardinality(P) ELSE Cardinality(P) + 1
      BY <1>2, FS_AddElement, Zenon
    <3>2. QED
      BY <1>2, <3>1
  <2>2. Cardinality(P \ {i}) = Cardinality(P) - (IF i \in P THEN 1 ELSE 0)
    <3>1. Cardinality(P \ {i}) = IF i \in P THEN Cardinality(P) - 1 ELSE Cardinality(P)
      BY <1>2, FS_RemoveElement, Zenon
    <3>2. QED
      BY <1>2, <3>1
  <2>3. CASE g = r.gym /\ r.at \in stages
    <3>1. Q = P \cup {i} /\ Counts(r, g, stages) = 1
      BY <1>5, <2>3 DEF Counts
    <3>2. QED
      BY <2>1, <3>1
  <2>4. CASE ~(g = r.gym /\ r.at \in stages)
    <3>1. Q = P \ {i} /\ Counts(r, g, stages) = 0
      BY <1>5, <2>4 DEF Counts
    <3>2. Cardinality(Q) = Cardinality(P) + 0 - (IF i \in P THEN 1 ELSE 0)
      BY <1>2, <2>2, <3>1
    <3>3. QED
      BY <3>1, <3>2
  <2>5. QED
    BY <2>3, <2>4
<1>7. (IF i \in P THEN 1 ELSE 0) = Counts(ratings[i], g, stages)
  BY <1>3 DEF Counts
<1>8. QED
  BY <1>1, <1>4, <1>6, <1>7 DEF HowMany

\* The same of both kinds of ratings and of every gym at once.
LEMMA RatingsRecounted ==
  ASSUME ratings \in Seq(RatingRequest), NEW i \in DOMAIN ratings, NEW r \in RatingRequest,
         r.gym = ratings[i].gym, ratings' = [ratings EXCEPT ![i] = r]
  PROVE  \A h \in Gyms, stages \in {Ahead, Bare} :
           HowMany(ratings', h, stages) =
             HowMany(ratings, h, stages) + Counts(r, h, stages) - Counts(ratings[i], h, stages)
  BY RatingsCounted, Zenon

(* A rating that goes on, with as many stars and ratings added as its      *)
(* stages before and after account for.                                    *)
LEMMA RatingMoves ==
  ASSUME RatingTypes, CountersBalanced, NEW i \in DOMAIN ratings, NEW r \in RatingRequest,
         r.gym = ratings[i].gym, ratings' = [ratings EXCEPT ![i] = r],
         NEW c \in Counter, counters' = [counters EXCEPT ![r.gym] = c],
         NEW s \in Nat, NEW n \in Nat,
         c.stars = counters[r.gym].stars + s, c.ratings = counters[r.gym].ratings + n,
         n + Counts(r, r.gym, Ahead) + Counts(ratings[i], r.gym, Bare)
           <= s + Counts(r, r.gym, Bare) + Counts(ratings[i], r.gym, Ahead),
         s + 5 * (Counts(r, r.gym, Bare) + Counts(ratings[i], r.gym, Ahead))
           <= 5 * (n + Counts(r, r.gym, Ahead) + Counts(ratings[i], r.gym, Bare))
  PROVE  RatingTypes' /\ CountersBalanced'
<1>1. ratings \in Seq(RatingRequest) /\ counters \in [Gyms -> Counter] /\ r.gym \in Gyms
  BY DEF RatingTypes, RatingRequest
<1>2. RatingTypes'
  BY <1>1, OneRatingMoves DEF RatingTypes
<1>3. ASSUME NEW h \in Gyms
      PROVE  Balanced(counters'[h], HowMany(ratings', h, Ahead), HowMany(ratings', h, Bare))
  <2>1. /\ HowMany(ratings, h, Ahead) \in Nat /\ HowMany(ratings, h, Bare) \in Nat
        /\ counters[h].stars \in Nat /\ counters[h].ratings \in Nat
    BY <1>1, RatingsAtFinite DEF Counter
  <2>2. /\ HowMany(ratings', h, Ahead) =
             HowMany(ratings, h, Ahead) + Counts(r, h, Ahead) - Counts(ratings[i], h, Ahead)
        /\ HowMany(ratings', h, Bare) =
             HowMany(ratings, h, Bare) + Counts(r, h, Bare) - Counts(ratings[i], h, Bare)
    <3>1. \A g \in Gyms, stages \in {Ahead, Bare} :
            HowMany(ratings', g, stages) =
              HowMany(ratings, g, stages) + Counts(r, g, stages) - Counts(ratings[i], g, stages)
      BY <1>1, RatingsRecounted, Zenon
    <3>2. QED
      BY <3>1, Zenon
  <2>3. /\ counters[h].ratings + HowMany(ratings, h, Ahead)
             <= counters[h].stars + HowMany(ratings, h, Bare)
        /\ counters[h].stars + 5 * HowMany(ratings, h, Bare)
             <= 5 * (counters[h].ratings + HowMany(ratings, h, Ahead))
    BY DEF CountersBalanced, Balanced
  <2>4. CASE h # r.gym
    <3>1. /\ Counts(r, h, Ahead) = 0 /\ Counts(ratings[i], h, Ahead) = 0
          /\ Counts(r, h, Bare) = 0 /\ Counts(ratings[i], h, Bare) = 0
      BY <2>4 DEF Counts
    <3>2. counters'[h] = counters[h]
      BY <1>1, <2>4
    <3>3. /\ HowMany(ratings', h, Ahead) = HowMany(ratings, h, Ahead)
          /\ HowMany(ratings', h, Bare) = HowMany(ratings, h, Bare)
      BY <2>1, <2>2, <3>1
    <3>4. QED
      BY <2>3, <3>2, <3>3 DEF Balanced
  <2>5. CASE h = r.gym
    <3>1. PICK a0, a1, b0, b1 \in 0..1 :
            /\ a0 = Counts(ratings[i], h, Ahead) /\ a1 = Counts(r, h, Ahead)
            /\ b0 = Counts(ratings[i], h, Bare) /\ b1 = Counts(r, h, Bare)
      BY DEF Counts
    <3>2. n + a1 + b0 <= s + b1 + a0 /\ s + 5 * (b1 + a0) <= 5 * (n + a1 + b0)
      BY <2>5, <3>1
    <3>3. /\ counters'[h].stars = counters[h].stars + s
          /\ counters'[h].ratings = counters[h].ratings + n
      BY <1>1, <2>5
    <3>4. /\ HowMany(ratings', h, Ahead) = HowMany(ratings, h, Ahead) + a1 - a0
          /\ HowMany(ratings', h, Bare) = HowMany(ratings, h, Bare) + b1 - b0
      BY <2>2, <3>1
    <3>5. QED
      BY <2>1, <2>3, <3>2, <3>3, <3>4 DEF Balanced
  <2>6. QED
    BY <2>4, <2>5
<1>4. QED
  BY <1>2, <1>3 DEF CountersBalanced

(* Once bare, a rating stays so.                                           *)
LEMMA BareGrows ==
  ASSUME ratings \in Seq(RatingRequest), NEW i \in DOMAIN ratings, NEW r \in RatingRequest,
         r.gym = ratings[i].gym, ratings' = [ratings EXCEPT ![i] = r],
         ratings[i].at = "bare" => r.at = "bare"
  PROVE  \A h \in Gyms : /\ HowMany(ratings, h, Bare) \in Nat /\ HowMany(ratings', h, Bare) \in Nat
                         /\ HowMany(ratings, h, Bare) <= HowMany(ratings', h, Bare)
<1>1. SUFFICES ASSUME NEW h \in Gyms
               PROVE  /\ HowMany(ratings, h, Bare) \in Nat /\ HowMany(ratings', h, Bare) \in Nat
                      /\ HowMany(ratings, h, Bare) <= HowMany(ratings', h, Bare)
  OBVIOUS
<1>2. HowMany(ratings, h, Bare) \in Nat
  BY RatingsAtFinite
<1>3. HowMany(ratings', h, Bare)
        = HowMany(ratings, h, Bare) + Counts(r, h, Bare) - Counts(ratings[i], h, Bare)
  BY RatingsCounted
<1>4. PICK b0, b1 \in 0..1 : b0 = Counts(ratings[i], h, Bare) /\ b1 = Counts(r, h, Bare)
                            /\ b0 <= b1
  BY DEF Counts, Bare
<1>5. HowMany(ratings', h, Bare) = HowMany(ratings, h, Bare) + b1 - b0
  BY <1>3, <1>4
<1>6. QED
  BY <1>2, <1>4, <1>5

(* Adding the stars, and counting the rating afterwards.                   *)
LEMMA RatingStepBalanced ==
  ASSUME RatingTypes, CountersBalanced, NEW i \in DOMAIN ratings, RatingStep(i)
  PROVE  /\ RatingTypes' /\ CountersBalanced'
         /\ \A h \in Gyms : /\ HowMany(ratings, h, Bare) \in Nat
                             /\ HowMany(ratings', h, Bare) \in Nat
                             /\ HowMany(ratings, h, Bare) <= HowMany(ratings', h, Bare)
<1>1. /\ ratings \in Seq(RatingRequest) /\ counters \in [Gyms -> Counter]
      /\ ratings[i] \in RatingRequest
  BY LenProperties, ElementOfSeq DEF RatingTypes
<1>2. PICK g \in Gyms, v \in 1..5 : g = ratings[i].gym /\ v = ratings[i].value
  BY <1>1, HubAssumption DEF RatingRequest
<1>3. /\ counters[g] \in Counter /\ counters[g].stars + v \in Nat
      /\ counters[g].ratings + 1 \in Nat /\ v \in Nat
  <2>1. counters[g] \in Counter
    BY <1>1
  <2>2. QED
    BY <1>2, <2>1 DEF Counter
<1>4. CASE /\ ratings[i].at = "sent" /\ ratings' = [ratings EXCEPT ![i].at = "summed"]
           /\ counters' = [counters EXCEPT ![ratings[i].gym].stars = @ + ratings[i].value]
  <2>1. PICK r : r = [ratings[i] EXCEPT !.at = "summed"]
    OBVIOUS
  <2>2. r \in RatingRequest /\ r.gym = g /\ r.at = "summed"
    BY <1>1, <1>2, <2>1 DEF RatingRequest, RatingStage
  <2>3. ratings' = [ratings EXCEPT ![i] = r]
    BY <1>4, <2>1
  <2>4. PICK c : c = [counters[g] EXCEPT !.stars = @ + v]
    OBVIOUS
  <2>5. c \in Counter /\ c.stars = counters[g].stars + v /\ c.ratings = counters[g].ratings + 0
    BY <1>3, <2>4 DEF Counter
  <2>6. counters' = [counters EXCEPT ![r.gym] = c]
    BY <1>2, <1>4, <2>2, <2>4
  <2>7. /\ Counts(r, r.gym, Ahead) = 1 /\ Counts(ratings[i], r.gym, Ahead) = 0
        /\ Counts(r, r.gym, Bare) = 0 /\ Counts(ratings[i], r.gym, Bare) = 0
    BY <1>4, <2>2 DEF Counts, Ahead, Bare
  <2>8. RatingTypes' /\ CountersBalanced'
    <3>1. /\ 0 + Counts(r, r.gym, Ahead) + Counts(ratings[i], r.gym, Bare)
               <= v + Counts(r, r.gym, Bare) + Counts(ratings[i], r.gym, Ahead)
          /\ v + 5 * (Counts(r, r.gym, Bare) + Counts(ratings[i], r.gym, Ahead))
               <= 5 * (0 + Counts(r, r.gym, Ahead) + Counts(ratings[i], r.gym, Bare))
      BY <2>7
    <3>2. QED
      BY <1>2, <1>3, <2>2, <2>3, <2>5, <2>6, <3>1, RatingMoves
  <2>9. QED
    BY <1>1, <1>2, <1>4, <2>2, <2>3, <2>8, BareGrows
<1>5. CASE /\ ratings[i].at \in {"summed", "skipped"}
           /\ ratings' = [ratings EXCEPT ![i].at = AfterCount(@)]
           /\ counters' = [counters EXCEPT ![ratings[i].gym].ratings = @ + 1]
  <2>1. PICK r : r = [ratings[i] EXCEPT !.at = AfterCount(@)]
    OBVIOUS
  <2>2. /\ r \in RatingRequest /\ r.gym = g
        /\ r.at = IF ratings[i].at = "summed" THEN "counted" ELSE "bare"
    BY <1>1, <1>2, <2>1 DEF RatingRequest, RatingStage, AfterCount
  <2>3. ratings' = [ratings EXCEPT ![i] = r]
    BY <1>5, <2>1
  <2>4. PICK c : c = [counters[g] EXCEPT !.ratings = @ + 1]
    OBVIOUS
  <2>5. c \in Counter /\ c.stars = counters[g].stars + 0 /\ c.ratings = counters[g].ratings + 1
    BY <1>3, <2>4 DEF Counter
  <2>6. counters' = [counters EXCEPT ![r.gym] = c]
    BY <1>2, <1>5, <2>2, <2>4
  <2>7. /\ Counts(r, r.gym, Ahead) = 0 /\ Counts(ratings[i], r.gym, Bare) = 0
        /\ Counts(r, r.gym, Bare) + Counts(ratings[i], r.gym, Ahead) = 1
    BY <1>2, <1>5, <2>2 DEF Counts, Ahead, Bare
  <2>8. RatingTypes' /\ CountersBalanced'
    <3>1. /\ 1 + Counts(r, r.gym, Ahead) + Counts(ratings[i], r.gym, Bare)
               <= 0 + Counts(r, r.gym, Bare) + Counts(ratings[i], r.gym, Ahead)
          /\ 0 + 5 * (Counts(r, r.gym, Bare) + Counts(ratings[i], r.gym, Ahead))
               <= 5 * (1 + Counts(r, r.gym, Ahead) + Counts(ratings[i], r.gym, Bare))
      <4>1. Counts(r, r.gym, Bare) \in Nat /\ Counts(ratings[i], r.gym, Ahead) \in Nat
        BY DEF Counts
      <4>2. QED
        BY <2>7, <4>1
    <3>2. QED
      BY <1>2, <1>3, <2>2, <2>3, <2>5, <2>6, <3>1, RatingMoves
  <2>9. QED
    BY <1>1, <1>2, <1>5, <2>2, <2>3, <2>8, BareGrows
<1>6. QED
  BY <1>4, <1>5 DEF RatingStep

(* A rating that fails, or whose answer is seen, takes no star away and    *)
(* adds none; a failure between the commands leaves it half done.          *)
LEMMA RatingKept ==
  ASSUME RatingTypes, CountersBalanced, NEW i \in DOMAIN ratings, NEW r \in RatingRequest,
         r.gym = ratings[i].gym, ratings' = [ratings EXCEPT ![i] = r], UNCHANGED counters,
         \/ r.at = ratings[i].at
         \/ ratings[i].at = "sent" /\ r.at \in {"refused", "skipped"}
         \/ ratings[i].at = "skipped" /\ r.at = "refused"
         \/ ratings[i].at = "summed" /\ r.at = "half"
  PROVE  /\ RatingTypes' /\ CountersBalanced'
         /\ \A h \in Gyms : /\ HowMany(ratings, h, Bare) \in Nat
                             /\ HowMany(ratings', h, Bare) \in Nat
                             /\ HowMany(ratings, h, Bare) <= HowMany(ratings', h, Bare)
<1>1. ratings \in Seq(RatingRequest) /\ counters \in [Gyms -> Counter] /\ r.gym \in Gyms
  BY DEF RatingTypes, RatingRequest
<1>2. PICK c \in Counter : c = counters[r.gym]
  BY <1>1
<1>3. /\ c.stars = counters[r.gym].stars + 0 /\ c.ratings = counters[r.gym].ratings + 0
      /\ counters' = [counters EXCEPT ![r.gym] = c]
  BY <1>1, <1>2 DEF Counter
<1>4. /\ Counts(r, r.gym, Ahead) = Counts(ratings[i], r.gym, Ahead)
      /\ Counts(r, r.gym, Bare) = Counts(ratings[i], r.gym, Bare)
      /\ Counts(r, r.gym, Ahead) \in 0..1 /\ Counts(r, r.gym, Bare) \in 0..1
  BY DEF Counts, Ahead, Bare
<1>5. RatingTypes' /\ CountersBalanced'
  <2>1. /\ 0 + Counts(r, r.gym, Ahead) + Counts(ratings[i], r.gym, Bare)
             <= 0 + Counts(r, r.gym, Bare) + Counts(ratings[i], r.gym, Ahead)
        /\ 0 + 5 * (Counts(r, r.gym, Bare) + Counts(ratings[i], r.gym, Ahead))
             <= 5 * (0 + Counts(r, r.gym, Ahead) + Counts(ratings[i], r.gym, Bare))
    BY <1>4
  <2>2. /\ 0 \in Nat /\ c.stars = counters[r.gym].stars + 0
        /\ c.ratings = counters[r.gym].ratings + 0
        /\ counters' = [counters EXCEPT ![r.gym] = c]
    BY <1>3
  <2>3. QED
    BY <2>1, <2>2, RatingMoves
<1>6. QED
  BY <1>1, <1>5, BareGrows

----------------------------------------------------------------------------
(* What the page shows *)

\* What a step may do to the page without touching a count.
CountsKept ==
  /\ {"load", "counters"} \subseteq DOMAIN hub' /\ hub'.counters = hub.counters
  /\ hub'.load = hub.load

LEMMA PageUntouched == ASSUME PageCounts(hub, ratings), CountsKept PROVE PageCounts(hub', ratings)
BY DEF PageCounts, CountsKept

LEMMA NewLoadFresh == {"at", "counters"} \subseteq DOMAIN NewLoad /\ NewLoad.at = "listings"
BY DEF NewLoad

(* A load that is not answered brings no counts.                           *)
LEMMA LoadChanges ==
  ASSUME PageCounts(hub, ratings), NEW load, hub' = [hub EXCEPT !.load = load],
         load # NoLoad => /\ {"at", "counters"} \subseteq DOMAIN load
                          /\ load.at = "answered" => AtLeastOneStar(load.counters, ratings)
  PROVE  PageCounts(hub', ratings)
<1>1. /\ {"load", "counters"} \subseteq DOMAIN hub'
      /\ hub'.load = load /\ hub'.counters = hub.counters
  BY DEF PageCounts
<1>2. QED
  BY <1>1 DEF PageCounts

LEMMA LoadReadsStoreCounts == ASSUME PageCounts(hub, ratings), LoadReadsStore PROVE PageCounts(hub', ratings)
<1>1. /\ hub.load # NoLoad /\ hub.load.at = "listings"
      /\ {"at", "counters"} \subseteq DOMAIN hub.load
  BY DEF LoadReadsStore, Loading, PageCounts
<1>2. PICK l : /\ hub' = [hub EXCEPT !.load = l] /\ {"at", "counters"} \subseteq DOMAIN l
               /\ l.at = "listings"
  <2>1. CASE hub' = [hub EXCEPT !.load.kv = "failed"]
    <3>1. PICK l : l = [hub.load EXCEPT !.kv = "failed"]
      OBVIOUS
    <3>2. {"at", "counters"} \subseteq DOMAIN l /\ l.at = "listings"
      BY <1>1, <3>1
    <3>3. hub' = [hub EXCEPT !.load = l]
      BY <2>1, <3>1
    <3>4. QED
      BY <3>2, <3>3
  <2>2. CASE hub' = [hub EXCEPT !.load =
                       IF @.kv = "reading" THEN Entries(@)
                       ELSE [@ EXCEPT !.kv = "reading", !.count = stream.count]]
    <3>1. PICK l : l = IF hub.load.kv = "reading" THEN Entries(hub.load)
                       ELSE [hub.load EXCEPT !.kv = "reading", !.count = stream.count]
      OBVIOUS
    <3>2. hub' = [hub EXCEPT !.load = l]
      BY <2>2, <3>1
    <3>3. {"at", "counters"} \subseteq DOMAIN l /\ l.at = "listings"
      BY <1>1, <3>1 DEF Entries
    <3>4. QED
      BY <3>2, <3>3
  <2>3. QED
    BY <2>1, <2>2 DEF LoadReadsStore
<1>3. QED
  BY <1>2, LoadChanges

LEMMA LoadReadsListCounts == ASSUME PageCounts(hub, ratings), LoadReadsList PROVE PageCounts(hub', ratings)
<1>1. /\ hub.load # NoLoad /\ hub.load.at = "listings"
      /\ {"at", "counters"} \subseteq DOMAIN hub.load
  BY DEF LoadReadsList, Loading, PageCounts
<1>2. PICK l : /\ hub' = [hub EXCEPT !.load = l] /\ {"at", "counters"} \subseteq DOMAIN l
               /\ l.at = "listings"
  <2>1. CASE hub' = [hub EXCEPT !.load.list = "failed"]
    <3>1. PICK l : l = [hub.load EXCEPT !.list = "failed"]
      OBVIOUS
    <3>2. {"at", "counters"} \subseteq DOMAIN l /\ l.at = "listings"
      BY <1>1, <3>1
    <3>3. hub' = [hub EXCEPT !.load = l]
      BY <2>1, <3>1
    <3>4. QED
      BY <3>2, <3>3
  <2>2. CASE hub' = [hub EXCEPT !.load.list = "read", !.load.listed = ToSet(mirror)]
    <3>1. PICK l : l = [hub.load EXCEPT !.list = "read", !.listed = ToSet(mirror)]
      OBVIOUS
    <3>2. {"at", "counters"} \subseteq DOMAIN l /\ l.at = "listings"
      BY <1>1, <3>1
    <3>3. hub' = [hub EXCEPT !.load = l]
      BY <2>2, <3>1 DEF PageCounts
    <3>4. QED
      BY <3>2, <3>3
  <2>3. QED
    BY <2>1, <2>2 DEF LoadReadsList
<1>3. QED
  BY <1>2, LoadChanges

(* The same of any step that gives the page a load and keeps its counts.   *)
LEMMA PageMoves ==
  ASSUME PageCounts(hub, ratings), NEW load, {"load", "counters"} \subseteq DOMAIN hub',
         hub'.counters = hub.counters, hub'.load = load,
         load # NoLoad => /\ {"at", "counters"} \subseteq DOMAIN load
                          /\ load.at = "answered" => AtLeastOneStar(load.counters, ratings)
  PROVE  PageCounts(hub', ratings)
BY DEF PageCounts

LEMMA LoadShownCounts == ASSUME PageCounts(hub, ratings), LoadShown PROVE PageCounts(hub', ratings)
<1>1. /\ hub.load # NoLoad /\ {"at", "counters"} \subseteq DOMAIN hub.load
      /\ {"load", "counters"} \subseteq DOMAIN hub
  BY DEF LoadShown, Loading, PageCounts
<1>2. PICK l : l = [hub.load EXCEPT !.at = "counters"]
  OBVIOUS
<1>3. {"at", "counters"} \subseteq DOMAIN l /\ l.at = "counters"
  BY <1>1, <1>2
<1>4. PICK shown : hub' = [hub EXCEPT !.load = l, !.listings = shown]
  <2>1. PICK shown : hub' = [hub EXCEPT !.load.at = "counters", !.listings = shown]
    BY Zenon DEF LoadShown
  <2>2. QED
    BY <1>1, <1>2, <2>1
<1>5. /\ {"load", "counters"} \subseteq DOMAIN hub' /\ hub'.counters = hub.counters
      /\ hub'.load = l
  BY <1>1, <1>4
<1>6. QED
  BY <1>3, <1>5, PageMoves

(* The counters are read as they are.                                      *)
LEMMA CountersReadCounts == ASSUME RatingInv, CountersRead PROVE PageCounts(hub', ratings)
<1>1. /\ hub.load # NoLoad /\ {"at", "counters"} \subseteq DOMAIN hub.load
      /\ {"load", "counters"} \subseteq DOMAIN hub /\ PageCounts(hub, ratings)
  BY DEF CountersRead, PageCounts, RatingInv
<1>2. AtLeastOneStar(counters, ratings) /\ AtLeastOneStar(NoCounters, ratings)
  <2>1. \A g \in Gyms : HowMany(ratings, g, Bare) \in Nat /\ HowMany(ratings, g, Ahead) \in Nat
    BY RatingsAtFinite DEF RatingInv, RatingTypes
  <2>2. ASSUME NEW g \in Gyms
        PROVE  counters[g].ratings <= counters[g].stars + HowMany(ratings, g, Bare)
    <3>1. counters[g] \in Counter
      BY DEF RatingInv, RatingTypes
    <3>2. counters[g].ratings + HowMany(ratings, g, Ahead)
            <= counters[g].stars + HowMany(ratings, g, Bare)
      BY DEF RatingInv, CountersBalanced, Balanced
    <3>3. QED
      BY <2>1, <3>1, <3>2 DEF Counter
  <2>3. /\ NoCounters \in [Gyms -> Counter]
        /\ \A g \in Gyms : NoCounters[g].stars = 0 /\ NoCounters[g].ratings = 0
    BY DEF NoCounters, Counter
  <2>4. AtLeastOneStar(NoCounters, ratings)
    BY <2>1, <2>3 DEF AtLeastOneStar
  <2>5. QED
    BY <2>2, <2>4 DEF AtLeastOneStar, RatingInv, RatingTypes
<1>3. ASSUME NEW shown \in {counters, NoCounters},
             hub' = [hub EXCEPT !.load.at = "answered", !.load.counters = shown]
      PROVE  PageCounts(hub', ratings)
  <2>1. PICK l : l = [hub.load EXCEPT !.at = "answered", !.counters = shown]
    OBVIOUS
  <2>2. {"at", "counters"} \subseteq DOMAIN l /\ l.counters = shown
    BY <1>1, <2>1
  <2>3. hub' = [hub EXCEPT !.load = l]
    BY <1>1, <1>3, <2>1
  <2>4. QED
    BY <1>1, <1>2, <1>3, <2>2, <2>3, LoadChanges
<1>4. CASE hub' = [hub EXCEPT !.load.at = "over"]
  <2>1. PICK l : l = [hub.load EXCEPT !.at = "over"]
    OBVIOUS
  <2>2. {"at", "counters"} \subseteq DOMAIN l /\ l.at = "over"
    BY <1>1, <2>1
  <2>3. hub' = [hub EXCEPT !.load = l]
    BY <1>4, <2>1
  <2>4. QED
    BY <1>1, <2>2, <2>3, LoadChanges
<1>5. QED
  BY <1>3, <1>4 DEF CountersRead

(* What the page shows is replaced by what was read.                       *)
LEMMA CountersShownCounts == ASSUME PageCounts(hub, ratings), CountersShown PROVE PageCounts(hub', ratings)
<1>1. /\ hub.load # NoLoad /\ {"at", "counters"} \subseteq DOMAIN hub.load
      /\ {"load", "counters"} \subseteq DOMAIN hub /\ AtLeastOneStar(hub.load.counters, ratings)
      /\ hub' = [hub EXCEPT !.load.at = "over", !.counters = hub.load.counters]
  BY DEF CountersShown, PageCounts
<1>2. PICK l, c : l = [hub.load EXCEPT !.at = "over"] /\ c = hub.load.counters
  OBVIOUS
<1>3. {"at", "counters"} \subseteq DOMAIN l /\ l.at = "over"
  BY <1>1, <1>2
<1>4. hub' = [hub EXCEPT !.load = l, !.counters = c]
  BY <1>1, <1>2
<1>5. {"load", "counters"} \subseteq DOMAIN hub' /\ hub'.counters = c /\ hub'.load = l
  BY <1>1, <1>4
<1>6. QED
  BY <1>1, <1>2, <1>3, <1>5 DEF PageCounts, AtLeastOneStar

(* What the user does leaves the counts alone, and a new load has none.    *)
LEMMA UserCounts ==
  ASSUME PageCounts(hub, ratings), OpenHub \/ ToggleTab \/ Rate \/ Download \/ Search \/ SearchEnds \/ DownloadEnds
  PROVE  PageCounts(hub', ratings)
<1>1. {"load", "counters"} \subseteq DOMAIN hub
  BY DEF PageCounts
<1>2. CASE OpenHub
  <2>1. /\ {"load", "counters"} \subseteq DOMAIN hub' /\ hub'.counters = hub.counters
        /\ hub'.load = NewLoad
    BY <1>1, <1>2 DEF OpenHub
  <2>2. QED
    BY <2>1, NewLoadFresh, PageMoves
<1>3. CASE ToggleTab
  <2>1. /\ {"load", "counters"} \subseteq DOMAIN hub' /\ hub'.counters = hub.counters
        /\ hub'.load \in {NewLoad, NoLoad}
    BY <1>1, <1>3 DEF ToggleTab
  <2>2. QED
    BY <2>1, NewLoadFresh, PageMoves
<1>4. CASE Rate \/ Download \/ Search \/ SearchEnds \/ DownloadEnds
  <2>1. CountsKept
    BY <1>1, <1>4 DEF Rate, Download, Search, SearchEnds, DownloadEnds, CountsKept
  <2>2. QED
    BY <2>1, PageUntouched
<1>5. QED
  BY <1>2, <1>3, <1>4

(* More bare ratings leave the page as balanced as it was.                 *)
LEMMA MoreBare ==
  ASSUME PageCounts(hub', ratings),
         \A h \in Gyms : /\ HowMany(ratings, h, Bare) \in Nat /\ HowMany(ratings', h, Bare) \in Nat
                         /\ HowMany(ratings, h, Bare) <= HowMany(ratings', h, Bare)
  PROVE  PageCounts(hub', ratings')
<1>1. ASSUME NEW c, AtLeastOneStar(c, ratings)
      PROVE  AtLeastOneStar(c, ratings')
  <2>1. SUFFICES ASSUME NEW h \in Gyms
                 PROVE  c[h].ratings <= c[h].stars + HowMany(ratings', h, Bare)
    BY <1>1 DEF AtLeastOneStar
  <2>2. c[h] \in Counter /\ c[h].ratings <= c[h].stars + HowMany(ratings, h, Bare)
    BY <1>1 DEF AtLeastOneStar
  <2>3. QED
    BY <2>2 DEF Counter
<1>2. QED
  BY <1>1 DEF PageCounts

(* The page counts a rating of its own, which has a star at least.         *)
LEMMA RatingAnsweredCounts ==
  ASSUME RatingInv, NEW i \in DOMAIN ratings, RatingAnswered(i) PROVE RatingInv'
<1>1. /\ ratings \in Seq(RatingRequest) /\ ratings[i] \in RatingRequest
      /\ {"load", "counters"} \subseteq DOMAIN hub /\ hub.counters \in [Gyms -> Counter]
      /\ PageCounts(hub, ratings)
  BY LenProperties, ElementOfSeq DEF RatingInv, RatingTypes, PageCounts, AtLeastOneStar
<1>2. PICK g \in Gyms, v \in 1..5 : g = ratings[i].gym /\ v = ratings[i].value
  BY <1>1, HubAssumption DEF RatingRequest
<1>3. /\ RatingTypes' /\ CountersBalanced'
      /\ \A h \in Gyms : /\ HowMany(ratings, h, Bare) \in Nat /\ HowMany(ratings', h, Bare) \in Nat
                          /\ HowMany(ratings, h, Bare) <= HowMany(ratings', h, Bare)
  <2>1. PICK r : r = [ratings[i] EXCEPT !.told = TRUE]
    OBVIOUS
  <2>2. r \in RatingRequest /\ r.gym = ratings[i].gym /\ r.at = ratings[i].at
    BY <1>1, <2>1 DEF RatingRequest
  <2>3. ratings' = [ratings EXCEPT ![i] = r] /\ counters' = counters
    BY <2>1 DEF RatingAnswered
  <2>4. QED
    BY <2>2, <2>3, RatingKept DEF RatingInv
<1>4. PICK c : c = [hub.counters[g] EXCEPT !.stars = @ + v, !.ratings = @ + 1]
  OBVIOUS
<1>5. /\ c \in Counter /\ c.stars = hub.counters[g].stars + v
      /\ c.ratings = hub.counters[g].ratings + 1
  <2>1. hub.counters[g] \in Counter
    BY <1>1
  <2>2. hub.counters[g].stars + v \in Nat /\ hub.counters[g].ratings + 1 \in Nat
    BY <1>2, <2>1 DEF Counter
  <2>3. QED
    BY <1>4, <2>1, <2>2 DEF Counter
<1>6. PICK cs : cs = [hub.counters EXCEPT ![g] = c]
  OBVIOUS
<1>7. hub' = [hub EXCEPT !.counters = cs]
  <2>1. hub' = [hub EXCEPT !.counters[g].stars = @ + v, !.counters[g].ratings = @ + 1]
    BY <1>2 DEF RatingAnswered
  <2>2. QED
    BY <1>1, <1>4, <1>6, <2>1
<1>8. AtLeastOneStar(cs, ratings)
  <2>1. cs \in [Gyms -> Counter] /\ \A h \in Gyms : cs[h] = IF h = g THEN c ELSE hub.counters[h]
    BY <1>1, <1>5, <1>6
  <2>2. \A h \in Gyms : /\ hub.counters[h] \in Counter
                        /\ hub.counters[h].ratings
                             <= hub.counters[h].stars + HowMany(ratings, h, Bare)
    BY <1>1 DEF PageCounts, AtLeastOneStar
  <2>3. c.ratings <= c.stars + HowMany(ratings, g, Bare)
    BY <1>2, <1>3, <1>5, <2>2 DEF Counter
  <2>4. QED
    BY <2>1, <2>2, <2>3 DEF AtLeastOneStar
<1>9. /\ {"load", "counters"} \subseteq DOMAIN hub' /\ hub'.counters = cs
      /\ hub'.load = hub.load
  BY <1>1, <1>7
<1>10. PageCounts(hub', ratings)
  BY <1>1, <1>8, <1>9 DEF PageCounts
<1>11. QED
  BY <1>3, <1>10, MoreBare DEF RatingInv

LEMMA RatingFailsKept ==
  ASSUME RatingInv, NEW i \in DOMAIN ratings, RatingFails(i) PROVE RatingInv'
<1>1. /\ ratings \in Seq(RatingRequest) /\ ratings[i] \in RatingRequest
      /\ UNCHANGED <<counters, hub>>
  BY LenProperties, ElementOfSeq DEF RatingInv, RatingTypes, RatingFails
<1>2. PICK at : /\ ratings' = [ratings EXCEPT ![i].at = at]
                /\ \/ ratings[i].at = "sent" /\ at \in {"refused", "skipped"}
                   \/ ratings[i].at = "skipped" /\ at = "refused"
                   \/ ratings[i].at = "summed" /\ at = "half"
  BY DEF RatingFails
<1>3. PICK r : r = [ratings[i] EXCEPT !.at = at]
  OBVIOUS
<1>4. r \in RatingRequest /\ r.gym = ratings[i].gym /\ r.at = at
  BY <1>1, <1>2, <1>3 DEF RatingRequest, RatingStage
<1>5. ratings' = [ratings EXCEPT ![i] = r]
  BY <1>2, <1>3
<1>6. /\ RatingTypes' /\ CountersBalanced'
      /\ \A h \in Gyms : /\ HowMany(ratings, h, Bare) \in Nat /\ HowMany(ratings', h, Bare) \in Nat
                          /\ HowMany(ratings, h, Bare) <= HowMany(ratings', h, Bare)
  BY <1>1, <1>2, <1>4, <1>5, RatingKept DEF RatingInv
<1>7. PageCounts(hub', ratings)
  BY <1>1 DEF RatingInv
<1>8. QED
  BY <1>6, <1>7, MoreBare DEF RatingInv

----------------------------------------------------------------------------
(* Only gyms are published, listed and shown.                              *)

Publication == [gym : Gyms, at : {"kv", "mirroring", "fallback", "done", "failed"},
                kv : {"counting", "writing", "written", "failed"}, count : Nat,
                mirrored : BOOLEAN, overlaps : BOOLEAN]

MarketTypes ==
  /\ pubs \in Seq(Publication) /\ mirror \in Seq(Gyms)
  /\ stream.count \in Nat /\ \A n \in DOMAIN stream.entries : stream.entries[n] \in Gyms

LoadOfGyms(load) ==
  {"found", "listed"} \subseteq DOMAIN load /\ load.found \cup load.listed \subseteq Gyms

PageGyms ==
  /\ {"listings", "load"} \subseteq DOMAIN hub /\ hub.listings \subseteq Gyms
  /\ hub.load # NoLoad => LoadOfGyms(hub.load)

LEMMA OnePublicationMoves ==
  ASSUME MarketTypes, NEW i \in DOMAIN pubs, NEW p \in Publication,
         pubs' = [pubs EXCEPT ![i] = p]
  PROVE  pubs' \in Seq(Publication)
<1>1. DOMAIN pubs = 1..Len(pubs) /\ i \in 1..Len(pubs) /\ pubs \in Seq(Publication)
  BY LenProperties DEF MarketTypes
<1>2. QED
  BY <1>1, ExceptSeq, Zenon

(* A publication that starts joins those that may overlap it.              *)
LEMMA PublishTypes == ASSUME MarketTypes, NEW g \in Gyms, Publish(g) PROVE MarketTypes'
<1>1. /\ pubs \in Seq(Publication) /\ DOMAIN pubs = 1..Len(pubs) /\ Len(pubs) \in Nat
      /\ \A i \in DOMAIN pubs : pubs[i] \in Publication
  BY LenProperties, ElementOfSeq DEF MarketTypes
<1>2. PICK older : older = [i \in DOMAIN pubs |->
               IF Open(pubs[i]) THEN [pubs[i] EXCEPT !.overlaps = TRUE] ELSE pubs[i]]
  OBVIOUS
<1>3. \A i \in DOMAIN pubs : [pubs[i] EXCEPT !.overlaps = TRUE] \in Publication
  BY <1>1 DEF Publication
<1>4. older \in [1..Len(pubs) -> Publication]
  BY <1>1, <1>2, <1>3
<1>5. older \in Seq(Publication)
  BY <1>1, <1>4, IsASeq
<1>6. PICK p \in Publication : pubs' = older \o <<p>>
  <2>1. PICK o \in BOOLEAN : o = \E i \in DOMAIN pubs : Open(pubs[i])
    BY Zenon
  <2>2. PICK p : p = [gym |-> g, at |-> "kv", kv |-> "counting", count |-> 0,
                      mirrored |-> FALSE, overlaps |-> o]
    OBVIOUS
  <2>3. p \in Publication
    BY <2>1, <2>2 DEF Publication
  <2>4. pubs' = older \o <<p>>
    BY <1>2, <2>1, <2>2, Zenon DEF Publish
  <2>5. QED
    BY <2>3, <2>4
<1>7. pubs' \in Seq(Publication)
  BY <1>5, <1>6, ConcatProperties
<1>8. QED
  BY <1>7 DEF Publish, MarketTypes

LEMMA PublicationMovesTypes ==
  ASSUME MarketTypes, NEW i \in DOMAIN pubs,
         CountRead(i) \/ BatchWritten(i) \/ StoreFails(i) \/ BatchLost(i) \/ Appended(i)
  PROVE  MarketTypes'
<1>1. pubs[i] \in Publication /\ mirror \in Seq(Gyms) /\ stream.count \in Nat
  BY LenProperties, ElementOfSeq DEF MarketTypes
<1>2. CASE CountRead(i)
  <2>1. PICK p : p = [pubs[i] EXCEPT !.kv = "writing", !.count = stream.count]
    OBVIOUS
  <2>2. p \in Publication
    <3>1. PICK q \in Publication : q = [pubs[i] EXCEPT !.kv = "writing"]
      BY <1>1 DEF Publication
    <3>2. p = [q EXCEPT !.count = stream.count]
      BY <2>1, <3>1
    <3>3. QED
      BY <1>1, <3>1, <3>2 DEF Publication
  <2>3. pubs' = [pubs EXCEPT ![i] = p] /\ UNCHANGED <<stream, mirror>>
    BY <1>2, <2>1 DEF CountRead
  <2>4. QED
    BY <2>2, <2>3, OnePublicationMoves DEF MarketTypes
<1>3. CASE BatchWritten(i)
  <2>1. PICK at : at = IF pubs[i].at = "kv" THEN "mirroring" ELSE pubs[i].at
    OBVIOUS
  <2>2. PICK p : p = [pubs[i] EXCEPT !.kv = "written", !.at = at]
    OBVIOUS
  <2>3. p \in Publication
    <3>1. PICK q \in Publication : q = [pubs[i] EXCEPT !.kv = "written"]
      BY <1>1 DEF Publication
    <3>2. p = [q EXCEPT !.at = at]
      BY <2>2, <3>1
    <3>3. QED
      BY <1>1, <2>1, <3>1, <3>2 DEF Publication
  <2>4. /\ pubs' = [pubs EXCEPT ![i] = p] /\ mirror' = mirror
        /\ stream'.count = pubs[i].count + 1
        /\ stream'.entries = WithEntry(pubs[i].count, pubs[i].gym)
    BY <1>3, <2>1, <2>2 DEF BatchWritten, Batch
  <2>5. pubs[i].count \in Nat /\ pubs[i].gym \in Gyms
    BY <1>1 DEF Publication
  <2>6. \A n \in DOMAIN stream'.entries : stream'.entries[n] \in Gyms
    BY <2>4, <2>5 DEF MarketTypes, WithEntry
  <2>7. QED
    BY <1>1, <2>3, <2>4, <2>5, <2>6, OnePublicationMoves DEF MarketTypes
<1>4. CASE StoreFails(i)
  <2>1. PICK kv \in {pubs[i].kv, "failed"} :
          pubs' = [pubs EXCEPT ![i].kv = kv, ![i].at = "fallback"]
    BY <1>4 DEF StoreFails
  <2>2. PICK p : p = [pubs[i] EXCEPT !.kv = kv, !.at = "fallback"]
    OBVIOUS
  <2>3. p \in Publication
    <3>1. PICK q \in Publication : q = [pubs[i] EXCEPT !.kv = kv]
      BY <1>1 DEF Publication
    <3>2. p = [q EXCEPT !.at = "fallback"]
      BY <2>2, <3>1
    <3>3. QED
      BY <3>1, <3>2 DEF Publication
  <2>4. pubs' = [pubs EXCEPT ![i] = p] /\ UNCHANGED <<stream, mirror>>
    BY <1>4, <2>1, <2>2 DEF StoreFails
  <2>5. QED
    BY <2>3, <2>4, OnePublicationMoves DEF MarketTypes
<1>5. CASE BatchLost(i)
  <2>1. PICK p : p = [pubs[i] EXCEPT !.kv = "failed"]
    OBVIOUS
  <2>2. p \in Publication
    BY <1>1, <2>1 DEF Publication
  <2>3. pubs' = [pubs EXCEPT ![i] = p] /\ UNCHANGED <<stream, mirror>>
    BY <1>5, <2>1 DEF BatchLost
  <2>4. QED
    BY <2>2, <2>3, OnePublicationMoves DEF MarketTypes
<1>6. CASE Appended(i)
  <2>1. pubs[i].gym \in Gyms /\ UNCHANGED stream
    BY <1>1, <1>6 DEF Publication, Appended
  <2>2. CASE /\ mirror' = Append(mirror, pubs[i].gym)
             /\ pubs' = [pubs EXCEPT ![i].at = "done", ![i].mirrored = TRUE]
    <3>1. PICK p : p = [pubs[i] EXCEPT !.at = "done", !.mirrored = TRUE]
      OBVIOUS
    <3>2. p \in Publication
      <4>1. PICK q \in Publication : q = [pubs[i] EXCEPT !.at = "done"]
        BY <1>1 DEF Publication
      <4>2. p = [q EXCEPT !.mirrored = TRUE]
        BY <3>1, <4>1
      <4>3. QED
        BY <4>1, <4>2 DEF Publication
    <3>3. pubs' = [pubs EXCEPT ![i] = p]
      BY <2>2, <3>1
    <3>4. mirror' \in Seq(Gyms)
      BY <1>1, <2>1, <2>2, AppendProperties
    <3>5. QED
      BY <2>1, <3>2, <3>3, <3>4, OnePublicationMoves DEF MarketTypes
  <2>3. CASE /\ mirror' = mirror
             /\ \E at \in {"done", "failed"} : pubs' = [pubs EXCEPT ![i].at = at]
    <3>1. PICK at \in {"done", "failed"} : pubs' = [pubs EXCEPT ![i].at = at]
      BY <2>3
    <3>2. PICK p : p = [pubs[i] EXCEPT !.at = at]
      OBVIOUS
    <3>3. p \in Publication
      BY <1>1, <3>2 DEF Publication
    <3>4. pubs' = [pubs EXCEPT ![i] = p]
      BY <3>1, <3>2
    <3>5. QED
      BY <2>1, <2>3, <3>3, <3>4, OnePublicationMoves DEF MarketTypes
  <2>4. QED
    BY <1>6, <2>2, <2>3 DEF Appended
<1>7. QED
  BY <1>2, <1>3, <1>4, <1>5, <1>6

(* The page shows what the stores hold.                                    *)
LEMMA PageGymsKept ==
  ASSUME PageGyms, NEW load, NEW shown \in SUBSET Gyms,
         {"listings", "load"} \subseteq DOMAIN hub', hub'.listings = shown, hub'.load = load,
         load # NoLoad => LoadOfGyms(load)
  PROVE  PageGyms'
BY DEF PageGyms, LoadOfGyms

LEMMA LoadReadsStoreGyms ==
  ASSUME MarketTypes, PageGyms, LoadReadsStore PROVE PageGyms'
<1>1. /\ LoadOfGyms(hub.load) /\ {"listings", "load"} \subseteq DOMAIN hub
      /\ hub.listings \subseteq Gyms
  BY DEF LoadReadsStore, Loading, PageGyms
<1>2. PICK l : hub' = [hub EXCEPT !.load = l] /\ LoadOfGyms(l)
  <2>1. CASE hub' = [hub EXCEPT !.load.kv = "failed"]
    <3>1. PICK l : l = [hub.load EXCEPT !.kv = "failed"]
      OBVIOUS
    <3>2. LoadOfGyms(l)
      BY <1>1, <3>1 DEF LoadOfGyms
    <3>3. hub' = [hub EXCEPT !.load = l]
      BY <2>1, <3>1
    <3>4. QED
      BY <3>2, <3>3
  <2>2. CASE hub' = [hub EXCEPT !.load =
                       IF @.kv = "reading" THEN Entries(@)
                       ELSE [@ EXCEPT !.kv = "reading", !.count = stream.count]]
    <3>1. PICK l : l = IF hub.load.kv = "reading" THEN Entries(hub.load)
                       ELSE [hub.load EXCEPT !.kv = "reading", !.count = stream.count]
      OBVIOUS
    <3>2. hub' = [hub EXCEPT !.load = l]
      BY <2>2, <3>1
    <3>3. PICK read : read = {stream.entries[n] : n \in {hub.load.next} \cap DOMAIN stream.entries}
      OBVIOUS
    <3>4. read \subseteq Gyms
      BY <3>3 DEF MarketTypes
    <3>5. Entries(hub.load) =
            IF hub.load.next = hub.load.count THEN [hub.load EXCEPT !.kv = "read"]
            ELSE [hub.load EXCEPT !.next = @ + 1, !.found = @ \cup read]
      BY <3>3 DEF Entries
    <3>6. LoadOfGyms([hub.load EXCEPT !.next = @ + 1, !.found = @ \cup read])
      BY <1>1, <3>4 DEF LoadOfGyms
    <3>7. /\ LoadOfGyms([hub.load EXCEPT !.kv = "read"])
          /\ LoadOfGyms([hub.load EXCEPT !.kv = "reading", !.count = stream.count])
      BY <1>1 DEF LoadOfGyms
    <3>8. LoadOfGyms(l)
      BY <3>1, <3>5, <3>6, <3>7
    <3>9. QED
      BY <3>2, <3>8
  <2>3. QED
    BY <2>1, <2>2 DEF LoadReadsStore
<1>3. /\ {"listings", "load"} \subseteq DOMAIN hub' /\ hub'.listings = hub.listings
      /\ hub'.load = l
  BY <1>1, <1>2
<1>4. QED
  BY <1>1, <1>2, <1>3, PageGymsKept

LEMMA LoadReadsListGyms ==
  ASSUME MarketTypes, PageGyms, LoadReadsList PROVE PageGyms'
<1>1. /\ LoadOfGyms(hub.load) /\ {"listings", "load"} \subseteq DOMAIN hub
      /\ hub.listings \subseteq Gyms
  BY DEF LoadReadsList, Loading, PageGyms
<1>2. PICK l : hub' = [hub EXCEPT !.load = l] /\ LoadOfGyms(l)
  <2>1. CASE hub' = [hub EXCEPT !.load.list = "failed"]
    <3>1. PICK l : l = [hub.load EXCEPT !.list = "failed"]
      OBVIOUS
    <3>2. LoadOfGyms(l)
      BY <1>1, <3>1 DEF LoadOfGyms
    <3>3. hub' = [hub EXCEPT !.load = l]
      BY <2>1, <3>1
    <3>4. QED
      BY <3>2, <3>3
  <2>2. CASE hub' = [hub EXCEPT !.load.list = "read", !.load.listed = ToSet(mirror)]
    <3>1. PICK all : all = ToSet(mirror)
      OBVIOUS
    <3>2. all \subseteq Gyms
      <4>1. \A n \in DOMAIN mirror : mirror[n] \in Gyms
        BY LenProperties, ElementOfSeq DEF MarketTypes
      <4>2. QED
        BY <3>1, <4>1 DEF ToSet
    <3>3. PICK l : l = [hub.load EXCEPT !.list = "read", !.listed = all]
      OBVIOUS
    <3>4. LoadOfGyms(l)
      BY <1>1, <3>2, <3>3 DEF LoadOfGyms
    <3>5. hub' = [hub EXCEPT !.load = l]
      BY <1>1, <2>2, <3>1, <3>3
    <3>6. QED
      BY <3>4, <3>5
  <2>3. QED
    BY <2>1, <2>2 DEF LoadReadsList
<1>3. /\ {"listings", "load"} \subseteq DOMAIN hub' /\ hub'.listings = hub.listings
      /\ hub'.load = l
  BY <1>1, <1>2
<1>4. QED
  BY <1>1, <1>2, <1>3, PageGymsKept

LEMMA LoadShownGyms == ASSUME PageGyms, LoadShown PROVE PageGyms'
<1>1. LoadOfGyms(hub.load) /\ {"listings", "load"} \subseteq DOMAIN hub
  BY DEF LoadShown, Loading, PageGyms
<1>2. PICK l : l = [hub.load EXCEPT !.at = "counters"]
  OBVIOUS
<1>3. PICK shown : shown = hub.load.listed \cup IF hub.load.kv = "read" THEN hub.load.found ELSE {}
  OBVIOUS
<1>4. LoadOfGyms(l) /\ shown \subseteq Gyms
  BY <1>1, <1>2, <1>3 DEF LoadOfGyms
<1>5. hub' = [hub EXCEPT !.load = l, !.listings = shown]
  <2>1. hub' = [hub EXCEPT !.load.at = "counters", !.listings = shown]
    BY <1>3 DEF LoadShown
  <2>2. QED
    BY <1>1, <1>2, <2>1
<1>6. /\ {"listings", "load"} \subseteq DOMAIN hub' /\ hub'.listings = shown
      /\ hub'.load = l
  BY <1>1, <1>5
<1>7. QED
  BY <1>4, <1>6, PageGymsKept

LEMMA CountersGyms == ASSUME PageGyms, CountersRead \/ CountersShown PROVE PageGyms'
<1>1. /\ LoadOfGyms(hub.load) /\ {"listings", "load"} \subseteq DOMAIN hub
      /\ hub.listings \subseteq Gyms
  BY DEF CountersRead, CountersShown, PageGyms
<1>2. PICK l : /\ {"listings", "load"} \subseteq DOMAIN hub'
               /\ hub'.listings = hub.listings /\ hub'.load = l /\ LoadOfGyms(l)
  <2>1. ASSUME NEW answer,
               hub' = [hub EXCEPT !.load.at = "answered", !.load.counters = answer]
        PROVE  \E l : /\ {"listings", "load"} \subseteq DOMAIN hub'
                      /\ hub'.listings = hub.listings /\ hub'.load = l /\ LoadOfGyms(l)
    <3>1. PICK l : l = [hub.load EXCEPT !.at = "answered", !.counters = answer]
      OBVIOUS
    <3>2. LoadOfGyms(l)
      BY <1>1, <3>1 DEF LoadOfGyms
    <3>3. hub' = [hub EXCEPT !.load = l]
      BY <1>1, <2>1, <3>1
    <3>4. QED
      BY <1>1, <3>2, <3>3
  <2>2. PICK l : l = [hub.load EXCEPT !.at = "over"]
    OBVIOUS
  <2>3. LoadOfGyms(l)
    BY <1>1, <2>2 DEF LoadOfGyms
  <2>4. CASE hub' = [hub EXCEPT !.load.at = "over"]
    <3>1. hub' = [hub EXCEPT !.load = l]
      BY <2>2, <2>4
    <3>2. QED
      BY <1>1, <2>3, <3>1
  <2>5. CASE hub' = [hub EXCEPT !.load.at = "over", !.counters = hub.load.counters]
    <3>1. PICK c : c = hub.load.counters
      OBVIOUS
    <3>2. hub' = [hub EXCEPT !.load = l, !.counters = c]
      BY <1>1, <2>2, <2>5, <3>1
    <3>3. QED
      BY <1>1, <2>3, <3>2
  <2>6. QED
    BY <2>1, <2>4, <2>5 DEF CountersRead, CountersShown
<1>3. QED
  BY <1>1, <1>2, PageGymsKept

LEMMA UserGyms ==
  ASSUME PageGyms,
         OpenHub \/ ToggleTab \/ Rate \/ Download \/ Search \/ SearchEnds \/ DownloadEnds
  PROVE  PageGyms'
<1>1. {"listings", "load"} \subseteq DOMAIN hub /\ hub.listings \subseteq Gyms
  BY DEF PageGyms
<1>2. LoadOfGyms(NewLoad)
  BY DEF NewLoad, LoadOfGyms
<1>3. /\ {"listings", "load"} \subseteq DOMAIN hub' /\ hub'.listings = hub.listings
      /\ hub'.load \in {hub.load, NewLoad, NoLoad}
  BY <1>1 DEF OpenHub, ToggleTab, Rate, Download, Search, SearchEnds, DownloadEnds
<1>4. QED
  BY <1>1, <1>2, <1>3, PageGymsKept DEF PageGyms

LEMMA RatingAnsweredGyms ==
  ASSUME PageGyms, NEW i \in DOMAIN ratings, RatingAnswered(i) PROVE PageGyms'
<1>1. {"listings", "load"} \subseteq DOMAIN hub /\ hub.listings \subseteq Gyms
  BY DEF PageGyms
<1>2. /\ {"listings", "load"} \subseteq DOMAIN hub' /\ hub'.listings = hub.listings
      /\ hub'.load = hub.load
  BY <1>1 DEF RatingAnswered
<1>3. QED
  BY <1>1, <1>2, PageGymsKept DEF PageGyms

LEMMA GymsStart == HubInit => MarketTypes /\ PageGyms
<1>1. SUFFICES ASSUME HubInit PROVE MarketTypes /\ PageGyms
  OBVIOUS
<1>2. /\ {Published, Mirrored} \subseteq Seq(Gyms) /\ Len(Published) \in Nat
      /\ \A n \in 1..Len(Published) : Published[n] \in Gyms
  BY HubAssumption, LenProperties, ElementOfSeq
<1>3. /\ stream.count = Len(Published)
      /\ stream.entries = [n \in 0..(Len(Published) - 1) |-> Published[n + 1]]
      /\ mirror = Mirrored /\ pubs = << >>
  BY <1>1 DEF HubInit
<1>4. MarketTypes
  BY <1>2, <1>3, EmptySeq DEF MarketTypes
<1>5. {"listings", "load"} \subseteq DOMAIN hub /\ hub.listings = {} /\ hub.load = NoLoad
  BY <1>1 DEF HubInit
<1>6. QED
  BY <1>4, <1>5 DEF PageGyms

LEMMA GymsStep == MarketTypes /\ PageGyms /\ [HubNext]_hubVars => (MarketTypes /\ PageGyms)'
<1>1. SUFFICES ASSUME MarketTypes, PageGyms, [HubNext]_hubVars PROVE (MarketTypes /\ PageGyms)'
  OBVIOUS
<1>2. CASE UNCHANGED <<stream, mirror, pubs>> /\ PageGyms'
  BY <1>1, <1>2 DEF MarketTypes
<1>3. CASE UNCHANGED <<stream, mirror, pubs, hub>>
  BY <1>1, <1>3 DEF MarketTypes, PageGyms, LoadOfGyms
<1>4. CASE PublishStep
  <2>1. MarketTypes'
    BY <1>1, <1>4, PublishTypes, PublicationMovesTypes DEF PublishStep
  <2>2. UNCHANGED hub
    BY <1>4 DEF PublishStep
  <2>3. QED
    BY <1>1, <2>1, <2>2 DEF PageGyms, LoadOfGyms
<1>5. CASE LoadStep
  <2>1. UNCHANGED <<stream, mirror, pubs>>
    BY <1>5 DEF LoadStep, LoadReadsStore, LoadReadsList, LoadShown, CountersRead,
                CountersShown, Off
  <2>2. PageGyms'
    BY <1>1, <1>5, LoadReadsStoreGyms, LoadReadsListGyms, LoadShownGyms, CountersGyms
       DEF LoadStep
  <2>3. QED
    BY <1>2, <2>1, <2>2
<1>6. CASE HubUser \/ SearchEnds \/ DownloadEnds
  <2>1. UNCHANGED <<stream, mirror, pubs>>
    BY <1>6 DEF HubUser, OpenHub, ToggleTab, Rate, Download, Search, SearchEnds, DownloadEnds,
                Off, market
  <2>2. PageGyms'
    BY <1>1, <1>6, UserGyms DEF HubUser
  <2>3. QED
    BY <1>2, <2>1, <2>2
<1>7. CASE RateElsewhere \/ \E i \in DOMAIN ratings : RatingStep(i) \/ RatingFails(i)
  BY <1>3, <1>7 DEF RateElsewhere, RatingStep, RatingFails, market
<1>8. CASE \E i \in DOMAIN ratings : RatingAnswered(i)
  <2>1. UNCHANGED <<stream, mirror, pubs>>
    BY <1>8 DEF RatingAnswered, market
  <2>2. PageGyms'
    BY <1>1, <1>8, RatingAnsweredGyms
  <2>3. QED
    BY <1>2, <2>1, <2>2
<1>9. CASE UNCHANGED hubVars
  BY <1>3, <1>9 DEF hubVars, market
<1>10. QED
  BY <1>1, <1>4, <1>5, <1>6, <1>7, <1>8, <1>9 DEF HubNext, HubAnswer

----------------------------------------------------------------------------
LEMMA RatingStart == HubInit => RatingInv
<1>1. SUFFICES ASSUME HubInit PROVE RatingInv
  OBVIOUS
<1>2. /\ NoCounters \in [Gyms -> Counter]
      /\ \A g \in Gyms : NoCounters[g].stars = 0 /\ NoCounters[g].ratings = 0
  BY DEF NoCounters, Counter
<1>3. counters = NoCounters /\ ratings = << >>
  BY <1>1 DEF HubInit
<1>4. ratings \in Seq(RatingRequest) /\ DOMAIN ratings = {}
  BY <1>3, EmptySeq
<1>5. \A g, stages : HowMany(ratings, g, stages) = 0
  <2>1. \A g, stages : RatingsAt(ratings, g, stages) = {}
    BY <1>4 DEF RatingsAt
  <2>2. QED
    BY <2>1, FS_EmptySet DEF HowMany
<1>6. RatingTypes /\ CountersBalanced
  BY <1>2, <1>3, <1>4, <1>5 DEF RatingTypes, CountersBalanced, Balanced
<1>7. PageCounts(hub, ratings)
  <2>1. /\ {"load", "counters"} \subseteq DOMAIN hub
        /\ hub.counters = NoCounters /\ hub.load = NoLoad
    BY <1>1 DEF HubInit
  <2>2. QED
    BY <1>2, <1>5, <2>1 DEF PageCounts, AtLeastOneStar
<1>8. QED
  BY <1>6, <1>7 DEF RatingInv

LEMMA HubStep == RatingInv /\ PageGyms /\ [HubNext]_hubVars => RatingInv'
<1>1. SUFFICES ASSUME RatingInv, PageGyms, [HubNext]_hubVars PROVE RatingInv'
  OBVIOUS
<1> DEFINE BareKept == \A h \in Gyms : /\ HowMany(ratings, h, Bare) \in Nat
                                      /\ HowMany(ratings', h, Bare) \in Nat
                                      /\ HowMany(ratings, h, Bare) <= HowMany(ratings', h, Bare)
<1>2. CASE UNCHANGED <<ratings, counters>> /\ PageCounts(hub', ratings)
  <2>1. RatingTypes' /\ CountersBalanced'
    BY <1>1, <1>2 DEF RatingInv, RatingTypes, CountersBalanced
  <2>2. PageCounts(hub', ratings')
    BY <1>2
  <2>3. QED
    BY <2>1, <2>2 DEF RatingInv
<1>3. CASE UNCHANGED hubVars \/ PublishStep
  <2>1. UNCHANGED <<ratings, counters, hub>>
    BY <1>3 DEF hubVars, PublishStep
  <2>2. PageCounts(hub', ratings)
    BY <1>1, <2>1 DEF RatingInv
  <2>3. QED
    BY <1>2, <2>1, <2>2
<1>4. ASSUME NEW g \in Gyms, NEW v \in Stars, NEW here \in BOOLEAN,
             ratings' = Append(ratings, Rating(g, v, here)), UNCHANGED counters,
             PageCounts(hub', ratings)
      PROVE  RatingInv'
  <2>1. RatingTypes' /\ CountersBalanced'
        /\ \A h \in Gyms : HowMany(ratings', h, Bare) = HowMany(ratings, h, Bare)
    BY <1>1, <1>4, RatingSent DEF RatingInv
  <2>2. BareKept
    <3>1. \A h \in Gyms : HowMany(ratings, h, Bare) \in Nat
      BY <1>1, RatingsAtFinite DEF RatingInv, RatingTypes
    <3>2. QED
      BY <2>1, <3>1
  <2>3. QED
    BY <1>4, <2>1, <2>2, MoreBare DEF RatingInv
<1>5. CASE LoadStep
  <2>1. UNCHANGED <<ratings, counters>>
    BY <1>5 DEF LoadStep, LoadReadsStore, LoadReadsList, LoadShown, CountersRead,
                CountersShown, Off
  <2>2. PageCounts(hub', ratings)
    BY <1>1, <1>5, LoadReadsStoreCounts, LoadReadsListCounts, LoadShownCounts,
       CountersReadCounts, CountersShownCounts DEF LoadStep, RatingInv
  <2>3. QED
    BY <1>2, <2>1, <2>2
<1>6. CASE OpenHub \/ ToggleTab \/ Download \/ Search \/ SearchEnds \/ DownloadEnds
  <2>1. UNCHANGED <<ratings, counters>>
    BY <1>6 DEF OpenHub, ToggleTab, Download, Search, SearchEnds, DownloadEnds, Off
  <2>2. PageCounts(hub', ratings)
    BY <1>1, <1>6, UserCounts DEF RatingInv
  <2>3. QED
    BY <1>2, <2>1, <2>2
<1>7. CASE Rate \/ RateElsewhere
  <2>1. PICK g \in Gyms, v \in Stars, here \in BOOLEAN :
          ratings' = Append(ratings, Rating(g, v, here))
    BY <1>1, <1>7 DEF Rate, RateElsewhere, Cards, PageGyms
  <2>2. UNCHANGED counters
    BY <1>7 DEF Rate, RateElsewhere
  <2>3. PageCounts(hub', ratings)
    <3>1. CASE Rate
      BY <1>1, <3>1, UserCounts DEF RatingInv
    <3>2. CASE RateElsewhere
      BY <1>1, <3>2 DEF RatingInv, RateElsewhere
    <3>3. QED
      BY <1>7, <3>1, <3>2
  <2>4. QED
    BY <1>4, <2>1, <2>2, <2>3
<1>8. CASE \E i \in DOMAIN ratings : RatingStep(i)
  <2>1. PICK i \in DOMAIN ratings : RatingStep(i)
    BY <1>8
  <2>2. RatingTypes' /\ CountersBalanced' /\ BareKept
    BY <1>1, <2>1, RatingStepBalanced DEF RatingInv
  <2>3. PageCounts(hub', ratings)
    BY <1>1, <2>1 DEF RatingStep, RatingInv
  <2>4. QED
    BY <2>2, <2>3, MoreBare DEF RatingInv
<1>9. CASE \E i \in DOMAIN ratings : RatingFails(i) \/ RatingAnswered(i)
  BY <1>1, <1>9, RatingFailsKept, RatingAnsweredCounts
<1>10. QED
  BY <1>1, <1>3, <1>5, <1>6, <1>7, <1>8, <1>9 DEF HubNext, HubUser, HubAnswer

LEMMA InvBalances == RatingInv => RatingsBalanced
<1>1. SUFFICES ASSUME RatingInv, NEW g \in Gyms
      PROVE  /\ counters[g].ratings + RatingsOf(g, {"summed", "half"})
                  <= counters[g].stars + RatingsOf(g, {"bare"})
             /\ counters[g].stars + 5 * RatingsOf(g, {"bare"})
                  <= 5 * (counters[g].ratings + RatingsOf(g, {"summed", "half"}))
             /\ hub.counters[g].ratings <= hub.counters[g].stars + RatingsOf(g, {"bare"})
  BY DEF RatingsBalanced
<1>2. /\ RatingsOf(g, {"summed", "half"}) = HowMany(ratings, g, Ahead)
      /\ RatingsOf(g, {"bare"}) = HowMany(ratings, g, Bare)
  BY DEF RatingsOf, HowMany, RatingsAt, Ahead, Bare
<1>3. Balanced(counters[g], HowMany(ratings, g, Ahead), HowMany(ratings, g, Bare))
  BY <1>1 DEF RatingInv, CountersBalanced
<1>4. hub.counters[g].ratings <= hub.counters[g].stars + HowMany(ratings, g, Bare)
  BY <1>1 DEF RatingInv, PageCounts, AtLeastOneStar
<1>5. QED
  BY <1>2, <1>3, <1>4 DEF Balanced

(* Whatever fails at the two commands of a rating (POST                    *)
(* /api/marketplace/stats), whatever a page counts itself and whatever     *)
(* answer replaces that: every rating has one to five stars, but for those *)
(* left half done and those whose stars Redis refused.                     *)
THEOREM RatingsStayBalanced == Spec => []RatingsBalanced
<1> DEFINE Inv == RatingInv /\ MarketTypes /\ PageGyms
<1>1. Init => Inv
  BY RatingStart, GymsStart DEF Init
<1>2. Inv /\ [Next]_consoleVars => Inv'
  <2>1. [Next]_consoleVars => [HubNext]_hubVars
    BY DEF Next, consoleVars
  <2>2. QED
    BY <2>1, HubStep, GymsStep
<1>3. Inv => RatingsBalanced
  BY InvBalances
<1> HIDE DEF Inv
<1>4. QED
  BY <1>1, <1>2, <1>3, PTL DEF Spec

----------------------------------------------------------------------------
(* What the stores hold stays there, unless publications overlap.          *)

(* The n-th entry of the stream is a gym, and no batch that is still to be *)
(* written is written over it or takes it off the count.                   *)
Kept(st, ps, n, g) ==
  /\ n \in Nat /\ n < st.count /\ n \in DOMAIN st.entries /\ st.entries[n] = g
  /\ \A i \in DOMAIN ps : ps[i].kv = "writing" => n < ps[i].count

StoresKeep ==
  /\ \A i \in DOMAIN pubs :
       pubs[i].kv = "written" /\ ~pubs[i].overlaps => Kept(stream, pubs, pubs[i].count, pubs[i].gym)
  /\ \A i, j \in DOMAIN pubs : Open(pubs[i]) /\ Open(pubs[j]) /\ i # j => pubs[i].overlaps
  /\ \A i \in DOMAIN pubs : pubs[i].mirrored => pubs[i].gym \in ToSet(mirror)
  /\ \A m \in DOMAIN Published : Kept(stream, pubs, m - 1, Published[m])
  /\ ToSet(Mirrored) \subseteq ToSet(mirror)

LoadFields == {"at", "kv", "count", "next", "list", "found", "listed", "counters",
               "stored", "mirrored"}

(* What a load has still to find is in the stream before it and within the *)
(* count that it has read; once the listings are shown, they are shown.    *)
LoadFinds(load, listings, st, ps, mi) ==
  /\ DOMAIN load = LoadFields /\ load.next \in Nat /\ load.count \in Nat
  /\ load.at = "listings" =>
       /\ load.kv = "asked" => \A g \in load.stored : \E n : Kept(st, ps, n, g) /\ load.next <= n
       /\ load.kv = "reading" =>
            \A g \in load.stored \ load.found :
              \E n : Kept(st, ps, n, g) /\ load.next <= n /\ n < load.count
       /\ load.kv = "read" => load.stored \subseteq load.found
       /\ load.list = "asked" => load.mirrored \subseteq ToSet(mi)
       /\ load.list = "read" => load.mirrored \subseteq load.listed
  /\ load.at # "listings" =>
       /\ load.kv = "read" => load.stored \subseteq listings
       /\ load.list = "read" => load.mirrored \subseteq listings

PageFinds ==
  /\ {"listings", "load"} \subseteq DOMAIN hub
  /\ hub.load # NoLoad => LoadFinds(hub.load, hub.listings, stream, pubs, mirror)

(* A publication that starts changes nothing of the others but that they   *)
(* overlap.                                                                *)
LEMMA PublishEffects ==
  ASSUME MarketTypes, NEW g \in Gyms, Publish(g)
  PROVE  /\ UNCHANGED <<stream, mirror>>
         /\ \A i \in DOMAIN pubs' :
              \/ /\ i \in DOMAIN pubs /\ pubs'[i].kv = pubs[i].kv
                 /\ pubs'[i].count = pubs[i].count /\ pubs'[i].gym = pubs[i].gym
                 /\ pubs'[i].mirrored = pubs[i].mirrored
                 /\ pubs'[i].overlaps = (pubs[i].overlaps \/ Open(pubs[i]))
              \/ /\ i = Len(pubs) + 1 /\ pubs'[i].kv = "counting" /\ ~pubs'[i].mirrored
                 /\ \A j \in DOMAIN pubs : Open(pubs[j]) => pubs'[i].overlaps
<1>1. /\ pubs \in Seq(Publication) /\ DOMAIN pubs = 1..Len(pubs) /\ Len(pubs) \in Nat
      /\ \A i \in DOMAIN pubs : pubs[i] \in Publication
  BY LenProperties, ElementOfSeq DEF MarketTypes
<1>2. PICK older : older = [i \in DOMAIN pubs |->
               IF Open(pubs[i]) THEN [pubs[i] EXCEPT !.overlaps = TRUE] ELSE pubs[i]]
  OBVIOUS
<1>3. \A i \in DOMAIN pubs : [pubs[i] EXCEPT !.overlaps = TRUE] \in Publication
  BY <1>1 DEF Publication
<1>4. older \in [1..Len(pubs) -> Publication]
  BY <1>1, <1>2, <1>3
<1>5. older \in Seq(Publication) /\ Len(older) = Len(pubs)
  BY <1>1, <1>4, IsASeq, LenProperties
<1>6. PICK o : o = \E i \in DOMAIN pubs : Open(pubs[i])
  OBVIOUS
<1>7. PICK p : p = [gym |-> g, at |-> "kv", kv |-> "counting", count |-> 0,
                    mirrored |-> FALSE, overlaps |-> o]
  OBVIOUS
<1>8. p \in Publication
  BY <1>6, <1>7 DEF Publication
<1>9. pubs' = older \o <<p>>
  BY <1>2, <1>6, <1>7, Zenon DEF Publish
<1>10. /\ \A i \in DOMAIN pubs' : i \in DOMAIN pubs \/ i = Len(pubs) + 1
       /\ \A i \in DOMAIN pubs : pubs'[i] = older[i]
       /\ pubs'[Len(pubs) + 1] = p
  <2>1. /\ Len(pubs') = Len(pubs) + 1 /\ DOMAIN pubs' = 1..Len(pubs')
        /\ \A k \in 1..Len(pubs') : pubs'[k] = IF k <= Len(pubs) THEN older[k]
                                               ELSE << p >>[k - Len(pubs)]
    <3>1. <<p>> \in Seq(Publication) /\ Len(<<p>>) = 1
      BY <1>8
    <3>2. QED
      BY <1>5, <1>9, <3>1, ConcatProperties, LenProperties
  <2>2. QED
    BY <1>1, <2>1
<1>11. ASSUME NEW i \in DOMAIN pubs
       PROVE  /\ pubs'[i].kv = pubs[i].kv
              /\ pubs'[i].count = pubs[i].count /\ pubs'[i].gym = pubs[i].gym
              /\ pubs'[i].mirrored = pubs[i].mirrored
              /\ pubs'[i].overlaps = (pubs[i].overlaps \/ Open(pubs[i]))
  BY <1>1, <1>2, <1>10, <1>11 DEF Publication
<1>12. /\ p.kv = "counting" /\ ~p.mirrored
       /\ \A j \in DOMAIN pubs : Open(pubs[j]) => p.overlaps
  BY <1>6, <1>7
<1>13. UNCHANGED <<stream, mirror>>
  BY DEF Publish
<1>14. QED
  BY <1>10, <1>11, <1>12, <1>13

(* One publication that goes on.                                           *)
LEMMA PublicationEffects ==
  ASSUME MarketTypes, NEW i \in DOMAIN pubs,
         CountRead(i) \/ BatchWritten(i) \/ StoreFails(i) \/ BatchLost(i) \/ Appended(i)
  PROVE  /\ DOMAIN pubs' = DOMAIN pubs /\ \A j \in DOMAIN pubs \ {i} : pubs'[j] = pubs[j]
         /\ pubs'[i].gym = pubs[i].gym /\ pubs'[i].overlaps = pubs[i].overlaps
         /\ \/ /\ pubs[i].kv = "counting" /\ pubs'[i].kv = "writing"
               /\ pubs'[i].count = stream.count /\ stream' = stream
            \/ /\ pubs[i].kv = "writing" /\ pubs'[i].kv = "written"
               /\ pubs'[i].count = pubs[i].count /\ stream' = Batch(pubs[i])
            \/ /\ pubs'[i].kv \in {pubs[i].kv, "failed"}
               /\ pubs'[i].count = pubs[i].count /\ stream' = stream
         /\ \/ pubs'[i].mirrored = pubs[i].mirrored /\ mirror' = mirror
            \/ mirror' = Append(mirror, pubs[i].gym)
         /\ ToSet(mirror) \subseteq ToSet(mirror')
         /\ pubs'[i].mirrored => pubs[i].mirrored \/ pubs[i].gym \in ToSet(mirror')
<1>1. /\ pubs[i] \in Publication /\ mirror \in Seq(Gyms) /\ pubs[i].gym \in Gyms
  <2>1. pubs[i] \in Publication /\ mirror \in Seq(Gyms)
    BY LenProperties, ElementOfSeq DEF MarketTypes
  <2>2. QED
    BY <2>1 DEF Publication
<1>2. ASSUME mirror' = Append(mirror, pubs[i].gym)
      PROVE  ToSet(mirror') = ToSet(mirror) \cup {pubs[i].gym}
  BY <1>1, <1>2, AppendProperties, LenProperties DEF ToSet
<1>3. CASE CountRead(i)
  BY <1>1, <1>3 DEF CountRead, Publication
<1>4. CASE BatchWritten(i)
  BY <1>1, <1>4 DEF BatchWritten, Publication
<1>5. CASE StoreFails(i)
  BY <1>1, <1>5 DEF StoreFails, Publication
<1>6. CASE BatchLost(i)
  BY <1>1, <1>6 DEF BatchLost, Publication
<1>7. CASE Appended(i)
  BY <1>1, <1>2, <1>7 DEF Appended, Publication
<1>8. QED
  BY <1>3, <1>4, <1>5, <1>6, <1>7

(* Batches that were under way when an entry was written and found it in   *)
(* the count leave it alone, and so do all that begin later.               *)
LEMMA KeptStays ==
  ASSUME MarketTypes, PublishStep, NEW n, NEW g, Kept(stream, pubs, n, g)
  PROVE  Kept(stream', pubs', n, g)
<1>1. stream.count \in Nat /\ \A i \in DOMAIN pubs : pubs[i].count \in Nat
  <2>1. \A i \in DOMAIN pubs : pubs[i] \in Publication
    BY LenProperties, ElementOfSeq DEF MarketTypes
  <2>2. QED
    BY <2>1 DEF MarketTypes, Publication
<1>2. CASE \E h \in Gyms : Publish(h)
  <2>1. PICK h \in Gyms : Publish(h)
    BY <1>2
  <2>2. QED
    BY <2>1, PublishEffects DEF Kept
<1>3. CASE \E i \in DOMAIN pubs : \/ CountRead(i) \/ BatchWritten(i)
                                  \/ StoreFails(i) \/ BatchLost(i) \/ Appended(i)
  <2>1. PICK i \in DOMAIN pubs : \/ CountRead(i) \/ BatchWritten(i)
                                 \/ StoreFails(i) \/ BatchLost(i) \/ Appended(i)
    BY <1>3
  <2>2. DOMAIN pubs' = DOMAIN pubs /\ \A j \in DOMAIN pubs \ {i} : pubs'[j] = pubs[j]
    BY <2>1, PublicationEffects
  <2>3. CASE /\ pubs[i].kv = "counting" /\ pubs'[i].kv = "writing"
             /\ pubs'[i].count = stream.count /\ stream' = stream
    BY <2>2, <2>3 DEF Kept
  <2>4. CASE /\ pubs[i].kv = "writing" /\ pubs'[i].kv = "written"
             /\ pubs'[i].count = pubs[i].count /\ stream' = Batch(pubs[i])
    <3>1. /\ stream'.count = pubs[i].count + 1
          /\ stream'.entries = WithEntry(pubs[i].count, pubs[i].gym)
      BY <2>4 DEF Batch
    <3>2. n < pubs[i].count
      BY <2>4 DEF Kept
    <3>3. n \in DOMAIN stream'.entries /\ stream'.entries[n] = stream.entries[n]
      BY <1>1, <3>1, <3>2 DEF Kept, WithEntry
    <3>4. n \in Nat /\ n < stream'.count
      BY <1>1, <3>1, <3>2 DEF Kept
    <3>5. \A j \in DOMAIN pubs' : pubs'[j].kv = "writing" => n < pubs'[j].count
      BY <2>2, <2>4 DEF Kept
    <3>6. QED
      BY <3>3, <3>4, <3>5 DEF Kept
  <2>5. CASE /\ pubs'[i].kv \in {pubs[i].kv, "failed"}
             /\ pubs'[i].count = pubs[i].count /\ stream' = stream
    BY <2>2, <2>5 DEF Kept
  <2>6. QED
    BY <2>1, <2>3, <2>4, <2>5, PublicationEffects
<1>4. QED
  BY <1>2, <1>3 DEF PublishStep

(* A publication that overlaps no other one and is written is kept.        *)
LEMMA StoresStep ==
  ASSUME MarketTypes, StoresKeep, PublishStep
  PROVE  StoresKeep' /\ ToSet(mirror) \subseteq ToSet(mirror')
<1>1. \A n, g : Kept(stream, pubs, n, g) => Kept(stream', pubs', n, g)
  BY KeptStays
<1>2. CASE \E h \in Gyms : Publish(h)
  <2>1. PICK h \in Gyms : Publish(h)
    BY <1>2
  <2>2. \A i \in DOMAIN pubs' : pubs'[i].kv = "written" /\ ~pubs'[i].overlaps
                                  => Kept(stream', pubs', pubs'[i].count, pubs'[i].gym)
    BY <1>1, <2>1, PublishEffects DEF StoresKeep
  <2>3. \A i, j \in DOMAIN pubs' : Open(pubs'[i]) /\ Open(pubs'[j]) /\ i # j => pubs'[i].overlaps
    BY <2>1, PublishEffects DEF StoresKeep, Open
  <2>4. \A i \in DOMAIN pubs' : pubs'[i].mirrored => pubs'[i].gym \in ToSet(mirror')
    BY <2>1, PublishEffects DEF StoresKeep
  <2>5. ToSet(mirror) \subseteq ToSet(mirror')
    BY <2>1, PublishEffects
  <2>6. QED
    BY <1>1, <2>2, <2>3, <2>4, <2>5 DEF StoresKeep
<1>3. CASE \E i \in DOMAIN pubs : \/ CountRead(i) \/ BatchWritten(i)
                                  \/ StoreFails(i) \/ BatchLost(i) \/ Appended(i)
  <2>1. PICK i \in DOMAIN pubs : \/ CountRead(i) \/ BatchWritten(i)
                                 \/ StoreFails(i) \/ BatchLost(i) \/ Appended(i)
    BY <1>3
  <2>2. /\ DOMAIN pubs' = DOMAIN pubs /\ \A j \in DOMAIN pubs \ {i} : pubs'[j] = pubs[j]
        /\ pubs'[i].gym = pubs[i].gym /\ pubs'[i].overlaps = pubs[i].overlaps
        /\ ToSet(mirror) \subseteq ToSet(mirror')
        /\ pubs'[i].mirrored => pubs[i].mirrored \/ pubs[i].gym \in ToSet(mirror')
    BY <2>1, PublicationEffects
  <2>3. ASSUME pubs'[i].kv = "written", ~pubs'[i].overlaps
        PROVE  Kept(stream', pubs', pubs'[i].count, pubs'[i].gym)
    <3>1. CASE /\ pubs[i].kv = "writing"
               /\ pubs'[i].count = pubs[i].count /\ stream' = Batch(pubs[i])
      <4>1. pubs[i].count \in Nat
        <5>1. pubs[i] \in Publication
          BY LenProperties, ElementOfSeq DEF MarketTypes
        <5>2. QED
          BY <5>1 DEF Publication
      <4>2. /\ stream'.count = pubs[i].count + 1
            /\ stream'.entries = WithEntry(pubs[i].count, pubs[i].gym)
        BY <3>1 DEF Batch
      <4>3. /\ pubs[i].count \in DOMAIN stream'.entries
            /\ stream'.entries[pubs[i].count] = pubs[i].gym
        BY <4>2 DEF WithEntry
      <4>4. \A j \in DOMAIN pubs' : pubs'[j].kv # "writing"
        BY <2>2, <2>3, <3>1 DEF StoresKeep, Open
      <4>5. QED
        BY <2>2, <3>1, <4>1, <4>2, <4>3, <4>4 DEF Kept
    <3>2. CASE pubs[i].kv = "written" /\ pubs'[i].count = pubs[i].count
      BY <1>1, <2>2, <2>3, <3>2 DEF StoresKeep
    <3>3. QED
      BY <2>1, <2>3, <3>1, <3>2, PublicationEffects
  <2>4. \A j \in DOMAIN pubs' : pubs'[j].kv = "written" /\ ~pubs'[j].overlaps
                                  => Kept(stream', pubs', pubs'[j].count, pubs'[j].gym)
    BY <1>1, <2>2, <2>3 DEF StoresKeep
  <2>5. Open(pubs'[i]) => Open(pubs[i])
    BY <2>1, PublicationEffects DEF Open
  <2>6. \A j, k \in DOMAIN pubs' : Open(pubs'[j]) /\ Open(pubs'[k]) /\ j # k => pubs'[j].overlaps
    BY <2>2, <2>5 DEF StoresKeep
  <2>7. \A j \in DOMAIN pubs' : pubs'[j].mirrored => pubs'[j].gym \in ToSet(mirror')
    BY <2>2 DEF StoresKeep
  <2>8. QED
    BY <1>1, <2>2, <2>4, <2>6, <2>7 DEF StoresKeep
<1>4. QED
  BY <1>2, <1>3 DEF PublishStep

(* A publication's steps take nothing away that a load has still to find.  *)
LEMMA PublishFinds ==
  ASSUME MarketTypes, StoresKeep, PageFinds, PublishStep
  PROVE  PageFinds'
<1>1. \A n, g : Kept(stream, pubs, n, g) => Kept(stream', pubs', n, g)
  BY KeptStays
<1>2. ToSet(mirror) \subseteq ToSet(mirror') /\ hub' = hub
  BY StoresStep DEF PublishStep
<1>3. ASSUME NEW load, NEW shown, LoadFinds(load, shown, stream, pubs, mirror)
      PROVE  LoadFinds(load, shown, stream', pubs', mirror')
  <2>1. load.at = "listings" /\ load.kv = "asked"
          => \A g \in load.stored : \E n : Kept(stream', pubs', n, g) /\ load.next <= n
    BY <1>1, <1>3 DEF LoadFinds
  <2>2. load.at = "listings" /\ load.kv = "reading"
          => \A g \in load.stored \ load.found :
               \E n : Kept(stream', pubs', n, g) /\ load.next <= n /\ n < load.count
    BY <1>1, <1>3 DEF LoadFinds
  <2>3. load.at = "listings" /\ load.list = "asked" => load.mirrored \subseteq ToSet(mirror')
    BY <1>2, <1>3 DEF LoadFinds
  <2>4. QED
    BY <1>3, <2>1, <2>2, <2>3 DEF LoadFinds
<1>4. PICK load, shown : load = hub.load /\ shown = hub.listings
  OBVIOUS
<1>5. load # NoLoad => LoadFinds(load, shown, stream', pubs', mirror')
  BY <1>3, <1>4 DEF PageFinds
<1>6. {"listings", "load"} \subseteq DOMAIN hub' /\ hub'.load = load /\ hub'.listings = shown
  BY <1>2, <1>4 DEF PageFinds
<1>7. QED
  BY <1>5, <1>6 DEF PageFinds

(* A load starts with what is kept and mirrored then.                      *)
LEMMA NewLoadFinds ==
  ASSUME StoresKeep, NEW listings
  PROVE  LoadFinds(NewLoad, listings, stream, pubs, mirror)
<1>1. PICK load : load = NewLoad
  OBVIOUS
<1>2. /\ DOMAIN load = LoadFields /\ load.next = 0 /\ load.count = 0
      /\ load.at = "listings" /\ load.kv = "asked" /\ load.list = "asked"
      /\ load.stored = ToSet(Published) \cup
           {pubs[i].gym : i \in {j \in DOMAIN pubs : pubs[j].kv = "written"
                                                     /\ ~pubs[j].overlaps}}
      /\ load.mirrored = ToSet(Mirrored) \cup
           {pubs[i].gym : i \in {j \in DOMAIN pubs : pubs[j].mirrored}}
  BY <1>1 DEF NewLoad, LoadFields
<1>3. \A g \in load.stored : \E n : Kept(stream, pubs, n, g) /\ load.next <= n
  <2>1. SUFFICES ASSUME NEW g \in load.stored
                 PROVE  \E n : Kept(stream, pubs, n, g) /\ load.next <= n
    OBVIOUS
  <2>2. CASE g \in ToSet(Published)
    <3>1. PICK m \in DOMAIN Published : Published[m] = g
      BY <2>2, HubAssumption DEF ToSet
    <3>2. Kept(stream, pubs, m - 1, g)
      BY <3>1 DEF StoresKeep
    <3>3. m - 1 \in Nat
      BY <3>2 DEF Kept
    <3>4. QED
      BY <1>2, <3>2, <3>3
  <2>3. CASE g \notin ToSet(Published)
    <3>1. PICK i \in DOMAIN pubs : pubs[i].kv = "written" /\ ~pubs[i].overlaps /\ pubs[i].gym = g
      BY <1>2, <2>3
    <3>2. Kept(stream, pubs, pubs[i].count, g)
      BY <3>1 DEF StoresKeep
    <3>3. pubs[i].count \in Nat
      BY <3>2 DEF Kept
    <3>4. QED
      BY <1>2, <3>2, <3>3
  <2>4. QED
    BY <2>2, <2>3
<1>4. load.mirrored \subseteq ToSet(mirror)
  BY <1>2 DEF StoresKeep
<1>5. QED
  BY <1>1, <1>2, <1>3, <1>4 DEF LoadFinds

(* The step of the page that gives it a load.                              *)
LEMMA PageHasLoad ==
  ASSUME NEW load, NEW shown, UNCHANGED <<stream, pubs, mirror>>,
         {"listings", "load"} \subseteq DOMAIN hub', hub'.listings = shown, hub'.load = load,
         load # NoLoad => LoadFinds(load, shown, stream, pubs, mirror)
  PROVE  PageFinds'
BY DEF PageFinds

(* Reading the count, then entry after entry up to it.                     *)
LEMMA StoreRead ==
  ASSUME MarketTypes, PageFinds, LoadReadsStore
  PROVE  PageFinds'
<1>1. PICK old, shown : old = hub.load /\ shown = hub.listings
  OBVIOUS
<1>2. /\ {"listings", "load"} \subseteq DOMAIN hub /\ old.at = "listings"
      /\ LoadFinds(old, shown, stream, pubs, mirror) /\ old.kv \in {"asked", "reading"}
      /\ UNCHANGED <<stream, pubs, mirror>>
  BY <1>1 DEF LoadReadsStore, Loading, PageFinds, Off
<1>3. PICK load : /\ hub' = [hub EXCEPT !.load = load]
                  /\ \/ load = [old EXCEPT !.kv = "failed"]
                     \/ old.kv = "asked" /\ load = [old EXCEPT !.kv = "reading", !.count = stream.count]
                     \/ old.kv = "reading" /\ load = Entries(old)
  BY <1>1, <1>2 DEF LoadReadsStore
<1>4. LoadFinds(load, shown, stream, pubs, mirror)
  <2>1. DOMAIN old = LoadFields /\ old.next \in Nat /\ old.count \in Nat
    BY <1>2 DEF LoadFinds
  <2>2. CASE load = [old EXCEPT !.kv = "failed"]
    BY <1>2, <2>1, <2>2 DEF LoadFinds, LoadFields
  <2>3. CASE old.kv = "asked" /\ load = [old EXCEPT !.kv = "reading", !.count = stream.count]
    <3>1. /\ DOMAIN load = LoadFields /\ load.next = old.next /\ load.count = stream.count
          /\ load.at = old.at /\ load.kv = "reading" /\ load.list = old.list
          /\ load.stored = old.stored /\ load.mirrored = old.mirrored
          /\ load.listed = old.listed
      BY <2>1, <2>3 DEF LoadFields
    <3>2. stream.count \in Nat
      BY DEF MarketTypes
    <3>3. \A g \in load.stored :
            \E n : Kept(stream, pubs, n, g) /\ load.next <= n /\ n < load.count
      BY <1>2, <2>3, <3>1 DEF LoadFinds, Kept
    <3>4. QED
      BY <1>2, <2>1, <3>1, <3>2, <3>3 DEF LoadFinds
  <2>4. CASE old.kv = "reading" /\ old.next = old.count /\ load = [old EXCEPT !.kv = "read"]
    <3>1. /\ DOMAIN load = LoadFields /\ load.next = old.next /\ load.count = old.count
          /\ load.at = old.at /\ load.kv = "read" /\ load.list = old.list
          /\ load.stored = old.stored /\ load.mirrored = old.mirrored
          /\ load.listed = old.listed /\ load.found = old.found
      BY <2>1, <2>4 DEF LoadFields
    <3>2. ASSUME NEW g \in old.stored, g \notin old.found
          PROVE  FALSE
      <4>1. PICK n : Kept(stream, pubs, n, g) /\ old.next <= n /\ n < old.count
        BY <1>2, <2>4, <3>2 DEF LoadFinds
      <4>2. n \in Nat
        BY <4>1 DEF Kept
      <4>3. QED
        BY <2>1, <2>4, <4>1, <4>2
    <3>3. QED
      BY <1>2, <2>1, <3>1, <3>2 DEF LoadFinds
  <2>5. CASE old.kv = "reading" /\ old.next # old.count /\ load = Entries(old)
    <3>1. PICK read : read = {stream.entries[n] : n \in {old.next} \cap DOMAIN stream.entries}
      OBVIOUS
    <3>2. load = [old EXCEPT !.next = @ + 1, !.found = @ \cup read]
      BY <2>5, <3>1 DEF Entries
    <3>3. /\ DOMAIN load = LoadFields /\ load.next = old.next + 1 /\ load.count = old.count
          /\ load.at = old.at /\ load.kv = "reading" /\ load.list = old.list
          /\ load.stored = old.stored /\ load.mirrored = old.mirrored
          /\ load.listed = old.listed /\ load.found = old.found \cup read
      BY <2>1, <2>5, <3>2 DEF LoadFields
    <3>4. ASSUME NEW g \in load.stored \ load.found
          PROVE  \E n : Kept(stream, pubs, n, g) /\ load.next <= n /\ n < load.count
      <4>1. PICK n : Kept(stream, pubs, n, g) /\ old.next <= n /\ n < old.count
        BY <1>2, <2>5, <3>3, <3>4 DEF LoadFinds
      <4>2. n \in Nat /\ n \in DOMAIN stream.entries /\ stream.entries[n] = g
        BY <4>1 DEF Kept
      <4>3. n # old.next
        BY <3>1, <3>3, <3>4, <4>2
      <4>4. QED
        BY <2>1, <3>3, <4>1, <4>2, <4>3
    <3>5. QED
      BY <1>2, <2>1, <3>3, <3>4 DEF LoadFinds
  <2>6. QED
    BY <1>3, <2>2, <2>3, <2>4, <2>5 DEF Entries
<1>5. {"listings", "load"} \subseteq DOMAIN hub' /\ hub'.listings = shown /\ hub'.load = load
  BY <1>1, <1>2, <1>3
<1>6. QED
  BY <1>2, <1>4, <1>5, PageHasLoad

(* Reading the list.                                                       *)
LEMMA ListRead ==
  ASSUME PageFinds, LoadReadsList
  PROVE  PageFinds'
<1>1. PICK old, shown : old = hub.load /\ shown = hub.listings
  OBVIOUS
<1>2. /\ {"listings", "load"} \subseteq DOMAIN hub /\ old.at = "listings" /\ old.list = "asked"
      /\ LoadFinds(old, shown, stream, pubs, mirror) /\ UNCHANGED <<stream, pubs, mirror>>
  BY <1>1 DEF LoadReadsList, Loading, PageFinds, Off
<1>3. DOMAIN old = LoadFields
  BY <1>2 DEF LoadFinds
<1>4. PICK all : all = ToSet(mirror)
  OBVIOUS
<1>5. PICK load : /\ hub' = [hub EXCEPT !.load = load]
                  /\ \/ load = [old EXCEPT !.list = "failed"]
                     \/ load = [old EXCEPT !.list = "read", !.listed = all]
  <2>1. CASE hub' = [hub EXCEPT !.load.list = "failed"]
    BY <1>1, <2>1
  <2>2. CASE hub' = [hub EXCEPT !.load.list = "read", !.load.listed = all]
    BY <1>1, <1>2, <2>2
  <2>3. QED
    BY <1>4, <2>1, <2>2 DEF LoadReadsList
<1>6. LoadFinds(load, shown, stream, pubs, mirror)
  <2>1. /\ DOMAIN load = LoadFields /\ load.next = old.next /\ load.count = old.count
        /\ load.at = old.at /\ load.kv = old.kv /\ load.list \in {"read", "failed"}
        /\ load.stored = old.stored /\ load.mirrored = old.mirrored
        /\ load.found = old.found /\ (load.list = "read" => load.listed = all)
    BY <1>3, <1>5 DEF LoadFields
  <2>2. QED
    BY <1>2, <1>4, <2>1 DEF LoadFinds
<1>7. {"listings", "load"} \subseteq DOMAIN hub' /\ hub'.listings = shown /\ hub'.load = load
  BY <1>1, <1>2, <1>5
<1>8. QED
  BY <1>2, <1>6, <1>7, PageHasLoad

(* What was found and listed is shown; the counters change nothing of it.  *)
LEMMA ListingsShown ==
  ASSUME PageFinds, LoadShown \/ CountersRead \/ CountersShown
  PROVE  PageFinds'
<1>1. PICK old, shown : old = hub.load /\ shown = hub.listings
  OBVIOUS
<1>2. /\ {"listings", "load"} \subseteq DOMAIN hub /\ LoadFinds(old, shown, stream, pubs, mirror)
      /\ UNCHANGED <<stream, pubs, mirror>>
  BY <1>1 DEF LoadShown, CountersRead, CountersShown, Loading, PageFinds, Off
<1>3. DOMAIN old = LoadFields
  BY <1>2 DEF LoadFinds
<1>4. CASE LoadShown
  <2>1. PICK listings : listings = old.listed \cup IF old.kv = "read" THEN old.found ELSE {}
    OBVIOUS
  <2>2. PICK load : load = [old EXCEPT !.at = "counters"]
    OBVIOUS
  <2>3. /\ DOMAIN load = LoadFields /\ load.next = old.next /\ load.count = old.count
        /\ load.at = "counters" /\ load.kv = old.kv /\ load.list = old.list
        /\ load.stored = old.stored /\ load.mirrored = old.mirrored
    BY <1>3, <2>2 DEF LoadFields
  <2>4. hub' = [hub EXCEPT !.load = load, !.listings = listings] /\ old.at = "listings"
    <3>1. /\ hub' = [hub EXCEPT !.load.at = "counters", !.listings = listings]
          /\ old.at = "listings"
      BY <1>1, <1>4, <2>1 DEF LoadShown, Loading
    <3>2. QED
      BY <1>1, <1>2, <2>2, <3>1
  <2>5. LoadFinds(load, listings, stream, pubs, mirror)
    BY <1>2, <2>1, <2>3, <2>4 DEF LoadFinds
  <2>6. {"listings", "load"} \subseteq DOMAIN hub' /\ hub'.listings = listings /\ hub'.load = load
    BY <1>2, <2>4
  <2>7. QED
    BY <1>2, <2>5, <2>6, PageHasLoad
<1>5. CASE CountersRead \/ CountersShown
  <2>1. PICK load :
          /\ {"listings", "load"} \subseteq DOMAIN hub' /\ hub'.listings = shown
          /\ hub'.load = load
          /\ \/ \E answer : load = [old EXCEPT !.at = "answered", !.counters = answer]
             \/ load = [old EXCEPT !.at = "over"]
    <3>1. ASSUME NEW answer,
                 hub' = [hub EXCEPT !.load.at = "answered", !.load.counters = answer]
          PROVE  \E load : /\ {"listings", "load"} \subseteq DOMAIN hub' /\ hub'.listings = shown
                           /\ hub'.load = load
                           /\ load = [old EXCEPT !.at = "answered", !.counters = answer]
      <4>1. PICK load : load = [old EXCEPT !.at = "answered", !.counters = answer]
        OBVIOUS
      <4>2. hub' = [hub EXCEPT !.load = load]
        BY <1>1, <1>2, <3>1, <4>1
      <4>3. QED
        BY <1>1, <1>2, <4>1, <4>2
    <3>2. PICK load : load = [old EXCEPT !.at = "over"]
      OBVIOUS
    <3>3. CASE hub' = [hub EXCEPT !.load.at = "over"]
      <4>1. hub' = [hub EXCEPT !.load = load]
        BY <1>1, <3>2, <3>3
      <4>2. QED
        BY <1>1, <1>2, <3>2, <4>1
    <3>4. CASE hub' = [hub EXCEPT !.load.at = "over", !.counters = hub.load.counters]
      <4>1. PICK c : c = hub.load.counters
        OBVIOUS
      <4>2. hub' = [hub EXCEPT !.load = load, !.counters = c]
        BY <1>1, <1>2, <3>2, <3>4, <4>1
      <4>3. QED
        BY <1>1, <1>2, <3>2, <4>2
    <3>5. QED
      BY <1>5, <3>1, <3>3, <3>4 DEF CountersRead, CountersShown
  <2>2. /\ DOMAIN load = LoadFields /\ load.next = old.next /\ load.count = old.count
        /\ load.at # "listings" /\ load.kv = old.kv /\ load.list = old.list
        /\ load.stored = old.stored /\ load.mirrored = old.mirrored
    BY <1>3, <2>1 DEF LoadFields
  <2>3. old.at # "listings"
    BY <1>1, <1>5 DEF CountersRead, CountersShown
  <2>4. LoadFinds(load, shown, stream, pubs, mirror)
    BY <1>2, <2>2, <2>3 DEF LoadFinds
  <2>5. QED
    BY <1>2, <2>1, <2>4, PageHasLoad
<1>6. QED
  BY <1>4, <1>5

LEMMA StoresStart == HubInit => StoresKeep /\ PageFinds
<1>1. SUFFICES ASSUME HubInit PROVE StoresKeep /\ PageFinds
  OBVIOUS
<1>2. /\ pubs = << >> /\ {"listings", "load"} \subseteq DOMAIN hub /\ hub.load = NoLoad
      /\ mirror = Mirrored /\ stream.count = Len(Published)
      /\ stream.entries = [n \in 0..(Len(Published) - 1) |-> Published[n + 1]]
  BY <1>1 DEF HubInit
<1>3. ASSUME NEW m \in DOMAIN Published
      PROVE  Kept(stream, pubs, m - 1, Published[m])
  <2>1. m \in 1..Len(Published) /\ Len(Published) \in Nat
    BY HubAssumption, LenProperties
  <2>2. m - 1 \in 0..(Len(Published) - 1) /\ (m - 1) + 1 = m
    BY <2>1
  <2>3. /\ m - 1 \in DOMAIN stream.entries
        /\ stream.entries[m - 1] = Published[m]
    BY <1>2, <2>2
  <2>4. QED
    BY <1>2, <2>1, <2>2, <2>3 DEF Kept
<1>4. QED
  BY <1>2, <1>3 DEF StoresKeep, PageFinds

LEMMA FindsStep ==
  MarketTypes /\ StoresKeep /\ PageFinds /\ [HubNext]_hubVars => (StoresKeep /\ PageFinds)'
<1>1. SUFFICES ASSUME MarketTypes, StoresKeep, PageFinds, [HubNext]_hubVars
               PROVE  StoresKeep' /\ PageFinds'
  OBVIOUS
<1>2. CASE UNCHANGED <<stream, mirror, pubs>> /\ PageFinds'
  BY <1>1, <1>2 DEF StoresKeep
<1>3. CASE UNCHANGED <<stream, mirror, pubs, hub>>
  BY <1>1, <1>3 DEF StoresKeep, PageFinds
<1>4. CASE PublishStep
  BY <1>1, <1>4, StoresStep, PublishFinds
<1>5. CASE LoadStep
  <2>1. UNCHANGED <<stream, mirror, pubs>>
    BY <1>5 DEF LoadStep, LoadReadsStore, LoadReadsList, LoadShown, CountersRead,
                CountersShown, Off
  <2>2. PageFinds'
    BY <1>1, <1>5, StoreRead, ListRead, ListingsShown DEF LoadStep
  <2>3. QED
    BY <1>2, <2>1, <2>2
<1>6. CASE HubUser \/ SearchEnds \/ DownloadEnds \/ \E i \in DOMAIN ratings : RatingAnswered(i)
  <2>1. UNCHANGED <<stream, mirror, pubs>>
    BY <1>6 DEF HubUser, OpenHub, ToggleTab, Rate, Download, Search, SearchEnds, DownloadEnds,
                RatingAnswered, Off, market
  <2>2. PICK load, shown : load = hub'.load /\ shown = hub.listings
    OBVIOUS
  <2>3. /\ {"listings", "load"} \subseteq DOMAIN hub' /\ hub'.listings = shown
        /\ load \in {hub.load, NewLoad, NoLoad}
    BY <1>1, <1>6, <2>2
       DEF HubUser, OpenHub, ToggleTab, Rate, Download, Search, SearchEnds, DownloadEnds,
           RatingAnswered, PageFinds
  <2>4. load # NoLoad => LoadFinds(load, shown, stream, pubs, mirror)
    BY <1>1, <2>2, <2>3, NewLoadFinds DEF PageFinds
  <2>5. PageFinds'
    BY <2>1, <2>2, <2>3, <2>4, PageHasLoad
  <2>6. QED
    BY <1>2, <2>1, <2>5
<1>7. CASE RateElsewhere \/ \E i \in DOMAIN ratings : RatingStep(i) \/ RatingFails(i)
  BY <1>3, <1>7 DEF RateElsewhere, RatingStep, RatingFails, market
<1>8. CASE UNCHANGED hubVars
  BY <1>3, <1>8 DEF hubVars, market
<1>9. QED
  BY <1>1, <1>4, <1>5, <1>6, <1>7, <1>8 DEF HubNext, HubAnswer

(* A load shows every listing that the stream, or the list, had when the   *)
(* load started, if it could read that one, whatever is published, lost or *)
(* late meanwhile (publishToKv and fetchMarketListings): only publications *)
(* whose counts and batches interleave overwrite each other.               *)
THEOREM LoadsShowStored == Spec => []LoadShowsStored
<1> DEFINE Inv == MarketTypes /\ PageGyms /\ StoresKeep /\ PageFinds
<1>1. Init => Inv
  BY StoresStart, GymsStart DEF Init
<1>2. Inv /\ [Next]_consoleVars => Inv'
  <2>1. [Next]_consoleVars => [HubNext]_hubVars
    BY DEF Next, consoleVars
  <2>2. QED
    BY <2>1, GymsStep, FindsStep
<1>3. Inv => LoadShowsStored
  BY DEF PageFinds, LoadFinds, LoadShowsStored, Loading
<1> HIDE DEF Inv
<1>4. QED
  BY <1>1, <1>2, <1>3, PTL DEF Spec
=============================================================================
