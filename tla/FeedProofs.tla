------------------------------ MODULE FeedProofs ------------------------------
(***************************************************************************)
(* Machine-checked proofs about the ranking score, for every recency table *)
(* and any votes, and about the walk through the feed.                     *)
(***************************************************************************)
EXTENDS FeedWalk, FiniteSetTheorems, TLAPS

\* The weighted sum before the clamp, of its five parts and of a review.
WeightedSum(recency, engagement, location, cat, pen) ==
    4 * recency + 3 * engagement + 2 * location + cat - pen

RawScore(p) ==
    WeightedSum(recencyScore(p.age), engagementScore(p.helpful), locationMatch(p),
                catMatch(p), penalty(p))

\* The bounds of the parts that are added.
Parts(a, e, l, c) ==
    /\ a \in Nat /\ a <= 1000
    /\ e \in Nat /\ e <= 1000
    /\ l \in Nat /\ 500 <= l /\ l <= 1000
    /\ c \in Nat /\ c <= 1000

PartsOf(p) ==
    Parts(recencyScore(p.age), engagementScore(p.helpful), locationMatch(p), catMatch(p))

LEMMA RecencyDecreases ==
    ASSUME NEW a \in Ages, NEW b \in Ages, a <= b
    PROVE  recencyScore(b) <= recencyScore(a)
BY RecencyAssumption DEF recencyScore

LEMMA EngagementBounds ==
    ASSUME NEW helpful \in Nat
    PROVE  engagementScore(helpful) \in Nat /\ engagementScore(helpful) <= 1000
BY SMT DEF engagementScore, EngagementCap

LEMMA EngagementGrows ==
    ASSUME NEW m \in Nat, NEW n \in Nat, m <= n
    PROVE  engagementScore(m) <= engagementScore(n)
BY SMT DEF engagementScore, EngagementCap

LEMMA PartBounds ==
    ASSUME NEW p \in ScoreParams
    PROVE  PartsOf(p)
<1>1. p.age \in Ages /\ p.helpful \in Nat
  BY DEF ScoreParams
<1>2. locationMatch(p) = 1000 \/ locationMatch(p) = 500
  BY DEF locationMatch
<1>3. catMatch(p) = 1000 \/ catMatch(p) = 0
  BY DEF catMatch
<1>4. recencyScore(p.age) \in Nat /\ recencyScore(p.age) <= 1000
  BY <1>1, RecencyAssumption DEF recencyScore
<1>5. engagementScore(p.helpful) \in Nat /\ engagementScore(p.helpful) <= 1000
  BY <1>1, EngagementBounds
<1> QED
  BY <1>2, <1>3, <1>4, <1>5 DEF PartsOf, Parts

LEMMA SumBounds ==
    ASSUME NEW a, NEW e, NEW l, NEW c, NEW d, Parts(a, e, l, c), d = 0 \/ d = 5000
    PROVE  /\ WeightedSum(a, e, l, c, d) \in Int
           /\ WeightedSum(a, e, l, c, d) <= 10000
           /\ d = 0 => WeightedSum(a, e, l, c, d) > 0
BY DEF WeightedSum, Parts

LEMMA SumGrows ==
    ASSUME NEW a, NEW e, NEW l, NEW c, NEW d, Parts(a, e, l, c),
           NEW b, NEW f, NEW m, NEW k, NEW g, Parts(b, f, m, k),
           a <= b, l <= m, c <= k,
           \/ d = 5000 /\ g = 0
           \/ d = g /\ e <= f /\ (d = 0 \/ d = 5000)
    PROVE  /\ WeightedSum(a, e, l, c, d) <= WeightedSum(b, f, m, k, g)
           /\ d # g => WeightedSum(a, e, l, c, d) < WeightedSum(b, f, m, k, g)
<1>1. CASE d = 5000 /\ g = 0
  BY <1>1 DEF WeightedSum, Parts
<1>2. CASE d = g /\ e <= f /\ (d = 0 \/ d = 5000)
  BY <1>2 DEF WeightedSum, Parts
<1> QED
  BY <1>1, <1>2

LEMMA ClampFacts ==
    ASSUME NEW n \in Int, n <= 10000
    PROVE  /\ Clamp(0, 10000, n) \in Nat
           /\ Clamp(0, 10000, n) <= 10000
           /\ n >= 0 => Clamp(0, 10000, n) = n
           /\ n < 0 => Clamp(0, 10000, n) = 0
BY DEF Clamp

LEMMA RawScoreBounds ==
    ASSUME NEW p \in ScoreParams
    PROVE  /\ RawScore(p) \in Int
           /\ RawScore(p) <= 10000
           /\ penalty(p) = 0 => RawScore(p) > 0
           /\ computeRankingScore(p) = Clamp(0, 10000, RawScore(p))
<1>1. penalty(p) = 0 \/ penalty(p) = 5000
  BY DEF penalty
<1>2. PartsOf(p)
  BY PartBounds
<1>3. /\ RawScore(p) \in Int
      /\ RawScore(p) <= 10000
      /\ penalty(p) = 0 => RawScore(p) > 0
  BY <1>1, <1>2, SumBounds DEF RawScore, PartsOf
<1>4. computeRankingScore(p) = Clamp(0, 10000, RawScore(p))
  BY DEF computeRankingScore, RawScore, WeightedSum
<1> QED
  BY <1>3, <1>4

LEMMA MatchesGrow ==
    ASSUME NEW p \in ScoreParams, NEW q \in ScoreParams,
           p.cityMatch => q.cityMatch, p.categoryMatch => q.categoryMatch
    PROVE  locationMatch(p) <= locationMatch(q) /\ catMatch(p) <= catMatch(q)
<1>1. locationMatch(p) = locationMatch(q) \/ (locationMatch(p) = 500 /\ locationMatch(q) = 1000)
  BY DEF locationMatch
<1>2. catMatch(p) = catMatch(q) \/ (catMatch(p) = 0 /\ catMatch(q) = 1000)
  BY DEF catMatch
<1>3. PartsOf(p)
  BY PartBounds
<1> QED
  BY <1>1, <1>2, <1>3 DEF PartsOf, Parts

\* A review that is not older and matches no less has the greater sum, if it is spared
\* the penalty the other pays, or has no fewer votes and the same penalty.
LEMMA RawScoreGrows ==
    ASSUME NEW p \in ScoreParams, NEW q \in ScoreParams,
           q.age <= p.age,
           p.cityMatch => q.cityMatch, p.categoryMatch => q.categoryMatch,
           \/ penalty(p) = 5000 /\ penalty(q) = 0
           \/ penalty(p) = penalty(q) /\ p.helpful <= q.helpful
    PROVE  /\ RawScore(p) <= RawScore(q)
           /\ penalty(p) # penalty(q) => RawScore(p) < RawScore(q)
<1>1. PartsOf(p) /\ PartsOf(q)
  BY PartBounds
<1>2. recencyScore(p.age) <= recencyScore(q.age)
  BY RecencyDecreases DEF ScoreParams
<1>3. locationMatch(p) <= locationMatch(q) /\ catMatch(p) <= catMatch(q)
  BY MatchesGrow
<1>4. p.helpful <= q.helpful => engagementScore(p.helpful) <= engagementScore(q.helpful)
  BY EngagementGrows DEF ScoreParams
<1>5. penalty(p) = 0 \/ penalty(p) = 5000
  BY DEF penalty
<1>6. \/ penalty(p) = 5000 /\ penalty(q) = 0
      \/ /\ penalty(p) = penalty(q)
         /\ engagementScore(p.helpful) <= engagementScore(q.helpful)
         /\ penalty(p) = 0 \/ penalty(p) = 5000
  BY <1>4, <1>5
<1> QED
  BY <1>1, <1>2, <1>3, <1>6, SumGrows DEF RawScore, PartsOf

\* The score stays within its scale, and the upper clamp is never needed: only the
\* penalty can push the weighted sum out of it.
THEOREM ScoreIsBounded ==
    \A p \in ScoreParams :
        /\ computeRankingScore(p) \in Nat
        /\ computeRankingScore(p) <= 10000
        /\ RawScore(p) <= 10000
        /\ ~p.wasFlagged => computeRankingScore(p) = RawScore(p)
<1> SUFFICES ASSUME NEW p \in ScoreParams
             PROVE  /\ computeRankingScore(p) \in Nat
                    /\ computeRankingScore(p) <= 10000
                    /\ RawScore(p) <= 10000
                    /\ ~p.wasFlagged => computeRankingScore(p) = RawScore(p)
  OBVIOUS
<1>1. ~p.wasFlagged => penalty(p) = 0
  BY DEF penalty
<1>2. /\ RawScore(p) \in Int /\ RawScore(p) <= 10000
      /\ penalty(p) = 0 => RawScore(p) > 0
      /\ computeRankingScore(p) = Clamp(0, 10000, RawScore(p))
  BY RawScoreBounds
<1>3. /\ computeRankingScore(p) \in Nat
      /\ computeRankingScore(p) <= 10000
      /\ penalty(p) = 0 => computeRankingScore(p) = RawScore(p)
  BY <1>2, ClampFacts
<1> QED
  BY <1>1, <1>2, <1>3

\* A penalised review ranks strictly below every review without penalty that is not
\* older and matches no less, whatever the votes of either: the penalty outweighs all
\* the engagement there can be, and the clamp at 0 does not make the two equal.
THEOREM PenaltyOutweighsVotes ==
    \A p, q \in ScoreParams :
        /\ p.wasFlagged /\ ~q.wasFlagged
        /\ q.age <= p.age
        /\ p.cityMatch => q.cityMatch
        /\ p.categoryMatch => q.categoryMatch
        => computeRankingScore(p) < computeRankingScore(q)
<1> SUFFICES ASSUME NEW p \in ScoreParams, NEW q \in ScoreParams,
                    p.wasFlagged, ~q.wasFlagged, q.age <= p.age,
                    p.cityMatch => q.cityMatch, p.categoryMatch => q.categoryMatch
             PROVE  computeRankingScore(p) < computeRankingScore(q)
  OBVIOUS
<1>1. penalty(p) = 5000 /\ penalty(q) = 0
  BY DEF penalty
<1>3. RawScore(p) < RawScore(q)
  BY <1>1, RawScoreGrows
<1>4. /\ RawScore(p) \in Int /\ RawScore(p) <= 10000
      /\ computeRankingScore(p) = Clamp(0, 10000, RawScore(p))
  BY RawScoreBounds
<1>5. /\ RawScore(q) \in Int /\ RawScore(q) <= 10000 /\ RawScore(q) > 0
      /\ computeRankingScore(q) = Clamp(0, 10000, RawScore(q))
  BY <1>1, RawScoreBounds
<1> QED
  BY <1>3, <1>4, <1>5, ClampFacts

\* Votes and freshness never lower a score.
THEOREM ScoreIsMonotonic ==
    \A p, q \in ScoreParams :
        /\ p.wasFlagged = q.wasFlagged
        /\ p.cityMatch = q.cityMatch /\ p.categoryMatch = q.categoryMatch
        /\ q.age <= p.age /\ p.helpful <= q.helpful
        => computeRankingScore(p) <= computeRankingScore(q)
<1> SUFFICES ASSUME NEW p \in ScoreParams, NEW q \in ScoreParams,
                    p.wasFlagged = q.wasFlagged,
                    p.cityMatch = q.cityMatch, p.categoryMatch = q.categoryMatch,
                    q.age <= p.age, p.helpful <= q.helpful
             PROVE  computeRankingScore(p) <= computeRankingScore(q)
  OBVIOUS
<1>1. penalty(p) = penalty(q) /\ (penalty(p) = 0 \/ penalty(p) = 5000)
  BY DEF penalty
<1>4. RawScore(p) <= RawScore(q)
  BY <1>1, RawScoreGrows
<1>5. /\ RawScore(p) \in Int /\ RawScore(p) <= 10000
      /\ computeRankingScore(p) = Clamp(0, 10000, RawScore(p))
  BY RawScoreBounds
<1>6. /\ RawScore(q) \in Int /\ RawScore(q) <= 10000
      /\ computeRankingScore(q) = Clamp(0, 10000, RawScore(q))
  BY RawScoreBounds
<1> QED
  BY <1>4, <1>5, <1>6, ClampFacts

------------------------------------------------------------------------------
(* The walk *)

LEMMA NoWalkType ==
    ASSUME NEW stay \in SUBSET Reviews
    PROVE  NoWalk(stay) \in WalkRecord
BY FeedAssumption DEF NoWalk, WalkRecord

LEMMA AnswerType ==
    ASSUME visible \subseteq Reviews, NEW page \in Nat, NEW limit \in 1..MaxLimit,
           NEW before \in WalkRecord
    PROVE  getFeed(page, limit, before) \in WalkRecord
<1>1. Slice(page, limit) \subseteq Reviews
  BY DEF Slice, Fetched
<1> QED
  BY <1>1 DEF getFeed, hasNextPage, WalkRecord

\* Every reachable state of the walk is well typed: the limit stays within its cap.
THEOREM WalkTypeCorrect == Spec => []TypeOK
<1>1. Init => TypeOK
  BY NoWalkType, RecencyAssumption DEF Init, TypeOK, Ages
<1>2. TypeOK /\ [Next]_vars => TypeOK'
  <2> SUFFICES ASSUME TypeOK, [Next]_vars PROVE TypeOK'
    OBVIOUS
  <2> USE DEF TypeOK
  <2>1. ASSUME NEW requested \in Requested, OpenFeed(requested) PROVE TypeOK'
    <3>1. parseLimit(requested, MaxLimit) \in 1..MaxLimit
      BY FeedAssumption DEF parseLimit
    <3>2. NoWalk(visible) \in WalkRecord
      BY NoWalkType
    <3> QED
      BY <2>1, <3>1, <3>2, AnswerType DEF OpenFeed
  <2>2. CASE NextPage
    <3>1. walk.page + 1 \in Nat /\ walk.limit \in 1..MaxLimit
      BY DEF WalkRecord
    <3> QED
      BY <2>2, <3>1, AnswerType DEF NextPage
  <2>3. ASSUME NEW change \in {"published", "withdrawn", "time"}, Disturbed(change)
        PROVE  walk' \in WalkRecord
    BY <2>3 DEF Disturbed, WalkRecord
  <2>4. ASSUME NEW r \in Reviews, Publish(r) \/ Withdraw(r) PROVE TypeOK'
    <3>1. CASE Publish(r)
      BY <2>3, <2>4, <3>1 DEF Publish
    <3>2. CASE Withdraw(r)
      BY <2>3, <2>4, <3>2 DEF Withdraw
    <3> QED
      BY <2>4, <3>1, <3>2
  <2>5. CASE TimePasses
    <3>1. walk' \in WalkRecord
      BY <2>3, <2>5 DEF TimePasses
    <3>2. now' \in Ages
      BY <2>5, RecencyAssumption DEF TimePasses, Ages
    <3> QED
      BY <2>5, <3>1, <3>2 DEF TimePasses
  <2>6. CASE UNCHANGED vars
    BY <2>6 DEF vars
  <2> QED
    BY <2>1, <2>2, <2>4, <2>5, <2>6 DEF Next
<1> QED
  BY <1>1, <1>2, PTL DEF Spec

------------------------------------------------------------------------------
(* Ranks *)

LEMMA Finite ==
    ASSUME NEW S \in SUBSET Reviews
    PROVE  IsFiniteSet(S) /\ Cardinality(S) \in Nat
BY FeedAssumption, FS_Subset, FS_CardinalityType

LEMMA Fewer ==
    ASSUME NEW T \in SUBSET Reviews, NEW S \in SUBSET T
    PROVE  Cardinality(S) <= Cardinality(T)
BY Finite, FS_Subset

\* The reviews that were submitted by now: those that have a score.
Dated == \A r \in visible : CreatedAt[r] <= now

LEMMA ScoreType ==
    ASSUME TypeOK, Dated, NEW r \in visible
    PROVE  ScoreOf(r) \in Nat
<1>1. CreatedAt[r] \in Nat /\ CreatedAt[r] <= now /\ now \in Nat /\ now <= MaxAge /\ MaxAge \in Nat
  BY FeedAssumption, RecencyAssumption DEF TypeOK, Dated, Ages
<1>2. now - CreatedAt[r] \in Ages
  BY <1>1 DEF Ages
<1>3. [age |-> now - CreatedAt[r], helpful |-> Helpful[r], cityMatch |-> TRUE,
       categoryMatch |-> TRUE, wasFlagged |-> r \in Flagged] \in ScoreParams
  BY <1>2, FeedAssumption DEF TypeOK, ScoreParams
<1> QED
  BY <1>3, ScoreIsBounded DEF ScoreOf

Rank(S, r) == Cardinality({q \in S : Before(q, r)})

LEMMA RankType ==
    ASSUME NEW S \in SUBSET Reviews, NEW r
    PROVE  Rank(S, r) \in Nat
BY Finite DEF Rank

LEMMA RankGrows ==
    ASSUME NEW T \in SUBSET Reviews, NEW S \in SUBSET T, NEW r
    PROVE  Rank(S, r) <= Rank(T, r)
BY Fewer DEF Rank

LEMMA RankBelowSize ==
    ASSUME TypeOK, Dated, NEW S \in SUBSET visible, NEW r \in S
    PROVE  Rank(S, r) < Cardinality(S)
<1> DEFINE B == {q \in S : Before(q, r)}
<1>1. ScoreOf(r) \in Nat /\ CreatedAt[r] \in Nat
  BY ScoreType, FeedAssumption DEF TypeOK
<1>2. r \notin B
  BY <1>1 DEF Before
<1>3. B \in SUBSET Reviews /\ B \cup {r} \in SUBSET S /\ S \in SUBSET Reviews
  BY DEF TypeOK
<1>4. Cardinality(B \cup {r}) = Cardinality(B) + 1
  BY <1>2, <1>3, Finite, FS_AddElement
<1> QED
  BY <1>3, <1>4, Finite, Fewer DEF Rank

\* Who has the greater score has the smaller rank.
LEMMA ScoresDecideRanks ==
    ASSUME TypeOK, Dated, NEW S \in SUBSET visible, NEW q \in S, NEW r \in S,
           Rank(S, r) < Rank(S, q)
    PROVE  ScoreOf(r) >= ScoreOf(q)
<1> SUFFICES ASSUME ScoreOf(q) > ScoreOf(r) PROVE FALSE
  BY ScoreType
<1>1. \A t \in S : ScoreOf(t) \in Nat
  BY ScoreType
<1>2. {t \in S : Before(t, q)} \in SUBSET {t \in S : Before(t, r)}
  BY <1>1 DEF Before
<1>3. {t \in S : Before(t, r)} \in SUBSET Reviews
  BY DEF TypeOK
<1>4. Rank(S, q) <= Rank(S, r)
  BY <1>2, <1>3, Fewer DEF Rank
<1>5. Rank(S, q) \in Nat /\ Rank(S, r) \in Nat
  BY RankType DEF TypeOK
<1> QED
  BY <1>4, <1>5

------------------------------------------------------------------------------
(* Pages *)

\* The position after the last of page pages.
Edge(page, limit) == page * limit

LEMMA Edges ==
    ASSUME NEW page \in Nat, NEW limit \in 1..MaxLimit
    PROVE  /\ Edge(page, limit) \in Nat
           /\ Edge(0, limit) = 0
           /\ offset(page + 1, limit) = Edge(page, limit)
           /\ Edge(page + 1, limit) = Edge(page, limit) + limit
<1>1. limit \in Nat
  OBVIOUS
<1>2. page * limit \in Nat /\ (page + 1) * limit = page * limit + limit /\ 0 * limit = 0
  BY <1>1
<1>3. (page + 1) - 1 = page
  OBVIOUS
<1> QED
  BY <1>2, <1>3 DEF Edge, offset

\* Rounded up, the pages hold everything.
LEMMA PagesSuffice ==
    ASSUME NEW page \in Nat, NEW limit \in 1..MaxLimit, NEW total \in Nat,
           ~hasNextPage(page, total, limit)
    PROVE  total <= Edge(page, limit)
<1> DEFINE pages == (total + limit - 1) \div limit
<1>1. limit \in Nat \ {0}
  BY FeedAssumption
<1>2. pages \in Nat /\ pages * limit >= total
  BY <1>1
<1>3. pages <= page
  BY <1>2 DEF hasNextPage, totalPages
<1>4. pages * limit <= page * limit
  BY <1>1, <1>2, <1>3
<1> QED
  BY <1>1, <1>2, <1>4 DEF Edge

LEMMA SliceByRank ==
    ASSUME TypeOK, NEW page \in Nat, NEW limit \in 1..MaxLimit
    PROVE  /\ Fetched(limit) \in SUBSET visible
           /\ Fetched(limit) \in SUBSET Reviews
           /\ \A r \in Fetched(limit) : Rank(Fetched(limit), r) \in Nat
           /\ Slice(page + 1, limit) =
                 {r \in Fetched(limit) : /\ Rank(Fetched(limit), r) >= Edge(page, limit)
                                         /\ Rank(Fetched(limit), r) < Edge(page + 1, limit)}
<1>1. Fetched(limit) \in SUBSET visible /\ Fetched(limit) \in SUBSET Reviews
  BY DEF Fetched, TypeOK
<1>2. \A r : Index(r, limit) = Rank(Fetched(limit), r)
  BY DEF Index, Rank
<1>3. /\ offset(page + 1, limit) = Edge(page, limit)
      /\ offset(page + 1, limit) + limit = Edge(page + 1, limit)
  BY Edges
<1> QED
  BY <1>1, <1>2, <1>3, RankType DEF Slice

------------------------------------------------------------------------------
(* What a walk has shown *)

\* Undisturbed: the reviews of the ranks up to the last page, each once.
ShownInOrder ==
    walk.page > 0 /\ walk.changes = {} =>
        /\ walk.repeated = {}
        /\ walk.shown = {r \in Fetched(walk.limit) :
                             Rank(Fetched(walk.limit), r) < Edge(walk.page, walk.limit)}
        /\ walk.more = hasNextPage(walk.page, Cardinality(Fetched(walk.limit)), walk.limit)

\* Publications push reviews back only: who was there all the time and now ranks before
\* the edge was shown, and all were at the end.
NothingHidden ==
    walk.page > 0 /\ walk.changes \subseteq {"published"} /\ ~walk.full =>
        /\ walk.stayed \subseteq visible
        /\ \A r \in walk.stayed : Rank(visible, r) < Edge(walk.page, walk.limit) => r \in walk.shown
        /\ ~walk.more => walk.stayed \subseteq walk.shown

\* Withdrawals pull reviews forward only: who was shown and is still there ranks before
\* the edge.
NothingBack ==
    walk.changes \subseteq {"withdrawn"} /\ ~walk.full =>
        /\ walk.repeated = {}
        /\ walk.page > 0 =>
              \A r \in walk.shown \cap visible : Rank(visible, r) < Edge(walk.page, walk.limit)

\* Only a walk that has begun goes on.
Begun == walk.page = 0 => ~walk.more /\ walk.shown = {} /\ walk.repeated = {}

WalkInv == TypeOK /\ Dated /\ Begun /\ ShownInOrder /\ NothingHidden /\ NothingBack

\* A page that continues a walk in good order keeps the order; a walk that begins is in
\* good order with nothing shown.
LEMMA PageInOrder ==
    ASSUME TypeOK, Dated, NEW page \in Nat, NEW limit \in 1..MaxLimit, NEW before \in WalkRecord,
           walk' = getFeed(page + 1, limit, before), UNCHANGED <<visible, now>>,
           before.changes = {} =>
               /\ before.repeated = {}
               /\ before.shown = {r \in Fetched(limit) :
                                      Rank(Fetched(limit), r) < Edge(page, limit)}
    PROVE  ShownInOrder'
<1> DEFINE F == Fetched(limit)
           items == Slice(page + 1, limit)
<1>1. /\ walk'.page = page + 1 /\ walk'.limit = limit /\ walk'.changes = before.changes
      /\ walk'.repeated = before.repeated \cup (before.shown \cap items)
      /\ walk'.shown = before.shown \cup items
      /\ walk'.more = hasNextPage(page + 1, Cardinality(F), limit)
  BY DEF getFeed
<1>2. /\ Edge(page, limit) \in Nat /\ Edge(page + 1, limit) \in Nat
      /\ Edge(page, limit) <= Edge(page + 1, limit)
  BY Edges
<1>3. /\ \A r \in F : Rank(F, r) \in Nat
      /\ items = {r \in F : Rank(F, r) >= Edge(page, limit) /\ Rank(F, r) < Edge(page + 1, limit)}
  BY SliceByRank
<1> HIDE DEF items
<1>4. ASSUME before.changes = {}
      PROVE  /\ walk'.repeated = {}
             /\ walk'.shown = {r \in F : Rank(F, r) < Edge(page + 1, limit)}
  BY <1>1, <1>2, <1>3, <1>4
<1>5. Fetched(walk.limit)' = F
  BY <1>1 DEF Fetched
<1>6. \A r : Rank(Fetched(walk.limit), r)' = Rank(F, r)
  BY <1>5 DEF Rank, Before, ScoreOf
<1> QED
  BY <1>1, <1>4, <1>5, <1>6 DEF ShownInOrder

LEMMA PageHidesNothing ==
    ASSUME TypeOK, Dated, NEW page \in Nat, NEW limit \in 1..MaxLimit, NEW before \in WalkRecord,
           walk' = getFeed(page + 1, limit, before), UNCHANGED <<visible, now>>,
           before.changes \subseteq {"published"} /\ ~before.full =>
               /\ before.stayed \subseteq visible
               /\ \A r \in before.stayed : Rank(visible, r) < Edge(page, limit) => r \in before.shown
    PROVE  NothingHidden'
<1> DEFINE F == Fetched(limit)
           items == Slice(page + 1, limit)
<1>1. /\ walk'.page = page + 1 /\ walk'.limit = limit /\ walk'.changes = before.changes
      /\ walk'.shown = before.shown \cup items
      /\ walk'.stayed = before.stayed \cap visible
      /\ walk'.full = (before.full \/ F # visible)
      /\ walk'.more = hasNextPage(page + 1, Cardinality(F), limit)
  BY DEF getFeed
<1>2. Edge(page, limit) \in Nat /\ Edge(page + 1, limit) \in Nat
  BY Edges
<1>3. /\ \A r \in F : Rank(F, r) \in Nat
      /\ items = {r \in F : Rank(F, r) >= Edge(page, limit) /\ Rank(F, r) < Edge(page + 1, limit)}
  BY SliceByRank
<1>4. ASSUME F = visible, ~hasNextPage(page + 1, Cardinality(F), limit), NEW r \in visible
      PROVE  Rank(visible, r) < Edge(page + 1, limit)
  <2>1. Cardinality(visible) \in Nat
    BY Finite DEF TypeOK
  <2>2. Cardinality(visible) <= Edge(page + 1, limit)
    BY <1>4, <2>1, PagesSuffice
  <2>3. Rank(visible, r) < Cardinality(visible) /\ Rank(visible, r) \in Nat
    BY RankBelowSize, RankType DEF TypeOK
  <2> QED
    BY <1>2, <2>1, <2>2, <2>3
<1> HIDE DEF items, F
<1>5. \A r : Rank(visible, r)' = Rank(visible, r)
  BY DEF Rank, Before, ScoreOf
<1>6. ASSUME walk'.changes \subseteq {"published"}, ~walk'.full
      PROVE  /\ walk'.stayed \subseteq visible
             /\ \A r \in walk'.stayed :
                    Rank(visible, r) < Edge(page + 1, limit) => r \in walk'.shown
             /\ ~walk'.more => walk'.stayed \subseteq walk'.shown
  <2>1. F = visible /\ before.stayed \subseteq visible
    BY <1>1, <1>6
  <2>2. \A r \in before.stayed :
            Rank(visible, r) < Edge(page + 1, limit) => r \in before.shown \cup items
    <3> SUFFICES ASSUME NEW r \in before.stayed, Rank(visible, r) < Edge(page + 1, limit)
                 PROVE  r \in before.shown \cup items
      OBVIOUS
    <3>1. before.changes \subseteq {"published"} /\ ~before.full
      BY <1>1, <1>6
    <3>2. CASE Rank(visible, r) < Edge(page, limit)
      BY <3>1, <3>2
    <3>3. CASE ~(Rank(visible, r) < Edge(page, limit))
      <4>1. r \in F /\ Rank(F, r) = Rank(visible, r) /\ Rank(F, r) \in Nat
        BY <1>3, <2>1
      <4>2. Rank(F, r) >= Edge(page, limit) /\ Rank(F, r) < Edge(page + 1, limit)
        BY <1>2, <3>3, <4>1
      <4> QED
        BY <1>3, <4>1, <4>2
    <3> QED
      BY <3>2, <3>3
  <2> QED
    BY <1>1, <1>4, <2>1, <2>2
<1> QED
  BY <1>1, <1>5, <1>6 DEF NothingHidden

LEMMA PageRepeatsNothing ==
    ASSUME TypeOK, Dated, NEW page \in Nat, NEW limit \in 1..MaxLimit, NEW before \in WalkRecord,
           walk' = getFeed(page + 1, limit, before), UNCHANGED <<visible, now>>,
           before.changes \subseteq {"withdrawn"} /\ ~before.full =>
               /\ before.repeated = {}
               /\ \A r \in before.shown \cap visible : Rank(visible, r) < Edge(page, limit)
    PROVE  NothingBack'
<1> DEFINE F == Fetched(limit)
           items == Slice(page + 1, limit)
<1>1. /\ walk'.page = page + 1 /\ walk'.limit = limit /\ walk'.changes = before.changes
      /\ walk'.shown = before.shown \cup items
      /\ walk'.repeated = before.repeated \cup (before.shown \cap items)
      /\ walk'.full = (before.full \/ F # visible)
  BY DEF getFeed
<1>2. /\ Edge(page, limit) \in Nat /\ Edge(page + 1, limit) \in Nat
      /\ Edge(page, limit) <= Edge(page + 1, limit)
  BY Edges
<1>3. /\ \A r \in F : Rank(F, r) \in Nat
      /\ items = {r \in F : Rank(F, r) >= Edge(page, limit) /\ Rank(F, r) < Edge(page + 1, limit)}
  BY SliceByRank
<1> HIDE DEF items, F
<1>4. \A r : Rank(visible, r)' = Rank(visible, r)
  BY DEF Rank, Before, ScoreOf
<1>5. ASSUME walk'.changes \subseteq {"withdrawn"}, ~walk'.full
      PROVE  /\ walk'.repeated = {}
             /\ \A r \in walk'.shown \cap visible : Rank(visible, r) < Edge(page + 1, limit)
  <2>1. /\ F = visible /\ before.repeated = {}
        /\ \A r \in before.shown \cap visible : Rank(visible, r) < Edge(page, limit)
    BY <1>1, <1>5
  <2>2. before.shown \cap items = {}
    BY <1>2, <1>3, <2>1
  <2>3. \A r \in (before.shown \cup items) \cap visible : Rank(visible, r) < Edge(page + 1, limit)
    BY <1>2, <1>3, <2>1
  <2> QED
    BY <1>1, <2>1, <2>2, <2>3
<1> QED
  BY <1>1, <1>4, <1>5 DEF NothingBack

------------------------------------------------------------------------------
(* The steps *)

LEMMA PublishKeepsWalk ==
    ASSUME WalkInv, NEW r \in Reviews, Publish(r)
    PROVE  Dated' /\ Begun' /\ ShownInOrder' /\ NothingHidden' /\ NothingBack'
<1>1. /\ visible' = visible \cup {r} /\ CreatedAt[r] <= now /\ now' = now
      /\ walk' = [walk EXCEPT !.changes = @ \cup {"published"}]
      /\ walk \in WalkRecord
  BY DEF Publish, Disturbed, WalkInv, TypeOK
<1>2. /\ walk'.changes = walk.changes \cup {"published"}
      /\ walk'.page = walk.page /\ walk'.limit = walk.limit /\ walk'.more = walk.more
      /\ walk'.shown = walk.shown /\ walk'.repeated = walk.repeated
      /\ walk'.stayed = walk.stayed /\ walk'.full = walk.full
  BY <1>1 DEF WalkRecord
<1>3. Dated' /\ Begun'
  BY <1>1, <1>2 DEF WalkInv, Dated, Begun
<1>4. ShownInOrder' /\ NothingBack'
  BY <1>2 DEF ShownInOrder, NothingBack
<1>5. NothingHidden'
  <2>1. \A q : Rank(visible, q)' = Rank(visible \cup {r}, q)
    BY <1>1 DEF Rank, Before, ScoreOf
  <2>2. \A q : Rank(visible, q) <= Rank(visible \cup {r}, q)
    BY RankGrows DEF WalkInv, TypeOK
  <2>3. \A q : Rank(visible, q) \in Nat /\ Rank(visible \cup {r}, q) \in Nat
    BY RankType DEF WalkInv, TypeOK
  <2>4. walk.page \in Nat /\ walk.limit \in 1..MaxLimit
    BY <1>1 DEF WalkRecord
  <2>5. walk.page > 0 => Edge(walk.page, walk.limit) \in Nat
    BY <2>4, Edges
  <2>6. ASSUME walk.page > 0, walk.changes \subseteq {"published"}, ~walk.full
        PROVE  /\ walk.stayed \subseteq visible \cup {r}
               /\ \A q \in walk.stayed :
                     Rank(visible \cup {r}, q) < Edge(walk.page, walk.limit) => q \in walk.shown
               /\ ~walk.more => walk.stayed \subseteq walk.shown
    BY <2>2, <2>3, <2>5, <2>6 DEF WalkInv, NothingHidden
  <2> QED
    BY <1>1, <1>2, <2>1, <2>6 DEF NothingHidden
<1> QED
  BY <1>3, <1>4, <1>5

LEMMA WithdrawKeepsWalk ==
    ASSUME WalkInv, NEW r \in Reviews, Withdraw(r)
    PROVE  Dated' /\ Begun' /\ ShownInOrder' /\ NothingHidden' /\ NothingBack'
<1>1. /\ visible' = visible \ {r} /\ now' = now
      /\ walk' = [walk EXCEPT !.changes = @ \cup {"withdrawn"}]
      /\ walk \in WalkRecord
  BY DEF Withdraw, Disturbed, WalkInv, TypeOK
<1>2. /\ walk'.changes = walk.changes \cup {"withdrawn"}
      /\ walk'.page = walk.page /\ walk'.limit = walk.limit /\ walk'.more = walk.more
      /\ walk'.shown = walk.shown /\ walk'.repeated = walk.repeated
      /\ walk'.stayed = walk.stayed /\ walk'.full = walk.full
  BY <1>1 DEF WalkRecord
<1>3. Dated' /\ Begun'
  BY <1>1, <1>2 DEF WalkInv, Dated, Begun
<1>4. ShownInOrder' /\ NothingHidden'
  BY <1>2 DEF ShownInOrder, NothingHidden
<1>5. NothingBack'
  <2>1. \A q : Rank(visible, q)' = Rank(visible \ {r}, q)
    BY <1>1 DEF Rank, Before, ScoreOf
  <2>2. \A q : Rank(visible \ {r}, q) <= Rank(visible, q)
    BY RankGrows DEF WalkInv, TypeOK
  <2>3. \A q : Rank(visible, q) \in Nat /\ Rank(visible \ {r}, q) \in Nat
    BY RankType DEF WalkInv, TypeOK
  <2>4. walk.page \in Nat /\ walk.limit \in 1..MaxLimit
    BY <1>1 DEF WalkRecord
  <2>5. Edge(walk.page, walk.limit) \in Nat
    BY <2>4, Edges
  <2>6. ASSUME walk.changes \subseteq {"withdrawn"}, ~walk.full
        PROVE  /\ walk.repeated = {}
               /\ walk.page > 0 => \A q \in walk.shown \cap (visible \ {r}) :
                     Rank(visible \ {r}, q) < Edge(walk.page, walk.limit)
    BY <2>2, <2>3, <2>5, <2>6 DEF WalkInv, NothingBack
  <2> QED
    BY <1>1, <1>2, <2>1, <2>6 DEF NothingBack
<1> QED
  BY <1>3, <1>4, <1>5

LEMMA TimeKeepsWalk ==
    ASSUME WalkInv, TimePasses
    PROVE  Dated' /\ Begun' /\ ShownInOrder' /\ NothingHidden' /\ NothingBack'
<1>1. /\ visible' = visible /\ now' = now + 1 /\ now \in Nat
      /\ walk' = [walk EXCEPT !.changes = @ \cup {"time"}]
      /\ walk \in WalkRecord
  BY RecencyAssumption DEF TimePasses, Disturbed, WalkInv, TypeOK, Ages
<1>2. /\ walk'.changes = walk.changes \cup {"time"}
      /\ walk'.page = walk.page /\ walk'.more = walk.more
      /\ walk'.shown = walk.shown /\ walk'.repeated = walk.repeated
  BY <1>1 DEF WalkRecord
<1>3. Dated'
  BY <1>1, FeedAssumption DEF WalkInv, TypeOK, Dated
<1> QED
  BY <1>2, <1>3 DEF WalkInv, Begun, ShownInOrder, NothingHidden, NothingBack

LEMMA PageKeepsWalk ==
    ASSUME WalkInv, (\E requested \in Requested : OpenFeed(requested)) \/ NextPage
    PROVE  Dated' /\ Begun' /\ ShownInOrder' /\ NothingHidden' /\ NothingBack'
<1> USE DEF WalkInv
<1>1. ASSUME NEW requested \in Requested, OpenFeed(requested)
      PROVE  Dated' /\ Begun' /\ ShownInOrder' /\ NothingHidden' /\ NothingBack'
  <2> DEFINE limit == parseLimit(requested, MaxLimit)
             before == NoWalk(visible)
  <2>1. limit \in 1..MaxLimit
    BY FeedAssumption DEF parseLimit
  <2>2. before \in WalkRecord
    BY NoWalkType DEF TypeOK
  <2>3. /\ before.changes = {} /\ ~before.full /\ before.repeated = {} /\ before.shown = {}
        /\ before.stayed = visible
    BY DEF NoWalk
  <2>4. walk' = getFeed(0 + 1, limit, before) /\ UNCHANGED <<visible, now>>
    BY <1>1 DEF OpenFeed
  <2> HIDE DEF limit, before
  <2>5. Edge(0, limit) = 0 /\ 0 \in Nat
    BY <2>1, Edges
  <2>6. /\ Fetched(limit) \in SUBSET Reviews
        /\ \A r \in Fetched(limit) : Rank(Fetched(limit), r) \in Nat
        /\ \A r : Rank(visible, r) \in Nat
    BY <2>1, <2>5, SliceByRank, RankType DEF TypeOK
  <2>7. before.shown = {r \in Fetched(limit) : Rank(Fetched(limit), r) < Edge(0, limit)}
    BY <2>3, <2>5, <2>6
  <2>8. ShownInOrder'
    BY <2>1, <2>2, <2>3, <2>4, <2>5, <2>7, PageInOrder
  <2>9. NothingHidden'
    BY <2>1, <2>2, <2>3, <2>4, <2>5, <2>6, PageHidesNothing
  <2>10. NothingBack'
    BY <2>1, <2>2, <2>3, <2>4, <2>5, PageRepeatsNothing
  <2>11. Dated' /\ Begun'
    BY <2>4 DEF Dated, Begun, getFeed
  <2> QED
    BY <2>8, <2>9, <2>10, <2>11
<1>2. CASE NextPage
  <2>1. /\ walk.page \in Nat /\ walk.limit \in 1..MaxLimit /\ walk \in WalkRecord
        /\ walk.page > 0
        /\ walk' = getFeed(walk.page + 1, walk.limit, walk) /\ UNCHANGED <<visible, now>>
    BY <1>2 DEF NextPage, TypeOK, WalkRecord, Begun
  <2>2. ShownInOrder'
    BY <2>1, PageInOrder DEF ShownInOrder
  <2>3. NothingHidden'
    BY <2>1, PageHidesNothing DEF NothingHidden
  <2>4. NothingBack'
    BY <2>1, PageRepeatsNothing DEF NothingBack
  <2>5. Dated' /\ Begun'
    BY <2>1 DEF Dated, Begun, getFeed
  <2> QED
    BY <2>2, <2>3, <2>4, <2>5
<1> QED
  BY <1>1, <1>2

LEMMA WalkInvariant == Spec => []WalkInv
<1>1. Init => WalkInv
  <2> SUFFICES ASSUME Init PROVE WalkInv
    OBVIOUS
  <2>1. TypeOK
    BY NoWalkType, RecencyAssumption DEF Init, TypeOK, Ages
  <2> QED
    BY <2>1 DEF Init, NoWalk, WalkInv, Dated, Begun, ShownInOrder, NothingHidden, NothingBack
<1>2. TypeOK' /\ WalkInv /\ [Next]_vars => WalkInv'
  <2> SUFFICES ASSUME TypeOK', WalkInv, [Next]_vars
               PROVE  Dated' /\ Begun' /\ ShownInOrder' /\ NothingHidden' /\ NothingBack'
    BY DEF WalkInv
  <2>1. CASE UNCHANGED vars
    <3>1. UNCHANGED <<visible, now, walk>>
      BY <2>1 DEF vars
    <3> QED
      BY <3>1 DEF WalkInv, Dated, Begun, ShownInOrder, NothingHidden, NothingBack, Rank, Before,
                  ScoreOf, Fetched
  <2> QED
    BY <2>1, PageKeepsWalk, PublishKeepsWalk, WithdrawKeepsWalk, TimeKeepsWalk DEF Next
<1> QED
  BY <1>1, <1>2, WalkTypeCorrect, PTL DEF Spec

\* The paging of a feed that does not change is exact, for any reviews, scores, window
\* and limit.
THEOREM UndisturbedWalks == Spec => []UndisturbedWalkIsExact
<1>1. WalkInv => UndisturbedWalkIsExact
  <2> SUFFICES ASSUME WalkInv, walk.page > 0, walk.changes = {}
               PROVE  /\ walk.repeated = {}
                      /\ \A r \in walk.shown, q \in Fetched(walk.limit) \ walk.shown :
                             ScoreOf(r) >= ScoreOf(q)
                      /\ ~walk.more => walk.shown = Fetched(walk.limit)
    BY DEF UndisturbedWalkIsExact
  <2> DEFINE F == Fetched(walk.limit)
             edge == Edge(walk.page, walk.limit)
  <2>1. walk.page \in Nat /\ walk.limit \in 1..MaxLimit /\ TypeOK /\ Dated
    BY DEF WalkInv, TypeOK, WalkRecord
  <2>2. /\ edge \in Nat /\ F \in SUBSET visible /\ F \in SUBSET Reviews
        /\ \A r \in F : Rank(F, r) \in Nat
    BY <2>1, Edges, SliceByRank
  <2>3. /\ walk.repeated = {}
        /\ walk.shown = {r \in F : Rank(F, r) < edge}
        /\ walk.more = hasNextPage(walk.page, Cardinality(F), walk.limit)
    BY DEF WalkInv, ShownInOrder
  <2>4. ~walk.more => \A r \in F : Rank(F, r) < edge
    <3>1. Cardinality(F) \in Nat
      BY <2>2, Finite
    <3>2. ~walk.more => Cardinality(F) <= edge
      BY <2>1, <2>3, <3>1, PagesSuffice
    <3>3. \A r \in F : Rank(F, r) < Cardinality(F)
      BY <2>1, <2>2, RankBelowSize
    <3> QED
      BY <2>2, <3>1, <3>2, <3>3
  <2> HIDE DEF F, edge
  <2>5. ASSUME NEW r \in walk.shown, NEW q \in F \ walk.shown PROVE ScoreOf(r) >= ScoreOf(q)
    <3>1. r \in F /\ q \in F /\ Rank(F, r) < Rank(F, q)
      BY <2>2, <2>3, <2>5
    <3> QED
      BY <2>1, <2>2, <3>1, ScoresDecideRanks
  <2> QED
    BY <2>3, <2>4, <2>5 DEF F
<1> QED
  BY <1>1, WalkInvariant, PTL

\* Reviews that appear during a walk hide none that was there all the time, as long as
\* the window was never full, for any reviews, scores and limit.
THEOREM PublicationsAreHarmless == Spec => []PublicationsHideNothing
<1>1. WalkInv => PublicationsHideNothing
  BY DEF WalkInv, NothingHidden, PublicationsHideNothing
<1> QED
  BY <1>1, WalkInvariant, PTL

\* Reviews that leave during a walk make none appear twice, as long as the window was
\* never full, for any reviews, scores and limit.
THEOREM WithdrawalsAreHarmless == Spec => []WithdrawalsRepeatNothing
<1>1. WalkInv => WithdrawalsRepeatNothing
  BY DEF WalkInv, NothingBack, WithdrawalsRepeatNothing
<1> QED
  BY <1>1, WalkInvariant, PTL

------------------------------------------------------------------------------
(* Pages are short and walks stop *)

\* Numbers below a bound, no two of them equal, count no more than lie below it.
LEMMA CountedBelow ==
    ASSUME NEW S \in SUBSET Reviews, NEW f \in [S -> Int], NEW lo \in Nat, NEW n \in Nat,
           \A r \in S : lo <= f[r] /\ f[r] < lo + n,
           \A q, r \in S : f[q] = f[r] => q = r
    PROVE  Cardinality(S) <= n
<1>1. f \in Injection(S, lo..(lo + n - 1))
  <2>1. \A r \in S : f[r] \in Int /\ f[r] \in lo..(lo + n - 1)
    OBVIOUS
  <2>2. f \in [S -> lo..(lo + n - 1)]
    BY <2>1
  <2> QED
    BY <2>2 DEF Injection, IsInjective
<1>2. /\ IsFiniteSet(lo..(lo + n - 1))
      /\ Cardinality(lo..(lo + n - 1)) = n
  BY FS_Interval
<1> QED
  BY <1>1, <1>2, FS_Injection

\* The reviews that findMany returns before r, and how many they are.
NewerThan(r) == {q \in visible : CreatedAt[q] > CreatedAt[r]}
Seniority(r) == Cardinality(NewerThan(r))

LEMMA SeniorityGrows ==
    ASSUME visible \subseteq Reviews, NEW q \in visible, NEW r \in Reviews,
           CreatedAt[q] > CreatedAt[r]
    PROVE  Seniority(q) < Seniority(r)
<1>1. NewerThan(q) \in SUBSET Reviews /\ NewerThan(r) \in SUBSET Reviews
  BY DEF NewerThan
<1>2. \A t \in Reviews : CreatedAt[t] \in Nat
  BY FeedAssumption
<1>3. q \notin NewerThan(q)
  BY <1>2 DEF NewerThan
<1>4. NewerThan(q) \cup {q} \in SUBSET NewerThan(r)
  BY <1>2 DEF NewerThan
<1>5. Cardinality(NewerThan(q) \cup {q}) = Cardinality(NewerThan(q)) + 1
  BY <1>1, <1>3, Finite, FS_AddElement
<1>6. Cardinality(NewerThan(q) \cup {q}) <= Cardinality(NewerThan(r))
  BY <1>1, <1>4, Fewer
<1>7. Cardinality(NewerThan(q)) \in Nat /\ Cardinality(NewerThan(r)) \in Nat
  BY <1>1, Finite
<1> QED
  BY <1>5, <1>6, <1>7 DEF Seniority

\* The newest are told apart by the time of their submission: no more are fetched than
\* the query takes.
LEMMA FetchIsCapped ==
    ASSUME TypeOK, NEW limit \in 1..MaxLimit
    PROVE  Cardinality(Fetched(limit)) <= OverFetch * limit
<1> DEFINE F == Fetched(limit)
           f == [r \in F |-> Seniority(r)]
<1>1. OverFetch * limit \in Nat
  BY FeedAssumption
<1>2. F \in SUBSET Reviews /\ F \subseteq visible /\ visible \subseteq Reviews
  BY DEF Fetched, TypeOK
<1>3. \A r \in F : Seniority(r) < OverFetch * limit
  BY DEF Fetched, Seniority, NewerThan
<1>4. \A r : Seniority(r) \in Nat
  <2>1. \A r : NewerThan(r) \in SUBSET Reviews
    BY <1>2 DEF NewerThan
  <2> QED
    BY <2>1, Finite DEF Seniority
<1> HIDE DEF F
<1>5. ASSUME NEW q \in F, NEW r \in F, Seniority(q) = Seniority(r)
      PROVE  q = r
  <2>1. CreatedAt[q] \in Nat /\ CreatedAt[r] \in Nat
    BY <1>2, FeedAssumption
  <2>2. ~(CreatedAt[q] > CreatedAt[r]) /\ ~(CreatedAt[r] > CreatedAt[q])
    BY <1>2, <1>4, <1>5, SeniorityGrows
  <2>3. CreatedAt[q] = CreatedAt[r]
    BY <2>1, <2>2
  <2> QED
    BY <1>2, <2>3, FeedAssumption
<1>6. f \in [F -> Int] /\ \A r \in F : f[r] = Seniority(r)
  BY <1>4
<1> HIDE DEF f
<1>7. \A r \in F : 0 <= f[r] /\ f[r] < 0 + OverFetch * limit
  BY <1>1, <1>3, <1>4, <1>6
<1>8. \A q, r \in F : f[q] = f[r] => q = r
  BY <1>5, <1>6
<1>9. Cardinality(F) <= OverFetch * limit
  BY <1>1, <1>2, <1>6, <1>7, <1>8, CountedBelow
<1> QED
  BY <1>9 DEF F

\* No two reviews of one fetch have one rank: the comparator decides between any two.
LEMMA RanksDiffer ==
    ASSUME TypeOK, Dated, NEW S \in SUBSET visible, NEW q \in S, NEW r \in S,
           Rank(S, q) = Rank(S, r)
    PROVE  q = r
<1>1. \A t \in S : ScoreOf(t) \in Nat /\ CreatedAt[t] \in Nat
  BY ScoreType, FeedAssumption DEF TypeOK
<1>2. ASSUME NEW s \in S, NEW t \in S, Before(s, t)
      PROVE  Rank(S, s) < Rank(S, t)
  <2> DEFINE Ahead(u) == {v \in S : Before(v, u)}
  <2>1. Ahead(s) \cup {s} \in SUBSET Ahead(t) /\ s \notin Ahead(s)
    BY <1>1, <1>2 DEF Before
  <2>2. Ahead(s) \in SUBSET Reviews /\ Ahead(t) \in SUBSET Reviews
    BY DEF TypeOK
  <2>3. Cardinality(Ahead(s) \cup {s}) = Cardinality(Ahead(s)) + 1
    BY <2>1, <2>2, Finite, FS_AddElement
  <2>4. Cardinality(Ahead(s) \cup {s}) <= Cardinality(Ahead(t))
    BY <2>1, <2>2, Fewer
  <2>5. Cardinality(Ahead(s)) \in Nat /\ Cardinality(Ahead(t)) \in Nat
    BY <2>2, Finite
  <2> QED
    BY <2>3, <2>4, <2>5 DEF Rank
<1>3. Rank(S, q) \in Nat
  BY RankType DEF TypeOK
<1>4. ~Before(q, r) /\ ~Before(r, q)
  BY <1>2, <1>3
<1>5. CreatedAt[q] = CreatedAt[r]
  BY <1>1, <1>4 DEF Before
<1>6. q \in Reviews /\ r \in Reviews
  BY DEF TypeOK
<1> QED
  BY <1>5, <1>6, FeedAssumption

\* What the answer to any request holds: at most limit reviews.
ShortPages ==
    \A page \in Nat : \A limit \in 1..MaxLimit : Cardinality(Slice(page + 1, limit)) <= limit

\* No page of the feed is longer than its limit, whatever the scores.
THEOREM FeedPagesAreShort == Spec => []ShortPages
<1>1. WalkInv => ShortPages
  <2> SUFFICES ASSUME WalkInv, NEW page \in Nat, NEW limit \in 1..MaxLimit
               PROVE  Cardinality(Slice(page + 1, limit)) <= limit
    BY DEF ShortPages
  <2> USE DEF WalkInv
  <2> DEFINE S == Slice(page + 1, limit)
             f == [r \in S |-> Rank(Fetched(limit), r)]
  <2>1. /\ Fetched(limit) \in SUBSET visible
        /\ Fetched(limit) \in SUBSET Reviews
        /\ \A r \in Fetched(limit) : Rank(Fetched(limit), r) \in Nat
        /\ S = {r \in Fetched(limit) : /\ Rank(Fetched(limit), r) >= Edge(page, limit)
                                       /\ Rank(Fetched(limit), r) < Edge(page + 1, limit)}
    BY SliceByRank
  <2>2. Edge(page, limit) \in Nat /\ Edge(page + 1, limit) = Edge(page, limit) + limit
    BY Edges
  <2> HIDE DEF S
  <2>3. S \in SUBSET Reviews /\ S \subseteq Fetched(limit) /\ f \in [S -> Int]
    BY <2>1
  <2>4. \A r \in S : Edge(page, limit) <= f[r] /\ f[r] < Edge(page, limit) + limit
    BY <2>1, <2>2
  <2>5. \A q, r \in S : f[q] = f[r] => q = r
    BY <2>1, <2>3, RanksDiffer
  <2>6. limit \in Nat
    OBVIOUS
  <2> HIDE DEF f
  <2>7. Cardinality(S) <= limit
    BY <2>2, <2>3, <2>4, <2>5, <2>6, CountedBelow
  <2> QED
    BY <2>7 DEF S
<1> QED
  BY <1>1, WalkInvariant, PTL

\* The window of fetched reviews starts at the newest at every page: whatever changes, a
\* walk has at most OverFetch pages, and no reader ever sees the reviews behind them.
NoEndlessWalk ==
    /\ walk.page <= OverFetch
    /\ walk.more => walk.page < OverFetch

LEMMA FewPages ==
    ASSUME TypeOK, NEW page \in Nat, NEW limit \in 1..MaxLimit,
           hasNextPage(page, Cardinality(Fetched(limit)), limit)
    PROVE  page < OverFetch
<1> DEFINE total == Cardinality(Fetched(limit))
           pages == (total + limit - 1) \div limit
<1>1. limit \in Nat \ {0} /\ OverFetch \in Nat
  BY FeedAssumption
<1>2. total \in Nat /\ total <= OverFetch * limit
  <2>1. Fetched(limit) \in SUBSET Reviews
    BY DEF Fetched, TypeOK
  <2> QED
    BY <2>1, Finite, FetchIsCapped
<1> HIDE DEF total
<1>3. pages \in Nat /\ pages * limit <= total + limit - 1
  BY <1>1, <1>2
<1>4. page < pages
  BY DEF hasNextPage, totalPages, total
<1> HIDE DEF pages
<1>5. pages * limit < (OverFetch + 1) * limit
  <2>1. (OverFetch + 1) * limit = OverFetch * limit + limit /\ OverFetch * limit \in Nat
    BY <1>1
  <2> QED
    BY <1>1, <1>2, <1>3, <2>1
<1>6. pages <= OverFetch
  <2> SUFFICES ASSUME pages >= OverFetch + 1 PROVE FALSE
    BY <1>1, <1>3
  <2>1. pages * limit >= (OverFetch + 1) * limit
    BY <1>1, <1>3
  <2> QED
    BY <1>1, <1>3, <1>5, <2>1
<1> QED
  BY <1>1, <1>3, <1>4, <1>6

\* A reader who follows meta.hasNextPage is done after OVER_FETCH_MULTIPLIER pages.
THEOREM FeedWalksStop == Spec => []NoEndlessWalk
<1>1. Init => NoEndlessWalk
  BY FeedAssumption DEF Init, NoWalk, NoEndlessWalk
<1>2. TypeOK /\ NoEndlessWalk /\ [Next]_vars => NoEndlessWalk'
  <2> SUFFICES ASSUME TypeOK, NoEndlessWalk, [Next]_vars PROVE NoEndlessWalk'
    OBVIOUS
  <2> USE DEF TypeOK
  <2>1. ASSUME NEW requested \in Requested, OpenFeed(requested) PROVE NoEndlessWalk'
    <3>1. parseLimit(requested, MaxLimit) \in 1..MaxLimit
      BY FeedAssumption DEF parseLimit
    <3>2. /\ walk'.page = 1
          /\ walk'.more = hasNextPage(1, Cardinality(Fetched(parseLimit(requested, MaxLimit))),
                                      parseLimit(requested, MaxLimit))
      BY <2>1 DEF OpenFeed, getFeed
    <3>3. walk'.more => 1 < OverFetch
      BY <3>1, <3>2, FewPages
    <3> QED
      BY <3>2, <3>3, FeedAssumption DEF NoEndlessWalk
  <2>2. CASE NextPage
    <3>1. walk.page + 1 \in Nat /\ walk.limit \in 1..MaxLimit /\ OverFetch \in Nat /\ walk.page \in Nat
      BY FeedAssumption DEF WalkRecord
    <3>2. /\ walk'.page = walk.page + 1
          /\ walk'.more = hasNextPage(walk.page + 1, Cardinality(Fetched(walk.limit)), walk.limit)
      BY <2>2 DEF NextPage, getFeed
    <3>3. walk'.more => walk.page + 1 < OverFetch
      BY <3>1, <3>2, FewPages
    <3>4. walk.page < OverFetch
      BY <2>2 DEF NextPage, NoEndlessWalk
    <3> QED
      BY <3>1, <3>2, <3>3, <3>4 DEF NoEndlessWalk
  <2>3. ASSUME NEW change, Disturbed(change) PROVE walk'.page = walk.page /\ walk'.more = walk.more
    BY <2>3 DEF Disturbed, WalkRecord
  <2>4. ASSUME NEW r \in Reviews, Publish(r) \/ Withdraw(r) PROVE NoEndlessWalk'
    BY <2>3, <2>4 DEF Publish, Withdraw, NoEndlessWalk
  <2>5. CASE TimePasses
    BY <2>3, <2>5 DEF TimePasses, NoEndlessWalk
  <2>6. CASE UNCHANGED vars
    BY <2>6 DEF vars, NoEndlessWalk
  <2> QED
    BY <2>1, <2>2, <2>4, <2>5, <2>6 DEF Next
<1> QED
  BY <1>1, <1>2, WalkTypeCorrect, PTL DEF Spec
==============================================================================
