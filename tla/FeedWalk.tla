------------------------------- MODULE FeedWalk -------------------------------
(***************************************************************************)
(* A reader walks through GET /feed page by page while reviews appear in   *)
(* the feed and leave it and time passes.  Every request fetches the       *)
(* newest reviews, scores and sorts them afresh, and slices by offset:     *)
(* nothing ties one page to the one before.                                *)
(***************************************************************************)
EXTENDS FeedScore, Pagination, FiniteSets

CONSTANTS
    Reviews,    \* the reviews of one city (and category)
    CreatedAt,  \* CreatedAt[r]: when the review was submitted
    Helpful,    \* reviews.helpful_count, which no operation of the server changes
    Flagged,    \* the reviews with the label NEEDS_HUMAN_REVIEW
    OverFetch,  \* OVER_FETCH_MULTIPLIER
    MaxLimit,   \* parsePagination's maxLimit
    Requested   \* the values of "limit" readers send

ASSUME FeedAssumption ==
    /\ IsFiniteSet(Reviews)
    /\ CreatedAt \in [Reviews -> Nat]
    /\ \A q, r \in Reviews : CreatedAt[q] = CreatedAt[r] => q = r
    /\ Helpful \in [Reviews -> Nat]
    /\ Flagged \subseteq Reviews
    /\ OverFetch \in Nat \ {0} /\ MaxLimit \in Nat \ {0}
    /\ Requested \subseteq Nat \ {0}

VARIABLES
    visible,  \* the APPROVED reviews at ACTIVE places
    now,      \* the time since the first review, bounded by MaxAge
    walk      \* the reader: the last page read and what the pages have shown

vars == <<visible, now, walk>>

\* Before the first page: stay is what the walk starts with.
NoWalk(stay) == [page |-> 0, limit |-> 1, more |-> FALSE, shown |-> {}, repeated |-> {},
                 stayed |-> stay, changes |-> {}, full |-> FALSE]

WalkRecord == [page : Nat, limit : 1..MaxLimit, more : BOOLEAN, shown : SUBSET Reviews,
               repeated : SUBSET Reviews, stayed : SUBSET Reviews,
               changes : SUBSET {"published", "withdrawn", "time"}, full : BOOLEAN]

TypeOK ==
    /\ visible \subseteq Reviews
    /\ now \in Ages
    /\ walk \in WalkRecord

Init ==
    /\ visible = {}
    /\ now = 0
    /\ walk = NoWalk({})

------------------------------------------------------------------------------
(* One request *)

\* findMany: the newest fetchLimit reviews of the feed.
Fetched(limit) ==
    {r \in visible :
        Cardinality({q \in visible : CreatedAt[q] > CreatedAt[r]}) < OverFetch * limit}

ScoreOf(r) == computeRankingScore(
    [age |-> now - CreatedAt[r], helpful |-> Helpful[r], cityMatch |-> TRUE,
     categoryMatch |-> TRUE, wasFlagged |-> r \in Flagged])

\* Variation: the comparator of the sort is the wrong way round.
BeforeReversed(q, r) ==
    \/ ScoreOf(q) < ScoreOf(r)
    \/ ScoreOf(q) = ScoreOf(r) /\ CreatedAt[q] > CreatedAt[r]

\* The sort is stable: equal scores stay newest first.
Before(q, r) ==
    \/ ScoreOf(q) > ScoreOf(r)
    \/ ScoreOf(q) = ScoreOf(r) /\ CreatedAt[q] > CreatedAt[r]

\* The index a review has in the sorted array, from 0.
Index(r, limit) == Cardinality({q \in Fetched(limit) : Before(q, r)})

\* Variation: the slice takes one item more.
SliceTooLong(page, limit) ==
    {r \in Fetched(limit) : /\ Index(r, limit) >= offset(page, limit)
                            /\ Index(r, limit) <= offset(page, limit) + limit}

\* paginated: the slice of the sorted array that is the page.
Slice(page, limit) ==
    {r \in Fetched(limit) : /\ Index(r, limit) >= offset(page, limit)
                            /\ Index(r, limit) < offset(page, limit) + limit}

\* The reader's walk after the answer to one more request.
getFeed(page, limit, before) ==
    LET items == Slice(page, limit) IN
    [page     |-> page,
     limit    |-> limit,
     more     |-> hasNextPage(page, Cardinality(Fetched(limit)), limit),
     shown    |-> before.shown \cup items,
     repeated |-> before.repeated \cup (before.shown \cap items),
     stayed   |-> before.stayed \cap visible,
     changes  |-> before.changes,
     full     |-> before.full \/ Fetched(limit) # visible]

\* The reader opens the feed.
OpenFeed(requested) ==
    /\ walk' = getFeed(1, parseLimit(requested, MaxLimit), NoWalk(visible))
    /\ UNCHANGED <<visible, now>>

\* The reader follows meta.hasNextPage.
NextPage ==
    /\ walk.more
    /\ walk' = getFeed(walk.page + 1, walk.limit, walk)
    /\ UNCHANGED <<visible, now>>

------------------------------------------------------------------------------
(* What happens between requests *)

Disturbed(change) == walk' = [walk EXCEPT !.changes = @ \cup {change}]

\* A verdict or a moderator approves a review, however long ago it was submitted.
Publish(r) ==
    /\ r \notin visible
    /\ CreatedAt[r] <= now
    /\ visible' = visible \cup {r}
    /\ Disturbed("published")
    /\ UNCHANGED now

\* A moderator rejects it, a failure handler flags it, or its place is merged away.
Withdraw(r) ==
    /\ r \in visible
    /\ visible' = visible \ {r}
    /\ Disturbed("withdrawn")
    /\ UNCHANGED now

TimePasses ==
    /\ now < MaxAge
    /\ now' = now + 1
    /\ Disturbed("time")
    /\ UNCHANGED visible

Next ==
    \/ \E requested \in Requested : OpenFeed(requested)
    \/ NextPage
    \/ \E r \in Reviews : Publish(r) \/ Withdraw(r)
    \/ TimePasses

Spec == Init /\ [][Next]_vars

------------------------------------------------------------------------------
(* Properties *)

\* While nothing changes, every page continues the ranking where the page before
\* stopped: what was shown is the best of what is fetched, without repetition, and
\* the walk ends only when all of it was shown.
UndisturbedWalkIsExact ==
    walk.page > 0 /\ walk.changes = {} =>
        /\ walk.repeated = {}
        /\ \A r \in walk.shown, q \in Fetched(walk.limit) \ walk.shown : ScoreOf(r) >= ScoreOf(q)
        /\ ~walk.more => walk.shown = Fetched(walk.limit)

\* Reviews that appear during a walk may push others onto the next page, but hide
\* none: a finished walk has shown every review that was there all the time, as long
\* as the window of fetched reviews was never full.
PublicationsHideNothing ==
    walk.page > 0 /\ ~walk.more /\ walk.changes \subseteq {"published"} /\ ~walk.full =>
        walk.stayed \subseteq walk.shown

\* Reviews that leave during a walk may let others slip past the reader, but none is
\* shown twice, as long as the window was never full: a full one lets an older review
\* in, which can rank high and push another back to a later page.
WithdrawalsRepeatNothing ==
    walk.changes \subseteq {"withdrawn"} /\ ~walk.full => walk.repeated = {}
==============================================================================
