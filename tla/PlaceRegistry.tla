---------------------------- MODULE PlaceRegistry ----------------------------
(***************************************************************************)
(* The places, how submissions find or create them, and how administrators *)
(* merge them.                                                             *)
(*                                                                         *)
(* findOrCreate searches, decides and inserts in separate turns, with      *)
(* other calls and merges in between; a review is attached to its place in *)
(* a later turn still.  A merge is a transaction of two statements at      *)
(* PostgreSQL's default READ COMMITTED: the first has a snapshot of its    *)
(* own, and reviews may come to the source between it and the second.      *)
(***************************************************************************)
EXTENDS Integers

CONSTANTS
    Places,     \* identities of place rows
    Reviews,    \* identities of review rows
    Names,      \* normalized "name city" strings
    Score,      \* Score[n][k]: pg_trgm similarity of two names, 0 across cities
    Threshold,  \* SIMILARITY_THRESHOLD, on Score's scale
    Calls,      \* API calls that resolve a place, at once
    Admins,     \* administrators merging at once
    NULL        \* no place

ASSUME ScoreAssumption ==
    /\ Score \in [Names -> [Names -> Nat]]
    /\ \A n, k \in Names : Score[n][k] = Score[k][n]
    /\ Threshold \in Nat
    /\ NULL \notin Places
    /\ NULL \notin Names

VARIABLES
    placeStatus,      \* places.status, "ABSENT" before the row exists
    name,             \* places.normalized_name with the city
    canonical,        \* places.canonical_place_id
    needsMergeReview, \* places.needs_merge_review
    reviewPlace,      \* reviews.place_id, NULL before the row exists
    call,             \* the calls in flight
    merging,          \* the merge calls, from their reads to the end of their transaction
    seen              \* history: the unmerged places the creator's search looked at

placeRows == <<placeStatus, name, canonical, needsMergeReview>>
vars == <<placeRows, reviewPlace, call, merging, seen>>

Idle == [step |-> "idle", name |-> NULL, place |-> NULL, seen |-> {}]
CallRecord == [step : {"idle", "matched", "creating", "attaching"},
               name : Names \cup {NULL}, place : Places \cup {NULL}, seen : SUBSET Places]
MergeRecord == [source : Places, target : Places, step : {"read", "moving", "moved"},
                rows : SUBSET Reviews,  \* what the first statement moves
                here : SUBSET Reviews]  \* history: at the source ever since the reads

TypeOK ==
    /\ placeStatus \in [Places -> {"ABSENT", "ACTIVE", "NEEDS_MERGE_REVIEW", "MERGED"}]
    /\ name \in [Places -> Names \cup {NULL}]
    /\ canonical \in [Places -> Places \cup {NULL}]
    /\ needsMergeReview \in [Places -> BOOLEAN]
    /\ reviewPlace \in [Reviews -> Places \cup {NULL}]
    /\ call \in [Calls -> CallRecord]
    /\ merging \in [Admins -> MergeRecord \cup {NULL}]
    /\ seen \in [Places -> SUBSET Places]

Init ==
    /\ placeStatus = [p \in Places |-> "ABSENT"]
    /\ name = [p \in Places |-> NULL]
    /\ canonical = [p \in Places |-> NULL]
    /\ needsMergeReview = [p \in Places |-> FALSE]
    /\ reviewPlace = [r \in Reviews |-> NULL]
    /\ call = [c \in Calls |-> Idle]
    /\ merging = [m \in Admins |-> NULL]
    /\ seen = [p \in Places |-> {}]

Existing == {p \in Places : placeStatus[p] # "ABSENT"}
Unmerged == {p \in Existing : placeStatus[p] # "MERGED"}

------------------------------------------------------------------------------
(* Resolving a place *)

\* Variation: a score equal to the threshold is not enough.
SimilarStrictly(n, k) == Score[n][k] > Threshold

Similar(n, k) == Score[n][k] >= Threshold

\* findSimilar: the unmerged places of the city whose name is similar enough.
FindSimilar(n) == {p \in Unmerged : Similar(name[p], n)}

\* The rows come best score first; among equals the database chooses.
Best(candidates, n) ==
    {p \in candidates : \A q \in candidates : Score[name[q]][n] <= Score[name[p]][n]}

\* findOrCreate up to the decision: a match to be reloaded, or a place to be created.
Search(c, n) ==
    /\ call[c] = Idle
    /\ LET candidates == FindSimilar(n) IN
          IF candidates # {}
          THEN \E p \in Best(candidates, n) :
                  call' = [call EXCEPT ![c] =
                              [Idle EXCEPT !.step = "matched", !.place = p]]
          ELSE call' = [call EXCEPT ![c] =
                              [step |-> "creating", name |-> n, place |-> NULL, seen |-> Unmerged]]
    /\ UNCHANGED <<placeRows, reviewPlace, merging, seen>>

\* A resolved call attaches a review, or ends there when it was POST /places.
Resolved(c, p) ==
    \/ call' = [call EXCEPT ![c] = [Idle EXCEPT !.step = "attaching", !.place = p]]
    \/ call' = [call EXCEPT ![c] = Idle]

\* findById of the match: rows are never deleted, and its status is not looked at again.
ReloadMatch(c) ==
    /\ call[c].step = "matched"
    /\ Resolved(c, call[c].place)
    /\ UNCHANGED <<placeRows, reviewPlace, merging, seen>>

\* The insert: flagged for merge review, with the column default ACTIVE as status.
CreatePlace(c, p) ==
    /\ call[c].step = "creating"
    /\ placeStatus[p] = "ABSENT"
    /\ placeStatus' = [placeStatus EXCEPT ![p] = "ACTIVE"]
    /\ name' = [name EXCEPT ![p] = call[c].name]
    /\ needsMergeReview' = [needsMergeReview EXCEPT ![p] = TRUE]
    /\ seen' = [seen EXCEPT ![p] = call[c].seen]
    /\ Resolved(c, p)
    /\ UNCHANGED <<canonical, reviewPlace, merging>>

\* A review for a given placeId: any existing place will do.
UseGivenPlace(c, p) ==
    /\ call[c] = Idle
    /\ p \in Existing
    /\ call' = [call EXCEPT ![c] = [Idle EXCEPT !.step = "attaching", !.place = p]]
    /\ UNCHANGED <<placeRows, reviewPlace, merging, seen>>

\* review.create with the resolved place's id.
AttachReview(c, r) ==
    /\ call[c].step = "attaching"
    /\ reviewPlace[r] = NULL
    /\ reviewPlace' = [reviewPlace EXCEPT ![r] = call[c].place]
    /\ call' = [call EXCEPT ![c] = Idle]
    /\ UNCHANGED <<placeRows, merging, seen>>

\* An awaited step rejects, or the process stops: the call is gone.
CallEnds(c) ==
    /\ call[c] # Idle
    /\ call' = [call EXCEPT ![c] = Idle]
    /\ UNCHANGED <<placeRows, reviewPlace, merging, seen>>

------------------------------------------------------------------------------
(* Merging *)

ReviewsAt(p) == {r \in Reviews : reviewPlace[r] = p}

Asked(s, t) ==
    [source |-> s, target |-> t, step |-> "read", rows |-> {}, here |-> ReviewsAt(s)]

\* Variation: the comparison of the two ids is missing.
ReadForMergeUnchecked(m, s, t) ==
    /\ merging[m] = NULL
    /\ s \in Existing /\ t \in Existing
    /\ merging' = [merging EXCEPT ![m] = Asked(s, t)]
    /\ UNCHANGED <<placeRows, reviewPlace, call, seen>>

\* Variation: the target's row is not checked.
ReadForMergeAnyTarget(m, s, t) ==
    /\ merging[m] = NULL
    /\ s # t
    /\ s \in Existing
    /\ merging' = [merging EXCEPT ![m] = Asked(s, IF t \in Existing THEN t ELSE NULL)]
    /\ UNCHANGED <<placeRows, reviewPlace, call, seen>>

\* The service's checks: two different places that exist, whatever their status.
ReadForMerge(m, s, t) ==
    /\ merging[m] = NULL
    /\ s # t
    /\ s \in Existing /\ t \in Existing
    /\ merging' = [merging EXCEPT ![m] = Asked(s, t)]
    /\ UNCHANGED <<placeRows, reviewPlace, call, seen>>

InStep(m, step) == merging[m] # NULL /\ merging[m].step = step

\* Variation: the where clause names the target.
UpdateStartsSwapped(m) ==
    /\ InStep(m, "read")
    /\ merging' = [merging EXCEPT ![m] =
                      [@ EXCEPT !.step = "moving", !.rows = ReviewsAt(merging[m].target)]]
    /\ UNCHANGED <<placeRows, reviewPlace, call, seen>>

\* The first statement starts: its snapshot holds the reviews at the source by now.
UpdateStarts(m) ==
    /\ InStep(m, "read")
    /\ merging' = [merging EXCEPT ![m] =
                      [@ EXCEPT !.step = "moving", !.rows = ReviewsAt(merging[m].source)]]
    /\ UNCHANGED <<placeRows, reviewPlace, call, seen>>

\* The rows another merge has written and not yet committed are waited for.
RowsFree(m) ==
    \A o \in Admins \ {m} : InStep(o, "moved") => merging[o].rows \cap merging[m].rows = {}

\* Variation: the reviews are updated by ids read before, whatever place they are at now.
UpdateEndsByIds(m) ==
    /\ InStep(m, "moving")
    /\ RowsFree(m)
    /\ merging' = [merging EXCEPT ![m] = [@ EXCEPT !.step = "moved"]]
    /\ UNCHANGED <<placeRows, reviewPlace, call, seen>>

\* It ends with its rows locked.  The where clause is evaluated again for a row that had
\* to be waited for: one that another merge took away is left out, and one that came to
\* the source after the snapshot was never in.
UpdateEnds(m) ==
    /\ InStep(m, "moving")
    /\ RowsFree(m)
    /\ merging' = [merging EXCEPT ![m] =
        [merging[m] EXCEPT !.step = "moved",
                           !.rows = merging[m].rows \cap ReviewsAt(merging[m].source)]]
    /\ UNCHANGED <<placeRows, reviewPlace, call, seen>>

\* The second statement and the commit: the rows move, the source points at the target.
MergePlaces(m) ==
    /\ InStep(m, "moved")
    /\ LET s == merging[m].source
           t == merging[m].target
           moved == merging[m].rows IN
          /\ reviewPlace' = [r \in Reviews |-> IF r \in moved THEN t ELSE reviewPlace[r]]
          /\ placeStatus' = [placeStatus EXCEPT ![s] = "MERGED"]
          /\ canonical' = [canonical EXCEPT ![s] = t]
          /\ merging' = [o \in Admins |->
                IF o = m \/ merging[o] = NULL THEN NULL
                ELSE [merging[o] EXCEPT !.here = @ \ moved]]
    /\ UNCHANGED <<name, needsMergeReview, call, seen>>

\* A read, a statement or the commit rejects, or the process stops: nothing is written.
MergeEnds(m) ==
    /\ merging[m] # NULL
    /\ merging' = [merging EXCEPT ![m] = NULL]
    /\ UNCHANGED <<placeRows, reviewPlace, call, seen>>

CallStep(c) ==
    \/ \E n \in Names : Search(c, n)
    \/ ReloadMatch(c)
    \/ \E p \in Places : CreatePlace(c, p) \/ UseGivenPlace(c, p)
    \/ \E r \in Reviews : AttachReview(c, r)
    \/ CallEnds(c)

MergeStep(m) ==
    \/ \E s, t \in Places : ReadForMerge(m, s, t)
    \/ UpdateStarts(m) \/ UpdateEnds(m)
    \/ MergePlaces(m)
    \/ MergeEnds(m)

Next ==
    \/ \E c \in Calls : CallStep(c)
    \/ \E m \in Admins : MergeStep(m)

Spec == Init /\ [][Next]_vars

------------------------------------------------------------------------------
(* Properties *)

\* Merges keep the books: exactly the merged places point at another place, which
\* exists, and every review is at a place that exists, whatever merges run into each
\* other between their reads and their transactions.
MergeBookkeeping ==
    /\ \A p \in Places : (canonical[p] # NULL) <=> (placeStatus[p] = "MERGED")
    /\ \A p \in Places : canonical[p] # NULL => canonical[p] # p /\ canonical[p] \in Existing
    /\ \A r \in Reviews : reviewPlace[r] # NULL => reviewPlace[r] \in Existing

\* A review changes its place only when a merge of the place it is at commits, and then
\* to that place's canonical one.
MovesWithMerge(r) ==
    reviewPlace[r] # NULL /\ reviewPlace'[r] # reviewPlace[r] =>
        LET p == reviewPlace[r] IN
        /\ placeStatus'[p] = "MERGED"
        /\ canonical'[p] = reviewPlace'[r]

\* A merge that commits takes along the reviews that were at the source all the time
\* since the administrator's call looked at it.
TakesAlong(m) ==
    MergePlaces(m) => \A r \in merging[m].here : reviewPlace'[r] = merging[m].target

\* However merges wait for each other's rows and take reviews from under each other.
ReviewsMoveWithMerges ==
    [][(\A r \in Reviews : MovesWithMerge(r)) /\ (\A m \in Admins : TakesAlong(m))]_vars

\* A review that neither the feed nor the listing of its place shows.
Stranded(r) == reviewPlace[r] # NULL /\ placeStatus[reviewPlace[r]] = "MERGED"

\* A review comes to be at a merged place in two ways only: it is put, by its submission
\* or by a merge, at a place that was merged before (neither looks at the status of the
\* place whose id it was given), or it came to the place of a merge after that merge was
\* asked for, possibly too late for the snapshot of the transaction's first statement.
StrandedByRaces ==
    [][\A r \in Reviews : Stranded(r)' /\ ~Stranded(r) =>
          \/ reviewPlace'[r] # reviewPlace[r] /\ placeStatus[reviewPlace'[r]] = "MERGED"
          \/ \E m \in Admins : /\ MergePlaces(m)
                               /\ merging[m].source = reviewPlace[r]
                               /\ r \notin merging[m].here]_vars

\* Two unmerged places with similar names come only from calls that overlapped: the
\* search of neither creator saw the other place.
DuplicatesComeFromRaces ==
    \A p, q \in Unmerged : p # q /\ Score[name[p]][name[q]] >= Threshold =>
        p \notin seen[q] /\ q \notin seen[p]

\* "All reviews from source place reassigned to canonical place", README.md:694: no
\* review stays at a merged place, which neither the feed nor the listing shows.
NoReviewAtMergedPlace ==
    \A r \in Reviews : reviewPlace[r] # NULL => placeStatus[reviewPlace[r]] # "MERGED"
==============================================================================
