------------------------------- MODULE Listing -------------------------------
(***************************************************************************)
(* A listing that pages in the database: the moderation queue (and, with   *)
(* the order turned round, the lists of reviews and of places).  One       *)
(* request is two queries that run side by side on two connections, the    *)
(* items with skip and take and the count; rows enter and leave the        *)
(* listing at any time.  A reader follows meta.hasNextPage.                *)
(***************************************************************************)
EXTENDS Pagination, FiniteSets

CONSTANTS
    Rows,       \* the rows that may match the listing's where clause
    SortKey,    \* SortKey[r]: created_at, negated where the newest come first
    MaxLimit,   \* the maxLimit the service passes to parsePagination
    Requested,  \* the values of "limit" readers send
    MaxChanges  \* bound: how many rows enter or leave during one walk

ASSUME ListingAssumption ==
    /\ IsFiniteSet(Rows)
    /\ SortKey \in [Rows -> Int]
    /\ MaxLimit \in Nat \ {0}
    /\ Requested \subseteq Nat \ {0}
    /\ MaxChanges \in Nat

VARIABLES
    matching,  \* the rows the where clause selects, such as the FLAGGED reviews
    request,   \* the request in flight
    walk       \* the reader: the last page answered and what the pages have shown

vars == <<matching, request, walk>>

\* items and total hold what the two queries have returned, once they have.
\* arrived and changed are history: rows that entered after the count and before the
\* items; rows that entered or left between the two.
Idle == [page |-> 0, limit |-> 1, items |-> {}, listed |-> FALSE, total |-> 0,
         counted |-> FALSE, arrived |-> 0, changed |-> 0]

RequestRecord == [page : Nat, limit : 1..MaxLimit, items : SUBSET Rows, listed : BOOLEAN,
                  total : Nat, counted : BOOLEAN, arrived : Nat, changed : Nat]

\* stayed: the rows there all the time; left, entered: how many left and entered;
\* arrived: that of the last request.
NewWalk == [page |-> 0, limit |-> 1, more |-> FALSE, shown |-> {}, repeated |-> {},
            stayed |-> matching, left |-> 0, entered |-> 0, arrived |-> 0]

WalkRecord == [page : Nat, limit : 1..MaxLimit, more : BOOLEAN, shown : SUBSET Rows,
               repeated : SUBSET Rows, stayed : SUBSET Rows, left : Nat, entered : Nat,
               arrived : Nat]

TypeOK ==
    /\ matching \subseteq Rows
    /\ request \in RequestRecord
    /\ walk \in WalkRecord

Init ==
    /\ matching \in SUBSET Rows
    /\ request = Idle
    /\ walk = NewWalk

------------------------------------------------------------------------------
(* The two queries of a request *)

\* The sets that may come first in the order: rows with one key have no order of their
\* own, and each query may put them as it likes.
Firsts(n) ==
    {P \in SUBSET matching :
        /\ Cardinality(P) = n \/ (Cardinality(matching) < n /\ P = matching)
        /\ \A p \in P, q \in matching \ P : SortKey[p] <= SortKey[q]}

\* Variation: take is one more than asked for.
PageTooLong(page, limit) ==
    {items \in SUBSET matching :
        \E P \in Firsts(offset(page, limit)), Q \in Firsts(offset(page, limit) + limit + 1) :
            P \subseteq Q /\ items = Q \ P}

\* What findMany may return for skip = offset and take = limit.
Page(page, limit) ==
    {items \in SUBSET matching :
        \E P \in Firsts(offset(page, limit)), Q \in Firsts(offset(page, limit) + limit) :
            P \subseteq Q /\ items = Q \ P}

Running == request.page > 0

FindMany ==
    /\ Running /\ ~request.listed
    /\ \E items \in Page(request.page, request.limit) :
           request' = [request EXCEPT !.items = items, !.listed = TRUE]
    /\ UNCHANGED <<matching, walk>>

\* Variation: the count has lost its where clause.
CountAll ==
    /\ Running /\ ~request.counted
    /\ request' = [request EXCEPT !.total = Cardinality(Rows), !.counted = TRUE]
    /\ UNCHANGED <<matching, walk>>

Count ==
    /\ Running /\ ~request.counted
    /\ request' = [request EXCEPT !.total = Cardinality(matching), !.counted = TRUE]
    /\ UNCHANGED <<matching, walk>>

------------------------------------------------------------------------------
(* The reader *)

\* The first page of a new walk.
OpenListing(requested) ==
    /\ ~Running
    /\ request' = [Idle EXCEPT !.page = 1, !.limit = parseLimit(requested, MaxLimit)]
    /\ walk' = NewWalk
    /\ UNCHANGED matching

\* The reader follows meta.hasNextPage.
NextPage ==
    /\ ~Running /\ walk.more
    /\ request' = [Idle EXCEPT !.page = walk.page + 1, !.limit = walk.limit]
    /\ UNCHANGED <<matching, walk>>

\* Promise.all has both results, and the page goes out with its meta.
Answer ==
    /\ request.listed /\ request.counted
    /\ walk' = [walk EXCEPT
           !.page = request.page,
           !.limit = request.limit,
           !.more = hasNextPage(request.page, request.total, request.limit),
           !.shown = @ \cup request.items,
           !.repeated = @ \cup (walk.shown \cap request.items),
           !.arrived = request.arrived]
    /\ request' = Idle
    /\ UNCHANGED matching

\* One of the queries fails and the answer is an error; the reader may ask again.
RequestFails ==
    /\ Running
    /\ request' = Idle
    /\ UNCHANGED <<matching, walk>>

------------------------------------------------------------------------------
(* What happens meanwhile *)

Changes == walk.left + walk.entered

\* A row comes to match: a verdict or a failed job flags a review, an answer publishes
\* one, a place is created.
Enter(r) ==
    /\ r \in Rows \ matching /\ Changes < MaxChanges
    /\ matching' = matching \cup {r}
    /\ walk' = [walk EXCEPT !.entered = @ + 1]
    /\ request' = [request EXCEPT
           !.arrived = IF request.counted /\ ~request.listed THEN @ + 1 ELSE @,
           !.changed = IF request.counted # request.listed THEN @ + 1 ELSE @]

\* A row stops matching: an administrator decides the review, a place is merged away.
Leave(r) ==
    /\ r \in matching /\ Changes < MaxChanges
    /\ matching' = matching \ {r}
    /\ walk' = [walk EXCEPT !.left = @ + 1, !.stayed = @ \ {r}]
    /\ request' = [request EXCEPT
           !.changed = IF request.counted # request.listed THEN @ + 1 ELSE @]

Next ==
    \/ \E requested \in Requested : OpenListing(requested)
    \/ NextPage
    \/ FindMany \/ Count
    \/ Answer \/ RequestFails
    \/ \E r \in Rows : Enter(r) \/ Leave(r)

Spec == Init /\ [][Next]_vars

------------------------------------------------------------------------------
(* Properties *)

\* The rows whose place in the order is their own.
Untied == {r \in Rows : \A q \in Rows \ {r} : SortKey[q] # SortKey[r]}

\* Finished: the reader was told that there is no further page.
Finished == walk.page > 0 /\ ~walk.more

\* Every row that leaves lets at most one other slip past the reader, and every row that
\* arrives between the count and the items of the last page hides at most one: a walk in
\* which n of the two happened misses at most n of the rows that stayed.  Rows that
\* share their time of creation are left out, as no order holds them in place.
MissedOnlyForDepartures ==
    Finished => Cardinality((walk.stayed \cap Untied) \ walk.shown) <= walk.left + walk.arrived

\* Every row that enters pushes at most one other back to a page still to be read: a walk
\* shows no more rows twice than entered during it.
RepeatedOnlyForArrivals ==
    Cardinality(walk.repeated \cap Untied) <= walk.entered

\* How many of n rows belong on a page.
Due(n, page, limit) ==
    LET rest == n - offset(page, limit)
    IN  IF rest < 0 THEN 0 ELSE IF rest > limit THEN limit ELSE rest

\* The items and the meta of an answer come from two queries: they disagree by no more
\* than what changed between the two.
MetaMatchesItems ==
    request.listed /\ request.counted =>
        LET due == Due(request.total, request.page, request.limit)
        IN  /\ Cardinality(request.items) <= due + request.changed
            /\ due <= Cardinality(request.items) + request.changed
==============================================================================
