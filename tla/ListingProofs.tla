---------------------------- MODULE ListingProofs ----------------------------
(***************************************************************************)
(* Machine-checked proofs about a walk through a listing that pages in the *)
(* database, for any rows, any keys and any number of changes.             *)
(***************************************************************************)
EXTENDS Listing, FiniteSetTheorems, TLAPS

------------------------------------------------------------------------------
(* Counting *)

LEMMA Finite ==
    ASSUME NEW S \in SUBSET Rows
    PROVE  IsFiniteSet(S) /\ Cardinality(S) \in Nat
BY ListingAssumption, FS_Subset, FS_CardinalityType

LEMMA Fewer ==
    ASSUME NEW T \in SUBSET Rows, NEW S \in SUBSET T
    PROVE  Cardinality(S) <= Cardinality(T)
BY Finite, FS_Subset

\* A set grows by at most one when all its new members are one.
LEMMA OneMore ==
    ASSUME NEW S \in SUBSET Rows, NEW T \in SUBSET Rows,
           \A q, r \in T \ S : q = r
    PROVE  Cardinality(T) <= Cardinality(S) + 1
<1>1. CASE T \subseteq S
  BY <1>1, Finite, Fewer
<1>2. CASE ~(T \subseteq S)
  <2>1. PICK e \in T : e \notin S
    BY <1>2
  <2>2. T \subseteq S \cup {e} /\ S \cup {e} \in SUBSET Rows
    BY <2>1
  <2>3. Cardinality(S \cup {e}) = Cardinality(S) + 1
    BY <2>1, Finite, FS_AddElement
  <2> QED
    BY <2>2, <2>3, Fewer
<1> QED
  BY <1>1, <1>2

LEMMA AtMostTheSum ==
    ASSUME NEW S \in SUBSET Rows, NEW T \in SUBSET Rows
    PROVE  Cardinality(S \cup T) <= Cardinality(S) + Cardinality(T)
<1>1. /\ IsFiniteSet(S) /\ Cardinality(S) \in Nat /\ IsFiniteSet(T) /\ Cardinality(T) \in Nat
      /\ Cardinality(S \cap T) \in Nat
  BY Finite
<1>2. Cardinality(S \cup T) = Cardinality(S) + Cardinality(T) - Cardinality(S \cap T)
  BY <1>1, FS_Union
<1> QED
  BY <1>1, <1>2

LEMMA Difference ==
    ASSUME NEW T \in SUBSET Rows, NEW S \in SUBSET T
    PROVE  Cardinality(T \ S) = Cardinality(T) - Cardinality(S)
<1>1. IsFiniteSet(S) /\ IsFiniteSet(T \ S)
      /\ Cardinality(S) \in Nat /\ Cardinality(T \ S) \in Nat
  BY Finite
<1>2. S \cup (T \ S) = T /\ S \cap (T \ S) = {}
  OBVIOUS
<1> QED
  BY <1>1, <1>2, FS_Union, FS_EmptySet

------------------------------------------------------------------------------
(* The position of a row among the rows S *)

Ahead(S, r) == {q \in S : SortKey[q] < SortKey[r]}

Pos(S, r) == Cardinality(Ahead(S, r))

LEMMA PosType ==
    ASSUME NEW S \in SUBSET Rows, NEW r \in Rows
    PROVE  Pos(S, r) \in Nat /\ Ahead(S, r) \in SUBSET S
BY Finite DEF Pos, Ahead

\* A member of S stands before all the rows whose keys are greater.
LEMMA PosGrows ==
    ASSUME NEW S \in SUBSET Rows, NEW q \in S, NEW r \in Rows, SortKey[q] < SortKey[r]
    PROVE  Pos(S, q) < Pos(S, r)
<1>1. /\ Ahead(S, q) \cup {q} \in SUBSET Ahead(S, r) /\ q \notin Ahead(S, q)
      /\ Ahead(S, r) \in SUBSET Rows /\ Ahead(S, q) \in SUBSET Rows
  BY ListingAssumption DEF Ahead
<1>2. Cardinality(Ahead(S, q) \cup {q}) = Cardinality(Ahead(S, q)) + 1
  BY <1>1, Finite, FS_AddElement
<1>3. Cardinality(Ahead(S, q) \cup {q}) <= Cardinality(Ahead(S, r))
  BY <1>1, Fewer
<1> QED
  BY <1>1, <1>2, <1>3, Finite DEF Pos

\* No two rows of S, one of them untied, share a position.
LEMMA PosDistinct ==
    ASSUME NEW S \in SUBSET Rows, NEW q \in S, NEW r \in S \cap Untied, Pos(S, q) = Pos(S, r)
    PROVE  q = r
<1> SUFFICES ASSUME q # r PROVE FALSE
  OBVIOUS
<1>1. SortKey[q] < SortKey[r] \/ SortKey[r] < SortKey[q]
  BY ListingAssumption DEF Untied
<1>2. Pos(S, q) < Pos(S, r) \/ Pos(S, r) < Pos(S, q)
  BY <1>1, PosGrows
<1> QED
  BY <1>2, PosType

LEMMA PosBelowSize ==
    ASSUME NEW S \in SUBSET Rows, NEW r \in S
    PROVE  Pos(S, r) < Cardinality(S)
<1>1. /\ Ahead(S, r) \cup {r} \in SUBSET S /\ r \notin Ahead(S, r)
      /\ Ahead(S, r) \in SUBSET Rows
  BY ListingAssumption DEF Ahead
<1>2. Cardinality(Ahead(S, r) \cup {r}) = Cardinality(Ahead(S, r)) + 1
  BY <1>1, Finite, FS_AddElement
<1> QED
  BY <1>1, <1>2, Finite, Fewer DEF Pos

\* A row that joins S moves those behind it back by one and no other.
LEMMA PosShifts ==
    ASSUME NEW S \in SUBSET Rows, NEW x \in Rows \ S, NEW r \in Rows
    PROVE  Pos(S \cup {x}, r) = Pos(S, r) + (IF SortKey[x] < SortKey[r] THEN 1 ELSE 0)
<1>1. Ahead(S, r) \in SUBSET Rows /\ x \notin Ahead(S, r)
  BY DEF Ahead
<1>2. CASE SortKey[x] < SortKey[r]
  <2>1. Ahead(S \cup {x}, r) = Ahead(S, r) \cup {x}
    BY <1>2 DEF Ahead
  <2> QED
    BY <1>1, <1>2, <2>1, Finite, FS_AddElement DEF Pos
<1>3. CASE ~(SortKey[x] < SortKey[r])
  <2>1. Ahead(S \cup {x}, r) = Ahead(S, r)
    BY <1>3 DEF Ahead
  <2> QED
    BY <1>1, <1>3, <2>1, Finite DEF Pos
<1> QED
  BY <1>2, <1>3

------------------------------------------------------------------------------
(* What a query returns *)

\* An untied row is among the first n exactly if fewer than n rows stand before it.
LEMMA FirstsFacts ==
    ASSUME matching \subseteq Rows, NEW n \in Nat, NEW F \in Firsts(n)
    PROVE  /\ F \in SUBSET matching
           /\ Cardinality(F) = IF Cardinality(matching) < n THEN Cardinality(matching) ELSE n
           /\ \A r \in matching \cap Untied : r \in F <=> Pos(matching, r) < n
<1>1. /\ F \in SUBSET matching
      /\ Cardinality(F) = n \/ (Cardinality(matching) < n /\ F = matching)
      /\ \A p \in F, q \in matching \ F : SortKey[p] <= SortKey[q]
  BY DEF Firsts
<1>2. /\ F \in SUBSET Rows /\ Cardinality(F) \in Nat /\ Cardinality(matching) \in Nat
      /\ Cardinality(F) <= Cardinality(matching)
  BY <1>1, Finite, Fewer
<1>3. Cardinality(F) = IF Cardinality(matching) < n THEN Cardinality(matching) ELSE n
  BY <1>1, <1>2
<1>4. ASSUME NEW r \in matching \cap Untied PROVE r \in F <=> Pos(matching, r) < n
  <2>1. ASSUME r \in F PROVE Pos(matching, r) < n
    <3>1. Ahead(matching, r) \in SUBSET F
      BY <1>1, <2>1, ListingAssumption DEF Ahead
    <3>2. Pos(F, r) = Pos(matching, r)
      <4>1. Ahead(F, r) = Ahead(matching, r)
        BY <3>1, <1>1 DEF Ahead
      <4> QED
        BY <4>1 DEF Pos
    <3>3. Pos(F, r) < Cardinality(F)
      BY <1>2, <2>1, PosBelowSize
    <3> QED
      BY <1>2, <1>3, <3>2, <3>3, PosType
  <2>2. ASSUME r \notin F PROVE ~(Pos(matching, r) < n)
    <3>1. F \in SUBSET Ahead(matching, r)
      <4> SUFFICES ASSUME NEW p \in F PROVE SortKey[p] < SortKey[r]
        BY <1>1 DEF Ahead
      <4>1. SortKey[p] <= SortKey[r]
        BY <1>1, <2>2
      <4>2. SortKey[p] # SortKey[r]
        BY <1>1, <2>2 DEF Untied
      <4> QED
        BY <1>1, <4>1, <4>2, ListingAssumption
    <3>2. Cardinality(F) = n
      BY <1>1, <2>2
    <3>3. Ahead(matching, r) \in SUBSET Rows
      BY DEF Ahead
    <3>4. Cardinality(F) <= Pos(matching, r)
      BY <3>1, <3>3, Fewer DEF Pos
    <3> QED
      BY <3>2, <3>4, PosType
  <2> QED
    BY <2>1, <2>2
<1> QED
  BY <1>1, <1>3, <1>4

\* The rows from position n on.
Behind(n) == {r \in matching \cap Untied : Pos(matching, r) >= n}

\* A page holds the untied rows of its positions, no more rows than are due, and there
\* are no more rows behind it than the listing is longer.
LEMMA PageFacts ==
    ASSUME matching \subseteq Rows, NEW page \in Nat \ {0}, NEW limit \in Nat \ {0},
           NEW items \in Page(page, limit)
    PROVE  /\ items \in SUBSET matching
           /\ \A r \in matching \cap Untied :
                  r \in items <=> /\ offset(page, limit) <= Pos(matching, r)
                                  /\ Pos(matching, r) < offset(page, limit) + limit
           /\ Cardinality(items) = Due(Cardinality(matching), page, limit)
           /\ \A n \in Nat : Cardinality(matching) <= offset(page, limit) + limit + n =>
                  Cardinality(Behind(offset(page, limit) + limit)) <= n
<1> DEFINE off == offset(page, limit)
<1>1. off \in Nat /\ off + limit \in Nat
  <2>1. page - 1 \in Nat
    OBVIOUS
  <2> QED
    BY <2>1 DEF offset
<1>2. PICK P \in Firsts(off), Q \in Firsts(off + limit) : P \subseteq Q /\ items = Q \ P
  BY DEF Page
<1> HIDE DEF off
<1>3. /\ P \in SUBSET matching /\ Q \in SUBSET matching
      /\ \A r \in matching \cap Untied : r \in P <=> Pos(matching, r) < off
      /\ \A r \in matching \cap Untied : r \in Q <=> Pos(matching, r) < off + limit
      /\ Cardinality(P) = IF Cardinality(matching) < off THEN Cardinality(matching) ELSE off
      /\ Cardinality(Q) = IF Cardinality(matching) < off + limit THEN Cardinality(matching)
                          ELSE off + limit
  BY <1>1, <1>2, FirstsFacts
<1>4. \A r \in matching : Pos(matching, r) \in Nat
  BY PosType
<1>5. \A r \in matching \cap Untied :
          r \in items <=> off <= Pos(matching, r) /\ Pos(matching, r) < off + limit
  BY <1>1, <1>2, <1>3, <1>4
<1>6. Cardinality(matching) \in Nat
  BY Finite
<1>7. Cardinality(items) = Due(Cardinality(matching), page, limit)
  <2>1. Cardinality(items) = Cardinality(Q) - Cardinality(P)
    BY <1>2, <1>3, Difference
  <2> QED
    BY <2>1, <1>1, <1>3, <1>6 DEF Due, off
<1>8. ASSUME NEW n \in Nat, Cardinality(matching) <= off + limit + n
      PROVE  Cardinality(Behind(off + limit)) <= n
  <2>1. Behind(off + limit) \in SUBSET (matching \ Q)
    BY <1>1, <1>3, <1>4 DEF Behind
  <2>2. Cardinality(matching \ Q) = Cardinality(matching) - Cardinality(Q)
    BY <1>3, Difference
  <2>3. Cardinality(Behind(off + limit)) <= Cardinality(matching \ Q)
    BY <2>1, Fewer
  <2>4. Behind(off + limit) \in SUBSET Rows
    BY DEF Behind
  <2> QED
    BY <1>1, <1>3, <1>6, <1>8, <2>2, <2>3, <2>4, Finite
<1> QED
  BY <1>2, <1>3, <1>5, <1>7, <1>8 DEF off

------------------------------------------------------------------------------
(* Rows that slipped past, rows shown again *)

\* The untied rows of "stay" that stand before position n and were not seen.
Missed(S, stay, seen, n) == {r \in (stay \cap Untied) \ seen : Pos(S, r) < n}

\* The untied rows that were repeated, or will be if nothing moves them forward again.
Again(S, rep, seen, n) ==
    {r \in Untied : r \in rep \/ (r \in seen \cap S /\ Pos(S, r) >= n)}

LEMMA UntiedRows == Untied \in SUBSET Rows
BY DEF Untied

LEMMA MissedWhenLeaving ==
    ASSUME NEW S \in SUBSET Rows, NEW stay \in SUBSET S, NEW x \in S, NEW seen, NEW n \in Nat
    PROVE  Cardinality(Missed(S \ {x}, stay \ {x}, seen, n))
              <= Cardinality(Missed(S, stay, seen, n)) + 1
<1> DEFINE T == S \ {x}
           M == Missed(S, stay, seen, n)
           N == Missed(T, stay \ {x}, seen, n)
<1>1. T \in SUBSET Rows /\ x \in Rows \ T /\ T \cup {x} = S
  OBVIOUS
<1>2. M \in SUBSET Rows /\ N \in SUBSET Rows
  BY UntiedRows DEF Missed
<1>3. ASSUME NEW r \in N \ M PROVE r \in T \cap Untied /\ Pos(T, r) = n - 1
  <2>1. r \in T \cap Untied /\ r \in (stay \cap Untied) \ seen /\ Pos(T, r) < n /\ ~(Pos(S, r) < n)
    BY <1>3 DEF Missed
  <2>2. Pos(S, r) = Pos(T, r) + (IF SortKey[x] < SortKey[r] THEN 1 ELSE 0)
    BY <1>1, <2>1, PosShifts
  <2>3. Pos(S, r) \in Nat /\ Pos(T, r) \in Nat
    BY <1>1, <2>1, PosType
  <2> QED
    BY <2>1, <2>2, <2>3
<1>4. \A q, r \in N \ M : q = r
  BY <1>1, <1>3, PosDistinct
<1> QED
  BY <1>2, <1>4, OneMore

LEMMA MissedWhenEntering ==
    ASSUME NEW S \in SUBSET Rows, NEW stay \in SUBSET S, NEW x \in Rows \ S, NEW seen,
           NEW n \in Nat
    PROVE  Cardinality(Missed(S \cup {x}, stay, seen, n)) <= Cardinality(Missed(S, stay, seen, n))
<1>1. ASSUME NEW r \in stay, Pos(S \cup {x}, r) < n PROVE Pos(S, r) < n
  <2>1. r \in Rows /\ S \cup {x} \in SUBSET Rows
    OBVIOUS
  <2>2. Pos(S \cup {x}, r) = Pos(S, r) + (IF SortKey[x] < SortKey[r] THEN 1 ELSE 0)
    BY <2>1, PosShifts
  <2>3. Pos(S, r) \in Nat
    BY <2>1, PosType
  <2> QED
    BY <1>1, <2>2, <2>3
<1>2. /\ Missed(S \cup {x}, stay, seen, n) \in SUBSET Missed(S, stay, seen, n)
      /\ Missed(S, stay, seen, n) \in SUBSET Rows
  BY <1>1, UntiedRows DEF Missed
<1> QED
  BY <1>2, Fewer

\* Of the row that enters and the rows it pushes across a boundary only one is new.
LEMMA AgainWhenEntering ==
    ASSUME NEW S \in SUBSET Rows, NEW x \in Rows \ S, NEW rep, NEW seen, NEW n \in Nat
    PROVE  Cardinality(Again(S \cup {x}, rep, seen, n))
              <= Cardinality(Again(S, rep, seen, n)) + 1
<1> DEFINE T == S \cup {x}
           M == Again(S, rep, seen, n)
           N == Again(T, rep, seen, n)
<1>1. T \in SUBSET Rows /\ x \in T
  OBVIOUS
<1>2. M \in SUBSET Rows /\ N \in SUBSET Rows
  BY UntiedRows DEF Again
<1>3. ASSUME NEW r \in N \ M
      PROVE  /\ r \in T \cap Untied
             /\ Pos(T, r) >= n
             /\ r # x => Pos(T, r) = n /\ SortKey[x] < SortKey[r]
  <2>1. r \in T \cap Untied /\ Pos(T, r) >= n /\ (r \in S => ~(Pos(S, r) >= n))
    BY <1>3 DEF Again
  <2>2. Pos(T, r) = Pos(S, r) + (IF SortKey[x] < SortKey[r] THEN 1 ELSE 0)
    BY <1>1, <2>1, PosShifts
  <2>3. Pos(S, r) \in Nat /\ Pos(T, r) \in Nat
    BY <1>1, <2>1, PosType
  <2> QED
    BY <2>1, <2>2, <2>3
<1>4. ASSUME NEW q \in N \ M, NEW r \in N \ M PROVE q = r
  <2>0. Pos(T, q) \in Nat /\ Pos(T, r) \in Nat /\ q \in T \cap Untied /\ r \in T \cap Untied
    BY <1>1, <1>3, PosType
  <2>1. CASE q # x /\ r # x
    BY <2>0, <2>1, <1>1, <1>3, PosDistinct
  <2>2. CASE q = x /\ r # x
    <3>1. Pos(T, q) < Pos(T, r)
      BY <2>0, <2>2, <1>1, <1>3, PosGrows
    <3> QED
      BY <2>0, <2>2, <3>1, <1>3
  <2>3. CASE q # x /\ r = x
    <3>1. Pos(T, r) < Pos(T, q)
      BY <2>0, <2>3, <1>1, <1>3, PosGrows
    <3> QED
      BY <2>0, <2>3, <3>1, <1>3
  <2> QED
    BY <2>1, <2>2, <2>3
<1> QED
  BY <1>2, <1>4, OneMore

LEMMA AgainWhenLeaving ==
    ASSUME NEW S \in SUBSET Rows, NEW x \in S, NEW rep, NEW seen, NEW n \in Nat
    PROVE  Cardinality(Again(S \ {x}, rep, seen, n)) <= Cardinality(Again(S, rep, seen, n))
<1> DEFINE T == S \ {x}
<1>1. T \in SUBSET Rows /\ x \in Rows \ T /\ T \cup {x} = S
  OBVIOUS
<1>2. ASSUME NEW r \in T, Pos(T, r) >= n PROVE Pos(S, r) >= n
  <2>1. Pos(S, r) = Pos(T, r) + (IF SortKey[x] < SortKey[r] THEN 1 ELSE 0)
    BY <1>1, PosShifts
  <2>2. Pos(S, r) \in Nat /\ Pos(T, r) \in Nat
    BY <1>1, PosType
  <2> QED
    BY <1>2, <2>1, <2>2
<1>3. /\ Again(T, rep, seen, n) \in SUBSET Again(S, rep, seen, n)
      /\ Again(S, rep, seen, n) \in SUBSET Rows
  BY <1>2, UntiedRows DEF Again
<1> QED
  BY <1>3, Fewer

------------------------------------------------------------------------------
(* Types *)

\* A request in flight asks for the page after the last one answered, of the same size.
RequestFollows ==
    /\ Running => /\ request.page = walk.page + 1
                  /\ walk.page = 0 \/ request.limit = walk.limit
    /\ request.listed \/ request.counted => Running

Base == TypeOK /\ walk.stayed \subseteq matching /\ RequestFollows

LEMMA LimitType ==
    ASSUME NEW requested \in Requested
    PROVE  parseLimit(requested, MaxLimit) \in 1..MaxLimit
BY ListingAssumption DEF parseLimit

LEMMA IdleType == Idle \in RequestRecord
BY ListingAssumption DEF Idle, RequestRecord

LEMMA NewWalkType == matching \subseteq Rows => NewWalk \in WalkRecord
BY ListingAssumption DEF NewWalk, WalkRecord

LEMMA InitBase == Init => Base
BY IdleType, NewWalkType DEF Init, Base, TypeOK, RequestFollows, Running, Idle, NewWalk

\* What a change of the listing leaves as it is in the records, and what it adds.
LEMMA EnterEffect ==
    ASSUME TypeOK, NEW x \in Rows, Enter(x)
    PROVE  /\ request' \in RequestRecord /\ walk' \in WalkRecord
           /\ request'.page = request.page /\ request'.limit = request.limit
           /\ request'.items = request.items /\ request'.total = request.total
           /\ request'.listed = request.listed /\ request'.counted = request.counted
           /\ request'.arrived = request.arrived
                  + (IF request.counted /\ ~request.listed THEN 1 ELSE 0)
           /\ request'.changed = request.changed
                  + (IF request.counted # request.listed THEN 1 ELSE 0)
           /\ walk'.page = walk.page /\ walk'.limit = walk.limit /\ walk'.more = walk.more
           /\ walk'.shown = walk.shown /\ walk'.repeated = walk.repeated
           /\ walk'.stayed = walk.stayed /\ walk'.left = walk.left
           /\ walk'.entered = walk.entered + 1 /\ walk'.arrived = walk.arrived
<1> DEFINE a == IF request.counted /\ ~request.listed THEN request.arrived + 1 ELSE request.arrived
           c == IF request.counted # request.listed THEN request.changed + 1 ELSE request.changed
<1>1. /\ a \in Nat /\ a = request.arrived
             + (IF request.counted /\ ~request.listed THEN 1 ELSE 0)
      /\ c \in Nat /\ c = request.changed
             + (IF request.counted # request.listed THEN 1 ELSE 0)
  BY DEF TypeOK, RequestRecord
<1>2. request' = [request EXCEPT !.arrived = a, !.changed = c]
  BY DEF Enter
<1>3. walk' = [walk EXCEPT !.entered = walk.entered + 1] /\ walk.entered + 1 \in Nat
  BY DEF Enter, TypeOK, WalkRecord
<1> HIDE DEF a, c
<1>4. request' \in RequestRecord /\ walk' \in WalkRecord
  BY <1>1, <1>2, <1>3 DEF TypeOK, RequestRecord, WalkRecord
<1> QED
  BY <1>1, <1>2, <1>3, <1>4 DEF TypeOK, RequestRecord, WalkRecord

LEMMA LeaveEffect ==
    ASSUME TypeOK, NEW x \in Rows, Leave(x)
    PROVE  /\ request' \in RequestRecord /\ walk' \in WalkRecord
           /\ request'.page = request.page /\ request'.limit = request.limit
           /\ request'.items = request.items /\ request'.total = request.total
           /\ request'.listed = request.listed /\ request'.counted = request.counted
           /\ request'.arrived = request.arrived
           /\ request'.changed = request.changed
                  + (IF request.counted # request.listed THEN 1 ELSE 0)
           /\ walk'.page = walk.page /\ walk'.limit = walk.limit /\ walk'.more = walk.more
           /\ walk'.shown = walk.shown /\ walk'.repeated = walk.repeated
           /\ walk'.stayed = walk.stayed \ {x} /\ walk'.left = walk.left + 1
           /\ walk'.entered = walk.entered /\ walk'.arrived = walk.arrived
<1> DEFINE c == IF request.counted # request.listed THEN request.changed + 1 ELSE request.changed
           s == walk.stayed \ {x}
<1>1. c \in Nat /\ c = request.changed + (IF request.counted # request.listed THEN 1 ELSE 0)
  BY DEF TypeOK, RequestRecord
<1>2. request' = [request EXCEPT !.changed = c]
  BY DEF Leave
<1>3. /\ walk' = [walk EXCEPT !.left = walk.left + 1, !.stayed = s]
      /\ walk.left + 1 \in Nat /\ s \in SUBSET Rows
  BY DEF Leave, TypeOK, WalkRecord
<1> HIDE DEF c, s
<1>4. request' \in RequestRecord /\ walk' \in WalkRecord
  BY <1>1, <1>2, <1>3 DEF TypeOK, RequestRecord, WalkRecord
<1>5. walk'.stayed = s /\ walk'.left = walk.left + 1
  BY <1>3 DEF TypeOK, WalkRecord
<1> QED
  BY <1>1, <1>2, <1>3, <1>4, <1>5 DEF TypeOK, RequestRecord, WalkRecord, s

LEMMA BaseStep == Base /\ [Next]_vars => Base'
<1> SUFFICES ASSUME Base, [Next]_vars PROVE Base'
  OBVIOUS
<1> USE DEF Base, TypeOK
<1>1. ASSUME NEW requested \in Requested, OpenListing(requested) PROVE Base'
  <2>1. [Idle EXCEPT !.page = 1, !.limit = parseLimit(requested, MaxLimit)] \in RequestRecord
    BY IdleType, LimitType DEF RequestRecord
  <2> QED
    BY <1>1, <2>1, NewWalkType DEF OpenListing, RequestFollows, Running, Idle, NewWalk
<1>2. CASE NextPage
  <2>0. walk.page + 1 \in Nat /\ walk.limit \in 1..MaxLimit
    BY DEF WalkRecord
  <2>1. [Idle EXCEPT !.page = walk.page + 1, !.limit = walk.limit] \in RequestRecord
    BY <2>0, IdleType DEF RequestRecord
  <2> QED
    BY <1>2, <2>1 DEF NextPage, RequestFollows, Running, Idle, WalkRecord
<1>3. CASE FindMany
  <2>1. PICK items \in SUBSET matching :
            request' = [request EXCEPT !.items = items, !.listed = TRUE]
    BY <1>3 DEF FindMany, Page
  <2> QED
    BY <1>3, <2>1 DEF FindMany, RequestFollows, Running, RequestRecord
<1>4. CASE Count
  <2>1. Cardinality(matching) \in Nat
    BY Finite
  <2> QED
    BY <1>4, <2>1 DEF Count, RequestFollows, Running, RequestRecord
<1>5. CASE Answer
  <2>1. hasNextPage(request.page, request.total, request.limit) \in BOOLEAN
    BY DEF hasNextPage
  <2>2. walk' \in WalkRecord /\ walk'.stayed = walk.stayed
    BY <1>5, <2>1 DEF Answer, WalkRecord, RequestRecord
  <2> QED
    BY <1>5, <2>2, IdleType DEF Answer, RequestFollows, Running, Idle
<1>6. CASE RequestFails
  BY <1>6, IdleType DEF RequestFails, RequestFollows, Running, Idle
<1>7. ASSUME NEW r \in Rows, Enter(r) PROVE Base'
  BY <1>7, EnterEffect DEF Enter, RequestFollows, Running
<1>8. ASSUME NEW r \in Rows, Leave(r) PROVE Base'
  BY <1>8, LeaveEffect DEF Leave, RequestFollows, Running
<1>9. CASE UNCHANGED vars
  BY <1>9 DEF vars, RequestFollows, Running
<1> QED
  BY <1>1, <1>2, <1>3, <1>4, <1>5, <1>6, <1>7, <1>8, <1>9 DEF Next

\* Every reachable state of a walk through a listing is well typed.
THEOREM ListingTypeCorrect == Spec => []TypeOK
<1>1. Base => TypeOK
  BY DEF Base
<1> QED
  BY <1>1, InitBase, BaseStep, PTL DEF Spec

------------------------------------------------------------------------------
(* Items and meta *)

Near(m, n, d) == m <= n + d /\ n <= m + d

\* The answer is Near only when both results are there; before, each result is Near
\* to what the other query would return now.
MetaInv ==
    /\ request.listed /\ ~request.counted =>
           Near(Cardinality(request.items),
                Due(Cardinality(matching), request.page, request.limit), request.changed)
    /\ request.counted /\ ~request.listed =>
           Near(request.total, Cardinality(matching), request.changed)
    /\ request.listed /\ request.counted =>
           Near(Cardinality(request.items),
                Due(request.total, request.page, request.limit), request.changed)

LEMMA DueIsTame ==
    ASSUME NEW page \in Nat \ {0}, NEW limit \in Nat \ {0},
           NEW m \in Nat, NEW n \in Nat, NEW d \in Nat, Near(m, n, d)
    PROVE  /\ Near(Due(m, page, limit), Due(n, page, limit), d)
           /\ Due(m, page, limit) \in Nat
<1>1. page - 1 \in Nat
  OBVIOUS
<1>2. offset(page, limit) \in Nat
  BY <1>1 DEF offset
<1> QED
  BY <1>2 DEF Near, Due

\* When one row enters or leaves, what the listing holds changes by one.
LEMMA SizeChanges ==
    ASSUME matching \subseteq Rows, NEW x \in Rows, Enter(x) \/ Leave(x)
    PROVE  /\ Cardinality(matching) \in Nat /\ Cardinality(matching') \in Nat
           /\ Near(Cardinality(matching), Cardinality(matching'), 1)
           /\ Enter(x) => Cardinality(matching') = Cardinality(matching) + 1
           /\ Leave(x) => Cardinality(matching') = Cardinality(matching) - 1
<1>1. IsFiniteSet(matching) /\ Cardinality(matching) \in Nat
  BY Finite
<1>2. CASE Enter(x)
  <2>1. matching' = matching \cup {x} /\ x \notin matching /\ ~Leave(x)
    BY <1>2 DEF Enter, Leave
  <2> QED
    BY <1>1, <1>2, <2>1, FS_AddElement DEF Near
<1>3. CASE Leave(x)
  <2>1. matching' = matching \ {x} /\ x \in matching /\ ~Enter(x)
    BY <1>3 DEF Enter, Leave
  <2>2. Cardinality(matching') = Cardinality(matching) - 1 /\ Cardinality(matching') \in Nat
    BY <1>1, <2>1, Finite, FS_RemoveElement
  <2> QED
    BY <1>1, <1>3, <2>1, <2>2 DEF Near
<1> QED
  BY <1>2, <1>3

LEMMA RequestTypes ==
    ASSUME Base
    PROVE  /\ request.page \in Nat /\ request.limit \in Nat \ {0}
           /\ request.listed \/ request.counted => request.page \in Nat \ {0}
           /\ request.listed \in BOOLEAN /\ request.counted \in BOOLEAN
           /\ request.items \in SUBSET Rows /\ Cardinality(request.items) \in Nat
           /\ request.total \in Nat /\ request.arrived \in Nat /\ request.changed \in Nat
           /\ Cardinality(matching) \in Nat
<1>1. request.items \in SUBSET Rows
  BY DEF Base, TypeOK, RequestRecord
<1> QED
  BY <1>1, Finite DEF Base, TypeOK, RequestRecord, RequestFollows, Running

LEMMA MetaChanges ==
    ASSUME Base, MetaInv, NEW x \in Rows, Enter(x) \/ Leave(x)
    PROVE  MetaInv'
<1>1. /\ request'.page = request.page /\ request'.limit = request.limit
      /\ request'.items = request.items /\ request'.total = request.total
      /\ request'.listed = request.listed /\ request'.counted = request.counted
      /\ request'.changed = request.changed
             + (IF request.counted # request.listed THEN 1 ELSE 0)
  BY EnterEffect, LeaveEffect DEF Base
<1>2. /\ Cardinality(matching) \in Nat /\ Cardinality(matching') \in Nat
      /\ Near(Cardinality(matching), Cardinality(matching'), 1)
  BY SizeChanges DEF Base, TypeOK
<1>3. CASE request.listed /\ ~request.counted
  <2>1. request.page \in Nat \ {0} /\ request.limit \in Nat \ {0}
    BY <1>3, RequestTypes
  <2> DEFINE m == Due(Cardinality(matching), request.page, request.limit)
             n == Due(Cardinality(matching'), request.page, request.limit)
  <2>2. Near(m, n, 1) /\ m \in Nat
    BY <1>2, <2>1, DueIsTame
  <2>3. n \in Nat
    BY <1>2, <2>1, DueIsTame DEF Near
  <2>4. Near(Cardinality(request.items), m, request.changed)
    BY <1>3 DEF MetaInv
  <2>5. request'.changed = request.changed + 1
    BY <1>1, <1>3
  <2> HIDE DEF m, n
  <2>6. Near(Cardinality(request.items), n, request.changed + 1)
    BY <2>2, <2>3, <2>4, RequestTypes DEF Near
  <2> QED
    BY <1>1, <1>3, <2>5, <2>6 DEF MetaInv, n
<1>4. CASE request.counted /\ ~request.listed
  <2>1. Near(request.total, Cardinality(matching'), request.changed + 1)
    BY <1>2, <1>4, RequestTypes DEF MetaInv, Near
  <2> QED
    BY <1>1, <1>4, <2>1 DEF MetaInv
<1>5. CASE request.counted = request.listed
  BY <1>1, <1>5, RequestTypes DEF MetaInv
<1> QED
  BY <1>3, <1>4, <1>5, RequestTypes

LEMMA MetaStep == Base /\ MetaInv /\ [Next]_vars => MetaInv'
<1> SUFFICES ASSUME Base, MetaInv, [Next]_vars PROVE MetaInv'
  OBVIOUS
<1>1. CASE \/ \E requested \in Requested : OpenListing(requested)
           \/ NextPage \/ Answer \/ RequestFails
  <2>0. ~Idle.listed /\ ~Idle.counted
    BY DEF Idle
  <2>1. ~request'.listed /\ ~request'.counted
    <3>1. ASSUME NEW requested \in Requested, OpenListing(requested)
          PROVE  ~request'.listed /\ ~request'.counted
      BY <3>1 DEF OpenListing, Idle
    <3>2. CASE NextPage
      BY <3>2 DEF NextPage, Idle
    <3>3. CASE Answer \/ RequestFails
      BY <2>0, <3>3 DEF Answer, RequestFails
    <3> QED
      BY <1>1, <3>1, <3>2, <3>3
  <2> QED
    BY <2>1 DEF MetaInv
<1>2. CASE FindMany
  <2>1. PICK items \in Page(request.page, request.limit) :
            request' = [request EXCEPT !.items = items, !.listed = TRUE]
    BY <1>2 DEF FindMany
  <2>2. /\ request.page \in Nat \ {0} /\ request.limit \in Nat \ {0} /\ request.changed \in Nat
        /\ request.total \in Nat /\ Cardinality(matching) \in Nat
    BY <1>2, RequestTypes DEF FindMany, Running
  <2>3. Cardinality(items) = Due(Cardinality(matching), request.page, request.limit)
    BY <2>1, <2>2, PageFacts DEF Base, TypeOK
  <2>4. /\ request'.items = items /\ request'.listed /\ request'.counted = request.counted
        /\ request'.page = request.page /\ request'.limit = request.limit
        /\ request'.total = request.total /\ request'.changed = request.changed
        /\ matching' = matching
    BY <1>2, <2>1 DEF FindMany, Base, TypeOK, RequestRecord
  <2>5. CASE request.counted
    <3>1. Near(request.total, Cardinality(matching), request.changed)
      BY <1>2, <2>5 DEF FindMany, MetaInv
    <3>2. Near(Due(request.total, request.page, request.limit),
               Due(Cardinality(matching), request.page, request.limit), request.changed)
      BY <2>2, <3>1, DueIsTame
    <3> QED
      BY <2>3, <2>4, <2>5, <3>2 DEF MetaInv, Near
  <2>6. CASE ~request.counted
    <3>1. Near(Cardinality(matching), Cardinality(matching), request.changed)
      BY <2>2, RequestTypes DEF Near
    <3>2. Near(Due(Cardinality(matching), request.page, request.limit),
               Due(Cardinality(matching), request.page, request.limit), request.changed)
      BY <2>2, <3>1, DueIsTame
    <3> QED
      BY <2>3, <2>4, <2>6, <3>2 DEF MetaInv, Near
  <2> QED
    BY <2>5, <2>6
<1>3. CASE Count
  <2>1. /\ request'.items = request.items /\ request'.listed = request.listed
        /\ request'.counted /\ request'.total = Cardinality(matching)
        /\ request'.page = request.page /\ request'.limit = request.limit
        /\ request'.changed = request.changed /\ matching' = matching
    BY <1>3 DEF Count, Base, TypeOK, RequestRecord
  <2>2. ~request.counted
    BY <1>3 DEF Count
  <2>3. Near(Cardinality(matching), Cardinality(matching), request.changed)
    BY RequestTypes DEF Near
  <2> QED
    BY <2>1, <2>2, <2>3 DEF MetaInv
<1>4. ASSUME NEW x \in Rows, Enter(x) \/ Leave(x) PROVE MetaInv'
  BY <1>4, MetaChanges
<1>5. CASE UNCHANGED vars
  BY <1>5 DEF vars, MetaInv
<1> QED
  BY <1>1, <1>2, <1>3, <1>4, <1>5 DEF Next

\* The items of an answer and its meta disagree by no more than what changed between
\* the two queries.
THEOREM MetaIsNear == Spec => []MetaMatchesItems
<1>1. Init => Base /\ MetaInv
  BY InitBase DEF Init, MetaInv, Idle
<1>2. Base /\ MetaInv /\ [Next]_vars => (Base /\ MetaInv)'
  BY BaseStep, MetaStep
<1>3. Base /\ MetaInv => MetaMatchesItems
  BY DEF MetaInv, MetaMatchesItems, Near
<1> QED
  BY <1>1, <1>2, <1>3, PTL DEF Spec

------------------------------------------------------------------------------
(* What a walk misses and what it repeats *)

Edge(page, limit) == page * limit

\* Pages of one size follow each other without a gap.
LEMMA PagesJoin ==
    ASSUME NEW page \in Nat, NEW limit \in Nat
    PROVE  /\ Edge(page, limit) \in Nat
           /\ offset(page + 1, limit) = Edge(page, limit)
           /\ offset(page + 1, limit) + limit = Edge(page + 1, limit)
           /\ Edge(page + 1, limit) \in Nat
<1>1. page * limit \in Nat /\ (page + 1) * limit \in Nat
  OBVIOUS
<1>2. (page + 1) - 1 = page
  OBVIOUS
<1>3. page * limit + limit = (page + 1) * limit
  OBVIOUS
<1> QED
  BY <1>1, <1>2, <1>3 DEF Edge, offset

\* Rounded up, the pages hold the whole listing.
LEMMA PagesSuffice ==
    ASSUME NEW page \in Nat, NEW limit \in Nat \ {0}, NEW total \in Nat,
           ~hasNextPage(page, total, limit)
    PROVE  total <= Edge(page, limit)
<1> DEFINE pages == (total + limit - 1) \div limit
<1>1. pages \in Nat /\ pages * limit >= total
  OBVIOUS
<1>2. pages <= page
  BY <1>1 DEF hasNextPage, totalPages
<1>3. pages * limit <= page * limit
  BY <1>1, <1>2
<1> QED
  BY <1>1, <1>3 DEF Edge

LEMMA Edges ==
    ASSUME Base
    PROVE  /\ Edge(walk.page, walk.limit) \in Nat
           /\ Running => /\ Edge(request.page, request.limit) \in Nat
                         /\ offset(request.page, request.limit) = Edge(walk.page, walk.limit)
                         /\ offset(request.page, request.limit) + request.limit
                                = Edge(request.page, request.limit)
<1>1. /\ walk.page \in Nat /\ walk.limit \in Nat /\ request.limit \in Nat
  BY DEF Base, TypeOK, WalkRecord, RequestRecord
<1>2. Edge(walk.page, walk.limit) \in Nat
  BY <1>1, PagesJoin
<1>3. ASSUME Running
      PROVE  /\ Edge(request.page, request.limit) \in Nat
             /\ offset(request.page, request.limit) = Edge(walk.page, walk.limit)
             /\ offset(request.page, request.limit) + request.limit
                    = Edge(request.page, request.limit)
  <2>1. request.page = walk.page + 1 /\ (walk.page = 0 \/ request.limit = walk.limit)
    BY <1>3 DEF Base, RequestFollows
  <2>2. Edge(walk.page, request.limit) = Edge(walk.page, walk.limit)
    BY <1>1, <2>1 DEF Edge
  <2>3. /\ offset(walk.page + 1, request.limit) = Edge(walk.page, request.limit)
        /\ offset(walk.page + 1, request.limit) + request.limit
               = Edge(walk.page + 1, request.limit)
        /\ Edge(walk.page + 1, request.limit) \in Nat
    BY <1>1, PagesJoin
  <2> QED
    BY <2>1, <2>2, <2>3
<1> QED
  BY <1>2, <1>3

\* What the reader will have seen once the items of the request are answered.
SeenNext == walk.shown \cup request.items
RepeatedNext == walk.repeated \cup (walk.shown \cap request.items)

\* Up to the last page answered, and up to the page whose items have been read, as many
\* rows were missed as have left; with both results there and no further page, the same
\* holds for the whole listing.
MissedInv ==
    /\ Cardinality(Missed(matching, walk.stayed, walk.shown, Edge(walk.page, walk.limit)))
           <= walk.left
    /\ request.listed =>
           Cardinality(Missed(matching, walk.stayed, SeenNext,
                              Edge(request.page, request.limit))) <= walk.left
    /\ request.counted /\ ~request.listed =>
           Cardinality(matching) <= request.total + request.arrived
    /\ request.listed /\ request.counted /\ request.total <= Edge(request.page, request.limit) =>
           Cardinality((walk.stayed \cap Untied) \ SeenNext) <= walk.left + request.arrived
    /\ MissedOnlyForDepartures

AgainInv ==
    /\ Cardinality(Again(matching, walk.repeated, walk.shown, Edge(walk.page, walk.limit)))
           <= walk.entered
    /\ request.listed =>
           Cardinality(Again(matching, RepeatedNext, SeenNext,
                             Edge(request.page, request.limit))) <= walk.entered

WalkInv == MissedInv /\ AgainInv

LEMMA NothingYet ==
    ASSUME NEW S \in SUBSET Rows
    PROVE  /\ Cardinality(Missed(S, S, {}, Edge(0, 1))) = 0
           /\ Cardinality(Again(S, {}, {}, Edge(0, 1))) = 0
<1>1. Edge(0, 1) = 0
  BY DEF Edge
<1>2. \A r \in S : ~(Pos(S, r) < 0)
  BY PosType
<1>3. Missed(S, S, {}, 0) = {} /\ Again(S, {}, {}, 0) = {}
  BY <1>2 DEF Missed, Again
<1> QED
  BY <1>1, <1>3, FS_EmptySet

LEMMA WalkTypes ==
    ASSUME Base
    PROVE  /\ walk.left \in Nat /\ walk.entered \in Nat /\ walk.arrived \in Nat
           /\ walk.stayed \in SUBSET matching /\ matching \in SUBSET Rows
           /\ walk.shown \in SUBSET Rows /\ walk.repeated \in SUBSET Rows
BY DEF Base, TypeOK, WalkRecord

\* A walk that has just begun has missed and repeated nothing.
LEMMA FreshWalk ==
    ASSUME matching' \subseteq Rows, walk' = NewWalk', ~request'.listed, ~request'.counted
    PROVE  WalkInv'
<1>1. /\ walk'.page = 0 /\ walk'.limit = 1 /\ walk'.stayed = matching'
      /\ walk'.shown = {} /\ walk'.repeated = {} /\ walk'.left = 0 /\ walk'.entered = 0
  BY DEF NewWalk
<1>2. /\ Cardinality(Missed(matching', walk'.stayed, walk'.shown, Edge(walk'.page, walk'.limit)))
             = 0
      /\ Cardinality(Again(matching', walk'.repeated, walk'.shown,
                           Edge(walk'.page, walk'.limit))) = 0
  BY <1>1, NothingYet
<1>3. MissedOnlyForDepartures'
  BY <1>1 DEF MissedOnlyForDepartures, Finished
<1> QED
  BY <1>1, <1>2, <1>3 DEF WalkInv, MissedInv, AgainInv

LEMMA InitWalk == Init => WalkInv
<1> SUFFICES ASSUME Init PROVE WalkInv
  OBVIOUS
<1>1. /\ matching \subseteq Rows /\ ~request.listed /\ ~request.counted
      /\ walk.page = 0 /\ walk.limit = 1 /\ walk.stayed = matching
      /\ walk.shown = {} /\ walk.repeated = {} /\ walk.left = 0 /\ walk.entered = 0
  BY DEF Init, Idle, NewWalk
<1>2. /\ Cardinality(Missed(matching, walk.stayed, walk.shown, Edge(walk.page, walk.limit))) = 0
      /\ Cardinality(Again(matching, walk.repeated, walk.shown, Edge(walk.page, walk.limit))) = 0
  BY <1>1, NothingYet
<1>3. MissedOnlyForDepartures
  BY <1>1 DEF MissedOnlyForDepartures, Finished
<1> QED
  BY <1>1, <1>2, <1>3 DEF WalkInv, MissedInv, AgainInv

\* A new request starts without results.
LEMMA RequestStarts ==
    ASSUME Base, WalkInv,
           \/ \E requested \in Requested : OpenListing(requested)
           \/ NextPage \/ RequestFails
    PROVE  WalkInv'
<1>1. ASSUME NEW requested \in Requested, OpenListing(requested) PROVE WalkInv'
  <2>1. ~request'.listed /\ ~request'.counted /\ matching' = matching /\ walk' = NewWalk'
    BY <1>1 DEF OpenListing, Idle, NewWalk
  <2> QED
    BY <2>1, FreshWalk, WalkTypes
<1>2. CASE NextPage \/ RequestFails
  <2>1. ~request'.listed /\ ~request'.counted /\ matching' = matching /\ walk' = walk
    <3>1. CASE NextPage
      BY <3>1 DEF NextPage, Idle
    <3>2. CASE RequestFails
      BY <3>2 DEF RequestFails, Idle
    <3> QED
      BY <1>2, <3>1, <3>2
  <2>2. MissedOnlyForDepartures' <=> MissedOnlyForDepartures
    BY <2>1 DEF MissedOnlyForDepartures, Finished
  <2> QED
    BY <2>1, <2>2 DEF WalkInv, MissedInv, AgainInv
<1> QED
  BY <1>1, <1>2

\* The items that are read continue the pages before them without a gap.
LEMMA ItemsRead ==
    ASSUME Base, WalkInv, FindMany
    PROVE  WalkInv'
<1> DEFINE edge == Edge(walk.page, walk.limit)
           next == Edge(request.page, request.limit)
<1>1. PICK items \in Page(request.page, request.limit) :
          request' = [request EXCEPT !.items = items, !.listed = TRUE]
  BY DEF FindMany
<1>2. /\ request.page \in Nat \ {0} /\ request.limit \in Nat \ {0} /\ Running
      /\ ~request.listed /\ request.total \in Nat /\ request.arrived \in Nat
      /\ Cardinality(matching) \in Nat
  BY RequestTypes DEF FindMany, Running
<1>3. /\ request'.items = items /\ request'.listed /\ request'.counted = request.counted
      /\ request'.page = request.page /\ request'.limit = request.limit
      /\ request'.total = request.total /\ request'.arrived = request.arrived
      /\ matching' = matching /\ walk' = walk
  BY <1>1 DEF FindMany, Base, TypeOK, RequestRecord
<1>4. /\ edge \in Nat /\ next \in Nat
      /\ offset(request.page, request.limit) = edge
      /\ offset(request.page, request.limit) + request.limit = next
      /\ edge <= next
  <2>1. /\ edge \in Nat /\ next \in Nat
        /\ offset(request.page, request.limit) = edge
        /\ offset(request.page, request.limit) + request.limit = next
    BY <1>2, Edges
  <2> QED
    BY <2>1, <1>2
<1>5. /\ items \in SUBSET matching
      /\ \A r \in matching \cap Untied :
             r \in items <=> edge <= Pos(matching, r) /\ Pos(matching, r) < next
      /\ \A n \in Nat : Cardinality(matching) <= next + n => Cardinality(Behind(next)) <= n
  BY <1>2, <1>4, PageFacts, WalkTypes
<1>6. \A r \in matching : Pos(matching, r) \in Nat
  BY PosType, WalkTypes
<1> DEFINE seen == walk.shown \cup items
           M == Missed(matching, walk.stayed, walk.shown, edge)
           N == Missed(matching, walk.stayed, seen, next)
<1>7. M \in SUBSET Rows /\ N \in SUBSET M
  BY <1>4, <1>5, <1>6, WalkTypes, UntiedRows DEF Missed
<1>8. Cardinality(N) <= walk.left
  <2>1. Cardinality(M) <= walk.left
    BY DEF WalkInv, MissedInv
  <2>2. Cardinality(N) <= Cardinality(M) /\ Cardinality(N) \in Nat /\ Cardinality(M) \in Nat
    BY <1>7, Fewer, Finite
  <2> QED
    BY <2>1, <2>2, WalkTypes
<1>9. ASSUME request.counted, request.total <= next
      PROVE  Cardinality((walk.stayed \cap Untied) \ seen) <= walk.left + request.arrived
  <2>1. Cardinality(matching) <= request.total + request.arrived
    BY <1>2, <1>9 DEF WalkInv, MissedInv
  <2>2. Cardinality(Behind(next)) <= request.arrived
    BY <1>2, <1>4, <1>5, <1>9, <2>1
  <2>3. /\ (walk.stayed \cap Untied) \ seen \in SUBSET (N \cup Behind(next))
        /\ Behind(next) \in SUBSET Rows /\ N \in SUBSET Rows
        /\ N \cup Behind(next) \in SUBSET Rows
    BY <1>4, <1>6, <1>7, WalkTypes DEF Missed, Behind
  <2>4. /\ Cardinality(N) \in Nat /\ Cardinality(Behind(next)) \in Nat
        /\ Cardinality((walk.stayed \cap Untied) \ seen) \in Nat
        /\ Cardinality(N \cup Behind(next)) \in Nat
    BY <2>3, Finite
  <2>5. Cardinality(N \cup Behind(next)) <= Cardinality(N) + Cardinality(Behind(next))
    BY <2>3, AtMostTheSum
  <2>6. Cardinality((walk.stayed \cap Untied) \ seen) <= Cardinality(N \cup Behind(next))
    BY <2>3, Fewer
  <2> HIDE DEF N, seen
  <2> QED
    BY <1>2, <1>8, <2>2, <2>4, <2>5, <2>6, WalkTypes
<1> DEFINE R == Again(matching, walk.repeated, walk.shown, edge)
           S == Again(matching, walk.repeated \cup (walk.shown \cap items), seen, next)
<1>10. Cardinality(S) <= walk.entered
  <2>1. R \in SUBSET Rows /\ S \in SUBSET R
    BY <1>4, <1>5, <1>6, WalkTypes, UntiedRows DEF Again
  <2>2. Cardinality(R) <= walk.entered
    BY DEF WalkInv, AgainInv
  <2>3. Cardinality(S) <= Cardinality(R) /\ Cardinality(R) \in Nat /\ Cardinality(S) \in Nat
    BY <2>1, Fewer, Finite
  <2> QED
    BY <2>2, <2>3, WalkTypes
<1>11. SeenNext' = seen /\ RepeatedNext' = walk.repeated \cup (walk.shown \cap items)
  BY <1>3 DEF SeenNext, RepeatedNext
<1>12. MissedOnlyForDepartures'
  BY <1>3 DEF WalkInv, MissedInv, MissedOnlyForDepartures, Finished
<1>13. MissedInv'
  BY <1>3, <1>8, <1>9, <1>11, <1>12 DEF WalkInv, MissedInv
<1>14. AgainInv'
  BY <1>3, <1>10, <1>11 DEF WalkInv, AgainInv
<1> QED
  BY <1>13, <1>14 DEF WalkInv

\* When the count comes last, nothing stands behind the last page.
LEMMA TotalRead ==
    ASSUME Base, WalkInv, Count
    PROVE  WalkInv'
<1> DEFINE next == Edge(request.page, request.limit)
<1>1. /\ request'.items = request.items /\ request'.listed = request.listed
      /\ request'.counted /\ request'.total = Cardinality(matching)
      /\ request'.page = request.page /\ request'.limit = request.limit
      /\ request'.arrived = request.arrived /\ matching' = matching /\ walk' = walk
  BY DEF Count, Base, TypeOK, RequestRecord
<1>2. Cardinality(matching) \in Nat /\ request.arrived \in Nat
  BY RequestTypes
<1>3. SeenNext' = SeenNext /\ RepeatedNext' = RepeatedNext
  BY <1>1 DEF SeenNext, RepeatedNext
<1>4. ASSUME request.listed, Cardinality(matching) <= next
      PROVE  Cardinality((walk.stayed \cap Untied) \ SeenNext) <= walk.left + request.arrived
  <2>1. next \in Nat
    BY Edges DEF Count
  <2>2. \A r \in matching : Pos(matching, r) < next
    BY <1>2, <1>4, <2>1, PosBelowSize, PosType, WalkTypes
  <2>3. (walk.stayed \cap Untied) \ SeenNext = Missed(matching, walk.stayed, SeenNext, next)
    BY <2>2, WalkTypes DEF Missed
  <2>4. Cardinality(Missed(matching, walk.stayed, SeenNext, next)) <= walk.left
    BY <1>4 DEF WalkInv, MissedInv
  <2>5. (walk.stayed \cap Untied) \ SeenNext \in SUBSET Rows
    BY WalkTypes
  <2> QED
    BY <1>2, <2>3, <2>4, <2>5, Finite, WalkTypes
<1>5. MissedOnlyForDepartures'
  BY <1>1 DEF WalkInv, MissedInv, MissedOnlyForDepartures, Finished
<1>6. MissedInv'
  BY <1>1, <1>2, <1>3, <1>4, <1>5 DEF WalkInv, MissedInv
<1>7. AgainInv'
  BY <1>1, <1>3 DEF WalkInv, AgainInv
<1> QED
  BY <1>6, <1>7 DEF WalkInv

\* The answer turns the items read into items shown.
LEMMA Answered ==
    ASSUME Base, WalkInv, Answer
    PROVE  WalkInv'
<1>1. /\ walk'.page = request.page /\ walk'.limit = request.limit
      /\ walk'.more = hasNextPage(request.page, request.total, request.limit)
      /\ walk'.shown = SeenNext /\ walk'.repeated = RepeatedNext
      /\ walk'.arrived = request.arrived /\ walk'.stayed = walk.stayed
      /\ walk'.left = walk.left /\ walk'.entered = walk.entered
      /\ matching' = matching
  BY DEF Answer, SeenNext, RepeatedNext, Base, TypeOK, WalkRecord
<1>2. ~request'.listed /\ ~request'.counted
  BY DEF Answer, Idle
<1>3. request.listed /\ request.counted
  BY DEF Answer
<1>4. ASSUME Finished'
      PROVE  Cardinality((walk.stayed \cap Untied) \ SeenNext) <= walk.left + request.arrived
  <2>1. ~hasNextPage(request.page, request.total, request.limit)
    BY <1>1, <1>4 DEF Finished
  <2>2. request.total <= Edge(request.page, request.limit)
    BY <1>3, <2>1, RequestTypes, PagesSuffice
  <2> QED
    BY <1>3, <2>2 DEF WalkInv, MissedInv
<1>5. MissedOnlyForDepartures'
  BY <1>1, <1>4 DEF MissedOnlyForDepartures
<1>6. MissedInv'
  BY <1>1, <1>2, <1>3, <1>5 DEF WalkInv, MissedInv
<1>7. AgainInv'
  BY <1>1, <1>2, <1>3 DEF WalkInv, AgainInv
<1> QED
  BY <1>6, <1>7 DEF WalkInv

LEMMA RowEnters ==
    ASSUME Base, WalkInv, NEW x \in Rows, Enter(x)
    PROVE  WalkInv'
<1>1. /\ request'.page = request.page /\ request'.limit = request.limit
      /\ request'.items = request.items /\ request'.total = request.total
      /\ request'.listed = request.listed /\ request'.counted = request.counted
      /\ request'.arrived = request.arrived
             + (IF request.counted /\ ~request.listed THEN 1 ELSE 0)
      /\ walk'.page = walk.page /\ walk'.limit = walk.limit /\ walk'.more = walk.more
      /\ walk'.shown = walk.shown /\ walk'.repeated = walk.repeated
      /\ walk'.stayed = walk.stayed /\ walk'.left = walk.left
      /\ walk'.entered = walk.entered + 1 /\ walk'.arrived = walk.arrived
  BY EnterEffect DEF Base
<1>2. matching' = matching \cup {x} /\ x \in Rows \ matching
  BY DEF Enter
<1>3. SeenNext' = SeenNext /\ RepeatedNext' = RepeatedNext
  BY <1>1 DEF SeenNext, RepeatedNext
<1>4. /\ Edge(walk.page, walk.limit) \in Nat
      /\ request.listed => Edge(request.page, request.limit) \in Nat
  BY Edges DEF Base, RequestFollows
<1>5. ASSUME NEW seen, NEW n \in Nat,
             Cardinality(Missed(matching, walk.stayed, seen, n)) <= walk.left
      PROVE  Cardinality(Missed(matching', walk'.stayed, seen, n)) <= walk'.left
  <2>1. Cardinality(Missed(matching \cup {x}, walk.stayed, seen, n))
            <= Cardinality(Missed(matching, walk.stayed, seen, n))
    BY <1>2, WalkTypes, MissedWhenEntering
  <2>2. /\ Missed(matching \cup {x}, walk.stayed, seen, n) \in SUBSET Rows
        /\ Missed(matching, walk.stayed, seen, n) \in SUBSET Rows
    BY UntiedRows DEF Missed
  <2> QED
    BY <1>1, <1>2, <1>5, <2>1, <2>2, Finite, WalkTypes
<1>6. ASSUME NEW rep, NEW seen, NEW n \in Nat,
             Cardinality(Again(matching, rep, seen, n)) <= walk.entered
      PROVE  Cardinality(Again(matching', rep, seen, n)) <= walk'.entered
  <2>1. Cardinality(Again(matching \cup {x}, rep, seen, n))
            <= Cardinality(Again(matching, rep, seen, n)) + 1
    BY <1>2, WalkTypes, AgainWhenEntering
  <2>2. /\ Again(matching \cup {x}, rep, seen, n) \in SUBSET Rows
        /\ Again(matching, rep, seen, n) \in SUBSET Rows
    BY UntiedRows DEF Again
  <2> QED
    BY <1>1, <1>2, <1>6, <2>1, <2>2, Finite, WalkTypes
<1>7. MissedOnlyForDepartures'
  BY <1>1 DEF WalkInv, MissedInv, MissedOnlyForDepartures, Finished
<1>8. request.counted /\ ~request.listed =>
          Cardinality(matching') <= request.total + request'.arrived
  <2>1. Cardinality(matching') = Cardinality(matching) + 1 /\ Cardinality(matching) \in Nat
    BY SizeChanges, WalkTypes
  <2> QED
    BY <1>1, <2>1, RequestTypes DEF WalkInv, MissedInv
<1>9. /\ Cardinality(Missed(matching', walk'.stayed, walk.shown,
                            Edge(walk.page, walk.limit))) <= walk'.left
      /\ request.listed => Cardinality(Missed(matching', walk'.stayed, SeenNext,
                                    Edge(request.page, request.limit))) <= walk'.left
  BY <1>4, <1>5 DEF WalkInv, MissedInv
<1>10. request.listed /\ request.counted => request'.arrived = request.arrived
  BY <1>1, RequestTypes
<1>11. MissedInv'
  BY <1>1, <1>3, <1>7, <1>8, <1>9, <1>10 DEF WalkInv, MissedInv
<1>12. AgainInv'
  BY <1>1, <1>3, <1>4, <1>6 DEF WalkInv, AgainInv
<1> QED
  BY <1>11, <1>12 DEF WalkInv

LEMMA RowLeaves ==
    ASSUME Base, WalkInv, NEW x \in Rows, Leave(x)
    PROVE  WalkInv'
<1>1. /\ request'.page = request.page /\ request'.limit = request.limit
      /\ request'.items = request.items /\ request'.total = request.total
      /\ request'.listed = request.listed /\ request'.counted = request.counted
      /\ request'.arrived = request.arrived
      /\ walk'.page = walk.page /\ walk'.limit = walk.limit /\ walk'.more = walk.more
      /\ walk'.shown = walk.shown /\ walk'.repeated = walk.repeated
      /\ walk'.stayed = walk.stayed \ {x} /\ walk'.left = walk.left + 1
      /\ walk'.entered = walk.entered /\ walk'.arrived = walk.arrived
  BY LeaveEffect DEF Base
<1>2. matching' = matching \ {x} /\ x \in matching
  BY DEF Leave
<1>3. SeenNext' = SeenNext /\ RepeatedNext' = RepeatedNext
  BY <1>1 DEF SeenNext, RepeatedNext
<1>4. /\ Edge(walk.page, walk.limit) \in Nat
      /\ request.listed => Edge(request.page, request.limit) \in Nat
  BY Edges DEF Base, RequestFollows
<1>5. ASSUME NEW seen, NEW n \in Nat,
             Cardinality(Missed(matching, walk.stayed, seen, n)) <= walk.left
      PROVE  Cardinality(Missed(matching', walk'.stayed, seen, n)) <= walk'.left
  <2>1. Cardinality(Missed(matching \ {x}, walk.stayed \ {x}, seen, n))
            <= Cardinality(Missed(matching, walk.stayed, seen, n)) + 1
    BY <1>2, WalkTypes, MissedWhenLeaving
  <2>2. /\ Missed(matching \ {x}, walk.stayed \ {x}, seen, n) \in SUBSET Rows
        /\ Missed(matching, walk.stayed, seen, n) \in SUBSET Rows
    BY UntiedRows DEF Missed
  <2> QED
    <3>1. /\ Cardinality(Missed(matching \ {x}, walk.stayed \ {x}, seen, n)) \in Nat
          /\ Cardinality(Missed(matching, walk.stayed, seen, n)) \in Nat
      BY <2>2, Finite
    <3>2. Missed(matching', walk'.stayed, seen, n) = Missed(matching \ {x}, walk.stayed \ {x}, seen, n)
      BY <1>1, <1>2
    <3> QED
      BY <1>1, <1>5, <2>1, <3>1, <3>2, WalkTypes
<1>6. ASSUME NEW rep, NEW seen, NEW n \in Nat,
             Cardinality(Again(matching, rep, seen, n)) <= walk.entered
      PROVE  Cardinality(Again(matching', rep, seen, n)) <= walk'.entered
  <2>1. Cardinality(Again(matching \ {x}, rep, seen, n))
            <= Cardinality(Again(matching, rep, seen, n))
    BY <1>2, WalkTypes, AgainWhenLeaving
  <2>2. /\ Again(matching \ {x}, rep, seen, n) \in SUBSET Rows
        /\ Again(matching, rep, seen, n) \in SUBSET Rows
    BY UntiedRows DEF Again
  <2> QED
    <3>1. /\ Cardinality(Again(matching \ {x}, rep, seen, n)) \in Nat
          /\ Cardinality(Again(matching, rep, seen, n)) \in Nat
      BY <2>2, Finite
    <3>2. Again(matching', rep, seen, n) = Again(matching \ {x}, rep, seen, n)
      BY <1>1, <1>2
    <3> QED
      BY <1>1, <1>6, <2>1, <3>1, <3>2, WalkTypes
<1>7. ASSUME NEW seen, NEW n \in Nat,
             Cardinality((walk.stayed \cap Untied) \ seen) <= walk.left + n
      PROVE  Cardinality((walk'.stayed \cap Untied) \ seen) <= walk'.left + n
  <2>1. /\ (walk'.stayed \cap Untied) \ seen \in SUBSET ((walk.stayed \cap Untied) \ seen)
        /\ (walk.stayed \cap Untied) \ seen \in SUBSET Rows
    BY <1>1, WalkTypes
  <2>2. Cardinality((walk'.stayed \cap Untied) \ seen)
            <= Cardinality((walk.stayed \cap Untied) \ seen)
    BY <2>1, Fewer
  <2> QED
    BY <1>1, <1>7, <2>1, <2>2, Finite, WalkTypes
<1>8. MissedOnlyForDepartures'
  BY <1>1, <1>7, WalkTypes DEF WalkInv, MissedInv, MissedOnlyForDepartures, Finished
<1>9. request.counted /\ ~request.listed =>
          Cardinality(matching') <= request.total + request.arrived
  <2>1. Cardinality(matching') = Cardinality(matching) - 1 /\ Cardinality(matching) \in Nat
    BY SizeChanges, WalkTypes
  <2> QED
    BY <2>1, RequestTypes DEF WalkInv, MissedInv
<1>10. /\ Cardinality(Missed(matching', walk'.stayed, walk.shown,
                             Edge(walk.page, walk.limit))) <= walk'.left
       /\ request.listed => Cardinality(Missed(matching', walk'.stayed, SeenNext,
                                     Edge(request.page, request.limit))) <= walk'.left
  BY <1>4, <1>5 DEF WalkInv, MissedInv
<1>11. /\ request.listed /\ request.counted
       /\ request.total <= Edge(request.page, request.limit)
       => Cardinality((walk'.stayed \cap Untied) \ SeenNext) <= walk'.left + request.arrived
  BY <1>7, RequestTypes DEF WalkInv, MissedInv
<1>12. MissedInv'
  BY <1>1, <1>3, <1>8, <1>9, <1>10, <1>11 DEF MissedInv
<1>13. AgainInv'
  BY <1>1, <1>3, <1>4, <1>6 DEF WalkInv, AgainInv
<1> QED
  BY <1>12, <1>13 DEF WalkInv

LEMMA WalkStep == Base /\ WalkInv /\ [Next]_vars => WalkInv'
<1> SUFFICES ASSUME Base, WalkInv, [Next]_vars PROVE WalkInv'
  OBVIOUS
<1>1. CASE UNCHANGED vars
  BY <1>1 DEF vars, WalkInv, MissedInv, AgainInv, SeenNext, RepeatedNext,
              MissedOnlyForDepartures, Finished
<1> QED
  BY <1>1, RequestStarts, ItemsRead, TotalRead, Answered, RowEnters, RowLeaves DEF Next

LEMMA WalkInvariant == Spec => [](Base /\ WalkInv)
BY InitBase, InitWalk, BaseStep, WalkStep, PTL DEF Spec

\* A finished walk has missed no more rows than left during it, and than arrived between
\* the two queries of its last page.
THEOREM MissesAreBounded == Spec => []MissedOnlyForDepartures
<1>1. WalkInv => MissedOnlyForDepartures
  BY DEF WalkInv, MissedInv
<1> QED
  BY <1>1, WalkInvariant, PTL

\* A walk has shown no more rows twice than entered during it.
THEOREM RepetitionsAreBounded == Spec => []RepeatedOnlyForArrivals
<1>1. Base /\ WalkInv => RepeatedOnlyForArrivals
  <2> SUFFICES ASSUME Base, WalkInv PROVE RepeatedOnlyForArrivals
    OBVIOUS
  <2> DEFINE R == Again(matching, walk.repeated, walk.shown, Edge(walk.page, walk.limit))
  <2>1. R \in SUBSET Rows /\ walk.repeated \cap Untied \in SUBSET R
    BY UntiedRows DEF Again
  <2>2. Cardinality(R) <= walk.entered
    BY DEF WalkInv, AgainInv
  <2>3. /\ Cardinality(walk.repeated \cap Untied) <= Cardinality(R)
        /\ Cardinality(walk.repeated \cap Untied) \in Nat /\ Cardinality(R) \in Nat
    BY <2>1, Fewer, Finite
  <2> QED
    BY <2>2, <2>3, WalkTypes DEF RepeatedOnlyForArrivals
<1> QED
  BY <1>1, WalkInvariant, PTL

------------------------------------------------------------------------------
(* Pages are short and walks stop *)

\* A further page is announced only when something is left to show.
LEMMA MoreMeansMore ==
    ASSUME NEW page \in Nat, NEW limit \in Nat \ {0}, NEW total \in Nat,
           hasNextPage(page, total, limit)
    PROVE  Edge(page, limit) < total
<1> DEFINE pages == (total + limit - 1) \div limit
<1>1. pages \in Nat /\ pages * limit <= total + limit - 1
  OBVIOUS
<1>2. page + 1 <= pages
  BY <1>1 DEF hasNextPage, totalPages
<1>3. (page + 1) * limit <= pages * limit /\ (page + 1) * limit = page * limit + limit
  BY <1>1, <1>2
<1>4. page * limit \in Nat
  OBVIOUS
<1> QED
  BY <1>1, <1>3, <1>4 DEF Edge

\* findMany takes no more rows than the page holds, whatever tie it met; the limit is at
\* most MaxLimit by the type.
NoLongPage == request.listed => Cardinality(request.items) <= request.limit

\* A reader is sent on only while the pages so far hold fewer rows than there are at all:
\* however rows come and go, following meta.hasNextPage ends.
NoEndlessWalk == walk.more => Edge(walk.page, walk.limit) < Cardinality(Rows)

\* The count never exceeds the rows there are.
StopInv ==
    /\ NoLongPage
    /\ NoEndlessWalk
    /\ request.counted => request.total <= Cardinality(Rows)

LEMMA StopStep == Base /\ StopInv /\ [Next]_vars => StopInv'
<1> SUFFICES ASSUME Base, StopInv, [Next]_vars PROVE StopInv'
  OBVIOUS
<1> USE DEF Base, TypeOK
<1>1. ASSUME NEW requested \in Requested, OpenListing(requested) PROVE StopInv'
  BY <1>1 DEF OpenListing, StopInv, NoLongPage, NoEndlessWalk, Idle, NewWalk
<1>2. CASE NextPage
  BY <1>2 DEF NextPage, StopInv, NoLongPage, NoEndlessWalk, Idle
<1>3. CASE FindMany
  <2>1. request.page \in Nat \ {0} /\ request.limit \in Nat \ {0}
    BY <1>3, ListingAssumption DEF FindMany, Running, RequestRecord
  <2>2. PICK items \in Page(request.page, request.limit) :
            request' = [request EXCEPT !.items = items, !.listed = TRUE]
    BY <1>3, Zenon DEF FindMany
  <2>3. Cardinality(items) = Due(Cardinality(matching), request.page, request.limit)
    BY <2>1, PageFacts
  <2>4. Cardinality(matching) \in Nat
    BY Finite
  <2>5. offset(request.page, request.limit) \in Int
    BY <2>1 DEF offset
  <2>6. Cardinality(items) <= request.limit
    BY <2>1, <2>3, <2>4, <2>5 DEF Due
  <2>7. /\ request'.items = items /\ request'.limit = request.limit
        /\ request'.counted = request.counted /\ request'.total = request.total
    BY <2>2 DEF RequestRecord
  <2>8. walk' = walk
    BY <1>3 DEF FindMany
  <2> QED
    BY <2>6, <2>7, <2>8 DEF StopInv, NoLongPage, NoEndlessWalk
<1>4. CASE Count
  <2>1. Cardinality(matching) <= Cardinality(Rows)
    BY Fewer
  <2>2. /\ request'.total = Cardinality(matching) /\ request'.listed = request.listed
        /\ request'.items = request.items /\ request'.limit = request.limit
    BY <1>4 DEF Count, RequestRecord
  <2>3. walk' = walk
    BY <1>4 DEF Count
  <2> QED
    BY <2>1, <2>2, <2>3 DEF StopInv, NoLongPage, NoEndlessWalk
<1>5. CASE Answer
  <2>1. /\ walk'.page = request.page /\ walk'.limit = request.limit
        /\ walk'.more = hasNextPage(request.page, request.total, request.limit)
    BY <1>5 DEF Answer, WalkRecord
  <2>2. request.page \in Nat /\ request.limit \in Nat \ {0} /\ request.total \in Nat
    BY ListingAssumption DEF RequestRecord
  <2>3. walk'.more => Edge(request.page, request.limit) < request.total
    BY <2>1, <2>2, MoreMeansMore
  <2>4. request.total <= Cardinality(Rows) /\ Cardinality(Rows) \in Nat
    BY <1>5, Finite DEF Answer, StopInv
  <2>5. Edge(request.page, request.limit) \in Nat
    BY <2>2 DEF Edge
  <2>6. walk'.more => Edge(request.page, request.limit) < Cardinality(Rows)
    BY <2>2, <2>3, <2>4, <2>5
  <2>7. request' = Idle
    BY <1>5 DEF Answer
  <2> QED
    BY <2>1, <2>6, <2>7 DEF StopInv, NoLongPage, NoEndlessWalk, Idle
<1>6. CASE RequestFails
  BY <1>6 DEF RequestFails, StopInv, NoLongPage, NoEndlessWalk, Idle
<1>7. ASSUME NEW r \in Rows, Enter(r) PROVE StopInv'
  BY <1>7, EnterEffect DEF StopInv, NoLongPage, NoEndlessWalk
<1>8. ASSUME NEW r \in Rows, Leave(r) PROVE StopInv'
  BY <1>8, LeaveEffect DEF StopInv, NoLongPage, NoEndlessWalk
<1>9. CASE UNCHANGED vars
  BY <1>9 DEF vars, StopInv, NoLongPage, NoEndlessWalk
<1> QED
  BY <1>1, <1>2, <1>3, <1>4, <1>5, <1>6, <1>7, <1>8, <1>9 DEF Next

LEMMA StopInvariant == Spec => [](Base /\ StopInv)
<1>1. Init => StopInv
  BY DEF Init, StopInv, NoLongPage, NoEndlessWalk, Idle, NewWalk
<1> QED
  BY <1>1, InitBase, BaseStep, StopStep, PTL DEF Spec

\* No page is longer than its limit, at any number of rows and of ties.
THEOREM PagesAreShort == Spec => []NoLongPage
<1>1. StopInv => NoLongPage
  BY DEF StopInv
<1> QED
  BY <1>1, StopInvariant, PTL

\* A reader who follows meta.hasNextPage asks for a bounded number of pages.
THEOREM WalksStop == Spec => []NoEndlessWalk
<1>1. StopInv => NoEndlessWalk
  BY DEF StopInv
<1> QED
  BY <1>1, StopInvariant, PTL

------------------------------------------------------------------------------
(* The arithmetic of the pages *)

\* The page that skips to at most i and reaches beyond it.
Holds(page, limit, i) == offset(page, limit) <= i /\ i < offset(page, limit) + limit

\* offset and totalPages fit each other at every boundary: the pages from the first to the
\* last hold every position of a listing exactly once, and none of them is empty.
THEOREM PagesPartition ==
    ASSUME NEW limit \in Nat \ {0}, NEW total \in Nat
    PROVE  /\ \A i \in 0..(total - 1) : \E page \in 1..totalPages(total, limit) :
                  /\ Holds(page, limit, i)
                  /\ \A other \in 1..totalPages(total, limit) : Holds(other, limit, i) => other = page
           /\ \A page \in 1..totalPages(total, limit) : offset(page, limit) < total
<1> DEFINE pages == totalPages(total, limit)
<1>1. /\ pages \in Nat
      /\ pages * limit <= total + limit - 1
      /\ total + limit - 1 < (pages + 1) * limit
  BY DEF totalPages
<1> HIDE DEF pages
<1>2. ASSUME NEW i \in 0..(total - 1)
      PROVE  \E page \in 1..pages :
                 /\ Holds(page, limit, i)
                 /\ \A other \in 1..pages : Holds(other, limit, i) => other = page
  <2> DEFINE k == i \div limit
  <2>1. k \in Nat /\ k * limit <= i /\ i < (k + 1) * limit
    OBVIOUS
  <2> HIDE DEF k
  <2>2. (k + 1) * limit = k * limit + limit /\ (pages + 1) * limit = pages * limit + limit
    BY <1>1, <2>1
  <2>3. k * limit \in Nat /\ pages * limit \in Nat
    BY <1>1, <2>1
  <2>4. k * limit < pages * limit
    BY <1>1, <2>1, <2>2, <2>3
  <2>5. k < pages
    <3> SUFFICES ASSUME pages <= k PROVE FALSE
      BY <1>1, <2>1
    <3>1. pages * limit <= k * limit
      BY <1>1, <2>1
    <3> QED
      BY <2>3, <2>4, <3>1
  <2>6. k + 1 \in 1..pages /\ (k + 1) - 1 = k
    BY <1>1, <2>1, <2>5
  <2>7. offset(k + 1, limit) = k * limit
    BY <2>6 DEF offset
  <2>8. Holds(k + 1, limit, i)
    BY <2>1, <2>2, <2>7 DEF Holds
  <2>9. ASSUME NEW other \in 1..pages, Holds(other, limit, i) PROVE other = k + 1
    <3>1. PICK j \in Nat : other = j + 1 /\ other - 1 = j
      <4>1. other - 1 \in Nat /\ other = (other - 1) + 1
        BY <1>1
      <4> QED
        BY <4>1
    <3>2. j * limit \in Nat /\ j * limit <= i /\ i < j * limit + limit
      BY <2>9, <3>1 DEF Holds, offset
    <3>3. ~(j < k)
      <4> SUFFICES ASSUME j + 1 <= k PROVE FALSE
        BY <2>1, <3>1
      <4>1. (j + 1) * limit <= k * limit /\ (j + 1) * limit = j * limit + limit
        BY <2>1, <3>1
      <4> QED
        BY <2>1, <2>3, <3>2, <4>1
    <3>4. ~(k < j)
      <4> SUFFICES ASSUME k + 1 <= j PROVE FALSE
        BY <2>1, <3>1
      <4>1. (k + 1) * limit <= j * limit
        BY <2>1, <3>1
      <4> QED
        BY <2>1, <2>2, <2>3, <3>2, <4>1
    <3> QED
      BY <2>1, <3>1, <3>3, <3>4
  <2> QED
    BY <2>6, <2>8, <2>9
<1>3. ASSUME NEW page \in 1..pages PROVE offset(page, limit) < total
  <2>1. page - 1 \in Nat /\ (page - 1) * limit \in Nat /\ page * limit = (page - 1) * limit + limit
    BY <1>1
  <2>2. page * limit <= pages * limit /\ pages * limit \in Nat /\ page * limit \in Nat
    BY <1>1
  <2> QED
    BY <1>1, <2>1, <2>2 DEF offset
<1> QED
  BY <1>2, <1>3 DEF pages
==============================================================================
