------------------------- MODULE PlaceRegistryProofs -------------------------
(***************************************************************************)
(* Machine-checked proofs about PlaceRegistry, for any number of places,   *)
(* reviews, calls and administrators and any symmetric similarity score.   *)
(***************************************************************************)
EXTENDS PlaceRegistry, TLAPS

LEMMA IdleType == Idle \in CallRecord
BY DEF Idle, CallRecord

LEMMA ResolvedType ==
    ASSUME TypeOK, NEW c \in Calls, NEW p \in Places \cup {NULL}, Resolved(c, p)
    PROVE  call' \in [Calls -> CallRecord]
<1>1. [Idle EXCEPT !.step = "attaching", !.place = p] \in CallRecord
  BY DEF Idle, CallRecord
<1>2. \E v \in CallRecord : call' = [call EXCEPT ![c] = v]
  BY <1>1, IdleType DEF Resolved
<1> QED
  BY <1>2 DEF TypeOK

LEMMA CallPreservesType ==
    ASSUME TypeOK, NEW c \in Calls, CallStep(c)
    PROVE  TypeOK'
<1> USE DEF TypeOK, placeRows
<1>1. ASSUME NEW n \in Names, Search(c, n) PROVE TypeOK'
  <2>1. Unmerged \subseteq Places
    BY DEF Unmerged, Existing
  <2>2. \A p \in Best(FindSimilar(n), n) : [Idle EXCEPT !.step = "matched", !.place = p] \in CallRecord
    BY DEF Best, FindSimilar, Unmerged, Existing, Idle, CallRecord
  <2>3. [step |-> "creating", name |-> n, place |-> NULL, seen |-> Unmerged] \in CallRecord
    BY <2>1 DEF CallRecord
  <2> QED
    BY <1>1, <2>2, <2>3 DEF Search
<1>2. CASE ReloadMatch(c)
  BY <1>2, ResolvedType DEF ReloadMatch, CallRecord
<1>3. ASSUME NEW p \in Places, CreatePlace(c, p) PROVE TypeOK'
  <2>1. call[c] \in CallRecord /\ call[c].name \in Names \cup {NULL} /\ call[c].seen \in SUBSET Places
    BY DEF CallRecord
  <2>2. call' \in [Calls -> CallRecord]
    BY <1>3, ResolvedType DEF CreatePlace
  <2> QED
    BY <1>3, <2>1, <2>2 DEF CreatePlace
<1>4. ASSUME NEW p \in Places, UseGivenPlace(c, p) PROVE TypeOK'
  BY <1>4 DEF UseGivenPlace, Idle, CallRecord
<1>5. ASSUME NEW r \in Reviews, AttachReview(c, r) PROVE TypeOK'
  BY <1>5, IdleType DEF AttachReview, CallRecord
<1>6. CASE CallEnds(c)
  BY <1>6, IdleType DEF CallEnds
<1> QED
  BY <1>1, <1>2, <1>3, <1>4, <1>5, <1>6 DEF CallStep

LEMMA MergePreservesType ==
    ASSUME TypeOK, NEW m \in Admins, MergeStep(m)
    PROVE  TypeOK'
<1> USE DEF TypeOK, placeRows
<1>1. ASSUME NEW s \in Places, NEW t \in Places, ReadForMerge(m, s, t) PROVE TypeOK'
  BY <1>1 DEF ReadForMerge, Asked, ReviewsAt, MergeRecord
<1>2. CASE UpdateStarts(m)
  BY <1>2 DEF UpdateStarts, InStep, ReviewsAt, MergeRecord
<1>3. CASE UpdateEnds(m)
  BY <1>3 DEF UpdateEnds, InStep, ReviewsAt, MergeRecord
<1>4. CASE MergePlaces(m)
  <2>1. merging[m] \in MergeRecord
    BY <1>4 DEF MergePlaces, InStep
  <2>2. merging[m].source \in Places /\ merging[m].target \in Places
    BY <2>1 DEF MergeRecord
  <2>3. merging' \in [Admins -> MergeRecord \cup {NULL}]
    BY <1>4 DEF MergePlaces, MergeRecord
  <2> QED
    BY <1>4, <2>2, <2>3 DEF MergePlaces
<1>5. CASE MergeEnds(m)
  BY <1>5 DEF MergeEnds
<1> QED
  BY <1>1, <1>2, <1>3, <1>4, <1>5 DEF MergeStep

LEMMA TypeStep == TypeOK /\ [Next]_vars => TypeOK'
<1> SUFFICES ASSUME TypeOK, [Next]_vars PROVE TypeOK'
  OBVIOUS
<1>1. CASE Next
  BY <1>1, CallPreservesType, MergePreservesType DEF Next
<1>2. CASE UNCHANGED vars
  BY <1>2 DEF TypeOK, vars, placeRows
<1> QED
  BY <1>1, <1>2

\* Every reachable state of the registry is well typed.
THEOREM RegistryTypeCorrect == Spec => []TypeOK
<1>1. Init => TypeOK
  BY IdleType DEF Init, TypeOK
<1> QED
  BY <1>1, TypeStep, PTL DEF Spec

------------------------------------------------------------------------------
(* Merge bookkeeping *)

\* What the calls in flight know is still there when they use it: rows are never deleted.
InFlightExists ==
    /\ \A c \in Calls : call[c].step \in {"matched", "attaching"} => call[c].place \in Existing
    /\ \A m \in Admins : merging[m] # NULL =>
          /\ merging[m].source \in Existing /\ merging[m].target \in Existing
          /\ merging[m].source # merging[m].target

BookInv == TypeOK /\ InFlightExists /\ MergeBookkeeping

LEMMA ResolvedExists ==
    ASSUME TypeOK, InFlightExists, NEW c \in Calls, NEW p \in Places, Resolved(c, p),
           p \in Existing', Existing \subseteq Existing'
    PROVE  \A d \in Calls : call'[d].step \in {"matched", "attaching"} => call'[d].place \in Existing'
<1> DEFINE attaching == [Idle EXCEPT !.step = "attaching", !.place = p]
<1>1. attaching.place = p /\ Idle.step = "idle"
  BY DEF Idle
<1> HIDE DEF attaching
<1>2. CASE call' = [call EXCEPT ![c] = attaching]
  BY <1>1, <1>2 DEF TypeOK, InFlightExists
<1>3. CASE call' = [call EXCEPT ![c] = Idle]
  BY <1>1, <1>3 DEF TypeOK, InFlightExists
<1> QED
  BY <1>2, <1>3 DEF Resolved, attaching

LEMMA CallPreservesBooks ==
    ASSUME BookInv, NEW c \in Calls, CallStep(c)
    PROVE  InFlightExists' /\ MergeBookkeeping'
<1> USE DEF BookInv, TypeOK, placeRows
<1>1. ASSUME NEW n \in Names, Search(c, n) PROVE InFlightExists' /\ MergeBookkeeping'
  <2>1. Existing' = Existing
    BY <1>1 DEF Search, Existing
  <2>2. \A p \in Best(FindSimilar(n), n) : p \in Existing
    BY DEF Best, FindSimilar, Unmerged
  <2>3. \A d \in Calls : call'[d].step \in {"matched", "attaching"} => call'[d].place \in Existing
    <3> DEFINE matched(p) == [Idle EXCEPT !.step = "matched", !.place = p]
               creating == [step |-> "creating", name |-> n, place |-> NULL, seen |-> Unmerged]
    <3>1. (\A p : matched(p).place = p) /\ creating.step = "creating"
      BY DEF Idle
    <3>2. \/ \E p \in Existing : call' = [call EXCEPT ![c] = matched(p)]
          \/ call' = [call EXCEPT ![c] = creating]
      BY <1>1, <2>2 DEF Search
    <3> HIDE DEF matched, creating
    <3> QED
      BY <3>1, <3>2 DEF InFlightExists
  <2> QED
    BY <1>1, <2>1, <2>3 DEF Search, InFlightExists, MergeBookkeeping
<1>2. CASE ReloadMatch(c)
  <2>1. Existing' = Existing /\ call[c].place \in Existing
    BY <1>2 DEF ReloadMatch, Existing, InFlightExists
  <2>2. call[c].place \in Places
    BY <2>1 DEF Existing
  <2>3. \A d \in Calls : call'[d].step \in {"matched", "attaching"} => call'[d].place \in Existing'
    BY <1>2, <2>1, <2>2, ResolvedExists DEF ReloadMatch
  <2> QED
    BY <1>2, <2>1, <2>3 DEF ReloadMatch, InFlightExists, MergeBookkeeping
<1>3. ASSUME NEW p \in Places, CreatePlace(c, p) PROVE InFlightExists' /\ MergeBookkeeping'
  <2>1. Existing' = Existing \cup {p}
    BY <1>3 DEF CreatePlace, Existing
  <2>2. \A d \in Calls : call'[d].step \in {"matched", "attaching"} => call'[d].place \in Existing'
    BY <1>3, <2>1, ResolvedExists DEF CreatePlace
  <2>3. MergeBookkeeping'
    BY <1>3, <2>1 DEF CreatePlace, MergeBookkeeping
  <2> QED
    BY <1>3, <2>1, <2>2, <2>3 DEF CreatePlace, InFlightExists
<1>4. ASSUME NEW p \in Places, UseGivenPlace(c, p) PROVE InFlightExists' /\ MergeBookkeeping'
  <2>1. Existing' = Existing
    BY <1>4 DEF UseGivenPlace, Existing
  <2> QED
    BY <1>4, <2>1 DEF UseGivenPlace, Idle, InFlightExists, MergeBookkeeping
<1>5. ASSUME NEW r \in Reviews, AttachReview(c, r) PROVE InFlightExists' /\ MergeBookkeeping'
  <2>1. Existing' = Existing /\ call[c].place \in Existing
    BY <1>5 DEF AttachReview, Existing, InFlightExists
  <2> QED
    BY <1>5, <2>1 DEF AttachReview, Idle, InFlightExists, MergeBookkeeping
<1>6. CASE CallEnds(c)
  <2>1. Existing' = Existing
    BY <1>6 DEF CallEnds, Existing
  <2> QED
    BY <1>6, <2>1 DEF CallEnds, Idle, InFlightExists, MergeBookkeeping
<1> QED
  BY <1>1, <1>2, <1>3, <1>4, <1>5, <1>6 DEF CallStep

LEMMA MergeKeepsExisting ==
    ASSUME BookInv, NEW m \in Admins, MergeStep(m)
    PROVE  Existing' = Existing
<1> USE DEF BookInv, TypeOK, placeRows
<1>1. CASE MergePlaces(m)
  BY <1>1 DEF MergePlaces, InStep, InFlightExists, Existing
<1> QED
  BY <1>1 DEF MergeStep, ReadForMerge, UpdateStarts, UpdateEnds, MergeEnds, Existing

\* The ids a merge was asked for do not change before it ends.
LEMMA MergesKeepTheirIds ==
    ASSUME TypeOK, NEW m \in Admins, UpdateStarts(m) \/ UpdateEnds(m) \/ MergePlaces(m) \/ MergeEnds(m),
           NEW o \in Admins, merging'[o] # NULL
    PROVE  /\ merging[o] # NULL
           /\ merging'[o].source = merging[o].source /\ merging'[o].target = merging[o].target
<1> USE DEF TypeOK
<1>1. CASE UpdateStarts(m)
  BY <1>1 DEF UpdateStarts, InStep, MergeRecord
<1>2. CASE UpdateEnds(m)
  BY <1>2 DEF UpdateEnds, InStep, MergeRecord
<1>3. CASE MergePlaces(m)
  BY <1>3 DEF MergePlaces, MergeRecord
<1>4. CASE MergeEnds(m)
  BY <1>4 DEF MergeEnds
<1> QED
  BY <1>1, <1>2, <1>3, <1>4

LEMMA MergePreservesBooks ==
    ASSUME BookInv, NEW m \in Admins, MergeStep(m)
    PROVE  InFlightExists' /\ MergeBookkeeping'
<1> USE DEF BookInv, TypeOK, placeRows
<1>1. Existing' = Existing
  BY MergeKeepsExisting
<1>2. ASSUME NEW s \in Places, NEW t \in Places, ReadForMerge(m, s, t)
      PROVE  InFlightExists' /\ MergeBookkeeping'
  BY <1>1, <1>2 DEF ReadForMerge, Asked, InFlightExists, MergeBookkeeping
<1>3. CASE MergePlaces(m)
  <2> DEFINE s == merging[m].source
             t == merging[m].target
             moved == merging[m].rows
  <2>1. /\ s \in Existing /\ t \in Existing /\ s # t
        /\ s \in Places /\ t \in Places /\ t # NULL
    BY <1>3, ScoreAssumption DEF MergePlaces, InStep, InFlightExists, Existing
  <2>2. /\ reviewPlace' = [r \in Reviews |-> IF r \in moved THEN t ELSE reviewPlace[r]]
        /\ placeStatus' = [placeStatus EXCEPT ![s] = "MERGED"]
        /\ canonical' = [canonical EXCEPT ![s] = t]
        /\ call' = call
    BY <1>3 DEF MergePlaces
  <2> HIDE DEF s, t, moved
  <2>3. InFlightExists'
    BY <1>1, <1>3, <2>2, MergesKeepTheirIds DEF InFlightExists
  <2>4. MergeBookkeeping'
    BY <1>1, <2>1, <2>2 DEF MergeBookkeeping
  <2> QED
    BY <2>3, <2>4
<1>4. CASE UpdateStarts(m) \/ UpdateEnds(m) \/ MergeEnds(m)
  <2>1. UNCHANGED <<placeRows, reviewPlace, call>>
    BY <1>4 DEF UpdateStarts, UpdateEnds, MergeEnds
  <2> QED
    BY <1>1, <1>4, <2>1, MergesKeepTheirIds DEF InFlightExists, MergeBookkeeping
<1> QED
  BY <1>2, <1>3, <1>4 DEF MergeStep

LEMMA BookStep == BookInv /\ [Next]_vars => BookInv'
<1> SUFFICES ASSUME BookInv, [Next]_vars PROVE InFlightExists' /\ MergeBookkeeping'
  BY TypeStep DEF BookInv
<1>1. CASE Next
  BY <1>1, CallPreservesBooks, MergePreservesBooks DEF Next
<1>2. CASE UNCHANGED vars
  BY <1>2 DEF BookInv, InFlightExists, MergeBookkeeping, Existing, vars, placeRows
<1> QED
  BY <1>1, <1>2

LEMMA BookInvariant == Spec => []BookInv
<1>1. Init => BookInv
  BY IdleType, ScoreAssumption DEF Init, BookInv, TypeOK, InFlightExists, MergeBookkeeping, Idle
<1> QED
  BY <1>1, BookStep, PTL DEF Spec

\* The merged places are exactly those with a canonical place, which is another place
\* and exists, and every review is at a place that exists, however merges interleave.
THEOREM MergesKeepTheBooks == Spec => []MergeBookkeeping
<1>1. BookInv => MergeBookkeeping
  BY DEF BookInv
<1> QED
  BY <1>1, BookInvariant, PTL

------------------------------------------------------------------------------
(* What a merge takes along *)

\* The reviews that have been at the source since the merge was asked for are in the
\* snapshot of its first statement, and no other merge can take away a row once it is
\* locked: what a commit moves is still at the source.
SourceIsHeld(m) ==
    /\ \A r \in merging[m].here : reviewPlace[r] = merging[m].source
    /\ merging[m].step # "read" => merging[m].here \subseteq merging[m].rows
    /\ merging[m].step = "moved" => \A r \in merging[m].rows : reviewPlace[r] = merging[m].source

MergesAreIsolated ==
    /\ \A m \in Admins : merging[m] # NULL => SourceIsHeld(m)
    /\ \A m, o \in Admins : m # o /\ InStep(m, "moved") /\ InStep(o, "moved") =>
          merging[m].rows \cap merging[o].rows = {}

MoveInv == BookInv /\ MergesAreIsolated

LEMMA CallsKeepIsolation ==
    ASSUME MoveInv, NEW c \in Calls, CallStep(c)
    PROVE  MergesAreIsolated'
<1> USE DEF MoveInv, BookInv, TypeOK
<1>1. merging' = merging
  BY DEF CallStep, Search, ReloadMatch, CreatePlace, UseGivenPlace, AttachReview, CallEnds
<1>2. \A r \in Reviews : reviewPlace[r] # NULL => reviewPlace'[r] = reviewPlace[r]
  BY DEF CallStep, Search, ReloadMatch, CreatePlace, UseGivenPlace, AttachReview, CallEnds
<1>3. ASSUME NEW m \in Admins, merging[m] # NULL PROVE SourceIsHeld(m)'
  <2>1. /\ merging[m].source \in Places /\ merging[m].source # NULL
        /\ merging[m].here \subseteq Reviews /\ merging[m].rows \subseteq Reviews
    BY <1>3, ScoreAssumption DEF MergeRecord
  <2> QED
    BY <1>1, <1>2, <1>3, <2>1 DEF MergesAreIsolated, SourceIsHeld
<1> QED
  BY <1>1, <1>3 DEF MergesAreIsolated, InStep

LEMMA MergesKeepIsolation ==
    ASSUME MoveInv, NEW m \in Admins, MergeStep(m)
    PROVE  MergesAreIsolated'
<1> USE DEF MoveInv, BookInv, TypeOK
<1>1. ASSUME NEW s \in Places, NEW t \in Places, ReadForMerge(m, s, t) PROVE MergesAreIsolated'
  <2>1. /\ merging' = [merging EXCEPT ![m] = Asked(s, t)] /\ reviewPlace' = reviewPlace
        /\ Asked(s, t).step = "read" /\ Asked(s, t).source = s
        /\ Asked(s, t).here = ReviewsAt(s)
    BY <1>1 DEF ReadForMerge, Asked
  <2>2. \A o \in Admins \ {m} : merging'[o] = merging[o]
    BY <2>1
  <2>3. merging'[m] = Asked(s, t)
    BY <2>1
  <2>4. SourceIsHeld(m)'
    BY <2>1, <2>3 DEF SourceIsHeld, ReviewsAt
  <2>5. ~InStep(m, "moved")'
    BY <2>1, <2>3 DEF InStep
  <2>6. \A o \in Admins \ {m} : merging'[o] # NULL => SourceIsHeld(o)'
    BY <2>1, <2>2 DEF MergesAreIsolated, SourceIsHeld
  <2>7. \A o \in Admins \ {m} : InStep(o, "moved")' => InStep(o, "moved")
    BY <2>2 DEF InStep
  <2>8. ASSUME NEW o \in Admins, NEW q \in Admins, o # q, InStep(o, "moved")', InStep(q, "moved")'
        PROVE  merging'[o].rows \cap merging'[q].rows = {}
    <3>1. o # m /\ q # m
      BY <2>5, <2>8
    <3> QED
      BY <2>2, <2>7, <2>8, <3>1 DEF MergesAreIsolated
  <2>9. \A o \in Admins : merging'[o] # NULL => SourceIsHeld(o)'
    BY <2>4, <2>6
  <2> QED
    BY <2>8, <2>9, Zenon DEF MergesAreIsolated
<1>2. CASE UpdateStarts(m)
  <2>1. /\ reviewPlace' = reviewPlace
        /\ \A o \in Admins \ {m} : merging'[o] = merging[o]
        /\ merging[m] # NULL /\ merging[m] \in MergeRecord
    BY <1>2 DEF UpdateStarts, InStep
  <2>2. /\ merging'[m].source = merging[m].source /\ merging'[m].here = merging[m].here
        /\ merging'[m].step = "moving" /\ merging'[m].rows = ReviewsAt(merging[m].source)
    BY <1>2, <2>1 DEF UpdateStarts, MergeRecord
  <2>3. merging[m].here \subseteq Reviews
    BY <2>1 DEF MergeRecord
  <2> QED
    BY <2>1, <2>2, <2>3 DEF MergesAreIsolated, SourceIsHeld, InStep, ReviewsAt
<1>3. CASE UpdateEnds(m)
  <2>1. /\ reviewPlace' = reviewPlace
        /\ \A o \in Admins \ {m} : merging'[o] = merging[o]
        /\ merging[m] # NULL /\ merging[m] \in MergeRecord /\ merging[m].step = "moving"
        /\ RowsFree(m)
    BY <1>3 DEF UpdateEnds, InStep
  <2>2. /\ merging'[m].source = merging[m].source /\ merging'[m].here = merging[m].here
        /\ merging'[m].step = "moved"
        /\ merging'[m].rows = merging[m].rows \cap ReviewsAt(merging[m].source)
    <3> DEFINE left == merging[m].rows \cap ReviewsAt(merging[m].source)
    <3>1. merging'[m] = [merging[m] EXCEPT !.step = "moved", !.rows = left]
      <4>1. merging' = [merging EXCEPT ![m] = [merging[m] EXCEPT !.step = "moved", !.rows = left]]
        BY <1>3 DEF UpdateEnds
      <4> HIDE DEF left
      <4> QED
        BY <4>1
    <3> HIDE DEF left
    <3>2. /\ merging'[m].source = merging[m].source /\ merging'[m].here = merging[m].here
          /\ merging'[m].step = "moved" /\ merging'[m].rows = left
      BY <2>1, <3>1 DEF MergeRecord
    <3> QED
      BY <3>2 DEF left
  <2>3. merging[m].here \subseteq Reviews
    BY <2>1 DEF MergeRecord
  <2>4. \A o \in Admins : merging'[o] # NULL => SourceIsHeld(o)'
    BY <2>1, <2>2, <2>3 DEF MergesAreIsolated, SourceIsHeld, ReviewsAt
  <2>5. \A o \in Admins \ {m} : InStep(o, "moved") => merging[o].rows \cap merging'[m].rows = {}
    BY <2>1, <2>2 DEF RowsFree
  <2>6. \A o \in Admins \ {m} : InStep(o, "moved")' => InStep(o, "moved")
    BY <2>1 DEF InStep
  <2>7. ASSUME NEW o \in Admins, NEW q \in Admins, o # q, InStep(o, "moved")', InStep(q, "moved")'
        PROVE  merging'[o].rows \cap merging'[q].rows = {}
    <3>1. CASE o = m
      BY <2>1, <2>5, <2>6, <2>7, <3>1
    <3>2. CASE q = m
      BY <2>1, <2>5, <2>6, <2>7, <3>2
    <3>3. CASE o # m /\ q # m
      BY <2>1, <2>6, <2>7, <3>3 DEF MergesAreIsolated
    <3> QED
      BY <3>1, <3>2, <3>3
  <2> QED
    BY <2>4, <2>7, Zenon DEF MergesAreIsolated
<1>4. CASE MergePlaces(m)
  <2> DEFINE moved == merging[m].rows
  <2>1. /\ merging[m] # NULL /\ merging[m].step = "moved"
        /\ \A r \in moved : reviewPlace[r] = merging[m].source
    BY <1>4 DEF MergePlaces, InStep, MergesAreIsolated, SourceIsHeld
  <2>2. /\ \A r \in Reviews : r \notin moved => reviewPlace'[r] = reviewPlace[r]
        /\ merging'[m] = NULL
        /\ \A o \in Admins \ {m} :
              merging'[o] = IF merging[o] = NULL THEN NULL
                            ELSE [merging[o] EXCEPT !.here = @ \ moved]
    BY <1>4 DEF MergePlaces
  <2>3. ASSUME NEW o \in Admins \ {m}, merging'[o] # NULL
        PROVE  /\ merging[o] # NULL /\ merging[o] \in MergeRecord
               /\ merging'[o].source = merging[o].source /\ merging'[o].step = merging[o].step
               /\ merging'[o].rows = merging[o].rows
               /\ merging'[o].here = merging[o].here \ moved
    <3>1. merging[o] # NULL
      BY <2>2, <2>3
    <3>2. merging[o] \in MergeRecord
      BY <3>1
    <3>3. merging'[o] = [merging[o] EXCEPT !.here = merging[o].here \ moved]
      BY <2>2, <3>1
    <3> HIDE DEF moved
    <3> QED
      BY <3>1, <3>2, <3>3 DEF MergeRecord
  <2> HIDE DEF moved
  <2>4. ASSUME NEW o \in Admins \ {m}, merging'[o] # NULL PROVE SourceIsHeld(o)'
    <3>1. /\ SourceIsHeld(o)
          /\ merging[o].here \subseteq Reviews /\ merging[o].rows \subseteq Reviews
      BY <2>3, <2>4 DEF MergesAreIsolated, MergeRecord
    <3>2. merging[o].step = "moved" => merging[o].rows \cap moved = {}
      BY <2>1, <2>3, <2>4 DEF MergesAreIsolated, InStep, moved
    <3>3. /\ merging'[o].source = merging[o].source /\ merging'[o].step = merging[o].step
          /\ merging'[o].rows = merging[o].rows
          /\ merging'[o].here = merging[o].here \ moved
      BY <2>3, <2>4
    <3> QED
      BY <2>2, <3>1, <3>2, <3>3 DEF SourceIsHeld
  <2> QED
    BY <2>2, <2>3, <2>4 DEF MergesAreIsolated, InStep
<1>5. CASE MergeEnds(m)
  BY <1>5 DEF MergeEnds, MergesAreIsolated, SourceIsHeld, InStep
<1> QED
  BY <1>1, <1>2, <1>3, <1>4, <1>5 DEF MergeStep

LEMMA MoveStep == MoveInv /\ [Next]_vars => MoveInv'
<1> SUFFICES ASSUME MoveInv, [Next]_vars PROVE MergesAreIsolated'
  BY BookStep DEF MoveInv
<1>1. CASE Next
  BY <1>1, CallsKeepIsolation, MergesKeepIsolation DEF Next
<1>2. CASE UNCHANGED vars
  BY <1>2 DEF MoveInv, MergesAreIsolated, SourceIsHeld, InStep, vars
<1> QED
  BY <1>1, <1>2

LEMMA MoveInvariant == Spec => []MoveInv
<1>1. Init => MoveInv
  <2>1. Init => BookInv
    BY IdleType, ScoreAssumption DEF Init, BookInv, TypeOK, InFlightExists, MergeBookkeeping, Idle
  <2> QED
    BY <2>1 DEF Init, MoveInv, MergesAreIsolated, InStep
<1> QED
  BY <1>1, MoveStep, PTL DEF Spec

\* What a commit does, its rows being at the source.
LEMMA CommitMoves ==
    ASSUME MoveInv, NEW m \in Admins, MergePlaces(m)
    PROVE  LET s == merging[m].source
               t == merging[m].target
               moved == merging[m].rows IN
           /\ s \in Places /\ t \in Places /\ s # t
           /\ merging[m].here \subseteq moved /\ moved \subseteq Reviews
           /\ \A r \in moved : reviewPlace[r] = s
           /\ reviewPlace' = [r \in Reviews |-> IF r \in moved THEN t ELSE reviewPlace[r]]
           /\ placeStatus' = [placeStatus EXCEPT ![s] = "MERGED"]
           /\ canonical' = [canonical EXCEPT ![s] = t]
<1> USE DEF MoveInv, BookInv, TypeOK
<1>1. merging[m] # NULL /\ merging[m] \in MergeRecord /\ merging[m].step = "moved"
  BY DEF MergePlaces, InStep
<1>2. /\ merging[m].source \in Places /\ merging[m].target \in Places
      /\ merging[m].rows \subseteq Reviews
  BY <1>1 DEF MergeRecord
<1>3. merging[m].source # merging[m].target /\ SourceIsHeld(m)
  BY <1>1 DEF InFlightExists, MergesAreIsolated
<1> QED
  BY <1>1, <1>2, <1>3 DEF MergePlaces, SourceIsHeld

\* A review changes its place only when a merge of that place commits, to the canonical
\* one, and a commit takes along every review that was there since the merge was asked
\* for, however many merges at READ COMMITTED wait for each other's rows.
THEOREM MovesAreMerges == Spec => ReviewsMoveWithMerges
<1> DEFINE Moves == /\ \A r \in Reviews : MovesWithMerge(r)
                    /\ \A m \in Admins : TakesAlong(m)
<1>1. MoveInv /\ [Next]_vars => [Moves]_vars
  <2> SUFFICES ASSUME MoveInv, Next PROVE Moves
    OBVIOUS
  <2> USE DEF MoveInv, BookInv, TypeOK
  <2>1. ASSUME NEW r \in Reviews, reviewPlace[r] # NULL, reviewPlace'[r] # reviewPlace[r]
        PROVE  MovesWithMerge(r)
    <3>1. PICK m \in Admins : MergePlaces(m)
      <4>1. ASSUME NEW c \in Calls PROVE ~CallStep(c)
        BY <2>1 DEF CallStep, Search, ReloadMatch, CreatePlace, UseGivenPlace, AttachReview, CallEnds
      <4> QED
        BY <2>1, <4>1 DEF Next, MergeStep, ReadForMerge, UpdateStarts, UpdateEnds, MergeEnds
    <3> QED
      BY <2>1, <3>1, CommitMoves DEF MovesWithMerge
  <2>2. ASSUME NEW m \in Admins, MergePlaces(m) PROVE TakesAlong(m)
    BY <2>2, CommitMoves DEF TakesAlong
  <2> QED
    BY <2>1, <2>2 DEF MovesWithMerge, TakesAlong
<1> QED
  BY <1>1, MoveInvariant, PTL DEF Spec, ReviewsMoveWithMerges

------------------------------------------------------------------------------
(* Duplicates *)

\* What a creator saw when it searched was not similar to the name it was creating.
CreatorsSawNoDuplicate ==
    /\ \A p \in Existing : name[p] \in Names
    /\ \A c \in Calls : call[c].step = "creating" =>
          /\ call[c].name \in Names
          /\ \A q \in call[c].seen : q \in Existing /\ ~Similar(name[q], call[c].name)
    /\ \A p \in Existing : \A q \in seen[p] : q \in Existing /\ ~Similar(name[q], name[p])

RaceInv == BookInv /\ CreatorsSawNoDuplicate

LEMMA RaceStep == RaceInv /\ [Next]_vars => RaceInv'
<1> SUFFICES ASSUME RaceInv, [Next]_vars, ~UNCHANGED vars PROVE CreatorsSawNoDuplicate'
  BY BookStep DEF RaceInv, CreatorsSawNoDuplicate, Existing, vars, placeRows
<1> USE DEF RaceInv, BookInv, TypeOK, placeRows
<1>1. ASSUME NEW c \in Calls, NEW n \in Names, Search(c, n) PROVE CreatorsSawNoDuplicate'
  <2> DEFINE matched(p) == [Idle EXCEPT !.step = "matched", !.place = p]
             creating == [step |-> "creating", name |-> n, place |-> NULL, seen |-> Unmerged]
  <2>1. \A p : matched(p).step = "matched"
    BY DEF Idle
  <2>2. /\ creating.step = "creating" /\ creating.name = n /\ creating.seen = Unmerged
    OBVIOUS
  <2>3. FindSimilar(n) = {} => \A q \in Unmerged : q \in Existing /\ ~Similar(name[q], n)
    BY DEF FindSimilar, Unmerged
  <2>4. Existing' = Existing
    BY <1>1 DEF Search, Existing
  <2>5. \/ \E p : call' = [call EXCEPT ![c] = matched(p)]
        \/ FindSimilar(n) = {} /\ call' = [call EXCEPT ![c] = creating]
    BY <1>1 DEF Search
  <2>6. name' = name /\ seen' = seen
    BY <1>1 DEF Search
  <2> HIDE DEF matched, creating
  <2>7. \A d \in Calls : call'[d].step = "creating" =>
          /\ call'[d].name \in Names
          /\ \A q \in call'[d].seen : q \in Existing /\ ~Similar(name[q], call'[d].name)
    BY <2>1, <2>2, <2>3, <2>5 DEF CreatorsSawNoDuplicate
  <2> QED
    BY <2>4, <2>6, <2>7 DEF CreatorsSawNoDuplicate
<1>2. ASSUME NEW c \in Calls, NEW p \in Places, CreatePlace(c, p) PROVE CreatorsSawNoDuplicate'
  <2>1. \E v : v.step # "creating" /\ call' = [call EXCEPT ![c] = v]
    BY <1>2 DEF CreatePlace, Resolved, Idle
  <2>2. \A d \in Calls : call'[d].step = "creating" => call'[d] = call[d]
    BY <2>1
  <2>3. /\ Existing' = Existing \cup {p} /\ p \notin Existing
        /\ name' = [name EXCEPT ![p] = call[c].name]
        /\ seen' = [seen EXCEPT ![p] = call[c].seen]
        /\ call[c].step = "creating"
    BY <1>2 DEF CreatePlace, Existing
  <2> QED
    BY <2>2, <2>3 DEF CreatorsSawNoDuplicate, Existing
<1>3. ASSUME NEW c \in Calls, CallStep(c),
             ~\E n \in Names : Search(c, n), ~\E p \in Places : CreatePlace(c, p)
      PROVE  CreatorsSawNoDuplicate'
  <2>1. /\ \E v : v.step # "creating" /\ call' = [call EXCEPT ![c] = v]
        /\ UNCHANGED <<placeRows, seen>>
    BY <1>3 DEF CallStep, ReloadMatch, Resolved, UseGivenPlace, AttachReview, CallEnds, Idle
  <2>2. \A d \in Calls : call'[d].step = "creating" => call'[d] = call[d]
    BY <2>1
  <2>3. Existing' = Existing
    BY <2>1 DEF Existing
  <2> QED
    BY <2>1, <2>2, <2>3 DEF CreatorsSawNoDuplicate
<1>4. ASSUME NEW m \in Admins, MergeStep(m) PROVE CreatorsSawNoDuplicate'
  <2>1. Existing' = Existing
    BY <1>4, MergeKeepsExisting
  <2>2. UNCHANGED <<name, call, seen>>
    BY <1>4 DEF MergeStep, ReadForMerge, UpdateStarts, UpdateEnds, MergePlaces, MergeEnds
  <2> QED
    BY <2>1, <2>2 DEF CreatorsSawNoDuplicate
<1> QED
  BY <1>1, <1>2, <1>3, <1>4 DEF Next, vars

LEMMA RaceInvariant == Spec => []RaceInv
<1>1. Init => RaceInv
  <2>1. Init => BookInv
    BY IdleType, ScoreAssumption DEF Init, BookInv, TypeOK, InFlightExists, MergeBookkeeping, Idle
  <2> QED
    BY <2>1 DEF Init, RaceInv, CreatorsSawNoDuplicate, Existing, Idle
<1> QED
  BY <1>1, RaceStep, PTL DEF Spec

\* Two unmerged places whose names are similar: each creator's search had run before
\* the other place was inserted, for every symmetric score.
THEOREM DuplicatesNeedARace == Spec => []DuplicatesComeFromRaces
<1>1. RaceInv => DuplicatesComeFromRaces
  <2> SUFFICES ASSUME RaceInv, NEW p \in Unmerged, NEW q \in Unmerged,
                      Score[name[p]][name[q]] >= Threshold
               PROVE  p \notin seen[q] /\ q \notin seen[p]
    BY DEF DuplicatesComeFromRaces
  <2>1. p \in Existing /\ q \in Existing
    BY DEF Unmerged
  <2>2. name[p] \in Names /\ name[q] \in Names
    BY <2>1 DEF RaceInv, CreatorsSawNoDuplicate
  <2>3. Similar(name[p], name[q]) /\ Similar(name[q], name[p])
    BY <2>2, ScoreAssumption DEF Similar
  <2> QED
    BY <2>1, <2>3 DEF RaceInv, CreatorsSawNoDuplicate
<1> QED
  BY <1>1, RaceInvariant, PTL

------------------------------------------------------------------------------
(* Where the reviews at merged places come from *)

\* This is what holds of the README's promise that every review of the source is
\* reassigned: what ends up at a merged place was put at one by an id that was out of
\* date, or had come to the source only after the merge was asked for.
THEOREM OnlyRacesStrandReviews == Spec => StrandedByRaces
<1> DEFINE ByRaces == \A r \in Reviews : Stranded(r)' /\ ~Stranded(r) =>
              \/ reviewPlace'[r] # reviewPlace[r] /\ placeStatus[reviewPlace'[r]] = "MERGED"
              \/ \E m \in Admins : /\ MergePlaces(m)
                                   /\ merging[m].source = reviewPlace[r]
                                   /\ r \notin merging[m].here
<1>1. MoveInv /\ [Next]_vars => [ByRaces]_vars
  <2> SUFFICES ASSUME MoveInv, Next, NEW r \in Reviews, Stranded(r)', ~Stranded(r)
               PROVE  \/ reviewPlace'[r] # reviewPlace[r] /\ placeStatus[reviewPlace'[r]] = "MERGED"
                      \/ \E m \in Admins : /\ MergePlaces(m)
                                           /\ merging[m].source = reviewPlace[r]
                                           /\ r \notin merging[m].here
    OBVIOUS
  <2> USE DEF MoveInv, BookInv, TypeOK
  <2>1. BookInv'
    BY BookStep
  <2>2. reviewPlace'[r] \in Places /\ placeStatus'[reviewPlace'[r]] = "MERGED"
    BY <2>1 DEF Stranded
  <2>3. ASSUME UNCHANGED placeStatus
        PROVE  reviewPlace'[r] # reviewPlace[r] /\ placeStatus[reviewPlace'[r]] = "MERGED"
    BY <2>2, <2>3 DEF Stranded
  <2>4. ASSUME NEW c \in Calls, NEW p \in Places, CreatePlace(c, p) PROVE FALSE
    <3>1. reviewPlace' = reviewPlace /\ placeStatus' = [placeStatus EXCEPT ![p] = "ACTIVE"]
      BY <2>4 DEF CreatePlace
    <3> QED
      BY <2>2, <3>1 DEF Stranded
  <2>5. ASSUME NEW m \in Admins, MergePlaces(m)
        PROVE  \/ reviewPlace'[r] # reviewPlace[r] /\ placeStatus[reviewPlace'[r]] = "MERGED"
               \/ merging[m].source = reviewPlace[r] /\ r \notin merging[m].here
    <3> DEFINE s == merging[m].source
               t == merging[m].target
               moved == merging[m].rows
               here == merging[m].here
    <3>1. /\ s \in Places /\ t \in Places /\ s # t /\ here \subseteq moved
          /\ reviewPlace' = [q \in Reviews |-> IF q \in moved THEN t ELSE reviewPlace[q]]
          /\ placeStatus' = [placeStatus EXCEPT ![s] = "MERGED"]
      BY <2>5, CommitMoves
    <3> HIDE DEF s, t, moved, here
    <3>2. reviewPlace'[r] # s => placeStatus[reviewPlace'[r]] = "MERGED"
      BY <2>2, <3>1
    <3>3. reviewPlace'[r] = s => r \notin here /\ s = reviewPlace[r]
      BY <3>1
    <3>4. reviewPlace'[r] = reviewPlace[r] => reviewPlace'[r] = s
      BY <2>2, <3>2 DEF Stranded
    <3> QED
      BY <3>2, <3>3, <3>4 DEF s, here
  <2>6. ASSUME NEW c \in Calls, CallStep(c)
        PROVE  reviewPlace'[r] # reviewPlace[r] /\ placeStatus[reviewPlace'[r]] = "MERGED"
    BY <2>3, <2>4, <2>6
       DEF CallStep, Search, ReloadMatch, UseGivenPlace, AttachReview, CallEnds, placeRows
  <2>7. ASSUME NEW m \in Admins, MergeStep(m), ~MergePlaces(m)
        PROVE  reviewPlace'[r] # reviewPlace[r] /\ placeStatus[reviewPlace'[r]] = "MERGED"
    BY <2>3, <2>7 DEF MergeStep, ReadForMerge, UpdateStarts, UpdateEnds, MergeEnds, placeRows
  <2> QED
    BY <2>5, <2>6, <2>7 DEF Next
<1> QED
  BY <1>1, MoveInvariant, PTL DEF Spec, StrandedByRaces
==============================================================================
