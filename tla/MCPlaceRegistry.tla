--------------------------- MODULE MCPlaceRegistry ---------------------------
(* Instances of PlaceRegistry for TLC. *)
EXTENDS PlaceRegistry, TLC

CONSTANTS p1, p2, p3, rv1, c1, c2, a1, a2, n1, n2

ThreePlaces == {p1, p2, p3}
OneReview == {rv1}
TwoCalls == {c1, c2}
TwoAdmins == {a1, a2}
TwoNames == {n1, n2}

\* The two names are just similar enough, and exchanging them leaves the table as it is.
ScoreTable ==
    [n \in Names |-> [k \in Names |->
        IF n = k THEN 10 ELSE 6]]

Symmetry == Permutations(ThreePlaces) \cup Permutations(TwoNames)
            \cup Permutations(TwoCalls) \cup Permutations(TwoAdmins)
==============================================================================
