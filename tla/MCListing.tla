------------------------------ MODULE MCListing ------------------------------
(* Instance of Listing for TLC: five rows, two of them created together. *)
EXTENDS Listing

FiveRows == 1..5
SecondAndThirdTied == [r \in FiveRows |-> IF r <= 2 THEN r ELSE r - 1]
\* MaxLimit is 2: a larger limit is capped.
OneOrThree == {1, 3}
==============================================================================
