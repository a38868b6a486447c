----------------------------- MODULE MCFeedWalk -----------------------------
(* Instances of FeedWalk for TLC. *)
EXTENDS FeedWalk

\* The unit of time is a fortnight: e^(-0.05 * 14) = 0.497 per unit, rounded.
RecencyTable == [age \in Ages |-> <<1000, 497, 247, 122, 61>>[age + 1]]

\* One review per fortnight, the oldest with the most votes, the newest flagged.
FourReviews == 1..4
OnePerUnit == [r \in FourReviews |-> r - 1]
Votes == [r \in FourReviews |-> CASE r = 1 -> 60 [] r = 2 -> 0 [] r = 3 -> 25 [] r = 4 -> 3]
NewestFlagged == {4}
\* MaxLimit is 2: a larger limit is capped.
OneOrThree == {1, 3}
==============================================================================
