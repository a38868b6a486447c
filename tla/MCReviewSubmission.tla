-------------------------- MODULE MCReviewSubmission --------------------------
(* Instances of ReviewSubmission for TLC. *)
EXTENDS ReviewSubmission

CONSTANTS c1, c2, c3, i1, i2, f1, f2

ThreeCalls == {c1, c2, c3}
TwoSubmissions == {i1, i2}
TwoFiles == {f1, f2}

\* One submission without files, one with two.
NoneAndBoth == [i \in TwoSubmissions |-> IF i = i1 THEN {} ELSE TwoFiles]
AllFaults == {"crash", "requestError"}
==============================================================================
