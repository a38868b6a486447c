------------------------ MODULE MCModerationPipeline ------------------------
(* Instances of ModerationPipeline for TLC. *)
EXTENDS ModerationPipeline, TLC

CONSTANTS r1, r2, s1, s2, m1

OneReview == {r1}
TwoReviews == {r1, r2}
OneSlot == {s1}
TwoSlots == {s1, s2}
OneModerator == {m1}

\* One label of each outcome of AI_LABEL_TO_REVIEW_STATUS.
SafeOnly == {"safe"}
OnePerOutcome == {"safe", "spam", "medical_risk"}

AllFaults == FaultKinds
NoCrash == {"requestError", "lockLoss", "jobLoss"}
NoLockLoss == {"crash", "requestError", "handlerError"}
CrashOnly == {"crash"}
NoFault == {}

\* Reviews are alike, slots are alike: for runs without liveness properties.
Symmetry == Permutations(TwoReviews) \cup Permutations(TwoSlots)
==============================================================================
