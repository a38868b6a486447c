SPECIFICATION Spec
CONSTANTS
  p1 = p1
  p2 = p2
  p3 = p3
  rv1 = rv1
  c1 = c1
  c2 = c2
  a1 = a1
  a2 = a2
  n1 = n1
  n2 = n2
  NULL = NULL
  Places <- ThreePlaces
  Reviews <- OneReview
  Names <- TwoNames
  Score <- ScoreTable
  Threshold = 6
  Calls <- TwoCalls
  Admins <- TwoAdmins
INVARIANT NoReviewAtMergedPlace
