SPECIFICATION Spec
CONSTANTS
  Recency <- RecencyTable
  Reviews <- FourReviews
  CreatedAt <- OnePerUnit
  Helpful <- Votes
  Flagged <- NewestFlagged
  OverFetch = 3
  MaxLimit = 2
  Requested <- OneOrThree
  MaxAge = 4
INVARIANTS
  TypeOK
  UndisturbedWalkIsExact
  PublicationsHideNothing
  WithdrawalsRepeatNothing
