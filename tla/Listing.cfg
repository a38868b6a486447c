SPECIFICATION Spec
CONSTANTS
  Rows <- FiveRows
  SortKey <- SecondAndThirdTied
  MaxLimit = 2
  Requested <- OneOrThree
  MaxChanges = 3
INVARIANTS
  TypeOK
  MissedOnlyForDepartures
  RepeatedOnlyForArrivals
  MetaMatchesItems
