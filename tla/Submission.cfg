SPECIFICATION FairSpec
CONSTANTS
  c1 = c1
  c2 = c2
  c3 = c3
  i1 = i1
  i2 = i2
  f1 = f1
  f2 = f2
  NULL = NULL
  Calls <- ThreeCalls
  Submissions <- TwoSubmissions
  Files <- TwoFiles
  Attached <- NoneAndBoth
  Faults <- AllFaults
INVARIANTS
  TypeOK
  AcceptedIsComplete
  MediaIsBacked
  OrphansComeFromFailures
PROPERTIES
  CallsEnd
  ImplementsPipeline
