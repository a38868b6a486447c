SPECIFICATION Spec
CONSTANTS
  r1 = r1
  r2 = r2
  s1 = s1
  s2 = s2
  m1 = m1
  NULL = NULL
  GONE = GONE
  Reviews <- OneReview
  Moderators <- OneModerator
  Slots <- TwoSlots
  AiVerdicts <- OnePerOutcome
  QueueAttempts = 2
  EnvAttempts = 1
  MaxStalledCount = 1
  Faults <- AllFaults
INVARIANTS
  TypeOK
  CompletedJobIsFullyRecorded
  StatusExplained
  OverlapIsBounded
  PendingIsExplained
PROPERTIES
  ImplementsLifecycle
  RecordsOnlyGrow
