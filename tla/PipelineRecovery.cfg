SPECIFICATION FairSpec
CONSTANTS
  r1 = r1
  r2 = r2
  s1 = s1
  s2 = s2
  m1 = m1
  NULL = NULL
  GONE = GONE
  Reviews <- OneReview
  Moderators <- OneModerator
  Slots <- TwoSlots
  AiVerdicts <- SafeOnly
  QueueAttempts = 2
  EnvAttempts = 3
  MaxStalledCount = 1
  Faults <- NoLockLoss
INVARIANTS
  NoDoubleProcessing
  PendingIsExplained
PROPERTY JobsSettle
