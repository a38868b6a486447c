SPECIFICATION FairSpec
CONSTANTS
  r1 = r1
  r2 = r2
  s1 = s1
  s2 = s2
  m1 = m1
  NULL = NULL
  GONE = GONE
  Reviews <- TwoReviews
  Moderators = {}
  Slots <- OneSlot
  AiVerdicts <- SafeOnly
  QueueAttempts = 2
  EnvAttempts = 2
  MaxStalledCount = 1
  Faults <- NoCrash
PROPERTY QueuedReviewIsDecided
\* The instance ends when its reviews are used up: no moderator is there to go on.
CHECK_DEADLOCK FALSE
