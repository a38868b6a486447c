SPECIFICATION Spec
CONSTANTS
  r1 = r1
  r2 = r2
  s1 = s1
  s2 = s2
  m1 = m1
  NULL = NULL
  GONE = GONE
  Reviews <- OneReview
  Moderators <- OneModerator
  Slots <- TwoSlots
  AiVerdicts <- SafeOnly
  QueueAttempts = 3
  EnvAttempts = 3
  MaxStalledCount = 1
  Faults <- NoFault
INVARIANT VerdictStands
