SPECIFICATION Spec
CONSTANTS
  c1 = c1
  c2 = c2
  j1 = j1
  j2 = j2
  j3 = j3
  Connections <- TwoConnections
  Jobs <- ThreeJobs
  Concurrency = 2
  Patience = 3
  MaxSignals = 3
  MaxAdrift = 2
INVARIANTS
  TypeOK
  DatabaseOutlivesWork
  ExitsInTime
PROPERTY
  SignalEndsProcess
CHECK_DEADLOCK FALSE
