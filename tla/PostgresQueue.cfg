CONSTANTS
  j1 = j1
  j2 = j2
  w1 = w1
  w2 = w2
  Jobs <- TwoJobs
  Workers <- TwoWorkers
  MaxClaims = 3
  NoMessage = NoMessage
  Lease = 3
  RetryDelay = 3
  MaxSkew = 1
  MaxLag = 1
  MaxTime = 4
SPECIFICATION Spec
SYMMETRY Symmetry
INVARIANTS
  TypeOK
  OnTimeHolderOwns
  RetryDelayRespected
PROPERTY ImplementsLeaseQueue
CHECK_DEADLOCK FALSE
