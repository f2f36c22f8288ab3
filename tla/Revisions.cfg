CONSTANTS
  j1 = j1
  s1 = s1
  h1 = h1
  h2 = h2
  t1 = t1
  t2 = t2
  r1 = r1
  r2 = r2
  q1 = q1
  q2 = q2
  Jobs <- OneJob
  ModelIds <- ModelEvents
  HumanIds <- HumanEvents
  Batches <- SmallBatches
  MaxRevisions = 4
  Threads <- TwoThreads
  Results <- TwoResults
  EventsOf <- Notes
  MaxRegenerated = 1
  RequestIds <- TwoRequests
  None = None
SPECIFICATION Spec
SYMMETRY Symmetry
INVARIANTS
  TypeOK
  ReviewIsRevisionZero
  AnsweredIsRequested
  IdsNeverReused
  NothingOverwritten
PROPERTIES
  OnlyAppended
  ImplementsHistory
CHECK_DEADLOCK FALSE
