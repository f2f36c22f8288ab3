CONSTANTS
  j1 = j1
  j2 = j2
  w1 = w1
  w2 = w2
  Jobs <- TwoJobs
  Workers <- TwoWorkers
  MaxClaims = 4
  NoMessage = NoMessage
  MaxAttempts = 2
  TerminalCodes <- OneCode
  MaxAborts = 1
  MaxExpiries = 0
  MaxAudioLosses = 1
  LostReplies = FALSE
SPECIFICATION FairSpec
PROPERTIES
  RowsDrain
  AcceptedFinishes
CHECK_DEADLOCK FALSE
