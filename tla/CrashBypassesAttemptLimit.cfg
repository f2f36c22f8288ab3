CONSTANTS
  j1 = j1
  j2 = j2
  w1 = w1
  w2 = w2
  Jobs <- OneJob
  Workers <- OneWorker
  MaxClaims = 3
  NoMessage = NoMessage
  MaxAttempts = 2
  TerminalCodes <- OneCode
  MaxAborts = 2
  MaxExpiries = 0
  MaxAudioLosses = 0
  LostReplies = FALSE
SPECIFICATION Spec
INVARIANT AttemptsBounded
CHECK_DEADLOCK FALSE
