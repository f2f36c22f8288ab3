CONSTANTS
  j1 = j1
  j2 = j2
  w1 = w1
  w2 = w2
  Jobs <- OneJob
  Workers <- TwoWorkers
  MaxClaims = 2
  NoMessage = NoMessage
  MaxAttempts = 2
  TerminalCodes <- OneCode
  MaxAborts = 0
  MaxExpiries = 0
  MaxAudioLosses = 0
  LostReplies = FALSE
SPECIFICATION Spec
PROPERTY FinalStatusIsFinal
CHECK_DEADLOCK FALSE
