CONSTANTS
  j1 = j1
  j2 = j2
  w1 = w1
  w2 = w2
  Jobs <- OneJob
  Workers <- TwoWorkers
  MaxClaims = 5
  NoMessage = NoMessage
  MaxAttempts = 3
  TerminalCodes <- OneCode
  MaxAborts = 2
  MaxExpiries = 2
  MaxAudioLosses = 1
  LostReplies = TRUE
SPECIFICATION Spec
SYMMETRY Symmetry
INVARIANTS
  TypeOK
  TokensUnique
  OnlyHeldRowsMatch
  ConsumedStaysAbsent
  OneFinalVerdict
  FinalStatusHonest
  VerdictIsLegal
  StrandedOnlyByTaint
CHECK_DEADLOCK FALSE
