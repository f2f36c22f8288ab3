CONSTANTS
  Second = 8
  FullConfidence = 10
  FramesPerSecond = 4
  Packages <- TwoPackages
  Pinned <- PinnedBaseline
  MinimumDuration = 2
  LowConfidence = 5
  TicksPerBeat = 8
  MicrosPerSecond = 100
  MaxMidiTempo = 255
  ChunkSize = 2
  MaxSizeBytes = 2
  SampleRate = 2
  Channels = 1
  MaxDuration = 3
  OnsetTolerance = 1
  EvaluateOffset = TRUE
  OffsetRatio <- OneFifth
  OffsetMinimum = 1
  Setups <- MixedSetups
  Conversions <- SomeConversions
  EngineRuns <- SomeEngineRuns
  Recordings <- SmallRecordings
  Toolkits <- SomeToolkits
  References <- SomeReferences
  MaxRuns = 2
  Octaves <- FiveOctaves
SPECIFICATION Spec
INVARIANTS
  TypeOK
  OnlyKnownRefusals
  SizeLimitExact
  BestOfDuplicates
  TempoIsNearestOctave
  MovedOnlyWhenForced
  RepeatedPitchNotCut
  ScoreAddsUp
  SoundsAsHeard
  RegisteredTogether
  MatchingMaximal
CHECK_DEADLOCK FALSE
