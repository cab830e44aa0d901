SPECIFICATION Spec
CONSTANTS
  SpeedupAt = 1
  SkipAt = 2
  PlayoutQueue = 4
  LongestBlock = 2
  SampleCap = 2
  MaxPhrases = 3
  MaxAudio = 4
INVARIANTS DriftBounded RecordsTrue
PROPERTY PhraseEnds
CHECK_DEADLOCK FALSE
