SPECIFICATION WSpec
CONSTANTS
  MaxWindow = 3
  Silence = 2
  SilenceLevel = 1
  SpeechLevel = 2
  Levels = {0, 1, 3}
  MaxGap = 1
  MaxAudio = 7
INVARIANT CostIsKnown
PROPERTY HypothesesGrow
CHECK_DEADLOCK FALSE
