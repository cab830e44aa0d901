SPECIFICATION Spec
CONSTANTS
  MaxLag = 5
  RecoverTo = 2
  LongestFrame = 3
  MaxFrames = 5
INVARIANTS
  FramesAccounted
  LagBounded
PROPERTIES
  ShedSpacing
  NoWakeUpLost
  ImplementsLossyFifo
CHECK_DEADLOCK FALSE
