SPECIFICATION Spec
CONSTANTS
  Targets <- MCTargets
  MayHang <- MCMayHang
  MaxPhrases = 2
  MaxBatch = 2
  MaxPieces = 1
CHECK_DEADLOCK FALSE
INVARIANTS SpokenInOrder NothingAbandoned RoomOutlivesSpeech OutcomeTrue
PROPERTIES OthersFinish SessionEnds
