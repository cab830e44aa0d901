SPECIFICATION Spec
CONSTANTS
  Targets <- MCTargets
  MayHang <- MCMayHang
  MaxPhrases = 1
  MaxBatch = 2
  MaxPieces = 1
CHECK_DEADLOCK FALSE
PROPERTY CapEndsSession
