SPECIFICATION RSpec
CONSTANTS
  ChunkFirst = 3
  ChunkNext = 5
  ShiftFirst = 2
  ShiftNext = 4
  CacheFirst = 1
  CacheNext = 5
  MaxBlock = 9
  MaxFrames = 24
  Decoder = "ctc"
  Vocabulary = {"a", "b"}
  Transcripts <- MCTranscripts
CHECK_DEADLOCK FALSE
INVARIANTS WindowFits EveryFrameHeard HistoryComplete StampsTrue FinalIsWhole
