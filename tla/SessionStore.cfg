SPECIFICATION TSpec
CONSTANTS
  first = first
  second = second
  third = third
  Services = {first, third}
  Replays = {second}
  RoomOf <- MCRoomOf
  Listeners = {ann}
  MaxTime = 1
  MaxChunks <- MCMaxChunks
INVARIANTS TakesOverItsRoom SettledIsClosed TranscriptsPaired
PROPERTY ClosedRowsAreFinal
CHECK_DEADLOCK FALSE
