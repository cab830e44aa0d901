SPECIFICATION TSpec
CONSTANTS
  first = first
  second = second
  third = third
  Services = {first, second, third}
  Replays = {}
  RoomOf <- MCRoomOf
  Listeners = {}
  MaxTime = 1
  MaxChunks <- MCNoChunks
INVARIANT NoDeadSessionOffered
CHECK_DEADLOCK FALSE
