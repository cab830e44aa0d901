SPECIFICATION Spec
CONSTANTS
  Phones = {p1, p2}
  MaxAttempts = 2
  MaxSessions = 2
  Venue = Venue
  None = None
INVARIANTS OneSource MicReleased
PROPERTIES SpeakerTold SourceFound
CHECK_DEADLOCK FALSE
