SPECIFICATION Spec
CONSTANTS
  MaxTaps = 2
  Languages = {fr, ar}
  None = None
  MaxDetours = 1
INVARIANTS OneStream CountExplained FalseAlarmExplained
PROPERTIES NotLeftWaiting
CHECK_DEADLOCK FALSE
