SPECIFICATION TSpec
CONSTANTS
  Targets = {fr, te, ta}
  Multi = {te, ta}
  Flores = {te, ta}
  Family = Family
  Nllb = Nllb
  MaxPhrases = 2
  None = None
INVARIANTS EveryLanguageAnswered NothingQueues
CHECK_DEADLOCK FALSE
