SPECIFICATION Spec
CONSTANTS
  Tokens <- MCTokens
  Conjunctions <- MCConjunctions
  AgreementN = 2
  MinWords = 2
  MaxWords = 4
  WeakFrom = 3
  MaxWait = 1
  SilenceCommit = 1
  MaxText = 5
  MaxDrop = 1
  MaxAdd = 1
  MaxHyps = 5
  MaxClock = 1
CHECK_DEADLOCK FALSE
INVARIANTS OnlyAgreedWords PhraseShape RevisionsReported NothingLeftStable SpansForward
