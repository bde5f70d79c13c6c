CONSTANTS
  Nobody = Nobody
  Rows <- StoredIds
  Ids <- AllIds
  Catalogue = {"inspect", "static_analysis", "implement", "test", "report"}
  Replies <- SomeLists
  Limits = {2, 12}
  EntryIds <- TaskIds
  PieceIds <- SplitIds
  MaxPieces = 2
  SilentOnEmpty = FALSE
  MinScore = 60
  Seen <- Evidence
  Opinions <- Views
  Reviewing = TRUE
  MaxChars = 24
  MaxResults = 3
  Bundles <- Contexts
  None = None
  NoOne = NoOne
  MinGap = 2
  MaxGap = 5
  Cooldown = 7
  VadStart = 2
  VadMax = 4
  VadPause = 2
  MaxTurns = 2
  Commands <- Said
  Clients = {c1, c2}
  Locked = TRUE
  MaxRestarts = 1
  MaxFaults = 1
  Devices = {0, 1, 2}
  Silent = 1
  MaxPeak = 2
  Nothing = Nothing
SPECIFICATION PartsSpec
INVARIANTS DecidesValidity PlanUsable GateIsEvidence TriageSound StreamFaithful ContextReduced
INVARIANTS SessionInv AnswersKept MicrophoneHears
PROPERTIES PathEnds SessionByDoubleClap AssistantAnswers
CHECK_DEADLOCK FALSE
