CONSTANTS
  Nobody = Nobody
  Rows <- StoredIds
  Ids <- AllIds
  Catalogue = {"inspect", "static_analysis", "implement", "test", "report"}
  Replies <- OrderedLists
  Limits = {2, 12}
  EntryIds <- TaskIds
  PieceIds <- SplitIds
  MaxPieces = 2
  SilentOnEmpty = FALSE
  MinScore = 60
  Seen <- Evidence
  Opinions <- Views
  Reviewing = TRUE
  MaxChars = 24
  MaxResults = 3
  Bundles <- Contexts
SPECIFICATION MCSpec
INVARIANTS DependenciesAsWritten
CHECK_DEADLOCK FALSE
