SPECIFICATION PanelSpec
CONSTANTS
  NULL = NULL
  Texts = {"", "b"}
  Spellings = {"B", " "}
  Canonical <- Rewriting
  UserLimit = 2
  Shortnames <- TypedShortnames
  Initial <- OneRow
  Seeds <- FullAndBare
  Nases = {"b"}
  MaxLeft = 0
  Pages = {"nas", "devices", "segments", "circuits", "admins", "users", "assignments"}
  MaxId = 3
  MaxCalls = 2
  GroupNames = {"g", "h"}
  Values = {"v"}
  MaxRows = 2
  MaxRequests = 2
  Contents = {"", "integer", "uint32"}
  MaxSaves = 2
INVARIANTS PanelTypeOK TargetIsShown ListCatchesUp EditorShowsFile
PROPERTIES EditKeepsRest SavedAsShown EditStaysInGroup
CHECK_DEADLOCK FALSE
