SPECIFICATION BothSpec
CONSTANTS
  NULL = NULL
  Tabs = {"a", "b"}
  MaxTokens = 2
  MaxFlight = 1
  Claims <- ThreeClaims
  Guarded <- TwoPages
  Jwts = {"admin", "auditor"}
  Streamers = {"admin"}
  MaxOpens = 2
INVARIANTS SessionTypeOK CallerIsShown ReconnectsOncePerOpening
PROPERTIES EveryTabLearnsLogout DrawerReconnects
CHECK_DEADLOCK FALSE
