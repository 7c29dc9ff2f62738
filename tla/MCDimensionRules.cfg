SPECIFICATION RulesSpec
CONSTANTS
  Registry <- RegistryVal
  Top <- TopVal
  Gate <- GateVal
  NaAllowed <- NaVal
  Eligible <- EligibleVal
  Review <- ReviewVal
  Offered <- OfferedVal
  AtStart <- AtStartVal
  ThisScope = "unit"
  Overlay <- OverlayVal
  MaxReviews = 2
INVARIANTS
  OppositionCaps
  LevelMeansStrength
PROPERTIES
  LevelFollowsEvidence
CHECK_DEADLOCK FALSE
