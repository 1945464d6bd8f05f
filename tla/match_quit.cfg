SPECIFICATION FairSpec
CONSTANTS
  Catalog <- QuitCatalog
  Matchups <- QuitMatchups
  LaneCount = 1
  HandLimit = 2
  StartHealth = 2
  OpeningHand = 2
  MaxQueue = 2
  Quitters = {0, 1}
  MaxRounds = 1
PROPERTIES GoneEndsMatch SurrenderEndsMatch NoCardAppears DecidedStands
CHECK_DEADLOCK FALSE
