SPECIFICATION Spec
CONSTANTS
  Catalog <- RulesCatalog
  Matchups <- RulesMatchups
  LaneCount = 2
  HandLimit = 3
  StartHealth = 5
  OpeningHand = 3
  MaxQueue = 1
  Quitters = {}
  MaxRounds = 2
INVARIANTS TypeOK OneLoser EmptyLanesAreBare CreaturesStand
PROPERTIES CombatIsFair BattleByTheBook
CHECK_DEADLOCK FALSE
