SPECIFICATION SmoothSpec
CONSTANTS
  Local = local
  Remote = remote
  LaneCount = 1
  Creatures = {"goblin"}
  Spells = {"bolt"}
  Decks <- SmallDecks
  Opening <- FirstCards
  StartHealth = 1
  MaxAugment = 1
  MaxSent = 5
  MaxOnTheWay = 3
CHECK_DEADLOCK FALSE

PROPERTY SelfCorrects
