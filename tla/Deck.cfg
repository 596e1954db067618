SPECIFICATION Spec
CONSTANT
  PlayerCount <- AnyPlayerCount
CHECK_DEADLOCK FALSE
INVARIANTS
  EveryTableIsDealt
  DealUsesTheDeck
