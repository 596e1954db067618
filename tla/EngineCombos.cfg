SPECIFICATION FairSpec
CONSTANTS
  N = 2
  InitialRandomHandCards = 4
  RequestableCode = {"", "EXPLOSIVE_HOLDER"}
  NoCard = NoCard
  Shields = {s1, s2}
  Explosives = {x1}
  A = {a1}
  CodeOfA = "EXPLOSIVE_HOLDER"
  B = {b1, b2}
  CodeOfB = "TOKEN_A"
  C = {c1}
  CodeOfC = "WILD_TOKEN"
  D = {d1, d2}
  CodeOfD = "CANCEL"
  E = {e1}
  CodeOfE = "REORDER_TOP_5"
  F = {f1}
  CodeOfF = "SKIP_TURN"
  Card <- MCCard
  Code <- MCCode
CHECK_DEADLOCK FALSE
PROPERTIES
  ReactivePlacementKeepsTurn
  CancelWindowCloses
