SPECIFICATION Spec
CONSTANTS
  N = 2
  InitialRandomHandCards = 1
  RequestableCode = {""}
  NoCard = NoCard
  Shields = {s1, s2, s3}
  Explosives = {x1}
  A = {a1}
  CodeOfA = "SWAP_TOP_BOTTOM"
  B = {b1}
  CodeOfB = "REORDER_TOP_3"
  C = {c1}
  CodeOfC = "DRAW_FROM_BOTTOM"
  D = {d1}
  CodeOfD = "PEEK_DECK"
  E = {e1}
  CodeOfE = "SHUFFLE_DECK"
  F = {}
  CodeOfF = "BLIND_HAND"
  Card <- MCCard
  Code <- MCCode
SYMMETRY MCSymmetry
CHECK_DEADLOCK FALSE
INVARIANTS
  CardConservation
