SPECIFICATION Spec
CONSTANTS
  N = 2
  InitialRandomHandCards = 2
  RequestableCode = {"", "TOKEN_A"}
  NoCard = NoCard
  Shields = {s1, s2}
  Explosives = {x1}
  A = {a1, a2}
  CodeOfA = "TOKEN_A"
  B = {b1, b2}
  CodeOfB = "CANCEL"
  C = {}
  CodeOfC = "BLIND_HAND"
  D = {}
  CodeOfD = "BLIND_HAND"
  E = {}
  CodeOfE = "BLIND_HAND"
  F = {}
  CodeOfF = "BLIND_HAND"
  Card <- MCCard
  Code <- MCCode
SYMMETRY MCSymmetry
CHECK_DEADLOCK FALSE
PROPERTIES
  TwoCancelsAllowComboToResolve
