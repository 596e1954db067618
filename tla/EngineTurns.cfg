SPECIFICATION Spec
CONSTANTS
  N = 3
  InitialRandomHandCards = 1
  RequestableCode = {""}
  NoCard = NoCard
  Shields = {s1, s2, s3, s4}
  Explosives = {x1, x2}
  A = {a1}
  CodeOfA = "CANCEL"
  B = {b1}
  CodeOfB = "SKIP_ALL_TURNS"
  C = {c1}
  CodeOfC = "FORCE_EXTRA_TURNS"
  D = {d1}
  CodeOfD = "TARGET_EXTRA_TURNS"
  E = {}
  CodeOfE = "BLIND_HAND"
  F = {}
  CodeOfF = "BLIND_HAND"
  Card <- MCCard
  Code <- MCCode
SYMMETRY MCSymmetry
CHECK_DEADLOCK FALSE
INVARIANTS
  TypeOK
  TurnDebtDiscipline
  LastAliveWins
PROPERTIES
  TurnsChangeHands
  ShieldSaves
  ImplementsTurnOrder
