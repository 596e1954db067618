SPECIFICATION Spec
CONSTANTS
  N = 2
  InitialRandomHandCards = 2
  RequestableCode = {""}
  NoCard = NoCard
  Shields = {s1, s2}
  Explosives = {x1}
  A = {a1}
  CodeOfA = "EXPLOSIVE_HOLDER"
  B = {b1}
  CodeOfB = "REQUEST_CARD"
  C = {c1}
  CodeOfC = "REVEAL_HELD_CARD"
  D = {d1}
  CodeOfD = "COLLECTIVE_RECYCLE"
  E = {e1}
  CodeOfE = "CANCEL"
  F = {}
  CodeOfF = "BLIND_HAND"
  Card <- MCCard
  Code <- MCCode
SYMMETRY MCSymmetry
CHECK_DEADLOCK FALSE
INVARIANTS
  ExplosivesHeldSafely
  NoQueueBetweenCommands
  MarksFollowCards
  PendingMatchesPhase
  OnlyKnownStalls
  OfferedCommandsAreAccepted
  ViewKeepsSecrets
PROPERTIES
  OnlyOfferedCommandsAreTaken
