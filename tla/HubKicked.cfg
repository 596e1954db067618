SPECIFICATION MCSpec
CONSTANTS
  RoomPlayer = {p1, p2, p3}
  NoOne = NoOne
  MinPlayers = 2
  MaxPlayers = 3
  Conn = {c1, c2}
  Timer = {t1}
  MaxChanges = 4
  MaxDown = 1
SYMMETRY MCSymmetry
CHECK_DEADLOCK FALSE
INVARIANTS
  KickedPlayerReceivesNotification
