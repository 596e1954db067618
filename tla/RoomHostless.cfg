SPECIFICATION Spec
CONSTANTS
  RoomPlayer = {p1, p2}
  NoOne = NoOne
  MinPlayers = 2
  MaxPlayers = 2

CHECK_DEADLOCK FALSE
INVARIANTS
  HostLeaveTransfersHost
