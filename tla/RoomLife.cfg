SPECIFICATION FairSpec
CONSTANTS
  RoomPlayer = {p1, p2, p3, p4}
  NoOne = NoOne
  MinPlayers = 2
  MaxPlayers = 3
CHECK_DEADLOCK FALSE
INVARIANTS
  RoomTypeOK
  OrderMatchesPlayers
  HostIsMember
  VoteIsAmongMembers
PROPERTIES
  KickTakesMajority
  HostLostWithLastMember
  OnlyEmptiedRoomsForgotten
  EmptyRoomRemoved
