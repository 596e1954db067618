--------------------------- MODULE MCRoomManager ---------------------------
(* A few players that come and go, for TLC.  No symmetry: a room's life has *)
(* liveness to check.                                                       *)
EXTENDS RoomManager
============================================================================
