---------------------------- MODULE RoomManager ----------------------------
(***************************************************************************)
(* The life of a room in the manager (internal/room/manager.go).  CreateRoom*)
(* holds the manager's lock; JoinRoom and LeaveRoom look the room up under *)
(* it, let it go, and then work on the room they found, so that they       *)
(* interleave: the room may have been emptied, and forgotten, in between.  *)
(* LeaveRoom takes the lock again to forget an empty room, but the room has *)
(* a lock of its own, and a player may come in between its second look and *)
(* the removal.  The other commands find and use the room in one step: they *)
(* need a member, and whoever was a member when the room was found keeps it *)
(* from being forgotten.                                                   *)
(*                                                                         *)
(* Rooms do not affect one another and a code is never given twice here,   *)
(* so the module follows one room.                                         *)
(***************************************************************************)
EXTENDS Room

VARIABLES
  created,     \* CreateRoom has made the room
  registered,  \* the manager's rooms map leads to it
  joining,     \* the players whose JoinRoom has found the room
  leaving      \* how far the LeaveRoom of each player has come

vars == <<roomVars, created, registered, joining, leaving>>

\* At "removing" the call holds the manager's lock.
LeaveStage == {"none", "found", "left", "empty", "removing"}

\* Nobody holds the lock, so GetRoom finds the room if it is registered.
GetRoom ==
  /\ registered
  /\ \A q \in RoomPlayer : leaving[q] # "removing"

Init ==
  /\ players = {} /\ playerOrder = <<>>
  /\ hostPlayerID = NoOne /\ isHost = {} /\ ready = {}
  /\ kickVote = NoKickVote /\ gameStarted = FALSE
  /\ created = FALSE /\ registered = FALSE
  /\ joining = {}
  /\ leaving = [p \in RoomPlayer |-> "none"]

CreateRoom(p) ==
  /\ ~created
  /\ NewRoom(p)
  /\ created' = TRUE
  /\ registered' = TRUE
  /\ UNCHANGED <<joining, leaving>>

----------------------------------------------------------------------------
(* JoinRoom: GetRoom, then Join.  A player is new: its id was drawn for it. *)

JoinRoomFind(p) ==
  /\ GetRoom
  /\ p \notin players \cup joining
  /\ leaving[p] = "none"
  /\ joining' = joining \cup {p}
  /\ UNCHANGED <<roomVars, created, registered, leaving>>

\* With the room full the call fails, and that is all.
JoinRoomJoin(p) ==
  /\ p \in joining
  /\ joining' = joining \ {p}
  /\ \/ Join(p)
     \/ Cardinality(players) >= MaxPlayers /\ UNCHANGED roomVars
  /\ UNCHANGED <<created, registered, leaving>>

----------------------------------------------------------------------------
(* LeaveRoom: GetRoom, Leave, PlayerCount, and with the manager's lock held *)
(* again a second look before the room is forgotten.                       *)

LeaveStep(p, from, to) ==
  /\ leaving[p] = from
  /\ leaving' = [leaving EXCEPT ![p] = to]

LeaveRoomFind(p) ==
  /\ GetRoom
  /\ p \in players
  /\ LeaveStep(p, "none", "found")
  /\ UNCHANGED <<roomVars, created, registered, joining>>

\* A player who has been kicked in between gets ErrPlayerNotInRoom.
LeaveRoomLeave(p) ==
  /\ \/ p \in players /\ Leave(p) /\ LeaveStep(p, "found", "left")
     \/ p \notin players /\ UNCHANGED roomVars /\ LeaveStep(p, "found", "none")
  /\ UNCHANGED <<created, registered, joining>>

\* Mutant: nobody is counted.
LeaveRoomCount_Mutant(p) ==
  /\ LeaveStep(p, "left", "removing")
  /\ UNCHANGED <<roomVars, created, registered, joining>>

LeaveRoomCount(p) ==
  /\ LeaveStep(p, "left", IF players = {} THEN "empty" ELSE "none")
  /\ UNCHANGED <<roomVars, created, registered, joining>>

\* The second look, with the lock: the room has to be there and empty still.
LeaveRoomLook(p) ==
  /\ \A q \in RoomPlayer : leaving[q] # "removing"
  /\ LeaveStep(p, "empty", IF registered /\ players = {} THEN "removing" ELSE "none")
  /\ UNCHANGED <<roomVars, created, registered, joining>>

\* Mutant: the room is removed for its host only, who is gone by then.
LeaveRoomDelete_Mutant(p) ==
  /\ LeaveStep(p, "removing", "none")
  /\ registered' = (registered /\ hostPlayerID # p)
  /\ UNCHANGED <<roomVars, created, joining>>

LeaveRoomDelete(p) ==
  /\ LeaveStep(p, "removing", "none")
  /\ registered' = FALSE
  /\ UNCHANGED <<roomVars, created, joining>>

Command(p) ==
  /\ GetRoom
  /\ RoomCommand(p)
  /\ UNCHANGED <<created, registered, joining, leaving>>

----------------------------------------------------------------------------
\* The calls under way.
CallStep(p) ==
  \/ JoinRoomJoin(p)
  \/ LeaveRoomLeave(p)
  \/ LeaveRoomCount(p)
  \/ LeaveRoomLook(p)
  \/ LeaveRoomDelete(p)

Next ==
  \E p \in RoomPlayer :
    \/ CreateRoom(p)
    \/ JoinRoomFind(p)
    \/ LeaveRoomFind(p)
    \/ Command(p)
    \/ CallStep(p)

Spec == Init /\ [][Next]_vars

\* The Go scheduler always carries on some call that is under way.
FairSpec == Spec /\ WF_vars(\E p \in RoomPlayer : CallStep(p))

----------------------------------------------------------------------------
(* What a room must keep to.                                               *)

\* Every variable has a value of its type, and a room holds MaxPlayers at
\* most however many JoinRoom calls have found a place free (Room.Join looks
\* again under the lock).
RoomTypeOK ==
  /\ players \subseteq RoomPlayer
  /\ Cardinality(players) <= MaxPlayers
  /\ playerOrder \in Seq(RoomPlayer)
  /\ hostPlayerID \in RoomPlayer \cup {NoOne}
  /\ isHost \subseteq RoomPlayer
  /\ ready \subseteq players
  /\ kickVote \in KickVote \cup {NoKickVote}
  /\ gameStarted \in BOOLEAN
  /\ created \in BOOLEAN /\ registered \in BOOLEAN
  /\ joining \subseteq RoomPlayer
  /\ leaving \in [RoomPlayer -> LeaveStage]

\* The join order, which becomes the order of play, lists the members once
\* each, whatever the ways they have come and gone.
OrderMatchesPlayers ==
  /\ players = {playerOrder[i] : i \in DOMAIN playerOrder}
  /\ Len(playerOrder) = Cardinality(players)

\* The host, if there is one, is a member, and the only one with the flag.
HostIsMember ==
  /\ hostPlayerID \in players \cup {NoOne}
  /\ isHost = {hostPlayerID} \ {NoOne}

\* A vote is about a member, and only other members who are still there have
\* approved of it.
VoteIsAmongMembers ==
  kickVote # NoKickVote =>
    /\ kickVote.TargetPlayerID \in players
    /\ kickVote.Approvals \subseteq players \ {kickVote.TargetPlayerID}

\* The room loses its host only with its last member.
HostLostWithLastMember ==
  [][hostPlayerID # NoOne /\ hostPlayerID' = NoOne => players' = {}]_vars

\* Whoever goes without leaving is kicked by more than half of the others in
\* the room at that moment; approvals given by those who left do not count.
KickTakesMajority ==
  [][\A p \in players \ players' :
       leaving' = leaving =>
         \E voter \in players' :
           2 * Cardinality((kickVote.Approvals \cup {voter}) \cap players')
             > Cardinality(players')]_vars

\* A room is forgotten only after everybody has left it: by then it has lost
\* its host, whoever may have come in since (both looks of LeaveRoom).
OnlyEmptiedRoomsForgotten ==
  [][registered /\ ~registered' => hostPlayerID = NoOne]_vars

\* A room that everybody has left is removed in the end, unless somebody
\* comes in, in whatever order the last leaves overlap.
EmptyRoomRemoved ==
  registered /\ players = {} ~> ~registered \/ players # {}

\* TestHostLeaveTransfersHost (manager_test.go:192): after the host has left,
\* a member is the host.
HostLeaveTransfersHost == players # {} => hostPlayerID \in players

\* TestDeletingEmptyRoomRemovesItFromManager (manager_test.go:111): it is an
\* empty room that is deleted.
DeletedRoomIsEmpty ==
  [][registered /\ ~registered' => players = {}]_vars
============================================================================
