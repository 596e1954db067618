-------------------------------- MODULE Room --------------------------------
(***************************************************************************)
(* One room (internal/room/room.go): who is in it, who is its host, who is *)
(* ready, and the vote to kick a member.  Every action here is a method of *)
(* Room and runs under the room's lock.                                    *)
(*                                                                         *)
(* The id of a player stands for its token, too.  newPlayer draws a new id *)
(* for everyone who joins; here an id may come back once its player has    *)
(* gone, as someone of whom the room knows nothing.  Connected is left out: *)
(* it is set when a player is made and never cleared.                      *)
(***************************************************************************)
EXTENDS Integers, SequencesExt

CONSTANTS
  RoomPlayer,   \* the ids of the players that may ever join
  NoOne,        \* the empty player id
  MinPlayers,   \* players a game needs
  MaxPlayers    \* players a room and a game have at most

ASSUME RoomAssumption ==
  /\ NoOne \notin RoomPlayer
  /\ MinPlayers \in Nat \ {0}
  /\ MaxPlayers \in Nat /\ MinPlayers <= MaxPlayers

VARIABLES
  players,       \* players
  playerOrder,   \* playerOrder
  hostPlayerID,  \* hostPlayerID
  isHost,        \* the players whose IsHost is set
  ready,         \* the players whose Ready is set
  kickVote,      \* kickVote, NoKickVote for nil
  gameStarted    \* whether state is not nil

roomVars ==
  <<players, playerOrder, hostPlayerID, isHost, ready, kickVote, gameStarted>>

KickVote == [TargetPlayerID : RoomPlayer, Approvals : SUBSET RoomPlayer]
NoKickVote == [TargetPlayerID |-> NoOne, Approvals |-> {}]

\* Mutant: half of the others is enough.
RequiredKickApprovals_Mutant(vote, ps) ==
  (Cardinality(ps \ {vote.TargetPlayerID}) + 1) \div 2

\* requiredKickApprovalsLocked, of a vote in a room of members ps.
RequiredKickApprovals(vote, ps) ==
  Cardinality(ps \ {vote.TargetPlayerID}) \div 2 + 1

\* Mutant: the place in the order is kept.
RemoveFromOrder_Mutant(p) == UNCHANGED playerOrder

\* removePlayerFromOrderLocked
RemoveFromOrder(p) ==
  playerOrder' = RemoveFirst(playerOrder, p)

\* Mutant: the host flags stay as they were.
SetHost_Mutant(p) == hostPlayerID' = p /\ UNCHANGED isHost

\* setHostLocked: the flags follow the host.
SetHost(p) == hostPlayerID' = p /\ isHost' = {p}

\* Mutant: the room is left without a host.
TransferHostIfGone_Mutant(gone, ps) ==
  IF hostPlayerID # gone
    THEN UNCHANGED <<hostPlayerID, isHost>>
    ELSE hostPlayerID' = NoOne /\ isHost' = {}

\* transferHostToAnyLocked, when the host is no longer among the members ps;
\* the map is walked in any order.
TransferHostIfGone(gone, ps) ==
  IF hostPlayerID # gone
    THEN /\ isHost' = isHost \ {gone}
         /\ UNCHANGED hostPlayerID
    ELSE \/ /\ ps = {}
            /\ hostPlayerID' = NoOne
            /\ isHost' = {}
         \/ \E p \in ps : SetHost(p)

----------------------------------------------------------------------------
\* newRoom
NewRoom(p) ==
  /\ players' = {p}
  /\ playerOrder' = <<p>>
  /\ hostPlayerID' = p
  /\ isHost' = {p}
  /\ UNCHANGED <<ready, kickVote, gameStarted>>

\* Mutant: the places are not counted again under the lock.
Join_Mutant(p) ==
  /\ p \notin players
  /\ players' = players \cup {p}
  /\ playerOrder' = Append(playerOrder, p)
  /\ UNCHANGED <<hostPlayerID, isHost, ready, kickVote, gameStarted>>

Join(p) ==
  /\ Cardinality(players) < MaxPlayers
  /\ p \notin players
  /\ players' = players \cup {p}
  /\ playerOrder' = Append(playerOrder, p)
  /\ UNCHANGED <<hostPlayerID, isHost, ready, kickVote, gameStarted>>

\* Mutant: the approval of a player who leaves goes on counting.
Leave_Mutant(p) ==
  /\ p \in players
  /\ players' = players \ {p}
  /\ RemoveFromOrder(p)
  /\ ready' = ready \ {p}
  /\ kickVote' = IF kickVote.TargetPlayerID = p THEN NoKickVote ELSE kickVote
  /\ TransferHostIfGone(p, players \ {p})
  /\ UNCHANGED gameStarted

Leave(p) ==
  /\ p \in players
  /\ players' = players \ {p}
  /\ RemoveFromOrder(p)
  /\ ready' = ready \ {p}
  /\ kickVote' = IF kickVote.TargetPlayerID = p THEN NoKickVote
                 ELSE [kickVote EXCEPT !.Approvals = @ \ {p}]
  /\ TransferHostIfGone(p, players \ {p})
  /\ UNCHANGED gameStarted

SetReady(p, isReady) ==
  /\ p \in players
  /\ ready' = IF isReady THEN ready \cup {p} ELSE ready \ {p}
  /\ UNCHANGED <<players, playerOrder, hostPlayerID, isHost, kickVote, gameStarted>>

TransferHost(p, target) ==
  /\ p \in players
  /\ p = hostPlayerID
  /\ target \in players
  /\ SetHost(target)
  /\ UNCHANGED <<players, playerOrder, ready, kickVote, gameStarted>>

\* validateCanStartLocked(true)
CanStart ==
  /\ Cardinality(players) \in MinPlayers..MaxPlayers
  /\ players \subseteq ready

\* The game is dealt to playerOrder.  A game that is on is replaced.
StartGame(p) ==
  /\ p \in players
  /\ p = hostPlayerID
  /\ CanStart
  /\ gameStarted' = TRUE
  /\ UNCHANGED <<players, playerOrder, hostPlayerID, isHost, ready, kickVote>>

----------------------------------------------------------------------------
\* resolveKickVoteIfPassedLocked, of the vote as it is now.
ResolveKickVote(vote) ==
  LET target == vote.TargetPlayerID IN
  IF Cardinality(vote.Approvals) < RequiredKickApprovals(vote, players)
    THEN /\ kickVote' = vote
         /\ UNCHANGED <<players, playerOrder, hostPlayerID, isHost, ready>>
    ELSE /\ kickVote' = NoKickVote
         /\ players' = players \ {target}
         /\ RemoveFromOrder(target)
         /\ ready' = ready \ {target}
         /\ TransferHostIfGone(target, players \ {target})

StartKickVote(p, target) ==
  /\ p \in players
  /\ target # p
  /\ kickVote = NoKickVote
  /\ target \in players
  /\ ResolveKickVote([TargetPlayerID |-> target, Approvals |-> {p}])
  /\ UNCHANGED gameStarted

CastKickVote(p, approve) ==
  /\ p \in players
  /\ kickVote # NoKickVote
  /\ p # kickVote.TargetPlayerID
  /\ ResolveKickVote([kickVote EXCEPT !.Approvals =
                        IF approve THEN @ \cup {p} ELSE @ \ {p}])
  /\ UNCHANGED gameStarted

\* What a member may do to the room with a command.
RoomCommand(p) ==
  \/ \E isReady \in BOOLEAN : SetReady(p, isReady)
  \/ StartGame(p)
  \/ \E approve \in BOOLEAN : CastKickVote(p, approve)
  \/ \E target \in RoomPlayer : TransferHost(p, target) \/ StartKickVote(p, target)
============================================================================
