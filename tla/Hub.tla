-------------------------------- MODULE Hub --------------------------------
(***************************************************************************)
(* The connections of one room (internal/transport/websocket.go) and the   *)
(* commands they bring to it.  Every connection has a goroutine, which     *)
(* reads a command, has the room carry it out, and then does the rest a    *)
(* step at a time: attach or detach the connection, answer, and tell the   *)
(* others.  The goroutines interleave between the steps, and a connection  *)
(* may be lost at any time.                                                *)
(*                                                                         *)
(* What a goroutine has still to do is a sequence of steps; the order of   *)
(* the calls in a handler is the order of its steps.  The calls to the     *)
(* manager are single steps here: module RoomManager has their insides.  A *)
(* command that is refused only gets an answer and is left out.  Of a view *)
(* only its version counts: the number of changes before it was built.     *)
(*                                                                         *)
(* A command acts for the player of its connection; envelopes that bring   *)
(* another player's token are left out.  Besides the goroutines of the     *)
(* connections there are the callbacks of the cancel windows' timers.  A   *)
(* callback has no connection to lose and nobody to answer to: when it     *)
(* fails, it says no more.                                                 *)
(***************************************************************************)
EXTENDS Room

CONSTANTS
  Conn,    \* the connections
  Timer    \* the timers of cancel windows

VARIABLES
  seats,     \* the players of the game that is on
  drawn,     \* the player ids that have been given
  link,      \* the connections: closed, up, or down but not noticed yet
  attached,  \* rooms: the connections attached to the room
  playerID,  \* connectedClient.playerID; roomID and token go with it
  todo,      \* what the goroutine of a connection has still to do
  writing,   \* the broadcast it is in the middle of
  window,    \* whether a cancel window of the game is open
  callback,  \* what the callback of a timer is in the middle of
  version,   \* how often the room, and the game, has changed
  seen,      \* the newest view of each that has been sent to a connection
  notified,  \* the players who have been sent KICKED_FROM_ROOM
  causes     \* what has gone wrong, by kind: players, or connections

hubVars == <<seats, drawn, link, attached, playerID, todo, writing, window,
             callback, version, seen, notified, causes>>
vars == <<roomVars, hubVars>>

ViewKind == {"ROOM_VIEW", "GAME_VIEW"}

\* For the properties: the connections that have been lost, and those whose
\* goroutine gave up; the players whose connection joined again, here or
\* elsewhere, without leaving, who joined during a game, who were kicked
\* before their connection was attached, and whose leave nobody was told of;
\* and the versions of the game that a callback left untold.
Cause == {"lost", "gaveUp", "abandoned", "unseated", "kickedEarly", "leftUnseen",
          "untold"}

\* What is sent to the others: a view has the version of what it shows, and a
\* view of the game is there for some players only.
Message ==
  [kind : ViewKind \cup {"none", "notice", "GAME_EVENTS", "KICKED_FROM_ROOM"},
   version : Nat,
   to : SUBSET RoomPlayer]

NoMessage == [kind |-> "none", version |-> 0, to |-> {}]

Step ==
  [do : {"attach", "detach", "detachPlayer", "reply", "notify", "gameViews",
         "roomView", "elsewhere", "broadcast", "leave", "close"},
   player : RoomPlayer \cup {NoOne},
   message : Message]

Do(what) == [do |-> what, player |-> NoOne, message |-> NoMessage]
DoFor(what, p) == [Do(what) EXCEPT !.player = p]
SendAll(m) == [Do("broadcast") EXCEPT !.message = m]
SendKind(kind) == SendAll([NoMessage EXCEPT !.kind = kind])

Broadcast == [message : Message, left : SUBSET Conn]
NoBroadcast == [message |-> NoMessage, left |-> {}]

\* A callback that has made the change sends its events, has the views in hand,
\* or writes them to those who are left.
Callback ==
  [at : {"nothing", "events", "views", "writing"},
   change : Nat, message : Message, left : SUBSET Conn]
NoCallback == [at |-> "nothing", change |-> 0, message |-> NoMessage, left |-> {}]

Player(c) == playerID[c]
Idle(c) == todo[c] = <<>> /\ writing[c] = NoBroadcast
Quiet == \A c \in Conn : Idle(c)

Init ==
  /\ players = {} /\ playerOrder = <<>>
  /\ hostPlayerID = NoOne /\ isHost = {} /\ ready = {}
  /\ kickVote = NoKickVote /\ gameStarted = FALSE
  /\ seats = {} /\ drawn = {}
  /\ link = [c \in Conn |-> "closed"]
  /\ attached = {}
  /\ playerID = [c \in Conn |-> NoOne]
  /\ todo = [c \in Conn |-> <<>>]
  /\ writing = [c \in Conn |-> NoBroadcast]
  /\ window = FALSE
  /\ callback = [t \in Timer |-> NoCallback]
  /\ version = [k \in ViewKind |-> 0]
  /\ seen = [c \in Conn |-> [k \in ViewKind |-> 0]]
  /\ notified = {}
  /\ causes = [k \in Cause |-> {}]

----------------------------------------------------------------------------
(* The steps of a goroutine.                                               *)

Blame(kind, S) == causes' = [causes EXCEPT ![kind] = @ \cup S]

\* The next step of c is what.
At(c, what) ==
  /\ writing[c] = NoBroadcast
  /\ todo[c] # <<>>
  /\ Head(todo[c]).do = what

Continue(c, steps) == todo' = [todo EXCEPT ![c] = steps]

Current(c) == Head(todo[c])
Later(c) == Tail(todo[c])

\* Mutant: the connection is detached first, and nobody is found to leave.
Unregister_Mutant(c) == <<Do("detach"), Do("close")>>

\* Mutant: the others are not told.
Unregister_Mutant2(c) ==
  IF Player(c) = NoOne
    THEN <<Do("detach"), Do("close")>>
    ELSE <<Do("detach"), DoFor("leave", Player(c)), Do("close")>>

\* unregisterConnection reads the room and the player of the connection
\* before it detaches it.
Unregister(c) ==
  IF Player(c) = NoOne
    THEN <<Do("detach"), Do("close")>>
    ELSE <<Do("detach"), DoFor("leave", Player(c)), Do("roomView"), Do("close")>>

Closing(c) == todo[c] # <<>> /\ Last(todo[c]).do = "close"

\* A write has failed: the handler returns, and the connection is closed.
\* In unregisterConnection the error is dropped.
GiveUp(c) ==
  /\ writing' = [writing EXCEPT ![c] = NoBroadcast]
  /\ todo' = [todo EXCEPT ![c] = IF Closing(c) THEN <<Do("close")>> ELSE Unregister(c)]

RoomStill == UNCHANGED <<roomVars, seats, drawn, window, version>>

\* attachClientToRoom; NoOne stands for whoever it becomes in another room.
Attach(c) ==
  LET p == Current(c).player IN
  /\ At(c, "attach") /\ Continue(c, Later(c))
  /\ attached' = IF p = NoOne THEN attached \ {c} ELSE attached \cup {c}
  /\ playerID' = [playerID EXCEPT ![c] = p]
  /\ Blame("abandoned", {Player(c)} \ {NoOne})
  /\ RoomStill
  /\ UNCHANGED <<link, writing, seen, notified>>

\* detachClientFromRoom
Detach(c) ==
  /\ At(c, "detach") /\ Continue(c, Later(c))
  /\ attached' = attached \ {c}
  /\ playerID' = [playerID EXCEPT ![c] = NoOne]
  /\ RoomStill
  /\ UNCHANGED <<link, writing, seen, notified, causes>>

\* Mutant: the connection keeps its player.
DetachPlayer_Mutant(c) ==
  /\ At(c, "detachPlayer") /\ Continue(c, Later(c))
  /\ RoomStill
  /\ UNCHANGED <<attached, playerID, link, writing, seen, notified, causes>>

\* Mutant: the connection is taken out of the room only.
DetachPlayer_Mutant2(c) ==
  LET p == Current(c).player
      theirs == {d \in attached : Player(d) = p}
  IN /\ At(c, "detachPlayer") /\ Continue(c, Later(c))
     /\ attached' = attached \ theirs
     /\ Blame("kickedEarly", IF theirs = {} THEN {p} ELSE {})
     /\ RoomStill
     /\ UNCHANGED <<playerID, link, writing, seen, notified>>

\* detachRoomPlayer
DetachPlayer(c) ==
  LET p == Current(c).player
      theirs == {d \in attached : Player(d) = p}
  IN /\ At(c, "detachPlayer") /\ Continue(c, Later(c))
     /\ attached' = attached \ theirs
     /\ playerID' = [d \in Conn |-> IF d \in theirs THEN NoOne ELSE Player(d)]
     /\ Blame("kickedEarly", IF theirs = {} THEN {p} ELSE {})
     /\ RoomStill
     /\ UNCHANGED <<link, writing, seen, notified>>

\* An answer to the connection itself; the answer to LEAVE_ROOM has the player
\* who has left.  On a link that is down it may fail or be swallowed.
Reply(c) ==
  \/ /\ At(c, "reply") /\ Continue(c, Later(c))
     /\ RoomStill
     /\ UNCHANGED <<link, attached, playerID, writing, seen, notified, causes>>
  \/ /\ At(c, "reply")
     /\ link[c] # "up"
     /\ GiveUp(c)
     /\ causes' = [causes EXCEPT !["gaveUp"] = @ \cup {c},
                                !["leftUnseen"] = @ \cup ({Current(c).player} \ {NoOne})]
     /\ RoomStill
     /\ UNCHANGED <<link, attached, playerID, seen, notified>>

\* manager.LeaveRoom in unregisterConnection; the player may be gone already.
LeaveRoom(c) ==
  LET p == Current(c).player IN
  /\ At(c, "leave") /\ Continue(c, Later(c))
  /\ IF p \in players
       THEN Leave(p) /\ version' = [version EXCEPT !["ROOM_VIEW"] = @ + 1]
       ELSE UNCHANGED <<roomVars, version>>
  /\ UNCHANGED <<seats, drawn, link, attached, playerID, writing, window, seen,
                 notified, causes>>

\* broadcastRoomView of another room.  Where it fails, c is closed for the sake
\* of a link there; it is lost to this room.
TellElsewhere(c) ==
  \/ /\ At(c, "elsewhere") /\ Continue(c, Later(c))
     /\ RoomStill
     /\ UNCHANGED <<link, attached, playerID, writing, seen, notified, causes>>
  \/ /\ At(c, "elsewhere")
     /\ GiveUp(c)
     /\ Blame("lost", {c})
     /\ RoomStill
     /\ UNCHANGED <<link, attached, playerID, seen, notified>>

Close(c) ==
  /\ At(c, "close") /\ Continue(c, <<>>)
  /\ link' = [link EXCEPT ![c] = "closed"]
  /\ seen' = [seen EXCEPT ![c] = [k \in ViewKind |-> 0]]
  /\ RoomStill
  /\ UNCHANGED <<attached, playerID, writing, notified, causes>>

----------------------------------------------------------------------------
(* Broadcasts: the view is built, the connections of the room are listed,  *)
(* and then each of them is written to.                                    *)

\* The view is built under the room's lock; a room that nobody is in any more
\* has been forgotten, and nothing is sent.
ReadRoomView(c) ==
  LET view == [kind |-> "ROOM_VIEW", version |-> version["ROOM_VIEW"], to |-> RoomPlayer] IN
  /\ At(c, "roomView")
  /\ Continue(c, IF players = {} THEN Later(c) ELSE <<SendAll(view)>> \o Later(c))
  /\ RoomStill
  /\ UNCHANGED <<link, attached, playerID, writing, seen, notified, causes>>

\* Mutant: the seats are walked, and a departed player is missed.
GameViewsFail_Mutant == players = {} \/ players # seats

\* GameViews builds a view for every member, and fails at one without a seat.
\* It finds no room that has been forgotten, and one that is about to be, empty.
GameViewsFail == players = {} \/ ~(players \subseteq seats)

GameViews == [kind |-> "GAME_VIEW", version |-> version["GAME_VIEW"], to |-> players]

\* GameViews, in broadcastGameViews.
ReadGameViews(c) ==
  /\ At(c, "gameViews")
  /\ \/ /\ GameViewsFail
        /\ GiveUp(c) /\ Blame("gaveUp", {c})
     \/ /\ players \subseteq seats
        /\ Continue(c, <<SendAll(GameViews)>> \o Later(c))
        /\ UNCHANGED <<writing, causes>>
  /\ RoomStill
  /\ UNCHANGED <<link, attached, playerID, seen, notified>>

StartWriting(c, m, clients) ==
  /\ writing' = [writing EXCEPT ![c] =
       IF clients = {} THEN NoBroadcast ELSE [message |-> m, left |-> clients]]
  /\ Continue(c, Later(c))
  /\ RoomStill
  /\ UNCHANGED <<link, attached, playerID, seen, notified, causes>>

\* roomClients, in broadcastEnvelope, broadcastGameViews, broadcastGameEvents.
ListClients(c) == At(c, "broadcast") /\ StartWriting(c, Current(c).message, attached)

\* roomPlayerClients, in notifyAndDetachKickedPlayer.
ListKicked(c) ==
  LET p == Current(c).player
      goodbye == [kind |-> "KICKED_FROM_ROOM", version |-> 0, to |-> {p}]
  IN At(c, "notify") /\ StartWriting(c, goodbye, {d \in attached : Player(d) = p})

\* There is no view of the game for whoever is on d now.
NotFor(m, d) == m.kind = "GAME_VIEW" /\ Player(d) \notin m.to

\* d is passed over: no view, or no event that is not filtered out; and it does
\* not matter whether the kicked player can be written to.
Skip(m, d) ==
  /\ \/ NotFor(m, d)
     \/ m.kind = "GAME_EVENTS"
     \/ m.kind = "KICKED_FROM_ROOM" /\ link[d] # "up"
  /\ UNCHANGED <<seen, notified>>

\* The write works; on a link that is down it may be swallowed.
Send(m, d) ==
  /\ link[d] # "closed"
  /\ ~NotFor(m, d)
  /\ seen' = IF m.kind \in ViewKind /\ seen[d][m.kind] < m.version
               THEN [seen EXCEPT ![d][m.kind] = m.version] ELSE seen
  /\ notified' = IF m.kind = "KICKED_FROM_ROOM" /\ link[d] = "up"
                   THEN notified \cup m.to ELSE notified

\* The write fails, and the broadcast ends there.
WriteFails(c, d) ==
  /\ writing[c].message.kind # "KICKED_FROM_ROOM"
  /\ link[d] # "up"
  /\ ~NotFor(writing[c].message, d)
  /\ GiveUp(c)
  /\ Blame("gaveUp", {c})
  /\ UNCHANGED <<seen, notified>>

\* The next write of a broadcast, to any of the connections left.
Write(c) ==
  /\ \E d \in writing[c].left :
       LET left == writing[c].left \ {d} IN
       \/ /\ Skip(writing[c].message, d) \/ Send(writing[c].message, d)
          /\ writing' = [writing EXCEPT ![c] =
               IF left = {} THEN NoBroadcast ELSE [@ EXCEPT !.left = left]]
          /\ UNCHANGED <<todo, causes>>
       \/ WriteFails(c, d)
  /\ RoomStill
  /\ UNCHANGED <<link, attached, playerID>>

GoroutineStep(c) ==
  \/ Attach(c) \/ Detach(c) \/ DetachPlayer(c)
  \/ Reply(c) \/ LeaveRoom(c) \/ TellElsewhere(c) \/ Close(c)
  \/ ReadRoomView(c) \/ ReadGameViews(c)
  \/ ListClients(c) \/ ListKicked(c) \/ Write(c)

----------------------------------------------------------------------------
(* Connections come and go.                                                *)

\* A new connection; it takes the name of an old one that nobody writes to.
Connect(c) ==
  /\ link[c] = "closed"
  /\ \A d \in Conn : c \notin writing[d].left
  /\ \A t \in Timer : c \notin callback[t].left
  /\ link' = [link EXCEPT ![c] = "up"]
  /\ RoomStill
  /\ UNCHANGED <<attached, playerID, todo, writing, seen, notified, causes>>

LoseLink(c) ==
  /\ link[c] = "up"
  /\ link' = [link EXCEPT ![c] = "down"]
  /\ Blame("lost", {c})
  /\ RoomStill
  /\ UNCHANGED <<attached, playerID, todo, writing, seen, notified>>

\* The read of the next command fails.
ReadFails(c) ==
  /\ link[c] = "down"
  /\ Idle(c)
  /\ Continue(c, Unregister(c))
  /\ RoomStill
  /\ UNCHANGED <<link, attached, playerID, writing, seen, notified, causes>>

----------------------------------------------------------------------------
(* The commands, up to their effect on the room.  What was sent before the *)
(* link went down is still read.                                           *)

Takes(c, steps) ==
  /\ link[c] # "closed"
  /\ Idle(c)
  /\ Continue(c, steps)
  /\ UNCHANGED <<link, attached, playerID, writing, seen, notified>>

Changes(kinds) ==
  version' = [k \in ViewKind |-> version[k] + IF k \in kinds THEN 1 ELSE 0]

\* A connection that is in the room already is not taken out of it first.
Entering(p) == <<DoFor("attach", p), Do("reply"), Do("roomView")>>

HandleCreateRoom(c, p) ==
  /\ drawn = {}
  /\ NewRoom(p)
  /\ drawn' = {p}
  /\ Changes({"ROOM_VIEW"})
  /\ Takes(c, Entering(p))
  /\ UNCHANGED <<seats, window, causes>>

\* Mutant: the id of somebody who has gone is given again.
HandleJoinRoom_Mutant(c, p) ==
  /\ players # {}
  /\ Join(p)
  /\ drawn' = drawn \cup {p}
  /\ Changes({"ROOM_VIEW"})
  /\ Takes(c, Entering(p))
  /\ UNCHANGED <<seats, window, causes>>

HandleJoinRoom(c, p) ==
  /\ players # {}
  /\ p \notin drawn
  /\ Join(p)
  /\ drawn' = drawn \cup {p}
  /\ Changes({"ROOM_VIEW"})
  /\ Takes(c, Entering(p))
  /\ Blame("unseated", IF gameStarted THEN {p} ELSE {})
  /\ UNCHANGED <<seats, window>>

\* CREATE_ROOM and JOIN_ROOM of another room take the connection there.
HandleEnterOtherRoom(c) ==
  /\ Player(c) # NoOne
  /\ Takes(c, <<Do("attach"), Do("reply"), Do("elsewhere")>>)
  /\ RoomStill
  /\ UNCHANGED causes

HandleSetReady(c, isReady) ==
  /\ SetReady(Player(c), isReady)
  /\ Changes({"ROOM_VIEW"})
  /\ Takes(c, <<Do("reply"), Do("roomView")>>)
  /\ UNCHANGED <<seats, drawn, window, causes>>

HandleTransferHost(c, target) ==
  /\ TransferHost(Player(c), target)
  /\ Changes({"ROOM_VIEW"})
  /\ Takes(c, <<SendKind("notice"), Do("roomView")>>)
  /\ UNCHANGED <<seats, drawn, window, causes>>

\* The game is dealt to the members there are; the members who come later
\* have no seat.
HandleStartGame(c) ==
  /\ StartGame(Player(c))
  /\ seats' = players
  /\ window' = FALSE
  /\ Changes(ViewKind)
  /\ Takes(c, <<SendKind("notice"), Do("gameViews"), Do("roomView")>>)
  /\ UNCHANGED <<drawn, causes>>

HandleLeaveRoom(c) ==
  /\ Leave(Player(c))
  /\ Changes({"ROOM_VIEW"})
  /\ Takes(c, <<Do("detach"), DoFor("reply", Player(c)), Do("roomView")>>)
  /\ UNCHANGED <<seats, drawn, window, causes>>

\* kicked has one member or none.
AfterVote(kicked) ==
  (IF kicked = {} THEN <<>>
   ELSE LET p == CHOOSE q \in kicked : TRUE
        IN <<DoFor("notify", p), DoFor("detachPlayer", p)>>)
    \o <<SendKind("notice"), Do("roomView")>>

HandleKickVote(c) ==
  /\ \/ \E target \in RoomPlayer : StartKickVote(Player(c), target)
     \/ \E approve \in BOOLEAN : CastKickVote(Player(c), approve)
  /\ Changes({"ROOM_VIEW"})
  /\ Takes(c, AfterVote(players \ players'))
  /\ UNCHANGED <<seats, drawn, window, causes>>

\* The room passes a command of a game that is on to the engine, which knows
\* the player only if there is a seat.
MayCommandGame(p) == gameStarted /\ p \in players \cap seats

\* Any command of the game that the engine accepts; ackEventsAndViews.  A card
\* or a combination opens a window, and only cancels are accepted in it.
HandleGameCommand(c) ==
  /\ MayCommandGame(Player(c))
  /\ window' \in {window, TRUE}
  /\ Changes({"GAME_VIEW"})
  /\ Takes(c, <<Do("reply"), SendKind("GAME_EVENTS"), Do("gameViews")>>)
  /\ UNCHANGED <<roomVars, seats, drawn, causes>>

HandleMessage(c) ==
  \/ \E p \in RoomPlayer : HandleCreateRoom(c, p) \/ HandleJoinRoom(c, p)
  \/ HandleEnterOtherRoom(c)
  \/ \E isReady \in BOOLEAN : HandleSetReady(c, isReady)
  \/ \E target \in RoomPlayer : HandleTransferHost(c, target)
  \/ HandleStartGame(c) \/ HandleLeaveRoom(c)
  \/ HandleKickVote(c) \/ HandleGameCommand(c)

----------------------------------------------------------------------------
(* The callback that scheduleCancelWindowExpiration arms when a card or a  *)
(* combination has been played.                                            *)

CallbackGoesOn(t, to) == callback' = [callback EXCEPT ![t] = to]

\* A callback leaves the registry and the goroutines alone.
OthersStill == UNCHANGED <<roomVars, seats, drawn, link, attached, playerID, todo,
                           writing, notified>>

\* manager.ExpireCancelWindow.  What was pending is resolved, or an error comes
\* when it has been cleared (ResolveCancelWindow, transferRandomCard): then
\* the callback returns, and nobody is told of the change.
ExpireCancelWindow(t) ==
  LET change == version["GAME_VIEW"] + 1 IN
  /\ callback[t] = NoCallback
  /\ window
  /\ window' = FALSE
  /\ Changes({"GAME_VIEW"})
  /\ \/ /\ CallbackGoesOn(t, [NoCallback EXCEPT !.at = "events", !.change = change])
        /\ UNCHANGED causes
     \/ Blame("untold", {change}) /\ UNCHANGED callback
  /\ OthersStill
  /\ UNCHANGED seen

\* Mutant: the views are built as they were before the window ended.
CallbackReadsViews_Mutant(t) ==
  /\ callback[t].at = "events"
  /\ players \subseteq seats
  /\ CallbackGoesOn(t, [callback[t] EXCEPT !.at = "views",
                          !.message = [GameViews EXCEPT !.version = callback[t].change - 1]])
  /\ OthersStill
  /\ UNCHANGED <<window, version, seen, causes>>

\* The events have been sent, which show nobody the game; GameViews comes next.
CallbackReadsViews(t) ==
  /\ callback[t].at = "events"
  /\ players \subseteq seats
  /\ CallbackGoesOn(t, [callback[t] EXCEPT !.at = "views", !.message = GameViews])
  /\ OthersStill
  /\ UNCHANGED <<window, version, seen, causes>>

\* The views are for the connections that are left.
CallbackIsLeftWith(t, clients) ==
  CallbackGoesOn(t, IF clients = {} THEN NoCallback
                    ELSE [callback[t] EXCEPT !.at = "writing", !.left = clients])

CallbackListsClients(t) ==
  /\ callback[t].at = "views"
  /\ CallbackIsLeftWith(t, attached)
  /\ OthersStill
  /\ UNCHANGED <<window, version, seen, causes>>

CallbackWrites(t) ==
  /\ callback[t].at = "writing"
  /\ \E d \in callback[t].left :
       /\ Skip(callback[t].message, d) \/ Send(callback[t].message, d)
       /\ CallbackIsLeftWith(t, callback[t].left \ {d})
  /\ OthersStill
  /\ UNCHANGED <<window, version, causes>>

\* A write of an event or a view fails, GameViews does, or the five seconds the
\* callback has for all its writes are over.  It is logged, and closes nothing.
CallbackFails(t) ==
  /\ \/ callback[t].at = "events"
     \/ /\ callback[t].at = "writing"
        /\ \E d \in callback[t].left : ~NotFor(callback[t].message, d)
  /\ CallbackGoesOn(t, NoCallback)
  /\ Blame("untold", {callback[t].change})
  /\ OthersStill
  /\ UNCHANGED <<window, version, seen>>

CallbackStep(t) ==
  \/ CallbackReadsViews(t) \/ CallbackListsClients(t)
  \/ CallbackWrites(t) \/ CallbackFails(t)

----------------------------------------------------------------------------
ConnStep ==
  \E c \in Conn :
    \/ Connect(c) \/ LoseLink(c) \/ ReadFails(c)
    \/ HandleMessage(c)
    \/ GoroutineStep(c)

TimerStep == \E t \in Timer : ExpireCancelWindow(t) \/ CallbackStep(t)

Next == (ConnStep /\ UNCHANGED callback) \/ TimerStep

Spec == Init /\ [][Next]_vars

----------------------------------------------------------------------------
(* What the hub must keep to.                                              *)

\* Every variable has a value of its type, and a connection is registered
\* with the room exactly as long as it has a player there.
HubTypeOK ==
  /\ seats \subseteq drawn /\ players \subseteq drawn
  /\ link \in [Conn -> {"closed", "up", "down"}]
  /\ playerID \in [Conn -> drawn \cup {NoOne}]
  /\ attached = {c \in Conn : Player(c) # NoOne}
  /\ \A c \in Conn : todo[c] \in Seq(Step) /\ writing[c] \in Broadcast
  /\ version \in [ViewKind -> Nat]
  /\ seen \in [Conn -> [ViewKind -> Nat]]
  /\ notified \subseteq drawn
  /\ window \in BOOLEAN
  /\ callback \in [Timer -> Callback]

\* The links that nobody has noticed to be down have all been noticed.
Settled == Quiet /\ \A c \in Conn : link[c] # "down"

\* Two connections never stand for one player, though any of them may join
\* again, be kicked or be replaced by another.
OnePlayerOneConnection ==
  \A c, d \in attached : Player(c) = Player(d) => c = d

\* When everything has been said, whoever is attached plays in the room, unless
\* the kick came between joining and attaching (handleJoinRoom): then nobody
\* detaches the connection, and it hears all that goes on.
AttachedArePlayers ==
  Settled => \A c \in attached : Player(c) \in players \cup causes["kickedEarly"]

\* When everything has been said, every member has a connection, unless that
\* connection has joined again as somebody else (attachClientToRoom): however
\* it was lost, the player has left the room with it.
MembersAreConnected ==
  Settled => \A p \in players \ causes["abandoned"] : \E c \in attached : Player(c) = p

\* When everything has been said, every connection of a room with members has
\* been sent the room as it is now, whatever links went down in the middle of
\* which broadcast.  It takes somebody to tell: the news of a leave goes down
\* with the answer to it (handleLeaveRoom), and a broadcast that breaks off at
\* a connection that has gone to another room is not made again.
EveryoneSeesTheRoom ==
  Settled /\ players # {} /\ causes["leftUnseen"] \cup causes["abandoned"] = {} =>
    \A c \in attached : seen[c]["ROOM_VIEW"] = version["ROOM_VIEW"]

\* When everything has been said and no handler had to give up, whoever has a
\* seat has been sent the game as it is now, in whatever order commands, ends
\* of windows, joins and kicks overlapped.  Not so where a callback made the
\* last change and failed: when the window ends with an error, the game has
\* changed and the callback returns (websocket.go:521), and when one of its
\* broadcasts fails, it is only logged (525-531).  Nobody is told then until
\* the next command of the game.
SeatedSeeTheGame ==
  /\ Quiet /\ \A t \in Timer : callback[t] = NoCallback
  /\ gameStarted /\ causes["gaveUp"] = {} /\ version["GAME_VIEW"] \notin causes["untold"]
  => \A c \in attached :
       Player(c) \in seats \cap players => seen[c]["GAME_VIEW"] = version["GAME_VIEW"]

\* Nobody's connection is closed for the sake of the others while all links
\* are up and every member has a seat: players who leave or are kicked in the
\* middle of a game do not make its views fail.  Only the last one to leave
\* may, for a command that is still to be told (broadcastGameViews).
HealthyRoomKeepsItsPlayers ==
  causes["lost"] \cup causes["unseated"] = {} /\ players # {} => causes["gaveUp"] = {}

\* TestWebSocketKickedPlayerReceivesNotification (websocket_test.go:833): a
\* player who has been kicked is told, as long as there is a connection.
KickedPlayerReceivesNotification ==
  Quiet => \A c \in attached : Player(c) \in players \cup notified
=============================================================================
