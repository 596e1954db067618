------------------------------- MODULE MCHub -------------------------------
(* A few connections and changes, for TLC.                                 *)
EXTENDS Hub

CONSTANTS
  MaxChanges,   \* changes of the room and the game
  MaxDown       \* links that are down at a time and nobody knows it yet

ChangesLeft == version["ROOM_VIEW"] + version["GAME_VIEW"] < MaxChanges

MCConnStep ==
  \E c \in Conn :
    \/ ChangesLeft /\ (Connect(c) \/ HandleMessage(c))
    \/ Cardinality({d \in Conn : link[d] = "down"}) < MaxDown /\ LoseLink(c)
    \/ ReadFails(c) \/ GoroutineStep(c)

MCTimerStep ==
  \E t \in Timer : (ChangesLeft /\ ExpireCancelWindow(t)) \/ CallbackStep(t)

\* Connections, commands and ends of windows come only while there are changes
\* left.
MCNext == (MCConnStep /\ UNCHANGED callback) \/ MCTimerStep

\* A room in which as many as a game needs have met and are ready, before or
\* during a game, and have been told so: these are the first changes.
GatheredInit ==
  \E member \in [Conn -> RoomPlayer \cup {NoOne}] :
    LET here == {c \in Conn : member[c] # NoOne} IN
    /\ Cardinality(here) = MinPlayers
    /\ players = {member[c] : c \in here}
    /\ Cardinality(players) = MinPlayers
    /\ playerOrder \in SetToSeqs(players)
    /\ hostPlayerID = Head(playerOrder) /\ isHost = {hostPlayerID}
    /\ ready = players
    /\ kickVote = NoKickVote /\ drawn = players
    /\ gameStarted \in BOOLEAN
    /\ seats = IF gameStarted THEN players ELSE {}
    /\ link = [c \in Conn |-> IF c \in here THEN "up" ELSE "closed"]
    /\ attached = here
    /\ playerID = member
    /\ todo = [c \in Conn |-> <<>>]
    /\ writing = [c \in Conn |-> NoBroadcast]
    /\ window \in {FALSE, gameStarted}
    /\ callback = [t \in Timer |-> NoCallback]
    /\ version = [k \in ViewKind |-> IF k = "ROOM_VIEW" \/ gameStarted THEN 1 ELSE 0]
    /\ seen = [c \in Conn |-> version]
    /\ notified = {}
    /\ causes = [k \in Cause |-> {}]

\* Either nobody has come yet, or enough have met.
MCSpec == (Init \/ GatheredInit) /\ [][MCNext]_vars

MCSymmetry == Permutations(Conn) \cup Permutations(RoomPlayer)
============================================================================
