---------------------------- MODULE NextAliveLoop ----------------------------
(***************************************************************************)
(* The search of nextAlivePlayerID (internal/game/engine.go) round the     *)
(* table, one seat at a time.  Module Engine says of the player it finds   *)
(* that there is none alive at fewer seats from here: IsNextAlive.         *)
(***************************************************************************)
EXTENDS Engine

VARIABLES
  fromPlayerID,   \* where the search starts
  livingThen,     \* the players alive, while it lasts
  step,           \* how many seats on it is
  found           \* the player it returns, NoPlayer so far or at all

searchVars == <<fromPlayerID, livingThen, step, found>>

\* The player step seats on; the code counts the seats from 0.
SeatReached == (((fromPlayerID - 1) + step) % N) + 1

SearchInit ==
  /\ fromPlayerID \in Player
  /\ livingThen \in SUBSET Player
  /\ step = 1
  /\ found = NoPlayer

Searching == step <= N /\ found = NoPlayer

PassSeat ==
  /\ Searching
  /\ SeatReached \notin livingThen
  /\ step' = step + 1
  /\ UNCHANGED <<fromPlayerID, livingThen, found>>

FindSeat ==
  /\ Searching
  /\ SeatReached \in livingThen
  /\ found' = SeatReached
  /\ UNCHANGED <<fromPlayerID, livingThen, step>>

SearchSpec == SearchInit /\ [][PassSeat \/ FindSeat]_searchVars

\* Whoever the search finds is the next player alive, who may be the one it
\* started from, and it fails only when nobody is alive (nextAlivePlayerID).
SearchFindsNextAlive ==
  /\ found # NoPlayer => IsNextAlive(fromPlayerID, found, livingThen)
  /\ ~Searching /\ found = NoPlayer => livingThen = {}

\* No player alive has been passed.
SearchInv ==
  /\ fromPlayerID \in Player
  /\ livingThen \in SUBSET Player
  /\ step \in 1..N + 1
  /\ found \in Player \cup {NoPlayer}
  /\ \A r \in livingThen : SeatsTo(fromPlayerID, r) >= step
  /\ found # NoPlayer => found \in livingThen /\ SeatsTo(fromPlayerID, found) = step
============================================================================
