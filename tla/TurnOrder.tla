----------------------------- MODULE TurnOrder -----------------------------
(***************************************************************************)
(* What the engine promises about turns, without cards: whose turn it is,  *)
(* how many turns that player still owes, who is still in the game and who *)
(* has won.  The players sit in a ring.  The turn goes round the ring, one *)
(* turn each; a player may skip what they owe or put two turns on somebody *)
(* else; whoever dies is passed over from then on; the last one wins.      *)
(*                                                                         *)
(* Module EngineTurnOrder shows that the engine implements this.           *)
(***************************************************************************)
EXTENDS Integers

CONSTANTS
  N,          \* the players, by seat, are 1..N (N >= 2)
  Nobody,     \* neither at turn nor the winner
  ExtraTurns  \* turns put on a player by an extra-turns card

VARIABLES
  living,  \* the players still in the game
  turn,    \* whose turn it is, Nobody once there is a winner
  owed,    \* the turns that player has to take, this one included
  winner   \* the last one left, Nobody before that

turnVars == <<living, turn, owed, winner>>

Seat == 1..N

\* Strictly between p and q on the way round the ring from p.
Between(p, q) ==
  IF p < q THEN {r \in Seat : p < r /\ r < q}
           ELSE {r \in Seat : p < r \/ r < q}

\* q is the first of the players ps on the way round the ring from p; p comes
\* last.
IsNext(p, q, ps) ==
  /\ q \in ps
  /\ IF q = p THEN ps = {p} ELSE Between(p, q) \cap ps \subseteq {p}

TurnInit ==
  /\ living = Seat
  /\ turn = 1
  /\ owed = 1
  /\ winner = Nobody

\* The next living player takes one turn.
Pass ==
  /\ \E q \in Seat : IsNext(turn, q, living) /\ turn' = q
  /\ owed' = 1
  /\ UNCHANGED <<living, winner>>

EndTurn ==
  /\ winner = Nobody
  /\ \/ owed = 1 /\ Pass
     \/ owed > 1 /\ owed' = owed - 1 /\ UNCHANGED <<living, turn, winner>>

SkipAll == winner = Nobody /\ Pass

\* The player at turn owes nothing more; the target starts on two turns.
PutTurnsOn(target) ==
  /\ winner = Nobody
  /\ target \in living \ {turn}
  /\ turn' = target
  /\ owed' = ExtraTurns
  /\ UNCHANGED <<living, winner>>

\* p dies: at turn, the next player goes on; out of turn, nothing else
\* changes; as the last but one, the game is over.
Die(p) ==
  /\ winner = Nobody
  /\ p \in living
  /\ living' = living \ {p}
  /\ IF \E w \in Seat : living' = {w}
       THEN living' = {winner'} /\ turn' = Nobody /\ owed' = 0
       ELSE /\ winner' = winner
            /\ IF p = turn
                 THEN \E q \in Seat : IsNext(p, q, living') /\ turn' = q /\ owed' = 1
                 ELSE UNCHANGED <<turn, owed>>

TurnNext ==
  \/ EndTurn
  \/ SkipAll
  \/ \E p \in Seat : PutTurnsOn(p) \/ Die(p)

TurnSpec == TurnInit /\ [][TurnNext]_turnVars
============================================================================
