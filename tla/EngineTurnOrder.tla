-------------------------- MODULE EngineTurnOrder --------------------------
(***************************************************************************)
(* The engine implements the turn order of module TurnOrder.  The debts of *)
(* the game become what the current player owes: all others owe nothing.   *)
(***************************************************************************)
EXTENDS Engine

Order == INSTANCE TurnOrder WITH
  Nobody <- NoPlayer,
  ExtraTurns <- extraTurnDebt,
  living <- alive,
  turn <- currentPlayerID,
  owed <- IF phase = "GAME_OVER" THEN 0 ELSE turnDebt[currentPlayerID]

\* Whatever is played, canceled, drawn, recycled or recovered, and whoever has
\* to place an explosive in between, all that happens to the turn is one of
\* the four things of TurnOrder: it ends, all of it is skipped, it is put on
\* another player, or somebody dies.
ImplementsTurnOrder == Order!TurnSpec
============================================================================
