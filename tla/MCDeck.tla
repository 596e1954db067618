------------------------------- MODULE MCDeck -------------------------------
(* The deals for every number of players, and for some that are refused.   *)
EXTENDS Deck

AnyPlayerCount == 0..MaxPlayers + 2
============================================================================
