------------------------------ MODULE MCViews ------------------------------
(* The views of games with small decks, for TLC.                           *)
EXTENDS MCEngine, Views
============================================================================
