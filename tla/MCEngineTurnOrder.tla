------------------------- MODULE MCEngineTurnOrder -------------------------
(* The refinement on the decks of MCEngine.                                *)
EXTENDS MCEngine, EngineTurnOrder
============================================================================
