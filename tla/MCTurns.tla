------------------------------ MODULE MCTurns ------------------------------
(***************************************************************************)
(* Turns with five targets.                                                *)
(***************************************************************************)
EXTENDS Turns

CONSTANTS c1, c2, c3, c4, c5
=============================================================================
