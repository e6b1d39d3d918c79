--------------------------- MODULE MCTurnRunners ---------------------------
(* TurnRunners for TLC: its constants are numbers and one set of names.    *)
EXTENDS TurnRunners, TLC
=============================================================================
