-------------------------- MODULE MCSessionTurns --------------------------
(* SessionTurns for TLC: the .cfg files give all its constants values. *)
EXTENDS SessionTurns
=============================================================================
