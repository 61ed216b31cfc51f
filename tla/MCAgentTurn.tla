---------------------------- MODULE MCAgentTurn ----------------------------
(* AgentTurn for TLC: the .cfg files give all its constants values. *)
EXTENDS AgentTurn
=============================================================================
