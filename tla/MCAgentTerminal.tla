-------------------------- MODULE MCAgentTerminal --------------------------
(***************************************************************************)
(* AgentTerminal on small instances.                                       *)
(***************************************************************************)
EXTENDS AgentTerminal
=============================================================================
