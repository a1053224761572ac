-------------------------- MODULE MCAgentDeployment --------------------------
(* A small instance of AgentDeployment for TLC. *)
EXTENDS AgentDeployment
=============================================================================
