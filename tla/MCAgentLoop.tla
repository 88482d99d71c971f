----------------------------- MODULE MCAgentLoop ----------------------------
(* AgentLoop on small instances; the values are in the configurations.      *)
EXTENDS AgentLoop
=============================================================================
