----------------------------- MODULE MCAgentSync -----------------------------
(* Instances of AgentSync for TLC. *)
EXTENDS AgentSync

AllLists == SUBSET Hash
=============================================================================
