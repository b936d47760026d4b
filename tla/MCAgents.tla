------------------------------ MODULE MCAgents ------------------------------
(* Agents for TLC: its constants are given in the configurations.          *)
EXTENDS Agents
=============================================================================
