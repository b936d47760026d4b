-------------------------- MODULE MCTunnelSessions --------------------------
(* TunnelSessions for TLC: its constants are given in the configuration.   *)
EXTENDS TunnelSessions
=============================================================================
