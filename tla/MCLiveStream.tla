---------------------------- MODULE MCLiveStream ----------------------------
(* LiveStream for TLC: its constants are given in the configurations.      *)
EXTENDS LiveStream
=============================================================================
