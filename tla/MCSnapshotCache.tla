-------------------------- MODULE MCSnapshotCache --------------------------
(* SnapshotCache for TLC: its constants are given in the configuration.    *)
EXTENDS SnapshotCache
=============================================================================
