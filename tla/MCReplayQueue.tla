--------------------------- MODULE MCReplayQueue ---------------------------
(* ReplayQueue for TLC: its constants are given in the configurations.     *)
EXTENDS ReplayRefinement, TLC

\* Connections are interchangeable.
Symmetry == Permutations(Conns)

\* Bound: of the drains and manual replays, at most two run at a time.
TwoAtATime == Cardinality({w \in Workers : pc[w] \notin {"idle", "done"}}) <= 2
=============================================================================
