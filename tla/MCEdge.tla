------------------------------- MODULE MCEdge -------------------------------
(* Edge for TLC: its constants are given in the configurations.            *)
EXTENDS Edge, TLC

\* Requests are interchangeable; so are connections and accounts.
Symmetry == Permutations(Requests) \cup Permutations(Conns) \cup Permutations(Users)
=============================================================================
