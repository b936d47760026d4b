---------------------------- MODULE MCIPLimiter ----------------------------
(* IPLimiter for TLC: its constants are given in the configurations.       *)
EXTENDS IPLimiter, TLC

\* Keys are interchangeable.
Symmetry == Permutations(Keys)
=============================================================================
