----------------------------- MODULE MCCometNodes -----------------------------
(* Small instances of CometNodes for TLC: the .cfg gives the constants. *)
EXTENDS CometNodes, TLC

\* Nothing tells one node from another (for runs without liveness).
Symmetry == Permutations(Nodes)
=============================================================================
