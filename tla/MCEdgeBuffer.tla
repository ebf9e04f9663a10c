----------------------------- MODULE MCEdgeBuffer ------------------------------
(* Instances of EdgeBuffer for TLC. *)
EXTENDS EdgeBuffer, TLC

\* Topics are interchangeable.
Alike == Permutations(Topics)
=============================================================================
