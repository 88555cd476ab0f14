------------------------------ MODULE MCTrace ------------------------------
(* Instances of Trace for TLC. *)
EXTENDS Trace, TLC

Symmetry == Permutations(Node) \cup Permutations(Thread)
=============================================================================
