------------------------------ MODULE MCWorker ------------------------------
(* Instances of Worker for TLC. *)
EXTENDS Worker, TLC

CONSTANT b1

OneBrick == [p \in Path |-> b1]
Symmetry == Permutations(Path)
=============================================================================
