----------------------------- MODULE MCFileMap -----------------------------
(* Instances of FileMap for TLC. *)
EXTENDS FileMap, TLC

CONSTANT n1

OnFirst == [f \in File |-> n1]
=============================================================================
