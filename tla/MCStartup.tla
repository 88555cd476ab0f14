----------------------------- MODULE MCStartup -----------------------------
(* Startup on a small cluster: nodes, paths of bricks and files are each    *)
(* interchangeable.                                                         *)
EXTENDS Startup, TLC

Symmetry == Permutations(Node) \cup Permutations(Brick) \cup Permutations(Gfid)
=============================================================================
