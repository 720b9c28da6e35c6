-------------------------- MODULE MCIndexLifecycle --------------------------
(* Two indexes with an administrator each; they are interchangeable. *)
EXTENDS IndexLifecycle, TLC

Symmetry == Permutations(Index)
=============================================================================
