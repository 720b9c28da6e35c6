---------------------------- MODULE MCSnapshots -----------------------------
(* One index; the clients are interchangeable. *)
EXTENDS Snapshots, TLC

Symmetry == Permutations(Client)
=============================================================================
