----------------------------- MODULE MCGenFile -----------------------------
(* The generation files of one index, for TLC: all constants are numbers. *)
EXTENDS GenFile, TLC
=============================================================================
