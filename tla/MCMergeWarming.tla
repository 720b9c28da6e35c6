--------------------------- MODULE MCMergeWarming ---------------------------
(* A merge is warmed while replicas register, crash and stop. *)
EXTENDS MergeWarming
=============================================================================
