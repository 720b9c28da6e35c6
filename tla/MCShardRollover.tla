-------------------------- MODULE MCShardRollover --------------------------
(* Shards that are full with their first (MaxDocs = 0) or second document  *)
(* (MaxDocs = 1), so that a few chunks roll over once or twice while       *)
(* earlier chunks still run.                                               *)
EXTENDS ShardRollover
=============================================================================
