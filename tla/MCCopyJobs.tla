----------------------------- MODULE MCCopyJobs -----------------------------
(* Three jobs, one of them for an NRT point and created last, and two threads *)
(* that close the node.                                                    *)
EXTENDS CopyJobs, TLC

CONSTANTS j1, j2, j3

JobOrd == (j1 :> 1) @@ (j2 :> 2) @@ (j3 :> 3)
=============================================================================
