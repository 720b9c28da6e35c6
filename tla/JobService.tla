----------------------------- MODULE JobService -----------------------------
(***************************************************************************)
(* What a replica expects of its background copy thread, whatever the      *)
(* thread does inside: a job that was accepted is completed exactly once,  *)
(* a job offered after closing began is refused, and closing ends only     *)
(* when nothing is pending.                                                *)
(***************************************************************************)
CONSTANT CopyJob

VARIABLES
  status,   \* of each job: "new", "pending", "completed" or "refused"
  service   \* "open", "closing" or "closed"

vars == <<status, service>>

Init ==
  /\ status = [j \in CopyJob |-> "new"]
  /\ service = "open"

Accept(j) ==
  /\ service = "open" /\ status[j] = "new"
  /\ status' = [status EXCEPT ![j] = "pending"]
  /\ UNCHANGED service

Refuse(j) ==
  /\ service # "open" /\ status[j] = "new"
  /\ status' = [status EXCEPT ![j] = "refused"]
  /\ UNCHANGED service

Complete(j) ==
  /\ status[j] = "pending"
  /\ status' = [status EXCEPT ![j] = "completed"]
  /\ UNCHANGED service

BeginClose ==
  /\ service = "open"
  /\ service' = "closing"
  /\ UNCHANGED status

EndClose ==
  /\ service = "closing"
  /\ \A j \in CopyJob : status[j] # "pending"
  /\ service' = "closed"
  /\ UNCHANGED status

Next ==
  \/ \E j \in CopyJob : Accept(j) \/ Refuse(j) \/ Complete(j)
  \/ BeginClose
  \/ EndClose

Spec == Init /\ [][Next]_vars
=============================================================================
