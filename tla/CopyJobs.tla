------------------------------ MODULE CopyJobs ------------------------------
(***************************************************************************)
(* Jobs.java: the one background thread of a replica node that runs copy   *)
(* jobs a little at a time, together with SimpleCopyJob.visit and cancel   *)
(* and the callers: threads that launch a job, threads that cancel one,    *)
(* threads that close the node and wait in join().                         *)
(*                                                                         *)
(* The Jobs object is a Thread and is its own monitor, so a closer that    *)
(* waits in join() and the runner that waits for work sleep in the same    *)
(* wait set, and notify() may wake either.  The amount of copying of a job *)
(* is a number of visits; reading from the primary always returns (a       *)
(* primary that stops answering is not modelled).                          *)
(***************************************************************************)
EXTENDS Integers, FiniteSets

CONSTANTS
  CopyJob,    \* the jobs callers may launch
  HighPriority,  \* those that copy a new NRT point; the rest pre-copy merges
  Ord,        \* CopyJob.ord: creation order
  MaxVisits,  \* bound: visits a job needs to copy its files
  Closer,     \* threads that call close()
  NoJob       \* "no current job"

ASSUME CopyJobsAssumption ==
  /\ HighPriority \subseteq CopyJob
  /\ Ord \in [CopyJob -> Nat]
  /\ \A j, k \in CopyJob : Ord[j] = Ord[k] => j = k
  /\ MaxVisits \in Nat
  /\ NoJob \notin CopyJob

VARIABLES
  queue,      \* the priority queue
  finish,     \* Jobs.finish
  rpc,        \* where the runner thread is
  cur,        \* topJob of the runner
  accepted,   \* jobs launch() took
  refused,    \* jobs launch() answered with AlreadyClosedException
  left,       \* visits each job still needs
  cancelled,  \* jobs whose exc is set
  doneCount,  \* how often onceDone ran for each job
  cpc         \* where each closer is

vars == <<queue, finish, rpc, cur, accepted, refused, left, cancelled, doneCount, cpc>>

\* SimpleCopyJob.compareTo: higher priority, then first come first served.
Before(j, k) ==
  \/ j \in HighPriority /\ k \notin HighPriority
  \/ (j \in HighPriority <=> k \in HighPriority) /\ Ord[j] < Ord[k]

IsTop(j) == j \in queue /\ \A k \in queue \ {j} : Before(j, k)

Init ==
  /\ queue = {}
  /\ finish = FALSE
  /\ rpc = "getNext"
  /\ cur = NoJob
  /\ accepted = {}
  /\ refused = {}
  /\ left \in [CopyJob -> 0 .. MaxVisits]
  /\ cancelled = {}
  /\ doneCount = [j \in CopyJob |-> 0]
  /\ cpc = [c \in Closer |-> "idle"]

\* (Mistake: the runner is not woken.)
NoNotify == rpc' = rpc

\* notify(): one thread of the wait set wakes up.  A closer in join() that is
\* woken while the runner is alive goes back to sleep.
Notify ==
  \/ rpc = "waiting" /\ rpc' = "getNext"
  \/ \E c \in Closer : cpc[c] = "joining" /\ rpc' = rpc
  \/ rpc # "waiting" /\ rpc' = rpc

-----------------------------------------------------------------------------
(* Callers. *)

\* (Mistake: launch does not look at finish.)
LaunchAlways(j) ==
  /\ j \notin accepted \cup refused /\ rpc # "drain"
  /\ queue' = queue \cup {j}
  /\ accepted' = accepted \cup {j}
  /\ Notify
  /\ UNCHANGED <<refused, finish, cur, left, cancelled, doneCount, cpc>>

\* The runner holds the monitor while it drains.
Launch(j) ==
  /\ j \notin accepted \cup refused /\ rpc # "drain"
  /\ \/ /\ ~finish
        /\ queue' = queue \cup {j}
        /\ accepted' = accepted \cup {j}
        /\ Notify
        /\ UNCHANGED refused
     \/ /\ finish
        /\ refused' = refused \cup {j}
        /\ UNCHANGED <<queue, accepted, rpc>>
  /\ UNCHANGED <<finish, cur, left, cancelled, doneCount, cpc>>

\* cancel() from outside (a conflicting job, a newer NRT point): only marks the job.
Cancel(j) ==
  /\ j \in accepted /\ j \notin cancelled
  /\ cancelled' = cancelled \cup {j}
  /\ UNCHANGED <<queue, finish, rpc, cur, accepted, refused, left, doneCount, cpc>>

\* close() up to the wait inside join().
Close(c) ==
  /\ cpc[c] = "idle" /\ rpc # "drain"
  /\ finish' = TRUE
  /\ Notify
  /\ cpc' = [cpc EXCEPT ![c] = "joining"]
  /\ UNCHANGED <<queue, cur, accepted, refused, left, cancelled, doneCount>>

JoinReturns(c) ==
  /\ cpc[c] = "joining" /\ rpc = "exited"
  /\ cpc' = [cpc EXCEPT ![c] = "closed"]
  /\ UNCHANGED <<queue, finish, rpc, cur, accepted, refused, left, cancelled, doneCount>>

-----------------------------------------------------------------------------
(* The runner thread. *)

GetNextJob ==
  /\ rpc = "getNext"
  /\ \/ finish /\ rpc' = "exiting" /\ UNCHANGED <<queue, cur>>
     \/ ~finish /\ queue = {} /\ rpc' = "waiting" /\ UNCHANGED <<queue, cur>>
     \/ /\ ~finish
        /\ \E j \in queue : IsTop(j) /\ queue' = queue \ {j} /\ cur' = j
        /\ rpc' = "visit"
  /\ UNCHANGED <<finish, accepted, refused, left, cancelled, doneCount, cpc>>

\* (Mistake: the job does not notice that nothing is left to copy.)
VisitAlways ==
  /\ rpc = "visit"
  /\ left' = [left EXCEPT ![cur] = @ - 1]
  /\ rpc' = "offer"
  /\ UNCHANGED <<queue, finish, cur, accepted, refused, cancelled, doneCount, cpc>>

\* One iota of work: true when the job was cancelled or has nothing left to copy.
Visit ==
  /\ rpc = "visit"
  /\ \/ (cur \in cancelled \/ left[cur] = 0) /\ rpc' = "callback" /\ UNCHANGED left
     \/ /\ cur \notin cancelled /\ left[cur] > 0
        /\ left' = [left EXCEPT ![cur] = @ - 1]
        /\ rpc' = "offer"
  /\ UNCHANGED <<queue, finish, cur, accepted, refused, cancelled, doneCount, cpc>>

\* An exception in visit(): the runner cancels the job and completes it.
VisitFails ==
  /\ rpc = "visit" /\ cur \notin cancelled
  /\ cancelled' = cancelled \cup {cur}
  /\ rpc' = "callback"
  /\ UNCHANGED <<queue, finish, cur, accepted, refused, left, doneCount, cpc>>

\* (Mistake: a job that is not done is put back only while the node is open.)
OfferBackIfOpen ==
  /\ rpc = "offer"
  /\ queue' = IF finish THEN queue ELSE queue \cup {cur}
  /\ cur' = NoJob
  /\ rpc' = "getNext"
  /\ UNCHANGED <<finish, accepted, refused, left, cancelled, doneCount, cpc>>

OfferBack ==
  /\ rpc = "offer"
  /\ queue' = queue \cup {cur}
  /\ cur' = NoJob
  /\ rpc' = "getNext"
  /\ UNCHANGED <<finish, accepted, refused, left, cancelled, doneCount, cpc>>

\* topJob.onceDone.run(topJob); an exception of it is ignored.
OnceDone ==
  /\ rpc = "callback"
  /\ doneCount' = [doneCount EXCEPT ![cur] = @ + 1]
  /\ cur' = NoJob
  /\ rpc' = "getNext"
  /\ UNCHANGED <<queue, finish, accepted, refused, left, cancelled, cpc>>

\* After the loop, under the monitor: cancel and complete what is still queued.
EnterDrain ==
  /\ rpc = "exiting"
  /\ rpc' = "drain"
  /\ UNCHANGED <<queue, finish, cur, accepted, refused, left, cancelled, doneCount, cpc>>

Drain ==
  /\ rpc = "drain"
  /\ \E j \in queue :
       /\ IsTop(j)
       /\ queue' = queue \ {j}
       /\ cancelled' = cancelled \cup {j}
       /\ doneCount' = [doneCount EXCEPT ![j] = @ + 1]
  /\ UNCHANGED <<finish, rpc, cur, accepted, refused, left, cpc>>

\* (Mistake: the queue is not drained.)
ExitAtOnce ==
  /\ rpc = "drain"
  /\ rpc' = "exited"
  /\ UNCHANGED <<queue, finish, cur, accepted, refused, left, cancelled, doneCount, cpc>>

\* The thread ends and wakes the closers.
Exit ==
  /\ rpc = "drain" /\ queue = {}
  /\ rpc' = "exited"
  /\ UNCHANGED <<queue, finish, cur, accepted, refused, left, cancelled, doneCount, cpc>>

Runner == GetNextJob \/ Visit \/ VisitFails \/ OfferBack \/ OnceDone \/ EnterDrain \/ Drain \/ Exit

Callers ==
  \/ \E j \in CopyJob : Launch(j) \/ Cancel(j)
  \/ \E c \in Closer : Close(c) \/ JoinReturns(c)

Next == Runner \/ Callers

Spec == Init /\ [][Next]_vars

\* The runner is a thread of its own and keeps running; a closer in join()
\* continues once the runner is gone.  Nobody has to launch, cancel or close.
FairSpec ==
  /\ Spec
  /\ WF_vars(Runner)
  /\ \A c \in Closer : WF_vars(JoinReturns(c))

-----------------------------------------------------------------------------
(* Properties. *)

RunnerStates == {"getNext", "waiting", "visit", "offer", "callback", "exiting", "drain", "exited"}

TypeOK ==
  /\ queue \subseteq CopyJob
  /\ finish \in BOOLEAN
  /\ rpc \in RunnerStates
  /\ cur \in CopyJob \cup {NoJob}
  /\ accepted \subseteq CopyJob
  /\ refused \subseteq CopyJob
  /\ left \in [CopyJob -> 0 .. MaxVisits]
  /\ cancelled \subseteq CopyJob
  /\ doneCount \in [CopyJob -> Nat]
  /\ cpc \in [Closer -> {"idle", "joining", "closed"}]

(* A job that launch() accepted is at every moment in exactly one place: in the
   queue, in the hands of the runner, or completed once.  A job that was not
   accepted is nowhere.  This covers the job that is being visited while
   close() comes in and is put back after finish was set. *)
Holds(j) == cur = j
InOnePlace(j) ==
  \/ j \in queue /\ ~Holds(j) /\ doneCount[j] = 0
  \/ j \notin queue /\ Holds(j) /\ doneCount[j] = 0
  \/ j \notin queue /\ ~Holds(j) /\ doneCount[j] = 1

EachJobInOnePlace ==
  \A j \in CopyJob :
    IF j \in accepted THEN InOnePlace(j)
    ELSE j \notin queue /\ ~Holds(j) /\ doneCount[j] = 0

(* Where the runner is, and what that says about the rest of the state; with
   the two properties around it this is inductive. *)
RunnerAndCallers ==
  /\ rpc \in {"visit", "offer", "callback"} <=> cur # NoJob
  /\ rpc \in {"exiting", "drain", "exited"} => finish
  /\ rpc = "exited" => queue = {}
  /\ \A c \in Closer : cpc[c] # "idle" => finish
  /\ \A c \in Closer : cpc[c] = "closed" => rpc = "exited"
  /\ accepted \cap refused = {}

(* When the runner thread is gone - and so when close() returns - the callback
   of every accepted job has run, and exactly once. *)
NoJobLost ==
  (rpc = "exited" \/ \E c \in Closer : cpc[c] = "closed")
     => \A j \in accepted : doneCount[j] = 1

(* The runner never sleeps while there is something to do, although closers
   sleep on the same monitor and notify() wakes only one thread. *)
NoLostWakeup == rpc = "waiting" => queue = {} /\ ~finish

(* Every accepted job is completed, and every close() returns: jobs are finitely many,
   and each visit, with the reads from the primary in it, and each callback returns. *)
AcceptedJobsComplete == \A j \in CopyJob : j \in accepted ~> doneCount[j] = 1
CloseReturns == \A c \in Closer : cpc[c] = "joining" ~> cpc[c] = "closed"

(* The thread implements the job service a replica relies on. *)
StatusOf(j) ==
  IF j \in refused THEN "refused"
  ELSE IF j \notin accepted THEN "new"
  ELSE IF doneCount[j] = 0 THEN "pending" ELSE "completed"

ServiceState == IF ~finish THEN "open" ELSE IF rpc = "exited" THEN "closed" ELSE "closing"

Service == INSTANCE JobService WITH
  status <- [j \in CopyJob |-> StatusOf(j)], service <- ServiceState

ImplementsService == Service!Spec
=============================================================================
