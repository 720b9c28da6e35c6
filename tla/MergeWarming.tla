---------------------------- MODULE MergeWarming ----------------------------
(***************************************************************************)
(* Merge warming of an NRT primary: before a merged segment is used, the   *)
(* merge thread asks the replicas to copy its files and waits until each   *)
(* has answered (preCopyMergedSegmentFiles), while replicas start and join *)
(* the merges that are being warmed (addReplica), crash, or stop the       *)
(* index, and the primary closes.                                          *)
(*                                                                         *)
(* A registration is one call of addReplica: a replica that starts again   *)
(* registers again, and its older registrations are kept.  Its copy job is *)
(* one step here; that an accepted job completes, also when it failed or   *)
(* was cancelled, is shown in CopyJobs.  A connection whose peer is gone   *)
(* or refused the request may throw when it is polled, or stay at the end  *)
(* of the stream, where available() is 0 for ever.                         *)
(***************************************************************************)
EXTENDS Integers, Sequences, SequencesExt

CONSTANTS
  Merge,     \* merged segments, each with the thread that merges it
  Replica,
  MaxJoins,  \* bound: registrations
  MaxFails   \* bound: replica crashes, stops and failed starts

ASSUME MergeWarmingAssumption == MaxJoins \in Nat /\ MaxFails \in Nat

Reg == 1 .. MaxJoins
Via == {"merge", "join"}  \* who made the connection
None == 0

VARIABLES
  closed,       \* PrimaryNode.isClosed()
  replica,      \* of each replica: "off", "starting" (nrtReplicaNode is not assigned yet), "started",
                \* or "stopped" (the server without the index)
  fails,
  known,        \* replicaAddresses: the replica of each registration
  joiner,       \* addReplica per registration: where it is and its place in warming
  warming,      \* warmingSegments, in order
  monitor,      \* the registration that holds the monitor of warmingSegments, or None
  pc,           \* where each merge thread is
  todo,         \* how many registrations it read, and how many of them it has asked
  listed,       \* MergePreCopy.connections
  finished,     \* MergePreCopy.finished
  conn          \* each connection as the primary would find it

vars == <<closed, replica, fails, known, joiner, warming, monitor, pc, todo, listed, finished, conn>>
replicas == <<replica, fails>>
joins == <<known, joiner, monitor>>

\* "gone": the peer crashed; "refused": the handler threw, or the request did not get through.
Broken == {"gone", "refused"}
Open == {"copying", "answered"} \cup Broken

Init ==
  /\ closed = FALSE
  /\ replica = [r \in Replica |-> "off"]
  /\ fails = 0
  /\ known = <<>>
  /\ joiner = [i \in Reg |-> [pc |-> "none", next |-> 1]]
  /\ warming = <<>>
  /\ monitor = None
  /\ pc = [m \in Merge |-> "idle"]
  /\ todo = [m \in Merge |-> [read |-> 0, asked |-> 0]]
  /\ listed = [m \in Merge |-> {}]
  /\ finished = [m \in Merge |-> FALSE]
  /\ conn = [m \in Merge |-> [c \in Reg \X Via |-> "none"]]

\* What becomes of a request to registration i: no connection to a server that is
\* off; the handler throws where nrtReplicaNode is null, and launching the job may throw.
Answering(i) ==
  CASE replica[known[i]] = "started" -> {"copying", "refused"}
    [] replica[known[i]] \in {"starting", "stopped"} -> {"refused"}
    [] OTHER -> {}

-----------------------------------------------------------------------------
(* preCopyMergedSegmentFiles *)

ReadReplicas(m) ==
  /\ pc[m] = "idle" /\ ~closed
  /\ pc' = [pc EXCEPT ![m] = "enter"]
  /\ todo' = [todo EXCEPT ![m].read = Len(known)]
  /\ UNCHANGED <<closed, replicas, joins, warming, listed, finished, conn>>

EnterWarming(m) ==
  /\ pc[m] = "enter" /\ monitor = None
  /\ warming' = Append(warming, m)
  /\ pc' = [pc EXCEPT ![m] = "ask"]
  /\ UNCHANGED <<closed, replicas, joins, todo, listed, finished, conn>>

\* Connects to the next replica and sends the request; an exception is ignored.
Ask(m) ==
  /\ pc[m] = "ask" /\ todo[m].asked < todo[m].read
  /\ LET i == todo[m].asked + 1
     IN  /\ todo' = [todo EXCEPT ![m].asked = i]
         /\ \/ \E s \in Answering(i) :
                 /\ conn' = [conn EXCEPT ![m][<<i, "merge">>] = s]
                 /\ pc' = [pc EXCEPT ![m] = "list"]
            \/ UNCHANGED <<conn, pc>>
  /\ UNCHANGED <<closed, replicas, joins, warming, listed, finished>>

ListConnection(m) ==
  /\ pc[m] = "list"
  /\ listed' = [listed EXCEPT ![m] = @ \cup {<<todo[m].asked, "merge">>}]
  /\ pc' = [pc EXCEPT ![m] = "ask"]
  /\ UNCHANGED <<closed, replicas, joins, warming, todo, finished, conn>>

AllAsked(m) ==
  /\ pc[m] = "ask" /\ todo[m].asked = todo[m].read
  /\ pc' = [pc EXCEPT ![m] = "check"]
  /\ UNCHANGED <<closed, replicas, joins, warming, todo, listed, finished, conn>>

\* MergePreCopy.finished()
CheckFinished(m) ==
  /\ pc[m] = "check"
  /\ finished' = [finished EXCEPT ![m] = (listed[m] = {})]
  /\ pc' = [pc EXCEPT ![m] = IF listed[m] = {} THEN "leave" ELSE "poll"]
  /\ UNCHANGED <<closed, replicas, joins, warming, todo, listed, conn>>

\* (Mistake: the replicas are waited for first.)
CancelWaits(m) ==
  /\ pc[m] = "poll" /\ closed /\ listed[m] = {}
  /\ pc' = [pc EXCEPT ![m] = "leave"]
  /\ UNCHANGED <<closed, replicas, joins, warming, todo, listed, finished, conn>>

\* The primary is closing: the connections are closed and the warming is over.
CancelWarming(m) ==
  /\ pc[m] = "poll" /\ closed
  /\ conn' = [conn EXCEPT ![m] = [c \in DOMAIN @ |-> IF c \in listed[m] THEN "closed" ELSE @[c]]]
  /\ pc' = [pc EXCEPT ![m] = "leave"]
  /\ UNCHANGED <<closed, replicas, joins, warming, todo, listed, finished>>

\* (Mistake: a connection that answered stays in the list.)
OverAnswerStays == {}

\* The connections that have the byte to be read.
Over == {"answered"}

\* Those that have it are closed and removed, and so are broken ones that throw.

Poll(m) ==
  /\ pc[m] = "poll" /\ ~closed
  /\ \E thrown \in SUBSET {c \in listed[m] : conn[m][c] \in Broken} :
       LET gone == {c \in listed[m] : conn[m][c] \in Over} \cup thrown
       IN /\ listed' = [listed EXCEPT ![m] = @ \ gone]
          /\ conn' = [conn EXCEPT ![m] =
                        [c \in DOMAIN @ |-> IF c \in gone THEN "closed" ELSE @[c]]]
  /\ pc' = [pc EXCEPT ![m] = "check"]
  /\ UNCHANGED <<closed, replicas, joins, warming, todo, finished>>

LeaveWarming(m) ==
  /\ pc[m] = "leave" /\ monitor = None
  /\ \E i \in 1 .. Len(warming) : warming[i] = m /\ warming' = RemoveAt(warming, i)
  /\ pc' = [pc EXCEPT ![m] = "done"]
  /\ todo' = [todo EXCEPT ![m] = [read |-> 0, asked |-> 0]]
  /\ UNCHANGED <<closed, replicas, joins, listed, finished, conn>>

-----------------------------------------------------------------------------
(* addReplica *)

\* The constructor of NRTReplicaNode tells the primary, if it is reached.
StartReplica(r) ==
  /\ replica[r] \in {"off", "stopped"} /\ Len(known) < MaxJoins
  /\ replica' = [replica EXCEPT ![r] = "starting"]
  /\ IF closed THEN UNCHANGED <<known, joiner>>
     ELSE /\ known' = Append(known, r)
          /\ joiner' = [joiner EXCEPT ![Len(known')].pc = "enter"]
  /\ UNCHANGED <<closed, fails, warming, monitor, pc, todo, listed, finished, conn>>

\* The constructor returns: nrtReplicaNode is assigned.
StartEnds(r) ==
  /\ replica[r] = "starting"
  /\ replica' = [replica EXCEPT ![r] = "started"]
  /\ UNCHANGED <<closed, fails, joins, warming, pc, todo, listed, finished, conn>>

\* It throws: the replica is registered all the same.
StartThrows(r) ==
  /\ replica[r] = "starting" /\ fails < MaxFails
  /\ fails' = fails + 1
  /\ replica' = [replica EXCEPT ![r] = "stopped"]
  /\ UNCHANGED <<closed, joins, warming, pc, todo, listed, finished, conn>>

\* (Mistake: without the monitor of warmingSegments.)
JoinUnlocked(i) ==
  /\ joiner[i].pc = "enter"
  /\ monitor' = i
  /\ joiner' = [joiner EXCEPT ![i].pc = "joining"]
  /\ UNCHANGED <<closed, replicas, known, warming, pc, todo, listed, finished, conn>>

BeginJoining(i) ==
  /\ joiner[i].pc = "enter" /\ monitor = None
  /\ monitor' = i
  /\ joiner' = [joiner EXCEPT ![i].pc = "joining"]
  /\ UNCHANGED <<closed, replicas, known, warming, pc, todo, listed, finished, conn>>

JoinerAt(i, m) == joiner[i].pc = "joining" /\ joiner[i].next <= Len(warming)
                  /\ warming[joiner[i].next] = m

EndJoining(i) ==
  /\ joiner' = [joiner EXCEPT ![i] = [pc |-> "done", next |-> 1]]
  /\ monitor' = None

AllJoined(i) ==
  /\ joiner[i].pc = "joining" /\ joiner[i].next > Len(warming)
  /\ EndJoining(i)
  /\ UNCHANGED <<closed, replicas, known, warming, pc, todo, listed, finished, conn>>

\* The merge thread asked it already.
SkipMerge(i, m) ==
  /\ JoinerAt(i, m) /\ <<i, "merge">> \in listed[m]
  /\ joiner' = [joiner EXCEPT ![i].next = @ + 1]
  /\ UNCHANGED <<closed, replicas, known, monitor, warming, pc, todo, listed, finished, conn>>

\* (Mistake: tryAddConnection does not look at finished.)
NeverFinished(m) == FALSE
TooLate(m) == finished[m]

\* tryAddConnection, then the request.
JoinMerge(i, m) ==
  /\ JoinerAt(i, m) /\ <<i, "merge">> \notin listed[m] /\ ~TooLate(m)
  /\ \E s \in Answering(i) : conn' = [conn EXCEPT ![m][<<i, "join">>] = s]
  /\ listed' = [listed EXCEPT ![m] = @ \cup {<<i, "join">>}]
  /\ joiner' = [joiner EXCEPT ![i].next = @ + 1]
  /\ UNCHANGED <<closed, replicas, known, monitor, warming, pc, todo, finished>>

\* An exception after tryAddConnection ends the call; the connection stays in the list.
JoinBreaks(i, m) ==
  /\ JoinerAt(i, m) /\ <<i, "merge">> \notin listed[m] /\ ~TooLate(m)
  /\ Answering(i) # {}
  /\ \E s \in Answering(i) \cup {"refused"} : conn' = [conn EXCEPT ![m][<<i, "join">>] = s]
  /\ listed' = [listed EXCEPT ![m] = @ \cup {<<i, "join">>}]
  /\ EndJoining(i)
  /\ UNCHANGED <<closed, replicas, known, warming, pc, todo, finished>>

\* No connection, or the merge is finished: the connection is closed and used all
\* the same.  The exception ends the call.
JoinFails(i, m) ==
  /\ JoinerAt(i, m) /\ <<i, "merge">> \notin listed[m]
  /\ TooLate(m) \/ Answering(i) = {}
  /\ EndJoining(i)
  /\ UNCHANGED <<closed, replicas, known, warming, pc, todo, listed, finished, conn>>

-----------------------------------------------------------------------------
(* The replicas, and the close of the primary *)

\* CopyFilesHandler: the job ended, and the byte 1 is sent.
Answer(m, c) ==
  /\ conn[m][c] = "copying"
  /\ conn' = [conn EXCEPT ![m][c] = "answered"]
  /\ UNCHANGED <<closed, replicas, joins, warming, pc, todo, listed, finished>>

\* The connections whose handler runs in replica r's server.
Copies(r, m) == {c \in DOMAIN conn[m] : conn[m][c] = "copying" /\ known[c[1]] = r}

CrashReplica(r) ==
  /\ replica[r] # "off" /\ fails < MaxFails
  /\ fails' = fails + 1
  /\ replica' = [replica EXCEPT ![r] = "off"]
  /\ conn' = [m \in Merge |-> [c \in DOMAIN conn[m] |->
                                 IF c \in Copies(r, m) THEN "gone" ELSE conn[m][c]]]
  /\ UNCHANGED <<closed, joins, warming, pc, todo, listed, finished>>

\* NRTReplicaNode.close cancels the jobs, which ends them: their handlers answer.
StopReplica(r) ==
  /\ replica[r] = "started" /\ fails < MaxFails
  /\ fails' = fails + 1
  /\ replica' = [replica EXCEPT ![r] = "stopped"]
  /\ conn' = [m \in Merge |-> [c \in DOMAIN conn[m] |->
                                 IF c \in Copies(r, m) THEN "answered" ELSE conn[m][c]]]
  /\ UNCHANGED <<closed, joins, warming, pc, todo, listed, finished>>

ClosePrimary ==
  /\ ~closed
  /\ closed' = TRUE
  /\ UNCHANGED <<replicas, joins, warming, pc, todo, listed, finished, conn>>

-----------------------------------------------------------------------------
MergeStep(m) ==
  \/ ReadReplicas(m) \/ EnterWarming(m) \/ Ask(m) \/ ListConnection(m) \/ AllAsked(m)
  \/ CheckFinished(m) \/ CancelWarming(m) \/ Poll(m) \/ LeaveWarming(m)

JoinStep(i) ==
  \/ BeginJoining(i) \/ AllJoined(i)
  \/ \E m \in Merge : SkipMerge(i, m) \/ JoinMerge(i, m) \/ JoinBreaks(i, m) \/ JoinFails(i, m)

Next ==
  \/ \E m \in Merge : MergeStep(m)
  \/ \E i \in Reg : JoinStep(i)
  \/ \E m \in Merge, c \in Reg \X Via : Answer(m, c)
  \/ \E r \in Replica : StartReplica(r) \/ StartEnds(r) \/ StartThrows(r)
                       \/ CrashReplica(r) \/ StopReplica(r)
  \/ ClosePrimary

\* The threads of the primary run on, and copies end: each registration has a bounded
\* number of steps, and so have the answers.
Fairness ==
  /\ \A m \in Merge : WF_vars(MergeStep(m))
  /\ WF_vars(\E i \in Reg : JoinStep(i))
  /\ WF_vars(\E m \in Merge, c \in Reg \X Via : Answer(m, c))

Spec == Init /\ [][Next]_vars /\ Fairness

-----------------------------------------------------------------------------
(* Properties. *)

TypeOK ==
  /\ closed \in BOOLEAN /\ fails \in 0 .. MaxFails
  /\ replica \in [Replica -> {"off", "starting", "started", "stopped"}]
  /\ known \in Seq(Replica) /\ Len(known) <= MaxJoins
  /\ joiner \in [Reg -> [pc : {"none", "enter", "joining", "done"}, next : Nat]]
  /\ warming \in Seq(Merge) /\ IsInjective(warming)
  /\ monitor \in Reg \cup {None}
  /\ monitor # None <=> \E i \in Reg : joiner[i].pc = "joining"
  /\ \A i \in Reg : joiner[i].pc = "joining" => monitor = i
  /\ pc \in [Merge -> {"idle", "enter", "ask", "list", "check", "poll", "leave", "done"}]
  /\ todo \in [Merge -> [read : 0 .. MaxJoins, asked : 0 .. MaxJoins]]
  /\ listed \in [Merge -> SUBSET (Reg \X Via)]
  /\ finished \in [Merge -> BOOLEAN]
  /\ conn \in [Merge -> [Reg \X Via -> Open \cup {"none", "closed"}]]

(* When warming ended without the primary closing, every replica that was asked,
   by the merge thread or while joining, has answered or its connection failed:
   none is still copying, and none joins a merge that is over. *)
EndsAfterAnswers ==
  \A m \in Merge : finished[m] =>
    \A c \in Reg \X Via : conn[m][c] \in {"none", "closed"}

(* Closing the primary ends the warming of every merge, whatever the replicas do:
   a merge thread does not outlive the close. *)
CloseEndsWarming ==
  \A m \in Merge : closed /\ pc[m] # "idle" ~> pc[m] = "done"

(* A merge is warmed in the end although replicas keep joining it, as long as no
   connection breaks.  This excludes more than crashes: a request that meets a replica
   before its nrtReplicaNode is assigned, after its index was stopped, or whose job cannot
   be launched is refused, and the merge may then wait for ever (Poll, NRTPrimaryNode 158). *)
WarmingEndsWhenHealthy ==
  [](\A m \in Merge, c \in Reg \X Via : conn[m][c] \notin Broken)
    => \A m \in Merge : pc[m] = "enter" ~> pc[m] = "done"

(* A merge is warmed in the end also when a replica crashes while it copies, as long as
   no request is refused. *)
WarmingEnds ==
  [](\A m \in Merge, c \in Reg \X Via : conn[m][c] # "refused")
    => \A m \in Merge : pc[m] = "enter" ~> pc[m] = "done"
=============================================================================
