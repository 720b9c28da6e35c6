--------------------------- MODULE CopyJobsProofs ---------------------------
(***************************************************************************)
(* Proofs about the copy thread of a replica, for any set of jobs and      *)
(* closers: types, the inductive invariant that keeps every accepted job   *)
(* in exactly one place, no lost wakeup, no lost job, and that the thread  *)
(* implements JobService.                                                  *)
(***************************************************************************)
EXTENDS CopyJobs, TLAPS

(* TypeOK is not inductive alone: that the runner visits a job, not NoJob,
   comes from RunnerAndCallers. *)
ControlInv == TypeOK /\ RunnerAndCallers

(* The initial state has the types and the control facts. *)
LEMMA ControlInit == Init => ControlInv
<1> SUFFICES ASSUME Init PROVE ControlInv
  OBVIOUS
<1>1. TypeOK
  BY DEF Init, TypeOK, RunnerStates
<1>2. RunnerAndCallers
  BY DEF Init, RunnerAndCallers
<1> QED BY <1>1, <1>2 DEF ControlInv

(* Types and control facts are preserved by every step. *)
LEMMA ControlStep == ControlInv /\ [Next]_vars => ControlInv'
<1> SUFFICES ASSUME TypeOK, RunnerAndCallers, [Next]_vars
             PROVE  TypeOK' /\ RunnerAndCallers'
  BY DEF ControlInv
<1> USE DEF TypeOK, RunnerStates, RunnerAndCallers
<1>1. ASSUME NEW j \in CopyJob, Launch(j) PROVE TypeOK' /\ RunnerAndCallers'
  <2>1. rpc' = rpc \/ (rpc = "waiting" /\ rpc' = "getNext")
    BY <1>1 DEF Launch, Notify
  <2>2. CASE ~finish
    BY <1>1, <2>1, <2>2 DEF Launch
  <2>3. CASE finish
    BY <1>1, <2>3 DEF Launch
  <2> QED BY <2>2, <2>3
<1>2. ASSUME NEW j \in CopyJob, Cancel(j) PROVE TypeOK' /\ RunnerAndCallers'
  BY <1>2 DEF Cancel
<1>3. ASSUME NEW c \in Closer, Close(c) PROVE TypeOK' /\ RunnerAndCallers'
  <2>1. rpc' = rpc \/ (rpc = "waiting" /\ rpc' = "getNext")
    BY <1>3 DEF Close, Notify
  <2> QED BY <1>3, <2>1 DEF Close
<1>4. ASSUME NEW c \in Closer, JoinReturns(c) PROVE TypeOK' /\ RunnerAndCallers'
  BY <1>4 DEF JoinReturns
<1>5. CASE GetNextJob
  BY <1>5, CopyJobsAssumption DEF GetNextJob, IsTop
<1>6. CASE Visit
  <2>1. cur \in CopyJob /\ cur # NoJob
    BY <1>6 DEF Visit
  <2>2. left' \in [CopyJob -> 0 .. MaxVisits]
    <3>1. CASE UNCHANGED left
      BY <3>1
    <3>2. CASE left[cur] > 0 /\ left' = [left EXCEPT ![cur] = @ - 1]
      <4>1. left[cur] - 1 \in 0 .. MaxVisits
        BY <2>1, <3>2, CopyJobsAssumption
      <4> QED BY <2>1, <3>2, <4>1
    <3> QED BY <1>6, <3>1, <3>2 DEF Visit
  <2> QED BY <1>6, <2>1, <2>2 DEF Visit
<1>7. CASE VisitFails
  <2>1. cur \in CopyJob
    BY <1>7 DEF VisitFails
  <2> QED BY <1>7, <2>1 DEF VisitFails
<1>8. CASE OfferBack
  BY <1>8 DEF OfferBack
<1>9. CASE OnceDone
  BY <1>9 DEF OnceDone
<1>10. CASE EnterDrain
  BY <1>10 DEF EnterDrain
<1>11. CASE Drain
  BY <1>11 DEF Drain, IsTop
<1>12. CASE Exit
  BY <1>12 DEF Exit
<1>13. CASE UNCHANGED vars
  BY <1>13 DEF vars
<1> QED
  BY <1>1, <1>2, <1>3, <1>4, <1>5, <1>6, <1>7, <1>8, <1>9, <1>10, <1>11, <1>12, <1>13
  DEF Next, Runner, Callers

(* Where the runner thread and the closers are, always. *)
LEMMA ControlCorrect == Spec => []ControlInv
<1> QED BY ControlInit, ControlStep, PTL DEF Spec

(* Every variable keeps its type, and the runner has a job exactly while it visits it,
   puts it back or runs its callback. *)
THEOREM TypeCorrect ==
  Spec => [](TypeOK /\ (rpc \in {"visit", "offer", "callback"} <=> cur # NoJob))
<1>1. ControlInv => TypeOK /\ (rpc \in {"visit", "offer", "callback"} <=> cur # NoJob)
  BY DEF ControlInv, RunnerAndCallers
<1> QED BY <1>1, ControlCorrect, PTL

(* EachJobInOnePlace is inductive together with the control facts. *)
LEMMA PlaceStep ==
  ControlInv /\ ControlInv' /\ EachJobInOnePlace /\ [Next]_vars => EachJobInOnePlace'
<1> SUFFICES ASSUME TypeOK, RunnerAndCallers, EachJobInOnePlace, [Next]_vars,
                    NEW k \in CopyJob
             PROVE  IF k \in accepted' THEN InOnePlace(k)'
                    ELSE k \notin queue' /\ cur' # k /\ doneCount'[k] = 0
  BY DEF ControlInv, EachJobInOnePlace, Holds
<1>k. IF k \in accepted THEN InOnePlace(k)
      ELSE k \notin queue /\ cur # k /\ doneCount[k] = 0
  BY DEF EachJobInOnePlace, Holds
<1> USE DEF TypeOK, RunnerAndCallers, InOnePlace, Holds
<1>1. ASSUME NEW j \in CopyJob, Launch(j)
      PROVE  IF k \in accepted' THEN InOnePlace(k)'
             ELSE k \notin queue' /\ cur' # k /\ doneCount'[k] = 0
  BY <1>1, <1>k DEF Launch
<1>2. CASE UNCHANGED <<queue, accepted, cur, doneCount>>
  BY <1>2, <1>k
<1>3. CASE GetNextJob
  BY <1>3, <1>k, CopyJobsAssumption DEF GetNextJob, IsTop
<1>4. CASE OfferBack
  BY <1>4, <1>k, CopyJobsAssumption DEF OfferBack
<1>5. CASE OnceDone
  BY <1>5, <1>k, CopyJobsAssumption DEF OnceDone
<1>6. CASE Drain
  BY <1>6, <1>k DEF Drain, IsTop
<1>7. ASSUME \/ \E j \in CopyJob : Cancel(j)
             \/ \E c \in Closer : Close(c) \/ JoinReturns(c)
             \/ Visit \/ VisitFails \/ EnterDrain \/ Exit \/ UNCHANGED vars
      PROVE  UNCHANGED <<queue, accepted, cur, doneCount>>
  BY <1>7 DEF Cancel, Close, JoinReturns, Visit, VisitFails, EnterDrain, Exit, vars
<1> QED
  BY <1>1, <1>2, <1>3, <1>4, <1>5, <1>6, <1>7 DEF Next, Runner, Callers

(* An accepted job is in the queue, with the runner, or completed once, and
   never in two of these places: Jobs.run, launch and close together. *)
THEOREM OnePlace == Spec => []EachJobInOnePlace
<1>1. Init => EachJobInOnePlace
  BY CopyJobsAssumption DEF Init, EachJobInOnePlace, Holds
<1> QED BY <1>1, PlaceStep, ControlCorrect, PTL DEF Spec

(* The runner is never asleep while a job is queued or the node is closing. *)
THEOREM WakeupsArrive == Spec => []NoLostWakeup
<1>1. Init => NoLostWakeup
  BY DEF Init, NoLostWakeup
<1>2. ControlInv /\ NoLostWakeup /\ [Next]_vars => NoLostWakeup'
  <2> SUFFICES ASSUME TypeOK, RunnerAndCallers, NoLostWakeup, [Next]_vars, rpc' = "waiting"
               PROVE  queue' = {} /\ ~finish'
    BY DEF ControlInv, NoLostWakeup
  <2> USE DEF TypeOK, RunnerAndCallers, NoLostWakeup
  <2>1. ASSUME NEW j \in CopyJob, Launch(j) PROVE queue' = {} /\ ~finish'
    BY <2>1 DEF Launch, Notify
  <2>2. ASSUME NEW c \in Closer, Close(c) PROVE queue' = {} /\ ~finish'
    BY <2>2 DEF Close, Notify
  <2>3. ASSUME \/ \E j \in CopyJob : Cancel(j)
               \/ \E c \in Closer : JoinReturns(c)
               \/ UNCHANGED vars
        PROVE  queue' = {} /\ ~finish'
    BY <2>3 DEF Cancel, JoinReturns, vars
  <2>4. CASE GetNextJob
    BY <2>4 DEF GetNextJob
  <2>5. CASE Visit \/ VisitFails \/ OfferBack \/ OnceDone \/ EnterDrain \/ Drain \/ Exit
    BY <2>5 DEF Visit, VisitFails, OfferBack, OnceDone, EnterDrain, Drain, Exit
  <2> QED BY <2>1, <2>2, <2>3, <2>4, <2>5 DEF Next, Runner, Callers
<1> QED BY <1>1, <1>2, ControlCorrect, PTL DEF Spec

(* When the thread is gone, or close() has returned, the callback of every
   accepted job has run exactly once. *)
THEOREM CloseLosesNothing == Spec => []NoJobLost
<1>1. ControlInv /\ EachJobInOnePlace => NoJobLost
  <2> SUFFICES ASSUME TypeOK, RunnerAndCallers, EachJobInOnePlace,
                      rpc = "exited", NEW j \in accepted
               PROVE  doneCount[j] = 1
    BY DEF ControlInv, NoJobLost, RunnerAndCallers
  <2>1. j \in CopyJob /\ queue = {} /\ cur = NoJob
    BY DEF TypeOK, RunnerAndCallers
  <2> QED BY <2>1, CopyJobsAssumption DEF EachJobInOnePlace, InOnePlace, Holds
<1> QED BY <1>1, ControlCorrect, OnePlace, PTL

-----------------------------------------------------------------------------
(* Refinement: every step of the threads is a step of JobService or leaves the
   mapped state alone. *)

LEMMA ServiceInit == Init => Service!Init
  BY DEF Init, Service!Init, StatusOf, ServiceState

LEMMA ServiceStep ==
  ControlInv /\ ControlInv' /\ EachJobInOnePlace /\ [Next]_vars => [Service!Next]_(Service!vars)
<1> SUFFICES ASSUME TypeOK, RunnerAndCallers, TypeOK', RunnerAndCallers',
                    EachJobInOnePlace, [Next]_vars
             PROVE  Service!Next \/ UNCHANGED Service!vars
  BY DEF ControlInv
<1> DEFINE S == [j \in CopyJob |-> StatusOf(j)]
<1>1. ASSUME NEW j \in CopyJob, Launch(j)
      PROVE  Service!Accept(j) \/ Service!Refuse(j)
  <2>1. rpc' = rpc \/ (rpc = "waiting" /\ rpc' = "getNext")
    BY <1>1 DEF Launch, Notify
  <2>2. S[j] = "new"
    BY <1>1 DEF Launch, StatusOf
  <2>3. \A k \in CopyJob \ {j} : StatusOf(k)' = StatusOf(k)
    BY <1>1 DEF Launch, StatusOf
  <2>4. CASE ~finish
    <3>1. StatusOf(j)' = "pending"
      BY <1>1, <2>4 DEF Launch, StatusOf, EachJobInOnePlace
    <3>2. S' = [S EXCEPT ![j] = "pending"]
      BY <2>3, <3>1
    <3>3. ServiceState = "open" /\ ServiceState' = ServiceState
      BY <1>1, <2>4 DEF Launch, ServiceState
    <3> QED BY <2>2, <3>2, <3>3 DEF Service!Accept
  <2>5. CASE finish
    <3>1. StatusOf(j)' = "refused"
      BY <1>1, <2>5 DEF Launch, StatusOf
    <3>2. S' = [S EXCEPT ![j] = "refused"]
      BY <2>3, <3>1
    <3>3. ServiceState # "open" /\ ServiceState' = ServiceState
      BY <1>1, <2>5 DEF Launch, ServiceState
    <3> QED BY <2>2, <3>2, <3>3 DEF Service!Refuse
  <2> QED BY <2>4, <2>5
<1>2. ASSUME NEW j \in CopyJob, doneCount' = [doneCount EXCEPT ![j] = @ + 1],
             j \in accepted, doneCount[j] = 0, UNCHANGED <<accepted, refused, finish>>,
             rpc # "exited", rpc' # "exited"
      PROVE  Service!Complete(j)
  <2>1. S[j] = "pending" /\ StatusOf(j)' = "completed"
    BY <1>2 DEF StatusOf, TypeOK, RunnerAndCallers
  <2>2. \A k \in CopyJob \ {j} : StatusOf(k)' = StatusOf(k)
    BY <1>2 DEF StatusOf, TypeOK
  <2>3. S' = [S EXCEPT ![j] = "completed"]
    BY <2>1, <2>2
  <2>4. UNCHANGED ServiceState
    BY <1>2 DEF ServiceState
  <2> QED BY <2>1, <2>3, <2>4 DEF Service!Complete
<1>3. CASE OnceDone
  <2>1. cur \in CopyJob /\ cur \in accepted /\ doneCount[cur] = 0
    BY <1>3 DEF OnceDone, TypeOK, RunnerAndCallers, EachJobInOnePlace, InOnePlace, Holds
  <2>2. Service!Complete(cur)
    BY <1>3, <2>1, <1>2 DEF OnceDone
  <2> QED BY <2>1, <2>2 DEF Service!Next
<1>4. CASE Drain
  <2>1. PICK j \in queue : doneCount' = [doneCount EXCEPT ![j] = @ + 1]
    BY <1>4 DEF Drain
  <2>2. j \in CopyJob /\ j \in accepted /\ doneCount[j] = 0
    BY DEF TypeOK, EachJobInOnePlace, InOnePlace
  <2>3. Service!Complete(j)
    BY <1>4, <2>1, <2>2, <1>2 DEF Drain
  <2> QED BY <2>2, <2>3 DEF Service!Next
<1>5. ASSUME NEW c \in Closer, Close(c)
      PROVE  Service!BeginClose \/ UNCHANGED Service!vars
  <2>1. S' = S
    BY <1>5 DEF Close, StatusOf
  <2>2. rpc' = rpc \/ (rpc = "waiting" /\ rpc' = "getNext")
    BY <1>5 DEF Close, Notify
  <2>3. CASE finish
    <3>1. ServiceState' = ServiceState
      BY <1>5, <2>2, <2>3 DEF Close, ServiceState
    <3> QED BY <2>1, <3>1 DEF Service!vars
  <2>4. CASE ~finish
    <3>1. ServiceState = "open" /\ ServiceState' = "closing"
      BY <1>5, <2>2, <2>4 DEF Close, ServiceState, RunnerAndCallers
    <3> QED BY <2>1, <3>1 DEF Service!BeginClose
  <2> QED BY <2>3, <2>4
<1>6. CASE Exit
  <2>1. S' = S
    BY <1>6 DEF Exit, StatusOf
  <2>2. ServiceState = "closing" /\ ServiceState' = "closed"
    BY <1>6 DEF Exit, ServiceState, RunnerAndCallers
  <2>3. ASSUME NEW j \in CopyJob PROVE S[j] # "pending"
    <3>1. queue = {} /\ cur # j
      BY <1>6, CopyJobsAssumption DEF Exit, RunnerAndCallers
    <3> QED BY <3>1 DEF StatusOf, EachJobInOnePlace, InOnePlace, Holds
  <2>4. Service!EndClose
    BY <2>1, <2>2, <2>3 DEF Service!EndClose
  <2> QED BY <2>4 DEF Service!Next
<1>7. ASSUME \/ \E j \in CopyJob : Cancel(j)
             \/ \E c \in Closer : JoinReturns(c)
             \/ GetNextJob \/ Visit \/ VisitFails \/ OfferBack \/ EnterDrain
             \/ UNCHANGED vars
      PROVE  UNCHANGED Service!vars
  <2>1. UNCHANGED <<accepted, refused, doneCount, finish>>
    BY <1>7 DEF Cancel, JoinReturns, GetNextJob, Visit, VisitFails, OfferBack, EnterDrain, vars
  <2>2. rpc' = "exited" <=> rpc = "exited"
    BY <1>7 DEF Cancel, JoinReturns, GetNextJob, Visit, VisitFails, OfferBack, EnterDrain, vars
  <2>3. S' = S
    BY <2>1 DEF StatusOf
  <2>4. ServiceState' = ServiceState
    BY <2>1, <2>2 DEF ServiceState
  <2> QED BY <2>3, <2>4 DEF Service!vars
<1>8. ASSUME NEW j \in CopyJob, Service!Accept(j) \/ Service!Refuse(j)
      PROVE  Service!Next
  BY <1>8 DEF Service!Next
<1>9. Service!BeginClose => Service!Next
  BY DEF Service!Next
<1> QED
  BY <1>1, <1>3, <1>4, <1>5, <1>6, <1>7, <1>8, <1>9 DEF Next, Runner, Callers

(* The background thread of Jobs.java implements the abstract job service. *)
THEOREM Refinement == Spec => ImplementsService
<1> QED
  BY ServiceInit, ServiceStep, ControlCorrect, OnePlace, PTL
  DEF Spec, ImplementsService, Service!Spec
=============================================================================
