------------------------ MODULE IndexLifecycleProofs ------------------------
(***************************************************************************)
(* Proofs about the registry and the life of an index, for any set of      *)
(* indexes, with and without failures and for any number of crashes.       *)
(***************************************************************************)
EXTENDS IndexLifecycle, TLAPS

(* What is true of an index while a request of its administrator is under way,
   and of a server that is down. *)
Busy == {"saving", "adding", "deleting", "deleteFiles", "deleteName"}

RequestInv ==
  \A n \in Index :
    /\ ~ up => req[n] = "idle" /\ n \notin writer \cup indices /\ ~ doCreate[n]
    /\ req[n] \in Busy => n \notin created
    /\ req[n] \in {"saving", "adding"} =>
         n \in indexNames /\ n \notin writer /\ promised[n] = NoCommit /\ acked[n] = {}
    /\ req[n] = "adding" /\ ~ saved.torn => n \in saved.names
    /\ req[n] \in {"deleteFiles", "deleteName"} => n \notin writer /\ ~ doCreate[n]
    /\ req[n] = "deleteName" => disk[n] = NoCommit
    /\ up /\ n \notin indexNames => ~ doCreate[n] /\ (n \in indices => disk[n] = NoCommit)
    /\ n \in writer => n \in indexNames \cap indices

(* A writer that is not open would be opened over nothing that was promised; one that
   is open sees all of it. *)
WriterInv ==
  \A n \in created \ broken :
    /\ n \notin writer /\ doCreate[n] => promised[n] = NoCommit /\ acked[n] = {}
    /\ n \notin writer => acked[n] \subseteq disk[n]
    /\ n \in writer => acked[n] \subseteq buffer[n]
    /\ n \in writer /\ promised[n] # NoCommit => promised[n] \subseteq buffer[n]
    /\ promised[n] # NoCommit => disk[n] # NoCommit /\ promised[n] \subseteq disk[n]

(* No set of documents stands for a directory without a commit. *)
LEMMA NoCommitIsNoSet == \A S \in SUBSET Docs : S # NoCommit
BY LifecycleAssumption DEF Docs, NoCommit

LifecycleInv == TypeOK /\ RequestInv /\ CreatedSurvives /\ WriterInv

(* Every step keeps the types. *)
LEMMA TypeStep == TypeOK /\ [Next]_vars => TypeOK'
<1> SUFFICES ASSUME TypeOK, [Next]_vars PROVE TypeOK'
  OBVIOUS
<1> USE LifecycleAssumption, FreeAssumption DEF TypeOK
<1>1. ASSUME NEW n \in Index, CreateNames(n) PROVE TypeOK'
  <2>1. disk' \in [Index -> (SUBSET Docs) \cup {NoCommit}] /\ promised' \in [Index -> (SUBSET Docs) \cup {NoCommit}]
    BY <1>1 DEF CreateNames
  <2>2. saved' \in [torn : BOOLEAN, names : SUBSET Index]
    BY <1>1 DEF CreateNames, Torn
  <2> QED BY <1>1, <2>1, <2>2 DEF CreateNames, Step
<1>2. ASSUME NEW n \in Index, CreateSaved(n) PROVE TypeOK'
  BY <1>2 DEF CreateSaved, Step, Save, File
<1>3. ASSUME NEW n \in Index, CreateFails(n) PROVE TypeOK'
  <2>1. saved' \in [torn : BOOLEAN, names : SUBSET Index] /\ unsaved' \subseteq Index
    <3>1. Torn \in [torn : BOOLEAN, names : SUBSET Index] /\ Save(n) \in [torn : BOOLEAN, names : SUBSET Index]
      BY DEF Torn, Save, File
    <3> QED BY <1>3, <3>1 DEF CreateFails
  <2>2. req' \in [Index -> {"idle", "saving", "adding", "stopping", "deleting", "deleteFiles", "deleteName"}]
    BY <1>3 DEF CreateFails, Step
  <2> QED BY <1>3, <2>1, <2>2 DEF CreateFails, Step, memory
<1>4. ASSUME NEW n \in Index, AddShard(n) PROVE TypeOK'
  BY <1>4 DEF AddShard, Step, kept
<1>5. ASSUME NEW n \in Index, GetIndex(n) PROVE TypeOK'
  BY <1>5 DEF GetIndex, seen, kept
<1>6. ASSUME NEW n \in Index, Start(n) PROVE TypeOK'
  <2>1. Opens(n) \in SUBSET Docs
    BY <1>6 DEF Start, CanOpen, Opens
  <2> QED BY <1>6, <2>1 DEF Start, Request, Step, CanOpen, kept, seen
<1>7. ASSUME NEW n \in Index, StartFails(n) PROVE TypeOK'
  BY <1>7 DEF StartFails, Request, Step, CanOpen, Opens, memory, seen
<1>8. ASSUME NEW n \in Index, AddDocument(n) PROVE TypeOK'
  BY <1>8 DEF AddDocument, kept
<1>9. ASSUME NEW n \in Index, Commit(n) PROVE TypeOK'
  BY <1>9 DEF Commit, Request, Step, memory
<1>10. ASSUME NEW n \in Index, Rollback(n) PROVE TypeOK'
  BY <1>10 DEF Rollback, Request, Step, ClosesWriter, Unregisters, kept
<1>11. ASSUME NEW n \in Index, RollbackFails(n) PROVE TypeOK'
  BY <1>11 DEF RollbackFails, Request, Step, ClosesWriter, MayCreateAgain, kept
<1>12. ASSUME NEW n \in Index, Stop(n) PROVE TypeOK'
  BY <1>12 DEF Stop, BeginClose, Step, memory
<1>13. ASSUME NEW n \in Index, Delete(n) PROVE TypeOK'
  BY <1>13 DEF Delete, BeginClose, Step, memory
<1>14. ASSUME NEW n \in Index, Close(n) PROVE TypeOK'
  BY <1>14 DEF Close, Step, CloseWriter, ClosesWriter, Unregisters, seen
<1>15. ASSUME NEW n \in Index, CloseFails(n) PROVE TypeOK'
  BY <1>15 DEF CloseFails, Step, CloseWriter, ClosesWriter, MayCreateAgain
<1>16. ASSUME NEW n \in Index, DeleteShard(n) PROVE TypeOK'
  <2>1. disk' \in [Index -> (SUBSET Docs) \cup {NoCommit}]
    BY <1>16 DEF DeleteShard
  <2>2. req' \in [Index -> {"idle", "saving", "adding", "stopping", "deleting", "deleteFiles", "deleteName"}]
    BY <1>16 DEF DeleteShard, Step
  <2> QED BY <1>16, <2>1, <2>2 DEF DeleteShard, Step, memory, seen
<1>17. ASSUME NEW n \in Index, DeleteName(n) PROVE TypeOK'
  BY <1>17 DEF DeleteName, Step, Remaining, kept
<1>18. CASE Shutdown
  BY <1>18 DEF Shutdown, Gone, vars, memory, kept, seen
<1>19. CASE Crash
  <2>1. acked' \in [Index -> SUBSET Docs] /\ crashes' \in 0 .. MaxCrashes
    BY <1>19 DEF Crash
  <2> QED BY <1>19, <2>1 DEF Crash, Gone
<1>20. CASE Restart
  BY <1>20 DEF Restart, kept
<1>21. CASE UNCHANGED vars
  BY <1>21 DEF vars, memory, kept, seen
<1> QED
  BY <1>1, <1>2, <1>3, <1>4, <1>5, <1>6, <1>7, <1>8, <1>9, <1>10,
     <1>11, <1>12, <1>13, <1>14, <1>15, <1>16, <1>17, <1>18, <1>19, <1>20, <1>21 DEF Next

(* Every step keeps what is known of requests under way. *)
LEMMA RequestStep == TypeOK /\ RequestInv /\ CreatedSurvives /\ [Next]_vars => RequestInv'
<1> SUFFICES ASSUME TypeOK, RequestInv, CreatedSurvives, [Next]_vars PROVE RequestInv'
  OBVIOUS
<1> USE LifecycleAssumption, FreeAssumption DEF TypeOK, RequestInv, CreatedSurvives, Busy
<1>1. ASSUME NEW n \in Index, CreateNames(n) PROVE RequestInv'
  BY <1>1 DEF CreateNames, Step, Torn
<1>2. ASSUME NEW n \in Index, CreateSaved(n) PROVE RequestInv'
  BY <1>2 DEF CreateSaved, Step, Save, File
<1>3. ASSUME NEW n \in Index, CreateFails(n) PROVE RequestInv'
  BY <1>3 DEF CreateFails, Step, Save, File, Torn, memory
<1>4. ASSUME NEW n \in Index, AddShard(n) PROVE RequestInv'
  BY <1>4 DEF AddShard, Step, kept
<1>5. ASSUME NEW n \in Index, GetIndex(n) PROVE RequestInv'
  BY <1>5 DEF GetIndex, seen, kept
<1>6. ASSUME NEW n \in Index, Start(n) PROVE RequestInv'
  BY <1>6 DEF Start, Request, Step, CanOpen, Opens, kept, seen
<1>7. ASSUME NEW n \in Index, StartFails(n) PROVE RequestInv'
  BY <1>7 DEF StartFails, Request, Step, CanOpen, Opens, memory, seen
<1>8. ASSUME NEW n \in Index, AddDocument(n) PROVE RequestInv'
  BY <1>8 DEF AddDocument, kept
<1>9. ASSUME NEW n \in Index, Commit(n) PROVE RequestInv'
  BY <1>9 DEF Commit, Request, Step, memory
<1>10. ASSUME NEW n \in Index, Rollback(n) PROVE RequestInv'
  BY <1>10 DEF Rollback, Request, Step, ClosesWriter, Unregisters, kept
<1>11. ASSUME NEW n \in Index, RollbackFails(n) PROVE RequestInv'
  BY <1>11 DEF RollbackFails, Request, Step, ClosesWriter, MayCreateAgain, kept
<1>12. ASSUME NEW n \in Index, Stop(n) PROVE RequestInv'
  BY <1>12 DEF Stop, BeginClose, Step, memory
<1>13. ASSUME NEW n \in Index, Delete(n) PROVE RequestInv'
  BY <1>13 DEF Delete, BeginClose, Step, memory
<1>14. ASSUME NEW n \in Index, Close(n) PROVE RequestInv'
  BY <1>14 DEF Close, Step, CloseWriter, ClosesWriter, Unregisters, seen
<1>15. ASSUME NEW n \in Index, CloseFails(n) PROVE RequestInv'
  BY <1>15 DEF CloseFails, Step, CloseWriter, ClosesWriter, MayCreateAgain
<1>16. ASSUME NEW n \in Index, DeleteShard(n) PROVE RequestInv'
  BY <1>16 DEF DeleteShard, Step, memory, seen
<1>17. ASSUME NEW n \in Index, DeleteName(n) PROVE RequestInv'
  BY <1>17 DEF DeleteName, Step, Remaining, kept
<1>18. CASE Shutdown
  BY <1>18 DEF Shutdown, Gone, vars, memory, kept, seen
<1>19. CASE Crash
  BY <1>19 DEF Crash, Gone, memory, kept, seen
<1>20. CASE Restart
  BY <1>20 DEF Restart, kept
<1>21. CASE UNCHANGED vars
  BY <1>21 DEF vars, memory, kept, seen
<1> QED
  BY <1>1, <1>2, <1>3, <1>4, <1>5, <1>6, <1>7, <1>8, <1>9, <1>10,
     <1>11, <1>12, <1>13, <1>14, <1>15, <1>16, <1>17, <1>18, <1>19, <1>20, <1>21 DEF Next

(* No step makes a created index unknown. *)
LEMMA CreatedStep == TypeOK /\ RequestInv /\ CreatedSurvives /\ [Next]_vars => CreatedSurvives'
<1> SUFFICES ASSUME TypeOK, RequestInv, CreatedSurvives, [Next]_vars PROVE CreatedSurvives'
  OBVIOUS
<1> USE LifecycleAssumption, FreeAssumption DEF TypeOK, RequestInv, CreatedSurvives, Busy
<1>1. ASSUME NEW n \in Index, CreateNames(n) PROVE CreatedSurvives'
  BY <1>1 DEF CreateNames, Step, Torn
<1>2. ASSUME NEW n \in Index, CreateSaved(n) PROVE CreatedSurvives'
  BY <1>2 DEF CreateSaved, Step, Save, File
<1>3. ASSUME NEW n \in Index, CreateFails(n) PROVE CreatedSurvives'
  BY <1>3 DEF CreateFails, Step, Save, File, Torn, memory
<1>4. ASSUME NEW n \in Index, AddShard(n) PROVE CreatedSurvives'
  BY <1>4 DEF AddShard, Step, kept
<1>5. ASSUME NEW n \in Index, GetIndex(n) PROVE CreatedSurvives'
  BY <1>5 DEF GetIndex, seen, kept
<1>6. ASSUME NEW n \in Index, Start(n) PROVE CreatedSurvives'
  BY <1>6 DEF Start, Request, Step, CanOpen, Opens, kept, seen
<1>7. ASSUME NEW n \in Index, StartFails(n) PROVE CreatedSurvives'
  BY <1>7 DEF StartFails, Request, Step, CanOpen, Opens, memory, seen
<1>8. ASSUME NEW n \in Index, AddDocument(n) PROVE CreatedSurvives'
  BY <1>8 DEF AddDocument, kept
<1>9. ASSUME NEW n \in Index, Commit(n) PROVE CreatedSurvives'
  BY <1>9 DEF Commit, Request, Step, memory
<1>10. ASSUME NEW n \in Index, Rollback(n) PROVE CreatedSurvives'
  BY <1>10 DEF Rollback, Request, Step, ClosesWriter, Unregisters, kept
<1>11. ASSUME NEW n \in Index, RollbackFails(n) PROVE CreatedSurvives'
  BY <1>11 DEF RollbackFails, Request, Step, ClosesWriter, MayCreateAgain, kept
<1>12. ASSUME NEW n \in Index, Stop(n) PROVE CreatedSurvives'
  BY <1>12 DEF Stop, BeginClose, Step, memory
<1>13. ASSUME NEW n \in Index, Delete(n) PROVE CreatedSurvives'
  BY <1>13 DEF Delete, BeginClose, Step, memory
<1>14. ASSUME NEW n \in Index, Close(n) PROVE CreatedSurvives'
  BY <1>14 DEF Close, Step, CloseWriter, ClosesWriter, Unregisters, seen
<1>15. ASSUME NEW n \in Index, CloseFails(n) PROVE CreatedSurvives'
  BY <1>15 DEF CloseFails, Step, CloseWriter, ClosesWriter, MayCreateAgain
<1>16. ASSUME NEW n \in Index, DeleteShard(n) PROVE CreatedSurvives'
  BY <1>16 DEF DeleteShard, Step, memory, seen
<1>17. ASSUME NEW n \in Index, DeleteName(n) PROVE CreatedSurvives'
  BY <1>17 DEF DeleteName, Step, Remaining, kept
<1>18. CASE Shutdown
  BY <1>18 DEF Shutdown, Gone, vars, memory, kept, seen
<1>19. CASE Crash
  BY <1>19 DEF Crash, Gone, memory, kept, seen
<1>20. CASE Restart
  BY <1>20 DEF Restart, kept
<1>21. CASE UNCHANGED vars
  BY <1>21 DEF vars, memory, kept, seen
<1> QED
  BY <1>1, <1>2, <1>3, <1>4, <1>5, <1>6, <1>7, <1>8, <1>9, <1>10,
     <1>11, <1>12, <1>13, <1>14, <1>15, <1>16, <1>17, <1>18, <1>19, <1>20, <1>21 DEF Next

(* The name of a deleted index is gone, but for a file of before. *)
DeletedInv ==
  /\ up => deleted \cap indexNames = {}
  /\ ~ saved.torn => deleted \cap saved.names \subseteq unsaved

(* No step brings a deleted index back, but into a file of before. *)
LEMMA DeletedStep == TypeOK /\ DeletedInv /\ [Next]_vars => DeletedInv'
<1> SUFFICES ASSUME TypeOK, DeletedInv, [Next]_vars PROVE DeletedInv'
  OBVIOUS
<1> USE LifecycleAssumption, FreeAssumption DEF TypeOK, DeletedInv
<1>1. ASSUME NEW n \in Index, CreateNames(n) PROVE DeletedInv'
  BY <1>1 DEF CreateNames, Step, Torn
<1>2. ASSUME NEW n \in Index, CreateSaved(n) PROVE DeletedInv'
  BY <1>2 DEF CreateSaved, Step, Save, File
<1>3. ASSUME NEW n \in Index, CreateFails(n) PROVE DeletedInv'
  BY <1>3 DEF CreateFails, Step, Save, File, Torn, memory
<1>4. ASSUME NEW n \in Index, AddShard(n) PROVE DeletedInv'
  BY <1>4 DEF AddShard, Step, kept
<1>5. ASSUME NEW n \in Index, GetIndex(n) PROVE DeletedInv'
  BY <1>5 DEF GetIndex, seen, kept
<1>6. ASSUME NEW n \in Index, Start(n) PROVE DeletedInv'
  BY <1>6 DEF Start, Request, Step, CanOpen, Opens, kept, seen
<1>7. ASSUME NEW n \in Index, StartFails(n) PROVE DeletedInv'
  BY <1>7 DEF StartFails, Request, Step, CanOpen, Opens, memory, seen
<1>8. ASSUME NEW n \in Index, AddDocument(n) PROVE DeletedInv'
  BY <1>8 DEF AddDocument, kept
<1>9. ASSUME NEW n \in Index, Commit(n) PROVE DeletedInv'
  BY <1>9 DEF Commit, Request, Step, memory
<1>10. ASSUME NEW n \in Index, Rollback(n) PROVE DeletedInv'
  BY <1>10 DEF Rollback, Request, Step, ClosesWriter, Unregisters, kept
<1>11. ASSUME NEW n \in Index, RollbackFails(n) PROVE DeletedInv'
  BY <1>11 DEF RollbackFails, Request, Step, ClosesWriter, MayCreateAgain, kept
<1>12. ASSUME NEW n \in Index, Stop(n) PROVE DeletedInv'
  BY <1>12 DEF Stop, BeginClose, Step, memory
<1>13. ASSUME NEW n \in Index, Delete(n) PROVE DeletedInv'
  BY <1>13 DEF Delete, BeginClose, Step, memory
<1>14. ASSUME NEW n \in Index, Close(n) PROVE DeletedInv'
  BY <1>14 DEF Close, Step, CloseWriter, ClosesWriter, Unregisters, seen
<1>15. ASSUME NEW n \in Index, CloseFails(n) PROVE DeletedInv'
  BY <1>15 DEF CloseFails, Step, CloseWriter, ClosesWriter, MayCreateAgain
<1>16. ASSUME NEW n \in Index, DeleteShard(n) PROVE DeletedInv'
  BY <1>16 DEF DeleteShard, Step, memory, seen
<1>17. ASSUME NEW n \in Index, DeleteName(n) PROVE DeletedInv'
  BY <1>17 DEF DeleteName, Step, Remaining, kept
<1>18. CASE Shutdown
  BY <1>18 DEF Shutdown, Gone, vars, memory, kept, seen
<1>19. CASE Crash
  BY <1>19 DEF Crash, Gone, memory, kept, seen
<1>20. CASE Restart
  BY <1>20 DEF Restart, kept
<1>21. CASE UNCHANGED vars
  BY <1>21 DEF vars, memory, kept, seen
<1> QED
  BY <1>1, <1>2, <1>3, <1>4, <1>5, <1>6, <1>7, <1>8, <1>9, <1>10,
     <1>11, <1>12, <1>13, <1>14, <1>15, <1>16, <1>17, <1>18, <1>19, <1>20, <1>21 DEF Next

(* Every step keeps what the writers and directories hold. *)
LEMMA WriterStep == TypeOK /\ RequestInv /\ CreatedSurvives /\ WriterInv /\ [Next]_vars => WriterInv'
<1> SUFFICES ASSUME TypeOK, RequestInv, CreatedSurvives, WriterInv, [Next]_vars PROVE WriterInv'
  OBVIOUS
<1> USE NoCommitIsNoSet, LifecycleAssumption, FreeAssumption DEF TypeOK, RequestInv, CreatedSurvives, WriterInv, Busy
<1>1. ASSUME NEW n \in Index, CreateNames(n) PROVE WriterInv'
  BY <1>1 DEF CreateNames, Step, Torn
<1>2. ASSUME NEW n \in Index, CreateSaved(n) PROVE WriterInv'
  BY <1>2 DEF CreateSaved, Step, Save, File
<1>3. ASSUME NEW n \in Index, CreateFails(n) PROVE WriterInv'
  BY <1>3 DEF CreateFails, Step, Save, File, Torn, memory
<1>4. ASSUME NEW n \in Index, AddShard(n) PROVE WriterInv'
  BY <1>4 DEF AddShard, Step, kept
<1>5. ASSUME NEW n \in Index, GetIndex(n) PROVE WriterInv'
  BY <1>5 DEF GetIndex, seen, kept
<1>6. ASSUME NEW n \in Index, Start(n) PROVE WriterInv'
  BY <1>6 DEF Start, Request, Step, CanOpen, Opens, kept, seen
<1>7. ASSUME NEW n \in Index, StartFails(n) PROVE WriterInv'
  BY <1>7 DEF StartFails, Request, Step, CanOpen, Opens, memory, seen
<1>8. ASSUME NEW n \in Index, AddDocument(n) PROVE WriterInv'
  BY <1>8 DEF AddDocument, kept
<1>9. ASSUME NEW n \in Index, Commit(n) PROVE WriterInv'
  BY <1>9 DEF Commit, Request, Step, memory
<1>10. ASSUME NEW n \in Index, Rollback(n) PROVE WriterInv'
  BY <1>10 DEF Rollback, Request, Step, ClosesWriter, Unregisters, kept
<1>11. ASSUME NEW n \in Index, RollbackFails(n) PROVE WriterInv'
  BY <1>11 DEF RollbackFails, Request, Step, ClosesWriter, MayCreateAgain, kept
<1>12. ASSUME NEW n \in Index, Stop(n) PROVE WriterInv'
  BY <1>12 DEF Stop, BeginClose, Step, memory
<1>13. ASSUME NEW n \in Index, Delete(n) PROVE WriterInv'
  BY <1>13 DEF Delete, BeginClose, Step, memory
<1>14. ASSUME NEW n \in Index, Close(n) PROVE WriterInv'
  BY <1>14 DEF Close, Step, CloseWriter, ClosesWriter, Unregisters, seen
<1>15. ASSUME NEW n \in Index, CloseFails(n) PROVE WriterInv'
  BY <1>15 DEF CloseFails, Step, CloseWriter, ClosesWriter, MayCreateAgain
<1>16. ASSUME NEW n \in Index, DeleteShard(n) PROVE WriterInv'
  BY <1>16 DEF DeleteShard, Step, memory, seen
<1>17. ASSUME NEW n \in Index, DeleteName(n) PROVE WriterInv'
  BY <1>17 DEF DeleteName, Step, Remaining, kept
<1>18. CASE Shutdown
  <2>1. writer' = {} /\ created' = created /\ broken' = broken /\ acked' = acked /\ promised' = promised
    BY <1>18 DEF Shutdown, Gone
  <2>2. doCreate' = [n \in Index |-> FALSE]
    BY <1>18 DEF Shutdown, Gone
  <2>3. disk' = [n \in Index |-> IF n \in indices \cap writer THEN buffer[n] ELSE disk[n]]
    BY <1>18 DEF Shutdown
  <2> SUFFICES ASSUME NEW n \in created \ broken, n \in Index
               PROVE  /\ acked[n] \subseteq disk'[n]
                      /\ promised[n] # NoCommit => disk'[n] # NoCommit /\ promised[n] \subseteq disk'[n]
    BY <2>1, <2>2
  <2>4. CASE n \in writer /\ n \in indices
    BY <2>3, <2>4
  <2>5. CASE ~ (n \in writer /\ n \in indices)
    BY <2>3, <2>5
  <2> QED BY <2>4, <2>5
<1>19. CASE Crash
  BY <1>19 DEF Crash, Gone, memory, kept, seen
<1>20. CASE Restart
  BY <1>20 DEF Restart, kept
<1>21. CASE UNCHANGED vars
  BY <1>21 DEF vars, memory, kept, seen
<1> QED
  BY <1>1, <1>2, <1>3, <1>4, <1>5, <1>6, <1>7, <1>8, <1>9, <1>10,
     <1>11, <1>12, <1>13, <1>14, <1>15, <1>16, <1>17, <1>18, <1>19, <1>20, <1>21 DEF Next

(* The inductive invariant holds at the start. *)
LEMMA LifecycleInit == Init => LifecycleInv /\ DeletedInv
<1> SUFFICES ASSUME Init PROVE LifecycleInv /\ DeletedInv
  OBVIOUS
<1> USE DEF Init, File
<1>1. TypeOK
  BY LifecycleAssumption DEF TypeOK
<1>2. RequestInv /\ CreatedSurvives /\ WriterInv
  BY DEF RequestInv, CreatedSurvives, WriterInv, Busy
<1>3. DeletedInv
  BY DEF DeletedInv
<1> QED BY <1>1, <1>2, <1>3 DEF LifecycleInv

(* It is invariant. *)
LEMMA LifecycleInvariant == Spec => [](LifecycleInv /\ DeletedInv)
<1>1. LifecycleInv /\ DeletedInv /\ [Next]_vars
      => LifecycleInv' /\ DeletedInv'
  BY TypeStep, RequestStep, CreatedStep, DeletedStep, WriterStep DEF LifecycleInv
<1> QED BY <1>1, LifecycleInit, PTL DEF Spec

(* Every variable keeps its type. *)
THEOREM LifecycleTypes == Spec => []TypeOK
<1>1. LifecycleInv => TypeOK
  BY DEF LifecycleInv
<1> QED BY <1>1, LifecycleInvariant, PTL

(* An index whose creation was answered and that nobody asked to delete is known to
   the running server, and to the next start unless its file is torn. *)
THEOREM CreatedIsKept == Spec => []CreatedSurvives
<1>1. LifecycleInv => CreatedSurvives
  BY DEF LifecycleInv
<1> QED BY <1>1, LifecycleInvariant, PTL

(* A deleted index is not in the names of the server, an IndexState that is left of it
   cannot be started, and the file of the next start has it only while no later createIndex
   saved the names. *)
THEOREM DeletedStaysAway == Spec => []DeletedReturnsOnlyUnsaved
<1>1. LifecycleInv /\ DeletedInv => DeletedReturnsOnlyUnsaved
  <2> SUFFICES ASSUME LifecycleInv, DeletedInv, NEW n \in deleted
               PROVE  n \notin writer /\ ~ CanOpen(n)
    BY DEF DeletedInv, DeletedReturnsOnlyUnsaved
  <2>1. n \in Index /\ (up => n \notin indexNames)
    BY DEF LifecycleInv, TypeOK, DeletedInv
  <2>2. n \notin writer /\ ~ doCreate[n] /\ (n \in indices => disk[n] = NoCommit)
    BY <2>1 DEF LifecycleInv, RequestInv
  <2> QED BY <2>2 DEF CanOpen
<1> QED BY <1>1, LifecycleInvariant, PTL

(* An acknowledged commit is in the directory until the index is deleted. *)
THEOREM CommitsAreKept == Spec => []CommitsKept
<1>1. LifecycleInv => CommitsKept
  BY DEF LifecycleInv, WriterInv, CommitsKept
<1> QED BY <1>1, LifecycleInvariant, PTL

(* An acknowledged document is in the directory or in the open writer, unless a crash
   or a rollback took it. *)
THEOREM DocumentsAreKept == Spec => []AckedKept
<1>1. LifecycleInv => AckedKept
  BY DEF LifecycleInv, WriterInv, AckedKept
<1> QED BY <1>1, LifecycleInvariant, PTL
=============================================================================
