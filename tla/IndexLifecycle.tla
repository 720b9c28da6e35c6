--------------------------- MODULE IndexLifecycle ---------------------------
(***************************************************************************)
(* The registry of indexes (GlobalState) and the life of each index        *)
(* (IndexState, its shard 0 started standalone): createIndex, startIndex,  *)
(* addDocument, commit, rollback, stopIndex, deleteIndex, the shutdown of  *)
(* the server, its crash and its restart.                                  *)
(*                                                                         *)
(* Every index has one administrator, who sends one request after another; *)
(* the requests of different administrators interleave, and any other      *)
(* client may look an index up or add a document at any time.              *)
(***************************************************************************)
EXTENDS Integers, FiniteSets

CONSTANTS
  Index,      \* names of indexes
  MaxDocs,    \* bound: documents an index has at a time
  MaxCrashes, \* bound: crashes of the server
  IOFails     \* writing, starting, closing and deleting may fail

ASSUME LifecycleAssumption ==
  /\ MaxDocs \in Nat
  /\ MaxCrashes \in Nat
  /\ IOFails \in BOOLEAN

Free == "free"
ASSUME FreeAssumption == Free \notin Index

\* What the newest file indices.N holds: whether it can be parsed, and the names.
File(S) == [torn |-> FALSE, names |-> S]
Torn    == [torn |-> TRUE, names |-> {}]

Docs     == 1 .. MaxDocs
NoCommit == {0}  \* stands for a directory without a commit

VARIABLES
  up,         \* the server runs
  indexNames, \* names in memory
  saved,      \* the newest file indices.N
  lock,       \* index whose createIndex holds the lock of the registry, or Free
  indices,    \* indexes that have an IndexState in the map
  doCreate,   \* doCreate of the shard of that IndexState
  shards,     \* indexes whose IndexState has its shard 0
  writer,     \* indexes whose shard has an open IndexWriter
  buffer,     \* documents the open writer sees
  disk,       \* documents of the last commit in the directory, or NoCommit
  req,        \* where the administrator's request is
  crashes,
  created,    \* indexes created, as answered, and not asked to be deleted
  deleted,    \* indexes deleted, as answered, that neither createIndex nor a restart brought back
  unsaved,    \* those deleted since the names were saved
  acked,      \* documents acknowledged, less those a crash or a rollback took
  promised,   \* documents of the last commit that was acknowledged
  broken      \* indexes whose close threw and left the IndexState that created them

memory == <<indexNames, indices, doCreate, shards, writer, buffer>>
kept   == <<saved, disk>>
seen   == <<created, deleted, unsaved, acked, promised, broken>>
vars   == <<up, memory, kept, lock, req, crashes, seen>>

Init ==
  /\ up = TRUE
  /\ indexNames = {} /\ saved = File({}) /\ lock = Free
  /\ indices = {} /\ shards = {} /\ writer = {}
  /\ doCreate = [n \in Index |-> FALSE]
  /\ buffer = [n \in Index |-> {}]
  /\ disk = [n \in Index |-> NoCommit]
  /\ req = [n \in Index |-> "idle"]
  /\ crashes = 0
  /\ created = {} /\ deleted = {} /\ unsaved = {} /\ broken = {}
  /\ acked = [n \in Index |-> {}]
  /\ promised = [n \in Index |-> NoCommit]

\* The writer of n is closed; buffer is meaningful while it is open.
ClosesWriter(n) == writer' = writer \ {n} /\ buffer' = [buffer EXCEPT ![n] = {}]
\* The IndexState of n leaves the map; doCreate and shards are meaningful while it is there.
Unregisters(n) ==
  /\ indices' = indices \ {n}
  /\ shards' = shards \ {n}
  /\ doCreate' = [doCreate EXCEPT ![n] = FALSE]

MayCreateAgain(n) == broken' = IF doCreate[n] THEN broken \cup {n} ELSE broken

Step(n, from, to) == up /\ req[n] = from /\ req' = [req EXCEPT ![n] = to]
Request(n)        == Step(n, "idle", "idle")

-----------------------------------------------------------------------------
(* createIndex *)

\* The name is added and the next generation of indices.N is being written; the
\* lock is held until the map has the new IndexState.
CreateNames(n) ==
  /\ Step(n, "idle", "saving")
  /\ lock = Free /\ lock' = n
  /\ n \notin indexNames
  /\ indexNames' = indexNames \cup {n}
  /\ saved' = Torn
  /\ disk' = [disk EXCEPT ![n] = NoCommit]
  /\ deleted' = deleted \ {n}
  /\ acked' = [acked EXCEPT ![n] = {}]
  /\ promised' = [promised EXCEPT ![n] = NoCommit]
  /\ UNCHANGED <<up, indices, doCreate, shards, writer, buffer, crashes, created, unsaved,
                 broken>>

\* (Mistake: the names are read back from before this createIndex.)
SaveWithout(n) == File(indexNames \ {n})
Save(n) == File(indexNames)

\* force() returned: a new IndexState, not started and still without its shard.
CreateSaved(n) ==
  /\ Step(n, "saving", "adding")
  /\ saved' = Save(n)
  /\ lock' = Free
  /\ indices' = indices \cup {n}
  /\ doCreate' = [doCreate EXCEPT ![n] = TRUE]
  /\ shards' = shards \ {n}
  /\ unsaved' = {}
  /\ UNCHANGED <<up, indexNames, writer, buffer, disk, crashes, created, deleted, acked,
                 promised, broken>>

\* Writing the file, or making the directory of the index, throws: the name stays.
CreateFails(n) ==
  /\ IOFails
  /\ Step(n, "saving", "idle")
  /\ lock' = Free
  /\ \/ saved' = Torn /\ UNCHANGED unsaved
     \/ saved' = Save(n) /\ unsaved' = {}
  /\ UNCHANGED <<up, memory, disk, crashes, created, deleted, acked, promised, broken>>

AddShard(n) ==
  /\ Step(n, "adding", "idle")
  /\ shards' = shards \cup {n}
  /\ created' = created \cup {n}
  /\ broken' = broken \ {n}
  /\ UNCHANGED <<up, indexNames, indices, doCreate, writer, buffer, kept, lock, crashes,
                 deleted, unsaved, acked, promised>>

\* Any request that names the index: an IndexState is loaded when there is none.
GetIndex(n) ==
  /\ up /\ lock = Free
  /\ n \in indexNames \ indices
  /\ indices' = indices \cup {n}
  /\ doCreate' = [doCreate EXCEPT ![n] = FALSE]
  /\ shards' = shards \cup {n}
  /\ UNCHANGED <<up, indexNames, writer, buffer, kept, lock, req, crashes, seen>>

-----------------------------------------------------------------------------
(* startIndex, addDocument, commit, rollback *)

\* (Mistake: the mode is not looked at.)
OpensLast(n) == disk[n]
\* OpenMode.CREATE sees an empty index, OpenMode.APPEND the last commit.
Opens(n) == IF doCreate[n] THEN {} ELSE disk[n]
CanOpen(n) == n \in indices \cap shards /\ n \notin writer /\ (doCreate[n] \/ disk[n] # NoCommit)

Start(n) ==
  /\ Request(n)
  /\ CanOpen(n)
  /\ writer' = writer \cup {n}
  /\ buffer' = [buffer EXCEPT ![n] = Opens(n)]
  /\ UNCHANGED <<up, indexNames, indices, doCreate, shards, kept, lock, crashes, seen>>

\* A step after the writer was opened throws: closing the writer commits what it sees.
StartFails(n) ==
  /\ IOFails
  /\ Request(n)
  /\ CanOpen(n)
  /\ disk' = [disk EXCEPT ![n] = Opens(n)]
  /\ UNCHANGED <<up, memory, saved, lock, crashes, seen>>

AddDocument(n) ==
  /\ up /\ n \in writer
  /\ \E d \in Docs \ (buffer[n] \cup disk[n] \cup acked[n]) :
       /\ buffer' = [buffer EXCEPT ![n] = @ \cup {d}]
       /\ acked' = [acked EXCEPT ![n] = @ \cup {d}]
  /\ UNCHANGED <<up, indexNames, indices, doCreate, shards, writer, kept, lock, req, crashes,
                 created, deleted, unsaved, promised, broken>>

Commit(n) ==
  /\ Request(n)
  /\ n \in indices \cap writer
  /\ disk' = [disk EXCEPT ![n] = buffer[n]]
  /\ promised' = [promised EXCEPT ![n] = buffer[n]]
  /\ UNCHANGED <<up, memory, saved, lock, crashes, created, deleted, unsaved, acked,
                 broken>>

\* (Mistake: the map keeps the IndexState.)
RollbackKeeps(n) ==
  /\ Request(n)
  /\ n \in indices \cap writer
  /\ ClosesWriter(n)
  /\ acked' = [acked EXCEPT ![n] = @ \cap disk[n]]
  /\ UNCHANGED <<up, indexNames, indices, doCreate, shards, kept, lock, crashes,
                 created, deleted, unsaved, promised, broken>>

Rollback(n) ==
  /\ Request(n)
  /\ n \in indices \cap writer
  /\ ClosesWriter(n)
  /\ Unregisters(n)
  /\ acked' = [acked EXCEPT ![n] = @ \cap disk[n]]
  /\ UNCHANGED <<up, indexNames, kept, lock, crashes, created, deleted,
                 unsaved, promised, broken>>

\* A closeable throws after all were closed: the map keeps the IndexState.
RollbackFails(n) ==
  /\ IOFails
  /\ Request(n)
  /\ n \in indices \cap writer
  /\ ClosesWriter(n)
  /\ MayCreateAgain(n)
  /\ acked' = [acked EXCEPT ![n] = @ \cap disk[n]]
  /\ UNCHANGED <<up, indexNames, indices, doCreate, shards, kept, lock, crashes, created,
                 deleted, unsaved, promised>>

-----------------------------------------------------------------------------
(* stopIndex and deleteIndex *)

\* close() begins with a commit.
BeginClose(n, to) ==
  /\ Step(n, "idle", to)
  /\ n \in indices
  /\ disk' = [disk EXCEPT ![n] = IF n \in writer THEN buffer[n] ELSE @]
  /\ UNCHANGED <<up, memory, saved, lock, crashes, deleted, unsaved, broken>>

Stop(n) == BeginClose(n, "stopping") /\ UNCHANGED <<created, acked, promised>>

Delete(n) ==
  /\ BeginClose(n, "deleting")
  /\ created' = created \ {n}
  /\ UNCHANGED <<acked, promised>>

\* (Mistake: the writer is closed as rollback does.)
CloseDrops(n) == disk
\* IndexWriter.close commits what was added meanwhile.
CloseWriter(n) == [disk EXCEPT ![n] = IF n \in writer THEN buffer[n] ELSE @]

Close(n) ==
  /\ \/ Step(n, "stopping", "idle")
     \/ Step(n, "deleting", "deleteFiles")
  /\ disk' = CloseWriter(n)
  /\ ClosesWriter(n)
  /\ Unregisters(n)
  /\ UNCHANGED <<up, indexNames, saved, lock, crashes, seen>>

\* One of the closeables throws after all were closed: likewise.
CloseFails(n) ==
  /\ IOFails
  /\ Step(n, "stopping", "idle") \/ Step(n, "deleting", "idle")
  /\ disk' = CloseWriter(n)
  /\ ClosesWriter(n)
  /\ MayCreateAgain(n)
  /\ UNCHANGED <<up, indexNames, indices, doCreate, shards, saved, lock, crashes,
                 created, deleted, unsaved, acked, promised>>

DeleteShard(n) ==
  /\ \/ Step(n, "deleteFiles", "deleteName")
     \/ IOFails /\ Step(n, "deleteFiles", "idle")
  /\ disk' = [disk EXCEPT ![n] = NoCommit]
  /\ UNCHANGED <<up, memory, saved, lock, crashes, seen>>

\* (Mistake: the name is removed from the map of running indexes only.)
AllNames(n) == indexNames
Remaining(n) == indexNames \ {n}

DeleteName(n) ==
  /\ Step(n, "deleteName", "idle")
  /\ lock = Free
  /\ indexNames' = Remaining(n)
  /\ deleted' = deleted \cup {n}
  /\ unsaved' = unsaved \cup {n}
  /\ UNCHANGED <<up, indices, doCreate, shards, writer, buffer, kept, lock, crashes,
                 created, acked, promised, broken>>

-----------------------------------------------------------------------------
(* The server *)

Gone ==
  /\ up' = FALSE
  /\ indexNames' = {} /\ indices' = {} /\ shards' = {} /\ writer' = {}
  /\ doCreate' = [n \in Index |-> FALSE]
  /\ buffer' = [n \in Index |-> {}]
  /\ lock' = Free
  /\ req' = [n \in Index |-> "idle"]
  /\ UNCHANGED <<saved, created, deleted, unsaved, promised>>

\* GlobalState.close closes every IndexState in the map.
Shutdown ==
  /\ up /\ \A n \in Index : req[n] = "idle"
  /\ disk' = [n \in Index |-> IF n \in indices \cap writer THEN buffer[n] ELSE disk[n]]
  /\ Gone
  /\ UNCHANGED <<crashes, acked, broken>>

Crash ==
  /\ up /\ crashes < MaxCrashes
  /\ crashes' = crashes + 1
  /\ Gone
  /\ acked' = [n \in Index |-> acked[n] \cap disk[n]]
  /\ UNCHANGED <<disk, broken>>

\* loadIndexNames reads the newest file only, and throws when it cannot be parsed.
Restart ==
  /\ ~ up /\ ~ saved.torn
  /\ up' = TRUE
  /\ indexNames' = saved.names
  /\ deleted' = deleted \ saved.names
  /\ unsaved' = {}
  /\ UNCHANGED <<indices, doCreate, shards, writer, buffer, kept, lock, req, crashes,
                 created, acked, promised, broken>>

Next ==
  \/ \E n \in Index :
       \/ CreateNames(n) \/ CreateSaved(n) \/ CreateFails(n) \/ AddShard(n) \/ GetIndex(n)
       \/ Start(n) \/ StartFails(n) \/ AddDocument(n) \/ Commit(n)
       \/ Rollback(n) \/ RollbackFails(n)
       \/ Stop(n) \/ Delete(n) \/ Close(n) \/ CloseFails(n) \/ DeleteShard(n) \/ DeleteName(n)
  \/ Shutdown \/ Crash \/ Restart

Spec == Init /\ [][Next]_vars

-----------------------------------------------------------------------------
(* Properties. *)

TypeOK ==
  /\ up \in BOOLEAN
  /\ indexNames \subseteq Index
  /\ saved \in [torn : BOOLEAN, names : SUBSET Index]
  /\ lock \in Index \cup {Free}
  /\ indices \subseteq Index /\ shards \subseteq Index /\ writer \subseteq Index
  /\ doCreate \in [Index -> BOOLEAN]
  /\ buffer \in [Index -> SUBSET Docs]
  /\ disk \in [Index -> (SUBSET Docs) \cup {NoCommit}]
  /\ req \in [Index -> {"idle", "saving", "adding", "stopping", "deleting", "deleteFiles",
                        "deleteName"}]
  /\ crashes \in 0 .. MaxCrashes
  /\ created \subseteq Index /\ deleted \subseteq Index /\ unsaved \subseteq Index /\ broken \subseteq Index
  /\ acked \in [Index -> SUBSET Docs]
  /\ promised \in [Index -> (SUBSET Docs) \cup {NoCommit}]

(* An index whose createIndex was answered, and that nobody asked to delete, is
   known to the running server and in the file the next start reads; only a file
   that a crash or a failure left half written can hide it. *)
CreatedSurvives ==
  /\ up => created \subseteq indexNames
  /\ ~ saved.torn => created \subseteq saved.names

(* The running server does not have the name of a deleted index.  It may still have an
   IndexState of it, which a request loaded between the close and the removal of the
   name and which getIndex would find first, but its administrator cannot start that
   one: no writer makes its files again.  The file the next start reads has the name only
   while no createIndex saved the names after the delete. *)
DeletedReturnsOnlyUnsaved ==
  /\ up => deleted \cap indexNames = {}
  /\ \A n \in deleted : n \notin writer /\ ~ CanOpen(n)
  /\ ~ saved.torn => deleted \cap saved.names \subseteq unsaved

(* What a commit acknowledged is in the directory, whatever stops, rollbacks,
   failed starts, crashes and restarts follow, until the index is deleted.  The
   exception is an index whose close or rollback threw before the map let go of the
   IndexState that created it: it may be started again with OpenMode.CREATE. *)
CommitsKept ==
  \A n \in created \ broken : promised[n] # NoCommit =>
    disk[n] # NoCommit /\ promised[n] \subseteq disk[n]

(* A document that was acknowledged is lost by a crash or a rollback only: an
   orderly stop or shutdown keeps it, also when it came after the commit that
   close() begins with. *)
AckedKept ==
  \A n \in created \ broken : acked[n] \subseteq disk[n] \cup (IF n \in writer THEN buffer[n] ELSE {})
=============================================================================
