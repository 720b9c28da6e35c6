----------------------------- MODULE Snapshots ------------------------------
(***************************************************************************)
(* commit, createSnapshot and releaseSnapshot of a started index, beside   *)
(* indexing, a crash and a restart.  A commit writes three things one      *)
(* after the other: the taxonomy, the index and the settings (state.N); a  *)
(* snapshot takes a reference to the last one of each.  Only the settings  *)
(* are under the monitor of IndexState, which commit holds throughout.     *)
(*                                                                         *)
(* Lucene's writers and its PersistentSnapshotDeletionPolicy are external: *)
(* the last commit and those with references are kept, and the references  *)
(* are on disk before snapshot() and release() return.  The generation     *)
(* files of the settings are modelled in GenFile.                          *)
(***************************************************************************)
EXTENDS Integers, FiniteSets, Functions, FiniteSetsExt

CONSTANTS
  Client,       \* clients that take and release snapshots
  MaxDocs,      \* bound: documents
  MaxFields,    \* bound: fields registered
  MaxCommits,   \* bound: commits begun
  MaxSnapshots, \* bound: snapshots requested
  MaxCrashes    \* bound: crashes

ASSUME SnapshotsAssumption ==
  /\ MaxDocs \in Nat /\ MaxFields \in Nat /\ MaxCommits \in Nat
  /\ MaxSnapshots \in Nat /\ MaxCrashes \in Nat
  /\ IsFiniteSet(Client)

Gen  == 0 .. (MaxCommits + 1)
Docs == 1 .. MaxDocs

VARIABLES
  up,
  fields,       \* number of fields registered
  cats, docs,   \* documents whose categories the taxonomy writer has, whom the index writer has
  docField,     \* newest field a document of the writer uses
  pending,      \* documents whose category was added, to be added to the index
  commit,       \* where commit() is; not "idle": it holds the monitor
  began,        \* documents that had their categories when it began
  taxonomy,     \* taxonomy commits on disk: generation -> cats
  index,        \* index commits on disk: generation -> [docs, covered, field]
  state,        \* files state.N on disk: generation -> fields
  refs,         \* references: part -> generation -> count
  snap,         \* for each client where its request is, and the generations of its snapshot
  commits, snapshots, crashes,
  cut           \* a crash came between the commit of the index and that of the settings

writers == <<fields, cats, docs, docField, pending>>
disk    == <<taxonomy, index, state, refs>>
counts  == <<commits, snapshots, crashes, cut>>
vars    == <<up, writers, commit, began, disk, snap, counts>>

Part == {"index", "taxonomy", "state"}
Last(f) == Max(DOMAIN f)

\* The generations no later commit needs: neither the last nor held by a snapshot.
\* (Mistake: KeepOnlyLastCommitDeletionPolicy without the snapshots around it.)
UnusedIgnoresRefs(f, r) == DOMAIN f \ {Last(f)}
Unused(f, r) == {g \in DOMAIN f : g # Last(f) /\ r[g] = 0}
Keep(f, r)   == Restrict(f, DOMAIN f \ Unused(f, r))

\* A new commit when there is something new to commit; the deletion policy follows.
Committed(f, r, new) ==
  IF f[Last(f)] = new THEN f
  ELSE LET g == Last(f) + 1
       IN  Keep([h \in DOMAIN f \cup {g} |-> IF h = g THEN new ELSE f[h]], r)

NoSnapshot == [pc |-> "none", gens |-> [p \in Part |-> 0]]

\* A first commit was made.
Init ==
  /\ up = TRUE
  /\ fields = 0 /\ cats = {} /\ docs = {} /\ docField = 0 /\ pending = {}
  /\ commit = "idle" /\ began = {}
  /\ taxonomy = [g \in {1} |-> {}]
  /\ index = [g \in {1} |-> [docs |-> {}, covered |-> {}, field |-> 0]]
  /\ state = [g \in {0} |-> 0]
  /\ refs = [p \in Part |-> [g \in Gen |-> 0]]
  /\ snap = [c \in Client |-> NoSnapshot]
  /\ commits = 0 /\ snapshots = 0 /\ crashes = 0 /\ cut = FALSE

-----------------------------------------------------------------------------
(* Indexing *)

\* (Mistake: the monitor is not taken.)
MonitorOpen == TRUE
MonitorFree == commit = "idle"

RegisterField ==
  /\ up /\ MonitorFree /\ fields < MaxFields
  /\ fields' = fields + 1
  /\ UNCHANGED <<up, cats, docs, docField, pending, commit, began, disk, snap, counts>>

\* FacetsConfig.build adds the category, then the document is added.
AddCategory ==
  /\ up /\ pending = {} /\ docs # Docs
  /\ pending' = {CHOOSE d \in Docs \ docs : TRUE}
  /\ cats' = cats \cup pending'
  /\ UNCHANGED <<up, fields, docs, docField, commit, began, disk, snap, counts>>

AddDocument ==
  /\ up /\ pending # {}
  /\ docs' = docs \cup pending
  /\ docField' = fields
  /\ pending' = {}
  /\ UNCHANGED <<up, fields, cats, commit, began, disk, snap, counts>>

-----------------------------------------------------------------------------
(* commit() *)

BeginCommit ==
  /\ up /\ commit = "idle" /\ commits < MaxCommits
  /\ commits' = commits + 1
  /\ commit' = "first"
  /\ began' = docs \cap cats
  /\ UNCHANGED <<up, writers, disk, snap, snapshots, crashes, cut>>

CommitTaxonomy ==
  /\ taxonomy' = Committed(taxonomy, refs["taxonomy"], cats)
  /\ UNCHANGED index

CommitIndex ==
  /\ index' = IF index[Last(index)].docs = docs THEN index
              ELSE Committed(index, refs["index"],
                             [docs |-> docs, covered |-> began, field |-> docField])
  /\ UNCHANGED taxonomy

\* ShardState.commit.  (Mistake: the index is committed first.)
IndexFirst(step) == IF step = "first" THEN CommitIndex ELSE CommitTaxonomy
CommitWriter(step) == IF step = "first" THEN CommitTaxonomy ELSE CommitIndex

CommitStep ==
  /\ up
  /\ \/ commit = "first" /\ commit' = "second"
     \/ commit = "second" /\ commit' = "save"
  /\ CommitWriter(commit)
  /\ UNCHANGED <<up, writers, began, state, refs, snap, counts>>

\* The settings are saved; the generation before is deleted if no snapshot has it.
SaveState ==
  /\ up /\ commit = "save"
  /\ state' = LET g == Last(state) + 1
                  old == IF refs["state"][g - 1] = 0 THEN {g - 1} ELSE {}
              IN  [h \in (DOMAIN state \cup {g}) \ old |-> IF h = g THEN fields ELSE state[h]]
  /\ commit' = "idle"
  /\ began' = {}
  /\ UNCHANGED <<up, writers, taxonomy, index, refs, snap, counts>>

-----------------------------------------------------------------------------
(* createSnapshot *)

AddRef(p, g) == refs' = [refs EXCEPT ![p][g] = @ + 1]

\* (Mistake: a reference is taken back twice.)
DropTwo(p, g) == refs' = [refs EXCEPT ![p][g] = @ - 2]
DropRef(p, g) == refs' = [refs EXCEPT ![p][g] = @ - 1]

Snap(c, from, to, p, g) ==
  /\ up /\ snap[c].pc = from
  /\ AddRef(p, g)
  /\ snap' = [snap EXCEPT ![c].pc = to, ![c].gens[p] = g]

SnapshotIndex(c) ==
  /\ snapshots < MaxSnapshots
  /\ Snap(c, "none", "takeTaxonomy", "index", Last(index))
  /\ snapshots' = snapshots + 1
  /\ UNCHANGED <<up, writers, commit, began, taxonomy, index, state, commits, crashes, cut>>

SnapshotTaxonomy(c) ==
  /\ Snap(c, "takeTaxonomy", "takeState", "taxonomy", Last(taxonomy))
  /\ UNCHANGED <<up, writers, commit, began, taxonomy, index, state, counts>>

\* incRefLastCommitGen is synchronized, as commit is; then the answer is sent.
IncRefLastCommitGen(c) ==
  /\ MonitorFree
  /\ Snap(c, "takeState", "held", "state", Last(state))
  /\ UNCHANGED <<up, writers, commit, began, taxonomy, index, state, counts>>

-----------------------------------------------------------------------------
(* releaseSnapshot *)

Of(c, p) == snap[c].gens[p]

Drop(c, from, to, p) ==
  /\ up /\ snap[c].pc = from
  /\ DropRef(p, Of(c, p))
  /\ snap' = [snap EXCEPT ![c].pc = to]

\* A client releases what it was given, and only once.
Release(c) ==
  /\ up /\ snap[c].pc = "held"
  /\ snap' = [snap EXCEPT ![c].pc = "dropIndex"]
  /\ UNCHANGED <<up, writers, commit, began, disk, counts>>

\* deleteUnusedFiles follows the release of each writer's reference.
ReleaseIndex(c) ==
  /\ Drop(c, "dropIndex", "dropTaxonomy", "index")
  /\ index' = Keep(index, refs'["index"])
  /\ UNCHANGED <<up, writers, commit, began, taxonomy, state, counts>>

\* (Mistake: the files of the taxonomy are not looked at.)
ReleaseTaxonomyOnly(c) ==
  /\ Drop(c, "dropTaxonomy", "dropState", "taxonomy")
  /\ UNCHANGED <<up, writers, commit, began, taxonomy, index, state, counts>>

ReleaseTaxonomy(c) ==
  /\ Drop(c, "dropTaxonomy", "dropState", "taxonomy")
  /\ taxonomy' = Keep(taxonomy, refs'["taxonomy"])
  /\ UNCHANGED <<up, writers, commit, began, index, state, counts>>

\* Then the answer is sent, and the client may ask for another snapshot.
DecRef(c) ==
  /\ up /\ snap[c].pc = "dropState"
  /\ MonitorFree
  /\ DropRef("state", Of(c, "state"))
  /\ snap' = [snap EXCEPT ![c] = NoSnapshot]
  /\ UNCHANGED <<up, writers, commit, began, taxonomy, index, state, counts>>

-----------------------------------------------------------------------------
(* Crash and restart *)

\* A request cut by the crash gets no answer: its references stay.
AfterCrash(s) == IF s.pc = "held" THEN s ELSE NoSnapshot

Crash ==
  /\ up /\ crashes < MaxCrashes
  /\ crashes' = crashes + 1
  /\ up' = FALSE
  /\ fields' = 0 /\ cats' = {} /\ docs' = {} /\ docField' = 0 /\ pending' = {}
  /\ commit' = "idle" /\ began' = {}
  /\ snap' = [c \in Client |-> AfterCrash(snap[c])]
  /\ cut' = (cut \/ commit = "save")
  /\ UNCHANGED <<disk, commits, snapshots>>

\* startIndex: the last commits are opened, and what nothing needs is deleted.
Restart ==
  /\ ~ up
  /\ up' = TRUE
  /\ fields' = state[Last(state)]
  /\ cats' = taxonomy[Last(taxonomy)]
  /\ docs' = index[Last(index)].docs
  /\ docField' = index[Last(index)].field
  /\ taxonomy' = Keep(taxonomy, refs["taxonomy"])
  /\ index' = Keep(index, refs["index"])
  /\ state' = Keep(state, refs["state"])
  /\ UNCHANGED <<pending, commit, began, refs, snap, counts>>

Next ==
  \/ RegisterField \/ AddCategory \/ AddDocument
  \/ BeginCommit \/ CommitStep \/ SaveState
  \/ \E c \in Client :
       \/ SnapshotIndex(c) \/ SnapshotTaxonomy(c) \/ IncRefLastCommitGen(c)
       \/ Release(c) \/ ReleaseIndex(c) \/ ReleaseTaxonomy(c) \/ DecRef(c)
  \/ Crash \/ Restart

Spec == Init /\ [][Next]_vars

-----------------------------------------------------------------------------
(* Properties. *)

Held == {c \in Client : snap[c].pc = "held"}

TypeOK ==
  /\ up \in BOOLEAN /\ cut \in BOOLEAN
  /\ fields \in 0 .. MaxFields /\ docField \in 0 .. MaxFields
  /\ docs \subseteq Docs /\ cats \subseteq Docs /\ pending \subseteq Docs /\ began \subseteq docs
  /\ commit \in {"idle", "first", "second", "save"}
  /\ DOMAIN taxonomy \subseteq Gen /\ DOMAIN index \subseteq Gen /\ DOMAIN state \subseteq Gen
  /\ refs \in [Part -> [Gen -> 0 .. MaxSnapshots]]
  /\ snap \in [Client -> [pc : {"none", "takeTaxonomy", "takeState", "held", "dropIndex",
                                "dropTaxonomy", "dropState"},
                          gens : [Part -> Gen]]]

(* The files of a snapshot are there until the client that holds it asks to release
   it: neither a commit, nor the release of another snapshot, nor a restart deletes
   them. *)
SnapshotFilesKept ==
  \A c \in Held :
    /\ Of(c, "index") \in DOMAIN index
    /\ Of(c, "taxonomy") \in DOMAIN taxonomy
    /\ Of(c, "state") \in DOMAIN state

(* The taxonomy of a snapshot has the categories of every document that was in the
   index when the commit the snapshot refers to began, although it was taken by a
   call of its own while commits ran. *)
TaxonomyCoversIndex ==
  \A c \in Held : index[Of(c, "index")].covered \subseteq taxonomy[Of(c, "taxonomy")]

(* The settings of a snapshot have every field its index uses, unless a crash cut a
   commit before its settings were saved. *)
SettingsCoverIndex ==
  ~ cut => \A c \in Held : index[Of(c, "index")].field <= state[Of(c, "state")]

(* When every snapshot was released, and no crash took the answer to a request, no
   reference is left, and of the commits of index and taxonomy only the last.  A file
   state.N is not deleted by the release: it is there until the next save or start. *)
ReleaseFrees ==
  crashes = 0 /\ (\A c \in Client : snap[c].pc = "none") =>
    /\ \A p \in Part, g \in Gen : refs[p][g] = 0
    /\ Cardinality(DOMAIN index) = 1
    /\ Cardinality(DOMAIN taxonomy) = 1
=============================================================================
