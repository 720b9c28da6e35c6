------------------------------ MODULE GenFile ------------------------------
(***************************************************************************)
(* GenFileUtil.java: write-once generation files, and its two users in     *)
(* IndexState: "state.N" holds the settings and fields of an index, and    *)
(* "stateRefCounts.N" which generations of the first the snapshots refer   *)
(* to, whom its deletion policy canDelete asks.  All saves run under the   *)
(* monitor of IndexState, so there is one at a time.                       *)
(*                                                                         *)
(* Every save has a number, which stands for what it writes.  A crash of   *)
(* the machine keeps the bytes of a file only once it is synced, and of    *)
(* the directory, which nobody syncs, the entries that happened to reach   *)
(* the disk, each on its own.  When only the process ends nothing is lost  *)
(* that was written.                                                       *)
(*                                                                         *)
(* genRefCounts is the set of the snapshots it counts.  A snapshot whose   *)
(* reference was lost is not released.                                     *)
(***************************************************************************)
EXTENDS Integers, Functions, FiniteSetsExt

CONSTANTS
  MaxSaves,   \* bound: calls of save, of both kinds of file
  Clients,    \* what clients do besides commit: "take" or "release" snapshots
  IOFails,    \* the directory may throw
  Power       \* the machine may crash

ASSUME GenFileAssumption ==
  /\ MaxSaves \in Nat
  /\ Clients \subseteq {"take", "release"}
  /\ IOFails \in BOOLEAN /\ Power \in BOOLEAN

Util     == {"state", "refs"}
Gen      == 0 .. MaxSaves
Id       == 1 .. MaxSaves
Snapshot == [k : Id, gen : Gen, id : Id]
Gap      == {"listing", "order", "unsure"}

VARIABLES
  dir,        \* the files: generation -> number of the save that created it
  disk,       \* the entries of the directory that have reached the disk
  complete,   \* saves whose file has all its bytes
  synced,     \* saves whose file keeps them in a crash
  next,       \* nextWriteGen
  pc,         \* where save() is, or how far initSaveLoadState() is
  util,       \* whose save() it is
  saves,      \* number of saves begun; the number of the last one
  mem,        \* the state in memory
  refs,       \* genRefCounts
  held,       \* what each save wrote of it
  gaps,       \* what was wrong at the last start
  promised,   \* the last save that returned, while it can be relied on
  snaps       \* the snapshots clients hold, while they can be relied on

memory == <<next, pc, util, mem, refs>>
files  == <<dir, disk, complete, synced>>
ghosts == <<held, gaps, promised, snaps>>
vars   == <<files, memory, saves, ghosts>>

Files(u) == DOMAIN dir[u]
Without(f, S) == Restrict(f, DOMAIN f \ S)
With(f, g, x) == [h \in DOMAIN f \cup {g} |-> IF h = g THEN x ELSE f[h]]
Newest(u) == Max(Files(u))
Delete(u, S) == dir' = [dir EXCEPT ![u] = Without(@, S)]

\* canDelete.  (Mistake: snapshots are not asked.)
DeleteAny(u, g) == TRUE
CanDelete(u, g) == u = "state" => \A s \in refs : s.gen # g

Init ==
  /\ dir = [u \in Util |-> [g \in {} |-> 0]] /\ disk = dir
  /\ complete = {} /\ synced = {}
  /\ next = [u \in Util |-> 0]
  /\ pc = "idle" /\ util = "state"
  /\ saves = 0 /\ mem = 0 /\ refs = {}
  /\ held = [i \in {0} \cup Id |-> {}]
  /\ gaps = [u \in Util |-> {}]
  /\ promised = [u \in Util |-> 0] /\ snaps = {}

-----------------------------------------------------------------------------
(* save() *)

\* createOutput of the next generation, which fails if the file exists.
Create(u) ==
  /\ pc = "idle" /\ saves < MaxSaves
  /\ saves' = saves + 1 /\ util' = u
  /\ \/ /\ next[u] \notin Files(u)
        /\ dir' = [dir EXCEPT ![u] = With(@, next[u], saves')]
        /\ pc' = "created"
     \/ next[u] \in Files(u) /\ UNCHANGED <<dir, pc>>
  /\ UNCHANGED <<disk, complete, synced, next, gaps, promised>>

\* commit(), with a state that has changed.
Commit ==
  /\ Create("state")
  /\ mem' = saves'
  /\ UNCHANGED <<refs, held, snaps>>

\* incRefLastCommitGen(), for a snapshot.
IncRefLastCommitGen ==
  /\ "take" \in Clients /\ next["state"] # 0
  /\ Create("refs")
  /\ refs' = refs \cup {[k   |-> saves', gen |-> next["state"] - 1,
                         id  |-> dir["state"][next["state"] - 1]]}
  /\ held' = [held EXCEPT ![saves'] = refs']
  /\ UNCHANGED <<mem, snaps>>

\* decRef(), for the client who gives a snapshot up.
DecRef ==
  /\ "release" \in Clients
  /\ \E s \in refs : refs' = refs \ {s} /\ snaps' = snaps \ {s}
  /\ Create("refs")
  /\ held' = [held EXCEPT ![saves'] = refs']
  /\ UNCHANGED mem

Write ==
  /\ pc = "created"
  /\ complete' = complete \cup {saves}
  /\ pc' = "written"
  /\ UNCHANGED <<dir, disk, synced, next, util, mem, refs, saves, ghosts>>

\* (Mistake: the exception of saveOne is not thrown on.)
WriteFailsQuietly ==
  /\ pc = "created" /\ IOFails
  /\ pc' = "written"
  /\ UNCHANGED <<files, next, util, mem, refs, saves, ghosts>>

\* saveOne throws: close and delete the file, whatever comes of that.
WriteFails ==
  /\ pc = "created" /\ IOFails
  /\ Delete(util, {next[util]}) \/ UNCHANGED dir
  /\ pc' = "idle"
  /\ UNCHANGED <<disk, complete, synced, next, util, mem, refs, saves, ghosts>>

Sync ==
  /\ pc = "written"
  /\ \/ synced' = synced \cup {saves} /\ pc' = "synced"
     \/ IOFails /\ pc' = "idle" /\ UNCHANGED synced
  /\ UNCHANGED <<dir, disk, complete, next, util, mem, refs, saves, ghosts>>

\* Delete the previous generation if the policy allows, and return.
DeleteOld ==
  /\ pc = "synced"
  /\ Delete(util, IF CanDelete(util, next[util] - 1) THEN {next[util] - 1} ELSE {})
  /\ next' = [next EXCEPT ![util] = @ + 1]
  /\ pc' = "idle"
  /\ gaps' = [gaps EXCEPT ![util] = @ \ {"unsure"}]
  /\ IF "listing" \in gaps[util]
     THEN UNCHANGED <<promised, snaps>>
     ELSE /\ promised' = [promised EXCEPT ![util] = saves]
          /\ snaps' = snaps \cup {s \in refs : s.k = saves}
  /\ UNCHANGED <<disk, complete, synced, util, mem, refs, saves, held>>

\* deleteFile throws: so does save, and the next one writes the same generation.
DeleteFails ==
  /\ pc = "synced" /\ IOFails
  /\ next[util] - 1 \in Files(util) /\ CanDelete(util, next[util] - 1)
  /\ pc' = "idle"
  /\ UNCHANGED <<files, next, util, mem, refs, saves, ghosts>>

-----------------------------------------------------------------------------
(* The disk, and the end of the server. *)

\* One entry of the directory reaches the disk, at any time.
Flush ==
  /\ Power
  /\ \E u \in Util : \E g \in Files(u) \cup DOMAIN disk[u] :
       disk' = [disk EXCEPT ![u] = IF g \in Files(u) THEN With(@, g, dir[u][g])
                                   ELSE Without(@, {g})]
  /\ UNCHANGED <<dir, complete, synced, memory, saves, ghosts>>

Gone ==
  /\ pc' = "down" /\ util' = "state"
  /\ next' = [u \in Util |-> 0]
  /\ mem' = 0 /\ refs' = {}

\* The index is closed, or the process dies, in a save too.
Stop ==
  /\ pc # "down"
  /\ Gone
  /\ UNCHANGED <<files, saves, ghosts>>

\* The directory of the disk has what was promised, or a later save that was synced.
OnDisk(u) == \E g \in DOMAIN disk[u] : disk[u][g] \in synced /\ disk[u][g] >= promised[u]

\* The machine crashes.
Crash ==
  /\ Power
  /\ Gone
  /\ dir' = disk
  /\ \E torn \in SUBSET (complete \ synced) : complete' = complete \ torn
  /\ promised' = [u \in Util |-> IF OnDisk(u) THEN promised[u] ELSE 0]
  /\ snaps' = {s \in snaps : /\ OnDisk("refs")
                             /\ s.gen \in DOMAIN disk["state"]
                             /\ disk["state"][s.gen] = s.id}
  /\ UNCHANGED <<disk, synced, saves, held, gaps>>

-----------------------------------------------------------------------------
(* load() *)

Width(g) == CHOOSE w \in 1 .. (g + 1) : g < 10^w /\ (w = 1 \/ g >= 10^(w - 1))

\* listAll() returns the names sorted as strings: "state.10" before "state.9".
ListedBefore(g, h) ==
  LET a == g * 10^Width(h)
      b == h * 10^Width(g)
  IN  g # h /\ (a < b \/ (a = b /\ g < h))

\* A listed file is opened if it is newer than every file listed before it.
Opened(u) == {g \in Files(u) : \A h \in Files(u) : ListedBefore(h, g) => h < g}
Parsed(u) == {g \in Opened(u) : dir[u][g] \in complete}

\* (Mistake: the file that is read first is kept.)
FoundFirst(u) == IF Parsed(u) = {} THEN 0 ELSE dir[u][Min(Parsed(u))]

\* The save that is loaded; 0 for null.
Found(u) == IF Parsed(u) = {} THEN 0 ELSE dir[u][Max(Parsed(u))]

\* (Mistake: a restart cleans nothing up.)
StaleNone(u) == {}
Stale(u) == {g \in Opened(u) : CanDelete(u, g) /\ g # Newest(u)}

\* The newest file would outlast a crash.
Sure(u) == Files(u) # {} => dir[u][Newest(u)] \in synced

\* The newest file can be read; or the one before it, which no earlier start has
\* deleted, is next in the order of the names.
Trusted(u) ==
  \/ Files(u) = {} \/ dir[u][Newest(u)] \in complete
  \/ "unsure" \notin gaps[u] /\ Opened(u) = Files(u)

Forget(u) ==
  /\ promised' = [promised EXCEPT ![u] = 0]
  /\ snaps' = IF u = "refs" THEN {} ELSE snaps

\* The newest file that can be read is loaded; all but the newest are deleted.
Read(u) ==
  /\ next' = [next EXCEPT ![u] = IF Files(u) = {} THEN 0 ELSE Newest(u) + 1]
  /\ Delete(u, Stale(u))
  /\ gaps' = [gaps EXCEPT ![u] = (@ \cap {"listing"})
                                 \cup (IF Opened(u) = Files(u) THEN {} ELSE {"order"})
                                 \cup (IF Sure(u) THEN {} ELSE {"unsure"})]
  /\ IF Trusted(u) THEN UNCHANGED <<promised, snaps>> ELSE Forget(u)

\* listAll throws: nothing is loaded, and generations begin at 0 again.
ListFails(u) ==
  /\ IOFails
  /\ next' = [next EXCEPT ![u] = 0]
  /\ gaps' = [gaps EXCEPT ![u] = @ \cup {"listing"}]
  /\ Forget(u)
  /\ UNCHANGED dir

\* initSaveLoadState: the references first, which the deletion policy needs ...
LoadRefs ==
  /\ pc = "down" /\ pc' = "loading"
  /\ \/ Read("refs") /\ refs' = held[Found("refs")]
     \/ ListFails("refs") /\ UNCHANGED refs
  /\ UNCHANGED <<disk, complete, synced, util, mem, saves, held>>

\* ... and then the state.
LoadState ==
  /\ pc = "loading" /\ pc' = "idle"
  /\ \/ Read("state") /\ mem' = Found("state")
     \/ ListFails("state") /\ UNCHANGED mem
  /\ UNCHANGED <<disk, complete, synced, util, refs, saves, held>>

\* A start fails: the bytes of a file are not UTF-8 (which is not an IOException), the
\* directory cannot open a file, or it deletes some of the files and then throws.
LoadThrows(u) ==
  /\ pc = IF u = "refs" THEN "down" ELSE "loading"
  /\ IOFails \/ Parsed(u) # Opened(u)
  /\ Gone
  /\ \E S \in SUBSET Stale(u) :
       /\ S = {} \/ IOFails
       /\ Delete(u, S)
       /\ gaps' = [gaps EXCEPT ![u] = IF S = {} \/ Sure(u) THEN @ ELSE @ \cup {"unsure"}]
  /\ UNCHANGED <<disk, complete, synced, saves, held, promised, snaps>>

Next ==
  \/ Commit \/ IncRefLastCommitGen \/ DecRef
  \/ Write \/ WriteFails \/ Sync \/ DeleteOld \/ DeleteFails
  \/ Flush \/ Stop \/ Crash
  \/ LoadRefs \/ LoadState \/ \E u \in Util : LoadThrows(u)

Spec == Init /\ [][Next]_vars

-----------------------------------------------------------------------------
(* Properties. *)

TypeOK ==
  /\ DOMAIN dir = Util /\ DOMAIN disk = Util
  /\ \A d \in {dir, disk} : \A u \in Util :
       DOMAIN d[u] \subseteq Gen /\ \A g \in DOMAIN d[u] : d[u][g] \in Id
  /\ complete \subseteq Id /\ synced \subseteq complete
  /\ next \in [Util -> Gen]
  /\ pc \in {"idle", "created", "written", "synced", "down", "loading"}
  /\ util \in Util
  /\ saves \in 0 .. MaxSaves
  /\ mem \in 0 .. MaxSaves
  /\ refs \subseteq Snapshot
  /\ held \in [{0} \cup Id -> SUBSET Snapshot]
  /\ gaps \in [Util -> SUBSET Gap]
  /\ promised \in [Util -> 0 .. MaxSaves]
  /\ snaps \subseteq Snapshot

Loaded(u) == pc # "down" /\ (pc = "loading" => u = "refs")

(* A server that has started has at least the state of the last commit that returned,
   and knows every snapshot whose creation returned: GenFileUtil.load finds what save
   reported, wherever the server stopped.  What was promised ends where the code keeps no
   promise: when the directory could not be listed, when a crash took an entry of the
   directory that was never synced, and when the newest file cannot be read and the one
   before it is gone or not the next in the order of the names. *)
NothingLost ==
  /\ Loaded("state") => mem >= promised["state"]
  /\ Loaded("refs") => snaps \subseteq refs

(* The state file a snapshot refers to stays what it was when the snapshot was taken:
   no later save deletes it, no start does, after a stop or a crash, once the references
   were read back from files of their own. *)
SnapshotStateKept ==
  \A s \in snaps : s.gen \in Files("state") /\ dir["state"][s.gen] = s.id

\* A snapshot has referred to this generation.
EverHeld(u, g) == u = "state" /\ \E i \in Id : \E s \in held[i] : s.gen = g

(* Old files go: of a directory that a start has listed, in the order of the generations,
   the last two generations are left, and those of the state that snapshots referred to. *)
NoStaleFiles ==
  \A u \in Util : Loaded(u) /\ gaps[u] \subseteq {"unsure"} =>
    \A g \in Files(u) : g \in {next[u] - 1, next[u]} \/ EverHeld(u, g)

(* "Loads the most recent generation file" (GenFileUtil.load), and falls back to the one
   before it if that cannot be parsed: the newest file that can be read is opened. *)
LoadsNewest ==
  LET readable == {g \in Files("state") : dir["state"][g] \in complete}
  IN  pc = "loading" /\ readable # {} => Max(readable) \in Opened("state")
=============================================================================
