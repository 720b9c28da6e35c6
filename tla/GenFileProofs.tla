---------------------------- MODULE GenFileProofs ----------------------------
(***************************************************************************)
(* Proofs about the generation files, for any number of saves, failures,   *)
(* stops, crashes and snapshots: what save() reported is found by every    *)
(* start, the state of a snapshot stays, and old files go.                 *)
(***************************************************************************)
EXTENDS GenFile, FiniteSetTheorems, WellFoundedInduction, TLAPS

\* Places of save() between the creation of a file and its return.
Saving == {"created", "written", "synced"}

\* The directory or the disk has generation g with what save x wrote.
Entry(u, g, x) ==
  \/ g \in Files(u) /\ x = dir[u][g]
  \/ g \in DOMAIN disk[u] /\ x = disk[u][g]

(* Generations are not higher than the number of saves; the last finished one is there
   while the server runs, and so is the one a save is writing. *)
FileInv ==
  /\ \A u \in Util : \A g \in Gen, x \in Id : Entry(u, g, x) => g < saves /\ x <= saves
  /\ \A u \in Util :
       /\ next[u] <= saves /\ promised[u] <= saves
       /\ Loaded(u) /\ next[u] # 0 => next[u] - 1 \in Files(u)
  /\ pc \in Saving => /\ next[util] \in Files(util) /\ dir[util][next[util]] = saves
                      /\ util = "state" => mem = saves
  /\ pc = "written" => saves \in complete
  /\ pc = "synced" => saves \in synced

(* Where the directory could be listed, higher generations are later saves, on the disk
   too, and at most the next one has been created. *)
OrderInv ==
  \A u \in Util : "listing" \notin gaps[u] =>
    /\ \A g, h \in Gen, x, y \in Id : Entry(u, g, x) /\ Entry(u, h, y) /\ g < h => x < y
    /\ \A g \in Gen, x \in Id : Entry(u, g, x) =>
         IF Loaded(u) THEN g <= next[u] ELSE g = 0 \/ \E h \in Files(u) : g <= h + 1

(* There is a file of the promised save or of a later one: the last finished one while
   the server runs.  It is synced, unless a start had to fall back. *)
PromiseInv ==
  \A u \in Util : promised[u] # 0 =>
    /\ "listing" \notin gaps[u]
    /\ \E g \in Files(u) : /\ Loaded(u) => g = next[u] - 1
                           /\ dir[u][g] >= promised[u]
                           /\ "unsure" \in gaps[u] \/ dir[u][g] \in synced

(* What the snapshots are: each was taken by the save of its number, after the save of
   the state it refers to, and written by it. *)
RefInv ==
  /\ \A i \in {0} \cup Id : i = 0 \/ i > saves => held[i] = {}
  /\ \A i \in {0} \cup Id : \A s \in held[i] : s.id < s.k /\ s.k <= saves
  /\ \A s \in refs : \E i \in Id : s \in held[i]
  /\ pc \in Saving =>
       IF util = "state" THEN \A s \in refs : s.k < saves
       ELSE /\ held[saves] = refs
            /\ \A s \in refs : s.k = saves =>
                 s.gen \in Files("state") /\ dir["state"][s.gen] = s.id

(* The promised file of references, and every later one, has all the snapshots that can
   be relied on. *)
SnapInv ==
  /\ snaps # {} => promised["refs"] # 0
  /\ \A g \in Gen, x \in Id :
       Entry("refs", g, x) /\ x >= promised["refs"] => snaps \subseteq held[x]

GenFileInv ==
  /\ TypeOK /\ FileInv /\ OrderInv /\ PromiseInv /\ RefInv /\ SnapInv
  /\ NothingLost /\ SnapshotStateKept /\ NoStaleFiles

-----------------------------------------------------------------------------
(* Numbers and files. *)

(* A non-empty set of natural numbers has a least element. *)
LEMMA LeastExists ==
  ASSUME NEW S, S \subseteq Nat, S # {}
  PROVE  \E x \in S : \A y \in S : x <= y
<1> DEFINE R == {p \in Nat \X Nat : p[1] < p[2]}
<1>1. OpToRel(<, Nat) = R
  BY DEF OpToRel
<1>2. IsWellFoundedOn(R, Nat)
  BY <1>1, NatLessThanWellFounded
<1> HIDE DEF R
<1>3. PICK x \in S : \A y \in S : ~(<<y, x>> \in R)
  BY <1>2, WFMin
<1>4. ASSUME NEW y \in S PROVE x <= y
  <2>1. x \in Nat /\ y \in Nat /\ ~(<<y, x>> \in R)
    BY <1>3
  <2> QED BY <2>1 DEF R
<1> QED BY <1>4

(* Max of a non-empty bounded set of natural numbers is its greatest element. *)
LEMMA MaxIsGreatest ==
  ASSUME NEW n \in Nat, NEW S, S \subseteq 0 .. n, S # {}
  PROVE  Max(S) \in S /\ \A y \in S : Max(S) >= y
<1> DEFINE T == {n - x : x \in S}
<1>0. \A x \in S : x \in 0 .. n
  OBVIOUS
<1>1. T \subseteq Nat /\ T # {}
  <2>1. \A x \in 0 .. n : n - x \in Nat
    OBVIOUS
  <2>2. T \subseteq Nat
    BY <1>0, <2>1
  <2>3. PICK x : x \in S
    OBVIOUS
  <2>4. n - x \in T
    BY <2>3
  <2> QED BY <2>2, <2>4
<1>2. PICK t \in T : \A u \in T : t <= u
  <2> HIDE DEF T
  <2> QED BY <1>1, LeastExists
<1>3. PICK x \in S : t = n - x
  BY <1>2
<1>4. \A y \in S : x >= y
  <2> SUFFICES ASSUME NEW y \in S PROVE x >= y
    OBVIOUS
  <2>1. n - y \in T
    OBVIOUS
  <2>2. n - x <= n - y
    BY <1>2, <1>3, <2>1
  <2> QED BY <1>0, <2>2
<1> QED BY <1>4 DEF Max

(* The types of what the directory holds. *)
LEMMA FilesTyped ==
  ASSUME TypeOK, NEW u \in Util
  PROVE  /\ Files(u) \subseteq Gen /\ DOMAIN disk[u] \subseteq Gen /\ Gen \subseteq Nat
         /\ \A g \in Files(u) : dir[u][g] \in Id
         /\ \A g \in DOMAIN disk[u] : disk[u][g] \in Id
         /\ MaxSaves \in Nat /\ Id \subseteq Nat \ {0}
BY GenFileAssumption DEF TypeOK, Files, Gen, Id

(* The newest file is there, and opened, and not stale. *)
LEMMA NewestIs ==
  ASSUME TypeOK, NEW u \in Util, Files(u) # {}
  PROVE  /\ Newest(u) \in Files(u) /\ Newest(u) \in Nat
         /\ \A g \in Files(u) : g <= Newest(u)
         /\ Newest(u) \in Opened(u) /\ Newest(u) \notin Stale(u)
<1>1. Files(u) \subseteq 0 .. MaxSaves /\ MaxSaves \in Nat
  BY FilesTyped DEF Gen
<1>2. Newest(u) \in Files(u) /\ \A g \in Files(u) : Newest(u) >= g
  BY <1>1, MaxIsGreatest DEF Newest
<1>3. Newest(u) \in Nat /\ \A g \in Files(u) : g \in Nat
  BY <1>1, <1>2
<1>4. \A g \in Files(u) : g <= Newest(u)
  BY <1>2, <1>3
<1>5. \A g \in Files(u) : ListedBefore(g, Newest(u)) => g < Newest(u)
  <2> SUFFICES ASSUME NEW g \in Files(u), ListedBefore(g, Newest(u)) PROVE g < Newest(u)
    OBVIOUS
  <2>1. g # Newest(u)
    BY DEF ListedBefore
  <2> QED BY <1>3, <1>4, <2>1
<1> QED BY <1>2, <1>3, <1>4, <1>5 DEF Opened, Stale

(* What a start finds, where the promise can be trusted, is what was promised or later;
   it comes from a file. *)
LEMMA FoundIs ==
  ASSUME TypeOK, OrderInv, PromiseInv, NEW u \in Util, Trusted(u), ~ Loaded(u), promised[u] # 0
  PROVE  /\ Found(u) >= promised[u] /\ Found(u) # 0
         /\ \E g \in Files(u) : Found(u) = dir[u][g]
<1>1. PICK p \in Files(u) : /\ dir[u][p] >= promised[u]
                            /\ "unsure" \in gaps[u] \/ dir[u][p] \in synced
  BY DEF PromiseInv
<1>2. /\ Files(u) \subseteq Gen /\ Gen \subseteq Nat /\ Gen = 0 .. MaxSaves /\ MaxSaves \in Nat
      /\ \A g \in Files(u) : dir[u][g] \in Id /\ dir[u][g] \in Nat \ {0}
      /\ promised[u] \in Nat
  BY FilesTyped DEF TypeOK, Gen
<1>3. ASSUME NEW g \in Files(u), g >= p PROVE dir[u][g] >= promised[u]
  <2>1. Entry(u, g, dir[u][g]) /\ Entry(u, p, dir[u][p])
    BY DEF Entry
  <2>2. p < g => dir[u][p] < dir[u][g]
    BY <1>2, <2>1 DEF OrderInv, PromiseInv
  <2> QED BY <1>1, <1>2, <1>3, <2>2
<1>4. \E g \in Parsed(u) : g >= p
  <2>1. CASE dir[u][Newest(u)] \in complete
    BY <2>1, NewestIs DEF Parsed
  <2>2. CASE "unsure" \notin gaps[u] /\ Opened(u) = Files(u)
    <3>1. dir[u][p] \in complete
      BY <1>1, <2>2 DEF TypeOK
    <3> QED BY <1>2, <2>2, <3>1 DEF Parsed
  <2> QED BY <2>1, <2>2 DEF Trusted
<1>5. Parsed(u) \subseteq Files(u)
  BY DEF Parsed, Opened
<1>6. Max(Parsed(u)) \in Parsed(u) /\ \A g \in Parsed(u) : Max(Parsed(u)) >= g
  <2>1. Parsed(u) \subseteq 0 .. MaxSaves /\ Parsed(u) # {} /\ MaxSaves \in Nat
    BY <1>2, <1>4, <1>5
  <2> QED BY <2>1, MaxIsGreatest
<1>7. Max(Parsed(u)) \in Files(u) /\ Max(Parsed(u)) >= p
  BY <1>2, <1>4, <1>5, <1>6
<1>8. Found(u) = dir[u][Max(Parsed(u))]
  BY <1>6 DEF Found
<1> HIDE DEF Max
<1> QED BY <1>2, <1>3, <1>7, <1>8

-----------------------------------------------------------------------------
(* What each step does to the directory and the disk. *)

(* Deleting takes files away and leaves the others. *)
LEMMA DeleteIs ==
  ASSUME DOMAIN dir = Util, NEW u \in Util, NEW S, Delete(u, S)
  PROVE  /\ DOMAIN dir' = Util /\ Files(u)' = Files(u) \ S
         /\ \A g \in Files(u)' : dir'[u][g] = dir[u][g]
         /\ \A v \in Util : v # u => dir'[v] = dir[v]
<1>1. dir' = [dir EXCEPT ![u] = Without(dir[u], S)]
  BY DEF Delete
<1>2. dir'[u] = Without(dir[u], S) /\ DOMAIN dir' = Util /\ \A v \in Util : v # u => dir'[v] = dir[v]
  BY <1>1
<1> QED BY <1>2 DEF Without, Restrict, Files

(* Creating adds the next generation, or fails and changes no file. *)
LEMMA CreateIs ==
  ASSUME DOMAIN dir = Util, NEW u \in Util, Create(u)
  PROVE  /\ DOMAIN dir' = Util
         /\ \A v \in Util : v # u => dir'[v] = dir[v]
         /\ \A g \in Files(u) : g \in Files(u)' /\ dir'[u][g] = dir[u][g]
         /\ \/ pc' = "idle" /\ dir' = dir
            \/ /\ pc' = "created" /\ next[u] \notin Files(u)
               /\ Files(u)' = Files(u) \cup {next[u]} /\ dir'[u][next[u]] = saves'
<1>1. CASE dir' = dir /\ pc' = "idle"
  BY <1>1 DEF Create, Files
<1>2. CASE /\ next[u] \notin Files(u) /\ pc' = "created"
           /\ dir' = [dir EXCEPT ![u] = With(dir[u], next[u], saves')]
  <2>1. dir'[u] = With(dir[u], next[u], saves') /\ DOMAIN dir' = Util
        /\ \A v \in Util : v # u => dir'[v] = dir[v]
    BY <1>2
  <2>2. next[u] \notin Files(u)
    BY <1>2
  <2> QED BY <1>2, <2>1, <2>2 DEF With, Files
<1> QED BY <1>1, <1>2 DEF Create

(* What a flush puts on the disk was in the directory. *)
LEMMA FlushIs ==
  ASSUME DOMAIN disk = Util, Flush
  PROVE  /\ DOMAIN disk' = Util
         /\ \A v \in Util : \A g \in DOMAIN disk'[v] :
              \/ g \in DOMAIN disk[v] /\ disk'[v][g] = disk[v][g]
              \/ g \in Files(v) /\ disk'[v][g] = dir[v][g]
<1>0. PICK u \in Util : \E g \in Files(u) \cup DOMAIN disk[u] :
        disk' = [disk EXCEPT ![u] = IF g \in Files(u) THEN With(disk[u], g, dir[u][g])
                                    ELSE Without(disk[u], {g})]
  BY DEF Flush
<1>1. PICK g \in Files(u) \cup DOMAIN disk[u] :
        disk' = [disk EXCEPT ![u] = IF g \in Files(u) THEN With(disk[u], g, dir[u][g])
                                    ELSE Without(disk[u], {g})]
  BY <1>0
<1>2. DOMAIN disk' = Util /\ \A v \in Util : v # u => disk'[v] = disk[v]
  BY <1>1
<1>3. disk'[u] = IF g \in Files(u) THEN With(disk[u], g, dir[u][g]) ELSE Without(disk[u], {g})
  BY <1>1
<1>4. \A h \in DOMAIN disk'[u] : \/ h \in DOMAIN disk[u] /\ disk'[u][h] = disk[u][h]
                                 \/ h \in Files(u) /\ disk'[u][h] = dir[u][h]
  BY <1>3 DEF With, Without, Restrict
<1> QED BY <1>2, <1>4

(* Deleting adds no entry. *)
LEMMA DeleteEntries ==
  ASSUME DOMAIN dir = Util, NEW u \in Util, NEW S, Delete(u, S), disk' = disk
  PROVE  \A v \in Util : \A g, x : Entry(v, g, x)' => Entry(v, g, x)
<1> SUFFICES ASSUME NEW v \in Util, NEW g, NEW x, Entry(v, g, x)' PROVE Entry(v, g, x)
  OBVIOUS
<1>1. /\ Files(u)' = Files(u) \ S /\ \A h \in Files(u)' : dir'[u][h] = dir[u][h]
      /\ \A w \in Util : w # u => dir'[w] = dir[w]
  BY DeleteIs
<1>2. CASE v = u
  <2>1. \/ g \in Files(u)' /\ x = dir'[u][g]
        \/ g \in DOMAIN disk[u] /\ x = disk[u][g]
    BY <1>2 DEF Entry
  <2> QED BY <1>1, <1>2, <2>1 DEF Entry
<1>3. CASE v # u
  BY <1>1, <1>3 DEF Entry, Files
<1> QED BY <1>2, <1>3

\* A step that is not the creation of a file.
Keeps == /\ DOMAIN dir' = Util /\ DOMAIN disk' = Util
         /\ \A u \in Util : \A g, x : Entry(u, g, x)' => Entry(u, g, x)

(* Only a save that begins adds an entry: that of the file it creates. *)
LEMMA StepKeeps ==
  ASSUME TypeOK, [Next]_vars
  PROVE  Keeps \/ Commit \/ IncRefLastCommitGen \/ DecRef
<1> USE DEF Keeps
<1>0. DOMAIN dir = Util /\ DOMAIN disk = Util /\ util \in Util /\ {"refs", "state"} \subseteq Util
  BY DEF TypeOK, Util
<1>a. dir' = dir /\ disk' = disk => Keeps
  BY <1>0 DEF Entry, Files
<1>b. ASSUME NEW u \in Util, NEW S, Delete(u, S), disk' = disk PROVE Keeps
  <2>1. DOMAIN dir' = Util
    BY <1>0, <1>b, DeleteIs
  <2> QED BY <1>0, <1>b, <2>1, DeleteEntries
<1>1. CASE Write \/ Sync \/ DeleteFails \/ Stop
  BY <1>1, <1>a DEF Write, Sync, DeleteFails, Stop, files
<1>2. CASE WriteFails
  <2>1. disk' = disk /\ (dir' = dir \/ Delete(util, {next[util]}))
    BY <1>2 DEF WriteFails
  <2> QED BY <1>0, <1>a, <1>b, <2>1
<1>3. CASE DeleteOld
  <2>1. disk' = disk /\ Delete(util, IF CanDelete(util, next[util] - 1) THEN {next[util] - 1} ELSE {})
    BY <1>3 DEF DeleteOld
  <2> QED BY <1>0, <1>b, <2>1
<1>4. CASE Flush
  <2>1. dir' = dir
    BY <1>4 DEF Flush
  <2>2. \A v \in Util : \A g \in DOMAIN disk'[v] :
              \/ g \in DOMAIN disk[v] /\ disk'[v][g] = disk[v][g]
              \/ g \in Files(v) /\ disk'[v][g] = dir[v][g]
    BY <1>0, <1>4, FlushIs
  <2>3. DOMAIN dir' = Util /\ DOMAIN disk' = Util
    BY <1>0, <1>4, <2>1, FlushIs
  <2>4. ASSUME NEW v \in Util, NEW g, NEW x, Entry(v, g, x)' PROVE Entry(v, g, x)
    <3>1. \/ g \in Files(v) /\ x = dir[v][g]
          \/ g \in DOMAIN disk'[v] /\ x = disk'[v][g]
      BY <2>1, <2>4 DEF Entry, Files
    <3> QED BY <2>2, <3>1 DEF Entry
  <2> QED BY <2>3, <2>4
<1>5. CASE Crash
  <2>1. dir' = disk /\ disk' = disk
    BY <1>5 DEF Crash
  <2> QED BY <1>0, <2>1 DEF Entry, Files
<1>6. CASE LoadRefs
  <2>1. disk' = disk /\ (Delete("refs", Stale("refs")) \/ dir' = dir)
    BY <1>6 DEF LoadRefs, Read, ListFails
  <2> QED BY <1>0, <1>a, <1>b, <2>1
<1>7. CASE LoadState
  <2>1. disk' = disk /\ (Delete("state", Stale("state")) \/ dir' = dir)
    BY <1>7 DEF LoadState, Read, ListFails
  <2> QED BY <1>0, <1>a, <1>b, <2>1
<1>8. ASSUME NEW u \in Util, LoadThrows(u) PROVE Keeps
  <2>1. disk' = disk /\ \E S \in SUBSET Stale(u) : Delete(u, S)
    BY <1>8 DEF LoadThrows
  <2> QED BY <1>b, <2>1
<1>9. CASE UNCHANGED vars
  BY <1>9, <1>a DEF vars, files
<1> QED BY <1>1, <1>2, <1>3, <1>4, <1>5, <1>6, <1>7, <1>8, <1>9 DEF Next

(* A save that begins adds the entry of the next generation, or none. *)
LEMMA CreateEntries ==
  ASSUME DOMAIN dir = Util, NEW u \in Util, Create(u)
  PROVE  \A v \in Util : \A g, x : Entry(v, g, x)' =>
           \/ Entry(v, g, x)
           \/ v = u /\ g = next[u] /\ x = saves' /\ pc' = "created" /\ next[u] \notin Files(u)
<1> SUFFICES ASSUME NEW v \in Util, NEW g, NEW x, Entry(v, g, x)', ~ Entry(v, g, x)
             PROVE  v = u /\ g = next[u] /\ x = saves' /\ pc' = "created" /\ next[u] \notin Files(u)
  OBVIOUS
<1>1. disk' = disk
  BY DEF Create
<1>2. g \in Files(v)' /\ x = dir'[v][g]
  BY <1>1 DEF Entry
<1>3. v = u
  BY <1>2, CreateIs DEF Entry, Files
<1>4. dir' # dir
  BY <1>2 DEF Entry, Files
<1>5. /\ pc' = "created" /\ next[u] \notin Files(u)
      /\ Files(u)' = Files(u) \cup {next[u]} /\ dir'[u][next[u]] = saves'
      /\ \A h \in Files(u) : dir'[u][h] = dir[u][h]
  BY <1>4, CreateIs
<1>6. g = next[u]
  BY <1>2, <1>3, <1>5 DEF Entry
<1> QED BY <1>2, <1>3, <1>5, <1>6

-----------------------------------------------------------------------------
(* Types. *)

\* The part of the types that is about directories.
DirType ==
  /\ DOMAIN dir = Util /\ DOMAIN disk = Util
  /\ \A d \in {dir, disk} : \A u \in Util :
       DOMAIN d[u] \subseteq Gen /\ \A g \in DOMAIN d[u] : d[u][g] \in Id

(* The entries of typed directories are typed, and the other way round. *)
LEMMA EntriesTyped ==
  ASSUME DOMAIN dir = Util, DOMAIN disk = Util
  PROVE  DirType <=> \A u \in Util : \A g, x : Entry(u, g, x) => g \in Gen /\ x \in Id
<1>1. ASSUME DirType, NEW u \in Util, NEW g, NEW x, Entry(u, g, x) PROVE g \in Gen /\ x \in Id
  BY <1>1 DEF DirType, Entry, Files
<1>2. ASSUME \A u \in Util : \A g, x : Entry(u, g, x) => g \in Gen /\ x \in Id PROVE DirType
  <2>1. ASSUME NEW u \in Util, NEW g \in DOMAIN dir[u] PROVE g \in Gen /\ dir[u][g] \in Id
    <3>1. Entry(u, g, dir[u][g])
      BY DEF Entry, Files
    <3> QED BY <1>2, <3>1
  <2>2. ASSUME NEW u \in Util, NEW g \in DOMAIN disk[u] PROVE g \in Gen /\ disk[u][g] \in Id
    <3>1. Entry(u, g, disk[u][g])
      BY DEF Entry
    <3> QED BY <1>2, <3>1
  <2> QED BY <2>1, <2>2 DEF DirType
<1> QED BY <1>1, <1>2

(* The same of the next state. *)
LEMMA EntriesTypedNext ==
  ASSUME DOMAIN dir' = Util, DOMAIN disk' = Util
  PROVE  DirType' <=> \A u \in Util : \A g, x : Entry(u, g, x)' => g \in Gen /\ x \in Id
<1>1. ASSUME DirType', NEW u \in Util, NEW g, NEW x, Entry(u, g, x)' PROVE g \in Gen /\ x \in Id
  BY <1>1 DEF DirType, Entry, Files
<1>2. ASSUME \A u \in Util : \A g, x : Entry(u, g, x)' => g \in Gen /\ x \in Id PROVE DirType'
  <2>1. ASSUME NEW u \in Util, NEW g \in DOMAIN dir'[u] PROVE g \in Gen /\ dir'[u][g] \in Id
    <3>1. PICK x : x = dir'[u][g]
      OBVIOUS
    <3>2. Entry(u, g, x)'
      BY <3>1 DEF Entry, Files
    <3> QED BY <1>2, <3>1, <3>2
  <2>2. ASSUME NEW u \in Util, NEW g \in DOMAIN disk'[u] PROVE g \in Gen /\ disk'[u][g] \in Id
    <3>1. PICK x : x = disk'[u][g]
      OBVIOUS
    <3>2. Entry(u, g, x)'
      BY <3>1 DEF Entry
    <3> QED BY <1>2, <3>1, <3>2
  <2> QED BY <2>1, <2>2 DEF DirType
<1> QED BY <1>1, <1>2

(* The save that begins is one that can. *)
LEMMA CreateSaves ==
  ASSUME TypeOK, FileInv, NEW u \in Util, Create(u)
  PROVE  /\ saves' = saves + 1 /\ saves' \in Id /\ saves \in Nat /\ pc = "idle" /\ util' = u
         /\ next[u] \in Gen /\ next[u] <= saves /\ next[u] < saves'
         /\ pc' \in {"idle", "created"}
<1>1. saves < MaxSaves /\ saves \in 0 .. MaxSaves /\ next[u] \in 0 .. MaxSaves /\ next[u] <= saves
  BY DEF Create, TypeOK, FileInv, Gen
<1> QED BY <1>1, GenFileAssumption DEF Create, Id, Gen

(* The directories keep their types. *)
LEMMA DirStep == ASSUME TypeOK, FileInv, [Next]_vars PROVE DirType'
<1>0. /\ DOMAIN dir = Util /\ DOMAIN disk = Util /\ {"refs", "state"} \subseteq Util
      /\ \A u \in Util : \A g, x : Entry(u, g, x) => g \in Gen /\ x \in Id
  BY EntriesTyped DEF TypeOK, DirType, Util
<1>1. CASE Keeps
  BY <1>0, <1>1, EntriesTypedNext DEF Keeps
<1>2. ASSUME NEW u \in Util, Create(u) PROVE DirType'
  <2>1. DOMAIN dir' = Util /\ DOMAIN disk' = Util
    BY <1>0, <1>2, CreateIs DEF Create
  <2>2. saves' \in Id /\ next[u] \in Gen
    BY <1>2, CreateSaves
  <2>3. ASSUME NEW v \in Util, NEW g, NEW x, Entry(v, g, x)'
        PROVE  Entry(v, g, x) \/ (g = next[u] /\ x = saves')
    BY <1>0, <1>2, <2>3, CreateEntries
  <2> QED BY <1>0, <2>1, <2>2, <2>3, EntriesTypedNext
<1> QED BY <1>0, <1>1, <1>2, StepKeeps DEF Commit, IncRefLastCommitGen, DecRef

(* What is held, where it is read. *)
LEMMA FoundTyped ==
  ASSUME TypeOK, NEW u \in Util
  PROVE  Found(u) \in {0} \cup Id
<1>1. CASE Parsed(u) = {}
  BY <1>1 DEF Found
<1>2. CASE Parsed(u) # {}
  <2>1. Parsed(u) \subseteq Files(u)
    BY DEF Parsed, Opened
  <2>2. Parsed(u) \subseteq 0 .. MaxSaves /\ MaxSaves \in Nat
    BY <2>1, FilesTyped DEF Gen
  <2>3. Max(Parsed(u)) \in Parsed(u)
    BY <1>2, <2>2, MaxIsGreatest
  <2> HIDE DEF Max
  <2> QED BY <1>2, <2>1, <2>3, FilesTyped DEF Found
<1> QED BY <1>1, <1>2

(* A start that reads its directory goes on after the newest file. *)
LEMMA ReadNext ==
  ASSUME TypeOK, FileInv, NEW u \in Util, Read(u)
  PROVE  /\ next'[u] \in Gen /\ next' \in [Util -> Gen] /\ next'[u] <= saves
         /\ \A v \in Util : v # u => next'[v] = next[v]
         /\ Files(u) = {} => next'[u] = 0
         /\ Files(u) # {} => next'[u] = Newest(u) + 1
<1>1. next' = [next EXCEPT ![u] = IF Files(u) = {} THEN 0 ELSE Newest(u) + 1]
  BY DEF Read
<1>2. Files(u) # {} => Newest(u) + 1 \in Gen /\ Newest(u) + 1 <= saves
  <2> SUFFICES ASSUME Files(u) # {} PROVE Newest(u) + 1 \in Gen /\ Newest(u) + 1 <= saves
    OBVIOUS
  <2>1. Newest(u) \in Files(u) /\ Newest(u) \in Nat
    BY NewestIs
  <2>2. Newest(u) \in Gen /\ dir[u][Newest(u)] \in Id /\ Entry(u, Newest(u), dir[u][Newest(u)])
    BY <2>1, FilesTyped DEF Entry
  <2>3. Newest(u) < saves /\ saves \in 0 .. MaxSaves
    BY <2>2 DEF FileInv, TypeOK
  <2> QED BY <2>1, <2>3, GenFileAssumption DEF Gen
<1>3. 0 \in Gen /\ 0 <= saves
  BY GenFileAssumption DEF Gen, TypeOK
<1> QED BY <1>1, <1>2, <1>3 DEF TypeOK

(* The types hold at the start. *)
LEMMA TypeInit == Init => TypeOK
<1> SUFFICES ASSUME Init PROVE TypeOK
  OBVIOUS
<1>1. \A u \in Util : dir[u] = [g \in {} |-> 0] /\ disk[u] = [g \in {} |-> 0]
  BY DEF Init
<1>2. \A u \in Util : DOMAIN dir[u] = {} /\ DOMAIN disk[u] = {}
  BY <1>1
<1>3. 0 \in Gen /\ 0 \in 0 .. MaxSaves
  BY GenFileAssumption DEF Gen
<1>4. DOMAIN dir = Util /\ DOMAIN disk = Util
  BY DEF Init
<1>5. \A d \in {dir, disk} : \A u \in Util : DOMAIN d[u] = {}
  BY <1>2
<1> QED BY <1>3, <1>4, <1>5 DEF Init, TypeOK, Util

(* Every variable keeps its type. *)
LEMMA TypeStep == ASSUME TypeOK, FileInv, RefInv, [Next]_vars PROVE TypeOK'
<1> USE GenFileAssumption
<1> DEFINE Rest ==
      /\ complete \subseteq Id /\ synced \subseteq complete
      /\ next \in [Util -> Gen]
      /\ pc \in {"idle", "created", "written", "synced", "down", "loading"}
      /\ util \in Util
      /\ saves \in 0 .. MaxSaves
      /\ mem \in 0 .. MaxSaves
      /\ refs \subseteq Snapshot
      /\ held \in [{0} \cup Id -> SUBSET Snapshot]
      /\ gaps \in [Util -> SUBSET Gap]
      /\ promised \in [Util -> 0 .. MaxSaves]
      /\ snaps \subseteq Snapshot
<1>1. DirType' /\ Rest' => TypeOK'
  BY DEF TypeOK, DirType
<1>2. Rest /\ {"state", "refs"} \subseteq Util /\ saves \in Nat
  BY DEF TypeOK, Util
<1>3. \A u \in Util : next[u] \in 0 .. MaxSaves
  BY DEF TypeOK, Gen
<1>4. ASSUME NEW u \in Util, Create(u) PROVE saves' \in Id /\ saves' \in 0 .. MaxSaves /\ util' \in Util
                                            /\ pc' \in {"idle", "created"}
  BY <1>4, CreateSaves DEF Id
<1>5. ASSUME Gone PROVE /\ pc' = "down" /\ util' \in Util /\ next' \in [Util -> Gen]
                        /\ mem' \in 0 .. MaxSaves /\ refs' \subseteq Snapshot
  BY <1>5 DEF Gone, Util, Gen
<1>6. CASE Commit
  BY <1>1, <1>2, <1>4, <1>6, DirStep DEF Commit, Create
<1>7. CASE IncRefLastCommitGen
  <2>1. Create("refs") /\ UNCHANGED <<complete, synced, next, gaps, promised, mem, snaps>>
    BY <1>7 DEF IncRefLastCommitGen, Create
  <2>2. [k |-> saves', gen |-> next["state"] - 1, id |-> dir["state"][next["state"] - 1]] \in Snapshot
    <3>1. next["state"] # 0 /\ Loaded("state")
      BY <1>7, <2>1 DEF IncRefLastCommitGen, Loaded, Create
    <3>2. next["state"] - 1 \in Files("state")
      BY <1>2, <3>1 DEF FileInv
    <3>3. dir["state"][next["state"] - 1] \in Id /\ next["state"] - 1 \in Gen
      BY <1>2, <3>2, FilesTyped
    <3>4. saves' \in Id
      BY <1>2, <1>4, <2>1
    <3> QED BY <3>3, <3>4 DEF Snapshot
  <2>3. refs' \subseteq Snapshot
    BY <1>2, <1>7, <2>2 DEF IncRefLastCommitGen
  <2>4. held' \in [{0} \cup Id -> SUBSET Snapshot]
    BY <1>2, <1>7, <2>3 DEF IncRefLastCommitGen
  <2> QED BY <1>1, <1>2, <1>4, <2>1, <2>3, <2>4, DirStep
<1>8. CASE DecRef
  <2>1. Create("refs") /\ UNCHANGED <<complete, synced, next, gaps, promised, mem>>
    BY <1>8 DEF DecRef, Create
  <2>2. refs' \subseteq Snapshot /\ snaps' \subseteq Snapshot
    BY <1>2, <1>8 DEF DecRef
  <2>3. held' \in [{0} \cup Id -> SUBSET Snapshot]
    BY <1>2, <1>8, <2>2 DEF DecRef
  <2> QED BY <1>1, <1>2, <1>4, <2>1, <2>2, <2>3, DirStep
<1>9. CASE Write
  <2>1. saves \in Id
    <3>1. next[util] \in Files(util) /\ dir[util][next[util]] = saves
      BY <1>9 DEF Write, FileInv, Saving
    <3> QED BY <1>2, <3>1, FilesTyped
  <2> QED BY <1>1, <1>2, <1>9, <2>1, DirStep DEF Write, ghosts
<1>10. CASE WriteFails \/ Sync \/ DeleteFails
  <2>1. pc' \in {"idle", "synced"} /\ synced' \subseteq complete /\ complete' = complete
        /\ UNCHANGED <<next, util, mem, refs, saves, ghosts>>
    BY <1>2, <1>10 DEF WriteFails, Sync, DeleteFails, FileInv, files
  <2> QED BY <1>1, <1>2, <2>1, DirStep DEF ghosts
<1>11. CASE DeleteOld
  <2>1. next[util] < saves
    <3>1. next[util] \in Files(util) /\ Entry(util, next[util], dir[util][next[util]])
      BY <1>11 DEF DeleteOld, FileInv, Saving, Entry
    <3> QED BY <1>2, <3>1, FilesTyped DEF FileInv
  <2>2. next' \in [Util -> Gen]
    BY <1>2, <1>3, <1>11, <2>1 DEF DeleteOld, Gen
  <2>3. /\ gaps' \in [Util -> SUBSET Gap] /\ promised' \in [Util -> 0 .. MaxSaves]
        /\ snaps' \subseteq Snapshot
    BY <1>2, <1>11 DEF DeleteOld
  <2> QED BY <1>1, <1>2, <1>11, <2>2, <2>3, DirStep DEF DeleteOld
<1>12. CASE Flush
  BY <1>1, <1>2, <1>12, DirStep DEF Flush, memory, ghosts
<1>13. CASE Stop
  BY <1>1, <1>2, <1>5, <1>13, DirStep DEF Stop, files, ghosts
<1>14. CASE Crash
  <2>1. Gone /\ UNCHANGED <<synced, saves, held, gaps>>
    BY <1>14 DEF Crash
  <2>2. complete' \subseteq Id /\ synced' \subseteq complete'
    BY <1>2, <1>14 DEF Crash
  <2>3. promised' \in [Util -> 0 .. MaxSaves] /\ snaps' \subseteq Snapshot
    BY <1>2, <1>14 DEF Crash
  <2> QED BY <1>1, <1>2, <1>5, <2>1, <2>2, <2>3, DirStep
<1>15. ASSUME NEW u \in Util, Forget(u)
       PROVE  promised' \in [Util -> 0 .. MaxSaves] /\ snaps' \subseteq Snapshot
  BY <1>2, <1>15 DEF Forget
<1>16. ASSUME NEW u \in Util, Read(u)
       PROVE  /\ promised' \in [Util -> 0 .. MaxSaves] /\ snaps' \subseteq Snapshot
              /\ gaps' \in [Util -> SUBSET Gap] /\ next' \in [Util -> Gen]
  <2>1. gaps' \in [Util -> SUBSET Gap]
    BY <1>2, <1>16 DEF Read, Gap
  <2> QED BY <1>2, <1>15, <1>16, <2>1, ReadNext DEF Read
<1>17. ASSUME NEW u \in Util, ListFails(u)
       PROVE  /\ promised' \in [Util -> 0 .. MaxSaves] /\ snaps' \subseteq Snapshot
              /\ gaps' \in [Util -> SUBSET Gap] /\ next' \in [Util -> Gen]
  <2>1. gaps' \in [Util -> SUBSET Gap] /\ next' \in [Util -> Gen]
    BY <1>2, <1>17 DEF ListFails, Gap, Gen
  <2> QED BY <1>15, <1>17, <2>1 DEF ListFails
<1>18. CASE LoadRefs
  <2>1. refs' \subseteq Snapshot
    BY <1>2, <1>18, FoundTyped DEF LoadRefs
  <2> QED BY <1>1, <1>2, <1>16, <1>17, <1>18, <2>1, DirStep DEF LoadRefs
<1>19. CASE LoadState
  <2>1. mem' \in 0 .. MaxSaves
    BY <1>2, <1>19, FoundTyped DEF LoadState, Id
  <2> QED BY <1>1, <1>2, <1>16, <1>17, <1>19, <2>1, DirStep DEF LoadState
<1>20. ASSUME NEW u \in Util, LoadThrows(u) PROVE TypeOK'
  <2>1. Gone /\ UNCHANGED <<disk, complete, synced, saves, held, promised, snaps>>
    BY <1>20 DEF LoadThrows
  <2>2. gaps' \in [Util -> SUBSET Gap]
    BY <1>2, <1>20 DEF LoadThrows, Gap
  <2> QED BY <1>1, <1>2, <1>5, <2>1, <2>2, DirStep
<1>21. CASE UNCHANGED vars
  BY <1>1, <1>2, <1>21, DirStep DEF vars, files, memory, ghosts
<1> QED BY <1>1, <1>2, <1>4, <1>6, <1>7, <1>8, <1>9, <1>10, <1>11, <1>12, <1>13, <1>14, <1>18, <1>19,
           <1>20, <1>21, DirStep DEF Next

-----------------------------------------------------------------------------
(* Files. *)

(* What a stop, a crash and a failed start have in common. *)
LEMMA GoneIs ==
  ASSUME Gone
  PROVE  /\ \A u \in Util : ~ Loaded(u)' /\ next'[u] = 0
         /\ pc' = "down" /\ util' = "state" /\ refs' = {} /\ mem' = 0
BY DEF Gone, Loaded

(* Where the files are is kept. *)
LEMMA FileStep == ASSUME TypeOK, FileInv, [Next]_vars PROVE FileInv'
<1> USE DEF Saving
<1> DEFINE Bounded == \A u \in Util : \A g \in Gen, x \in Id : Entry(u, g, x) => g < saves /\ x <= saves
           Places == \A u \in Util :
                       /\ next[u] <= saves /\ promised[u] <= saves
                       /\ Loaded(u) /\ next[u] # 0 => next[u] - 1 \in Files(u)
           Saves == /\ pc \in Saving => /\ next[util] \in Files(util) /\ dir[util][next[util]] = saves
                                        /\ util = "state" => mem = saves
                    /\ pc = "written" => saves \in complete
                    /\ pc = "synced" => saves \in synced
<1>0. /\ Bounded /\ Places /\ Saves
      /\ saves \in Nat /\ \A u \in Util : next[u] \in Nat /\ promised[u] \in Nat
      /\ util \in Util /\ "state" \in Util /\ "refs" \in Util /\ DOMAIN dir = Util /\ DOMAIN disk = Util
      /\ Gen \subseteq Nat /\ Id \subseteq Nat /\ \A u \in Util : Files(u) \subseteq Gen
  BY GenFileAssumption, FilesTyped DEF FileInv, TypeOK, Util, Gen, Id
<1>a. ASSUME Bounded', Places', Saves' PROVE FileInv'
  BY <1>a DEF FileInv
<1>b. ASSUME Keeps, saves' = saves PROVE Bounded'
  BY <1>0, <1>b DEF Keeps
<1>c. ASSUME Gone, saves' = saves, promised' = promised PROVE Places' /\ Saves'
  BY <1>0, <1>c, GoneIs
<1> HIDE DEF Bounded, Places, Saves
<1>1. ASSUME NEW u \in Util, Create(u), u = "state" => mem' = saves' PROVE FileInv'
  <2>1. /\ saves' = saves + 1 /\ util' = u /\ next' = next /\ promised' = promised /\ pc = "idle"
        /\ next[u] \in Gen /\ next[u] < saves'
    BY <1>1, CreateSaves DEF Create
  <2>2. Bounded'
    <3> SUFFICES ASSUME NEW v \in Util, NEW g \in Gen, NEW x \in Id, Entry(v, g, x)'
                 PROVE  g < saves' /\ x <= saves'
      BY DEF Bounded
    <3>1. Entry(v, g, x) \/ (g = next[u] /\ x = saves')
      BY <1>0, <1>1, CreateEntries
    <3> QED BY <1>0, <2>1, <3>1 DEF Bounded
  <2>3. Places'
    <3> SUFFICES ASSUME NEW v \in Util
                 PROVE  /\ next'[v] <= saves' /\ promised'[v] <= saves'
                        /\ next'[v] # 0 => next'[v] - 1 \in Files(v)'
      BY DEF Places
    <3>1. next[v] # 0 => next[v] - 1 \in Files(v)
      BY <1>0, <2>1 DEF Places, Loaded
    <3>2. \A g \in Files(v) : g \in Files(v)'
      BY <1>0, <1>1, CreateIs DEF Files
    <3> QED BY <1>0, <2>1, <3>1, <3>2 DEF Places
  <2>4. Saves'
    <3>1. CASE pc' = "idle"
      BY <3>1 DEF Saves
    <3>2. CASE /\ pc' = "created" /\ next[u] \notin Files(u)
               /\ Files(u)' = Files(u) \cup {next[u]} /\ dir'[u][next[u]] = saves'
      BY <1>1, <2>1, <3>2 DEF Saves
    <3> QED BY <1>0, <1>1, <3>1, <3>2, CreateIs
  <2> QED BY <1>a, <2>2, <2>3, <2>4
<1>2. CASE Commit \/ IncRefLastCommitGen \/ DecRef
  BY <1>0, <1>1, <1>2 DEF Commit, IncRefLastCommitGen, DecRef
<1>3. CASE Keeps /\ (Write \/ Sync \/ DeleteFails \/ Flush \/ UNCHANGED vars)
  <2>1. /\ UNCHANGED <<saves, next, promised, dir, util, mem>>
        /\ pc' = pc \/ (pc \in Saving /\ pc' \in {"idle", "written", "synced"})
    BY <1>3 DEF Write, Sync, DeleteFails, Flush, vars, files, memory, ghosts
  <2>2. Places'
    BY <1>0, <2>1 DEF Places, Loaded, Files
  <2>3. Saves'
    <3>1. CASE Write
      BY <1>0, <2>1, <3>1 DEF Write, Saves, Files
    <3>2. CASE Sync
      BY <1>0, <2>1, <3>2 DEF Sync, Saves, Files
    <3>3. CASE DeleteFails
      BY <3>3 DEF DeleteFails, Saves
    <3>4. CASE Flush \/ UNCHANGED vars
      BY <1>0, <2>1, <3>4 DEF Flush, vars, files, memory, Saves, Files
    <3> QED BY <1>3, <3>1, <3>2, <3>3, <3>4
  <2> QED BY <1>3, <1>a, <1>b, <2>1, <2>2, <2>3
<1>4. CASE Keeps /\ WriteFails
  <2>1. pc = "created" /\ pc' = "idle" /\ UNCHANGED <<saves, next, promised, util>>
    BY <1>4 DEF WriteFails, ghosts
  <2>2. Places'
    <3> SUFFICES ASSUME NEW v \in Util, next[v] # 0 PROVE next[v] - 1 \in Files(v)'
      BY <1>0, <2>1 DEF Places
    <3>1. next[v] - 1 \in Files(v) /\ next[v] - 1 # next[v]
      BY <1>0, <2>1 DEF Places, Loaded
    <3>2. CASE dir' = dir
      BY <3>1, <3>2 DEF Files
    <3>3. CASE Delete(util, {next[util]}) /\ v = util
      BY <1>0, <3>1, <3>3, DeleteIs
    <3>4. CASE Delete(util, {next[util]}) /\ v # util
      BY <1>0, <3>1, <3>4, DeleteIs DEF Files
    <3> QED BY <1>4, <3>2, <3>3, <3>4 DEF WriteFails
  <2>3. Saves'
    BY <2>1 DEF Saves
  <2> QED BY <1>4, <1>a, <1>b, <2>1, <2>2, <2>3
<1>5. CASE Keeps /\ DeleteOld
  <2>1. /\ pc = "synced" /\ pc' = "idle" /\ saves' = saves
        /\ next' = [next EXCEPT ![util] = @ + 1]
        /\ promised' = promised \/ promised' = [promised EXCEPT ![util] = saves]
    BY <1>5 DEF DeleteOld
  <2>2. PICK S \in SUBSET {next[util] - 1} : Delete(util, S)
    BY <1>5 DEF DeleteOld
  <2>3. next[util] \in Files(util) /\ next[util] < saves
    <3>1. next[util] \in Files(util) /\ dir[util][next[util]] = saves
      BY <2>1 DEF FileInv
    <3>2. Entry(util, next[util], saves) /\ next[util] \in Gen /\ saves \in Id
      BY <1>0, <3>1, FilesTyped DEF Entry
    <3> QED BY <1>0, <3>1, <3>2 DEF Bounded
  <2>4. Places'
    <3> SUFFICES ASSUME NEW v \in Util
                 PROVE  /\ next'[v] <= saves' /\ promised'[v] <= saves'
                        /\ next'[v] # 0 => next'[v] - 1 \in Files(v)'
      BY DEF Places
    <3>1. promised'[v] <= saves'
      BY <1>0, <2>1 DEF Places, TypeOK
    <3>2. CASE v = util
      <4>1. next'[v] = next[v] + 1 /\ next'[v] - 1 = next[v]
        BY <1>0, <2>1, <3>2 DEF TypeOK
      <4>2. next[v] \in Files(v)'
        <5>1. Files(v)' = Files(v) \ S /\ next[v] # next[v] - 1
          BY <1>0, <2>2, <3>2, DeleteIs
        <5> QED BY <2>3, <3>2, <5>1
      <4> QED BY <1>0, <2>1, <2>3, <3>1, <3>2, <4>1, <4>2
    <3>3. CASE v # util
      <4>1. next'[v] = next[v] /\ dir'[v] = dir[v]
        BY <1>0, <2>1, <2>2, <3>3, DeleteIs DEF TypeOK
      <4> QED BY <1>0, <2>1, <3>1, <4>1 DEF Places, Loaded, Files
    <3> QED BY <3>2, <3>3
  <2>5. Saves'
    BY <2>1 DEF Saves
  <2> QED BY <1>5, <1>a, <1>b, <2>1, <2>4, <2>5
<1>6. CASE Keeps /\ Stop
  <2>1. Gone /\ saves' = saves /\ promised' = promised
    BY <1>6 DEF Stop, ghosts
  <2> QED BY <1>6, <1>a, <1>b, <1>c, <2>1
<1>7. CASE Keeps /\ Crash
  <2>1. Gone /\ saves' = saves /\ \A u \in Util : promised'[u] \in {0, promised[u]}
    BY <1>7 DEF Crash
  <2>2. Places' /\ Saves'
    BY <1>0, <2>1, GoneIs DEF Places, Saves
  <2> QED BY <1>7, <1>a, <1>b, <2>1, <2>2
<1>8. ASSUME Keeps, NEW u \in Util, LoadThrows(u) PROVE FileInv'
  <2>1. Gone /\ saves' = saves /\ promised' = promised
    BY <1>8 DEF LoadThrows
  <2> QED BY <1>8, <1>a, <1>b, <1>c, <2>1
<1>9. ASSUME Keeps, NEW u \in Util, Read(u) \/ ListFails(u), saves' = saves, pc' \notin Saving,
             \A v \in Util : v # u /\ Loaded(v)' => Loaded(v)
      PROVE  FileInv'
  <2>1. \A v \in Util : promised'[v] \in {0, promised[v]}
    BY <1>9 DEF Read, ListFails, Forget, TypeOK
  <2>2. CASE Read(u)
    <3>1. Delete(u, Stale(u))
      BY <2>2 DEF Read
    <3>2. /\ next'[u] <= saves /\ \A v \in Util : v # u => next'[v] = next[v]
          /\ Files(u) = {} => next'[u] = 0
          /\ Files(u) # {} => next'[u] = Newest(u) + 1
      BY <2>2, ReadNext
    <3>3. next'[u] # 0 => next'[u] - 1 \in Files(u)'
      <4> SUFFICES ASSUME Files(u) # {} PROVE next'[u] - 1 \in Files(u)'
        BY <3>2
      <4>1. Newest(u) \in Files(u) /\ Newest(u) \notin Stale(u) /\ Newest(u) \in Nat
        BY NewestIs
      <4>2. Newest(u) \in Files(u)'
        BY <1>0, <3>1, <4>1, DeleteIs
      <4> QED BY <3>2, <4>1, <4>2
    <3>4. \A v \in Util : v # u => dir'[v] = dir[v]
      BY <1>0, <3>1, DeleteIs
    <3>5. Places'
      <4> SUFFICES ASSUME NEW v \in Util
                   PROVE  /\ next'[v] <= saves' /\ promised'[v] <= saves'
                          /\ Loaded(v)' /\ next'[v] # 0 => next'[v] - 1 \in Files(v)'
        BY DEF Places
      <4>1. CASE v = u
        BY <1>0, <1>9, <2>1, <3>2, <3>3, <4>1 DEF Places
      <4>2. CASE v # u
        BY <1>0, <1>9, <2>1, <3>2, <3>4, <4>2 DEF Places, Files
      <4> QED BY <4>1, <4>2
    <3> QED BY <1>9, <1>a, <1>b, <3>5 DEF Saves
  <2>3. CASE ListFails(u)
    <3>1. dir' = dir /\ next'[u] = 0 /\ \A v \in Util : v # u => next'[v] = next[v]
      BY <2>3 DEF ListFails, TypeOK
    <3>2. Places'
      BY <1>0, <1>9, <2>1, <3>1 DEF Places, Files
    <3> QED BY <1>9, <1>a, <1>b, <3>2 DEF Saves
  <2> QED BY <1>9, <2>2, <2>3
<1>10. CASE Keeps /\ LoadRefs
  <2>1. /\ pc' = "loading" /\ saves' = saves /\ (Read("refs") \/ ListFails("refs"))
        /\ \A v \in Util : v # "refs" => ~ Loaded(v)'
    BY <1>10 DEF LoadRefs, Loaded
  <2> QED BY <1>0, <1>9, <1>10, <2>1
<1>11. CASE Keeps /\ LoadState
  <2>1. /\ pc' = "idle" /\ saves' = saves /\ (Read("state") \/ ListFails("state"))
        /\ \A v \in Util : v # "state" => Loaded(v)
    BY <1>11 DEF LoadState, Loaded, Util
  <2> QED BY <1>0, <1>9, <1>11, <2>1
<1> QED BY <1>2, <1>3, <1>4, <1>5, <1>6, <1>7, <1>8, <1>10, <1>11, StepKeeps DEF Next

-----------------------------------------------------------------------------
(* The order of the generations. *)

(* A directory that could not be listed stays one. *)
LEMMA ListingStays ==
  ASSUME TypeOK, [Next]_vars, NEW u \in Util, "listing" \notin gaps'[u]
  PROVE  "listing" \notin gaps[u] /\ ~ ListFails(u)
<1>0. gaps \in [Util -> SUBSET Gap] /\ util \in Util
  BY DEF TypeOK
<1>1. ASSUME NEW v \in Util, Read(v) PROVE "listing" \in gaps[u] => "listing" \in gaps'[u]
  BY <1>0, <1>1 DEF Read
<1>2. ASSUME NEW v \in Util, ListFails(v)
      PROVE  /\ "listing" \in gaps[u] => "listing" \in gaps'[u]
             /\ v = u => "listing" \in gaps'[u]
  BY <1>0, <1>2 DEF ListFails
<1>3. ASSUME NEW v \in Util, LoadThrows(v) PROVE "listing" \in gaps[u] => "listing" \in gaps'[u]
  BY <1>0, <1>3 DEF LoadThrows
<1>4. CASE gaps' = gaps
  BY <1>2, <1>4
<1>5. CASE DeleteOld
  BY <1>0, <1>2, <1>5 DEF DeleteOld
<1>6. CASE LoadRefs \/ LoadState
  BY <1>1, <1>2, <1>6 DEF LoadRefs, LoadState, Util
<1>7. CASE gaps' # gaps /\ ~ DeleteOld /\ ~ LoadRefs /\ ~ LoadState
  <2>1. \E v \in Util : LoadThrows(v)
    BY <1>7 DEF Next, Commit, IncRefLastCommitGen, DecRef, Create, Write, WriteFails, Sync,
                DeleteFails, Flush, Stop, Crash, vars, ghosts
  <2> QED BY <1>2, <1>3, <2>1
<1> QED BY <1>4, <1>5, <1>6, <1>7

\* The second part of OrderInv, of one generation.
Within(u, g) == IF Loaded(u) THEN g <= next[u] ELSE g = 0 \/ \E h \in Files(u) : g <= h + 1

(* At the end of the server generations stay bounded by files that are there. *)
LEMMA WithinGone ==
  ASSUME TypeOK, FileInv, NEW u \in Util, NEW g \in Gen, Within(u, g), Gone,
         \/ dir'[u] = dir[u]
         \/ ~ Loaded(u) /\ \E S \in SUBSET Stale(u) : Delete(u, S)
  PROVE  Within(u, g)'
<1>0. /\ DOMAIN dir = Util /\ Files(u) \subseteq Nat /\ next[u] \in Nat /\ g \in Nat
      /\ ~ Loaded(u)'
  BY FilesTyped, GoneIs DEF TypeOK, Gen
<1>1. CASE g = 0
  BY <1>0, <1>1 DEF Within
<1>2. CASE g # 0 /\ Loaded(u)
  <2>1. next[u] - 1 \in Files(u)
    BY <1>0, <1>2 DEF FileInv, Within
  <2>2. next[u] - 1 \in Files(u)'
    BY <1>2, <2>1 DEF Files
  <2> QED BY <1>0, <1>2, <2>2 DEF Within
<1>3. CASE g # 0 /\ ~ Loaded(u)
  <2>1. PICK h \in Files(u) : g <= h + 1
    BY <1>3 DEF Within
  <2>2. /\ Newest(u) \in Files(u) /\ h <= Newest(u) /\ Newest(u) \in Nat /\ Newest(u) \notin Stale(u)
    BY <2>1, NewestIs
  <2>3. Newest(u) \in Files(u)'
    <3>1. CASE dir'[u] = dir[u]
      BY <2>2, <3>1 DEF Files
    <3>2. ASSUME NEW S \in SUBSET Stale(u), Delete(u, S) PROVE Newest(u) \in Files(u)'
      BY <1>0, <2>2, <3>2, DeleteIs
    <3> QED BY <1>3, <3>1, <3>2
  <2> QED BY <1>0, <2>1, <2>2, <2>3 DEF Within
<1> QED BY <1>1, <1>2, <1>3

(* A start leaves no generation above the next one. *)
LEMMA WithinRead ==
  ASSUME TypeOK, FileInv, NEW u \in Util, NEW g \in Gen, Within(u, g), ~ Loaded(u), Read(u)
  PROVE  g <= next'[u]
<1>0. Files(u) \subseteq Nat /\ g \in Nat /\ next'[u] \in Nat
  <2>1. Gen \subseteq Nat /\ Files(u) \subseteq Gen
    BY FilesTyped
  <2>2. next'[u] \in Gen
    BY ReadNext
  <2> QED BY <2>1, <2>2
<1>1. CASE g = 0
  BY <1>0, <1>1
<1>2. CASE g # 0
  <2>1. PICK h \in Files(u) : g <= h + 1
    BY <1>2 DEF Within
  <2>2. h <= Newest(u) /\ Newest(u) \in Nat /\ next'[u] = Newest(u) + 1
    BY <2>1, NewestIs, ReadNext
  <2> QED BY <1>0, <2>1, <2>2
<1> QED BY <1>1, <1>2

(* The order of the generations is kept. *)
LEMMA OrderStep == ASSUME TypeOK, FileInv, OrderInv, [Next]_vars PROVE OrderInv'
<1> SUFFICES ASSUME NEW u \in Util, "listing" \notin gaps'[u]
             PROVE  /\ \A g, h \in Gen, x, y \in Id : (Entry(u, g, x))' /\ (Entry(u, h, y))' /\ g < h => x < y
                    /\ \A g \in Gen, x \in Id : (Entry(u, g, x))' => Within(u, g)'
  BY DEF OrderInv, Within
<1>0. /\ DOMAIN dir = Util /\ DOMAIN disk = Util /\ util \in Util /\ "state" \in Util /\ "refs" \in Util
      /\ Gen \subseteq Nat /\ Id \subseteq Nat /\ next[u] \in Nat /\ saves \in Nat
  BY GenFileAssumption DEF TypeOK, Util, Gen, Id
<1>1. /\ \A g, h \in Gen, x, y \in Id : Entry(u, g, x) /\ Entry(u, h, y) /\ g < h => x < y
      /\ \A g \in Gen, x \in Id : Entry(u, g, x) => Within(u, g)
      /\ ~ ListFails(u)
  BY ListingStays DEF OrderInv, Within
<1>2. ASSUME NEW v \in Util, Create(v)
      PROVE  /\ \A g, h \in Gen, x, y \in Id : (Entry(u, g, x))' /\ (Entry(u, h, y))' /\ g < h => x < y
             /\ \A g \in Gen, x \in Id : (Entry(u, g, x))' => Within(u, g)'
  <2>1. /\ pc = "idle" /\ pc' \in {"idle", "created"} /\ next' = next /\ saves' = saves + 1
        /\ Loaded(u) /\ Loaded(u)'
    BY <1>2, CreateSaves DEF Create, Loaded
  <2>2. \A g \in Gen, x \in Id : (Entry(u, g, x))' =>
          Entry(u, g, x) \/ (v = u /\ g = next[u] /\ x = saves')
    BY <1>0, <1>2, CreateEntries
  <2>3. \A g \in Gen, x \in Id : Entry(u, g, x) => g <= next[u] /\ x <= saves
    BY <1>1, <2>1 DEF Within, FileInv
  <2>4. ASSUME NEW g \in Gen, NEW x \in Id, (Entry(u, g, x))' PROVE Within(u, g)'
    BY <1>0, <2>1, <2>2, <2>3, <2>4 DEF Within
  <2>5. ASSUME NEW g \in Gen, NEW h \in Gen, NEW x \in Id, NEW y \in Id,
               (Entry(u, g, x))', (Entry(u, h, y))', g < h
        PROVE  x < y
    <3>1. CASE Entry(u, g, x) /\ Entry(u, h, y)
      BY <1>1, <2>5, <3>1
    <3>2. CASE ~ Entry(u, g, x)
      <4>1. g = next[u] /\ h # g
        BY <1>0, <2>2, <2>5, <3>2
      <4>2. Entry(u, h, y)
        BY <2>2, <2>5, <4>1
      <4> QED BY <1>0, <2>3, <2>5, <4>1, <4>2
    <3>3. CASE Entry(u, g, x) /\ ~ Entry(u, h, y)
      <4>1. x <= saves /\ y = saves + 1
        BY <2>1, <2>2, <2>3, <2>5, <3>3
      <4> QED BY <1>0, <4>1
    <3> QED BY <3>1, <3>2, <3>3
  <2> QED BY <2>4, <2>5
<1>3. ASSUME Keeps, \A g \in Gen : Within(u, g) => Within(u, g)'
      PROVE  /\ \A g, h \in Gen, x, y \in Id : (Entry(u, g, x))' /\ (Entry(u, h, y))' /\ g < h => x < y
             /\ \A g \in Gen, x \in Id : (Entry(u, g, x))' => Within(u, g)'
  <2>1. \A g, x : (Entry(u, g, x))' => Entry(u, g, x)
    BY <1>3 DEF Keeps
  <2> QED BY <1>1, <1>3, <2>1
<1>4. CASE Keeps /\ (Write \/ WriteFails \/ Sync \/ DeleteFails)
  <2>1. next' = next /\ Loaded(u) /\ Loaded(u)'
    BY <1>4 DEF Write, WriteFails, Sync, DeleteFails, Loaded
  <2> QED BY <1>3, <1>4, <2>1 DEF Within
<1>5. CASE Keeps /\ DeleteOld
  <2>1. (next'[u] = next[u] \/ next'[u] = next[u] + 1) /\ Loaded(u) /\ Loaded(u)'
    BY <1>0, <1>5 DEF DeleteOld, Loaded, TypeOK
  <2> QED BY <1>0, <1>3, <1>5, <2>1 DEF Within
<1>6. CASE Keeps /\ (Flush \/ UNCHANGED vars)
  <2>1. UNCHANGED <<dir, pc, next>>
    BY <1>6 DEF Flush, vars, files, memory
  <2> QED BY <1>3, <1>6, <2>1 DEF Within, Loaded, Files
<1>7. CASE Keeps /\ Stop
  <2>1. Gone /\ dir' = dir
    BY <1>7 DEF Stop, files
  <2> QED BY <1>3, <1>7, <2>1, WithinGone
<1>8. CASE Keeps /\ Crash
  <2>1. dir' = disk /\ disk' = disk /\ Gone
    BY <1>8 DEF Crash
  <2>2. ASSUME NEW g \in Gen, NEW x \in Id, (Entry(u, g, x))' PROVE Within(u, g)'
    <3>1. g \in Files(u)'
      BY <2>1, <2>2 DEF Entry, Files
    <3>2. g <= g + 1 /\ ~ Loaded(u)'
      BY <1>0, <2>1, GoneIs
    <3> QED BY <3>1, <3>2 DEF Within
  <2>3. \A g, x : (Entry(u, g, x))' => Entry(u, g, x)
    BY <1>8 DEF Keeps
  <2> QED BY <1>1, <2>2, <2>3
<1>9. ASSUME Keeps, NEW v \in Util, LoadThrows(v)
      PROVE  \A g \in Gen : Within(u, g) => Within(u, g)'
  <2>1. Gone /\ (pc = "down" \/ (pc = "loading" /\ v = "state"))
    BY <1>9 DEF LoadThrows, Util
  <2>2. PICK S \in SUBSET Stale(v) : Delete(v, S)
    BY <1>9 DEF LoadThrows
  <2>3. CASE v = u
    <3>1. ~ Loaded(u)
      BY <2>1, <2>3 DEF Loaded
    <3> QED BY <2>1, <2>2, <2>3, <3>1, WithinGone
  <2>4. CASE v # u
    <3>1. dir'[u] = dir[u]
      BY <1>0, <2>2, <2>4, DeleteIs
    <3> QED BY <2>1, <3>1, WithinGone
  <2> QED BY <2>3, <2>4
<1>10. ASSUME Keeps, NEW v \in Util, Read(v) \/ ListFails(v), ~ Loaded(v), Loaded(v)',
              \A w \in Util : w # v => Loaded(w)' = Loaded(w)
       PROVE  \A g \in Gen : Within(u, g) => Within(u, g)'
  <2>1. CASE v = u
    <3>1. Read(u)
      BY <1>1, <1>10, <2>1
    <3> QED BY <1>10, <2>1, <3>1, WithinRead DEF Within
  <2>2. CASE v # u
    <3>1. next'[u] = next[u] /\ dir'[u] = dir[u]
      <4>1. CASE Read(v)
        BY <1>0, <2>2, <4>1, ReadNext, DeleteIs DEF Read
      <4>2. CASE ListFails(v)
        BY <2>2, <4>2 DEF ListFails, TypeOK
      <4> QED BY <1>10, <4>1, <4>2
    <3>2. Loaded(u)' = Loaded(u)
      BY <1>10, <2>2
    <3> QED BY <3>1, <3>2 DEF Within, Files
  <2> QED BY <2>1, <2>2
<1>11. CASE Keeps /\ LoadRefs
  <2>1. (Read("refs") \/ ListFails("refs")) /\ pc = "down" /\ pc' = "loading"
    BY <1>11 DEF LoadRefs
  <2>2. ~ Loaded("refs") /\ Loaded("refs")' /\ \A w \in Util : w # "refs" => Loaded(w)' = Loaded(w)
    BY <2>1 DEF Loaded
  <2> QED BY <1>0, <1>3, <1>10, <1>11, <2>1, <2>2
<1>12. CASE Keeps /\ LoadState
  <2>1. (Read("state") \/ ListFails("state")) /\ pc = "loading" /\ pc' = "idle"
    BY <1>12 DEF LoadState
  <2>2. ~ Loaded("state") /\ Loaded("state")' /\ \A w \in Util : w # "state" => Loaded(w)' = Loaded(w)
    BY <2>1 DEF Loaded, Util
  <2> QED BY <1>0, <1>3, <1>10, <1>12, <2>1, <2>2
<1> QED BY <1>0, <1>2, <1>3, <1>4, <1>5, <1>6, <1>7, <1>8, <1>9, <1>11, <1>12, StepKeeps
        DEF Next, Commit, IncRefLastCommitGen, DecRef

-----------------------------------------------------------------------------
(* What was promised. *)

\* The second part of PromiseInv, of one directory.
HasPromise(u) ==
  \E g \in Files(u) : /\ Loaded(u) => g = next[u] - 1
                      /\ dir[u][g] >= promised[u]
                      /\ "unsure" \in gaps[u] \/ dir[u][g] \in synced

(* A start that trusts the directory goes on with the newest file. *)
LEMMA PromiseRead ==
  ASSUME TypeOK, FileInv, OrderInv, PromiseInv, NEW u \in Util, ~ Loaded(u), Read(u),
         synced' = synced, promised'[u] # 0
  PROVE  "listing" \notin gaps'[u] /\ HasPromise(u)'
<1>0. /\ DOMAIN dir = Util /\ Files(u) \subseteq Gen /\ Gen \subseteq Nat /\ Id \subseteq Nat
      /\ \A g \in Files(u) : dir[u][g] \in Id
      /\ promised[u] \in Nat /\ gaps \in [Util -> SUBSET Gap]
  BY FilesTyped DEF TypeOK
<1>1. Trusted(u) /\ promised' = promised
  BY DEF Read, Forget, TypeOK
<1>2. PICK g \in Files(u) : dir[u][g] >= promised[u]
  BY <1>1 DEF PromiseInv
<1>3. "listing" \notin gaps[u]
  BY <1>1 DEF PromiseInv
<1>4. /\ Newest(u) \in Files(u) /\ Newest(u) \in Nat /\ g <= Newest(u) /\ Newest(u) \notin Stale(u)
  BY <1>2, NewestIs
<1>5. dir[u][Newest(u)] >= promised[u]
  <2>1. Entry(u, g, dir[u][g]) /\ Entry(u, Newest(u), dir[u][Newest(u)])
    BY <1>4 DEF Entry
  <2>2. g < Newest(u) => dir[u][g] < dir[u][Newest(u)]
    BY <1>0, <1>3, <1>4, <2>1 DEF OrderInv
  <2>3. g \in Nat /\ dir[u][g] \in Nat /\ dir[u][Newest(u)] \in Nat
    BY <1>0, <1>4
  <2>4. CASE g = Newest(u)
    BY <1>2, <2>4
  <2>5. CASE g < Newest(u)
    BY <1>0, <1>2, <2>2, <2>3, <2>5
  <2> QED BY <1>4, <2>3, <2>4, <2>5
<1>6. Newest(u) \in Files(u)' /\ dir'[u][Newest(u)] = dir[u][Newest(u)]
  <2>1. Delete(u, Stale(u))
    BY DEF Read
  <2> QED BY <1>0, <1>4, <2>1, DeleteIs
<1>7. next'[u] - 1 = Newest(u)
  BY <1>4, ReadNext
<1>8. "listing" \notin gaps'[u] /\ ("unsure" \notin gaps'[u] => dir[u][Newest(u)] \in synced)
  <2>1. gaps'[u] = (gaps[u] \cap {"listing"}) \cup (IF Opened(u) = Files(u) THEN {} ELSE {"order"})
                   \cup (IF Sure(u) THEN {} ELSE {"unsure"})
    BY <1>0 DEF Read
  <2> QED BY <1>2, <1>3, <2>1 DEF Sure
<1> QED BY <1>1, <1>5, <1>6, <1>7, <1>8 DEF HasPromise

(* There is always a file of what was promised, or of a later save. *)
LEMMA PromiseStep ==
  ASSUME TypeOK, FileInv, OrderInv, PromiseInv, [Next]_vars
  PROVE  PromiseInv'
<1> SUFFICES ASSUME NEW u \in Util, promised'[u] # 0
             PROVE  "listing" \notin gaps'[u] /\ HasPromise(u)'
  BY DEF PromiseInv, HasPromise
<1>0. /\ DOMAIN dir = Util /\ DOMAIN disk = Util /\ util \in Util /\ "state" \in Util /\ "refs" \in Util
      /\ Files(u) \subseteq Nat /\ next[u] \in Nat /\ saves \in Nat
      /\ gaps \in [Util -> SUBSET Gap] /\ promised \in [Util -> 0 .. MaxSaves]
  BY FilesTyped DEF TypeOK, Util, Gen
<1>1. promised[u] # 0 => "listing" \notin gaps[u] /\ HasPromise(u)
  BY DEF PromiseInv, HasPromise
<1>2. ASSUME promised'[u] = promised[u], gaps'[u] = gaps[u], synced \subseteq synced',
             \A g \in Files(u) : Loaded(u) /\ g = next[u] - 1 => g \in Files(u)' /\ dir'[u][g] = dir[u][g],
             \A g \in Files(u) : ~ Loaded(u) => g \in Files(u)' /\ dir'[u][g] = dir[u][g],
             Loaded(u)' => Loaded(u) /\ next'[u] = next[u]
      PROVE  "listing" \notin gaps'[u] /\ HasPromise(u)'
  <2>1. PICK g \in Files(u) : /\ Loaded(u) => g = next[u] - 1
                              /\ dir[u][g] >= promised[u]
                              /\ "unsure" \in gaps[u] \/ dir[u][g] \in synced
    BY <1>1, <1>2 DEF HasPromise
  <2>2. g \in Files(u)' /\ dir'[u][g] = dir[u][g]
    BY <1>2, <2>1
  <2>3. Loaded(u)' => g = next'[u] - 1
    BY <1>2, <2>1
  <2> QED BY <1>1, <1>2, <2>1, <2>2, <2>3 DEF HasPromise
<1>3. ASSUME NEW v \in Util, Create(v) PROVE "listing" \notin gaps'[u] /\ HasPromise(u)'
  <2>1. UNCHANGED <<promised, gaps, synced, next>> /\ Loaded(u)
    BY <1>3 DEF Create, Loaded
  <2>2. \A g \in Files(u) : g \in Files(u)' /\ dir'[u][g] = dir[u][g]
    BY <1>0, <1>3, CreateIs DEF Files
  <2> QED BY <1>2, <2>1, <2>2
<1>4. CASE Write \/ Sync \/ DeleteFails \/ Flush \/ UNCHANGED vars
  <2>1. UNCHANGED <<dir, promised, gaps, next>> /\ synced \subseteq synced'
    BY <1>4 DEF Write, Sync, DeleteFails, Flush, vars, files, memory, ghosts
  <2>2. Loaded(u)' = Loaded(u)
    BY <1>4 DEF Write, Sync, DeleteFails, Flush, vars, memory, Loaded
  <2> QED BY <1>2, <2>1, <2>2 DEF Files
<1>5. CASE WriteFails
  <2>1. UNCHANGED <<promised, gaps, next, synced>> /\ Loaded(u) /\ Loaded(u)'
    BY <1>5 DEF WriteFails, ghosts, Loaded
  <2>2. ASSUME NEW g \in Files(u), g = next[u] - 1 PROVE g \in Files(u)' /\ dir'[u][g] = dir[u][g]
    <3>1. g # next[u]
      BY <1>0, <2>2
    <3>2. CASE dir' = dir
      BY <3>2 DEF Files
    <3>3. CASE Delete(util, {next[util]}) /\ util = u
      BY <1>0, <3>1, <3>3, DeleteIs
    <3>4. CASE Delete(util, {next[util]}) /\ util # u
      BY <1>0, <3>4, DeleteIs DEF Files
    <3> QED BY <1>5, <3>2, <3>3, <3>4 DEF WriteFails
  <2> QED BY <1>2, <2>1, <2>2
<1>6. CASE DeleteOld
  <2>1. PICK S \in SUBSET {next[util] - 1} : Delete(util, S)
    BY <1>6 DEF DeleteOld
  <2>2. synced' = synced /\ Loaded(u) /\ Loaded(u)'
    BY <1>6 DEF DeleteOld, Loaded
  <2>3. CASE util = u
    <3>1. /\ next'[u] = next[u] + 1 /\ gaps'[u] = gaps[u] \ {"unsure"}
          /\ IF "listing" \in gaps[u] THEN promised' = promised ELSE promised'[u] = saves
      BY <1>0, <1>6, <2>3 DEF DeleteOld, TypeOK
    <3>2. "listing" \notin gaps[u]
      BY <1>1, <3>1
    <3>3. next[u] \in Files(u) /\ dir[u][next[u]] = saves /\ saves \in synced
      BY <1>6, <2>3 DEF DeleteOld, FileInv, Saving
    <3>4. next[u] \in Files(u)' /\ dir'[u][next[u]] = saves
      <4>1. next[u] \notin S
        BY <1>0, <2>3
      <4> QED BY <1>0, <2>1, <2>3, <3>3, <4>1, DeleteIs
    <3>5. next'[u] - 1 = next[u] /\ saves >= promised'[u]
      BY <1>0, <3>1, <3>2
    <3>6. "listing" \notin gaps'[u]
      BY <3>1, <3>2
    <3> QED BY <2>2, <3>3, <3>4, <3>5, <3>6 DEF HasPromise
  <2>4. CASE util # u
    <3>1. dir'[u] = dir[u] /\ next'[u] = next[u] /\ gaps'[u] = gaps[u] /\ promised'[u] = promised[u]
      BY <1>0, <1>6, <2>1, <2>4, DeleteIs DEF DeleteOld, TypeOK
    <3> QED BY <1>2, <2>2, <3>1 DEF Files
  <2> QED BY <2>3, <2>4
<1>7. CASE Stop
  <2>1. UNCHANGED <<dir, promised, gaps, synced>> /\ ~ Loaded(u)'
    BY <1>7, GoneIs DEF Stop, files, ghosts
  <2> QED BY <1>2, <2>1 DEF Files
<1>8. CASE Crash
  <2>1. /\ dir' = disk /\ gaps' = gaps /\ synced' = synced /\ ~ Loaded(u)'
        /\ promised'[u] = IF OnDisk(u) THEN promised[u] ELSE 0
    BY <1>8, GoneIs DEF Crash
  <2>2. promised'[u] = promised[u] /\ OnDisk(u)
    BY <2>1
  <2>3. PICK g \in DOMAIN disk[u] : disk[u][g] \in synced /\ disk[u][g] >= promised[u]
    BY <2>2 DEF OnDisk
  <2> QED BY <1>1, <2>1, <2>2, <2>3 DEF HasPromise, Files
<1>9. ASSUME NEW v \in Util, LoadThrows(v) PROVE "listing" \notin gaps'[u] /\ HasPromise(u)'
  <2>1. Gone /\ (pc = "down" \/ (pc = "loading" /\ v = "state"))
        /\ UNCHANGED <<synced, promised>>
    BY <1>9 DEF LoadThrows, Util
  <2>2. PICK S \in SUBSET Stale(v) :
             /\ Delete(v, S)
             /\ gaps' = [gaps EXCEPT ![v] = IF S = {} \/ Sure(v) THEN @ ELSE @ \cup {"unsure"}]
    BY <1>9 DEF LoadThrows
  <2>3. ~ Loaded(u)'
    BY <2>1, GoneIs
  <2>4. CASE v # u
    <3>1. dir'[u] = dir[u] /\ gaps'[u] = gaps[u]
      BY <1>0, <2>2, <2>4, DeleteIs
    <3> QED BY <1>2, <2>1, <2>3, <3>1 DEF Files
  <2>5. CASE v = u /\ S = {}
    <3>1. gaps'[u] = gaps[u]
      BY <1>0, <2>2, <2>5
    <3>2. \A g \in Files(u) : g \in Files(u)' /\ dir'[u][g] = dir[u][g]
      BY <1>0, <2>2, <2>5, DeleteIs
    <3> QED BY <1>2, <2>1, <2>3, <3>1, <3>2
  <2>6. CASE v = u /\ S # {}
    <3>1. PICK g \in Files(u) : dir[u][g] >= promised[u]
      BY <1>1, <2>1 DEF HasPromise
    <3>2. Newest(u) \in Files(u) /\ Newest(u) \in Nat /\ g <= Newest(u) /\ Newest(u) \notin Stale(u)
      BY <3>1, NewestIs
    <3>3. "listing" \notin gaps[u]
      BY <1>1, <2>1
    <3>4. dir[u][Newest(u)] >= promised[u]
      <4>1. Entry(u, g, dir[u][g]) /\ Entry(u, Newest(u), dir[u][Newest(u)])
        BY <3>2 DEF Entry
      <4>2. g \in Gen /\ Newest(u) \in Gen /\ dir[u][g] \in Id /\ dir[u][Newest(u)] \in Id /\ Id \subseteq Nat
        BY <3>2, FilesTyped
      <4>3. g < Newest(u) => dir[u][g] < dir[u][Newest(u)]
        BY <3>3, <4>1, <4>2 DEF OrderInv
      <4>4. promised[u] \in Nat
        BY <1>0
      <4>5. g \in Nat /\ dir[u][g] \in Nat /\ dir[u][Newest(u)] \in Nat
        BY <1>0, <4>2
      <4>6. CASE g = Newest(u)
        BY <3>1, <4>6
      <4>7. CASE g < Newest(u)
        BY <3>1, <4>3, <4>4, <4>5, <4>7
      <4> QED BY <3>2, <4>5, <4>6, <4>7
    <3>5. Newest(u) \in Files(u)' /\ dir'[u][Newest(u)] = dir[u][Newest(u)]
      BY <1>0, <2>2, <2>6, <3>2, DeleteIs
    <3>6. "listing" \notin gaps'[u] /\ ("unsure" \notin gaps'[u] => dir[u][Newest(u)] \in synced)
      <4>1. gaps'[u] = IF Sure(u) THEN gaps[u] ELSE gaps[u] \cup {"unsure"}
        BY <1>0, <2>2, <2>6
      <4> QED BY <3>1, <3>3, <4>1 DEF Sure
    <3> QED BY <2>1, <2>3, <3>4, <3>5, <3>6 DEF HasPromise
  <2> QED BY <2>4, <2>5, <2>6
<1>10. ASSUME NEW v \in Util, Read(v) \/ ListFails(v), ~ Loaded(v), synced' = synced,
              \A w \in Util : w # v => Loaded(w)' = Loaded(w)
       PROVE  "listing" \notin gaps'[u] /\ HasPromise(u)'
  <2>1. CASE v = u /\ Read(v)
    BY <1>10, <2>1, PromiseRead
  <2>2. CASE v = u /\ ListFails(v)
    BY <1>0, <2>2 DEF ListFails, Forget
  <2>3. CASE v # u
    <3>1. gaps'[u] = gaps[u] /\ promised'[u] = promised[u]
      BY <1>0, <1>10, <2>3 DEF Read, ListFails, Forget
    <3>2. next'[u] = next[u] /\ dir'[u] = dir[u]
      <4>1. CASE Read(v)
        BY <1>0, <2>3, <4>1, ReadNext, DeleteIs DEF Read
      <4>2. CASE ListFails(v)
        BY <2>3, <4>2 DEF ListFails, TypeOK
      <4> QED BY <1>10, <4>1, <4>2
    <3> QED BY <1>2, <1>10, <2>3, <3>1, <3>2 DEF Files
  <2> QED BY <1>10, <2>1, <2>2, <2>3
<1>11. CASE LoadRefs
  <2>1. (Read("refs") \/ ListFails("refs")) /\ pc = "down" /\ pc' = "loading" /\ synced' = synced
    BY <1>11 DEF LoadRefs
  <2>2. ~ Loaded("refs") /\ \A w \in Util : w # "refs" => Loaded(w)' = Loaded(w)
    BY <2>1 DEF Loaded
  <2> QED BY <1>0, <1>10, <2>1, <2>2
<1>12. CASE LoadState
  <2>1. (Read("state") \/ ListFails("state")) /\ pc = "loading" /\ pc' = "idle" /\ synced' = synced
    BY <1>12 DEF LoadState
  <2>2. ~ Loaded("state") /\ \A w \in Util : w # "state" => Loaded(w)' = Loaded(w)
    BY <2>1 DEF Loaded, Util
  <2> QED BY <1>0, <1>10, <2>1, <2>2
<1> QED BY <1>0, <1>3, <1>4, <1>5, <1>6, <1>7, <1>8, <1>9, <1>11, <1>12
        DEF Next, Commit, IncRefLastCommitGen, DecRef

-----------------------------------------------------------------------------
(* Snapshots. *)

(* What is known of snapshots is kept. *)
LEMMA RefStep == ASSUME TypeOK, FileInv, RefInv, [Next]_vars PROVE RefInv'
<1> USE DEF Saving
<1> DEFINE Holds == /\ \A i \in {0} \cup Id : i = 0 \/ i > saves => held[i] = {}
                    /\ \A i \in {0} \cup Id : \A s \in held[i] : s.id < s.k /\ s.k <= saves
           Known == \A s \in refs : \E i \in Id : s \in held[i]
           Writes == pc \in Saving =>
                       IF util = "state" THEN \A s \in refs : s.k < saves
                       ELSE /\ held[saves] = refs
                            /\ \A s \in refs : s.k = saves =>
                                 s.gen \in Files("state") /\ dir["state"][s.gen] = s.id
<1>0. /\ Holds /\ Known /\ Writes /\ refs \subseteq Snapshot /\ held \in [{0} \cup Id -> SUBSET Snapshot]
      /\ saves \in Nat /\ "state" \in Util /\ "refs" \in Util /\ DOMAIN dir = Util
      /\ Id \subseteq Nat \ {0} /\ \A s \in Snapshot : s.id \in Nat /\ s.k \in Nat
  BY GenFileAssumption DEF RefInv, TypeOK, Util, Id, Snapshot
<1>a. Holds' /\ Known' /\ Writes' => RefInv'
  BY DEF RefInv
<1>b. \A s \in refs : s.id < s.k /\ s.k <= saves
  BY <1>0
<1>c. ASSUME held' = held, saves' = saves PROVE Holds'
  BY <1>0, <1>c
<1> HIDE DEF Holds, Known, Writes
<1>1. CASE Commit
  <2>1. /\ saves' = saves + 1 /\ util' = "state" /\ UNCHANGED <<refs, held>>
    BY <1>0, <1>1, CreateSaves DEF Commit
  <2>2. Holds'
    BY <1>0, <2>1 DEF Holds
  <2>3. Known'
    BY <1>0, <2>1 DEF Known
  <2>4. Writes'
    BY <1>0, <1>b, <2>1 DEF Writes
  <2> QED BY <1>a, <2>2, <2>3, <2>4
<1>2. ASSUME Create("refs"), held' = [held EXCEPT ![saves'] = refs'],
             \A s \in refs' : /\ s.id \in Nat /\ s.k \in Nat /\ s.id < s.k /\ s.k <= saves'
                              /\ s.k = saves' => s.gen \in Files("state") /\ dir["state"][s.gen] = s.id
      PROVE  RefInv'
  <2>1. /\ saves' = saves + 1 /\ saves' \in Id /\ util' = "refs"
        /\ dir'["state"] = dir["state"]
    BY <1>0, <1>2, CreateSaves, CreateIs
  <2>2. \A i \in {0} \cup Id : held'[i] = IF i = saves' THEN refs' ELSE held[i]
    BY <1>0, <1>2
  <2>3. Holds'
    <3>1. ASSUME NEW i \in {0} \cup Id, i = 0 \/ i > saves' PROVE held'[i] = {}
      <4>1. i # saves' /\ (i = 0 \/ i > saves)
        BY <1>0, <2>1, <3>1
      <4> QED BY <1>0, <2>2, <4>1 DEF Holds
    <3>2. ASSUME NEW i \in {0} \cup Id, NEW s \in held'[i] PROVE s.id < s.k /\ s.k <= saves'
      <4>1. CASE i = saves'
        BY <1>2, <2>2, <3>2, <4>1
      <4>2. CASE i # saves'
        <5>1. s \in held[i] /\ s \in Snapshot
          BY <1>0, <2>2, <3>2, <4>2
        <5>2. s.id < s.k /\ s.k <= saves
          BY <1>0, <5>1 DEF Holds
        <5> QED BY <1>0, <2>1, <5>1, <5>2
      <4> QED BY <4>1, <4>2
    <3> QED BY <3>1, <3>2 DEF Holds
  <2>4. Known'
    BY <2>1, <2>2 DEF Known
  <2>5. Writes'
    <3>1. held'[saves'] = refs'
      BY <2>1, <2>2
    <3> QED BY <1>2, <2>1, <3>1 DEF Writes, Files
  <2> QED BY <1>a, <2>3, <2>4, <2>5
<1>3. CASE IncRefLastCommitGen
  <2> DEFINE s == [k |-> saves', gen |-> next["state"] - 1, id |-> dir["state"][next["state"] - 1]]
  <2>1. Create("refs") /\ held' = [held EXCEPT ![saves'] = refs'] /\ refs' = refs \cup {s}
        /\ next["state"] # 0
    BY <1>3 DEF IncRefLastCommitGen
  <2>2. saves' = saves + 1 /\ saves' \in Id /\ pc = "idle"
    BY <1>0, <2>1, CreateSaves
  <2>3. next["state"] - 1 \in Files("state")
    BY <1>0, <2>1, <2>2 DEF FileInv, Loaded
  <2>4. dir["state"][next["state"] - 1] \in Id /\ dir["state"][next["state"] - 1] <= saves
    <3>1. next["state"] - 1 \in Gen /\ dir["state"][next["state"] - 1] \in Id
      BY <1>0, <2>3, FilesTyped
    <3>2. Entry("state", next["state"] - 1, dir["state"][next["state"] - 1])
      BY <2>3 DEF Entry
    <3> QED BY <1>0, <3>1, <3>2 DEF FileInv
  <2>5. s.id = dir["state"][next["state"] - 1] /\ s.k = saves' /\ s.gen = next["state"] - 1
    OBVIOUS
  <2>6. ASSUME NEW t \in refs'
        PROVE  /\ t.id \in Nat /\ t.k \in Nat /\ t.id < t.k /\ t.k <= saves'
               /\ t.k = saves' => t.gen \in Files("state") /\ dir["state"][t.gen] = t.id
    <3>1. CASE t = s
      <4>1. /\ t.id = dir["state"][next["state"] - 1] /\ t.k = saves' /\ t.gen = next["state"] - 1
        BY <2>5, <3>1
      <4>2. PICK x : x = dir["state"][next["state"] - 1]
        OBVIOUS
      <4>3. x \in Id /\ x <= saves
        BY <2>4, <4>2
      <4>4. saves' \in Nat /\ x \in Nat /\ x < saves'
        BY <1>0, <2>2, <4>3
      <4> HIDE DEF s
      <4>5. t.id = x
        BY <4>1, <4>2
      <4>6. t.k = saves' /\ dir["state"][t.gen] = t.id /\ t.gen \in Files("state")
        BY <2>3, <4>1
      <4> QED BY <4>4, <4>5, <4>6
    <3>2. CASE t \in refs
      BY <1>0, <1>b, <2>2, <3>2
    <3> QED BY <2>1, <3>1, <3>2
  <2> HIDE DEF s
  <2> QED BY <1>2, <2>1, <2>6
<1>4. CASE DecRef
  <2>1. Create("refs") /\ held' = [held EXCEPT ![saves'] = refs'] /\ refs' \subseteq refs
    BY <1>4 DEF DecRef
  <2>2. saves' = saves + 1
    BY <1>0, <2>1, CreateSaves
  <2>3. ASSUME NEW t \in refs'
        PROVE  /\ t.id \in Nat /\ t.k \in Nat /\ t.id < t.k /\ t.k <= saves'
               /\ t.k = saves' => t.gen \in Files("state") /\ dir["state"][t.gen] = t.id
    BY <1>0, <1>b, <2>1, <2>2, <2>3
  <2> QED BY <1>2, <2>1, <2>3
<1>5. CASE Write \/ Sync
  <2>1. UNCHANGED <<held, saves, refs, util, dir>> /\ pc \in Saving
    BY <1>5 DEF Write, Sync, ghosts
  <2> QED BY <1>0, <1>a, <1>c, <2>1 DEF Known, Writes, Files
<1>6. CASE Flush \/ UNCHANGED vars
  <2>1. UNCHANGED <<held, saves, refs, util, dir, pc>>
    BY <1>6 DEF Flush, vars, files, memory, ghosts
  <2> QED BY <1>0, <1>a, <1>c, <2>1 DEF Known, Writes, Files
<1>7. ASSUME held' = held, saves' = saves, refs' \in {refs, {}, held[Found("refs")]}, pc' \notin Saving
      PROVE  RefInv'
  <2>1. \A s \in held[Found("refs")] : \E i \in Id : s \in held[i]
    <3>1. Found("refs") \in {0} \cup Id
      BY <1>0, FoundTyped
    <3>2. held[0] = {}
      BY DEF RefInv
    <3> QED BY <3>1, <3>2
  <2>2. Known'
    BY <1>0, <1>7, <2>1 DEF Known
  <2> QED BY <1>7, <1>a, <1>c, <2>2 DEF Writes
<1>8. CASE WriteFails \/ DeleteFails \/ DeleteOld
  <2>1. UNCHANGED <<held, saves, refs>> /\ pc' = "idle"
    BY <1>8 DEF WriteFails, DeleteFails, DeleteOld, ghosts
  <2> QED BY <1>7, <2>1
<1>9. CASE Stop \/ Crash \/ \E u \in Util : LoadThrows(u)
  <2>1. UNCHANGED <<held, saves>> /\ pc' = "down" /\ refs' = {}
    BY <1>9, GoneIs DEF Stop, Crash, LoadThrows, ghosts
  <2> QED BY <1>7, <2>1
<1>10. CASE LoadRefs \/ LoadState
  <2>1. UNCHANGED <<held, saves>> /\ pc' \notin Saving /\ refs' \in {refs, held[Found("refs")]}
    BY <1>10 DEF LoadRefs, LoadState
  <2> QED BY <1>7, <2>1
<1> QED BY <1>1, <1>3, <1>4, <1>5, <1>6, <1>8, <1>9, <1>10 DEF Next


(* Every file of references that can be loaded has the snapshots that can be relied on. *)
LEMMA SnapStep ==
  ASSUME TypeOK, FileInv, RefInv, SnapInv, NothingLost, [Next]_vars
  PROVE  SnapInv'
<1> USE DEF Saving
<1> DEFINE Has(x) == snaps \subseteq held[x]
<1>0. /\ "refs" \in Util /\ "state" \in Util /\ saves \in Nat /\ promised["refs"] \in Nat
      /\ promised["refs"] <= saves /\ promised \in [Util -> 0 .. MaxSaves]
      /\ held \in [{0} \cup Id -> SUBSET Snapshot] /\ Id \subseteq Nat \ {0}
      /\ DOMAIN dir = Util /\ \A v \in Util : promised[v] \in Nat
      /\ gaps \in [Util -> SUBSET Gap] /\ util \in Util
  BY GenFileAssumption DEF TypeOK, Util, FileInv, Id
<1>1. /\ snaps # {} => promised["refs"] # 0
      /\ \A g \in Gen, x \in Id : Entry("refs", g, x) /\ x >= promised["refs"] => snaps \subseteq held[x]
      /\ \A g \in Gen, x \in Id : Entry("refs", g, x) => x <= saves
  BY <1>0 DEF SnapInv, FileInv
<1>a. ASSUME held' = held, snaps' \subseteq snaps,
             snaps' = {} \/ promised'["refs"] = promised["refs"],
             \A g, x : Entry("refs", g, x)' => Entry("refs", g, x)
      PROVE  SnapInv'
  <2>1. snaps' # {} => promised'["refs"] # 0
    BY <1>1, <1>a
  <2>2. ASSUME NEW g \in Gen, NEW x \in Id, Entry("refs", g, x)', x >= promised'["refs"]
        PROVE  snaps' \subseteq held'[x]
    BY <1>1, <1>a, <2>2
  <2> QED BY <2>1, <2>2 DEF SnapInv
<1>2. CASE Commit
  <2>1. UNCHANGED <<held, snaps, promised>> /\ Create("state")
    BY <1>2 DEF Commit, Create
  <2>2. ASSUME NEW g, NEW x, Entry("refs", g, x)' PROVE Entry("refs", g, x)
    BY <1>0, <2>1, <2>2, CreateEntries
  <2> QED BY <1>a, <2>1, <2>2
<1>3. ASSUME Create("refs"), held' = [held EXCEPT ![saves'] = refs'], snaps' \subseteq snaps,
             snaps' \subseteq refs'
      PROVE  SnapInv'
  <2>1. saves' = saves + 1 /\ saves' \in Id /\ promised' = promised
    BY <1>0, <1>3, CreateSaves DEF Create
  <2>2. snaps' # {} => promised'["refs"] # 0
    BY <1>1, <1>3, <2>1
  <2>3. ASSUME NEW g \in Gen, NEW x \in Id, Entry("refs", g, x)', x >= promised'["refs"]
        PROVE  snaps' \subseteq held'[x]
    <3>1. CASE Entry("refs", g, x)
      <4>1. x <= saves /\ snaps \subseteq held[x]
        BY <1>1, <2>1, <2>3, <3>1
      <4>2. held'[x] = held[x]
        BY <1>0, <1>3, <2>1, <4>1
      <4> QED BY <1>3, <4>1, <4>2
    <3>2. CASE x = saves'
      BY <1>0, <1>3, <2>1, <3>2
    <3> QED BY <1>0, <1>3, <2>3, <3>1, <3>2, CreateEntries
  <2> QED BY <2>2, <2>3 DEF SnapInv
<1>4. CASE IncRefLastCommitGen
  <2>1. Create("refs") /\ held' = [held EXCEPT ![saves'] = refs'] /\ snaps' = snaps /\ refs \subseteq refs'
    BY <1>4 DEF IncRefLastCommitGen
  <2>2. snaps \subseteq refs
    BY <1>0, <2>1, CreateSaves DEF NothingLost, Loaded
  <2> QED BY <1>3, <2>1, <2>2
<1>5. CASE DecRef
  <2>1. PICK s \in refs : refs' = refs \ {s} /\ snaps' = snaps \ {s}
    BY <1>5 DEF DecRef
  <2>2. Create("refs") /\ held' = [held EXCEPT ![saves'] = refs']
    BY <1>5 DEF DecRef
  <2>3. snaps \subseteq refs
    BY <1>0, <2>2, CreateSaves DEF NothingLost, Loaded
  <2> QED BY <1>3, <2>1, <2>2, <2>3
<1>6. CASE DeleteOld /\ util = "refs" /\ "listing" \notin gaps[util]
  <2>1. /\ promised' = [promised EXCEPT ![util] = saves] /\ UNCHANGED <<held, saves, disk>>
        /\ snaps' = snaps \cup {s \in refs : s.k = saves} /\ pc = "synced"
        /\ \E S : Delete(util, S)
    BY <1>6 DEF DeleteOld
  <2>2. snaps \subseteq refs /\ held[saves] = refs
    BY <1>6, <2>1 DEF NothingLost, Loaded, RefInv
  <2>3. saves \in Id
    <3>1. next[util] \in Files(util) /\ dir[util][next[util]] = saves
      BY <2>1 DEF FileInv
    <3> QED BY <1>0, <3>1, FilesTyped
  <2>4. promised'["refs"] = saves
    BY <1>0, <1>6, <2>1
  <2>5. ASSUME NEW g \in Gen, NEW x \in Id, Entry("refs", g, x)', x >= promised'["refs"]
        PROVE  snaps' \subseteq held'[x]
    <3>1. Entry("refs", g, x)
      BY <1>0, <2>1, <2>5, DeleteEntries
    <3>2. x = saves
      BY <1>0, <1>1, <2>4, <2>5, <3>1
    <3> QED BY <2>1, <2>2, <3>2
  <2> QED BY <1>0, <2>3, <2>4, <2>5 DEF SnapInv
<1>7. CASE DeleteOld /\ ~ (util = "refs" /\ "listing" \notin gaps[util])
  <2>1. /\ held' = held /\ disk' = disk /\ pc = "synced" /\ \E S : Delete(util, S)
        /\ \/ UNCHANGED <<promised, snaps>>
           \/ /\ util = "state" /\ promised' = [promised EXCEPT ![util] = saves]
              /\ snaps' = snaps \cup {s \in refs : s.k = saves}
    BY <1>0, <1>7 DEF DeleteOld, Util
  <2>2. util = "state" => \A s \in refs : s.k # saves
    <3>1. \A s \in refs : s.k \in Nat
      BY <1>0 DEF TypeOK, Snapshot
    <3>2. util = "state" => \A s \in refs : s.k < saves
      BY <2>1 DEF RefInv
    <3> QED BY <1>0, <3>1, <3>2
  <2>3. snaps' = snaps /\ promised'["refs"] = promised["refs"]
    BY <1>0, <2>1, <2>2
  <2>4. \A g, x : Entry("refs", g, x)' => Entry("refs", g, x)
    BY <1>0, <2>1, DeleteEntries
  <2> QED BY <1>a, <2>1, <2>3, <2>4
<1>8. ASSUME ~ Commit, ~ IncRefLastCommitGen, ~ DecRef, ~ DeleteOld PROVE SnapInv'
  <2>1. \A g, x : Entry("refs", g, x)' => Entry("refs", g, x)
    BY <1>0, <1>8, StepKeeps DEF Keeps
  <2>2. CASE UNCHANGED <<held, snaps, promised>>
    BY <1>a, <2>1, <2>2
  <2>3. CASE Crash
    <3>1. held' = held /\ snaps' = {s \in snaps : /\ OnDisk("refs")
                             /\ s.gen \in DOMAIN disk["state"]
                             /\ disk["state"][s.gen] = s.id}
          /\ promised' = [u \in Util |-> IF OnDisk(u) THEN promised[u] ELSE 0]
      BY <2>3 DEF Crash
    <3> QED BY <1>0, <1>a, <2>1, <3>1
  <2>4. ASSUME NEW u \in Util, Forget(u), held' = held PROVE SnapInv'
    <3>1. snaps' \subseteq snaps /\ (snaps' = {} \/ promised'["refs"] = promised["refs"])
      BY <1>0, <2>4 DEF Forget, Util
    <3> QED BY <1>a, <2>1, <2>4, <3>1
  <2>5. CASE LoadRefs \/ LoadState
    <3>1. held' = held /\ (UNCHANGED <<promised, snaps>> \/ \E u \in Util : Forget(u))
      BY <1>0, <2>5 DEF LoadRefs, LoadState, Read, ListFails
    <3> QED BY <2>2, <2>4, <3>1
  <2> QED BY <1>8, <2>2, <2>3, <2>5
          DEF Next, Write, WriteFails, Sync, DeleteFails, Flush, Stop, LoadThrows, vars, ghosts
<1> QED BY <1>2, <1>4, <1>5, <1>6, <1>7, <1>8

(* A step loses nothing that can be relied on. *)
LEMMA LostStep ==
  ASSUME TypeOK, FileInv, OrderInv, PromiseInv, SnapInv, NothingLost, [Next]_vars
  PROVE  NothingLost'
<1> USE DEF Saving
<1> DEFINE Mem  == Loaded("state") => mem >= promised["state"]
           Refs == Loaded("refs") => snaps \subseteq refs
<1>0. /\ "refs" \in Util /\ "state" \in Util /\ saves \in Nat
      /\ promised \in [Util -> 0 .. MaxSaves] /\ promised["state"] <= saves
      /\ \A v \in Util : promised[v] \in Nat
      /\ mem \in Nat /\ util \in Util /\ Mem /\ Refs
  BY GenFileAssumption DEF TypeOK, Util, FileInv, NothingLost
<1>a. Mem' /\ Refs' => NothingLost'
  BY DEF NothingLost
<1>1. CASE UNCHANGED <<mem, refs, promised, snaps>> /\ ((pc # "down" /\ pc # "loading") \/ pc' = pc)
  BY <1>0, <1>1, <1>a DEF Loaded
<1>2. CASE Commit
  <2>1. /\ mem' = saves' /\ saves' = saves + 1 /\ pc = "idle"
        /\ UNCHANGED <<refs, snaps, promised>>
    BY <1>0, <1>2, CreateSaves DEF Commit, Create
  <2> QED BY <1>0, <1>a, <2>1 DEF Loaded
<1>3. CASE IncRefLastCommitGen \/ DecRef
  <2>1. /\ mem' = mem /\ promised' = promised /\ pc = "idle"
        /\ \/ snaps' = snaps /\ refs \subseteq refs'
           \/ \E s \in refs : refs' = refs \ {s} /\ snaps' = snaps \ {s}
    BY <1>0, <1>3, CreateSaves DEF IncRefLastCommitGen, DecRef, Create
  <2> QED BY <1>0, <1>a, <2>1 DEF Loaded
<1>4. CASE DeleteOld
  <2>1. /\ pc = "synced" /\ UNCHANGED <<mem, refs>>
        /\ \/ UNCHANGED <<promised, snaps>>
           \/ /\ promised' = [promised EXCEPT ![util] = saves]
              /\ snaps' = snaps \cup {s \in refs : s.k = saves}
    BY <1>4 DEF DeleteOld
  <2>2. util = "state" => mem = saves
    BY <2>1 DEF FileInv
  <2>3. promised'["state"] = promised["state"] \/ mem >= promised'["state"]
    BY <1>0, <2>1, <2>2
  <2>4. mem >= promised["state"] /\ snaps \subseteq refs
    BY <1>0, <2>1 DEF Loaded
  <2> QED BY <1>a, <2>1, <2>3, <2>4
<1>5. CASE Stop \/ Crash \/ \E u \in Util : LoadThrows(u)
  <2>1. ~ Loaded("state")' /\ ~ Loaded("refs")'
    BY <1>0, <1>5, GoneIs DEF Stop, Crash, LoadThrows
  <2> QED BY <1>a, <2>1
<1>6. ASSUME NEW u \in Util, Read(u) \/ ListFails(u), ~ Loaded(u)
      PROVE  \/ promised' = promised /\ snaps' = snaps /\ Read(u)
                /\ (promised[u] # 0 => /\ Found(u) >= promised[u]
                                       /\ \E g \in Files(u) : Found(u) = dir[u][g])
             \/ promised'[u] = 0 /\ snaps' \subseteq snaps /\ (u = "refs" => snaps' = {})
  <2>1. CASE Read(u) /\ Trusted(u)
    <3>1. promised' = promised /\ snaps' = snaps
      BY <2>1 DEF Read
    <3> QED BY <1>6, <2>1, <3>1, FoundIs
  <2>2. CASE Forget(u)
    BY <1>0, <2>2 DEF Forget
  <2> QED BY <1>6, <2>1, <2>2 DEF Read, ListFails
<1>7. CASE LoadRefs
  <2>1. /\ pc = "down" /\ pc' = "loading" /\ (Read("refs") \/ ListFails("refs"))
        /\ Read("refs") /\ ~ ListFails("refs") => refs' = held[Found("refs")]
    BY <1>7 DEF LoadRefs
  <2>2. Mem'
    BY <2>1 DEF Loaded
  <2>3. Refs'
    <3>1. CASE snaps' = {}
      BY <3>1
    <3>2. CASE snaps' # {}
      <4>1. /\ snaps' = snaps /\ Read("refs")
            /\ (promised["refs"] # 0 => /\ Found("refs") >= promised["refs"]
                                        /\ \E g \in Files("refs") : Found("refs") = dir["refs"][g])
        BY <1>0, <1>6, <2>1, <3>2 DEF Loaded
      <4>2. promised["refs"] # 0
        BY <3>2, <4>1 DEF SnapInv
      <4>3. PICK g \in Files("refs") : Found("refs") = dir["refs"][g]
        BY <4>1, <4>2
      <4>4. g \in Gen /\ Found("refs") \in Id /\ Entry("refs", g, Found("refs"))
        BY <1>0, <4>3, FilesTyped DEF Entry
      <4>5. snaps \subseteq held[Found("refs")]
        BY <4>1, <4>2, <4>4 DEF SnapInv
      <4>6. ListFails("refs") => snaps' = {}
        BY DEF ListFails, Forget
      <4> QED BY <2>1, <3>2, <4>1, <4>5, <4>6
    <3> QED BY <3>1, <3>2
  <2> QED BY <1>a, <2>2, <2>3
<1>8. CASE LoadState
  <2>1. /\ pc = "loading" /\ pc' = "idle" /\ refs' = refs /\ (Read("state") \/ ListFails("state"))
        /\ (Read("state") /\ mem' = Found("state")) \/ (ListFails("state") /\ mem' = mem)
    BY <1>8 DEF LoadState
  <2>2. snaps \subseteq refs /\ ~ Loaded("state")
    BY <1>0, <2>1 DEF Loaded
  <2>3. mem' \in Nat
    <3>1. Found("state") \in Nat
      BY <1>0, FoundTyped, GenFileAssumption DEF Id
    <3> QED BY <1>0, <2>1, <3>1
  <2>4. ListFails("state") => promised'["state"] = 0
    BY <1>0 DEF ListFails, Forget
  <2>5. snaps' \subseteq snaps /\ mem' >= promised'["state"]
    BY <1>0, <1>6, <2>1, <2>2, <2>3, <2>4
  <2> QED BY <1>a, <2>1, <2>2, <2>5
<1> QED BY <1>0, <1>1, <1>2, <1>3, <1>4, <1>5, <1>7, <1>8
        DEF Next, Write, WriteFails, Sync, DeleteFails, Flush, vars, memory, ghosts

(* No step disturbs the state of a snapshot. *)
LEMMA KeptStep ==
  ASSUME TypeOK, FileInv, RefInv, NothingLost, SnapshotStateKept, [Next]_vars
  PROVE  SnapshotStateKept'
<1> USE DEF Saving
<1> DEFINE Kept(s) == s.gen \in Files("state") /\ dir["state"][s.gen] = s.id
<1>0. /\ "refs" \in Util /\ "state" \in Util /\ saves \in Nat /\ util \in Util /\ DOMAIN dir = Util
      /\ snaps \subseteq Snapshot /\ refs \subseteq Snapshot
      /\ \A s \in Snapshot : s.id \in Nat /\ s.k \in Nat
      /\ \A s \in snaps : Kept(s)
  BY GenFileAssumption DEF TypeOK, Util, SnapshotStateKept, Snapshot, Id
<1>1. ASSUME dir'["state"] = dir["state"], \A s \in snaps' : s \in snaps \/ Kept(s)
      PROVE  SnapshotStateKept'
  BY <1>0, <1>1 DEF SnapshotStateKept, Files
<1>2. ASSUME NEW S, Delete("state", S), snaps' \subseteq snaps, \A s \in snaps : s.gen \notin S
      PROVE  SnapshotStateKept'
  BY <1>0, <1>2, DeleteIs DEF SnapshotStateKept
<1>3. ASSUME NEW u \in Util, Create(u), snaps' \subseteq snaps PROVE SnapshotStateKept'
  <2>1. \A g \in Files("state") : g \in Files("state")' /\ dir'["state"][g] = dir["state"][g]
    BY <1>0, <1>3, CreateIs DEF Files
  <2> QED BY <1>0, <1>3, <2>1 DEF SnapshotStateKept
<1>4. CASE Commit \/ IncRefLastCommitGen \/ DecRef
  BY <1>0, <1>3, <1>4 DEF Commit, IncRefLastCommitGen, DecRef
<1>5. Loaded("refs") => \A s \in snaps : s \in refs
  BY DEF NothingLost
<1>b. ASSUME NEW v \in Util, v # "state", NEW S, Delete(v, S) PROVE dir'["state"] = dir["state"]
  BY <1>0, <1>b, DeleteIs
<1>6. CASE WriteFails
  <2>1. snaps' = snaps /\ pc = "created" /\ (Delete(util, {next[util]}) \/ dir' = dir)
    BY <1>6 DEF WriteFails, ghosts
  <2>2. CASE dir' = dir \/ util # "state"
    BY <1>0, <1>1, <1>b, <2>1, <2>2
  <2>3. CASE Delete("state", {next["state"]}) /\ util = "state"
    <3>1. ASSUME NEW s \in snaps PROVE s.gen \notin {next["state"]}
      <4>1. s \in refs /\ s.id \in Nat /\ s.k \in Nat /\ dir["state"][s.gen] = s.id
        BY <1>0, <1>5, <2>1, <3>1 DEF Loaded
      <4>2. s.k < saves
        BY <2>1, <2>3, <4>1 DEF RefInv
      <4>3. s.id < s.k
        <5>1. PICK i \in Id : s \in held[i]
          BY <4>1 DEF RefInv
        <5> QED BY <5>1 DEF RefInv
      <4>4. dir["state"][next["state"]] = saves
        BY <2>1, <2>3 DEF FileInv
      <4>5. s.id # saves
        BY <1>0, <4>1, <4>2, <4>3
      <4> QED BY <4>1, <4>4, <4>5
    <3> QED BY <1>2, <2>1, <2>3, <3>1
  <2> QED BY <2>1, <2>2, <2>3
<1>7. CASE DeleteOld
  <2>1. /\ pc = "synced"
        /\ snaps' = snaps \/ snaps' = snaps \cup {s \in refs : s.k = saves}
        /\ Delete(util, IF CanDelete(util, next[util] - 1) THEN {next[util] - 1} ELSE {})
    BY <1>7 DEF DeleteOld
  <2>2. CASE util = "state"
    <3>1. snaps' = snaps
      <4>1. \A s \in refs : s.k < saves /\ s.k \in Nat
        BY <1>0, <2>1, <2>2 DEF RefInv
      <4>2. ASSUME NEW s \in refs PROVE s.k # saves
        BY <1>0, <4>1
      <4>3. {s \in refs : s.k = saves} = {}
        BY <4>2
      <4> QED BY <2>1, <4>3
    <3>2. ASSUME NEW s \in snaps
          PROVE  s.gen \notin IF CanDelete("state", next["state"] - 1) THEN {next["state"] - 1} ELSE {}
      BY <1>5, <2>1, <3>2 DEF Loaded, CanDelete
    <3> QED BY <1>2, <2>1, <2>2, <3>1, <3>2
  <2>3. CASE util # "state"
    <3>1. util = "refs"
      BY <1>0, <2>3 DEF Util
    <3>2. \A s \in refs : s.k = saves => Kept(s)
      BY <2>1, <3>1 DEF RefInv
    <3>3. dir'["state"] = dir["state"]
      BY <1>0, <1>b, <2>1, <2>3
    <3> QED BY <1>1, <2>1, <3>2, <3>3
  <2> QED BY <2>2, <2>3
<1>8. CASE Crash
  <2>1. /\ dir' = disk
        /\ snaps' = {s \in snaps : /\ OnDisk("refs")
                                   /\ s.gen \in DOMAIN disk["state"]
                                   /\ disk["state"][s.gen] = s.id}
    BY <1>8 DEF Crash
  <2> QED BY <2>1 DEF SnapshotStateKept, Files
<1>9. ASSUME NEW u \in Util, Read(u), u = "state" => Loaded("refs") PROVE SnapshotStateKept'
  <2>1. Delete(u, Stale(u)) /\ snaps' \subseteq snaps
    BY <1>9 DEF Read, Forget
  <2>2. CASE u = "state"
    <3>1. ASSUME NEW s \in snaps PROVE s.gen \notin Stale("state")
      BY <1>5, <1>9, <2>2, <3>1 DEF Stale, CanDelete
    <3> QED BY <1>2, <2>1, <2>2, <3>1
  <2>3. CASE u # "state"
    BY <1>1, <1>b, <2>1, <2>3
  <2> QED BY <2>2, <2>3
<1>10. ASSUME NEW u \in Util, ListFails(u) PROVE SnapshotStateKept'
  BY <1>1, <1>10 DEF ListFails, Forget
<1>11. CASE LoadRefs \/ LoadState
  BY <1>0, <1>9, <1>10, <1>11 DEF LoadRefs, LoadState, Loaded
<1>12. ASSUME NEW u \in Util, LoadThrows(u) PROVE SnapshotStateKept'
  <2>1. PICK S \in SUBSET Stale(u) : Delete(u, S)
    BY <1>12 DEF LoadThrows
  <2>2. snaps' = snaps /\ (u = "state" => Loaded("refs"))
    BY <1>12 DEF LoadThrows, Loaded
  <2>3. CASE u = "state"
    <3>1. ASSUME NEW s \in snaps PROVE s.gen \notin S
      BY <1>5, <2>1, <2>2, <2>3, <3>1 DEF Stale, CanDelete
    <3> QED BY <1>2, <2>1, <2>2, <2>3, <3>1
  <2>4. CASE u # "state"
    BY <1>1, <1>b, <2>1, <2>2, <2>4
  <2> QED BY <2>3, <2>4
<1>13. CASE dir' = dir /\ snaps' = snaps
  BY <1>1, <1>13
<1> QED BY <1>4, <1>6, <1>7, <1>8, <1>11, <1>12, <1>13
        DEF Next, Write, Sync, DeleteFails, Flush, Stop, vars, files, ghosts

(* Old files stay gone. *)
LEMMA StaleStep ==
  ASSUME TypeOK, FileInv, RefInv, NoStaleFiles, [Next]_vars
  PROVE  NoStaleFiles'
<1> USE DEF Saving
<1> DEFINE Fresh(u) == Loaded(u) /\ gaps[u] \subseteq {"unsure"} =>
                         \A g \in Files(u) : g \in {next[u] - 1, next[u]} \/ EverHeld(u, g)
<1>0. /\ "refs" \in Util /\ "state" \in Util /\ saves \in Nat /\ util \in Util /\ DOMAIN dir = Util
      /\ held \in [{0} \cup Id -> SUBSET Snapshot] /\ Id \subseteq Nat \ {0}
      /\ next \in [Util -> Gen] /\ Gen \subseteq Nat /\ gaps \in [Util -> SUBSET Gap]
      /\ \A v \in Util : v = "state" \/ v = "refs"
  BY GenFileAssumption DEF TypeOK, Util, Id, Gen
<1> SUFFICES ASSUME NEW u \in Util PROVE Fresh(u)'
  BY DEF NoStaleFiles
<1>1. Fresh(u)
  BY DEF NoStaleFiles
<1>2. ASSUME NEW g, held' = held \/ (held' = [held EXCEPT ![saves'] = refs'] /\ saves' = saves + 1),
             EverHeld(u, g)
      PROVE  EverHeld(u, g)'
  <2>1. PICK i \in Id : \E s \in held[i] : s.gen = g
    BY <1>2 DEF EverHeld
  <2>2. CASE held' = held
    BY <1>2, <2>2 DEF EverHeld
  <2>3. CASE held' = [held EXCEPT ![saves'] = refs'] /\ saves' = saves + 1
    <3>1. i # saves'
      <4>1. saves + 1 > saves
        BY <1>0
      <4>2. i > saves => held[i] = {}
        BY DEF RefInv
      <4> QED BY <2>1, <2>3, <4>1, <4>2
    <3>2. held'[i] = held[i]
      BY <1>0, <2>3, <3>1
    <3> QED BY <1>2, <2>1, <3>2 DEF EverHeld
  <2> QED BY <1>2, <2>2, <2>3
<1>3. ASSUME NEW g, g \in refs, u = "state" PROVE EverHeld(u, g.gen)
  BY <1>3 DEF RefInv, EverHeld
<1>4. ASSUME held' = held, Files(u)' \subseteq Files(u), next'[u] = next[u], gaps'[u] = gaps[u],
             Loaded(u)' => Loaded(u)
      PROVE  Fresh(u)'
  BY <1>1, <1>2, <1>4
<1>5. ASSUME NEW v \in Util, Create(v),
             held' = held \/ held' = [held EXCEPT ![saves'] = refs']
      PROVE  Fresh(u)'
  <2>1. Loaded(u) /\ next' = next /\ gaps' = gaps /\ saves' = saves + 1
    BY <1>5, CreateSaves DEF Create, Loaded
  <2>2. Files(u)' \subseteq Files(u) \cup {next[u]}
    BY <1>0, <1>5, CreateIs DEF Files
  <2> QED BY <1>1, <1>2, <1>5, <2>1, <2>2
<1>6. CASE Commit \/ IncRefLastCommitGen \/ DecRef
  BY <1>0, <1>5, <1>6 DEF Commit, IncRefLastCommitGen, DecRef
<1>7. CASE Write \/ Sync \/ DeleteFails \/ Flush \/ UNCHANGED vars
  <2>1. UNCHANGED <<held, dir, next, gaps>> /\ (Loaded(u)' => Loaded(u))
    BY <1>7 DEF Write, Sync, DeleteFails, Flush, vars, ghosts, memory, files, Loaded
  <2> QED BY <1>4, <2>1 DEF Files
<1>8. CASE WriteFails
  <2>1. /\ UNCHANGED <<held, next, gaps>> /\ Loaded(u)
        /\ Delete(util, {next[util]}) \/ dir' = dir
    BY <1>8 DEF WriteFails, ghosts, Loaded
  <2>2. Files(u)' \subseteq Files(u)
    BY <1>0, <2>1, DeleteIs DEF Files
  <2> QED BY <1>4, <2>1, <2>2
<1>9. CASE Stop \/ Crash \/ \E v \in Util : LoadThrows(v)
  BY <1>9, GoneIs DEF Stop, Crash, LoadThrows
<1>10. CASE DeleteOld
  <2>1. /\ pc = "synced" /\ pc' = "idle" /\ held' = held
        /\ next' = [next EXCEPT ![util] = @ + 1]
        /\ gaps' = [gaps EXCEPT ![util] = @ \ {"unsure"}]
        /\ Delete(util, IF CanDelete(util, next[util] - 1) THEN {next[util] - 1} ELSE {})
    BY <1>10 DEF DeleteOld
  <2>2. Loaded(u)
    BY <2>1 DEF Loaded
  <2>3. CASE util # u
    <3>1. dir'[u] = dir[u] /\ next'[u] = next[u] /\ gaps'[u] = gaps[u]
      BY <1>0, <2>1, <2>3, DeleteIs
    <3> QED BY <1>4, <2>1, <2>2, <3>1 DEF Files
  <2>4. CASE util = u
    <3>1. next'[u] = next[u] + 1 /\ gaps'[u] = gaps[u] \ {"unsure"} /\ next[u] \in Nat
      BY <1>0, <2>1, <2>4
    <3>2. SUFFICES ASSUME gaps'[u] \subseteq {"unsure"}, NEW g \in Files(u)'
                   PROVE  g \in {next'[u] - 1, next'[u]} \/ EverHeld(u, g)'
      OBVIOUS
    <3>3. /\ g \in Files(u)
          /\ g \notin IF CanDelete(u, next[u] - 1) THEN {next[u] - 1} ELSE {}
      BY <1>0, <2>1, <2>4, <3>2, DeleteIs
    <3>4. g \in {next[u] - 1, next[u]} \/ EverHeld(u, g)
      BY <1>1, <2>2, <3>1, <3>2, <3>3
    <3>5. CASE g = next[u]
      BY <3>1, <3>5
    <3>6. CASE g = next[u] - 1
      <4>1. ~ CanDelete(u, g)
        BY <3>3, <3>6
      <4>2. EverHeld(u, g)
        BY <1>3, <4>1 DEF CanDelete
      <4> QED BY <1>2, <2>1, <4>2
    <3>7. CASE EverHeld(u, g)
      BY <1>2, <2>1, <3>7
    <3> QED BY <3>4, <3>5, <3>6, <3>7
  <2> QED BY <2>3, <2>4
<1>11. ASSUME Read(u), held' = held, refs' = refs \/ u = "refs" PROVE Fresh(u)'
  <2>1. /\ Delete(u, Stale(u))
        /\ gaps'[u] \subseteq {"unsure"} => Opened(u) = Files(u)
    <3>1. gaps'[u] = (gaps[u] \cap {"listing"})
                       \cup (IF Opened(u) = Files(u) THEN {} ELSE {"order"})
                       \cup (IF Sure(u) THEN {} ELSE {"unsure"})
      BY <1>0, <1>11 DEF Read
    <3> QED BY <1>11, <3>1 DEF Read
  <2>2. SUFFICES ASSUME gaps'[u] \subseteq {"unsure"}, NEW g \in Files(u)'
                 PROVE  g = next'[u] - 1 \/ EverHeld(u, g)'
    OBVIOUS
  <2>3. g \in Files(u) /\ g \notin Stale(u)
    BY <1>0, <2>1, <2>2, DeleteIs
  <2>4. CASE g = Newest(u)
    <3>1. next'[u] = Newest(u) + 1 /\ Newest(u) \in Nat
      BY <1>11, <2>3, ReadNext, NewestIs
    <3> QED BY <2>4, <3>1
  <2>5. CASE ~ CanDelete(u, g)
    <3>1. EverHeld(u, g)
      BY <1>3, <2>5 DEF CanDelete
    <3> QED BY <1>2, <1>11, <3>1
  <2> QED BY <2>1, <2>2, <2>3, <2>4, <2>5 DEF Stale
<1>12. ASSUME ListFails(u) PROVE Fresh(u)'
  <2>1. gaps'[u] = gaps[u] \cup {"listing"}
    BY <1>0, <1>12 DEF ListFails
  <2> QED BY <2>1
<1>13. ASSUME NEW v \in Util, v # u, Read(v) \/ ListFails(v), held' = held, Loaded(u)' => Loaded(u)
       PROVE  Fresh(u)'
  <2>1. dir'[u] = dir[u]
    BY <1>0, <1>13, DeleteIs DEF Read, ListFails
  <2>2. next'[u] = next[u] /\ gaps'[u] = gaps[u]
    BY <1>0, <1>13 DEF Read, ListFails
  <2> QED BY <1>4, <1>13, <2>1, <2>2 DEF Files
<1>14. CASE LoadRefs
  <2>1. held' = held /\ pc' = "loading" /\ (Read("refs") \/ ListFails("refs"))
    BY <1>14 DEF LoadRefs
  <2>2. CASE u = "refs"
    BY <1>11, <1>12, <2>1, <2>2
  <2>3. CASE u # "refs"
    BY <2>1, <2>3 DEF Loaded
  <2> QED BY <2>2, <2>3
<1>15. CASE LoadState
  <2>1. held' = held /\ pc = "loading" /\ refs' = refs /\ (Read("state") \/ ListFails("state"))
    BY <1>15 DEF LoadState
  <2>2. CASE u = "state"
    BY <1>11, <1>12, <2>1, <2>2
  <2>3. CASE u # "state"
    BY <1>0, <1>13, <2>1, <2>3 DEF Loaded
  <2> QED BY <2>2, <2>3
<1> QED BY <1>6, <1>7, <1>8, <1>9, <1>10, <1>14, <1>15 DEF Next

-----------------------------------------------------------------------------
(* The invariant, and what follows from it. *)

(* The invariant holds at the start. *)
LEMMA GenFileInit == Init => GenFileInv
<1> SUFFICES ASSUME Init PROVE GenFileInv
  OBVIOUS
<1>0. /\ \A u \in Util : dir[u] = [g \in {} |-> 0] /\ disk[u] = dir[u] /\ Files(u) = {}
                         /\ DOMAIN disk[u] = {} /\ next[u] = 0 /\ promised[u] = 0
      /\ \A i \in {0} \cup Id : held[i] = {}
      /\ pc = "idle" /\ saves = 0 /\ mem = 0 /\ refs = {} /\ snaps = {}
  BY DEF Init, Files
<1>1. \A u \in Util : \A g, x : ~ Entry(u, g, x)
  BY <1>0 DEF Entry
<1>2. FileInv /\ OrderInv
  BY <1>0, <1>1 DEF FileInv, OrderInv, Saving
<1>3. PromiseInv /\ RefInv
  BY <1>0 DEF PromiseInv, RefInv, Saving
<1>4. SnapInv /\ SnapshotStateKept /\ NoStaleFiles
  BY <1>0, <1>1 DEF SnapInv, SnapshotStateKept, NoStaleFiles, Util
<1>5. NothingLost
  BY <1>0 DEF NothingLost, Util
<1> QED BY TypeInit, <1>2, <1>3, <1>4, <1>5 DEF GenFileInv

(* Every step keeps the invariant. *)
LEMMA GenFileStep == GenFileInv /\ [Next]_vars => GenFileInv'
BY TypeStep, FileStep, OrderStep, PromiseStep, RefStep, SnapStep, LostStep, KeptStep, StaleStep
   DEF GenFileInv

(* The generation files, for any number of saves and snapshots, with any failures, stops
   and crashes. *)
LEMMA GenFileAlways == Spec => []GenFileInv
BY GenFileInit, GenFileStep, PTL DEF Spec

(* What the variables of the model range over: generations, saves and snapshots. *)
THEOREM GenFileTypes == Spec => []TypeOK
<1>1. GenFileInv => TypeOK
  BY DEF GenFileInv
<1> QED BY GenFileAlways, <1>1, PTL

(* After every start the server has the state of the last commit that returned and every
   snapshot whose creation returned, within the limits of what is promised: GenFileUtil
   saves and loads, IndexState commits, creates and releases snapshots. *)
THEOREM NothingIsLost == Spec => []NothingLost
<1>1. GenFileInv => NothingLost
  BY DEF GenFileInv
<1> QED BY GenFileAlways, <1>1, PTL

(* The state of a snapshot stays in its file through every save, start, failure and
   crash: SaveLoadState.canDelete with the references that SaveLoadRefCounts loaded. *)
THEOREM SnapshotsKeepState == Spec => []SnapshotStateKept
<1>1. GenFileInv => SnapshotStateKept
  BY DEF GenFileInv
<1> QED BY GenFileAlways, <1>1, PTL

(* After a save and after a start nothing is left of the older generations, but for those
   that snapshots referred to: GenFileUtil deletes what it replaces. *)
THEOREM OldFilesGo == Spec => []NoStaleFiles
<1>1. GenFileInv => NoStaleFiles
  BY DEF GenFileInv
<1> QED BY GenFileAlways, <1>1, PTL
=============================================================================
