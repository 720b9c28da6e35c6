--------------------------- MODULE SnapshotsProofs ---------------------------
(***************************************************************************)
(* Proofs about snapshots, for any finite set of clients and any number of *)
(* documents, fields, commits, snapshots and crashes: the files of a       *)
(* snapshot stay, and its three parts fit each other.                      *)
(***************************************************************************)
EXTENDS Snapshots, FiniteSetTheorems, TLAPS

-----------------------------------------------------------------------------
(* Files with generations: f maps each generation on disk to its content. *)

HasLast(f) == \E l \in DOMAIN f : \A h \in DOMAIN f : h <= l
OnDisk(f)  == DOMAIN f \subseteq Nat /\ HasLast(f)

(* Last is the newest generation, where there is one. *)
LEMMA LastOf ==
  ASSUME NEW f, OnDisk(f)
  PROVE  Last(f) \in DOMAIN f /\ \A h \in DOMAIN f : h <= Last(f)
<1>1. PICK l \in DOMAIN f : \A h \in DOMAIN f : h <= l
  BY DEF OnDisk, HasLast
<1>2. \A h \in DOMAIN f : l >= h
  BY <1>1 DEF OnDisk
<1>3. \A h \in DOMAIN f : Max(DOMAIN f) >= h /\ Max(DOMAIN f) \in DOMAIN f
  BY <1>2 DEF Max
<1> QED BY <1>1, <1>3 DEF Last, OnDisk

(* A generation that no other exceeds is the last. *)
LEMMA LastIs ==
  ASSUME NEW f, DOMAIN f \subseteq Nat, NEW l \in DOMAIN f, \A h \in DOMAIN f : h <= l
  PROVE  OnDisk(f) /\ Last(f) = l
<1>1. OnDisk(f)
  BY DEF OnDisk, HasLast
<1>2. Last(f) \in DOMAIN f /\ l <= Last(f)
  BY <1>1, LastOf
<1> QED BY <1>1, <1>2

(* Keep leaves the last generation and those with references, as they are. *)
LEMMA KeepOf ==
  ASSUME NEW f, NEW r, OnDisk(f)
  PROVE  /\ DOMAIN Keep(f, r) = {g \in DOMAIN f : g = Last(f) \/ r[g] # 0}
         /\ \A g \in DOMAIN Keep(f, r) : Keep(f, r)[g] = f[g]
         /\ OnDisk(Keep(f, r)) /\ Last(Keep(f, r)) = Last(f)
<1>1. DOMAIN Keep(f, r) = {g \in DOMAIN f : g = Last(f) \/ r[g] # 0}
  BY DEF Keep, Unused, Restrict
<1>2. \A g \in DOMAIN Keep(f, r) : Keep(f, r)[g] = f[g]
  BY DEF Keep, Restrict
<1>3. Last(f) \in DOMAIN Keep(f, r) /\ \A h \in DOMAIN Keep(f, r) : h <= Last(f)
  BY <1>1, LastOf
<1>4. DOMAIN Keep(f, r) \subseteq Nat
  BY <1>1 DEF OnDisk
<1> QED BY <1>1, <1>2, <1>3, <1>4, LastIs

(* The result k of deleting what is unused. *)
Kept(f, r, k) ==
  /\ OnDisk(k) /\ Last(k) = Last(f)
  /\ DOMAIN k \subseteq DOMAIN f /\ \A g \in DOMAIN k : k[g] = f[g]
  /\ \A g \in DOMAIN f : r[g] # 0 => g \in DOMAIN k
  /\ \A g \in DOMAIN k : g = Last(k) \/ r[g] # 0

(* Keep does that. *)
LEMMA KeptBy == ASSUME NEW f, NEW r, OnDisk(f) PROVE Kept(f, r, Keep(f, r))
<1> DEFINE k == Keep(f, r)
<1>1. /\ DOMAIN k = {g \in DOMAIN f : g = Last(f) \/ r[g] # 0}
      /\ \A g \in DOMAIN k : k[g] = f[g]
      /\ OnDisk(k) /\ Last(k) = Last(f)
  BY KeepOf
<1> HIDE DEF k
<1>2. Kept(f, r, k)
  BY <1>1 DEF Kept
<1> QED BY <1>2 DEF k

(* The result of a commit: the newest content is the new one, and what has
   references is left as it was. *)
CommitOf(f, r, new, k) ==
  /\ OnDisk(k)
  /\ k[Last(k)] = new
  /\ Last(k) = Last(f) \/ Last(k) = Last(f) + 1
  /\ \A g \in DOMAIN k : (g \in DOMAIN f /\ k[g] = f[g]) \/ g = Last(k)
  /\ \A g \in DOMAIN f : r[g] # 0 => g \in DOMAIN k /\ k[g] = f[g]
  /\ k = f \/ \A g \in DOMAIN k : g = Last(k) \/ r[g] # 0

(* Committed does that. *)
LEMMA CommittedOf ==
  ASSUME NEW f, NEW r, NEW new, OnDisk(f)
  PROVE  CommitOf(f, r, new, Committed(f, r, new))
<1>1. CASE f[Last(f)] = new
  <2>1. Committed(f, r, new) = f
    BY <1>1 DEF Committed
  <2> QED BY <1>1, <2>1 DEF CommitOf
<1>2. CASE f[Last(f)] # new
  <2> DEFINE n == Last(f) + 1
             a == [h \in DOMAIN f \cup {n} |-> IF h = n THEN new ELSE f[h]]
  <2>1. Last(f) \in Nat /\ n \in Nat /\ n \notin DOMAIN f
    BY LastOf DEF OnDisk
  <2>2. DOMAIN a \subseteq Nat /\ n \in DOMAIN a /\ \A h \in DOMAIN a : h <= n
    BY <2>1, LastOf DEF OnDisk
  <2>3. OnDisk(a) /\ Last(a) = n
    <3> HIDE DEF a
    <3> QED BY <2>2, LastIs
  <2>4. Committed(f, r, new) = Keep(a, r)
    BY <1>2 DEF Committed
  <2>5. a[n] = new /\ \A h \in DOMAIN f : a[h] = f[h]
    BY <2>1
  <2>6. DOMAIN a = DOMAIN f \cup {n}
    OBVIOUS
  <2> HIDE DEF a, n
  <2>7. /\ DOMAIN Keep(a, r) = {g \in DOMAIN a : g = Last(a) \/ r[g] # 0}
        /\ \A g \in DOMAIN Keep(a, r) : Keep(a, r)[g] = a[g]
        /\ OnDisk(Keep(a, r)) /\ Last(Keep(a, r)) = n
    BY <2>3, KeepOf
  <2>8. n \in DOMAIN Keep(a, r)
    BY <2>3, <2>6, <2>7
  <2> QED BY <2>1, <2>3, <2>4, <2>5, <2>6, <2>7, <2>8 DEF CommitOf, n
<1> QED BY <1>1, <1>2

-----------------------------------------------------------------------------
(* The invariant. *)

(* Where a request is while its client holds a reference to a part, and while it is
   still to take one. *)
HoldPC == [index    |-> {"takeTaxonomy", "takeState", "held", "dropIndex"},
           taxonomy |-> {"takeState", "held", "dropIndex", "dropTaxonomy"},
           state    |-> {"held", "dropIndex", "dropTaxonomy", "dropState"}]
TakePC == [index    |-> {},
           taxonomy |-> {"takeTaxonomy"},
           state    |-> {"takeTaxonomy", "takeState"}]

Holders(p, g) == {c \in Client : snap[c].pc \in HoldPC[p] /\ snap[c].gens[p] = g}
Taking(p)     == {c \in Client : snap[c].pc \in TakePC[p]}

(* References are counted: there are as many as clients that hold one, and more only
   after a crash; a request takes at most one to each part. *)
CountInv ==
  /\ snapshots \in 0 .. MaxSnapshots /\ crashes \in Nat
  /\ \A p \in Part, g \in Gen :
       /\ Cardinality(Holders(p, g)) <= refs[p][g]
       /\ crashes = 0 => refs[p][g] = Cardinality(Holders(p, g))
       /\ refs[p][g] + Cardinality(Taking(p)) <= snapshots

(* What is on disk, within the bounds of the commits begun. *)
DiskInv ==
  /\ commits \in 0 .. MaxCommits
  /\ OnDisk(taxonomy) /\ OnDisk(index) /\ OnDisk(state)
  /\ \A g \in DOMAIN taxonomy : taxonomy[g] \subseteq Docs
  /\ \A g \in DOMAIN index : index[g].docs \subseteq Docs /\ index[g].field \in 0 .. MaxFields
  /\ \A g \in DOMAIN state : state[g] \in 0 .. MaxFields
  /\ Last(taxonomy) <= (IF commit = "first" THEN commits ELSE commits + 1)
  /\ Last(index) <= (IF commit \in {"first", "second"} THEN commits ELSE commits + 1)
  /\ Last(state) <= (IF commit = "idle" THEN commits ELSE commits - 1)

(* The generations a client holds are on disk. *)
FilesInv ==
  \A c \in Client :
    /\ snap[c].pc \in HoldPC["index"] => snap[c].gens["index"] \in DOMAIN index
    /\ snap[c].pc \in HoldPC["taxonomy"] => snap[c].gens["taxonomy"] \in DOMAIN taxonomy
    /\ snap[c].pc \in HoldPC["state"] => snap[c].gens["state"] \in DOMAIN state

(* Nothing but the last commit is kept without a reference. *)
FreedInv ==
  /\ \A g \in DOMAIN index : g = Last(index) \/ refs["index"][g] # 0
  /\ \A g \in DOMAIN taxonomy : g = Last(taxonomy) \/ refs["taxonomy"][g] # 0

(* The taxonomy covers each index commit, and those that clients hold. *)
CategoryInv ==
  /\ up => taxonomy[Last(taxonomy)] \subseteq cats
  /\ commit # "idle" => up
  /\ commit = "idle" => began = {}
  /\ commit = "first" => began \subseteq cats
  /\ commit \in {"second", "save"} => began \subseteq taxonomy[Last(taxonomy)]
  /\ \A g \in DOMAIN index : index[g].covered \subseteq taxonomy[Last(taxonomy)]
  /\ \A c \in Client : snap[c].pc \in HoldPC["taxonomy"] \cap HoldPC["index"] =>
       index[Of(c, "index")].covered \subseteq taxonomy[Of(c, "taxonomy")]

(* So do the settings; a commit in between its index and its settings is the
   exception, and crashes may cut it there. *)
FieldInv == ~ cut =>
  /\ up => docField <= fields /\ state[Last(state)] <= fields
  /\ commit # "save" => \A g \in DOMAIN index : index[g].field <= state[Last(state)]
  /\ up => \A g \in DOMAIN index : index[g].field <= fields
  /\ \A c \in Client : snap[c].pc \in HoldPC["state"] \cap HoldPC["index"] =>
       index[Of(c, "index")].field <= state[Of(c, "state")]

SnapshotInv ==
  TypeOK /\ CountInv /\ DiskInv /\ FilesInv /\ FreedInv /\ CategoryInv /\ FieldInv

-----------------------------------------------------------------------------
(* References are counted. *)

(* The type of a client's request. *)
Request == [pc : {"none", "takeTaxonomy", "takeState", "held", "dropIndex", "dropTaxonomy",
                  "dropState"},
            gens : [Part -> Gen]]

(* A client without a snapshot has the type. *)
LEMMA NoSnapshotType == NoSnapshot \in Request
<1>1. 0 \in Gen
  BY SnapshotsAssumption DEF Gen
<1> QED BY <1>1 DEF NoSnapshot, Request

(* Sets of clients are finite. *)
LEMMA SubsetOfClient == ASSUME NEW S \in SUBSET Client
                        PROVE  IsFiniteSet(S) /\ Cardinality(S) \in Nat
BY FS_Subset, FS_CardinalityType, SnapshotsAssumption

(* Taking a reference. *)
LEMMA TakeCounts ==
  ASSUME TypeOK, CountInv, NEW c \in Client, NEW p \in Part, NEW g \in Gen,
         NEW from, NEW to, Snap(c, from, to, p, g),
         \/ p = "index" /\ from = "none" /\ to = "takeTaxonomy"
         \/ p = "taxonomy" /\ from = "takeTaxonomy" /\ to = "takeState"
         \/ p = "state" /\ from = "takeState" /\ to = "held",
         snapshots' = (IF p = "index" THEN snapshots + 1 ELSE snapshots),
         snapshots' <= MaxSnapshots,
         crashes' = crashes
  PROVE  /\ CountInv'
         /\ refs' \in [Part -> [Gen -> 0 .. MaxSnapshots]]
         /\ \A q \in Part, h \in Gen :
              refs'[q][h] = IF q = p /\ h = g THEN refs[q][h] + 1 ELSE refs[q][h]
<1>1. \A q \in Part, h \in Gen :
        refs'[q][h] = IF q = p /\ h = g THEN refs[q][h] + 1 ELSE refs[q][h]
  BY DEF Snap, AddRef, TypeOK
<1>2. /\ snap[c].pc = from /\ snap'[c].pc = to
      /\ snap'[c].gens[p] = g /\ \A q \in Part \ {p} : snap'[c].gens[q] = snap[c].gens[q]
      /\ \A d \in Client \ {c} : snap'[d] = snap[d]
  BY DEF Snap, TypeOK
<1>3. \A q \in Part, h \in Gen :
        Holders(q, h)' = IF q = p /\ h = g THEN Holders(q, h) \cup {c} ELSE Holders(q, h)
  BY <1>2 DEF Holders, HoldPC, Part
<1>4. c \notin Holders(p, g)
  BY <1>2 DEF Holders, HoldPC
<1>5. \A q \in Part, h \in Gen :
        Cardinality(Holders(q, h)') = IF q = p /\ h = g THEN Cardinality(Holders(q, h)) + 1
                                                         ELSE Cardinality(Holders(q, h))
  <2>1. Holders(p, g) \in SUBSET Client
    BY DEF Holders
  <2> QED BY <1>3, <1>4, <2>1, SubsetOfClient, FS_AddElement
<1>6. \A q \in Part : /\ Taking(q) \in SUBSET Client /\ IsFiniteSet(Taking(q))
                      /\ Cardinality(Taking(q)) \in Nat
  BY SubsetOfClient DEF Taking
<1>7. \A q \in Part, h \in Gen : Cardinality(Holders(q, h)) \in Nat
  BY SubsetOfClient DEF Holders
<1>8. \A q \in Part, h \in Gen : refs'[q][h] + Cardinality(Taking(q)') <= snapshots'
  <2>1. CASE p = "index"
    <3>1. Taking("index")' = Taking("index")
      BY DEF Taking, TakePC
    <3>2. \A q \in Part \ {"index"} : Taking(q)' = Taking(q) \cup {c}
      BY <1>2, <2>1 DEF Taking, TakePC, Part
    <3>3. \A q \in Part \ {"index"} : Cardinality(Taking(q)') <= Cardinality(Taking(q)) + 1
                                     /\ Cardinality(Taking(q)') \in Nat
      <4> TAKE q \in Part \ {"index"}
      <4>1. Cardinality(Taking(q) \cup {c}) = IF c \in Taking(q) THEN Cardinality(Taking(q))
                                                               ELSE Cardinality(Taking(q)) + 1
        BY <1>6, FS_AddElement
      <4>2. Cardinality(Taking(q)) \in Nat /\ Taking(q)' = Taking(q) \cup {c}
        BY <1>6, <3>2
      <4> QED BY <4>1, <4>2
    <3> QED BY <1>1, <1>6, <2>1, <3>1, <3>3 DEF CountInv, TypeOK
  <2>2. CASE p # "index"
    <3>1. Taking(p)' = Taking(p) \ {c} /\ c \in Taking(p)
      BY <1>2, <2>2 DEF Taking, TakePC
    <3>2. Cardinality(Taking(p)') = Cardinality(Taking(p)) - 1
      BY <1>6, <3>1, FS_RemoveElement
    <3>3. \A q \in Part \ {p} : Taking(q)' = Taking(q)
      BY <1>2, <2>2 DEF Taking, TakePC, Part
    <3> QED BY <1>1, <1>6, <2>2, <3>2, <3>3 DEF CountInv, TypeOK
  <2> QED BY <2>1, <2>2
<1>9. CountInv'
  <2>1. snapshots' \in 0 .. MaxSnapshots /\ crashes' \in Nat
    BY SnapshotsAssumption DEF CountInv
  <2>2. ASSUME NEW q \in Part, NEW h \in Gen
        PROVE  /\ Cardinality(Holders(q, h)') <= refs'[q][h]
               /\ crashes' = 0 => refs'[q][h] = Cardinality(Holders(q, h)')
    BY <1>1, <1>5, <1>7 DEF CountInv, TypeOK
  <2> QED BY <1>8, <2>1, <2>2 DEF CountInv
<1>10. refs' \in [Part -> [Gen -> 0 .. MaxSnapshots]]
  <2>1. \A q \in Part : Cardinality(Taking(q)') \in Nat
    BY SubsetOfClient DEF Taking
  <2>2. refs[p][g] + 1 \in 0 .. MaxSnapshots
    BY <1>1, <1>8, <2>1, SnapshotsAssumption DEF TypeOK
  <2> QED BY <2>2 DEF Snap, AddRef, TypeOK
<1> QED BY <1>1, <1>9, <1>10

(* Taking one back. *)
LEMMA DropCounts ==
  ASSUME TypeOK, CountInv, NEW c \in Client, NEW p \in Part, NEW from, NEW to,
         DropRef(p, Of(c, p)), snap[c].pc = from, snap'[c].pc = to,
         \A q \in Part : to \in HoldPC[q] => snap'[c].gens[q] = snap[c].gens[q],
         \A d \in Client \ {c} : snap'[d] = snap[d],
         \/ p = "index" /\ from = "dropIndex" /\ to = "dropTaxonomy"
         \/ p = "taxonomy" /\ from = "dropTaxonomy" /\ to = "dropState"
         \/ p = "state" /\ from = "dropState" /\ to = "none",
         snapshots' = snapshots, crashes' = crashes
  PROVE  /\ CountInv'
         /\ refs' \in [Part -> [Gen -> 0 .. MaxSnapshots]]
         /\ \A q \in Part, h \in Gen :
              refs'[q][h] = IF q = p /\ h = Of(c, p) THEN refs[q][h] - 1 ELSE refs[q][h]
<1> DEFINE g == Of(c, p)
<1>0. g \in Gen
  BY DEF TypeOK, Of
<1>1. \A q \in Part, h \in Gen :
        refs'[q][h] = IF q = p /\ h = g THEN refs[q][h] - 1 ELSE refs[q][h]
  BY <1>0 DEF DropRef, TypeOK
<1>2. \A q \in Part, h \in Gen :
        Holders(q, h)' = IF q = p /\ h = g THEN Holders(q, h) \ {c} ELSE Holders(q, h)
  BY DEF Holders, HoldPC, Part, Of
<1>3. c \in Holders(p, g)
  BY DEF Holders, HoldPC, Of
<1>4. Holders(p, g) \in SUBSET Client
  BY DEF Holders
<1> HIDE DEF g
<1>5. /\ \A q \in Part, h \in Gen :
           Cardinality(Holders(q, h)') = IF q = p /\ h = g THEN Cardinality(Holders(q, h)) - 1
                                                            ELSE Cardinality(Holders(q, h))
      /\ Cardinality(Holders(p, g)) > 0
  <2>1. IsFiniteSet(Holders(p, g)) /\ Cardinality(Holders(p, g)) \in Nat
    BY <1>4, SubsetOfClient
  <2>2. Cardinality(Holders(p, g)) > 0
    BY <1>3, <2>1, FS_EmptySet
  <2>3. Cardinality(Holders(p, g) \ {c}) = Cardinality(Holders(p, g)) - 1
    BY <1>3, <2>1, FS_RemoveElement
  <2> QED BY <1>2, <2>2, <2>3
<1>6. \A q \in Part, h \in Gen : Cardinality(Holders(q, h)) \in Nat
  BY SubsetOfClient DEF Holders
<1>7. \A q \in Part : Taking(q)' = Taking(q) /\ Cardinality(Taking(q)) \in Nat
  <2>1. \A q \in Part : Taking(q)' = Taking(q)
    BY DEF Taking, TakePC, Part
  <2> QED BY <2>1, SubsetOfClient DEF Taking
<1>8. CountInv'
  BY <1>1, <1>5, <1>6, <1>7 DEF CountInv, TypeOK
<1>9. refs' \in [Part -> [Gen -> 0 .. MaxSnapshots]]
  <2>1. refs[p][g] - 1 \in 0 .. MaxSnapshots
    BY <1>0, <1>5, <1>6, SnapshotsAssumption DEF CountInv, TypeOK
  <2> QED BY <1>0, <2>1 DEF DropRef, TypeOK, g
<1> QED BY <1>1, <1>8, <1>9 DEF g

(* A generation that somebody holds has a reference. *)
LEMMA Referenced ==
  ASSUME NEW S \in SUBSET Client, NEW c \in S, NEW n \in Nat, Cardinality(S) <= n
  PROVE  n # 0
BY SubsetOfClient, FS_EmptySet

(* In particular the generations of a client that holds them. *)
LEMMA HeldReferenced ==
  ASSUME TypeOK, CountInv, NEW c \in Client, NEW p \in Part, snap[c].pc \in HoldPC[p]
  PROVE  Of(c, p) \in Gen /\ refs[p][Of(c, p)] # 0
<1>1. Of(c, p) \in Gen
  BY DEF TypeOK, Of
<1>2. c \in Holders(p, Of(c, p)) /\ Holders(p, Of(c, p)) \in SUBSET Client
  BY DEF Holders, Of
<1>3. refs[p][Of(c, p)] \in Nat /\ Cardinality(Holders(p, Of(c, p))) <= refs[p][Of(c, p)]
  BY <1>1, SnapshotsAssumption DEF CountInv, TypeOK
<1> QED BY <1>1, <1>2, <1>3, Referenced

(* Nothing changes for a part of the invariant whose variables stay. *)
LEMMA CountsStay == CountInv /\ UNCHANGED <<refs, snap, snapshots, crashes>> => CountInv'
<1> SUFFICES ASSUME CountInv, UNCHANGED <<refs, snap, snapshots, crashes>> PROVE CountInv'
  OBVIOUS
<1>1. \A p \in Part, g \in Gen : Holders(p, g)' = Holders(p, g) /\ Taking(p)' = Taking(p)
  BY DEF Holders, Taking
<1> QED BY <1>1 DEF CountInv

(* Likewise for the files of clients. *)
LEMMA FilesStay == FilesInv /\ UNCHANGED <<taxonomy, index, state, snap>> => FilesInv'
BY DEF FilesInv

(* Likewise for what is freed. *)
LEMMA FreedStays == FreedInv /\ UNCHANGED <<taxonomy, index, refs>> => FreedInv'
BY DEF FreedInv

-----------------------------------------------------------------------------
(* Each action preserves the invariant. *)

(* Registering a field and adding a document. *)
LEMMA IndexingStep ==
  ASSUME SnapshotInv, RegisterField \/ AddCategory \/ AddDocument PROVE SnapshotInv'
<1>1. /\ UNCHANGED <<up, commit, began, taxonomy, index, state, refs, snap>>
      /\ UNCHANGED <<commits, snapshots, crashes, cut>>
  BY DEF RegisterField, AddCategory, AddDocument, disk, counts
<1>2. CountInv' /\ FilesInv' /\ FreedInv'
  BY <1>1, CountsStay, FilesStay, FreedStays DEF SnapshotInv
<1>3. DiskInv'
  BY <1>1 DEF SnapshotInv, DiskInv
<1>4. TypeOK'
  <2>1. CASE RegisterField
    BY <1>1, <2>1, SnapshotsAssumption DEF SnapshotInv, TypeOK, RegisterField
  <2>2. CASE AddCategory
    <3>1. pending' \subseteq Docs
      BY <2>2 DEF AddCategory, SnapshotInv, TypeOK
    <3> QED BY <1>1, <2>2, <3>1 DEF SnapshotInv, TypeOK, AddCategory
  <2>3. CASE AddDocument
    BY <1>1, <2>3 DEF SnapshotInv, TypeOK, AddDocument
  <2> QED BY <2>1, <2>2, <2>3
<1>5. CategoryInv'
  <2>1. cats \subseteq cats'
    BY DEF RegisterField, AddCategory, AddDocument
  <2> QED BY <1>1, <2>1 DEF SnapshotInv, CategoryInv, Of
<1>6. FieldInv'
  <2>1. fields <= fields' /\ (docField' = docField \/ docField' = fields')
        /\ fields' \in Nat /\ fields \in Nat
    BY SnapshotsAssumption DEF RegisterField, AddCategory, AddDocument, SnapshotInv, TypeOK
  <2>2. /\ docField \in Nat /\ \A g \in DOMAIN index : index[g].field \in Nat
        /\ state[Last(state)] \in Nat
    BY SnapshotsAssumption, LastOf DEF SnapshotInv, TypeOK, DiskInv
  <2> QED BY <1>1, <2>1, <2>2 DEF SnapshotInv, FieldInv, Of
<1> QED BY <1>2, <1>3, <1>4, <1>5, <1>6 DEF SnapshotInv

(* Entering commit(). *)
LEMMA BeginStep == ASSUME SnapshotInv, BeginCommit PROVE SnapshotInv'
<1>1. /\ UNCHANGED <<fields, cats, docs, docField, pending, taxonomy, index, state, refs, snap>>
      /\ UNCHANGED <<up, snapshots, crashes, cut>>
  BY DEF BeginCommit, writers, disk
<1>2. CountInv' /\ FilesInv' /\ FreedInv'
  BY <1>1, CountsStay, FilesStay, FreedStays DEF SnapshotInv
<1>3. TypeOK'
  BY <1>1 DEF BeginCommit, SnapshotInv, TypeOK
<1>4. DiskInv'
  <2>1. Last(taxonomy) \in Nat /\ Last(index) \in Nat /\ Last(state) \in Nat
    BY LastOf DEF SnapshotInv, DiskInv, OnDisk
  <2>2. commits \in 0 .. MaxCommits /\ commits' = commits + 1 /\ commits < MaxCommits
        /\ commit = "idle" /\ commit' = "first"
    BY DEF BeginCommit, SnapshotInv, DiskInv
  <2> QED BY <1>1, <2>1, <2>2, SnapshotsAssumption DEF SnapshotInv, DiskInv
<1>5. CategoryInv'
  BY <1>1 DEF BeginCommit, SnapshotInv, CategoryInv, Of
<1>6. FieldInv'
  BY <1>1 DEF BeginCommit, SnapshotInv, FieldInv, Of
<1> QED BY <1>2, <1>3, <1>4, <1>5, <1>6 DEF SnapshotInv

(* The commit of the taxonomy: it covers what the commit began with. *)
LEMMA TaxonomyStep ==
  ASSUME SnapshotInv, CommitStep, commit = "first" PROVE SnapshotInv'
<1>1. /\ UNCHANGED <<up, fields, cats, docs, docField, pending, began, index, state, refs, snap>>
      /\ UNCHANGED <<commits, snapshots, crashes, cut>>
      /\ taxonomy' = Committed(taxonomy, refs["taxonomy"], cats)
      /\ commit' = "second" /\ up
  BY DEF CommitStep, CommitWriter, CommitTaxonomy, writers, counts
<1>2. CommitOf(taxonomy, refs["taxonomy"], cats, taxonomy')
  BY <1>1, CommittedOf DEF SnapshotInv, DiskInv
<1>3. \A c \in Client : snap[c].pc \in HoldPC["taxonomy"] =>
        /\ Of(c, "taxonomy") \in DOMAIN taxonomy
        /\ Of(c, "taxonomy") \in DOMAIN taxonomy'
        /\ taxonomy'[Of(c, "taxonomy")] = taxonomy[Of(c, "taxonomy")]
  <2> TAKE c \in Client
  <2> HAVE snap[c].pc \in HoldPC["taxonomy"]
  <2>1. refs["taxonomy"][Of(c, "taxonomy")] # 0
    BY HeldReferenced DEF SnapshotInv, Part
  <2>2. Of(c, "taxonomy") \in DOMAIN taxonomy
    BY DEF SnapshotInv, FilesInv, Of
  <2> QED BY <1>2, <2>1, <2>2 DEF CommitOf
<1>4. DiskInv'
  <2>1. \A g \in DOMAIN taxonomy' : taxonomy'[g] \subseteq Docs
    BY <1>2 DEF CommitOf, SnapshotInv, DiskInv, TypeOK
  <2>2. Last(taxonomy') <= commits + 1
    <3>1. Last(taxonomy) \in Nat /\ Last(taxonomy) <= commits /\ commits \in Nat
      BY LastOf, SnapshotsAssumption DEF SnapshotInv, DiskInv, OnDisk
    <3> QED BY <1>2, <3>1 DEF CommitOf
  <2> QED BY <1>1, <1>2, <2>1, <2>2 DEF SnapshotInv, DiskInv, CommitOf
<1>5. TypeOK'
  <2>1. DOMAIN taxonomy' \subseteq Gen
    <3>1. \A g \in DOMAIN taxonomy' : g \in Nat /\ g <= Last(taxonomy')
      BY <1>4, LastOf DEF DiskInv, OnDisk
    <3>2. Last(taxonomy') <= MaxCommits + 1 /\ Last(taxonomy') \in Nat
      BY <1>1, <1>4, LastOf, SnapshotsAssumption DEF DiskInv, OnDisk
    <3> QED BY <3>1, <3>2, SnapshotsAssumption DEF Gen
  <2> QED BY <1>1, <2>1 DEF SnapshotInv, TypeOK
<1>6. CountInv'
  BY <1>1, CountsStay DEF SnapshotInv
<1>7. FilesInv'
  BY <1>1, <1>3 DEF SnapshotInv, FilesInv, Of
<1>8. FreedInv'
  BY <1>1, <1>2 DEF SnapshotInv, FreedInv, CommitOf
<1>9. CategoryInv'
  <2>1. taxonomy'[Last(taxonomy')] = cats /\ taxonomy[Last(taxonomy)] \subseteq cats
    BY <1>1, <1>2 DEF CommitOf, SnapshotInv, CategoryInv
  <2> QED BY <1>1, <1>3, <2>1 DEF SnapshotInv, CategoryInv, Of
<1>10. FieldInv'
  BY <1>1 DEF SnapshotInv, FieldInv, Of
<1> QED BY <1>4, <1>5, <1>6, <1>7, <1>8, <1>9, <1>10 DEF SnapshotInv

(* The commit of the index: the taxonomy committed before covers it. *)
LEMMA IndexStep ==
  ASSUME SnapshotInv, CommitStep, commit = "second" PROVE SnapshotInv'
<1> DEFINE new == [docs |-> docs, covered |-> began, field |-> docField]
<1>1. /\ UNCHANGED <<up, fields, cats, docs, docField, pending, began, taxonomy, state, refs, snap>>
      /\ UNCHANGED <<commits, snapshots, crashes, cut>>
      /\ index' = index \/ index' = Committed(index, refs["index"], new)
      /\ commit' = "save" /\ up
  BY DEF CommitStep, CommitWriter, CommitIndex, writers, counts
<1>2. /\ OnDisk(index')
      /\ Last(index') = Last(index) \/ Last(index') = Last(index) + 1
      /\ \A g \in DOMAIN index' : (g \in DOMAIN index /\ index'[g] = index[g]) \/ index'[g] = new
      /\ \A g \in DOMAIN index : refs["index"][g] # 0 => g \in DOMAIN index' /\ index'[g] = index[g]
      /\ \A g \in DOMAIN index' : g = Last(index') \/ refs["index"][g] # 0
  <2> HIDE DEF new
  <2>1. CASE index' = index
    BY <2>1 DEF SnapshotInv, DiskInv, FreedInv
  <2>2. CASE index' = Committed(index, refs["index"], new)
    <3>1. CommitOf(index, refs["index"], new, index')
      BY <2>2, CommittedOf DEF SnapshotInv, DiskInv
    <3> QED BY <3>1 DEF CommitOf, SnapshotInv, FreedInv
  <2> QED BY <1>1, <2>1, <2>2
<1>3. \A c \in Client : snap[c].pc \in HoldPC["index"] =>
        /\ Of(c, "index") \in DOMAIN index'
        /\ index'[Of(c, "index")] = index[Of(c, "index")]
  <2> TAKE c \in Client
  <2> HAVE snap[c].pc \in HoldPC["index"]
  <2>1. refs["index"][Of(c, "index")] # 0
    BY HeldReferenced DEF SnapshotInv, Part
  <2>2. Of(c, "index") \in DOMAIN index
    BY DEF SnapshotInv, FilesInv, Of
  <2> QED BY <1>2, <2>1, <2>2
<1>4. DiskInv'
  <2>1. \A g \in DOMAIN index' : index'[g].docs \subseteq Docs /\ index'[g].field \in 0 .. MaxFields
    BY <1>2 DEF SnapshotInv, DiskInv, TypeOK
  <2>2. Last(index') <= commits + 1
    <3>1. Last(index) \in Nat /\ Last(index) <= commits /\ commits \in Nat
      BY LastOf, SnapshotsAssumption DEF SnapshotInv, DiskInv, OnDisk
    <3> QED BY <1>2, <3>1
  <2> QED BY <1>1, <1>2, <2>1, <2>2 DEF SnapshotInv, DiskInv
<1>5. TypeOK'
  <2>1. DOMAIN index' \subseteq Gen
    <3>1. \A g \in DOMAIN index' : g \in Nat /\ g <= Last(index')
      BY <1>4, LastOf DEF DiskInv, OnDisk
    <3>2. Last(index') <= MaxCommits + 1 /\ Last(index') \in Nat
      BY <1>1, <1>4, LastOf, SnapshotsAssumption DEF DiskInv, OnDisk
    <3> QED BY <3>1, <3>2, SnapshotsAssumption DEF Gen
  <2> QED BY <1>1, <2>1 DEF SnapshotInv, TypeOK
<1>6. CountInv'
  BY <1>1, CountsStay DEF SnapshotInv
<1>7. FilesInv'
  BY <1>1, <1>3 DEF SnapshotInv, FilesInv, Of
<1>8. FreedInv'
  BY <1>1, <1>2 DEF SnapshotInv, FreedInv
<1>9. CategoryInv'
  <2>1. \A g \in DOMAIN index' : index'[g].covered \subseteq taxonomy[Last(taxonomy)]
    BY <1>2 DEF SnapshotInv, CategoryInv
  <2>2. \A c \in Client : snap[c].pc \in HoldPC["taxonomy"] \cap HoldPC["index"] =>
          index'[Of(c, "index")].covered \subseteq taxonomy[Of(c, "taxonomy")]
    BY <1>3 DEF SnapshotInv, CategoryInv
  <2> QED BY <1>1, <2>1, <2>2 DEF SnapshotInv, CategoryInv, Of
<1>10. FieldInv'
  <2> SUFFICES ASSUME ~ cut PROVE FieldInv'
    BY <1>1 DEF FieldInv
  <2>1. \A g \in DOMAIN index' : index'[g].field <= fields
    BY <1>1, <1>2 DEF SnapshotInv, FieldInv
  <2>2. \A c \in Client : snap[c].pc \in HoldPC["state"] \cap HoldPC["index"] =>
          index'[Of(c, "index")].field <= state[Of(c, "state")]
    BY <1>3 DEF SnapshotInv, FieldInv
  <2> QED BY <1>1, <2>1, <2>2 DEF SnapshotInv, FieldInv, Of
<1> QED BY <1>4, <1>5, <1>6, <1>7, <1>8, <1>9, <1>10 DEF SnapshotInv

(* The save of the settings: they cover every index commit again. *)
LEMMA SaveStep == ASSUME SnapshotInv, SaveState PROVE SnapshotInv'
<1> DEFINE g   == Last(state) + 1
           old == IF refs["state"][g - 1] = 0 THEN {g - 1} ELSE {}
<1>1. /\ UNCHANGED <<up, fields, cats, docs, docField, pending, taxonomy, index, refs, snap>>
      /\ UNCHANGED <<commits, snapshots, crashes, cut>>
      /\ state' = [h \in (DOMAIN state \cup {g}) \ old |-> IF h = g THEN fields ELSE state[h]]
      /\ commit = "save" /\ commit' = "idle" /\ began' = {} /\ up
  BY DEF SaveState, writers, counts
<1>2. /\ g \in Nat /\ g - 1 = Last(state) /\ \A h \in DOMAIN state : h \in Nat /\ h < g
      /\ g <= commits
  <2>1. Last(state) \in Nat /\ \A h \in DOMAIN state : h \in Nat /\ h <= Last(state)
    BY LastOf DEF SnapshotInv, DiskInv, OnDisk
  <2>2. Last(state) <= commits - 1 /\ commits \in Nat
    BY <1>1, SnapshotsAssumption DEF SnapshotInv, DiskInv
  <2> QED BY <2>1, <2>2
<1> HIDE DEF g
<1>3. /\ DOMAIN state' \subseteq Nat /\ g \in DOMAIN state' /\ state'[g] = fields
      /\ \A h \in DOMAIN state' : h <= g
      /\ \A h \in DOMAIN state' \ {g} : h \in DOMAIN state /\ state'[h] = state[h]
      /\ \A h \in DOMAIN state : refs["state"][h] # 0 => h \in DOMAIN state' /\ state'[h] = state[h]
  BY <1>1, <1>2
<1>4. OnDisk(state') /\ Last(state') = g
  BY <1>3, LastIs
<1>5. \A c \in Client : snap[c].pc \in HoldPC["state"] =>
        Of(c, "state") \in DOMAIN state' /\ state'[Of(c, "state")] = state[Of(c, "state")]
  <2> TAKE c \in Client
  <2> HAVE snap[c].pc \in HoldPC["state"]
  <2>1. refs["state"][Of(c, "state")] # 0
    BY HeldReferenced DEF SnapshotInv, Part
  <2>2. Of(c, "state") \in DOMAIN state
    BY DEF SnapshotInv, FilesInv, Of
  <2> QED BY <1>3, <2>1, <2>2
<1>6. DiskInv'
  <2>1. \A h \in DOMAIN state' : state'[h] \in 0 .. MaxFields
    BY <1>3 DEF SnapshotInv, DiskInv, TypeOK
  <2> QED BY <1>1, <1>2, <1>4, <2>1 DEF SnapshotInv, DiskInv
<1>7. TypeOK'
  <2>1. DOMAIN state' \subseteq Gen
    <3>1. commits <= MaxCommits /\ commits \in Nat
      BY SnapshotsAssumption DEF SnapshotInv, DiskInv
    <3> QED BY <1>2, <1>3, <3>1, SnapshotsAssumption DEF Gen
  <2> QED BY <1>1, <2>1 DEF SnapshotInv, TypeOK
<1>8. CountInv' /\ FreedInv'
  BY <1>1, CountsStay, FreedStays DEF SnapshotInv
<1>9. FilesInv'
  BY <1>1, <1>5 DEF SnapshotInv, FilesInv, Of
<1>10. CategoryInv'
  BY <1>1 DEF SnapshotInv, CategoryInv, Of
<1>11. FieldInv'
  <2> SUFFICES ASSUME ~ cut PROVE FieldInv'
    BY <1>1 DEF FieldInv
  <2>1. state'[Last(state')] = fields /\ fields \in Nat
    BY <1>3, <1>4, SnapshotsAssumption DEF SnapshotInv, TypeOK
  <2>2. \A h \in DOMAIN index : index[h].field <= fields
    BY <1>1 DEF SnapshotInv, FieldInv
  <2>3. \A c \in Client : snap[c].pc \in HoldPC["state"] \cap HoldPC["index"] =>
          index[Of(c, "index")].field <= state'[Of(c, "state")]
    BY <1>5 DEF SnapshotInv, FieldInv
  <2>4. docField <= fields
    BY <1>1 DEF SnapshotInv, FieldInv
  <2>5. \A h \in DOMAIN index : index[h].field <= state'[Last(state')]
    BY <2>1, <2>2
  <2>6. \A c \in Client : Of(c, "index")' = Of(c, "index") /\ Of(c, "state")' = Of(c, "state")
    BY <1>1 DEF Of
  <2>7. state'[Last(state')] <= fields
    BY <2>1
  <2>8. UNCHANGED <<up, fields, docField, index, snap>>
    BY <1>1
  <2> HIDE DEF old
  <2> QED BY <2>2, <2>3, <2>4, <2>5, <2>6, <2>7, <2>8 DEF FieldInv
<1> QED BY <1>6, <1>7, <1>8, <1>9, <1>10, <1>11 DEF SnapshotInv

(* A request that takes a reference: what all three have in common. *)
LEMMA TakeKeeps ==
  ASSUME SnapshotInv, NEW c \in Client, NEW p \in Part, NEW g \in Gen,
         NEW from, NEW to, Snap(c, from, to, p, g),
         \/ p = "index" /\ from = "none" /\ to = "takeTaxonomy"
         \/ p = "taxonomy" /\ from = "takeTaxonomy" /\ to = "takeState"
         \/ p = "state" /\ from = "takeState" /\ to = "held",
         snapshots' = (IF p = "index" THEN snapshots + 1 ELSE snapshots),
         snapshots' <= MaxSnapshots,
         UNCHANGED <<up, writers, commit, began, taxonomy, index, state, commits, crashes, cut>>
  PROVE  /\ TypeOK' /\ CountInv' /\ DiskInv' /\ FreedInv'
         /\ snap'[c].pc = to /\ snap'[c].gens[p] = g
         /\ \A q \in Part \ {p} : snap'[c].gens[q] = snap[c].gens[q]
         /\ \A d \in Client \ {c} : snap'[d] = snap[d]
<1>1. /\ CountInv'
      /\ refs' \in [Part -> [Gen -> 0 .. MaxSnapshots]]
      /\ \A q \in Part, h \in Gen :
           refs'[q][h] = IF q = p /\ h = g THEN refs[q][h] + 1 ELSE refs[q][h]
  BY TakeCounts DEF SnapshotInv
<1>2. /\ snap'[c].pc = to /\ snap'[c].gens[p] = g
      /\ \A q \in Part \ {p} : snap'[c].gens[q] = snap[c].gens[q]
      /\ \A d \in Client \ {c} : snap'[d] = snap[d]
  BY DEF Snap, SnapshotInv, TypeOK
<1>3. TypeOK'
  <2>1. snap' \in [Client -> Request]
    BY DEF Snap, SnapshotInv, TypeOK, Request
  <2> QED BY <1>1, <2>1 DEF SnapshotInv, TypeOK, Request, writers
<1>4. DiskInv'
  BY DEF SnapshotInv, DiskInv
<1>5. FreedInv'
  <2>1. \A q \in Part, h \in Gen : refs[q][h] # 0 => refs'[q][h] # 0
    <3>1. refs \in [Part -> [Gen -> 0 .. MaxSnapshots]]
      BY DEF SnapshotInv, TypeOK
    <3>2. ASSUME NEW q \in Part, NEW h \in Gen, refs[q][h] # 0 PROVE refs'[q][h] # 0
      <4>1. refs[q][h] \in 0 .. MaxSnapshots
        BY <3>1
      <4>2. refs[q][h] \in Nat \ {0}
        BY ONLY <3>2, <4>1, SnapshotsAssumption
      <4>3. refs'[q][h] = IF q = p /\ h = g THEN refs[q][h] + 1 ELSE refs[q][h]
        BY <1>1
      <4> QED BY ONLY <4>2, <4>3
    <3> QED BY <3>2
  <2> QED BY <2>1 DEF SnapshotInv, FreedInv, TypeOK, Part
<1> QED BY <1>1, <1>2, <1>3, <1>4, <1>5

(* The three steps of createSnapshot. *)
LEMMA TakeStep ==
  ASSUME SnapshotInv, NEW c \in Client,
         SnapshotIndex(c) \/ SnapshotTaxonomy(c) \/ IncRefLastCommitGen(c)
  PROVE  SnapshotInv'
<1>0. /\ UNCHANGED <<up, writers, commit, began, taxonomy, index, state, commits, crashes, cut>>
      /\ snapshots \in 0 .. MaxSnapshots
  BY DEF SnapshotIndex, SnapshotTaxonomy, IncRefLastCommitGen, counts, SnapshotInv, CountInv
<1>1. /\ Last(index) \in DOMAIN index /\ Last(taxonomy) \in DOMAIN taxonomy
      /\ Last(state) \in DOMAIN state
      /\ Last(index) \in Gen /\ Last(taxonomy) \in Gen /\ Last(state) \in Gen
  BY LastOf DEF SnapshotInv, DiskInv, TypeOK
<1>2. CASE SnapshotIndex(c)
  <2>1. /\ TypeOK' /\ CountInv' /\ DiskInv' /\ FreedInv'
        /\ snap'[c].pc = "takeTaxonomy" /\ snap'[c].gens["index"] = Last(index)
        /\ \A d \in Client \ {c} : snap'[d] = snap[d]
    <3>1. Snap(c, "none", "takeTaxonomy", "index", Last(index)) /\ snapshots' = snapshots + 1
          /\ snapshots' <= MaxSnapshots
      BY <1>0, <1>2, SnapshotsAssumption DEF SnapshotIndex
    <3> QED BY <1>0, <1>1, <3>1, TakeKeeps DEF Part
  <2>2. FilesInv'
    BY <1>0, <1>1, <2>1 DEF SnapshotInv, FilesInv, HoldPC
  <2>3. CategoryInv'
    BY <1>0, <2>1 DEF SnapshotInv, CategoryInv, HoldPC, Of, writers
  <2>4. FieldInv'
    BY <1>0, <2>1 DEF SnapshotInv, FieldInv, HoldPC, Of, writers
  <2> QED BY <2>1, <2>2, <2>3, <2>4 DEF SnapshotInv
<1>3. CASE SnapshotTaxonomy(c)
  <2>1. /\ TypeOK' /\ CountInv' /\ DiskInv' /\ FreedInv'
        /\ snap'[c].pc = "takeState" /\ snap'[c].gens["taxonomy"] = Last(taxonomy)
        /\ snap'[c].gens["index"] = snap[c].gens["index"] /\ snap[c].pc = "takeTaxonomy"
        /\ \A d \in Client \ {c} : snap'[d] = snap[d]
    <3>1. Snap(c, "takeTaxonomy", "takeState", "taxonomy", Last(taxonomy)) /\ snapshots' = snapshots
          /\ snap[c].pc = "takeTaxonomy"
      BY <1>3 DEF SnapshotTaxonomy, Snap, counts
    <3> QED BY <1>0, <1>1, <3>1, TakeKeeps DEF Part
  <2>2. snap[c].gens["index"] \in DOMAIN index
    BY <2>1 DEF SnapshotInv, FilesInv, HoldPC
  <2>3. FilesInv'
    BY <1>0, <1>1, <2>1, <2>2 DEF SnapshotInv, FilesInv, HoldPC
  <2>4. CategoryInv'
    BY <1>0, <2>1, <2>2 DEF SnapshotInv, CategoryInv, HoldPC, Of, writers
  <2>5. FieldInv'
    BY <1>0, <2>1 DEF SnapshotInv, FieldInv, HoldPC, Of, writers
  <2> QED BY <2>1, <2>3, <2>4, <2>5 DEF SnapshotInv
<1>4. CASE IncRefLastCommitGen(c)
  <2>1. /\ TypeOK' /\ CountInv' /\ DiskInv' /\ FreedInv'
        /\ snap'[c].pc = "held" /\ snap'[c].gens["state"] = Last(state)
        /\ snap'[c].gens["index"] = snap[c].gens["index"]
        /\ snap'[c].gens["taxonomy"] = snap[c].gens["taxonomy"]
        /\ snap[c].pc = "takeState" /\ commit = "idle"
        /\ \A d \in Client \ {c} : snap'[d] = snap[d]
    <3>1. Snap(c, "takeState", "held", "state", Last(state)) /\ snapshots' = snapshots
          /\ snap[c].pc = "takeState" /\ commit = "idle"
      BY <1>4 DEF IncRefLastCommitGen, MonitorFree, Snap, counts
    <3> QED BY <1>0, <1>1, <3>1, TakeKeeps DEF Part
  <2>2. snap[c].gens["index"] \in DOMAIN index /\ snap[c].gens["taxonomy"] \in DOMAIN taxonomy
    BY <2>1 DEF SnapshotInv, FilesInv, HoldPC
  <2>3. FilesInv'
    BY <1>0, <1>1, <2>1, <2>2 DEF SnapshotInv, FilesInv, HoldPC
  <2>4. CategoryInv'
    BY <1>0, <2>1, <2>2 DEF SnapshotInv, CategoryInv, HoldPC, Of, writers
  <2>5. FieldInv'
    BY <1>0, <2>1, <2>2 DEF SnapshotInv, FieldInv, HoldPC, Of, writers
  <2> QED BY <2>1, <2>3, <2>4, <2>5 DEF SnapshotInv
<1> QED BY <1>2, <1>3, <1>4

(* A client asks to release its snapshot. *)
LEMMA ReleaseStep == ASSUME SnapshotInv, NEW c \in Client, Release(c) PROVE SnapshotInv'
<1>1. /\ UNCHANGED <<up, writers, commit, began, taxonomy, index, state, refs>>
      /\ UNCHANGED <<commits, snapshots, crashes, cut>>
      /\ snap[c].pc = "held" /\ snap'[c].pc = "dropIndex" /\ snap'[c].gens = snap[c].gens
      /\ \A d \in Client \ {c} : snap'[d] = snap[d]
  BY DEF Release, disk, counts, SnapshotInv, TypeOK
<1>2. TypeOK'
  BY <1>1 DEF Release, SnapshotInv, TypeOK, writers
<1>3. CountInv'
  <2>1. \A p \in Part, g \in Gen : Holders(p, g)' = Holders(p, g) /\ Taking(p)' = Taking(p)
    BY <1>1 DEF Holders, Taking, HoldPC, TakePC, Part
  <2> QED BY <1>1, <2>1 DEF SnapshotInv, CountInv
<1>4. DiskInv' /\ FreedInv'
  BY <1>1 DEF SnapshotInv, DiskInv, FreedInv
<1>5. FilesInv'
  BY <1>1 DEF SnapshotInv, FilesInv, HoldPC
<1>6. CategoryInv' /\ FieldInv'
  BY <1>1 DEF SnapshotInv, CategoryInv, FieldInv, HoldPC, Of, writers
<1> QED BY <1>2, <1>3, <1>4, <1>5, <1>6 DEF SnapshotInv

(* A request that gives a reference back: what all three have in common. *)
LEMMA DropKeeps ==
  ASSUME SnapshotInv, NEW c \in Client, NEW p \in Part, NEW from, NEW to,
         up, snap[c].pc = from, DropRef(p, Of(c, p)),
         \/ snap' = [snap EXCEPT ![c].pc = to]
         \/ to = "none" /\ snap' = [snap EXCEPT ![c] = NoSnapshot],
         \/ p = "index" /\ from = "dropIndex" /\ to = "dropTaxonomy"
         \/ p = "taxonomy" /\ from = "dropTaxonomy" /\ to = "dropState"
         \/ p = "state" /\ from = "dropState" /\ to = "none",
         UNCHANGED <<up, writers, commit, began, state, counts>>,
         IF p = "index" THEN index' = Keep(index, refs'["index"]) ELSE index' = index,
         IF p = "taxonomy" THEN taxonomy' = Keep(taxonomy, refs'["taxonomy"])
                           ELSE taxonomy' = taxonomy
  PROVE  SnapshotInv'
<1>1. snap' \in [Client -> Request]
  <2>1. snap \in [Client -> Request]
    BY DEF SnapshotInv, TypeOK, Request
  <2>2. CASE snap' = [snap EXCEPT ![c] = NoSnapshot]
    BY <2>1, <2>2, NoSnapshotType
  <2>3. CASE snap' = [snap EXCEPT ![c].pc = to]
    BY <2>1, <2>3 DEF Request
  <2> QED BY <2>2, <2>3
<1>2. /\ snap'[c].pc = to /\ (to # "none" => snap'[c].gens = snap[c].gens)
      /\ \A d \in Client \ {c} : snap'[d] = snap[d]
  BY DEF SnapshotInv, TypeOK, NoSnapshot
<1>3. /\ CountInv'
      /\ refs' \in [Part -> [Gen -> 0 .. MaxSnapshots]]
      /\ \A q \in Part, h \in Gen :
           refs'[q][h] = IF q = p /\ h = Of(c, p) THEN refs[q][h] - 1 ELSE refs[q][h]
  <2>1. \A q \in Part : to \in HoldPC[q] => snap'[c].gens[q] = snap[c].gens[q]
    BY <1>2 DEF HoldPC, Part
  <2> QED BY <1>2, <2>1, DropCounts DEF SnapshotInv, counts
<1>4. \A d \in Client, q \in Part : snap'[d].pc \in HoldPC[q] =>
        /\ snap[d].pc \in HoldPC[q] /\ snap'[d].gens[q] = snap[d].gens[q]
        /\ refs'[q][snap[d].gens[q]] # 0
  <2> TAKE d \in Client, q \in Part
  <2> HAVE snap'[d].pc \in HoldPC[q]
  <2>1. snap[d].pc \in HoldPC[q] /\ snap'[d].gens[q] = snap[d].gens[q]
    BY <1>2 DEF HoldPC, Part
  <2>2. PICK g \in Gen : g = snap[d].gens[q]
    BY DEF SnapshotInv, TypeOK
  <2>3. d \in Holders(q, g)' /\ Holders(q, g)' \in SUBSET Client
    BY <2>1, <2>2 DEF Holders
  <2>4. refs'[q][g] \in Nat /\ Cardinality(Holders(q, g)') <= refs'[q][g]
    BY <1>3, SnapshotsAssumption DEF CountInv
  <2>5. refs'[q][g] # 0
    BY <2>3, <2>4, Referenced
  <2> QED BY <2>1, <2>2, <2>5
<1>5. /\ OnDisk(index') /\ Last(index') = Last(index)
      /\ DOMAIN index' \subseteq DOMAIN index /\ \A g \in DOMAIN index' : index'[g] = index[g]
      /\ \A g \in DOMAIN index : refs'["index"][g] # 0 => g \in DOMAIN index'
      /\ \A g \in DOMAIN index' : g = Last(index') \/ refs'["index"][g] # 0
  <2>1. CASE p = "index"
    <3>1. Kept(index, refs'["index"], index')
      BY <2>1, KeptBy DEF SnapshotInv, DiskInv
    <3> QED BY <3>1 DEF Kept
  <2>2. CASE p # "index"
    BY <1>3, <2>2 DEF SnapshotInv, DiskInv, FreedInv, TypeOK, Part
  <2> QED BY <2>1, <2>2
<1>6. /\ OnDisk(taxonomy') /\ Last(taxonomy') = Last(taxonomy)
      /\ DOMAIN taxonomy' \subseteq DOMAIN taxonomy
      /\ \A g \in DOMAIN taxonomy' : taxonomy'[g] = taxonomy[g]
      /\ \A g \in DOMAIN taxonomy : refs'["taxonomy"][g] # 0 => g \in DOMAIN taxonomy'
      /\ \A g \in DOMAIN taxonomy' : g = Last(taxonomy') \/ refs'["taxonomy"][g] # 0
  <2>1. CASE p = "taxonomy"
    <3>1. Kept(taxonomy, refs'["taxonomy"], taxonomy')
      BY <2>1, KeptBy DEF SnapshotInv, DiskInv
    <3> QED BY <3>1 DEF Kept
  <2>2. CASE p # "taxonomy"
    BY <1>3, <2>2 DEF SnapshotInv, DiskInv, FreedInv, TypeOK, Part
  <2> QED BY <2>1, <2>2
<1>7. TypeOK'
  BY <1>1, <1>3, <1>5, <1>6 DEF SnapshotInv, TypeOK, Request, writers, counts
<1>8. DiskInv'
  BY <1>5, <1>6 DEF SnapshotInv, DiskInv, counts
<1>9. FilesInv'
  BY <1>4, <1>5, <1>6 DEF SnapshotInv, FilesInv, Part
<1>10. FreedInv'
  BY <1>5, <1>6 DEF FreedInv
<1>11. \A d \in Client : snap'[d].pc \in HoldPC["index"] =>
         Of(d, "index")' = Of(d, "index") /\ index'[Of(d, "index")] = index[Of(d, "index")]
  BY <1>4, <1>5 DEF SnapshotInv, FilesInv, Of, Part
<1>12. \A d \in Client : snap'[d].pc \in HoldPC["taxonomy"] =>
         /\ Of(d, "taxonomy")' = Of(d, "taxonomy")
         /\ taxonomy'[Of(d, "taxonomy")] = taxonomy[Of(d, "taxonomy")]
  BY <1>4, <1>6 DEF SnapshotInv, FilesInv, Of, Part
<1>13. CategoryInv'
  <2>1. \A d \in Client : snap'[d].pc \in HoldPC["taxonomy"] \cap HoldPC["index"] =>
          index'[Of(d, "index")'].covered \subseteq taxonomy'[Of(d, "taxonomy")']
    BY <1>4, <1>11, <1>12 DEF SnapshotInv, CategoryInv, Part
  <2>2. taxonomy'[Last(taxonomy')] = taxonomy[Last(taxonomy)]
    BY <1>6, LastOf
  <2>3. \A g \in DOMAIN index' : index'[g].covered \subseteq taxonomy'[Last(taxonomy')]
    BY <1>5, <2>2 DEF SnapshotInv, CategoryInv
  <2> QED BY <2>1, <2>2, <2>3 DEF SnapshotInv, CategoryInv, writers
<1>14. FieldInv'
  <2> SUFFICES ASSUME ~ cut PROVE FieldInv'
    BY DEF FieldInv, counts
  <2>1. \A d \in Client : snap'[d].pc \in HoldPC["state"] \cap HoldPC["index"] =>
          index'[Of(d, "index")'].field <= state'[Of(d, "state")']
    BY <1>4, <1>11 DEF SnapshotInv, FieldInv, Of, Part
  <2> QED BY <1>5, <2>1 DEF SnapshotInv, FieldInv, writers
<1> QED BY <1>3, <1>7, <1>8, <1>9, <1>10, <1>13, <1>14 DEF SnapshotInv

(* The three steps of releaseSnapshot. *)
LEMMA DropStep ==
  ASSUME SnapshotInv, NEW c \in Client, ReleaseIndex(c) \/ ReleaseTaxonomy(c) \/ DecRef(c)
  PROVE  SnapshotInv'
<1>1. CASE ReleaseIndex(c)
  BY <1>1, DropKeeps DEF ReleaseIndex, Drop, Part
<1>2. CASE ReleaseTaxonomy(c)
  BY <1>2, DropKeeps DEF ReleaseTaxonomy, Drop, Part
<1>3. CASE DecRef(c)
  BY <1>3, DropKeeps DEF DecRef, Part
<1> QED BY <1>1, <1>2, <1>3

(* A crash leaves the disk, and the snapshots that were answered. *)
LEMMA CrashStep == ASSUME SnapshotInv, Crash PROVE SnapshotInv'
<1>1. /\ UNCHANGED <<taxonomy, index, state, refs, commits, snapshots>>
      /\ up' = FALSE /\ commit' = "idle" /\ began' = {} /\ crashes' = crashes + 1
      /\ cut' = (cut \/ commit = "save")
      /\ snap' = [c \in Client |-> AfterCrash(snap[c])]
  BY DEF Crash, disk
<1>2. \A c \in Client : (snap'[c] = snap[c] /\ snap[c].pc = "held") \/ snap'[c] = NoSnapshot
  BY <1>1 DEF AfterCrash
<1>3. TypeOK'
  <2>1. snap' \in [Client -> Request]
    BY <1>1, <1>2, NoSnapshotType DEF SnapshotInv, TypeOK, Request
  <2>2. /\ up' \in BOOLEAN /\ cut' \in BOOLEAN /\ fields' = 0 /\ cats' = {} /\ docs' = {}
        /\ docField' = 0 /\ pending' = {}
    BY DEF Crash, SnapshotInv, TypeOK
  <2> QED BY <1>1, <2>1, <2>2, SnapshotsAssumption DEF SnapshotInv, TypeOK, Request
<1>4. CountInv'
  <2>1. ASSUME NEW p \in Part, NEW g \in Gen
        PROVE  /\ Cardinality(Holders(p, g)') <= refs'[p][g]
               /\ refs'[p][g] + Cardinality(Taking(p)') <= snapshots'
    <3>1. Holders(p, g)' \subseteq Holders(p, g) /\ Holders(p, g) \in SUBSET Client
      BY <1>2 DEF Holders, HoldPC, NoSnapshot, Part
    <3>2. Cardinality(Holders(p, g)') <= Cardinality(Holders(p, g))
      BY <3>1, SubsetOfClient, FS_Subset
    <3>3. Taking(p)' = {}
      BY <1>2 DEF Taking, TakePC, NoSnapshot, Part
    <3>4. Cardinality(Taking(p)') = 0
      BY <3>3, FS_EmptySet
    <3>5. Taking(p) \in SUBSET Client
      BY DEF Taking
    <3>6. Cardinality(Taking(p)) \in Nat /\ Cardinality(Holders(p, g)) \in Nat
          /\ Cardinality(Holders(p, g)') \in Nat /\ refs[p][g] \in Nat
      BY <3>1, <3>5, SubsetOfClient, SnapshotsAssumption DEF SnapshotInv, TypeOK
    <3> QED BY <1>1, <3>2, <3>4, <3>6 DEF SnapshotInv, CountInv
  <2> QED BY <1>1, <2>1 DEF SnapshotInv, CountInv
<1>5. DiskInv'
  <2>1. Last(taxonomy) \in Nat /\ Last(index) \in Nat /\ Last(state) \in Nat /\ commits \in Nat
    BY LastOf, SnapshotsAssumption DEF SnapshotInv, DiskInv, OnDisk
  <2> QED BY <1>1, <2>1 DEF SnapshotInv, DiskInv
<1>6. FilesInv'
  BY <1>1, <1>2 DEF SnapshotInv, FilesInv, HoldPC, NoSnapshot
<1>7. FreedInv'
  BY <1>1, FreedStays DEF SnapshotInv
<1>8. \A c \in Client, q \in Part : snap'[c].pc \in HoldPC[q] => snap'[c] = snap[c]
  BY <1>2 DEF HoldPC, NoSnapshot, Part
<1>9. CategoryInv'
  BY <1>1, <1>8 DEF SnapshotInv, CategoryInv, Of, Part
<1>10. FieldInv'
  <2> SUFFICES ASSUME ~ cut, commit # "save" PROVE FieldInv'
    BY <1>1 DEF FieldInv
  <2> QED BY <1>1, <1>8 DEF SnapshotInv, FieldInv, Of, Part
<1> QED BY <1>3, <1>4, <1>5, <1>6, <1>7, <1>9, <1>10 DEF SnapshotInv

(* A restart deletes only what has no reference. *)
LEMMA RestartStep == ASSUME SnapshotInv, Restart PROVE SnapshotInv'
<1>1. /\ UNCHANGED <<pending, commit, began, refs, snap, commits, snapshots, crashes, cut>>
      /\ up' /\ commit = "idle" /\ began = {}
      /\ fields' = state[Last(state)] /\ cats' = taxonomy[Last(taxonomy)]
      /\ docs' = index[Last(index)].docs /\ docField' = index[Last(index)].field
      /\ taxonomy' = Keep(taxonomy, refs["taxonomy"]) /\ index' = Keep(index, refs["index"])
      /\ state' = Keep(state, refs["state"])
  BY DEF Restart, counts, SnapshotInv, CategoryInv
<1>2. /\ OnDisk(index') /\ Last(index') = Last(index) /\ DOMAIN index' \subseteq DOMAIN index
      /\ \A g \in DOMAIN index' : index'[g] = index[g]
      /\ \A g \in DOMAIN index : refs["index"][g] # 0 => g \in DOMAIN index'
      /\ \A g \in DOMAIN index' : g = Last(index') \/ refs["index"][g] # 0
  <2>1. Kept(index, refs["index"], index')
    BY <1>1, KeptBy DEF SnapshotInv, DiskInv
  <2> QED BY <2>1 DEF Kept
<1>3. /\ OnDisk(taxonomy') /\ Last(taxonomy') = Last(taxonomy)
      /\ DOMAIN taxonomy' \subseteq DOMAIN taxonomy
      /\ \A g \in DOMAIN taxonomy' : taxonomy'[g] = taxonomy[g]
      /\ \A g \in DOMAIN taxonomy : refs["taxonomy"][g] # 0 => g \in DOMAIN taxonomy'
      /\ \A g \in DOMAIN taxonomy' : g = Last(taxonomy') \/ refs["taxonomy"][g] # 0
  <2>1. Kept(taxonomy, refs["taxonomy"], taxonomy')
    BY <1>1, KeptBy DEF SnapshotInv, DiskInv
  <2> QED BY <2>1 DEF Kept
<1>4. /\ OnDisk(state') /\ Last(state') = Last(state) /\ DOMAIN state' \subseteq DOMAIN state
      /\ \A g \in DOMAIN state' : state'[g] = state[g]
      /\ \A g \in DOMAIN state : refs["state"][g] # 0 => g \in DOMAIN state'
  <2>1. Kept(state, refs["state"], state')
    BY <1>1, KeptBy DEF SnapshotInv, DiskInv
  <2> QED BY <2>1 DEF Kept
<1>5. /\ Last(index) \in DOMAIN index /\ Last(taxonomy) \in DOMAIN taxonomy
      /\ Last(state) \in DOMAIN state
      /\ index'[Last(index')] = index[Last(index)] /\ state'[Last(state')] = state[Last(state)]
      /\ taxonomy'[Last(taxonomy')] = taxonomy[Last(taxonomy)]
  BY <1>2, <1>3, <1>4, LastOf DEF SnapshotInv, DiskInv
<1>6. \A c \in Client, p \in Part : snap[c].pc \in HoldPC[p] => refs[p][snap[c].gens[p]] # 0
  BY HeldReferenced DEF SnapshotInv, Of
<1>7. TypeOK'
  <2>1. docs' \subseteq Docs /\ cats' \subseteq Docs /\ fields' \in 0 .. MaxFields
        /\ docField' \in 0 .. MaxFields
    BY <1>1, <1>5 DEF SnapshotInv, DiskInv
  <2> QED BY <1>1, <1>2, <1>3, <1>4, <2>1 DEF SnapshotInv, TypeOK
<1>8. CountInv'
  BY <1>1, CountsStay DEF SnapshotInv
<1>9. DiskInv'
  BY <1>1, <1>2, <1>3, <1>4 DEF SnapshotInv, DiskInv
<1>10. FilesInv'
  BY <1>1, <1>2, <1>3, <1>4, <1>6 DEF SnapshotInv, FilesInv, Part
<1>11. FreedInv'
  BY <1>1, <1>2, <1>3 DEF FreedInv
<1>12. CategoryInv'
  <2>1. \A c \in Client : snap[c].pc \in HoldPC["taxonomy"] \cap HoldPC["index"] =>
          /\ index'[Of(c, "index")] = index[Of(c, "index")]
          /\ taxonomy'[Of(c, "taxonomy")] = taxonomy[Of(c, "taxonomy")]
    BY <1>2, <1>3, <1>6 DEF SnapshotInv, FilesInv, Of, Part
  <2> QED BY <1>1, <1>2, <1>5, <2>1 DEF SnapshotInv, CategoryInv, Of
<1>13. FieldInv'
  <2> SUFFICES ASSUME ~ cut PROVE FieldInv'
    BY <1>1 DEF FieldInv
  <2>1. \A c \in Client : snap[c].pc \in HoldPC["state"] \cap HoldPC["index"] =>
          /\ index'[Of(c, "index")] = index[Of(c, "index")]
          /\ state'[Of(c, "state")] = state[Of(c, "state")]
    BY <1>2, <1>4, <1>6 DEF SnapshotInv, FilesInv, Of, Part
  <2>2. \A g \in DOMAIN index : index[g].field <= state[Last(state)]
    BY <1>1 DEF SnapshotInv, FieldInv
  <2>3. state[Last(state)] \in Nat
    BY <1>5, SnapshotsAssumption DEF SnapshotInv, DiskInv
  <2>4. /\ docField' <= fields' /\ state'[Last(state')] <= fields'
        /\ \A g \in DOMAIN index' : index'[g].field <= fields'
                                 /\ index'[g].field <= state'[Last(state')]
    BY <1>1, <1>2, <1>5, <2>2, <2>3
  <2>5. \A c \in Client : snap'[c].pc \in HoldPC["state"] \cap HoldPC["index"] =>
          index'[Of(c, "index")'].field <= state'[Of(c, "state")']
    BY <1>1, <2>1 DEF SnapshotInv, FieldInv, Of
  <2> QED BY <2>4, <2>5 DEF FieldInv
<1> QED BY <1>7, <1>8, <1>9, <1>10, <1>11, <1>12, <1>13 DEF SnapshotInv

-----------------------------------------------------------------------------
(* The invariant holds at the start. *)
LEMMA SnapshotInit == ASSUME Init PROVE SnapshotInv
<1>1. /\ OnDisk(taxonomy) /\ Last(taxonomy) = 1 /\ DOMAIN taxonomy = {1} /\ taxonomy[1] = {}
      /\ OnDisk(index) /\ Last(index) = 1 /\ DOMAIN index = {1}
      /\ index[1] = [docs |-> {}, covered |-> {}, field |-> 0]
      /\ OnDisk(state) /\ Last(state) = 0 /\ DOMAIN state = {0} /\ state[0] = 0
  <2>1. /\ DOMAIN taxonomy = {1} /\ DOMAIN index = {1} /\ DOMAIN state = {0}
        /\ taxonomy[1] = {} /\ index[1] = [docs |-> {}, covered |-> {}, field |-> 0] /\ state[0] = 0
    BY DEF Init
  <2> QED BY <2>1, LastIs
<1>2. \A c \in Client : snap[c] = NoSnapshot
  BY DEF Init
<1>3. TypeOK
  <2>1. snap \in [Client -> Request]
    BY <1>2, NoSnapshotType DEF Init, Request
  <2>2. refs \in [Part -> [Gen -> 0 .. MaxSnapshots]]
    BY SnapshotsAssumption DEF Init
  <2>3. {0} \subseteq Gen /\ {1} \subseteq Gen
    BY SnapshotsAssumption DEF Gen
  <2>4. /\ fields \in 0 .. MaxFields /\ docField \in 0 .. MaxFields
        /\ docs \subseteq Docs /\ cats \subseteq Docs /\ pending \subseteq Docs /\ began \subseteq docs
        /\ commit \in {"idle", "first", "second", "save"}
    BY SnapshotsAssumption DEF Init
  <2>5. DOMAIN taxonomy \subseteq Gen /\ DOMAIN index \subseteq Gen /\ DOMAIN state \subseteq Gen
    BY <1>1, <2>3
  <2>6. up \in BOOLEAN /\ cut \in BOOLEAN
    BY DEF Init
  <2> QED BY <2>1, <2>2, <2>4, <2>5, <2>6 DEF TypeOK, Request
<1>4. CountInv
  <2>1. \A p \in Part, g \in Gen : Holders(p, g) = {} /\ Taking(p) = {} /\ refs[p][g] = 0
    BY <1>2 DEF Init, Holders, Taking, HoldPC, TakePC, NoSnapshot, Part
  <2> QED BY <2>1, FS_EmptySet, SnapshotsAssumption DEF Init, CountInv
<1>5. DiskInv
  BY <1>1, SnapshotsAssumption DEF Init, DiskInv
<1>6. FilesInv /\ FreedInv
  BY <1>1, <1>2 DEF FilesInv, FreedInv, HoldPC, NoSnapshot
<1>7. CategoryInv /\ FieldInv
  BY <1>1, <1>2 DEF Init, CategoryInv, FieldInv, HoldPC, NoSnapshot
<1> QED BY <1>3, <1>4, <1>5, <1>6, <1>7 DEF SnapshotInv

(* It is invariant. *)
LEMMA SnapshotInvariant == Spec => []SnapshotInv
<1>1. Init => SnapshotInv
  BY SnapshotInit
<1>2. SnapshotInv /\ [Next]_vars => SnapshotInv'
  <2> SUFFICES ASSUME SnapshotInv, [Next]_vars PROVE SnapshotInv'
    OBVIOUS
  <2>1. CASE RegisterField \/ AddCategory \/ AddDocument
    BY <2>1, IndexingStep
  <2>2. CASE BeginCommit
    BY <2>2, BeginStep
  <2>3. CASE CommitStep
    BY <2>3, TaxonomyStep, IndexStep DEF CommitStep
  <2>4. CASE SaveState
    BY <2>4, SaveStep
  <2>5. ASSUME NEW c \in Client, SnapshotIndex(c) \/ SnapshotTaxonomy(c) \/ IncRefLastCommitGen(c)
        PROVE SnapshotInv'
    BY <2>5, TakeStep
  <2>6. ASSUME NEW c \in Client, Release(c) PROVE SnapshotInv'
    BY <2>6, ReleaseStep
  <2>7. ASSUME NEW c \in Client, ReleaseIndex(c) \/ ReleaseTaxonomy(c) \/ DecRef(c)
        PROVE SnapshotInv'
    BY <2>7, DropStep
  <2>8. CASE Crash
    BY <2>8, CrashStep
  <2>9. CASE Restart
    BY <2>9, RestartStep
  <2>10. CASE UNCHANGED vars
    <3>1. UNCHANGED <<up, writers, commit, began, taxonomy, index, state, refs, snap, counts>>
      BY <2>10 DEF vars, disk
    <3>2. CountInv' /\ FilesInv' /\ FreedInv'
      BY <3>1, CountsStay, FilesStay, FreedStays DEF SnapshotInv, counts
    <3>3. TypeOK' /\ DiskInv'
      BY <3>1 DEF SnapshotInv, TypeOK, DiskInv, writers, counts
    <3>4. CategoryInv' /\ FieldInv'
      BY <3>1 DEF SnapshotInv, CategoryInv, FieldInv, Of, writers, counts
    <3> QED BY <3>2, <3>3, <3>4 DEF SnapshotInv
  <2> QED BY <2>1, <2>2, <2>3, <2>4, <2>5, <2>6, <2>7, <2>8, <2>9, <2>10 DEF Next
<1> QED BY <1>1, <1>2, PTL DEF Spec

(* Every variable keeps its type; references are never negative. *)
THEOREM SnapshotTypes == Spec => []TypeOK
<1>1. SnapshotInv => TypeOK
  BY DEF SnapshotInv
<1> QED BY <1>1, SnapshotInvariant, PTL

(* The files of a snapshot are there as long as its client holds it, whatever other
   clients, commits, crashes and restarts do. *)
THEOREM SnapshotsKeepFiles == Spec => []SnapshotFilesKept
<1>1. SnapshotInv => SnapshotFilesKept
  BY DEF SnapshotInv, FilesInv, SnapshotFilesKept, Held, HoldPC, Of
<1> QED BY <1>1, SnapshotInvariant, PTL

(* The taxonomy of a snapshot has the categories of the documents that were in its index
   when the commit of that began. *)
THEOREM TaxonomiesCover == Spec => []TaxonomyCoversIndex
<1>1. SnapshotInv => TaxonomyCoversIndex
  BY DEF SnapshotInv, CategoryInv, TaxonomyCoversIndex, Held, HoldPC
<1> QED BY <1>1, SnapshotInvariant, PTL

(* The settings of a snapshot cover its index, unless a crash cut a commit. *)
THEOREM SettingsCover == Spec => []SettingsCoverIndex
<1>1. SnapshotInv => SettingsCoverIndex
  BY DEF SnapshotInv, FieldInv, SettingsCoverIndex, Held, HoldPC
<1> QED BY <1>1, SnapshotInvariant, PTL

(* Without a crash, released snapshots leave no reference behind, and no commit of index
   or taxonomy but the last. *)
THEOREM ReleasesFree == Spec => []ReleaseFrees
<1>1. SnapshotInv => ReleaseFrees
  <2> SUFFICES ASSUME SnapshotInv, crashes = 0, \A c \in Client : snap[c].pc = "none"
               PROVE  /\ \A p \in Part, g \in Gen : refs[p][g] = 0
                      /\ Cardinality(DOMAIN index) = 1 /\ Cardinality(DOMAIN taxonomy) = 1
    BY DEF ReleaseFrees
  <2>1. \A p \in Part, g \in Gen : refs[p][g] = 0
    <3>1. \A p \in Part, g \in Gen : Holders(p, g) = {}
      BY DEF Holders, HoldPC, Part
    <3> QED BY <3>1, FS_EmptySet DEF SnapshotInv, CountInv
  <2>2. DOMAIN index = {Last(index)} /\ DOMAIN taxonomy = {Last(taxonomy)}
    <3>1. Last(index) \in DOMAIN index /\ Last(taxonomy) \in DOMAIN taxonomy
      BY LastOf DEF SnapshotInv, DiskInv
    <3>2. DOMAIN index \subseteq Gen /\ DOMAIN taxonomy \subseteq Gen /\ FreedInv
      BY DEF SnapshotInv, TypeOK
    <3>3. \A g \in Gen : refs["index"][g] = 0 /\ refs["taxonomy"][g] = 0
      BY <2>1 DEF Part
    <3> QED BY ONLY <3>1, <3>2, <3>3 DEF FreedInv
  <2> QED BY <2>1, <2>2, FS_Singleton
<1> QED BY <1>1, SnapshotInvariant, PTL
=============================================================================
