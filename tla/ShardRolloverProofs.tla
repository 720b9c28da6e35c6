------------------------ MODULE ShardRolloverProofs ------------------------
(***************************************************************************)
(* Proofs about the rollover of shards, for any finite set of handlers and *)
(* any number of chunks, shards, workers and permits: a full shard is not  *)
(* forgotten, the permits of the pool are accounted for, and a shard's     *)
(* count is wrong only by the chunks that were moved on.                   *)
(***************************************************************************)
EXTENDS ShardRollover, FiniteSetTheorems, SequenceTheorems, TLAPS

\* Places of a handler: in the synchronized block after it set the flag; with a chunk
\* that is not submitted yet.
Inside   == {"flagged", "finish", "start"}
HasChunk == Inside \cup {"return", "submit"}

\* The force merge that the rollover itself submits when it finds the shard drained.
RolloverTask(s) == <<"finish", s, Rollover>>

(* The synchronized block has one owner, who has added the successor of the full
   shard; what it flagged stays the writable shard until it leaves. *)
HandlerInv ==
  /\ \A h \in Handlers : hpc[h] \in Inside <=> lock = h
  /\ \A h \in Handlers : hpc[h] \in Inside => writable < MaxShard /\ writable + 1 \in added

(* A chunk that was not submitted yet is nowhere; the queue has each chunk and each
   force merge that is queued, once. *)
ChunkInv ==
  /\ \A h \in Handlers, k \in 1 .. MaxChunks : k > nchunks[h] => cpc[<<h, k>>] = "none"
  /\ \A h \in Handlers : hpc[h] \in HasChunk => nchunks[h] # 0 /\ cpc[Cur(h)] = "none"
  /\ \A h \in Handlers : hpc[h] = "submit" => shard[Cur(h)] \in Shard
  /\ \A c \in Chunk : cpc[c] # "none" => shard[c] \in Shard

QueueInv ==
  /\ \A i \in 1 .. Len(queue) :
       /\ queue[i] \in Chunk => cpc[queue[i]] = "queued"
       /\ queue[i] \in FinishTask => tpc[queue[i]] = "queued"
  /\ \A i, j \in 1 .. Len(queue) : queue[i] = queue[j] => i = j

(* A rollover and a chunk submit one force merge at most. *)
TaskInv ==
  /\ \A s \in Shard : tpc[RolloverTask(s)] # "none" =>
       /\ s + 1 \in added
       /\ ~ \E h \in Handlers : hpc[h] \in {"flagged", "finish"} /\ writable = s
  /\ \A c \in Chunk, s \in Shard :
       cpc[c] \notin {"release", "done"} => tpc[<<"finish", s, c>>] = "none"

(* Only a force merge closes a shard. *)
ClosedInv == \A s \in Shard : finishing[s] = 2 => Submitted(s) # {}

(* A chunk is counted before it is told where to write, in a shard that is never later
   than the writable one: this only moves on. *)
CountInv ==
  /\ \A h \in Handlers, k \in 1 .. MaxChunks :
       k > nchunks[h] => counted[<<h, k>>] = -1 /\ shard[<<h, k>>] = -1
  /\ \A h \in Handlers : hpc[h] \in Inside => counted[Cur(h)] = -1 /\ shard[Cur(h)] = -1
  /\ \A h \in Handlers :
       hpc[h] = "return" => counted[Cur(h)] \in 0 .. writable /\ shard[Cur(h)] = -1
  /\ \A c \in Chunk : shard[c] # -1 => counted[c] \in 0 .. shard[c]

\* The chunks a shard counted, and those that were taken off it.
Counted(s)  == {c \in Chunk : counted[c] = s}
TakenOff(s) == {c \in Chunk : Uncounted(c) /\ shard[c] = s}

LedgerInv == \A s \in Shard : running[s] = Cardinality(Counted(s)) - Cardinality(TakenOff(s))

(* A chunk is not a force merge. *)
LEMMA Apart == \A c \in Chunk, t \in FinishTask : c # t
<1>1. \A c \in Chunk : Len(c) = 2
  BY DEF Chunk
<1>2. \A t \in FinishTask : Len(t) = 3
  BY DEF FinishTask
<1> QED BY <1>1, <1>2

(* The number of the current chunk of a handler makes it a chunk. *)
LEMMA Pairs == \A h \in Handlers, k \in 1 .. MaxChunks : <<h, k>> \in Chunk
BY DEF Chunk

(* A force merge of a shard, by the rollover or by a chunk, is one. *)
LEMMA Tasks ==
  \A s \in Shard : /\ RolloverTask(s) \in FinishTask /\ RolloverTask(s)[2] = s
                  /\ \A c \in Chunk : /\ <<"finish", s, c>> \in FinishTask
                                     /\ <<"finish", s, c>> # RolloverTask(s)
                                     /\ <<"finish", s, c>>[2] = s
<1>1. Rollover \notin Chunk
  BY RolloverAssumption DEF Chunk, Rollover
<1> QED BY <1>1 DEF FinishTask, RolloverTask

(* The two ends of finishIndexing name the force merge that is theirs. *)
LEMMA TaskOf ==
  ASSUME NEW s \in Shard, NEW r \in Shard, NEW x \in {Rollover} \cup Chunk,
         NEW y \in {Rollover} \cup Chunk, <<"finish", s, x>> = <<"finish", r, y>>
  PROVE  s = r /\ x = y
OBVIOUS

-----------------------------------------------------------------------------
(* Types. *)

(* Every variable has its type at the start. *)
LEMMA TypeInit == Init => TypeOK
<1> SUFFICES ASSUME Init PROVE TypeOK
  OBVIOUS
<1> USE RolloverAssumption DEF Init
<1>1. /\ lock \in Handlers \cup {NoThread} /\ writable \in Shard /\ added \subseteq Shard
      /\ writer \in [Shard -> {"none", "open", "closed"}]
      /\ docs \in [Shard -> Nat] /\ running \in [Shard -> Int] /\ finishing \in [Shard -> 0 .. 2]
  BY DEF Shard
<1>2. /\ hpc \in [Handlers -> {"next", "flagged", "finish", "start", "return", "submit", "failed"}]
      /\ nchunks \in [Handlers -> 0 .. MaxChunks]
      /\ counted \in [Chunk -> Shard \cup {-1}] /\ shard \in [Chunk -> Shard \cup {-1}]
  OBVIOUS
<1>3. /\ cpc \in [Chunk -> {"none", "queued", "index", "uncount", "check", "finish", "release", "done"}]
      /\ tpc \in [FinishTask -> {"none", "queued", "merge", "refresh", "close", "release", "done", "died"}]
      /\ queue \in Seq(Chunk \cup FinishTask) /\ permits \in 0 .. Permits
  OBVIOUS
<1> QED BY <1>1, <1>2, <1>3 DEF TypeOK

(* The current chunk of a handler that has one. *)
LEMMA CurIs ==
  ASSUME TypeOK, ChunkInv, NEW h \in Handlers, hpc[h] \in HasChunk
  PROVE  nchunks[h] \in 1 .. MaxChunks /\ Cur(h) \in Chunk /\ cpc[Cur(h)] = "none"
<1>1. nchunks[h] \in 1 .. MaxChunks /\ cpc[Cur(h)] = "none"
  BY RolloverAssumption DEF TypeOK, ChunkInv
<1> QED BY <1>1, Pairs DEF Cur

(* A handler in the block may add one to the writable shard. *)
LEMMA NextShard ==
  ASSUME TypeOK, HandlerInv, NEW h \in Handlers, hpc[h] \in Inside
  PROVE  writable + 1 \in Shard /\ writable \in Shard /\ lock = h
BY RolloverAssumption DEF TypeOK, HandlerInv, Shard

-----------------------------------------------------------------------------
(* Permits. *)

\* Where a chunk, and a force merge, holds a permit of the pool.
HeldPlaces == {"queued", "index", "uncount", "check", "finish", "release"}
HeldTasks  == {"queued", "merge", "refresh", "close", "release", "died"}

(* What holds a permit is finite. *)
LEMMA HoldingFinite == IsFiniteSet(Holding)
<1>1. IsFiniteSet(1 .. MaxChunks) /\ IsFiniteSet(Shard)
  BY RolloverAssumption, FS_Interval DEF Shard
<1>2. IsFiniteSet(Chunk)
  BY <1>1, RolloverAssumption, FS_Product DEF Chunk
<1>3. IsFiniteSet({Rollover} \cup Chunk)
  BY <1>2, FS_Singleton, FS_Union
<1> DEFINE Sub == Shard \X ({Rollover} \cup Chunk)
           trip == [p \in Sub |-> <<"finish", p[1], p[2]>>]
<1>4. IsFiniteSet(Sub)
  BY <1>1, <1>3, FS_Product
<1>5. trip \in [Sub -> FinishTask]
  BY DEF FinishTask
<1>6. \A t \in FinishTask : \E p \in Sub : trip[p] = t
  <2> SUFFICES ASSUME NEW t \in FinishTask PROVE \E p \in Sub : trip[p] = t
    OBVIOUS
  <2>1. PICK s \in Shard, x \in {Rollover} \cup Chunk : t = <<"finish", s, x>>
    BY DEF FinishTask
  <2>2. <<s, x>> \in Sub /\ trip[<<s, x>>] = t
    BY <2>1
  <2> QED BY <2>2
<1>7. IsFiniteSet(FinishTask)
  <2> HIDE DEF Sub, trip
  <2>1. trip \in Surjection(Sub, FinishTask)
    BY <1>5, <1>6 DEF Surjection
  <2> QED BY <1>4, <2>1, FS_Surjection
<1>8. IsFiniteSet(Chunk \cup FinishTask)
  BY <1>2, <1>7, FS_Union
<1>9. Holding \subseteq Chunk \cup FinishTask
  BY DEF Holding
<1> QED BY <1>8, <1>9, FS_Subset

(* A permit is taken by what held none. *)
LEMMA PermitTaken ==
  ASSUME PermitsAccounted, permits \in 0 .. Permits, NEW x, x \notin Holding,
         Holding' = Holding \cup {x}, permits > 0, permits' = permits - 1
  PROVE  PermitsAccounted' /\ permits' \in 0 .. Permits
<1>1. Cardinality(Holding') = Cardinality(Holding) + 1 /\ Cardinality(Holding) \in Nat
  BY HoldingFinite, FS_AddElement, FS_CardinalityType
<1> QED BY <1>1, RolloverAssumption DEF PermitsAccounted

(* A permit is given back. *)
LEMMA PermitBack ==
  ASSUME PermitsAccounted, permits \in 0 .. Permits, NEW x \in Holding,
         Holding' = Holding \ {x}, permits' = permits + 1
  PROVE  PermitsAccounted' /\ permits' \in 0 .. Permits
<1>1. Cardinality(Holding') = Cardinality(Holding) - 1 /\ Cardinality(Holding) \in Nat
      /\ Cardinality(Holding') \in Nat
  <2>1. IsFiniteSet(Holding')
    BY HoldingFinite, FS_RemoveElement
  <2> QED BY <2>1, HoldingFinite, FS_RemoveElement, FS_CardinalityType
<1> QED BY <1>1, RolloverAssumption DEF PermitsAccounted

(* A chunk that goes on keeps its permit. *)
LEMMA ChunkGoesOn ==
  ASSUME TypeOK, NEW c \in Chunk, cpc[c] \in HeldPlaces, NEW p \in HeldPlaces,
         cpc' = [cpc EXCEPT ![c] = p], tpc' = tpc
  PROVE  Holding' = Holding
BY Apart DEF TypeOK, Holding, HeldPlaces

(* So does a force merge. *)
LEMMA TaskGoesOn ==
  ASSUME TypeOK, NEW t \in FinishTask, tpc[t] \in HeldTasks, NEW p \in HeldTasks,
         tpc' = [tpc EXCEPT ![t] = p], cpc' = cpc
  PROVE  Holding' = Holding
BY Apart DEF TypeOK, Holding, HeldTasks

(* The force merge of finishIndexing takes a permit of its own. *)
LEMMA TaskTakes ==
  ASSUME TypeOK, PermitsAccounted, NEW t \in FinishTask, tpc[t] = "none", SubmitFinish(t),
         \/ cpc' = cpc
         \/ \E c \in Chunk : cpc[c] \in HeldPlaces /\ cpc' = [cpc EXCEPT ![c] = "release"]
  PROVE  PermitsAccounted' /\ permits' \in 0 .. Permits
<1>1. t \notin Holding
  BY Apart DEF Holding
<1>2. Holding' = Holding \cup {t}
  <2>1. \A c \in Chunk : cpc'[c] \notin {"none", "done"} <=> cpc[c] \notin {"none", "done"}
    BY DEF HeldPlaces, TypeOK
  <2>2. \A u \in FinishTask : tpc'[u] \notin {"none", "done"} <=> u = t \/ tpc[u] \notin {"none", "done"}
    BY DEF SubmitFinish, TypeOK
  <2> QED BY <2>1, <2>2 DEF Holding
<1>3. permits \in 0 .. Permits /\ permits > 0 /\ permits' = permits - 1
  BY DEF TypeOK, SubmitFinish
<1> QED BY <1>1, <1>2, <1>3, PermitTaken

(* What a pool thread takes from the queue is queued. *)
LEMMA HeadQueued ==
  ASSUME TypeOK, QueueInv, queue # << >>
  PROVE  /\ Len(queue) \in Nat \ {0} /\ Head(queue) = queue[1]
         /\ Head(queue) \in Chunk => cpc[Head(queue)] = "queued"
         /\ Head(queue) \in FinishTask => tpc[Head(queue)] = "queued"
<1>1. Len(queue) \in Nat \ {0} /\ Head(queue) = queue[1]
  BY DEF TypeOK
<1> QED BY <1>1 DEF QueueInv

(* Every step keeps the permits accounted for. *)
LEMMA PermitStep ==
  ASSUME TypeOK, HandlerInv, ChunkInv, QueueInv, TaskInv, PermitsAccounted, [Next]_vars
  PROVE  PermitsAccounted' /\ permits' \in 0 .. Permits
<1>0. permits \in 0 .. Permits
  BY DEF TypeOK
<1>a. UNCHANGED <<cpc, tpc, permits>> => PermitsAccounted' /\ permits' \in 0 .. Permits
  BY <1>0 DEF PermitsAccounted, Holding
<1>b. Holding' = Holding /\ permits' = permits => PermitsAccounted' /\ permits' \in 0 .. Permits
  BY <1>0 DEF PermitsAccounted
<1>1. ASSUME NEW h \in Handlers, GetWritableShard(h), ~ RolloverFinishes(h)
      PROVE  UNCHANGED <<cpc, tpc, permits>>
  BY <1>1 DEF GetWritableShard, UseShard, RollOver, RollOverFails, NextRequest, CheckDrained,
              StartNext, Return, chunkVars
<1>2. ASSUME NEW h \in Handlers, RolloverFinishes(h)
      PROVE  PermitsAccounted' /\ permits' \in 0 .. Permits
  <2> DEFINE t == RolloverTask(writable)
  <2>1. hpc[h] = "finish" /\ SubmitFinish(t) /\ cpc' = cpc
    BY <1>2 DEF RolloverFinishes, RolloverTask, chunkVars
  <2>2. writable \in Shard /\ t \in FinishTask
    BY Tasks DEF TypeOK
  <2>3. tpc[t] = "none"
    BY <2>1, <2>2 DEF TaskInv
  <2> HIDE DEF t
  <2> QED BY <2>1, <2>2, <2>3, TaskTakes
<1>3. ASSUME NEW h \in Handlers, Submit(h)
      PROVE  PermitsAccounted' /\ permits' \in 0 .. Permits
  <2>1. /\ permits > 0 /\ permits' = permits - 1 /\ hpc[h] = "submit"
        /\ cpc' = [cpc EXCEPT ![Cur(h)] = "queued"] /\ tpc' = tpc
    BY <1>3 DEF Submit
  <2>2. Cur(h) \in Chunk /\ cpc[Cur(h)] = "none"
    BY <2>1, CurIs DEF HasChunk
  <2>3. Cur(h) \notin Holding
    BY <2>2, Apart DEF Holding
  <2>4. Holding' = Holding \cup {Cur(h)}
    <3>1. \A c \in Chunk : cpc'[c] \notin {"none", "done"} <=> c = Cur(h) \/ cpc[c] \notin {"none", "done"}
      BY <2>1, <2>2 DEF TypeOK
    <3> QED BY <2>1, <2>2, <3>1 DEF Holding
  <2> QED BY <1>0, <2>1, <2>3, <2>4, PermitTaken
<1>4. ASSUME NEW c \in Chunk, StartChunk(c) \/ IndexChunk(c) \/ Uncount(c) \/ CheckFlag(c)
      PROVE  Holding' = Holding /\ permits' = permits
  <2>1. cpc[c] \in HeldPlaces
    BY <1>4, HeadQueued DEF StartChunk, IndexChunk, Uncount, CheckFlag, HeldPlaces
  <2>2. PICK p \in HeldPlaces : cpc' = [cpc EXCEPT ![c] = p]
    BY <1>4 DEF StartChunk, IndexChunk, Uncount, CheckFlag, HeldPlaces
  <2>3. tpc' = tpc /\ permits' = permits
    BY <1>4 DEF StartChunk, IndexChunk, Uncount, CheckFlag
  <2> QED BY <2>1, <2>2, <2>3, ChunkGoesOn
<1>5. ASSUME NEW c \in Chunk, ChunkFinishes(c)
      PROVE  PermitsAccounted' /\ permits' \in 0 .. Permits
  <2> DEFINE t == <<"finish", shard[c], c>>
  <2>1. /\ cpc[c] = "finish" /\ SubmitFinish(t) /\ cpc' = [cpc EXCEPT ![c] = "release"]
    BY <1>5 DEF ChunkFinishes
  <2>2. shard[c] \in Shard
    BY <2>1 DEF ChunkInv
  <2>3. t \in FinishTask /\ tpc[t] = "none"
    BY <2>1, <2>2, Tasks DEF TaskInv
  <2> HIDE DEF t
  <2> QED BY <2>1, <2>3, TaskTakes DEF HeldPlaces
<1>6. ASSUME NEW c \in Chunk, ReleaseChunk(c)
      PROVE  PermitsAccounted' /\ permits' \in 0 .. Permits
  <2>1. /\ cpc[c] = "release" /\ permits' = permits + 1
        /\ cpc' = [cpc EXCEPT ![c] = "done"] /\ tpc' = tpc
    BY <1>6 DEF ReleaseChunk
  <2>2. c \in Holding
    BY <2>1 DEF Holding
  <2>3. Holding' = Holding \ {c}
    <3>1. \A d \in Chunk : cpc'[d] \notin {"none", "done"} <=> d # c /\ cpc[d] \notin {"none", "done"}
      BY <2>1 DEF TypeOK
    <3> QED BY <2>1, <3>1, Apart DEF Holding
  <2> QED BY <1>0, <2>1, <2>2, <2>3, PermitBack
<1>7. ASSUME NEW t \in FinishTask, StartFinish(t) \/ ForceMerge(t) \/ Refresh(t) \/ CloseWriter(t)
      PROVE  Holding' = Holding /\ permits' = permits
  <2>1. tpc[t] \in HeldTasks
    BY <1>7, HeadQueued DEF StartFinish, ForceMerge, Refresh, NeedsWriter, CloseWriter, HeldTasks
  <2>2. PICK p \in HeldTasks : tpc' = [tpc EXCEPT ![t] = p]
    BY <1>7 DEF StartFinish, ForceMerge, Refresh, NeedsWriter, CloseWriter, HeldTasks
  <2>3. cpc' = cpc /\ permits' = permits
    BY <1>7 DEF StartFinish, ForceMerge, Refresh, NeedsWriter, CloseWriter, chunkVars
  <2> QED BY <2>1, <2>2, <2>3, TaskGoesOn
<1>8. ASSUME NEW t \in FinishTask, ReleaseFinish(t)
      PROVE  PermitsAccounted' /\ permits' \in 0 .. Permits
  <2>1. /\ tpc[t] = "release" /\ permits' = permits + 1
        /\ tpc' = [tpc EXCEPT ![t] = "done"] /\ cpc' = cpc
    BY <1>8 DEF ReleaseFinish, chunkVars
  <2>2. t \in Holding
    BY <2>1 DEF Holding
  <2>3. Holding' = Holding \ {t}
    <3>1. \A u \in FinishTask : tpc'[u] \notin {"none", "done"} <=> u # t /\ tpc[u] \notin {"none", "done"}
      BY <2>1 DEF TypeOK
    <3> QED BY <2>1, <3>1, Apart DEF Holding
  <2> QED BY <1>0, <2>1, <2>2, <2>3, PermitBack
<1>9. CASE UNCHANGED vars
  BY <1>a, <1>9 DEF vars
<1> QED BY <1>a, <1>b, <1>1, <1>2, <1>3, <1>4, <1>5, <1>6, <1>7, <1>8, <1>9
        DEF Next, RunChunk, FinishIndexing

-----------------------------------------------------------------------------
(* The other parts of the invariant, one by one. *)

(* The types are kept; the permits are PermitStep's. *)
LEMMA TypeStep ==
  ASSUME TypeOK, HandlerInv, ChunkInv, QueueInv, TaskInv, PermitsAccounted, [Next]_vars
  PROVE  TypeOK'
<1> USE RolloverAssumption
<1>0. permits' \in 0 .. Permits
  BY PermitStep
<1>1. ASSUME NEW h \in Handlers, UseShard(h) PROVE TypeOK'
  <2>2. CountChunk(h, nchunks[h] + 1, writable) \/ (HandlerGoes(h, "failed") /\ UNCHANGED <<running, counted>>)
    BY <1>1 DEF UseShard
  <2>3. writable \in Shard
    BY <1>1 DEF TypeOK
  <2>a. <<h, nchunks[h] + 1>> \in Chunk
    BY <1>1, Pairs DEF UseShard, TypeOK
  <2>4. running' \in [Shard -> Int] /\ counted' \in [Chunk -> Shard \cup {-1}]
    <3>1. CASE UNCHANGED <<running, counted>>
      BY <3>1 DEF TypeOK
    <3>2. CASE /\ running' = [running EXCEPT ![writable] = @ + 1]
               /\ counted' = [counted EXCEPT ![<<h, nchunks[h] + 1>>] = writable]
      BY <2>3, <2>a, <3>2 DEF TypeOK
    <3> QED BY <2>2, <3>1, <3>2 DEF CountChunk
  <2>5. hpc' \in [Handlers -> {"next", "flagged", "finish", "start", "return", "submit", "failed"}]
    BY <2>2 DEF CountChunk, HandlerGoes, TypeOK
  <2> QED BY <1>0, <1>1, <2>3, <2>4, <2>5
         DEF UseShard, HandlerGoes, CountChunk, shardVars, chunkVars, TypeOK
<1>2. ASSUME NEW h \in Handlers, RollOver(h) PROVE TypeOK'
  <2>1. writable + 1 \in Shard
    BY <1>2 DEF RollOver, TypeOK, Shard
  <2> QED BY <1>0, <1>2, <2>1
         DEF RollOver, HandlerGoes, shardVars, chunkVars, TypeOK
<1>3. ASSUME NEW h \in Handlers, RollOverFails(h) PROVE TypeOK'
  BY <1>0, <1>3 DEF RollOverFails, HandlerGoes, shardVars, chunkVars, TypeOK
<1>4. ASSUME NEW h \in Handlers, NextRequest(h) PROVE TypeOK'
  BY <1>0, <1>4 DEF NextRequest, HandlerGoes, shardVars, chunkVars, TypeOK
<1>5. ASSUME NEW h \in Handlers, CheckDrained(h) PROVE TypeOK'
  BY <1>0, <1>5 DEF CheckDrained, HandlerGoes, shardVars, chunkVars, TypeOK
<1>6. ASSUME NEW h \in Handlers, RolloverFinishes(h) PROVE TypeOK'
  <2>1. RolloverTask(writable) \in FinishTask
    BY Tasks DEF TypeOK
  <2> QED BY <1>0, <1>6, <2>1
         DEF RolloverFinishes, HandlerGoes, SubmitFinish, shardVars, chunkVars,
             RolloverTask, TypeOK
<1>7. ASSUME NEW h \in Handlers, StartNext(h) PROVE TypeOK'
  <2>1. writable + 1 \in Shard
    BY <1>7, NextShard DEF StartNext, Inside
  <2>2. CountChunk(h, nchunks[h], writable + 1) \/ (HandlerGoes(h, "failed") /\ UNCHANGED <<running, counted>>)
    BY <1>7 DEF StartNext
  <2>3. writable + 1 \in Shard
    BY <1>7, <2>1 DEF TypeOK
  <2>a. <<h, nchunks[h]>> \in Chunk
    BY <1>7, CurIs DEF StartNext, HasChunk, Inside, Cur
  <2>4. running' \in [Shard -> Int] /\ counted' \in [Chunk -> Shard \cup {-1}]
    <3>1. CASE UNCHANGED <<running, counted>>
      BY <3>1 DEF TypeOK
    <3>2. CASE /\ running' = [running EXCEPT ![writable + 1] = @ + 1]
               /\ counted' = [counted EXCEPT ![<<h, nchunks[h]>>] = writable + 1]
      BY <2>3, <2>a, <3>2 DEF TypeOK
    <3> QED BY <2>2, <3>1, <3>2 DEF CountChunk
  <2>5. hpc' \in [Handlers -> {"next", "flagged", "finish", "start", "return", "submit", "failed"}]
    BY <2>2 DEF CountChunk, HandlerGoes, TypeOK
  <2> QED BY <1>0, <1>7, <2>1, <2>3, <2>4, <2>5
         DEF StartNext, HandlerGoes, CountChunk, shardVars, chunkVars, TypeOK
<1>8. ASSUME NEW h \in Handlers, Return(h) PROVE TypeOK'
  BY <1>0, <1>8 DEF Return, HandlerGoes, shardVars, chunkVars, TypeOK
<1>9. ASSUME NEW h \in Handlers, Submit(h) PROVE TypeOK'
  <2>1. Cur(h) \in Chunk
    BY <1>9, CurIs DEF Submit, HasChunk
  <2> QED BY <1>0, <1>9, <2>1
         DEF Submit, HandlerGoes, shardVars, chunkVars, TypeOK
<1>10. ASSUME NEW c \in Chunk, StartChunk(c) PROVE TypeOK'
  BY <1>0, <1>10 DEF StartChunk, shardVars, chunkVars, TypeOK
<1>11. ASSUME NEW c \in Chunk, IndexChunk(c) PROVE TypeOK'
  <2>0. shard[c] \in Shard
    BY <1>11 DEF IndexChunk, ChunkInv
  <2>1. docs' \in [Shard -> Nat]
    BY <1>11, <2>0 DEF IndexChunk, TypeOK
  <2> QED BY <1>0, <1>11, <2>1
         DEF IndexChunk, shardVars, chunkVars, TypeOK
<1>12. ASSUME NEW c \in Chunk, Uncount(c) PROVE TypeOK'
  <2>0. shard[c] \in Shard
    BY <1>12 DEF Uncount, ChunkInv
  <2>1. running' \in [Shard -> Int]
    BY <1>12, <2>0 DEF Uncount, TypeOK
  <2> QED BY <1>0, <1>12, <2>1
         DEF Uncount, shardVars, chunkVars, TypeOK
<1>13. ASSUME NEW c \in Chunk, CheckFlag(c) PROVE TypeOK'
  BY <1>0, <1>13 DEF CheckFlag, shardVars, chunkVars, TypeOK
<1>14. ASSUME NEW c \in Chunk, ChunkFinishes(c) PROVE TypeOK'
  <2>0. shard[c] \in Shard
    BY <1>14 DEF ChunkFinishes, ChunkInv
  <2>1. <<"finish", shard[c], c>> \in FinishTask
    BY <2>0, Tasks
  <2> QED BY <1>0, <1>14, <2>1
         DEF ChunkFinishes, SubmitFinish, shardVars, chunkVars, TypeOK
<1>15. ASSUME NEW c \in Chunk, ReleaseChunk(c) PROVE TypeOK'
  BY <1>0, <1>15 DEF ReleaseChunk, shardVars, chunkVars, TypeOK
<1>16. ASSUME NEW t \in FinishTask, StartFinish(t) PROVE TypeOK'
  BY <1>0, <1>16 DEF StartFinish, shardVars, chunkVars, TypeOK
<1>17. ASSUME NEW t \in FinishTask, ForceMerge(t) PROVE TypeOK'
  BY <1>0, <1>17 DEF ForceMerge, NeedsWriter, shardVars, chunkVars, TypeOK
<1>18. ASSUME NEW t \in FinishTask, Refresh(t) PROVE TypeOK'
  BY <1>0, <1>18 DEF Refresh, NeedsWriter, shardVars, chunkVars, TypeOK
<1>19. ASSUME NEW t \in FinishTask, CloseWriter(t) PROVE TypeOK'
  <2>0. t[2] \in Shard
    BY DEF FinishTask
  <2>1. finishing' \in [Shard -> 0 .. 2] /\ writer' \in [Shard -> {"none", "open", "closed"}]
    BY <1>19, <2>0 DEF CloseWriter, TypeOK
  <2> QED BY <1>0, <1>19, <2>1
         DEF CloseWriter, shardVars, chunkVars, TypeOK
<1>20. ASSUME NEW t \in FinishTask, ReleaseFinish(t) PROVE TypeOK'
  BY <1>0, <1>20 DEF ReleaseFinish, shardVars, chunkVars, TypeOK
<1>21. CASE UNCHANGED vars
  BY <1>21 DEF vars, TypeOK
<1> QED BY <1>1, <1>2, <1>3, <1>4, <1>5, <1>6, <1>7, <1>8, <1>9, <1>10, <1>11,
          <1>12, <1>13, <1>14, <1>15, <1>16, <1>17, <1>18, <1>19, <1>20, <1>21
        DEF Next, GetWritableShard, RunChunk, FinishIndexing

-----------------------------------------------------------------------------
(* The pool leaves the handlers alone. *)
LEMMA PoolLeaves ==
  ASSUME (\E c \in Chunk : RunChunk(c)) \/ (\E t \in FinishTask : FinishIndexing(t)) \/ UNCHANGED vars
  PROVE  UNCHANGED <<lock, writable, added, hpc, nchunks, counted, shard>>
BY DEF RunChunk, StartChunk, IndexChunk, Uncount, CheckFlag, ChunkFinishes, ReleaseChunk,
       FinishIndexing, StartFinish, ForceMerge, Refresh, NeedsWriter, CloseWriter, ReleaseFinish,
       vars, shardVars, chunkVars

(* A force merge that was submitted stays so, and only finishIndexing submits one. *)
LEMMA TaskMoves ==
  ASSUME TypeOK, QueueInv, NEW t \in FinishTask, FinishIndexing(t)
  PROVE  /\ UNCHANGED cpc
         /\ tpc[t] # "none" /\ \E p : p # "none" /\ tpc' = [tpc EXCEPT ![t] = p]
         /\ \A u \in FinishTask : tpc'[u] = "none" <=> tpc[u] = "none"
<1>1. UNCHANGED cpc
  BY DEF FinishIndexing, StartFinish, ForceMerge, Refresh, NeedsWriter, CloseWriter, ReleaseFinish,
         chunkVars
<1>2. tpc[t] # "none"
  BY HeadQueued DEF FinishIndexing, StartFinish, ForceMerge, Refresh, NeedsWriter, CloseWriter,
                    ReleaseFinish
<1>3. PICK p : p # "none" /\ tpc' = [tpc EXCEPT ![t] = p]
  BY DEF FinishIndexing, StartFinish, ForceMerge, Refresh, NeedsWriter, CloseWriter, ReleaseFinish
<1> QED BY <1>1, <1>2, <1>3 DEF TypeOK

(* A chunk in the pool moves on; it does not start again. *)
LEMMA ChunkMoves ==
  ASSUME TypeOK, QueueInv, NEW c \in Chunk, RunChunk(c)
  PROVE  /\ cpc[c] \notin {"none", "done"}
         /\ \E p : /\ p # "none" /\ cpc' = [cpc EXCEPT ![c] = p]
                 /\ (p \in {"release", "done"} \/ cpc[c] \notin {"release", "done"})
         /\ \A d \in Chunk : cpc'[d] = "none" <=> cpc[d] = "none"
         /\ \A d \in Chunk : cpc[d] \in {"release", "done"} => cpc'[d] \in {"release", "done"}
<1>1. cpc[c] \notin {"none", "done"}
  BY HeadQueued DEF RunChunk, StartChunk, IndexChunk, Uncount, CheckFlag, ChunkFinishes, ReleaseChunk
<1>2. PICK p : /\ p # "none" /\ cpc' = [cpc EXCEPT ![c] = p]
               /\ p \in {"release", "done"} \/ cpc[c] \notin {"release", "done"}
  BY HeadQueued DEF RunChunk, StartChunk, IndexChunk, Uncount, CheckFlag, ChunkFinishes, ReleaseChunk
<1> QED BY <1>1, <1>2 DEF TypeOK

(* One handler at a time is in the block. *)
LEMMA HandlerStep ==
  ASSUME TypeOK, HandlerInv, [Next]_vars PROVE HandlerInv'
<1> USE RolloverAssumption DEF HandlerInv, Inside
<1>1. ASSUME NEW h \in Handlers, UseShard(h) PROVE HandlerInv'
  BY <1>1 DEF UseShard, HandlerGoes, CountChunk, shardVars, TypeOK
<1>2. ASSUME NEW h \in Handlers, RollOver(h) PROVE HandlerInv'
  BY <1>2 DEF RollOver, HandlerGoes, shardVars, TypeOK
<1>3. ASSUME NEW h \in Handlers, RollOverFails(h) PROVE HandlerInv'
  BY <1>3 DEF RollOverFails, HandlerGoes, shardVars, TypeOK
<1>4. ASSUME NEW h \in Handlers, NextRequest(h) PROVE HandlerInv'
  BY <1>4 DEF NextRequest, HandlerGoes, shardVars, TypeOK
<1>5. ASSUME NEW h \in Handlers, CheckDrained(h) PROVE HandlerInv'
  BY <1>5 DEF CheckDrained, HandlerGoes, shardVars, TypeOK
<1>6. ASSUME NEW h \in Handlers, RolloverFinishes(h) PROVE HandlerInv'
  BY <1>6 DEF RolloverFinishes, HandlerGoes, SubmitFinish, shardVars, TypeOK
<1>7. ASSUME NEW h \in Handlers, StartNext(h) PROVE HandlerInv'
  <2>1. /\ hpc[h] = "start" /\ lock' = NoThread
        /\ hpc' = [hpc EXCEPT ![h] = "return"] \/ hpc' = [hpc EXCEPT ![h] = "failed"]
    BY <1>7 DEF StartNext, HandlerGoes, CountChunk
  <2>a. lock = h
    BY <2>1
  <2>b. \A g \in Handlers : g # h => hpc[g] \notin {"flagged", "finish", "start"}
    BY <2>a
  <2>c. hpc'[h] \in {"return", "failed"} /\ \A g \in Handlers : g # h => hpc'[g] = hpc[g]
    BY <2>1 DEF TypeOK
  <2>2. \A g \in Handlers : hpc'[g] \notin {"flagged", "finish", "start"}
    BY <2>b, <2>c
  <2> QED BY <2>1, <2>2
<1>8. ASSUME NEW h \in Handlers, Return(h) PROVE HandlerInv'
  BY <1>8 DEF Return, HandlerGoes, shardVars, TypeOK
<1>9. ASSUME NEW h \in Handlers, Submit(h) PROVE HandlerInv'
  BY <1>9 DEF Submit, HandlerGoes, shardVars, TypeOK
<1>10. CASE (\E c \in Chunk : RunChunk(c)) \/ (\E t \in FinishTask : FinishIndexing(t)) \/ UNCHANGED vars
  BY <1>10, PoolLeaves
<1> QED BY <1>1, <1>2, <1>3, <1>4, <1>5, <1>6, <1>7, <1>8, <1>9, <1>10 DEF Next, GetWritableShard

(* A handler that begins with its next chunk. *)
LEMMA NewChunk ==
  ASSUME TypeOK, ChunkInv, NEW h \in Handlers, NEW p \in {"return", "flagged", "failed"},
         hpc' = [hpc EXCEPT ![h] = p], nchunks[h] < MaxChunks,
         nchunks' = [nchunks EXCEPT ![h] = @ + 1], UNCHANGED <<cpc, shard>>
  PROVE  ChunkInv'
<1> USE RolloverAssumption
<1>0. /\ \A g \in Handlers : nchunks[g] \in 0 .. MaxChunks /\ (g # h => nchunks'[g] = nchunks[g])
      /\ nchunks'[h] = nchunks[h] + 1 /\ nchunks[h] + 1 \in 1 .. MaxChunks
  BY DEF TypeOK
<1>1. \A g \in Handlers, k \in 1 .. MaxChunks : k > nchunks'[g] => cpc[<<g, k>>] = "none"
  BY <1>0 DEF ChunkInv
<1>2. ASSUME NEW g \in Handlers, hpc'[g] \in HasChunk
      PROVE  nchunks'[g] # 0 /\ cpc[<<g, nchunks'[g]>>] = "none"
  <2>1. CASE g = h
    BY <1>0, <2>1 DEF ChunkInv
  <2>2. CASE g # h
    BY <1>0, <1>2, <2>2 DEF ChunkInv, TypeOK, Cur
  <2> QED BY <2>1, <2>2
<1>3. ASSUME NEW g \in Handlers, hpc'[g] = "submit" PROVE shard[<<g, nchunks'[g]>>] \in Shard
  BY <1>0, <1>3 DEF ChunkInv, TypeOK, Cur
<1> QED BY <1>1, <1>2, <1>3 DEF ChunkInv, Cur

(* Chunks come into being one after the other. *)
LEMMA ChunkStep ==
  ASSUME TypeOK, HandlerInv, ChunkInv, QueueInv, [Next]_vars PROVE ChunkInv'
<1> USE RolloverAssumption
<1>0. \A h \in Handlers : nchunks[h] \in Nat
  BY DEF TypeOK
<1>1. ASSUME NEW h \in Handlers, UseShard(h) PROVE ChunkInv'
  <2>1. PICK p \in {"return", "flagged", "failed"} :
          /\ hpc' = [hpc EXCEPT ![h] = p] /\ nchunks[h] < MaxChunks
          /\ nchunks' = [nchunks EXCEPT ![h] = @ + 1] /\ UNCHANGED <<cpc, shard>>
    BY <1>1 DEF UseShard, HandlerGoes, CountChunk, chunkVars
  <2> QED BY <2>1, NewChunk
<1>2. ASSUME NEW h \in Handlers, RollOver(h) PROVE ChunkInv'
  <2>1. PICK p \in {"return", "flagged", "failed"} :
          /\ hpc' = [hpc EXCEPT ![h] = p] /\ nchunks[h] < MaxChunks
          /\ nchunks' = [nchunks EXCEPT ![h] = @ + 1] /\ UNCHANGED <<cpc, shard>>
    BY <1>2 DEF RollOver, HandlerGoes, chunkVars
  <2> QED BY <2>1, NewChunk
<1>3. ASSUME NEW h \in Handlers, RollOverFails(h) PROVE ChunkInv'
  <2>1. PICK p \in {"return", "flagged", "failed"} :
          /\ hpc' = [hpc EXCEPT ![h] = p] /\ nchunks[h] < MaxChunks
          /\ nchunks' = [nchunks EXCEPT ![h] = @ + 1] /\ UNCHANGED <<cpc, shard>>
    BY <1>3 DEF RollOverFails, HandlerGoes, chunkVars
  <2> QED BY <2>1, NewChunk
<1>4. ASSUME NEW h \in Handlers, NextRequest(h) PROVE ChunkInv'
  <2>1. /\ UNCHANGED <<nchunks, cpc, shard>>
        /\ \A g \in Handlers : hpc'[g] \in HasChunk => hpc[g] \in HasChunk
        /\ \A g \in Handlers : hpc'[g] = "submit" => hpc[g] = "submit"
    BY <1>4 DEF NextRequest, HandlerGoes, chunkVars, HasChunk, Inside, TypeOK
  <2> QED BY <2>1 DEF ChunkInv, Cur
<1>5. ASSUME NEW h \in Handlers, CheckDrained(h) PROVE ChunkInv'
  <2>1. /\ UNCHANGED <<nchunks, cpc, shard>>
        /\ \A g \in Handlers : hpc'[g] \in HasChunk => hpc[g] \in HasChunk
        /\ \A g \in Handlers : hpc'[g] = "submit" => hpc[g] = "submit"
    BY <1>5 DEF CheckDrained, HandlerGoes, chunkVars, HasChunk, Inside, TypeOK
  <2> QED BY <2>1 DEF ChunkInv, Cur
<1>6. ASSUME NEW h \in Handlers, RolloverFinishes(h) PROVE ChunkInv'
  <2>1. /\ UNCHANGED <<nchunks, cpc, shard>>
        /\ \A g \in Handlers : hpc'[g] \in HasChunk => hpc[g] \in HasChunk
        /\ \A g \in Handlers : hpc'[g] = "submit" => hpc[g] = "submit"
    BY <1>6 DEF RolloverFinishes, HandlerGoes, SubmitFinish, chunkVars, HasChunk,
               Inside, TypeOK
  <2> QED BY <2>1 DEF ChunkInv, Cur
<1>7. ASSUME NEW h \in Handlers, StartNext(h) PROVE ChunkInv'
  <2>1. /\ UNCHANGED <<nchunks, cpc, shard>>
        /\ \A g \in Handlers : hpc'[g] \in HasChunk => hpc[g] \in HasChunk
        /\ \A g \in Handlers : hpc'[g] = "submit" => hpc[g] = "submit"
    BY <1>7 DEF StartNext, HandlerGoes, CountChunk, chunkVars, HasChunk, Inside,
               TypeOK
  <2> QED BY <2>1 DEF ChunkInv, Cur
<1>8. ASSUME NEW h \in Handlers, Return(h) PROVE ChunkInv'
  <2>1. /\ hpc[h] = "return" /\ hpc' = [hpc EXCEPT ![h] = "submit"]
        /\ shard' = [shard EXCEPT ![Cur(h)] = writable] /\ UNCHANGED <<cpc, nchunks>>
    BY <1>8 DEF Return, HandlerGoes
  <2>2. Cur(h) \in Chunk /\ cpc[Cur(h)] = "none" /\ writable \in Shard /\ nchunks[h] # 0
    BY <2>1, CurIs DEF HasChunk, TypeOK, ChunkInv
  <2>3. \A g \in Handlers : hpc'[g] = "submit" => shard'[Cur(g)] \in Shard
    BY <2>1, <2>2, CurIs DEF ChunkInv, TypeOK, HasChunk, Cur
  <2>4. \A c \in Chunk : cpc[c] # "none" => shard'[c] \in Shard
    BY <2>1, <2>2 DEF ChunkInv, TypeOK
  <2>5. \A g \in Handlers : hpc'[g] \in HasChunk => nchunks[g] # 0 /\ cpc[Cur(g)] = "none"
    BY <2>1, <2>2 DEF ChunkInv, TypeOK
  <2> QED BY <2>1, <2>3, <2>4, <2>5 DEF ChunkInv, Cur
<1>9. ASSUME NEW h \in Handlers, Submit(h) PROVE ChunkInv'
  <2>1. /\ hpc[h] = "submit" /\ hpc' = [hpc EXCEPT ![h] = "next"]
        /\ cpc' = [cpc EXCEPT ![Cur(h)] = "queued"] /\ UNCHANGED <<shard, nchunks>>
    BY <1>9 DEF Submit, HandlerGoes
  <2>2. /\ Cur(h) \in Chunk /\ nchunks[h] \in 1 .. MaxChunks /\ shard[Cur(h)] \in Shard
        /\ Cur(h) = <<h, nchunks[h]>>
    BY <2>1, CurIs DEF HasChunk, ChunkInv, Cur
  <2>3. \A g \in Handlers, k \in 1 .. MaxChunks : k > nchunks[g] => cpc'[<<g, k>>] = "none"
    <3> SUFFICES ASSUME NEW g \in Handlers, NEW k \in 1 .. MaxChunks, k > nchunks[g]
                 PROVE  cpc'[<<g, k>>] = "none"
      OBVIOUS
    <3>1. <<g, k>> # Cur(h) /\ <<g, k>> \in Chunk /\ cpc[<<g, k>>] = "none"
      BY <2>2, Pairs DEF ChunkInv
    <3> QED BY <2>1, <3>1 DEF TypeOK
  <2>4. \A g \in Handlers : hpc'[g] \in HasChunk =>
          nchunks[g] # 0 /\ cpc'[Cur(g)] = "none"
    <3> SUFFICES ASSUME NEW g \in Handlers, hpc'[g] \in HasChunk
                 PROVE  nchunks[g] # 0 /\ cpc'[Cur(g)] = "none"
      OBVIOUS
    <3>1. g # h /\ hpc[g] \in HasChunk
      BY <2>1 DEF TypeOK, HasChunk, Inside
    <3>2. Cur(g) \in Chunk /\ cpc[Cur(g)] = "none" /\ Cur(g) # Cur(h) /\ nchunks[g] # 0
      BY <3>1, CurIs DEF Cur, ChunkInv
    <3> QED BY <2>1, <3>2 DEF TypeOK
  <2>5. \A g \in Handlers : hpc'[g] = "submit" => hpc[g] = "submit"
    BY <2>1 DEF TypeOK
  <2>6. \A c \in Chunk : cpc'[c] # "none" => shard[c] \in Shard
    BY <2>1, <2>2 DEF ChunkInv, TypeOK
  <2> QED BY <2>1, <2>3, <2>4, <2>5, <2>6 DEF ChunkInv, Cur
<1>10. ASSUME NEW c \in Chunk, RunChunk(c) PROVE ChunkInv'
  <2>1. UNCHANGED <<hpc, nchunks, shard>>
    BY <1>10, PoolLeaves
  <2>2. \A d \in Chunk : cpc'[d] = "none" <=> cpc[d] = "none"
    BY <1>10, ChunkMoves
  <2>3. \A h \in Handlers, k \in 1 .. MaxChunks : k > nchunks[h] => cpc'[<<h, k>>] = "none"
    BY <2>2, Pairs DEF ChunkInv
  <2>4. \A h \in Handlers : hpc[h] \in HasChunk => nchunks[h] # 0 /\ cpc'[Cur(h)] = "none"
    BY <2>2, CurIs DEF ChunkInv
  <2> QED BY <2>1, <2>2, <2>3, <2>4 DEF ChunkInv, Cur
<1>11. ASSUME NEW t \in FinishTask, FinishIndexing(t) PROVE ChunkInv'
  <2>1. UNCHANGED <<hpc, nchunks, shard, cpc>>
    BY <1>11, PoolLeaves, TaskMoves
  <2> QED BY <2>1 DEF ChunkInv, Cur
<1>12. CASE UNCHANGED vars
  BY <1>12 DEF vars, ChunkInv, Cur
<1> QED BY <1>1, <1>2, <1>3, <1>4, <1>5, <1>6, <1>7, <1>8, <1>9, <1>10, <1>11, <1>12 DEF Next, GetWritableShard

-----------------------------------------------------------------------------
(* The queue. *)

(* A task that was not queued is put at the end. *)
LEMMA QueueAppend ==
  ASSUME TypeOK, QueueInv, NEW x \in Chunk \cup FinishTask, queue' = Append(queue, x),
         x \in Chunk => cpc[x] # "queued" /\ cpc'[x] = "queued",
         x \in FinishTask => tpc[x] # "queued" /\ tpc'[x] = "queued",
         \A c \in Chunk : cpc[c] = "queued" => cpc'[c] = "queued",
         \A t \in FinishTask : tpc[t] = "queued" => tpc'[t] = "queued"
  PROVE  QueueInv'
<1>1. /\ Len(queue) \in Nat /\ Len(queue') = Len(queue) + 1
      /\ \A i \in 1 .. Len(queue) : queue'[i] = queue[i] /\ queue[i] \in Chunk \cup FinishTask
      /\ queue'[Len(queue) + 1] = x
  BY DEF TypeOK
<1>2. \A i \in 1 .. Len(queue) : queue[i] # x
  BY <1>1 DEF QueueInv
<1>3. \A i \in 1 .. Len(queue') : i \in 1 .. Len(queue) \/ i = Len(queue) + 1
  BY <1>1
<1>4. \A i \in 1 .. Len(queue') :
        /\ queue'[i] \in Chunk => cpc'[queue'[i]] = "queued"
        /\ queue'[i] \in FinishTask => tpc'[queue'[i]] = "queued"
  BY <1>1, <1>3 DEF QueueInv
<1>5. \A i, j \in 1 .. Len(queue') : queue'[i] = queue'[j] => i = j
  BY <1>1, <1>2, <1>3 DEF QueueInv
<1> QED BY <1>4, <1>5 DEF QueueInv

(* The first task leaves the queue. *)
LEMMA QueueTail ==
  ASSUME TypeOK, QueueInv, queue # << >>, queue' = Tail(queue),
         \A c \in Chunk : c # Head(queue) /\ cpc[c] = "queued" => cpc'[c] = "queued",
         \A t \in FinishTask : t # Head(queue) /\ tpc[t] = "queued" => tpc'[t] = "queued"
  PROVE  QueueInv'
<1>1. /\ Len(queue) \in Nat \ {0} /\ Len(queue') = Len(queue) - 1 /\ Head(queue) = queue[1]
      /\ \A i \in 1 .. Len(queue') : queue'[i] = queue[i + 1] /\ i + 1 \in 1 .. Len(queue)
  BY DEF TypeOK
<1>2. \A i \in 1 .. Len(queue') : queue'[i] # Head(queue)
  BY <1>1 DEF QueueInv
<1>3. \A i \in 1 .. Len(queue') :
        /\ queue'[i] \in Chunk => cpc'[queue'[i]] = "queued"
        /\ queue'[i] \in FinishTask => tpc'[queue'[i]] = "queued"
  BY <1>1, <1>2 DEF QueueInv
<1>4. \A i, j \in 1 .. Len(queue') : queue'[i] = queue'[j] => i = j
  <2> SUFFICES ASSUME NEW i \in 1 .. Len(queue'), NEW j \in 1 .. Len(queue'),
                      queue'[i] = queue'[j]
               PROVE  i = j
    OBVIOUS
  <2>1. i + 1 = j + 1
    BY <1>1 DEF QueueInv
  <2> QED BY <2>1, <1>1
<1> QED BY <1>3, <1>4 DEF QueueInv

(* Tasks outside the queue move. *)
LEMMA QueueStays ==
  ASSUME QueueInv, queue' = queue,
         \A c \in Chunk : cpc[c] = "queued" => cpc'[c] = "queued",
         \A t \in FinishTask : tpc[t] = "queued" => tpc'[t] = "queued"
  PROVE  QueueInv'
BY DEF QueueInv

(* Each task is in the queue as long as it is queued, once. *)
LEMMA QueueStep ==
  ASSUME TypeOK, HandlerInv, ChunkInv, QueueInv, TaskInv, [Next]_vars PROVE QueueInv'
<1>1. ASSUME NEW h \in Handlers, GetWritableShard(h), ~ RolloverFinishes(h) PROVE QueueInv'
  <2>1. UNCHANGED <<cpc, tpc, queue>>
    BY <1>1 DEF GetWritableShard, UseShard, RollOver, RollOverFails, NextRequest, CheckDrained,
                StartNext, Return, chunkVars
  <2> QED BY <2>1, QueueStays
<1>2. ASSUME NEW h \in Handlers, RolloverFinishes(h) PROVE QueueInv'
  <2> DEFINE t == RolloverTask(writable)
  <2>1. /\ hpc[h] = "finish" /\ queue' = Append(queue, t) /\ tpc' = [tpc EXCEPT ![t] = "queued"]
        /\ cpc' = cpc
    BY <1>2 DEF RolloverFinishes, SubmitFinish, RolloverTask, chunkVars
  <2>2. writable \in Shard /\ t \in FinishTask
    BY Tasks DEF TypeOK
  <2>3. tpc[t] = "none" /\ t \notin Chunk
    BY <2>1, <2>2, Apart DEF TaskInv
  <2> HIDE DEF t
  <2>4. tpc'[t] = "queued" /\ \A u \in FinishTask : tpc[u] = "queued" => tpc'[u] = "queued"
    BY <2>1, <2>2 DEF TypeOK
  <2> QED BY <2>1, <2>2, <2>3, <2>4, QueueAppend
<1>3. ASSUME NEW h \in Handlers, Submit(h) PROVE QueueInv'
  <2>1. /\ hpc[h] = "submit" /\ queue' = Append(queue, Cur(h)) /\ tpc' = tpc
        /\ cpc' = [cpc EXCEPT ![Cur(h)] = "queued"]
    BY <1>3 DEF Submit
  <2>2. Cur(h) \in Chunk /\ cpc[Cur(h)] = "none" /\ Cur(h) \notin FinishTask
    BY <2>1, CurIs, Apart DEF HasChunk
  <2>3. cpc'[Cur(h)] = "queued" /\ \A c \in Chunk : cpc[c] = "queued" => cpc'[c] = "queued"
    BY <2>1, <2>2 DEF TypeOK
  <2> QED BY <2>1, <2>2, <2>3, QueueAppend
<1>4. ASSUME NEW c \in Chunk, StartChunk(c) PROVE QueueInv'
  <2>1. /\ queue # << >> /\ Head(queue) = c /\ queue' = Tail(queue) /\ tpc' = tpc
        /\ cpc' = [cpc EXCEPT ![c] = "index"]
    BY <1>4 DEF StartChunk
  <2>2. \A d \in Chunk : d # c => cpc'[d] = cpc[d]
    BY <2>1 DEF TypeOK
  <2> QED BY <2>1, <2>2, QueueTail
<1>5. ASSUME NEW c \in Chunk, IndexChunk(c) \/ Uncount(c) \/ CheckFlag(c) \/ ReleaseChunk(c)
      PROVE  QueueInv'
  <2>1. UNCHANGED <<queue, tpc>> /\ cpc[c] # "queued" /\ \E p : cpc' = [cpc EXCEPT ![c] = p]
    BY <1>5 DEF IndexChunk, Uncount, CheckFlag, ReleaseChunk
  <2>2. \A d \in Chunk : cpc[d] = "queued" => cpc'[d] = "queued"
    BY <2>1 DEF TypeOK
  <2> QED BY <2>1, <2>2, QueueStays
<1>6. ASSUME NEW c \in Chunk, ChunkFinishes(c) PROVE QueueInv'
  <2> DEFINE t == <<"finish", shard[c], c>>
  <2>1. /\ cpc[c] = "finish" /\ cpc' = [cpc EXCEPT ![c] = "release"]
        /\ queue' = Append(queue, t) /\ tpc' = [tpc EXCEPT ![t] = "queued"]
    BY <1>6 DEF ChunkFinishes, SubmitFinish
  <2>2. shard[c] \in Shard
    BY <2>1 DEF ChunkInv
  <2>3. t \in FinishTask /\ tpc[t] = "none"
    BY <2>1, <2>2, Tasks DEF TaskInv
  <2>4. t \notin Chunk
    BY <2>3, Apart
  <2> HIDE DEF t
  <2>5. tpc'[t] = "queued" /\ \A u \in FinishTask : tpc[u] = "queued" => tpc'[u] = "queued"
    BY <2>1, <2>3 DEF TypeOK
  <2>6. \A d \in Chunk : cpc[d] = "queued" => cpc'[d] = "queued"
    BY <2>1 DEF TypeOK
  <2> QED BY <2>1, <2>3, <2>4, <2>5, <2>6, QueueAppend
<1>7. ASSUME NEW t \in FinishTask, StartFinish(t) PROVE QueueInv'
  <2>1. /\ queue # << >> /\ Head(queue) = t /\ queue' = Tail(queue) /\ cpc' = cpc
        /\ tpc' = [tpc EXCEPT ![t] = "merge"]
    BY <1>7 DEF StartFinish, chunkVars
  <2>2. \A u \in FinishTask : u # t => tpc'[u] = tpc[u]
    BY <2>1 DEF TypeOK
  <2> QED BY <2>1, <2>2, QueueTail
<1>8. ASSUME NEW t \in FinishTask, ForceMerge(t) \/ Refresh(t) \/ CloseWriter(t) \/ ReleaseFinish(t)
      PROVE  QueueInv'
  <2>1. UNCHANGED <<queue, cpc>> /\ tpc[t] # "queued" /\ \E p : tpc' = [tpc EXCEPT ![t] = p]
    BY <1>8 DEF ForceMerge, Refresh, NeedsWriter, CloseWriter, ReleaseFinish, chunkVars
  <2>2. \A u \in FinishTask : tpc[u] = "queued" => tpc'[u] = "queued"
    BY <2>1 DEF TypeOK
  <2> QED BY <2>1, <2>2, QueueStays
<1>9. CASE UNCHANGED vars
  BY <1>9, QueueStays DEF vars
<1> QED BY <1>1, <1>2, <1>3, <1>4, <1>5, <1>6, <1>7, <1>8, <1>9
        DEF Next, RunChunk, FinishIndexing

-----------------------------------------------------------------------------
(* Force merges. *)

(* TaskInv is kept: the rollover submits once per shard, a chunk once. *)
LEMMA TaskStep ==
  ASSUME TypeOK, HandlerInv, ChunkInv, QueueInv, TaskInv, [Next]_vars PROVE TaskInv'
<1> USE RolloverAssumption
<1>0. ASSUME NEW h \in Handlers, hpc[h] \in Inside
      PROVE  \A g \in Handlers : g # h => hpc[g] \notin Inside
  BY <1>0 DEF HandlerInv
<1>1. ASSUME NEW h \in Handlers, \/ UseShard(h) \/ RollOverFails(h) \/ NextRequest(h)
                                \/ CheckDrained(h) \/ Return(h)
      PROVE  TaskInv'
  <2>1. UNCHANGED <<added, writable, tpc, cpc>>
    BY <1>1 DEF UseShard, RollOverFails, NextRequest, CheckDrained, Return, shardVars, chunkVars
  <2>2. \A g \in Handlers : hpc'[g] \in {"flagged", "finish"} => hpc[g] \in {"flagged", "finish"}
    BY <1>1 DEF UseShard, RollOverFails, NextRequest, CheckDrained, Return, HandlerGoes, CountChunk,
                TypeOK
  <2> QED BY <2>1, <2>2 DEF TaskInv
<1>2. ASSUME NEW h \in Handlers, RollOver(h) PROVE TaskInv'
  <2>1. /\ writable + 1 \notin added /\ added \subseteq added' /\ UNCHANGED <<writable, tpc, cpc>>
        /\ hpc' = [hpc EXCEPT ![h] = "flagged"] /\ writable \in Shard
    BY <1>2 DEF RollOver, HandlerGoes, chunkVars, TypeOK
  <2>2. tpc[RolloverTask(writable)] = "none"
    BY <2>1 DEF TaskInv
  <2>3. \A s \in Shard : tpc[RolloverTask(s)] # "none" =>
          /\ s + 1 \in added' /\ s # writable
          /\ ~ \E g \in Handlers : hpc'[g] \in {"flagged", "finish"} /\ writable = s
    BY <2>1, <2>2 DEF TaskInv
  <2> QED BY <2>1, <2>3 DEF TaskInv
<1>3. ASSUME NEW h \in Handlers, RolloverFinishes(h) PROVE TaskInv'
  <2> DEFINE t == RolloverTask(writable)
  <2>1. /\ hpc[h] = "finish" /\ hpc' = [hpc EXCEPT ![h] = "start"]
        /\ tpc' = [tpc EXCEPT ![t] = "queued"] /\ UNCHANGED <<cpc, added, writable>>
    BY <1>3 DEF RolloverFinishes, SubmitFinish, HandlerGoes, RolloverTask, chunkVars, shardVars
  <2>2. writable \in Shard /\ t \in FinishTask /\ writable + 1 \in added
    BY <2>1, Tasks DEF TypeOK, HandlerInv, Inside
  <2>3. \A g \in Handlers : hpc'[g] \notin {"flagged", "finish"}
    BY <1>0, <2>1 DEF Inside, TypeOK
  <2>4. \A s \in Shard : s # writable => RolloverTask(s) # t
    BY <2>2 DEF RolloverTask
  <2>5. \A c \in Chunk, s \in Shard : <<"finish", s, c>> # t
    <3> SUFFICES ASSUME NEW c \in Chunk, NEW s \in Shard PROVE <<"finish", s, c>> # t
      OBVIOUS
    <3>1. Rollover # c
      BY DEF Rollover, Chunk
    <3> QED BY <2>2, <3>1 DEF RolloverTask
  <2> HIDE DEF t
  <2>6. \A u \in FinishTask : u # t => tpc'[u] = tpc[u]
    BY <2>1, <2>2 DEF TypeOK
  <2>7. \A s \in Shard : tpc'[RolloverTask(s)] # "none" => s + 1 \in added
    BY <2>2, <2>4, <2>6, Tasks DEF TaskInv, t
  <2>8. \A c \in Chunk, s \in Shard :
          cpc[c] \notin {"release", "done"} => tpc'[<<"finish", s, c>>] = "none"
    BY <2>5, <2>6, Tasks DEF TaskInv
  <2> QED BY <2>1, <2>3, <2>7, <2>8 DEF TaskInv
<1>4. ASSUME NEW h \in Handlers, StartNext(h) PROVE TaskInv'
  <2>1. /\ hpc[h] = "start" /\ UNCHANGED <<added, tpc, cpc>>
        /\ \A g \in Handlers : g # h => hpc'[g] = hpc[g]
        /\ hpc'[h] \in {"return", "failed"}
    BY <1>4 DEF StartNext, HandlerGoes, CountChunk, chunkVars, TypeOK
  <2>2. \A g \in Handlers : hpc'[g] \notin {"flagged", "finish"}
    BY <1>0, <2>1 DEF Inside
  <2> QED BY <2>1, <2>2 DEF TaskInv
<1>5. ASSUME NEW h \in Handlers, Submit(h) PROVE TaskInv'
  <2>1. /\ hpc[h] = "submit" /\ hpc' = [hpc EXCEPT ![h] = "next"] /\ UNCHANGED <<added, writable, tpc>>
        /\ cpc' = [cpc EXCEPT ![Cur(h)] = "queued"]
    BY <1>5 DEF Submit, HandlerGoes, shardVars
  <2>2. Cur(h) \in Chunk /\ cpc[Cur(h)] = "none"
    BY <2>1, CurIs DEF HasChunk
  <2>3. \A c \in Chunk : cpc[c] \in {"release", "done"} => cpc'[c] \in {"release", "done"}
    BY <2>1, <2>2 DEF TypeOK
  <2>4. \A g \in Handlers : hpc'[g] \in {"flagged", "finish"} => hpc[g] \in {"flagged", "finish"}
    BY <2>1 DEF TypeOK
  <2> QED BY <2>1, <2>3, <2>4 DEF TaskInv
<1>6. ASSUME NEW c \in Chunk, RunChunk(c), ~ ChunkFinishes(c) PROVE TaskInv'
  <2>1. UNCHANGED <<added, writable, hpc>> /\ tpc' = tpc
    BY <1>6, PoolLeaves DEF RunChunk, StartChunk, IndexChunk, Uncount, CheckFlag, ReleaseChunk
  <2>2. \A d \in Chunk : cpc[d] \in {"release", "done"} => cpc'[d] \in {"release", "done"}
    BY <1>6, ChunkMoves
  <2> QED BY <2>1, <2>2 DEF TaskInv
<1>7. ASSUME NEW c \in Chunk, ChunkFinishes(c) PROVE TaskInv'
  <2> DEFINE t == <<"finish", shard[c], c>>
  <2>1. /\ cpc[c] = "finish" /\ cpc' = [cpc EXCEPT ![c] = "release"]
        /\ tpc' = [tpc EXCEPT ![t] = "queued"]
    BY <1>7 DEF ChunkFinishes, SubmitFinish
  <2>2. UNCHANGED <<added, writable, hpc>>
    BY <1>7, PoolLeaves DEF RunChunk
  <2>3. shard[c] \in Shard
    BY <2>1 DEF ChunkInv
  <2>4. t \in FinishTask /\ \A s \in Shard : RolloverTask(s) # t
    <3>1. Rollover # c
      BY DEF Rollover, Chunk
    <3> QED BY <2>3, <3>1, Tasks DEF RolloverTask
  <2>5. \A d \in Chunk, s \in Shard : d # c => <<"finish", s, d>> # t
    BY <2>3
  <2> HIDE DEF t
  <2>6. \A u \in FinishTask : u # t => tpc'[u] = tpc[u]
    BY <2>1, <2>4 DEF TypeOK
  <2>7. cpc'[c] = "release" /\ \A d \in Chunk : d # c => cpc'[d] = cpc[d]
    BY <2>1 DEF TypeOK
  <2>8. \A d \in Chunk, s \in Shard :
          cpc'[d] \notin {"release", "done"} => tpc'[<<"finish", s, d>>] = "none"
    BY <2>5, <2>6, <2>7, Tasks DEF TaskInv
  <2>9. \A s \in Shard : tpc'[RolloverTask(s)] = tpc[RolloverTask(s)]
    BY <2>4, <2>6, Tasks
  <2> QED BY <2>2, <2>8, <2>9 DEF TaskInv
<1>8. ASSUME NEW t \in FinishTask, FinishIndexing(t) PROVE TaskInv'
  <2>1. UNCHANGED <<added, writable, hpc, cpc>>
    BY <1>8, PoolLeaves, TaskMoves
  <2>2. \A u \in FinishTask : tpc'[u] = "none" <=> tpc[u] = "none"
    BY <1>8, TaskMoves
  <2> QED BY <2>1, <2>2, Tasks DEF TaskInv
<1>9. CASE UNCHANGED vars
  BY <1>9 DEF vars, TaskInv
<1> QED BY <1>1, <1>2, <1>3, <1>4, <1>5, <1>6, <1>7, <1>8, <1>9 DEF Next, GetWritableShard

(* No force merge is taken back. *)
LEMMA SubmittedGrows ==
  ASSUME TypeOK, HandlerInv, ChunkInv, QueueInv, TaskInv, [Next]_vars
  PROVE  \A t \in FinishTask : tpc[t] # "none" => tpc'[t] # "none"
<1>1. ASSUME NEW h \in Handlers, GetWritableShard(h) \/ Submit(h)
      PROVE  \A t \in FinishTask : tpc[t] # "none" => tpc'[t] # "none"
  BY <1>1 DEF GetWritableShard, UseShard, RollOver, RollOverFails, NextRequest, CheckDrained,
              RolloverFinishes, SubmitFinish, StartNext, Return, Submit, TypeOK
<1>2. ASSUME NEW c \in Chunk, RunChunk(c)
      PROVE  \A t \in FinishTask : tpc[t] # "none" => tpc'[t] # "none"
  BY <1>2 DEF RunChunk, StartChunk, IndexChunk, Uncount, CheckFlag, ChunkFinishes, SubmitFinish,
              ReleaseChunk, TypeOK
<1>3. ASSUME NEW u \in FinishTask, FinishIndexing(u)
      PROVE  \A t \in FinishTask : tpc[t] # "none" => tpc'[t] # "none"
  BY <1>3, TaskMoves
<1> QED BY <1>1, <1>2, <1>3 DEF Next, vars

(* A closed shard had its force merge. *)
LEMMA ClosedStep ==
  ASSUME TypeOK, HandlerInv, ChunkInv, QueueInv, TaskInv, ClosedInv, [Next]_vars
  PROVE  ClosedInv'
<1>0. \A s \in Shard : Submitted(s) # {} => Submitted(s)' # {}
  BY SubmittedGrows DEF Submitted
<1>1. ASSUME \A s \in Shard : finishing'[s] = 2 => finishing[s] = 2 PROVE ClosedInv'
  BY <1>0, <1>1 DEF ClosedInv
<1>2. ASSUME NEW t \in FinishTask, CloseWriter(t) PROVE ClosedInv'
  <2>1. /\ tpc[t] = "close" /\ finishing' = [finishing EXCEPT ![t[2]] = 2]
        /\ tpc' = [tpc EXCEPT ![t] = "release"]
    BY <1>2 DEF CloseWriter
  <2>2. t[2] \in Shard
    BY DEF FinishTask
  <2>3. t \in Submitted(t[2])'
    BY <2>1 DEF Submitted, TypeOK
  <2>4. \A s \in Shard : s # t[2] => finishing'[s] = finishing[s]
    BY <2>1, <2>2 DEF TypeOK
  <2> QED BY <1>0, <2>2, <2>3, <2>4 DEF ClosedInv
<1>3. ASSUME NEW h \in Handlers, GetWritableShard(h) \/ Submit(h)
      PROVE  \A s \in Shard : finishing'[s] = 2 => finishing[s] = 2
  BY <1>3 DEF GetWritableShard, UseShard, RollOver, RollOverFails, NextRequest, CheckDrained,
              RolloverFinishes, StartNext, Return, Submit, shardVars, TypeOK
<1>4. ASSUME NEW c \in Chunk, RunChunk(c) PROVE finishing' = finishing
  BY <1>4 DEF RunChunk, StartChunk, IndexChunk, Uncount, CheckFlag, ChunkFinishes, ReleaseChunk,
              shardVars
<1>5. ASSUME NEW t \in FinishTask, FinishIndexing(t), ~ CloseWriter(t) PROVE finishing' = finishing
  BY <1>5 DEF FinishIndexing, StartFinish, ForceMerge, Refresh, NeedsWriter, ReleaseFinish, shardVars
<1> QED BY <1>1, <1>2, <1>3, <1>4, <1>5 DEF Next, vars

-----------------------------------------------------------------------------
(* A full shard is not forgotten. *)

\* A full shard without running chunks; the handler that flagged it is not through yet;
\* somebody has seen, or will see, that it can be finished.
Drained(s)  == finishing[s] # 0 /\ running[s] = 0
Flagging(s) == \E h \in Handlers : hpc[h] \in {"flagged", "finish"} /\ writable = s
Noticed(s)  == Flagging(s) \/ Drainer(s) \/ Submitted(s) # {}

(* FinishNotMissed in these words. *)
LEMMA NoticedIs == FinishNotMissed <=> \A s \in Shard : Drained(s) => Noticed(s)
BY DEF FinishNotMissed, Drained, Noticed, Flagging

(* While a handler is inside the block no other flags a shard. *)
LEMMA OneFlagging ==
  ASSUME TypeOK, HandlerInv, NEW h \in Handlers, hpc[h] \in Inside
  PROVE  /\ \A g \in Handlers : g # h => hpc[g] \notin {"flagged", "finish"}
         /\ \A s \in Shard : Flagging(s) => s = writable /\ hpc[h] \in {"flagged", "finish"}
<1>1. \A g \in Handlers : g # h => hpc[g] \notin {"flagged", "finish"}
  BY DEF HandlerInv, Inside
<1> QED BY <1>1 DEF Flagging

(* A drained shard, once its flag is set, is noticed by whoever read its count or its
   flag last. *)
LEMMA FinishStep ==
  ASSUME TypeOK, HandlerInv, ChunkInv, QueueInv, TaskInv, ClosedInv, FinishNotMissed, [Next]_vars
  PROVE  FinishNotMissed'
<1>0. ASSUME NEW s \in Shard, Drained(s) PROVE Noticed(s)
  BY <1>0, NoticedIs
<1>a. \A s \in Shard : Submitted(s) # {} => Submitted(s)' # {}
  BY SubmittedGrows DEF Submitted
<1>s. (\A s \in Shard : Drained(s)' => Noticed(s)') => FinishNotMissed'
  BY DEF FinishNotMissed, Drained, Noticed, Flagging
<1>1. ASSUME NEW h \in Handlers, UseShard(h), NEW s \in Shard, Drained(s)' PROVE Noticed(s)'
  <2>1. /\ hpc[h] = "next" /\ UNCHANGED <<finishing, writable, cpc, tpc, shard>>
        /\ \A g \in Handlers : g # h => hpc'[g] = hpc[g]
        /\ \/ running' = running
           \/ finishing[writable] = 0 /\ running' = [running EXCEPT ![writable] = @ + 1]
    BY <1>1 DEF UseShard, HandlerGoes, CountChunk, TypeOK
  <2>2. Drained(s)
    BY <1>1, <2>1 DEF Drained, TypeOK
  <2> QED BY <2>1, <2>2, <1>0 DEF Noticed, Flagging, Drainer, Submitted
<1>2. ASSUME NEW h \in Handlers, RollOver(h), NEW s \in Shard, Drained(s)' PROVE Noticed(s)'
  <2>1. /\ hpc' = [hpc EXCEPT ![h] = "flagged"] /\ finishing' = [finishing EXCEPT ![writable] = 1]
        /\ UNCHANGED <<running, writable, cpc, tpc, shard>> /\ hpc[h] = "next"
    BY <1>2 DEF RollOver, HandlerGoes, chunkVars
  <2>2. CASE s = writable
    <3>1. hpc'[h] = "flagged" /\ writable' = s
      BY <2>1, <2>2 DEF TypeOK
    <3> QED BY <3>1 DEF Noticed, Flagging
  <2>3. CASE s # writable
    <3>1. Drained(s) /\ ~ Flagging(s)
      BY <1>2, <2>1, <2>3 DEF Drained, TypeOK, Flagging
    <3> QED BY <1>0, <2>1, <3>1 DEF Noticed, Drainer, Submitted
  <2> QED BY <2>2, <2>3
<1>3. ASSUME NEW h \in Handlers, RollOverFails(h) \/ NextRequest(h), NEW s \in Shard, Drained(s)'
      PROVE  Noticed(s)'
  <2>1. /\ hpc[h] \in {"next", "failed"}
        /\ UNCHANGED <<running, finishing, writable, cpc, tpc, shard>>
        /\ \A g \in Handlers : g # h => hpc'[g] = hpc[g]
    BY <1>3 DEF RollOverFails, NextRequest, HandlerGoes, shardVars, chunkVars, TypeOK
  <2>2. Drained(s)
    BY <1>3, <2>1 DEF Drained
  <2> QED BY <2>1, <2>2, <1>0 DEF Noticed, Flagging, Drainer, Submitted
<1>4. ASSUME NEW h \in Handlers, CheckDrained(h), NEW s \in Shard, Drained(s)' PROVE Noticed(s)'
  <2>1. /\ hpc[h] = "flagged" /\ UNCHANGED <<running, finishing, writable, cpc, tpc, shard>>
        /\ running[writable] = 0 => hpc' = [hpc EXCEPT ![h] = "finish"]
    BY <1>4 DEF CheckDrained, HandlerGoes, shardVars, chunkVars
  <2>2. Drained(s)
    BY <1>4, <2>1 DEF Drained
  <2>3. CASE s = writable
    <3>1. hpc'[h] = "finish" /\ writable' = s
      BY <2>1, <2>2, <2>3 DEF Drained, TypeOK
    <3> QED BY <3>1 DEF Noticed, Flagging
  <2>4. CASE s # writable
    <3>1. ~ Flagging(s)
      BY <2>4 DEF Flagging
    <3> QED BY <1>0, <2>1, <2>2, <3>1 DEF Noticed, Drainer, Submitted
  <2> QED BY <2>3, <2>4
<1>5. ASSUME NEW h \in Handlers, RolloverFinishes(h), NEW s \in Shard, Drained(s)' PROVE Noticed(s)'
  <2>1. /\ hpc[h] = "finish" /\ tpc' = [tpc EXCEPT ![RolloverTask(writable)] = "queued"]
        /\ UNCHANGED <<running, finishing, writable, cpc, shard>>
    BY <1>5 DEF RolloverFinishes, SubmitFinish, RolloverTask, shardVars, chunkVars
  <2>2. Drained(s)
    BY <1>5, <2>1 DEF Drained
  <2>3. CASE s = writable
    <3>1. RolloverTask(s) \in Submitted(s)'
      BY <2>1, <2>3, Tasks DEF Submitted, TypeOK
    <3> QED BY <3>1 DEF Noticed
  <2>4. CASE s # writable
    <3>1. ~ Flagging(s)
      BY <2>4 DEF Flagging
    <3> QED BY <1>0, <1>a, <2>1, <2>2, <3>1 DEF Noticed, Drainer
  <2> QED BY <2>3, <2>4
<1>6. ASSUME NEW h \in Handlers, StartNext(h), NEW s \in Shard, Drained(s)' PROVE Noticed(s)'
  <2>1. /\ hpc[h] = "start" /\ UNCHANGED <<finishing, cpc, tpc, shard>>
        /\ \/ running' = running
           \/ /\ finishing[writable + 1] = 0
              /\ running' = [running EXCEPT ![writable + 1] = @ + 1]
    BY <1>6 DEF StartNext, CountChunk
  <2>2. writable + 1 \in Shard /\ ~ Flagging(s)
    BY <2>1, NextShard, OneFlagging DEF Inside
  <2>3. Drained(s)
    BY <1>6, <2>1, <2>2 DEF Drained, TypeOK
  <2> QED BY <1>0, <2>1, <2>2, <2>3 DEF Noticed, Drainer, Submitted
<1>7. ASSUME NEW h \in Handlers, Return(h), NEW s \in Shard, Drained(s)' PROVE Noticed(s)'
  <2>1. /\ hpc[h] = "return" /\ UNCHANGED <<running, finishing, writable, cpc, tpc>>
        /\ shard' = [shard EXCEPT ![Cur(h)] = writable]
        /\ \A g \in Handlers : g # h => hpc'[g] = hpc[g]
    BY <1>7 DEF Return, HandlerGoes, shardVars, TypeOK
  <2>2. Drained(s) /\ Cur(h) \in Chunk /\ cpc[Cur(h)] = "none"
    BY <1>7, <2>1, CurIs DEF Drained, HasChunk
  <2>3. Drainer(s) => Drainer(s)'
    BY <2>1, <2>2 DEF Drainer, TypeOK
  <2>4. Flagging(s) => Flagging(s)'
    BY <2>1 DEF Flagging
  <2> QED BY <1>0, <1>a, <2>2, <2>3, <2>4 DEF Noticed
<1>8. ASSUME NEW h \in Handlers, Submit(h), NEW s \in Shard, Drained(s)' PROVE Noticed(s)'
  <2>1. /\ hpc[h] = "submit" /\ UNCHANGED <<running, finishing, writable, shard, tpc>>
        /\ cpc' = [cpc EXCEPT ![Cur(h)] = "queued"]
        /\ \A g \in Handlers : g # h => hpc'[g] = hpc[g]
    BY <1>8 DEF Submit, HandlerGoes, shardVars, TypeOK
  <2>2. Drained(s) /\ Cur(h) \in Chunk /\ cpc[Cur(h)] = "none"
    BY <1>8, <2>1, CurIs DEF Drained, HasChunk
  <2>3. Drainer(s) => Drainer(s)'
    BY <2>1, <2>2 DEF Drainer, TypeOK
  <2>4. Flagging(s) => Flagging(s)'
    BY <2>1 DEF Flagging
  <2> QED BY <1>0, <1>a, <2>2, <2>3, <2>4 DEF Noticed
<1>9. ASSUME NEW c \in Chunk, RunChunk(c), NEW s \in Shard, Drained(s)' PROVE Noticed(s)'
  <2>0. UNCHANGED <<hpc, writable, shard>> /\ finishing' = finishing
    BY <1>9, PoolLeaves DEF RunChunk, StartChunk, IndexChunk, Uncount, CheckFlag, ChunkFinishes,
                            ReleaseChunk, shardVars
  <2>a. Flagging(s) => Flagging(s)'
    BY <2>0 DEF Flagging
  <2>1. CASE StartChunk(c) \/ IndexChunk(c) \/ ReleaseChunk(c)
    <3>1. /\ running' = running /\ cpc[c] \notin {"check", "finish"}
          /\ \E p : cpc' = [cpc EXCEPT ![c] = p]
      BY <2>1, HeadQueued DEF StartChunk, IndexChunk, ReleaseChunk, shardVars
    <3>2. Drained(s) /\ (Drainer(s) => Drainer(s)')
      BY <1>9, <2>0, <3>1 DEF Drained, Drainer, TypeOK
    <3> QED BY <1>0, <1>a, <2>a, <3>2 DEF Noticed
  <2>2. CASE Uncount(c)
    <3>1. /\ cpc[c] = "uncount" /\ running' = [running EXCEPT ![shard[c]] = @ - 1]
          /\ cpc' = [cpc EXCEPT ![c] = IF running[shard[c]] = 1 THEN "check" ELSE "release"]
      BY <2>2 DEF Uncount
    <3>2. shard[c] \in Shard
      BY <3>1 DEF ChunkInv
    <3>3. CASE s = shard[c]
      <4>1. running[s] = 1
        BY <1>9, <3>1, <3>2, <3>3 DEF Drained, TypeOK
      <4>2. cpc'[c] = "check" /\ shard'[c] = s
        BY <2>0, <3>1, <3>3, <4>1 DEF TypeOK
      <4> QED BY <4>2 DEF Noticed, Drainer
    <3>4. CASE s # shard[c]
      <4>1. Drained(s) /\ (Drainer(s) => Drainer(s)')
        BY <1>9, <2>0, <3>1, <3>2, <3>4 DEF Drained, Drainer, TypeOK
      <4> QED BY <1>0, <1>a, <2>a, <4>1 DEF Noticed
    <3> QED BY <3>3, <3>4
  <2>3. CASE CheckFlag(c) \/ ChunkFinishes(c)
    <3>1. running' = running /\ cpc[c] \in {"check", "finish"} /\ \E p : cpc' = [cpc EXCEPT ![c] = p]
      BY <2>3 DEF CheckFlag, ChunkFinishes, shardVars
    <3>2. Drained(s) /\ shard[c] \in Shard
      BY <1>9, <2>0, <3>1 DEF Drained, ChunkInv
    <3>3. CASE s # shard[c]
      <4>1. Drainer(s) => Drainer(s)'
        BY <2>0, <3>1, <3>3 DEF Drainer, TypeOK
      <4> QED BY <1>0, <1>a, <2>a, <3>2, <4>1 DEF Noticed
    <3>4. CASE s = shard[c] /\ CheckFlag(c)
      <4>1. CASE finishing[s] = 1
        <5>1. cpc'[c] = "finish" /\ shard'[c] = s
          BY <2>0, <3>4, <4>1 DEF CheckFlag, TypeOK
        <5> QED BY <5>1 DEF Noticed, Drainer
      <4>2. CASE finishing[s] = 2
        BY <1>a, <4>2 DEF ClosedInv, Noticed
      <4> QED BY <3>2, <4>1, <4>2 DEF Drained, TypeOK
    <3>5. CASE s = shard[c] /\ ChunkFinishes(c)
      <4> DEFINE t == <<"finish", s, c>>
      <4>1. tpc' = [tpc EXCEPT ![t] = "queued"]
        BY <3>5 DEF ChunkFinishes, SubmitFinish
      <4>2. t \in FinishTask /\ t[2] = s
        BY Tasks
      <4> HIDE DEF t
      <4>3. t \in Submitted(s)'
        BY <4>1, <4>2 DEF Submitted, TypeOK
      <4> QED BY <4>3 DEF Noticed
    <3> QED BY <2>3, <3>3, <3>4, <3>5
  <2> QED BY <1>9, <2>1, <2>2, <2>3 DEF RunChunk
<1>10. ASSUME NEW t \in FinishTask, FinishIndexing(t), NEW s \in Shard, Drained(s)' PROVE Noticed(s)'
  <2>1. UNCHANGED <<hpc, writable, shard, cpc>> /\ running' = running
    BY <1>10, PoolLeaves, TaskMoves
       DEF FinishIndexing, StartFinish, ForceMerge, Refresh, NeedsWriter, CloseWriter, ReleaseFinish,
           shardVars
  <2>2. CASE CloseWriter(t) /\ t[2] = s
    <3>1. tpc'[t] = "release"
      BY <2>2 DEF CloseWriter, TypeOK
    <3>2. t \in Submitted(s)'
      BY <2>2, <3>1 DEF Submitted
    <3> QED BY <3>2 DEF Noticed
  <2>3. CASE ~ (CloseWriter(t) /\ t[2] = s)
    <3>1. finishing'[s] = finishing[s]
      BY <1>10, <2>3 DEF FinishIndexing, StartFinish, ForceMerge, Refresh, NeedsWriter, CloseWriter,
                         ReleaseFinish, shardVars, TypeOK
    <3>2. Drained(s)
      BY <1>10, <2>1, <3>1 DEF Drained
    <3> QED BY <1>0, <1>a, <2>1, <3>2 DEF Noticed, Flagging, Drainer
  <2> QED BY <2>2, <2>3
<1>11. ASSUME UNCHANGED vars, NEW s \in Shard, Drained(s)' PROVE Noticed(s)'
  BY <1>0, <1>11 DEF vars, Drained, Noticed, Flagging, Drainer, Submitted
<1>12. ASSUME NEW s \in Shard, Drained(s)' PROVE Noticed(s)'
  BY <1>1, <1>2, <1>3, <1>4, <1>5, <1>6, <1>7, <1>8, <1>9, <1>10, <1>11, <1>12
     DEF Next, GetWritableShard
<1> QED BY <1>12, <1>s

-----------------------------------------------------------------------------
(* All of it, inductive together. *)
RolloverInv ==
  /\ TypeOK /\ HandlerInv /\ ChunkInv /\ QueueInv /\ TaskInv /\ ClosedInv
  /\ FinishNotMissed /\ PermitsAccounted

(* The invariant holds at the start. *)
LEMMA RolloverInit == Init => RolloverInv
<1> SUFFICES ASSUME Init PROVE RolloverInv
  OBVIOUS
<1> USE RolloverAssumption DEF Init
<1>1. TypeOK
  BY TypeInit
<1>2. HandlerInv
  BY DEF HandlerInv, Inside
<1>3. ChunkInv
  BY Pairs DEF ChunkInv, HasChunk, Inside
<1>4. QueueInv
  BY DEF QueueInv
<1>5. TaskInv
  BY Tasks DEF TaskInv
<1>6. ClosedInv /\ FinishNotMissed
  BY DEF ClosedInv, FinishNotMissed
<1>7. PermitsAccounted
  <2>1. Holding = {}
    BY DEF Holding
  <2> QED BY <2>1, FS_EmptySet DEF PermitsAccounted
<1> QED BY <1>1, <1>2, <1>3, <1>4, <1>5, <1>6, <1>7 DEF RolloverInv

(* The invariant is one. *)
LEMMA RolloverInvariant == Spec => []RolloverInv
<1>1. RolloverInv /\ [Next]_vars => RolloverInv'
  BY TypeStep, HandlerStep, ChunkStep, QueueStep, TaskStep, ClosedStep, FinishStep, PermitStep
     DEF RolloverInv
<1> QED BY <1>1, RolloverInit, PTL DEF Spec

(* Every variable keeps its type: no permit is released twice, and no shard is added
   beyond the one the rollover names.  (A count is an integer: it can fall below
   zero when chunks were moved.) *)
THEOREM RolloverTypes == Spec => []TypeOK
<1>1. RolloverInv => TypeOK
  BY DEF RolloverInv
<1> QED BY <1>1, RolloverInvariant, PTL

(* Each permit of the pool is free, or held by one chunk or one force merge. *)
THEOREM PermitsAddUp == Spec => []PermitsAccounted
<1>1. RolloverInv => PermitsAccounted
  BY DEF RolloverInv
<1> QED BY <1>1, RolloverInvariant, PTL

(* A full shard whose last chunk is gone is finished by some thread, although the
   flag and the count are read and written without a lock. *)
THEOREM FullShardsNoticed == Spec => []FinishNotMissed
<1>1. RolloverInv => FinishNotMissed
  BY DEF RolloverInv
<1> QED BY <1>1, RolloverInvariant, PTL

-----------------------------------------------------------------------------
(* Counting, with any number of requests at a time. *)

(* There are finitely many chunks, and so there are of any kind. *)
LEMMA ChunksFinite == \A S \in SUBSET Chunk : IsFiniteSet(S) /\ Cardinality(S) \in Nat
<1>1. IsFiniteSet(Chunk)
  <2>1. IsFiniteSet(1 .. MaxChunks)
    BY RolloverAssumption, FS_Interval
  <2> QED BY <2>1, RolloverAssumption, FS_Product DEF Chunk
<1>2. \A S \in SUBSET Chunk : IsFiniteSet(S)
  BY <1>1, FS_Subset
<1>3. \A S \in SUBSET Chunk : Cardinality(S) \in Nat
  BY <1>2, FS_CardinalityType
<1> QED BY <1>2, <1>3

(* What two disjoint sets of chunks have together. *)
LEMMA TwoParts ==
  ASSUME NEW A \in SUBSET Chunk, NEW B \in SUBSET Chunk, A \cap B = {}
  PROVE  Cardinality(A \cup B) = Cardinality(A) + Cardinality(B)
<1>1. IsFiniteSet(A) /\ IsFiniteSet(B)
  BY ChunksFinite
<1>2. Cardinality(A \cup B) = Cardinality(A) + Cardinality(B) - Cardinality(A \cap B)
  BY <1>1, FS_Union
<1>3. Cardinality(A \cap B) = 0
  BY FS_EmptySet
<1>4. Cardinality(A) \in Nat /\ Cardinality(B) \in Nat
  BY ChunksFinite
<1> QED BY <1>2, <1>3, <1>4

(* The two handlers of a step and of a chunk do not share it. *)
LEMMA OtherChunk ==
  ASSUME NEW g \in Handlers, NEW h \in Handlers, g # h, NEW j, NEW k
  PROVE  <<g, j>> # <<h, k>>
OBVIOUS

(* Where the chunk of a handler is counted and where it writes. *)
LEMMA CountInvStep ==
  ASSUME RolloverInv, CountInv, [Next]_vars
  PROVE  CountInv'
<1> USE RolloverAssumption DEF RolloverInv
<1>0. \A h \in Handlers : nchunks[h] \in 0 .. MaxChunks
  BY DEF TypeOK
<1>r. writable \in Nat /\ -1 \notin Shard /\ \A s \in Shard : s \in Nat
  BY DEF TypeOK, Shard
<1>1. ASSUME NEW h \in Handlers, UseShard(h) PROVE CountInv'
  <2> DEFINE k == nchunks[h] + 1
  <2>1. /\ hpc[h] = "next" /\ CountChunk(h, k, writable) /\ nchunks[h] < MaxChunks
        /\ nchunks' = [nchunks EXCEPT ![h] = @ + 1] /\ UNCHANGED <<writable, shard>>
    BY <1>1 DEF UseShard
  <2>2. k \in 1 .. MaxChunks /\ k > nchunks[h]
    BY <2>1, <1>0
  <2>3. /\ <<h, k>> \in Chunk /\ counted[<<h, k>>] = -1 /\ shard[<<h, k>>] = -1
        /\ writable \in Shard
    BY <2>2, Pairs DEF CountInv, TypeOK
  <2>4. /\ nchunks'[h] = k /\ Cur(h)' = <<h, k>>
        /\ \A g \in Handlers : g # h => nchunks'[g] = nchunks[g] /\ Cur(g)' = Cur(g)
    BY <2>1 DEF TypeOK, Cur
  <2>5. /\ hpc'[h] \in {"failed", "return"}
        /\ hpc'[h] = "return" => counted'[<<h, k>>] = writable
        /\ \A g \in Handlers : g # h => hpc'[g] = hpc[g]
        /\ \A c \in Chunk : c # <<h, k>> => counted'[c] = counted[c]
    BY <2>1, <2>3 DEF CountChunk, HandlerGoes, TypeOK
  <2>6. \A g \in Handlers : g # h => Cur(g) # <<h, k>>
    BY OtherChunk DEF Cur
  <2>7. \A g \in Handlers : g # h /\ hpc[g] \in HasChunk => Cur(g) \in Chunk /\ counted'[Cur(g)] = counted[Cur(g)]
    BY <2>5, <2>6, CurIs
  <2>8. ASSUME NEW g \in Handlers, NEW j \in 1 .. MaxChunks, j > nchunks'[g]
        PROVE  counted'[<<g, j>>] = -1 /\ shard'[<<g, j>>] = -1
    <3>1. <<g, j>> \in Chunk /\ <<g, j>> # <<h, k>>
      BY <2>8, <2>4, Pairs, <2>2
    <3>2. j > nchunks[g]
      BY <2>8, <2>4, <2>2, <1>0
    <3> QED BY <3>1, <3>2, <2>1, <2>5 DEF CountInv
  <2>9. ASSUME NEW c \in Chunk, shard'[c] # -1 PROVE counted'[c] \in 0 .. shard'[c]
    <3>1. c # <<h, k>>
      BY <2>9, <2>1, <2>3
    <3> QED BY <3>1, <2>9, <2>1, <2>5 DEF CountInv
  <2>10. ASSUME NEW g \in Handlers, hpc'[g] \in Inside
         PROVE  counted'[Cur(g)'] = -1 /\ shard'[Cur(g)'] = -1
    <3>1. g # h /\ hpc[g] \in Inside
      BY <2>10, <2>5 DEF Inside
    <3> QED BY <3>1, <2>1, <2>4, <2>7 DEF CountInv, HasChunk
  <2>11. ASSUME NEW g \in Handlers, hpc'[g] = "return"
         PROVE  counted'[Cur(g)'] \in 0 .. writable' /\ shard'[Cur(g)'] = -1
    <3>1. CASE g = h
      BY <3>1, <2>11, <2>1, <2>3, <2>4, <2>5, <1>r
    <3>2. CASE g # h
      <4>1. hpc[g] = "return"
        BY <2>11, <2>5, <3>2
      <4> QED BY <3>2, <4>1, <2>1, <2>4, <2>7 DEF CountInv, HasChunk
    <3> QED BY <3>1, <3>2
  <2> HIDE DEF k
  <2> QED BY <2>8, <2>9, <2>10, <2>11 DEF CountInv
<1>2. ASSUME NEW h \in Handlers, RollOver(h) \/ RollOverFails(h) PROVE CountInv'
  <2>1. /\ nchunks[h] < MaxChunks /\ nchunks' = [nchunks EXCEPT ![h] = @ + 1]
        /\ UNCHANGED <<counted, shard, writable>>
        /\ hpc' = [hpc EXCEPT ![h] = "flagged"] \/ hpc' = [hpc EXCEPT ![h] = "failed"]
    BY <1>2 DEF RollOver, RollOverFails, HandlerGoes, chunkVars, shardVars
  <2>2. /\ nchunks'[h] = nchunks[h] + 1 /\ nchunks'[h] \in 1 .. MaxChunks
        /\ hpc'[h] \in {"flagged", "failed"}
        /\ \A g \in Handlers : g # h => nchunks'[g] = nchunks[g] /\ hpc'[g] = hpc[g] /\ Cur(g)' = Cur(g)
    BY <1>0, <2>1 DEF TypeOK, Cur
  <2>3. counted[<<h, nchunks'[h]>>] = -1 /\ shard[<<h, nchunks'[h]>>] = -1
    BY <1>0, <2>2 DEF CountInv
  <2>4. \A g \in Handlers, j \in 1 .. MaxChunks :
           j > nchunks'[g] => counted[<<g, j>>] = -1 /\ shard[<<g, j>>] = -1
    BY <1>0, <2>2 DEF CountInv
  <2>5. Cur(h)' = <<h, nchunks'[h]>>
    BY DEF Cur
  <2>6. \A g \in Handlers : hpc'[g] \in Inside => counted[Cur(g)'] = -1 /\ shard[Cur(g)'] = -1
    BY <2>2, <2>3, <2>5 DEF CountInv
  <2>7. \A g \in Handlers : hpc'[g] = "return" => counted[Cur(g)'] \in 0 .. writable /\ shard[Cur(g)'] = -1
    BY <2>2 DEF CountInv
  <2> QED BY <2>1, <2>4, <2>6, <2>7 DEF CountInv
<1>3. ASSUME NEW h \in Handlers, NextRequest(h) \/ CheckDrained(h) \/ RolloverFinishes(h)
      PROVE  CountInv'
  <2>1. /\ UNCHANGED <<nchunks, counted, shard, writable>>
        /\ hpc[h] \in Inside \/ hpc'[h] \notin Inside
        /\ hpc'[h] \notin {"return", "submit"}
        /\ \A g \in Handlers : g # h => hpc'[g] = hpc[g]
    BY <1>3 DEF NextRequest, CheckDrained, RolloverFinishes, HandlerGoes, chunkVars, shardVars,
                Inside, TypeOK
  <2>2. \A g \in Handlers : /\ hpc'[g] \in Inside => hpc[g] \in Inside
                           /\ hpc'[g] = "return" => hpc[g] = "return"
    BY <2>1
  <2> QED BY <2>1, <2>2 DEF CountInv, Cur
<1>4. ASSUME NEW h \in Handlers, StartNext(h) PROVE CountInv'
  <2>1. /\ hpc[h] = "start" /\ UNCHANGED <<nchunks, shard>>
        /\ \/ CountChunk(h, nchunks[h], writable + 1) /\ writable' = writable + 1
           \/ HandlerGoes(h, "failed") /\ UNCHANGED <<writable, counted>>
    BY <1>4 DEF StartNext
  <2>2. /\ Cur(h) \in Chunk /\ counted[Cur(h)] = -1 /\ shard[Cur(h)] = -1
        /\ writable + 1 \in Shard
    BY <2>1, CurIs, NextShard DEF HasChunk, Inside, CountInv
  <2>3. /\ hpc'[h] \in {"failed", "return"}
        /\ hpc'[h] = "return" => counted'[Cur(h)] = writable'
        /\ \A g \in Handlers : g # h => hpc'[g] = hpc[g]
        /\ \A c \in Chunk : c # Cur(h) => counted'[c] = counted[c]
        /\ writable' \in {writable, writable + 1}
    BY <2>1, <2>2 DEF CountChunk, HandlerGoes, TypeOK, Cur
  <2>4. \A g \in Handlers : Cur(g)' = Cur(g)
    BY <2>1 DEF Cur
  <2>5. \A g \in Handlers : g # h => Cur(g) # Cur(h)
    BY OtherChunk DEF Cur
  <2>6. \A g \in Handlers : g # h /\ hpc[g] \in HasChunk => Cur(g) \in Chunk /\ counted'[Cur(g)] = counted[Cur(g)]
    BY <2>3, <2>5, CurIs
  <2>7. ASSUME NEW g \in Handlers, NEW j \in 1 .. MaxChunks, j > nchunks'[g]
        PROVE  counted'[<<g, j>>] = -1 /\ shard'[<<g, j>>] = -1
    <3>1. <<g, j>> \in Chunk /\ <<g, j>> # Cur(h) /\ j > nchunks[g]
      BY <2>7, <2>1, <1>0, Pairs DEF Cur
    <3> QED BY <3>1, <2>1, <2>3 DEF CountInv
  <2>8. ASSUME NEW c \in Chunk, shard'[c] # -1 PROVE counted'[c] \in 0 .. shard'[c]
    <3>1. c # Cur(h)
      BY <2>8, <2>1, <2>2
    <3> QED BY <3>1, <2>8, <2>1, <2>3 DEF CountInv
  <2>9. ASSUME NEW g \in Handlers, hpc'[g] \in Inside
         PROVE  counted'[Cur(g)'] = -1 /\ shard'[Cur(g)'] = -1
    <3>1. g # h /\ hpc[g] \in Inside
      BY <2>9, <2>3 DEF Inside
    <3> QED BY <3>1, <2>1, <2>4, <2>6 DEF CountInv, HasChunk
  <2>10. ASSUME NEW g \in Handlers, hpc'[g] = "return"
         PROVE  counted'[Cur(g)'] \in 0 .. writable' /\ shard'[Cur(g)'] = -1
    <3>1. CASE g = h
      <4>1. writable' \in Nat
        BY <2>3, <1>r
      <4>2. counted'[Cur(h)] = writable' /\ shard'[Cur(h)] = -1 /\ Cur(h)' = Cur(h)
        BY <3>1, <2>10, <2>1, <2>2, <2>3, <2>4
      <4> QED BY <3>1, <4>1, <4>2
    <3>2. CASE g # h
      <4>1. hpc[g] = "return"
        BY <2>10, <2>3, <3>2
      <4>2. counted[Cur(g)] \in 0 .. writable /\ shard[Cur(g)] = -1
        BY <4>1 DEF CountInv
      <4> QED BY <3>2, <4>1, <4>2, <2>1, <2>3, <2>4, <2>6, <1>r DEF HasChunk
    <3> QED BY <3>1, <3>2
  <2> QED BY <2>7, <2>8, <2>9, <2>10 DEF CountInv
<1>5. ASSUME NEW h \in Handlers, Return(h) PROVE CountInv'
  <2>1. /\ hpc[h] = "return" /\ hpc' = [hpc EXCEPT ![h] = "submit"]
        /\ shard' = [shard EXCEPT ![Cur(h)] = writable]
        /\ UNCHANGED <<nchunks, counted, writable>>
    BY <1>5 DEF Return, HandlerGoes, shardVars
  <2>2. /\ Cur(h) \in Chunk /\ counted[Cur(h)] \in 0 .. writable /\ nchunks[h] \in 1 .. MaxChunks
    BY <2>1, CurIs DEF HasChunk, CountInv
  <2>3. /\ hpc'[h] = "submit" /\ shard'[Cur(h)] = writable
        /\ \A g \in Handlers : g # h => hpc'[g] = hpc[g]
        /\ \A c \in Chunk : c # Cur(h) => shard'[c] = shard[c]
        /\ \A g \in Handlers : Cur(g)' = Cur(g)
    BY <2>1, <2>2 DEF TypeOK, Cur
  <2>4. \A g \in Handlers : g # h => Cur(g) # Cur(h)
    BY OtherChunk DEF Cur
  <2>5. ASSUME NEW g \in Handlers, NEW j \in 1 .. MaxChunks, j > nchunks'[g]
        PROVE  counted'[<<g, j>>] = -1 /\ shard'[<<g, j>>] = -1
    <3>1. <<g, j>> \in Chunk /\ <<g, j>> # Cur(h) /\ j > nchunks[g]
      BY <2>5, <2>1, <2>2, Pairs DEF Cur
    <3> QED BY <3>1, <2>1, <2>3 DEF CountInv
  <2>6. \A c \in Chunk : shard'[c] # -1 => counted'[c] \in 0 .. shard'[c]
    BY <2>1, <2>2, <2>3 DEF CountInv
  <2>7. ASSUME NEW g \in Handlers, hpc'[g] \in Inside \cup {"return"}
         PROVE  g # h /\ hpc[g] = hpc'[g] /\ shard'[Cur(g)'] = shard[Cur(g)] /\ counted'[Cur(g)'] = counted[Cur(g)]
    <3>1. g # h
      BY <2>7, <2>3 DEF Inside
    <3>2. Cur(g) \in Chunk
      BY <3>1, <2>7, <2>3, CurIs DEF HasChunk
    <3> QED BY <3>1, <3>2, <2>1, <2>3, <2>4
  <2>8. \A g \in Handlers : hpc'[g] \in Inside => counted'[Cur(g)'] = -1 /\ shard'[Cur(g)'] = -1
    BY <2>7 DEF CountInv
  <2>9. \A g \in Handlers :
          hpc'[g] = "return" => counted'[Cur(g)'] \in 0 .. writable' /\ shard'[Cur(g)'] = -1
    BY <2>1, <2>7 DEF CountInv
  <2> QED BY <2>5, <2>6, <2>8, <2>9 DEF CountInv
<1>6. ASSUME NEW h \in Handlers, Submit(h) PROVE CountInv'
  <2>1. /\ hpc' = [hpc EXCEPT ![h] = "next"]
        /\ UNCHANGED <<nchunks, counted, shard, writable>>
    BY <1>6 DEF Submit, HandlerGoes, shardVars
  <2>2. \A g \in Handlers : hpc'[g] \in Inside \cup {"return"} => hpc'[g] = hpc[g]
    BY <2>1 DEF TypeOK, Inside
  <2> QED BY <2>1, <2>2 DEF CountInv, Cur
<1>7. ASSUME NEW c \in Chunk, RunChunk(c) PROVE CountInv'
  <2>1. UNCHANGED <<hpc, nchunks, counted, shard, writable>>
    BY <1>7, PoolLeaves
  <2> QED BY <2>1 DEF CountInv, Cur
<1>8. ASSUME NEW t \in FinishTask, FinishIndexing(t) PROVE CountInv'
  <2>1. UNCHANGED <<hpc, nchunks, counted, shard, writable>>
    BY <1>8, PoolLeaves
  <2> QED BY <2>1 DEF CountInv, Cur
<1>9. CASE UNCHANGED vars
  BY <1>9 DEF vars, CountInv, Cur
<1> QED BY <1>1, <1>2, <1>3, <1>4, <1>5, <1>6, <1>7, <1>8, <1>9 DEF Next, GetWritableShard

(* Nothing is counted or taken off. *)
LEMMA LedgerSame ==
  ASSUME LedgerInv, running' = running, counted' = counted,
         \A c \in Chunk : Uncounted(c)' <=> Uncounted(c),
         \A c \in Chunk : Uncounted(c) => shard'[c] = shard[c]
  PROVE  LedgerInv'
<1> SUFFICES ASSUME NEW s \in Shard
             PROVE  running'[s] = Cardinality(Counted(s)') - Cardinality(TakenOff(s)')
  BY DEF LedgerInv
<1>1. Counted(s)' = Counted(s)
  BY DEF Counted
<1>2. TakenOff(s)' = TakenOff(s)
  BY DEF TakenOff
<1>3. running[s] = Cardinality(Counted(s)) - Cardinality(TakenOff(s))
  BY DEF LedgerInv
<1> QED BY <1>1, <1>2, <1>3

(* A chunk is counted in shard s, unless the shard refuses. *)
LEMMA LedgerUp ==
  ASSUME TypeOK, LedgerInv, NEW h \in Handlers, NEW k, NEW s \in Shard,
         CountChunk(h, k, s), <<h, k>> \in Chunk, counted[<<h, k>>] = -1,
         UNCHANGED <<shard, cpc>>
  PROVE  LedgerInv'
<1> DEFINE c == <<h, k>>
<1>1. CASE UNCHANGED <<running, counted>>
  <2>1. \A d \in Chunk : (Uncounted(d)' <=> Uncounted(d)) /\ shard'[d] = shard[d]
    BY DEF Uncounted
  <2> QED BY <1>1, <2>1, LedgerSame
<1>2. CASE running' = [running EXCEPT ![s] = @ + 1] /\ counted' = [counted EXCEPT ![c] = s]
  <2> SUFFICES ASSUME NEW r \in Shard
               PROVE  running'[r] = Cardinality(Counted(r)') - Cardinality(TakenOff(r)')
    BY DEF LedgerInv
  <2>1. /\ running[r] = Cardinality(Counted(r)) - Cardinality(TakenOff(r))
        /\ running[r] \in Int /\ r # -1
    BY RolloverAssumption DEF LedgerInv, TypeOK, Shard
  <2>2. TakenOff(r)' = TakenOff(r)
    BY DEF TakenOff, Uncounted
  <2>3. Counted(r) \in SUBSET Chunk /\ TakenOff(r) \in SUBSET Chunk
    BY DEF Counted, TakenOff
  <2>4. Cardinality(Counted(r)) \in Nat /\ Cardinality(TakenOff(r)) \in Nat
    BY <2>3, ChunksFinite
  <2>5. \A d \in Chunk : counted'[d] = IF d = c THEN s ELSE counted[d]
    BY <1>2 DEF TypeOK
  <2>6. CASE r = s
    <3>1. Counted(r)' = Counted(r) \cup {c} /\ c \notin Counted(r)
      BY <2>1, <2>5, <2>6 DEF Counted
    <3>2. Cardinality(Counted(r) \cup {c}) = Cardinality(Counted(r)) + 1
      BY <3>1, <2>3, ChunksFinite, FS_AddElement
    <3>3. running'[r] = running[r] + 1
      BY <1>2, <2>6 DEF TypeOK
    <3> QED BY <2>1, <2>2, <2>4, <3>1, <3>2, <3>3
  <2>7. CASE r # s
    <3>1. Counted(r)' = Counted(r)
      BY <2>1, <2>5, <2>7 DEF Counted
    <3>2. running'[r] = running[r]
      BY <1>2, <2>7 DEF TypeOK
    <3> QED BY <2>1, <2>2, <3>1, <3>2
  <2> QED BY <2>6, <2>7
<1> QED BY <1>1, <1>2 DEF CountChunk

(* finishIndexingChunk takes a chunk off the shard it wrote to. *)
LEMMA LedgerDown ==
  ASSUME TypeOK, ChunkInv, LedgerInv, NEW c \in Chunk, Uncount(c)
  PROVE  LedgerInv'
<1>1. /\ cpc[c] = "uncount" /\ running' = [running EXCEPT ![shard[c]] = @ - 1]
      /\ UNCHANGED <<counted, shard>>
      /\ \A d \in Chunk : d # c => cpc'[d] = cpc[d]
      /\ cpc'[c] \in {"check", "release"}
  BY DEF Uncount, TypeOK
<1>2. shard[c] \in Shard
  BY <1>1 DEF ChunkInv
<1> SUFFICES ASSUME NEW r \in Shard
             PROVE  running'[r] = Cardinality(Counted(r)') - Cardinality(TakenOff(r)')
  BY DEF LedgerInv
<1>3. /\ running[r] = Cardinality(Counted(r)) - Cardinality(TakenOff(r))
      /\ running[r] \in Int
  BY DEF LedgerInv, TypeOK
<1>4. Counted(r)' = Counted(r)
  BY <1>1 DEF Counted
<1>5. Counted(r) \in SUBSET Chunk /\ TakenOff(r) \in SUBSET Chunk
  BY DEF Counted, TakenOff
<1>6. Cardinality(Counted(r)) \in Nat /\ Cardinality(TakenOff(r)) \in Nat
  BY <1>5, ChunksFinite
<1>7. /\ ~ Uncounted(c) /\ Uncounted(c)'
      /\ \A d \in Chunk : d # c => (Uncounted(d)' <=> Uncounted(d))
  BY <1>1 DEF Uncounted
<1>8. CASE r = shard[c]
  <2>1. TakenOff(r)' = TakenOff(r) \cup {c} /\ c \notin TakenOff(r)
    BY <1>1, <1>7, <1>8 DEF TakenOff
  <2>2. Cardinality(TakenOff(r) \cup {c}) = Cardinality(TakenOff(r)) + 1
    BY <2>1, <1>5, ChunksFinite, FS_AddElement
  <2>3. running'[r] = running[r] - 1
    BY <1>1, <1>2, <1>8 DEF TypeOK
  <2> QED BY <1>3, <1>4, <1>6, <2>1, <2>2, <2>3
<1>9. CASE r # shard[c]
  <2>1. TakenOff(r)' = TakenOff(r)
    BY <1>1, <1>7, <1>9 DEF TakenOff
  <2>2. running'[r] = running[r]
    BY <1>1, <1>2, <1>9 DEF TypeOK
  <2> QED BY <1>3, <1>4, <2>1, <2>2
<1> QED BY <1>8, <1>9

(* Every step keeps the ledger of each shard. *)
LEMMA LedgerStep ==
  ASSUME RolloverInv, CountInv, LedgerInv, [Next]_vars
  PROVE  LedgerInv'
<1> USE RolloverAssumption DEF RolloverInv
<1>a. UNCHANGED <<running, counted, shard, cpc>> => LedgerInv'
  BY LedgerSame DEF Uncounted
<1>1. ASSUME NEW h \in Handlers, UseShard(h) PROVE LedgerInv'
  <2> DEFINE k == nchunks[h] + 1
  <2>1. /\ CountChunk(h, k, writable) /\ nchunks[h] < MaxChunks /\ UNCHANGED <<shard, cpc>>
    BY <1>1 DEF UseShard
  <2>2. k \in 1 .. MaxChunks /\ k > nchunks[h] /\ writable \in Shard
    BY <2>1 DEF TypeOK
  <2>3. <<h, k>> \in Chunk /\ counted[<<h, k>>] = -1
    BY <2>2, Pairs DEF CountInv
  <2> HIDE DEF k
  <2> QED BY <2>1, <2>2, <2>3, LedgerUp
<1>2. ASSUME NEW h \in Handlers, RollOver(h) \/ RollOverFails(h) \/ NextRequest(h) \/ CheckDrained(h)
                                 \/ RolloverFinishes(h)
      PROVE  LedgerInv'
  <2>1. UNCHANGED <<running, counted, shard, cpc>>
    BY <1>2 DEF RollOver, RollOverFails, NextRequest, CheckDrained, RolloverFinishes, chunkVars, shardVars
  <2> QED BY <2>1, <1>a
<1>3. ASSUME NEW h \in Handlers, StartNext(h) PROVE LedgerInv'
  <2>1. /\ hpc[h] = "start" /\ UNCHANGED <<shard, cpc>>
        /\ CountChunk(h, nchunks[h], writable + 1) \/ UNCHANGED <<running, counted>>
    BY <1>3 DEF StartNext
  <2>2. /\ <<h, nchunks[h]>> \in Chunk /\ counted[<<h, nchunks[h]>>] = -1
        /\ writable + 1 \in Shard
    BY <2>1, CurIs, NextShard DEF HasChunk, Inside, CountInv, Cur
  <2> QED BY <2>1, <2>2, <1>a, LedgerUp
<1>4. ASSUME NEW h \in Handlers, Return(h) PROVE LedgerInv'
  <2>1. /\ hpc[h] = "return" /\ shard' = [shard EXCEPT ![Cur(h)] = writable]
        /\ UNCHANGED <<counted, cpc, running>>
    BY <1>4 DEF Return, shardVars
  <2>2. Cur(h) \in Chunk /\ cpc[Cur(h)] = "none"
    BY <2>1, CurIs DEF HasChunk
  <2>3. \A c \in Chunk : (Uncounted(c)' <=> Uncounted(c)) /\ (Uncounted(c) => shard'[c] = shard[c])
    BY <2>1, <2>2 DEF Uncounted, TypeOK
  <2> QED BY <2>1, <2>3, LedgerSame
<1>5. ASSUME NEW h \in Handlers, Submit(h) PROVE LedgerInv'
  <2>1. /\ hpc[h] = "submit" /\ cpc' = [cpc EXCEPT ![Cur(h)] = "queued"]
        /\ UNCHANGED <<counted, shard, running>>
    BY <1>5 DEF Submit, shardVars
  <2>2. Cur(h) \in Chunk /\ cpc[Cur(h)] = "none"
    BY <2>1, CurIs DEF HasChunk
  <2>3. \A c \in Chunk : (Uncounted(c)' <=> Uncounted(c))
    BY <2>1, <2>2 DEF Uncounted, TypeOK
  <2> QED BY <2>1, <2>3, LedgerSame
<1>6. ASSUME NEW c \in Chunk, RunChunk(c) PROVE LedgerInv'
  <2>1. CASE Uncount(c)
    BY <2>1, LedgerDown
  <2>2. CASE ~ Uncount(c)
    <3>1. running' = running /\ UNCHANGED <<counted, shard>>
      BY <1>6, <2>2
         DEF RunChunk, StartChunk, IndexChunk, CheckFlag, ChunkFinishes, ReleaseChunk, shardVars
    <3>2. cpc' = cpc \/ \E q : cpc' = [cpc EXCEPT ![c] = q]
                            /\ (q \in {"check", "finish", "release", "done"} <=> Uncounted(c))
      <4>1. CASE StartChunk(c)
        <5>1. ~ Uncounted(c) /\ cpc' = [cpc EXCEPT ![c] = "index"]
          BY <4>1, HeadQueued DEF StartChunk, Uncounted
        <5>2. "index" \in {"check", "finish", "release", "done"} <=> Uncounted(c)
          BY <5>1
        <5> QED BY <5>1, <5>2
      <4>2. CASE IndexChunk(c)
        <5>1. ~ Uncounted(c) /\ cpc' = [cpc EXCEPT ![c] = "uncount"]
          BY <4>2 DEF IndexChunk, Uncounted
        <5>2. "uncount" \in {"check", "finish", "release", "done"} <=> Uncounted(c)
          BY <5>1
        <5> QED BY <5>1, <5>2
      <4>3. CASE CheckFlag(c)
        <5>1. Uncounted(c)
          BY <4>3 DEF CheckFlag, Uncounted
        <5> QED BY <4>3, <5>1 DEF CheckFlag
      <4>4. CASE ChunkFinishes(c)
        <5>1. Uncounted(c) /\ cpc' = [cpc EXCEPT ![c] = "release"]
          BY <4>4 DEF ChunkFinishes, Uncounted
        <5> QED BY <5>1
      <4>5. CASE ReleaseChunk(c)
        <5>1. Uncounted(c) /\ cpc' = [cpc EXCEPT ![c] = "done"]
          BY <4>5 DEF ReleaseChunk, Uncounted
        <5> QED BY <5>1
      <4> QED BY <1>6, <2>2, <4>1, <4>2, <4>3, <4>4, <4>5 DEF RunChunk
    <3>3. \A d \in Chunk : (Uncounted(d)' <=> Uncounted(d))
      BY <3>2 DEF Uncounted, TypeOK
    <3> QED BY <3>1, <3>3, LedgerSame
  <2> QED BY <2>1, <2>2
<1>7. ASSUME NEW t \in FinishTask, FinishIndexing(t) PROVE LedgerInv'
  <2>1. UNCHANGED <<counted, shard, cpc>> /\ running' = running
    BY <1>7, PoolLeaves, TaskMoves
       DEF FinishIndexing, StartFinish, ForceMerge, Refresh, NeedsWriter, CloseWriter, ReleaseFinish,
           shardVars
  <2> QED BY <2>1, <1>a
<1>8. CASE UNCHANGED vars
  BY <1>8, <1>a DEF vars
<1> QED BY <1>1, <1>2, <1>3, <1>4, <1>5, <1>6, <1>7, <1>8 DEF Next, GetWritableShard

(* What was counted here is in flight, was taken off here, or was moved away; what was
   taken off here was counted here or was moved in. *)
LEMMA LedgerBalances ==
  ASSUME TypeOK, ChunkInv, CountInv, LedgerInv
  PROVE  CountsBalance
<1>1. ASSUME NEW s \in Shard
      PROVE  running[s] = Cardinality(InFlight(s)) + Cardinality(MovedFrom(s)) - Cardinality(MovedTo(s))
  <2> DEFINE Both == {c \in Chunk : Uncounted(c) /\ counted[c] = s /\ shard[c] = s}
  <2>1. /\ InFlight(s) \in SUBSET Chunk /\ MovedFrom(s) \in SUBSET Chunk
        /\ MovedTo(s) \in SUBSET Chunk /\ Both \in SUBSET Chunk
        /\ Both \cup MovedFrom(s) \in SUBSET Chunk
    BY DEF InFlight, MovedFrom, MovedTo
  <2>2. s # -1
    BY RolloverAssumption DEF Shard
  <2>3. \A c \in Chunk : (cpc[c] \in {"none", "queued", "index", "uncount"} <=> ~ Uncounted(c))
    BY DEF TypeOK, Uncounted
  <2>4. \A c \in Chunk : Uncounted(c) => shard[c] # -1
    BY RolloverAssumption DEF Uncounted, ChunkInv, Shard
  <2>5. Counted(s) = InFlight(s) \cup (Both \cup MovedFrom(s))
    BY <2>2, <2>3, <2>4 DEF Counted, InFlight, MovedFrom, Moved
  <2>6. TakenOff(s) = Both \cup MovedTo(s)
    BY <2>2, <2>4 DEF TakenOff, MovedTo, Moved
  <2>7. Both \cap MovedFrom(s) = {} /\ Both \cap MovedTo(s) = {}
    BY DEF MovedFrom, MovedTo, Moved
  <2>8. InFlight(s) \cap (Both \cup MovedFrom(s)) = {}
    BY <2>3 DEF InFlight, MovedFrom
  <2> HIDE DEF Both
  <2>9. Cardinality(Counted(s)) = Cardinality(InFlight(s)) + Cardinality(Both \cup MovedFrom(s))
    BY <2>1, <2>5, <2>8, TwoParts
  <2>10. Cardinality(Both \cup MovedFrom(s)) = Cardinality(Both) + Cardinality(MovedFrom(s))
    BY <2>1, <2>7, TwoParts
  <2>11. Cardinality(TakenOff(s)) = Cardinality(Both) + Cardinality(MovedTo(s))
    BY <2>1, <2>6, <2>7, TwoParts
  <2>12. /\ Cardinality(InFlight(s)) \in Nat /\ Cardinality(MovedFrom(s)) \in Nat
         /\ Cardinality(MovedTo(s)) \in Nat /\ Cardinality(Both) \in Nat
    BY <2>1, ChunksFinite
  <2> QED BY <2>9, <2>10, <2>11, <2>12 DEF LedgerInv
<1>2. \A c \in Chunk : Moved(c) => counted[c] \in 0 .. shard[c]
  BY DEF Moved, CountInv
<1> QED BY <1>1, <1>2 DEF CountsBalance

(* With any number of requests at a time the count of a shard is the number of its
   chunks in flight but for those that "return writableShard", outside the lock, sent
   to a later shard. *)
THEOREM CountsAddUp == Spec => []CountsBalance
<1>1. Init => CountInv /\ LedgerInv
  <2> SUFFICES ASSUME Init PROVE CountInv /\ LedgerInv
    OBVIOUS
  <2>1. CountInv
    BY Pairs DEF Init, CountInv, Inside
  <2>2. ASSUME NEW s \in Shard PROVE running[s] = Cardinality(Counted(s)) - Cardinality(TakenOff(s))
    <3>1. s # -1
      BY RolloverAssumption DEF Shard
    <3>2. Counted(s) = {} /\ TakenOff(s) = {}
      BY <3>1 DEF Init, Counted, TakenOff, Uncounted
    <3>3. Cardinality(Counted(s)) = 0 /\ Cardinality(TakenOff(s)) = 0
      BY <3>2, FS_EmptySet
    <3> QED BY <3>3 DEF Init
  <2> QED BY <2>1, <2>2 DEF LedgerInv
<1>2. RolloverInv /\ CountInv /\ LedgerInv /\ [Next]_vars => CountInv' /\ LedgerInv'
  BY CountInvStep, LedgerStep
<1>3. RolloverInv /\ CountInv /\ LedgerInv => CountsBalance
  BY LedgerBalances DEF RolloverInv
<1> QED BY <1>1, <1>2, <1>3, RolloverInvariant, PTL DEF Spec
=============================================================================
