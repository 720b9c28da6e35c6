--------------------------- MODULE ShardRollover ---------------------------
(***************************************************************************)
(* How the chunks of bulk requests find the shard they write to, and how a *)
(* full shard is finished: IndexState.getWritableShard and the chunk       *)
(* counting of ShardState (startIndexingChunk, finishIndexingChunk,        *)
(* finishWriting, finishIndexing), with the handlers and the pool threads  *)
(* that call them.                                                         *)
(*                                                                         *)
(* A chunk is what BulkCSVAddDocumentHandler makes of it, the one handler  *)
(* that calls both ends of the counting; what happens inside a chunk is    *)
(* BulkIndex.  Here a chunk adds one document to the writer of its shard,  *)
(* which fails if that writer is closed.                                   *)
(***************************************************************************)
EXTENDS Integers, Sequences, FiniteSets

CONSTANTS
  Handlers,    \* threads that serve a bulk request each
  MaxChunks,   \* bound: chunks of a request
  MaxShard,    \* bound: the last shard that may be added
  MaxDocs,     \* a shard with more documents is full (50000000)
  Workers,     \* threads of the indexing pool
  Permits,     \* GlobalState.indexingJobsRunning
  StartMayFail, \* ShardState.start of a new shard may throw
  NoThread     \* nobody is inside the synchronized block

ASSUME RolloverAssumption ==
  /\ IsFiniteSet(Handlers)
  /\ MaxChunks \in Nat /\ MaxShard \in Nat /\ MaxDocs \in Nat
  /\ Workers \in Nat \ {0} /\ Permits \in Nat \ {0}
  /\ StartMayFail \in BOOLEAN
  /\ NoThread \notin Handlers

Shard == 0 .. MaxShard
Chunk == Handlers \X (1 .. MaxChunks)

\* The force merge that finishes a shard, submitted by the rollover or by a chunk.
Rollover   == <<NoThread, 0>>
FinishTask == {"finish"} \X Shard \X ({Rollover} \cup Chunk)

VARIABLES
  lock,       \* who is inside IndexState's synchronized block
  writable,   \* IndexState.writableShard
  added,      \* shards in IndexState.shards
  writer,     \* the IndexWriter of each shard: "none", "open" or "closed"
  docs,       \* its maxDoc
  running,    \* ShardState.runningChunks
  finishing,  \* ShardState.finishWriting: 0, 1 or 2
  hpc,        \* where each handler is
  nchunks,    \* chunks each handler asked a shard for
  counted,    \* the shard that counted a chunk
  shard,      \* the shard getWritableShard returned for it
  cpc,        \* where a chunk is
  tpc,        \* where a finish task is
  queue,      \* the queue of the pool
  permits     \* permits left in indexingJobsRunning

vars == <<lock, writable, added, writer, docs, running, finishing, hpc, nchunks,
          counted, shard, cpc, tpc, queue, permits>>

shardVars  == <<writable, added, writer, docs, running, finishing>>
chunkVars  == <<counted, shard, cpc>>

Cur(h) == <<h, nchunks[h]>>

Init ==
  /\ lock = NoThread
  /\ writable = 0
  /\ added = {0}
  /\ writer = [s \in Shard |-> IF s = 0 THEN "open" ELSE "none"]
  /\ docs = [s \in Shard |-> 0]
  /\ running = [s \in Shard |-> 0]
  /\ finishing = [s \in Shard |-> 0]
  /\ hpc = [h \in Handlers |-> "next"]
  /\ nchunks = [h \in Handlers |-> 0]
  /\ counted = [c \in Chunk |-> -1]
  /\ shard = [c \in Chunk |-> -1]
  /\ cpc = [c \in Chunk |-> "none"]
  /\ tpc = [t \in FinishTask |-> "none"]
  /\ queue = << >>
  /\ permits = Permits

-----------------------------------------------------------------------------
(* getWritableShard in handler h. *)

Full == docs[writable] > MaxDocs
HandlerGoes(h, where) == hpc' = [hpc EXCEPT ![h] = where]

\* (Mistake: the chunk is not counted.)
ForgetChunk(h, k, s) ==
  /\ counted' = [counted EXCEPT ![<<h, k>>] = s]
  /\ HandlerGoes(h, "return")
  /\ UNCHANGED running

\* startIndexingChunk of shard s for chunk k of h.
CountChunk(h, k, s) ==
  IF finishing[s] # 0
  THEN /\ HandlerGoes(h, "failed")
       /\ UNCHANGED <<running, counted>>
  ELSE /\ running' = [running EXCEPT ![s] = @ + 1]
       /\ counted' = [counted EXCEPT ![<<h, k>>] = s]
       /\ HandlerGoes(h, "return")

\* The synchronized block when the shard has room.
UseShard(h) ==
  /\ hpc[h] = "next" /\ lock = NoThread /\ nchunks[h] < MaxChunks
  /\ writer[writable] = "open" /\ ~Full
  /\ nchunks' = [nchunks EXCEPT ![h] = @ + 1]
  /\ CountChunk(h, nchunks[h] + 1, writable)
  /\ UNCHANGED <<lock, writable, added, writer, docs, finishing, shard, cpc, tpc, queue, permits>>

\* The shard is full: add the next one and set the flag of this one.
RollOver(h) ==
  /\ hpc[h] = "next" /\ lock = NoThread /\ nchunks[h] < MaxChunks
  /\ writer[writable] = "open" /\ Full /\ writable < MaxShard
  /\ writable + 1 \notin added
  /\ nchunks' = [nchunks EXCEPT ![h] = @ + 1]
  /\ lock' = h
  /\ added' = added \cup {writable + 1}
  /\ finishing' = [finishing EXCEPT ![writable] = 1]
  /\ HandlerGoes(h, "flagged")
  /\ UNCHANGED <<writable, writer, docs, running, chunkVars, tpc, queue, permits>>

\* The writer of the full shard is closed, or its successor exists already: an exception.
RollOverFails(h) ==
  /\ hpc[h] = "next" /\ lock = NoThread /\ nchunks[h] < MaxChunks
  /\ writer[writable] = "closed" \/ (Full /\ writable + 1 \in added)
  /\ nchunks' = [nchunks EXCEPT ![h] = @ + 1]
  /\ HandlerGoes(h, "failed")
  /\ UNCHANGED <<lock, shardVars, chunkVars, tpc, queue, permits>>

\* The client of a failed request sends another one.
NextRequest(h) ==
  /\ hpc[h] = "failed"
  /\ HandlerGoes(h, "next")
  /\ UNCHANGED <<lock, shardVars, nchunks, chunkVars, tpc, queue, permits>>

\* (Mistake: the last chunk is always left to finish the shard.)
LeaveToChunks(h) ==
  /\ hpc[h] = "flagged"
  /\ HandlerGoes(h, "start")
  /\ UNCHANGED <<lock, shardVars, nchunks, chunkVars, tpc, queue, permits>>

\* finishWriting: is a chunk still counted?
CheckDrained(h) ==
  /\ hpc[h] = "flagged"
  /\ HandlerGoes(h, IF running[writable] = 0 THEN "finish" ELSE "start")
  /\ UNCHANGED <<lock, shardVars, nchunks, chunkVars, tpc, queue, permits>>

\* (Mistake: the force merge takes no permit, but releases one.)
SubmitFinishFree(t) ==
  /\ queue' = Append(queue, t)
  /\ tpc' = [tpc EXCEPT ![t] = "queued"]
  /\ UNCHANGED permits

\* finishIndexing: take a permit and give the force merge to the pool.
SubmitFinish(t) ==
  /\ permits > 0
  /\ permits' = permits - 1
  /\ queue' = Append(queue, t)
  /\ tpc' = [tpc EXCEPT ![t] = "queued"]

RolloverFinishes(h) ==
  /\ hpc[h] = "finish"
  /\ SubmitFinish(<<"finish", writable, Rollover>>)
  /\ HandlerGoes(h, "start")
  /\ UNCHANGED <<lock, shardVars, nchunks, chunkVars>>

\* nextShard.start(), then the new shard counts the chunk.
StartNext(h) ==
  /\ hpc[h] = "start"
  /\ lock' = NoThread
  /\ \/ /\ writer' = [writer EXCEPT ![writable + 1] = "open"]
        /\ writable' = writable + 1
        /\ CountChunk(h, nchunks[h], writable + 1)
     \/ /\ StartMayFail
        /\ HandlerGoes(h, "failed")
        /\ UNCHANGED <<writer, writable, running, counted>>
  /\ UNCHANGED <<added, docs, finishing, nchunks, shard, cpc, tpc, queue, permits>>

\* "return writableShard", after the synchronized block.
Return(h) ==
  /\ hpc[h] = "return"
  /\ shard' = [shard EXCEPT ![Cur(h)] = writable]
  /\ HandlerGoes(h, "submit")
  /\ UNCHANGED <<lock, shardVars, nchunks, counted, cpc, tpc, queue, permits>>

\* submitIndexingTask of the chunk.
Submit(h) ==
  /\ hpc[h] = "submit" /\ permits > 0
  /\ permits' = permits - 1
  /\ queue' = Append(queue, Cur(h))
  /\ cpc' = [cpc EXCEPT ![Cur(h)] = "queued"]
  /\ HandlerGoes(h, "next")
  /\ UNCHANGED <<lock, shardVars, nchunks, counted, shard, tpc>>

-----------------------------------------------------------------------------
(* The pool. *)

Busy ==
  {c \in Chunk : cpc[c] \in {"index", "uncount", "check", "finish", "release"}}
  \cup {t \in FinishTask : tpc[t] \in {"merge", "refresh", "close", "release"}}

StartChunk(c) ==
  /\ queue # << >> /\ Head(queue) = c /\ Cardinality(Busy) < Workers
  /\ queue' = Tail(queue)
  /\ cpc' = [cpc EXCEPT ![c] = "index"]
  /\ UNCHANGED <<lock, shardVars, hpc, nchunks, counted, shard, tpc, permits>>

\* writer.addDocuments; AlreadyClosedException becomes the error of the request.
IndexChunk(c) ==
  /\ cpc[c] = "index"
  /\ docs' = IF writer[shard[c]] = "open" THEN [docs EXCEPT ![shard[c]] = @ + 1] ELSE docs
  /\ cpc' = [cpc EXCEPT ![c] = "uncount"]
  /\ UNCHANGED <<lock, writable, added, writer, running, finishing, hpc, nchunks, counted,
                 shard, tpc, queue, permits>>

\* finishIndexingChunk: decrement first ...
Uncount(c) ==
  /\ cpc[c] = "uncount"
  /\ running' = [running EXCEPT ![shard[c]] = @ - 1]
  /\ cpc' = [cpc EXCEPT ![c] = IF running[shard[c]] = 1 THEN "check" ELSE "release"]
  /\ UNCHANGED <<lock, writable, added, writer, docs, finishing, hpc, nchunks, counted,
                 shard, tpc, queue, permits>>

\* (Mistake: chunks leave the shard to the rollover.)
IgnoreFlag(c) ==
  /\ cpc[c] = "check"
  /\ cpc' = [cpc EXCEPT ![c] = "release"]
  /\ UNCHANGED <<lock, shardVars, hpc, nchunks, counted, shard, tpc, queue, permits>>

\* ... and when that gave zero, look at the flag.
CheckFlag(c) ==
  /\ cpc[c] = "check"
  /\ cpc' = [cpc EXCEPT ![c] = IF finishing[shard[c]] = 1 THEN "finish" ELSE "release"]
  /\ UNCHANGED <<lock, shardVars, hpc, nchunks, counted, shard, tpc, queue, permits>>

\* finishIndexing in the pool thread, which still holds the permit of its chunk.
ChunkFinishes(c) ==
  /\ cpc[c] = "finish"
  /\ SubmitFinish(<<"finish", shard[c], c>>)
  /\ cpc' = [cpc EXCEPT ![c] = "release"]
  /\ UNCHANGED <<lock, shardVars, hpc, nchunks, counted, shard>>

ReleaseChunk(c) ==
  /\ cpc[c] = "release"
  /\ permits' = permits + 1
  /\ cpc' = [cpc EXCEPT ![c] = "done"]
  /\ UNCHANGED <<lock, shardVars, hpc, nchunks, counted, shard, tpc, queue>>

StartFinish(t) ==
  /\ queue # << >> /\ Head(queue) = t /\ Cardinality(Busy) < Workers
  /\ queue' = Tail(queue)
  /\ tpc' = [tpc EXCEPT ![t] = "merge"]
  /\ UNCHANGED <<lock, shardVars, hpc, nchunks, chunkVars, permits>>

\* forceMerge(1), and then maybeRefreshBlocking: both need an open writer.  The
\* task dies of the exception and keeps its permit.
NeedsWriter(t, from, to) ==
  /\ tpc[t] = from
  /\ tpc' = [tpc EXCEPT ![t] = IF writer[t[2]] = "open" THEN to ELSE "died"]
  /\ UNCHANGED <<lock, shardVars, hpc, nchunks, chunkVars, queue, permits>>

ForceMerge(t) == NeedsWriter(t, "merge", "refresh")
Refresh(t)    == NeedsWriter(t, "refresh", "close")

\* finishWriting = 2 and writer.close(), which a second caller may repeat.
CloseWriter(t) ==
  /\ tpc[t] = "close"
  /\ finishing' = [finishing EXCEPT ![t[2]] = 2]
  /\ writer' = [writer EXCEPT ![t[2]] = "closed"]
  /\ tpc' = [tpc EXCEPT ![t] = "release"]
  /\ UNCHANGED <<lock, writable, added, docs, running, hpc, nchunks, chunkVars, queue, permits>>

ReleaseFinish(t) ==
  /\ tpc[t] = "release"
  /\ permits' = permits + 1
  /\ tpc' = [tpc EXCEPT ![t] = "done"]
  /\ UNCHANGED <<lock, shardVars, hpc, nchunks, chunkVars, queue>>

-----------------------------------------------------------------------------
GetWritableShard(h) ==
  UseShard(h) \/ RollOver(h) \/ RollOverFails(h) \/ NextRequest(h) \/ CheckDrained(h)
  \/ RolloverFinishes(h) \/ StartNext(h) \/ Return(h)

RunChunk(c) ==
  StartChunk(c) \/ IndexChunk(c) \/ Uncount(c) \/ CheckFlag(c) \/ ChunkFinishes(c) \/ ReleaseChunk(c)

FinishIndexing(t) ==
  StartFinish(t) \/ ForceMerge(t) \/ Refresh(t) \/ CloseWriter(t) \/ ReleaseFinish(t)

Next ==
  \/ \E h \in Handlers : GetWritableShard(h) \/ Submit(h)
  \/ \E c \in Chunk : RunChunk(c)
  \/ \E t \in FinishTask : FinishIndexing(t)

Spec == Init /\ [][Next]_vars

\* Some thread that can take a step eventually takes one; no step can be undone.
FairSpec == Spec /\ WF_vars(Next)

-----------------------------------------------------------------------------
(* Properties. *)

TypeOK ==
  /\ lock \in Handlers \cup {NoThread}
  /\ writable \in Shard
  /\ added \subseteq Shard
  /\ writer \in [Shard -> {"none", "open", "closed"}]
  /\ docs \in [Shard -> Nat]
  /\ running \in [Shard -> Int]
  /\ finishing \in [Shard -> 0 .. 2]
  /\ hpc \in [Handlers -> {"next", "flagged", "finish", "start", "return", "submit", "failed"}]
  /\ nchunks \in [Handlers -> 0 .. MaxChunks]
  /\ counted \in [Chunk -> Shard \cup {-1}]
  /\ shard \in [Chunk -> Shard \cup {-1}]
  /\ cpc \in [Chunk -> {"none", "queued", "index", "uncount", "check", "finish", "release", "done"}]
  /\ tpc \in [FinishTask -> {"none", "queued", "merge", "refresh", "close", "release", "done", "died"}]
  /\ queue \in Seq(Chunk \cup FinishTask)
  /\ permits \in 0 .. Permits

\* Chunks counted in shard s that finishIndexingChunk did not take off yet.
InFlight(s) == {c \in Chunk : counted[c] = s /\ cpc[c] \in {"none", "queued", "index", "uncount"}}

Drainer(s) == \E c \in Chunk : shard[c] = s /\ cpc[c] \in {"check", "finish"}
Submitted(s) == {t \in FinishTask : t[2] = s /\ tpc[t] # "none"}

(* A full shard is never forgotten: once its flag is set and no chunk is left,
   either a thread is on its way to finish it or the force merge was submitted.
   The flag is set before the count is read by finishWriting, and the count is
   taken down before the flag is read by finishIndexingChunk. *)
FinishNotMissed ==
  \A s \in Shard :
    finishing[s] # 0 /\ running[s] = 0 =>
      \/ \E h \in Handlers : hpc[h] \in {"flagged", "finish"} /\ writable = s
      \/ Drainer(s)
      \/ Submitted(s) # {}

\* "return writableShard" is outside the lock: the chunk is written to another shard
\* than the one that counted it.
Moved(c) == shard[c] \notin {-1, counted[c]}
Uncounted(c) == cpc[c] \in {"check", "finish", "release", "done"}
MovedFrom(s) == {c \in Chunk : Moved(c) /\ Uncounted(c) /\ counted[c] = s}
MovedTo(s)   == {c \in Chunk : Moved(c) /\ Uncounted(c) /\ shard[c] = s}

(* With several requests at a time the count of a shard is wrong by exactly the
   chunks that the race for "return writableShard" moved: each is written to a
   later shard than the one that counted it, stays in the count of that one for
   ever, and is taken off the later one. *)
CountsBalance ==
  /\ \A s \in Shard :
       running[s] = Cardinality(InFlight(s)) + Cardinality(MovedFrom(s)) - Cardinality(MovedTo(s))
  /\ \A c \in Chunk : Moved(c) => counted[c] \in 0 .. shard[c]

(* Permits of the pool are accounted for: each is free, or held by a chunk or by a
   force merge; one that is held for good belongs to a force merge that died. *)
Holding ==
  {c \in Chunk : cpc[c] \notin {"none", "done"}}
  \cup {t \in FinishTask : tpc[t] \notin {"none", "done"}}

PermitsAccounted == permits + Cardinality(Holding) = Permits

(* A rolled-over shard becomes read-only in the end, unless a chunk that it counted,
   or that another shard counted for it, was moved: then its count is wrong for
   good. *)
Untouched(s) == \A c \in Chunk : Moved(c) => s \notin {counted[c], shard[c]}
FullShardCloses == \A s \in Shard : []Untouched(s) => (finishing[s] = 1 ~> finishing[s] = 2)

(* A shard is force merged and closed only after its in-flight chunks are done:
   no chunk meets a closed writer. *)
NoChunkMeetsClosedWriter == \A c \in Chunk : cpc[c] = "index" => writer[shard[c]] = "open"
=============================================================================
