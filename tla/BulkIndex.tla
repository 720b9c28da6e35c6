------------------------------ MODULE BulkIndex ------------------------------
(***************************************************************************)
(* Chunked bulk indexing: the three streaming handlers                     *)
(* BulkCSVAddDocumentHandler ("csv"), BulkCSVAddDocumentHandlerNonBinary   *)
(* ("csvchars") and BulkAddDocumentHandler ("json"), the inner job         *)
(* ParseAndIndexOneChunk, the shared pool of GlobalState and the           *)
(* IndexingContext of one request.                                         *)
(*                                                                         *)
(* A handler thread cuts its stream into chunks of ChunkLen characters,    *)
(* gives each chunk to the pool and waits on a Phaser.  A chunk indexes    *)
(* the documents it holds whole; the document that spans its end is glued  *)
(* together with the prefix the NEXT chunk hands back, and is indexed by   *)
(* whichever of the two threads gets there last.                           *)
(*                                                                         *)
(* A character is abstracted to what it does to its document: "c" nothing, *)
(* "n" ends it, "b" makes it fail to parse, "w" makes the IndexWriter      *)
(* refuse it, "u" makes FacetsConfig.build throw an unchecked exception.   *)
(* A fragment is the sequence of the stream positions it holds, so that a  *)
(* document glued from the wrong pieces is visible.  The shard a chunk     *)
(* goes to is the subject of ShardRollover; here all requests write to one *)
(* shard, of which only the count of running chunks is modelled.           *)
(***************************************************************************)
EXTENDS Integers, Sequences, FiniteSets, Functions, FiniteSetsExt

CONSTANTS
  Streams,       \* the threads that serve a bulk request
  Requests,      \* what clients may send: the handler ("format"), the characters
                 \*   ("text") and whether the index has facets ("facets")
  MaxLen,        \* bound: the longest text
  ChunkLen,      \* characters per chunk (CHUNK_SIZE_KB)
  Workers,       \* threads of the indexing pool (MAX_INDEXING_THREADS)
  Permits,       \* GlobalState.indexingJobsRunning (MAX_BUFFERED_ITEMS)
  LocalPermits   \* the per-request semaphore of json and csvchars

Chars == {"c", "n", "b", "w", "u"}

ASSUME BulkAssumption ==
  /\ IsFiniteSet(Streams)
  /\ MaxLen \in Nat
  /\ ChunkLen \in Nat \ {0}
  /\ Workers \in Nat \ {0}
  /\ Permits \in Nat \ {0}
  /\ LocalPermits \in Nat \ {0}
  /\ \A r \in Requests :
       /\ r.format \in {"csv", "csvchars", "json"}
       /\ r.text \in Seq(Chars) /\ Len(r.text) <= MaxLen
       /\ r.facets \in BOOLEAN

MaxChunks == (MaxLen \div ChunkLen) + 1
Chunk == Streams \X (1 .. MaxChunks)

VARIABLES
  request,    \* the request each thread serves
  hpc,        \* where the handler thread of each request is
  nchunks,    \* chunks created so far; "prev" of the handler is the last one
  job,        \* where the pool thread running a chunk is
  queue,      \* GlobalState.docsToIndex
  endOff,     \* endFragmentStartOffset: -1 unknown, -2 chunk inside one document
  nextFrag,   \* nextStartFragment: <<>> for null, else <<fragment>>
  fin,        \* progress of indexSplitDoc of a chunk
  exc,        \* an exception is leaving indexSplitDoc of a chunk
  permits,    \* permits left in indexingJobsRunning
  local,      \* permits left in the per-request semaphore
  running,    \* ShardState.runningChunks
  parties,    \* IndexingContext.inFlightChunks: registered parties,
  unarrived,  \*   parties that did not arrive yet
  phase,      \*   and the phase number
  error,      \* IndexingContext.error is set
  addCount,   \* IndexingContext.addCount
  indexed,    \* documents in the index: <<positions, chunk, "block" or "split">>
  answer      \* the response of each request

vars == <<request, hpc, nchunks, job, queue, endOff, nextFrag, fin, exc, permits,
          local, running, parties, unarrived, phase, error, addCount, indexed, answer>>

phaserVars == <<parties, unarrived, phase>>
ctxVars    == <<error, addCount, indexed>>
limitVars  == <<permits, local, running>>
handVars   == <<hpc, nchunks, answer, request>>

Text(s)      == request[s].text
Format(s)    == request[s].format
HasFacets(s) == request[s].facets

UsesLocalSemaphore(s) == Format(s) \in {"json", "csvchars"}
CountsChunkStart(s)   == Format(s) \in {"json", "csv"}     \* getWritableShard
CountsChunkFinish(s)  == Format(s) = "csv"                 \* finishIndexingChunk

-----------------------------------------------------------------------------
(* The text of a stream, chunk by chunk. *)

NumChunks(s) == (Len(Text(s)) \div ChunkLen) + 1

Positions(c) ==
  LET first == (c[2] - 1) * ChunkLen
      left  == Len(Text(c[1])) - first
  IN  [i \in 1 .. (IF left < ChunkLen THEN left ELSE ChunkLen) |-> first + i]

Kinds(s, d) == {Text(s)[p] : p \in Range(d)}

LineEndsIn(s, frag) == {i \in DOMAIN frag : Text(s)[frag[i]] = "n"}

\* The first line of a fragment, with its newline if there is one.
FirstLine(s, frag) ==
  IF LineEndsIn(s, frag) = {} THEN frag ELSE SubSeq(frag, 1, Min(LineEndsIn(s, frag)))

\* What goes wrong with a document: it does not parse, the facets of it cannot
\* be built, or the writer refuses it.
Fault(s, d) ==
  CASE "b" \in Kinds(s, d) -> "parse"
    [] "b" \notin Kinds(s, d) /\ "u" \in Kinds(s, d) /\ HasFacets(s) -> "facet"
    [] "b" \notin Kinds(s, d) /\ ~("u" \in Kinds(s, d) /\ HasFacets(s))
         /\ "w" \in Kinds(s, d) -> "write"
    [] OTHER -> "none"

Prev(c)    == <<c[1], c[2] - 1>>
HasPrev(c) == c[2] > 1

\* (Mistake: the prefix is indexed as a document of its own.)
SkipNothing(c) == 0

\* Whole lines of chunk c that follow the prefix given to the previous chunk.
SkipPrefix(c) == IF HasPrev(c) THEN Min(LineEndsIn(c[1], Positions(c))) ELSE 0
LineEnds(c)   == {i \in LineEndsIn(c[1], Positions(c)) : i > SkipPrefix(c)}
LineStart(c, i) == Max({SkipPrefix(c)} \cup {j \in LineEnds(c) : j < i})
Line(c, i)    == SubSeq(Positions(c), LineStart(c, i) + 1, i)
FaultyEnds(c) == {i \in LineEnds(c) : Fault(c[1], Line(c, i)) # "none"}

\* The outcome of writer.addDocuments over the documents of chunk c: which of
\* its lines are in the index, how many were counted, where the end fragment
\* starts.  A document that does not parse ends the block early, an exception
\* drops the block; in both cases of json and in the second of csv endOffset
\* keeps its initial value 0.
Block(c) ==
  IF FaultyEnds(c) = {}
  THEN [lines |-> LineEnds(c), counted |-> Cardinality(LineEnds(c)),
        end |-> Max({SkipPrefix(c)} \cup LineEnds(c)), failed |-> FALSE]
  ELSE LET bad  == Min(FaultyEnds(c))
           good == {i \in LineEnds(c) : i < bad}
       IN  IF Fault(c[1], Line(c, bad)) = "parse"
           THEN [lines |-> good, counted |-> Cardinality(good),
                 end |-> IF Format(c[1]) = "json" THEN 0 ELSE LineStart(c, bad), failed |-> TRUE]
           ELSE [lines |-> {}, counted |-> Cardinality(good) + 1, end |-> 0, failed |-> TRUE]

\* (Mistake: the prefix the next chunk handed back is forgotten.)
SplitFragmentAlone(c) == SubSeq(Positions(c), endOff[c] + 1, Len(Positions(c)))

\* The fragment that spans the end of chunk c, once both halves are known.
SplitFragment(c) ==
  SubSeq(Positions(c), endOff[c] + 1, Len(Positions(c))) \o nextFrag[c][1]

StartsInsideDoc(s, d) == d[1] # 1 /\ Text(s)[d[1] - 1] # "n"

-----------------------------------------------------------------------------
Init ==
  /\ request \in [Streams -> Requests]
  /\ hpc = [s \in Streams |-> "read"]
  /\ nchunks = [s \in Streams |-> 0]
  /\ job = [c \in Chunk |-> "none"]
  /\ queue = << >>
  /\ endOff = [c \in Chunk |-> -1]
  /\ nextFrag = [c \in Chunk |-> << >>]
  /\ fin = [c \in Chunk |-> "open"]
  /\ exc = [c \in Chunk |-> FALSE]
  /\ permits = Permits
  /\ local = [s \in Streams |-> LocalPermits]
  /\ running = 0
  /\ parties = [s \in Streams |-> 0]
  /\ unarrived = [s \in Streams |-> 0]
  /\ phase = [s \in Streams |-> 0]
  /\ error = [s \in Streams |-> FALSE]
  /\ addCount = [s \in Streams |-> 0]
  /\ indexed = [s \in Streams |-> {}]
  /\ answer = [s \in Streams |-> "none"]

(* setNextStartFragment: remember the fragment and, when the end fragment is
   already known, run indexSplitDoc in the calling thread. *)
Triggers(p) == endOff[p] # -1
Hand(p, frag) == nextFrag' = [nextFrag EXCEPT ![p] = <<frag>>]

-----------------------------------------------------------------------------
(* The handler thread of request s. *)

\* One turn of the read loop up to the constructor of the chunk: the shard
\* counts the chunk and the chunk registers with the Phaser.
ReadChunk(s) ==
  /\ hpc[s] = "read" /\ ~error[s]
  /\ nchunks' = [nchunks EXCEPT ![s] = @ + 1]
  /\ running' = IF CountsChunkStart(s) THEN running + 1 ELSE running
  /\ parties' = [parties EXCEPT ![s] = @ + 1]
  /\ unarrived' = [unarrived EXCEPT ![s] = @ + 1]
  /\ hpc' = [hpc EXCEPT ![s] = IF UsesLocalSemaphore(s) THEN "acquire" ELSE "submit"]
  /\ UNCHANGED <<request, job, queue, endOff, nextFrag, fin, exc, permits, local,
                 phase, ctxVars, answer>>

\* The loop ends early: some chunk recorded an error.
StopOnError(s) ==
  /\ hpc[s] = "read" /\ error[s]
  /\ hpc' = [hpc EXCEPT ![s] = "close"]
  /\ UNCHANGED <<request, nchunks, job, queue, endOff, nextFrag, fin, exc, limitVars,
                 phaserVars, ctxVars, answer>>

\* End of the constructor in json and csvchars.
AcquireLocal(s) ==
  /\ hpc[s] = "acquire" /\ local[s] > 0
  /\ local' = [local EXCEPT ![s] = @ - 1]
  /\ hpc' = [hpc EXCEPT ![s] = "submit"]
  /\ UNCHANGED <<request, nchunks, job, queue, endOff, nextFrag, fin, exc, permits,
                 running, phaserVars, ctxVars, answer>>

\* (Mistake: no permit is acquired.)
SubmitUnlimited(s) ==
  LET c == <<s, nchunks[s]>>
  IN  /\ hpc[s] = "submit"
      /\ queue' = Append(queue, c)
      /\ job' = [job EXCEPT ![c] = "queued"]
      /\ hpc' = [hpc EXCEPT ![s] = IF nchunks[s] = NumChunks(s) THEN "close" ELSE "read"]
      /\ UNCHANGED <<request, nchunks, endOff, nextFrag, fin, exc, permits, local, running,
                     phaserVars, ctxVars, answer>>

\* submitIndexingTask: blocks on the global semaphore, then queues the chunk.
Submit(s) ==
  LET c == <<s, nchunks[s]>>
  IN  /\ hpc[s] = "submit" /\ permits > 0
      /\ permits' = permits - 1
      /\ queue' = Append(queue, c)
      /\ job' = [job EXCEPT ![c] = "queued"]
      /\ hpc' = [hpc EXCEPT ![s] = IF nchunks[s] = NumChunks(s) THEN "close" ELSE "read"]
      /\ UNCHANGED <<request, nchunks, endOff, nextFrag, fin, exc, local, running,
                     phaserVars, ctxVars, answer>>

\* (Mistake: prev is not advanced to the last chunk.)
CloseOneEarly(s) ==
  LET c == <<s, IF nchunks[s] > 1 THEN nchunks[s] - 1 ELSE 1>>
  IN  /\ hpc[s] = "close"
      /\ Hand(c, << >>)
      /\ hpc' = [hpc EXCEPT ![s] = "await"]
      /\ UNCHANGED <<request, nchunks, job, queue, endOff, fin, exc, limitVars, phaserVars,
                     ctxVars, answer>>

\* prev.setNextStartFragment(empty) on the last chunk.
CloseLast(s) ==
  LET c == <<s, nchunks[s]>>
  IN  /\ hpc[s] = "close"
      /\ Hand(c, << >>)
      /\ fin' = IF Triggers(c) THEN [fin EXCEPT ![c] = "split"] ELSE fin
      /\ hpc' = [hpc EXCEPT ![s] = IF Triggers(c) THEN "closing" ELSE "await"]
      /\ UNCHANGED <<request, nchunks, job, queue, endOff, exc, limitVars, phaserVars,
                     ctxVars, answer>>

\* The split document ran in the handler thread; an exception of it leaves the handler.
Closed(s) ==
  LET c == <<s, nchunks[s]>>
  IN  /\ hpc[s] = "closing" /\ fin[c] = "done"
      /\ hpc' = [hpc EXCEPT ![s] = IF exc[c] THEN "answered" ELSE "await"]
      /\ answer' = IF exc[c] THEN [answer EXCEPT ![s] = "exception"] ELSE answer
      /\ UNCHANGED <<request, nchunks, job, queue, endOff, nextFrag, fin, exc, limitVars,
                     phaserVars, ctxVars>>

\* (Mistake: the phase is read after the chunks registered.)
AnswerAnyPhase(s) ==
  /\ hpc[s] = "await"
  /\ hpc' = [hpc EXCEPT ![s] = "answered"]
  /\ answer' = [answer EXCEPT ![s] = IF error[s] THEN "error" ELSE "ok"]
  /\ UNCHANGED <<request, nchunks, job, queue, endOff, nextFrag, fin, exc, limitVars,
                 phaserVars, ctxVars>>

\* awaitAdvance returns: the Phaser left the phase the request began in.
Answer(s) ==
  /\ hpc[s] = "await" /\ phase[s] # 0
  /\ hpc' = [hpc EXCEPT ![s] = "answered"]
  /\ answer' = [answer EXCEPT ![s] = IF error[s] THEN "error" ELSE "ok"]
  /\ UNCHANGED <<request, nchunks, job, queue, endOff, nextFrag, fin, exc, limitVars,
                 phaserVars, ctxVars>>

-----------------------------------------------------------------------------
(* The pool thread that runs chunk c. *)

Busy == {c \in Chunk : job[c] \in {"scan", "delivering", "index", "end", "ending"}}

Start(c) ==
  /\ queue # << >> /\ Head(queue) = c
  /\ Cardinality(Busy) < Workers
  /\ queue' = Tail(queue)
  /\ job' = [job EXCEPT ![c] = "scan"]
  /\ UNCHANGED <<handVars, endOff, nextFrag, fin, exc, limitVars, phaserVars, ctxVars>>

\* Look for the first newline and hand the prefix before it to the previous chunk.
ScanPrefix(c) ==
  LET nls == LineEndsIn(c[1], Positions(c))
  IN  /\ job[c] = "scan" /\ HasPrev(c) /\ nls # {}
      /\ Hand(Prev(c), SubSeq(Positions(c), 1, Min(nls)))
      /\ fin' = IF Triggers(Prev(c)) THEN [fin EXCEPT ![Prev(c)] = "split"] ELSE fin
      /\ job' = [job EXCEPT ![c] = IF Triggers(Prev(c)) THEN "delivering" ELSE "index"]
      /\ UNCHANGED <<handVars, queue, endOff, exc, limitVars, phaserVars, ctxVars>>

\* The first chunk has no prefix; a chunk without newline is all inside a document.
ScanNoPrefix(c) ==
  /\ job[c] = "scan"
  /\ \/ ~HasPrev(c) /\ job' = [job EXCEPT ![c] = "index"]
     \/ /\ HasPrev(c) /\ LineEndsIn(c[1], Positions(c)) = {}
        /\ job' = [job EXCEPT ![c] = "end"]
  /\ UNCHANGED <<handVars, queue, endOff, nextFrag, fin, exc, limitVars, phaserVars, ctxVars>>

\* The previous chunk's split document ran in this thread.  If it threw, the
\* exception ends this job: run() rethrows and nobody looks at the Future.
Delivered(c) ==
  /\ job[c] = "delivering" /\ fin[Prev(c)] = "done"
  /\ job' = [job EXCEPT ![c] = IF exc[Prev(c)] THEN "died" ELSE "index"]
  /\ UNCHANGED <<handVars, queue, endOff, nextFrag, fin, exc, limitVars, phaserVars, ctxVars>>

\* writer.addDocuments over the whole documents of the chunk.
IndexBlock(c) ==
  LET s == c[1]
      b == Block(c)
  IN  /\ job[c] = "index"
      /\ indexed' = [indexed EXCEPT ![s] = @ \cup {<<Line(c, i), c, "block">> : i \in b.lines}]
      /\ addCount' = [addCount EXCEPT ![s] = @ + b.counted]
      /\ error' = [error EXCEPT ![s] = @ \/ b.failed]
      /\ job' = [job EXCEPT ![c] = "end"]
      /\ UNCHANGED <<handVars, queue, endOff, nextFrag, fin, exc, limitVars, phaserVars>>

\* setEndFragment: offset of the trailing fragment, or -2; the split document
\* runs here when the next chunk was faster.
EndOffset(c) ==
  IF HasPrev(c) /\ LineEndsIn(c[1], Positions(c)) = {} THEN -2 ELSE Block(c).end

\* (Mistake: the end fragment is stored without looking for the next start fragment.)
SetEndBlindly(c) ==
  /\ job[c] = "end"
  /\ endOff' = [endOff EXCEPT ![c] = EndOffset(c)]
  /\ job' = [job EXCEPT ![c] = "done"]
  /\ UNCHANGED <<handVars, queue, nextFrag, fin, exc, limitVars, phaserVars, ctxVars>>

SetEnd(c) ==
  /\ job[c] = "end"
  /\ endOff' = [endOff EXCEPT ![c] = EndOffset(c)]
  /\ fin' = IF nextFrag[c] # << >> THEN [fin EXCEPT ![c] = "split"] ELSE fin
  /\ job' = [job EXCEPT ![c] = IF nextFrag[c] # << >> THEN "ending" ELSE "done"]
  /\ UNCHANGED <<handVars, queue, nextFrag, exc, limitVars, phaserVars, ctxVars>>

Ended(c) ==
  /\ job[c] = "ending" /\ fin[c] = "done"
  /\ job' = [job EXCEPT ![c] = IF exc[c] THEN "died" ELSE "done"]
  /\ UNCHANGED <<handVars, queue, endOff, nextFrag, fin, exc, limitVars, phaserVars, ctxVars>>

-----------------------------------------------------------------------------
(* indexSplitDoc of chunk c, in whichever thread completed the pair. *)

\* (Mistake: only the fragment is passed on, without the chunk in front of it.)
PassOnFragment(c) ==
  LET p == Prev(c)
  IN  /\ fin[c] = "split" /\ endOff[c] = -2
      /\ Hand(p, nextFrag[c][1])
      /\ fin' = [fin EXCEPT ![c] = IF Triggers(p) THEN "passing" ELSE "release",
                            ![p] = IF Triggers(p) THEN "split" ELSE @]
      /\ UNCHANGED <<handVars, job, queue, endOff, exc, limitVars, phaserVars, ctxVars>>

\* The chunk is inside one document: pass chunk and fragment on to the previous chunk.
PassOn(c) ==
  LET p == Prev(c)
  IN  /\ fin[c] = "split" /\ endOff[c] = -2
      /\ Hand(p, Positions(c) \o nextFrag[c][1])
      /\ fin' = [fin EXCEPT ![c] = IF Triggers(p) THEN "passing" ELSE "release",
                            ![p] = IF Triggers(p) THEN "split" ELSE @]
      /\ UNCHANGED <<handVars, job, queue, endOff, exc, limitVars, phaserVars, ctxVars>>

Passed(c) ==
  /\ fin[c] = "passing" /\ fin[Prev(c)] = "done"
  /\ exc' = [exc EXCEPT ![c] = exc[Prev(c)]]
  /\ fin' = [fin EXCEPT ![c] = "release"]
  /\ UNCHANGED <<handVars, job, queue, endOff, nextFrag, limitVars, phaserVars, ctxVars>>

\* How the split document may end: what it adds to addCount and to the index,
\* whether it records an error and whether it throws.
Outcome(add, doc, failed, throws) ==
  [add |-> add, doc |-> doc, failed |-> failed, throws |-> throws]

\* Parse and index the glued document.  A fragment that starts inside a document
\* may or may not look like a document of its own.
SplitOutcomes(c) ==
  LET s == c[1]
      d == FirstLine(s, SplitFragment(c))
      noNewline == LineEndsIn(s, d) = {}
      fails == Outcome(0, {}, TRUE, FALSE)
  IN  IF SplitFragment(c) = << >> THEN {Outcome(0, {}, FALSE, FALSE)}
      ELSE (IF StartsInsideDoc(s, d) THEN {fails} ELSE {})
           \cup
           {CASE Fault(s, d) = "parse" \/ (Format(s) = "csv" /\ noNewline) -> fails
              [] Fault(s, d) # "parse" /\ Format(s) = "csvchars" /\ noNewline ->
                   IF HasFacets(s) THEN Outcome(0, {}, FALSE, TRUE) ELSE Outcome(1, {}, TRUE, FALSE)
              [] Fault(s, d) # "parse" /\ (Format(s) = "json" \/ ~noNewline) ->
                   CASE Fault(s, d) = "facet" ->
                          Outcome(IF Format(s) = "json" THEN 1 ELSE 0, {}, FALSE, TRUE)
                     [] Fault(s, d) = "write" -> Outcome(1, {}, TRUE, FALSE)
                     [] Fault(s, d) = "none"  -> Outcome(1, {<<d, c, "split">>}, FALSE, FALSE)}

IndexSplitDoc(c) ==
  LET s == c[1]
  IN  /\ fin[c] = "split" /\ endOff[c] # -2
      /\ \E r \in SplitOutcomes(c) :
           /\ addCount' = [addCount EXCEPT ![s] = @ + r.add]
           /\ indexed' = [indexed EXCEPT ![s] = @ \cup r.doc]
           /\ error' = [error EXCEPT ![s] = @ \/ r.failed]
           /\ exc' = [exc EXCEPT ![c] = r.throws]
      /\ fin' = [fin EXCEPT ![c] = "release"]
      /\ UNCHANGED <<handVars, job, queue, endOff, nextFrag, limitVars, phaserVars>>

\* (Mistakes: a permit is not released; the shard does not count down.)
ReleaseLocalOnly(c) ==
  /\ fin[c] = "release"
  /\ running' = IF CountsChunkFinish(c[1]) THEN running - 1 ELSE running
  /\ local' = IF UsesLocalSemaphore(c[1]) THEN [local EXCEPT ![c[1]] = @ + 1] ELSE local
  /\ fin' = [fin EXCEPT ![c] = "arrive"]
  /\ UNCHANGED <<handVars, job, queue, endOff, nextFrag, exc, permits, phaserVars, ctxVars>>

ReleaseUncounted(c) ==
  /\ fin[c] = "release"
  /\ local' = IF UsesLocalSemaphore(c[1]) THEN [local EXCEPT ![c[1]] = @ + 1] ELSE local
  /\ permits' = permits + 1
  /\ fin' = [fin EXCEPT ![c] = "arrive"]
  /\ UNCHANGED <<handVars, job, queue, endOff, nextFrag, exc, running, phaserVars, ctxVars>>

\* The finally block: shard count (csv only), permits, then the Phaser.
Release(c) ==
  /\ fin[c] = "release"
  /\ running' = IF CountsChunkFinish(c[1]) THEN running - 1 ELSE running
  /\ local' = IF UsesLocalSemaphore(c[1]) THEN [local EXCEPT ![c[1]] = @ + 1] ELSE local
  /\ permits' = permits + 1
  /\ fin' = [fin EXCEPT ![c] = "arrive"]
  /\ UNCHANGED <<handVars, job, queue, endOff, nextFrag, exc, phaserVars, ctxVars>>

\* inFlightChunks.arrive(), arriveAndDeregister() in csvchars: the last party
\* to arrive advances the phase.
Arrive(c) ==
  LET s == c[1]
      registered == IF Format(s) = "csvchars" THEN parties[s] - 1 ELSE parties[s]
  IN  /\ fin[c] = "arrive"
      /\ fin' = [fin EXCEPT ![c] = "done"]
      /\ parties' = [parties EXCEPT ![s] = registered]
      /\ IF unarrived[s] = 1
         THEN /\ phase' = [phase EXCEPT ![s] = @ + 1]
              /\ unarrived' = [unarrived EXCEPT ![s] = registered]
         ELSE /\ unarrived' = [unarrived EXCEPT ![s] = @ - 1]
              /\ UNCHANGED phase
      /\ UNCHANGED <<handVars, job, queue, endOff, nextFrag, exc, limitVars, ctxVars>>

-----------------------------------------------------------------------------
Handler(s) ==
  ReadChunk(s) \/ StopOnError(s) \/ AcquireLocal(s) \/ Submit(s)
  \/ CloseLast(s) \/ Closed(s) \/ Answer(s)

RunJob(c) ==
  Start(c) \/ ScanPrefix(c) \/ ScanNoPrefix(c) \/ Delivered(c) \/ IndexBlock(c)
  \/ SetEnd(c) \/ Ended(c)

SplitDoc(c) == PassOn(c) \/ Passed(c) \/ IndexSplitDoc(c) \/ Release(c) \/ Arrive(c)

\* Every request is answered and every job is over: the server is idle.
Idle ==
  /\ \A s \in Streams : hpc[s] = "answered"
  /\ \A c \in Chunk : job[c] \in {"none", "done", "died"}
  /\ UNCHANGED vars

Next ==
  \/ \E s \in Streams : Handler(s)
  \/ \E c \in Chunk : RunJob(c) \/ SplitDoc(c)
  \/ Idle

Spec == Init /\ [][Next]_vars

\* Some thread that can take a step eventually takes one.  The operating system
\* gives every thread that much and more; no step of the model can be undone,
\* so this is enough to reach the end of every request.
Fairness == WF_vars(Next)

FairSpec == Spec /\ Fairness
-----------------------------------------------------------------------------
(* Properties. *)

TypeOK ==
  /\ request \in [Streams -> Requests]
  /\ hpc \in [Streams -> {"read", "acquire", "submit", "close", "closing", "await", "answered"}]
  /\ nchunks \in [Streams -> 0 .. MaxChunks]
  /\ job \in [Chunk -> {"none", "queued", "scan", "delivering", "index", "end", "ending",
                        "done", "died"}]
  /\ queue \in Seq(Chunk)
  /\ endOff \in [Chunk -> -2 .. ChunkLen]
  /\ nextFrag \in [Chunk -> Seq(Seq(1 .. MaxLen))]
  /\ fin \in [Chunk -> {"open", "split", "passing", "release", "arrive", "done"}]
  /\ exc \in [Chunk -> BOOLEAN]
  /\ permits \in 0 .. Permits
  /\ local \in [Streams -> 0 .. LocalPermits]
  /\ running \in Nat
  /\ parties \in [Streams -> Nat] /\ unarrived \in [Streams -> Nat] /\ phase \in [Streams -> Nat]
  /\ error \in [Streams -> BOOLEAN]
  /\ addCount \in [Streams -> Nat]
  /\ answer \in [Streams -> {"none", "ok", "error", "exception"}]

\* The documents a client sent: its lines, the last one with or without newline.
Documents(s) ==
  LET ends == {0, Len(Text(s))} \cup {i \in DOMAIN Text(s) : Text(s)[i] = "n"}
  IN  {[k \in 1 .. (e[2] - e[1]) |-> e[1] + k] :
         e \in {b \in ends \X ends : b[1] < b[2] /\ ~\E m \in ends : b[1] < m /\ m < b[2]}}

\* The chunks of request s whose Phaser party is still to arrive.
Outstanding(s) == {k \in 1 .. nchunks[s] : fin[<<s, k>>] # "done"}

(* The response waits for every chunk: awaitAdvance cannot return while a chunk
   of the request still has work to do, because a chunk arrives only after the
   next one registered (or after the handler closed the last one), so that the
   Phaser never runs out of parties early. *)
AnswerAfterAllChunks ==
  \A s \in Streams : answer[s] \in {"ok", "error"} => Outstanding(s) = {}

(* A request that reports success put every document of the stream into the
   index exactly once, wherever the chunk boundaries fell and whichever thread
   glued a split document, and reports their number. *)
OkMeansIndexedOnce ==
  \A s \in Streams : answer[s] = "ok" =>
    /\ {e[1] : e \in indexed[s]} = Documents(s)
    /\ Cardinality(indexed[s]) = Cardinality(Documents(s))
    /\ addCount[s] = Cardinality(Documents(s))

(* A stream whose documents are all good is never refused: cutting it into
   chunks does not make an error. *)
NoSpuriousError ==
  \A s \in Streams : error[s] =>
    \/ \E d \in Documents(s) : Fault(s, d) # "none"
    \/ Format(s) # "json" /\ Text(s) # << >> /\ Text(s)[Len(Text(s))] # "n"

(* submitIndexingTask never meets a full queue (the pool would reject the job):
   a queued job holds one of the Permits permits, and the queue has as many places. *)
QueueNeverOverflows == Len(queue) <= Permits

(* Once the server is idle every permit is back, in the global semaphore and in
   the semaphores of the requests, after failed documents too. *)
PermitsReturned ==
  (\A s \in Streams : hpc[s] = "answered") =>
     permits = Permits /\ \A s \in Streams : local[s] = LocalPermits

(* The shard's count of running chunks is back at zero when the requests are
   answered, if all of them are handled by a handler that counts down; the shard can only
   finish once it is.  The JSON handler counts up and never down, and is left out. *)
ShardDrained ==
  (\A s \in Streams : hpc[s] = "answered" /\ CountsChunkFinish(s)) => running = 0

(* setNextStartFragment is called at most once on a chunk: the handler that
   closes the last chunk never competes with a successor of it. *)
FragmentGivenOnce ==
  [][\A c \in Chunk : nextFrag[c] # << >> => nextFrag'[c] = nextFrag[c]]_nextFrag

(* Every request is answered, where the permits suffice: the chunks of no document, and
   of no set of requests, may need more permits at a time than there are. *)
EveryRequestAnswered == \A s \in Streams : <>(hpc[s] = "answered")
=============================================================================
