# TLA+ models of luceneserver

luceneserver is a Java server around Apache Lucene: indices with shards, bulk indexing over
HTTP and over a binary protocol, near-real-time (NRT) replication, snapshots and a first
version of distributed search. This directory holds TLA+ modules for the parts of it that
run concurrently or have to survive failures, TLC configurations that check them on small
instances, and proofs that TLAPS checks for every instance. Paths below are relative to
`src/src/java/org/apache/lucene/server/`; `handlers/` is a directory there.

Every definition is a translation of the code. `PROJECT.json` says, for each one, which lines
it stands for (`map`), which modules cover which part (`components`), what can go wrong where
(`hazards`), and which bug each property would notice (`mutants`).

* [1 Inventory](#1-inventory-of-the-system)
* [2 Modules](#2-modules-and-how-they-correspond-to-the-code)
* [3 Runs](#3-runs-what-they-check-and-show)
* [4 Bounds and fairness](#4-bounds-and-fairness)
* [5 Proofs](#5-proofs)
* [6 Where the code disagrees with what it promises](#6-where-the-code-disagrees-with-what-it-promises)
* [7 Not modelled](#7-not-modelled-and-why)
* [8 Plan](#8-plan)

To check: `tlc -config MCBulkStreams.cfg MCBulkIndex`, and so on; `tlapm BulkIndexProofs.tla`.

## 1 Inventory of the system

### Bulk indexing of chunked streams (modelled)
*Code:* `handlers/BulkCSVAddDocumentHandler.java` (below "csv"),
`handlers/BulkAddDocumentHandler.java` ("json"),
`handlers/BulkCSVAddDocumentHandlerNonBinary.java` ("csvchars"), the pool in
`GlobalState.java` 113-136 and 252-260, `ShardState.IndexingContext` 808-835.

*State:* per request the last chunk (`prev`), a `Phaser`, an error reference and a document
count; per chunk the offset of its end fragment and the start fragment its successor gave it;
globally a thread pool, its bounded queue and a semaphore with as many permits.

*Operations:* the handler thread cuts the stream into chunks, asks for the writable shard,
submits a `ParseAndIndexOneChunk`, and in the end closes the last chunk with an empty fragment
and waits. A job looks for its first newline, hands the prefix to the previous chunk
(`setNextStartFragment`), indexes the whole documents and stores where the trailing fragment
starts (`setEndFragment`). Whoever completes a pair of fragments runs `indexSplitDoc`, and
so does that thread's whole chain of predecessors if a chunk lies inside one document.

*Hard:* two threads race for the document between two chunks; a request ends early on an
error that another chunk recorded; permits and Phaser parties are given back only by
`indexSplitDoc`, in a finally block, whatever failed.

*Correct when:* success means that each document is in the index once; the response waits for
every chunk; no permit, party or count gets lost; the queue is never full; every request is
answered.

### Writable shard, chunk counting and rollover (modelled)
*Code:* `IndexState.getWritableShard` 1042-1064, `ShardState.startIndexingChunk`,
`finishIndexingChunk`, `finishWriting`, `finishIndexing` 991-1073.

*State:* `writableShard`, the shard map, and per shard a count of running chunks, a flag
`finishWriting` (0, 1, 2) and the writer. *Operations:* a request asks for a shard for each
chunk; a full shard is flagged, a new one is added and started; the last chunk of a flagged
shard, or the rollover itself, submits the force merge that closes its writer.

*Hard:* count and flag are two atomics read and written in opposite orders by two threads; the
shard a chunk is counted in and the one it is given are read under the lock and outside it; the
force merge is submitted to the pool from inside the pool. *Correct when:* the full shard is
finished, neither forgotten nor too early, and the count is that of the chunks.

### Generation files (modelled)
*Code:* `GenFileUtil.java`, with its two users in `IndexState`: `SaveLoadState` with `canDelete`,
and the references of snapshots 515-561. *State:* write-once files `state.N` and
`stateRefCounts.N`, and `nextWriteGen` of each.
*Operations:* `save` (create, write, sync, delete the previous one), `load` (list, open newer
and newer files, fall back, delete stale ones), references taken and dropped by snapshots.
*Hard:* every step may throw, the process or the machine may stop between any two of them, and the
directory is never synced. *Correct when:* what `save` reported is there after a restart as far as
the files allow, a snapshot's state file stays, old ones do not pile up.

### Copy jobs of a replica (modelled)
*Code:* `Jobs.java`, the steps of `SimpleCopyJob.java`. *State:* a priority queue, `finish`,
the runner thread, and the threads that sleep on the same monitor. *Operations:* `launch`,
`cancel`, `close`, and the runner's loop and drain. *Hard:* `Jobs` is the `Thread` and the
monitor at once, so `join()` and the runner share a wait set; a job is put back after
`close()`. *Correct when:* an accepted job's callback runs exactly once, the runner is always
woken, `close()` returns.

### Index registry and index lifecycle (modelled in part)
*Code:* `GlobalState.createIndex`, `getIndex`, `deleteIndex`, `loadIndexNames`,
`saveIndexNames`; `IndexState.close`, `ShardState.start`, `commit`, `rollback`, `close`; the
handlers of the same names.

*State:* the names in memory and in the newest file `indices.N`, the map of open
`IndexState`s, and per index the shard with its flag `doCreate`, its writer and the last
commit in the directory. *Operations:* create (save the names, make an `IndexState`, and only
later add its shard), look up (load it), start, add a document, commit, roll back, stop, delete (close, delete
files, delete the name), shut down, restart.

*Hard:* each of these is several steps, a request for another index or a lookup comes in between,
every step may throw, and the server may crash. *Correct when:* a created index is
there after a restart, a deleted one comes back only as far as the code lets it, no committed
document is dropped, no acknowledged document is lost by an orderly stop.

### Snapshots (modelled in part)
*Code:* `handlers/CreateSnapshotHandler.java` 86-136, `ReleaseSnapshotHandler.java` 60-76,
`IndexState.commit` 780-800, `incRefLastCommitGen`, `decRef`, `ShardState.commit`.

*State:* the commits of the taxonomy and of the index, the files `state.N`, references to each.
*Operations:* commit (taxonomy, index, settings, under the monitor of `IndexState`), create
(index, taxonomy, settings, only the last under the monitor), release (in the same order,
deleting unused files after each). *Hard:* two snapshots, a commit and a release overlap.
*Correct when:* the files of a snapshot stay, the three parts fit each other, a release frees.

### NRT replication: merge warming (modelled in part)
*Code:* `NRTPrimaryNode.java`, `handlers/AddReplicaHandler.java`,
`handlers/CopyFilesHandler.java`.

*State:* `replicaAddresses`, `warmingSegments` with the connections of each merge, `finished`.
*Operations:* a merge thread asks each known replica to copy the merged files and polls for
the answers; a replica that registers joins the merges that are warming; replicas crash and
stop; the primary closes. *Hard:* joining races with the end of the wait. *Correct when:* a merge ends only after everybody
who was asked has answered, and it does end. NRT points are pushed and pulled by classes of
Lucene (`PrimaryNode`, `ReplicaNode`) and are outside.

### The other components (not modelled)

| component | state and operations | hard part | what has to hold |
|---|---|---|---|
| Distributed search queue (`SearchQueue.java`, `handlers/Search2Handler.java`) | queries with a state 0/1/2 on every node | two nodes claim the same query; messages cross | a query is run by one node, and by some node |
| Searcher lookup and version wait (`handlers/SearchHandler.java` 1665-1824) | refresh listeners, `SearcherLifetimeManager` | one wait for one signal | the searcher has the version that was asked for |
| Query, facet, sort, highlight construction (`handlers/SearchHandler.java`) | none: JSON to Lucene queries | - | each key is read or refused |
| HTTP and binary requests (`Server.java`, `handlers/Handler.java`) | a connection, a request, its leftover parameters | an error after part of the work is done | one response per request |
| Request parameters (`params/`) | the JSON that was not read yet | reading removes | nothing is read twice, nothing is ignored |
| Number and CSV parsers (`MathUtil.java`, `handlers/CSVParser.java`, `CSVParserChars.java`) | none | digit overflow, quoted fields at chunk ends | parse equals the value or fails |
| Single and block document handlers (`handlers/AddDocumentHandler.java`, `BulkUpdateDocumentHandler.java`...) | a job per document in the same pool | the handler polls a counter | as for bulk |
| Field registration and settings (`handlers/RegisterFieldsHandler.java`) | the fields of an index | checks before changes; virtual fields of one request | all or nothing |
| Suggesters (`handlers/BuildSuggestHandler.java`...) | a registry saved with the index | build and save | a suggester is saved before it is served |
| Streamed single requests (`Pipe.java`) | a bounded buffer | wait and notify | no byte lost, both ends finish |
| Plugins, docs, stats, analysis | none | - | - |

*How they interact.* All indexing handlers share `GlobalState`'s pool and semaphore. A bulk
chunk calls `IndexState.getWritableShard` and the `ShardState` it gets; a full shard calls back
into the pool. Commit, snapshots and every change of settings go through `IndexState.commit`
and so through `GenFileUtil.save`; the registry writes its own generation files `indices.N`. A
merge of the primary waits for copy jobs that the message handlers of its replicas launch.

## 2 Modules and how they correspond to the code

| module | models | uses |
|---|---|---|
| `BulkIndex` | the three streaming handlers, the chunk job, pool, permits, Phaser | community modules |
| `MCBulkIndex` | texts and requests for TLC | `BulkIndex` |
| `BulkIndexProofs` | four theorems about `BulkIndex` | `BulkIndex`, TLAPS |
| `BulkResultProofs` | six more, on what a request leaves in the index | `BulkIndexProofs` |
| `ShardRollover`, `MCShardRollover` | `getWritableShard` and the finishing of a shard | - |
| `ShardRolloverProofs` | four theorems about `ShardRollover` | `ShardRollover`, TLAPS |
| `GenFile`, `MCGenFile` | `GenFileUtil` | community modules |
| `GenFileProofs` | four theorems about `GenFile` | `GenFile`, TLAPS |
| `JobService` | what a replica expects of its copy thread (abstract) | - |
| `CopyJobs`, `MCCopyJobs` | `Jobs`, the steps of `SimpleCopyJob` | `JobService` by `INSTANCE ... WITH` |
| `CopyJobsProofs` | five theorems about `CopyJobs` | `CopyJobs`, TLAPS |
| `IndexLifecycle`, `MCIndexLifecycle` | the registry, and each index from creation to deletion | - |
| `IndexLifecycleProofs` | five theorems about `IndexLifecycle` | `IndexLifecycle`, TLAPS |
| `Snapshots`, `MCSnapshots` | commit, createSnapshot, releaseSnapshot | community modules |
| `SnapshotsProofs` | five theorems about `Snapshots` | `Snapshots`, TLAPS |
| `MergeWarming`, `MCMergeWarming` | merge warming and the registration of replicas | community modules |
| `MergeWarmingProofs` | two theorems about `MergeWarming` | `MergeWarming`, TLAPS |

**BulkIndex.** A stream is a sequence of characters, each of which stands for what it does to
its document: nothing, end it, make it unparsable, make the writer refuse it, make
`FacetsConfig.build` throw an unchecked exception. A fragment is the sequence of stream
*positions* it contains, so a document that was glued from the wrong pieces differs from every
document of the stream. `hpc[s]` is the place of the handler thread, `job[c]` that of the pool
thread of chunk `c`, and `fin[c]` how far `indexSplitDoc` of chunk `c` is (`open`, `split`,
`passing`, `release`, `arrive`, `done`), in whichever thread runs it: the caller waits in
`closing`, `delivering`, `ending` or `passing` until `fin` is `done`, and takes over the
exception in `exc`. `endOff` and `nextFrag` are the fields of the same names, with the code's
markers -1 (unknown) and -2 (the chunk lies inside one document). `Block(c)` is the result of
`writer.addDocuments` with the iterator that parses: what is indexed and counted before it
stops, and where the end fragment starts afterwards (0 when the assignment is not reached).
`setNextStartFragment` and `setEndFragment` are `synchronized` on the chunk and each is one
step; the work they start is not part of the step. The three handlers differ in the operators that test `Format`: the
per-request semaphore (json, csvchars), which ends of the chunk count they call, how they
treat a last document without newline, `arrive` against `arriveAndDeregister`.

**ShardRollover.** The chunk is reduced to one document written to a shard, and the shard that
`BulkIndex` leaves open is the subject: the `synchronized` block of `getWritableShard`
with the steps other threads can see in it (`RollOver`, `CheckDrained`, `RolloverFinishes`,
`StartNext`; `lock` is its owner), `Return` for the read of `writableShard` after the block,
`Uncount` and `CheckFlag` for the two halves of `finishIndexingChunk`, and the force merge as a
pool task in four steps. `counted[c]` and `shard[c]` are the shard that counted chunk `c` and the
one it was given; with several handlers they may differ (`Moved`).

**GenFile.** `dir` is the directory as the process sees it, for both kinds of file: generation to
the number of the save that created it. `disk` is what of its entries has reached the disk: since
nobody syncs the directory, `Flush` may bring or take any one entry at any time. `complete` and
`synced` say whose bytes are all written, and whose survive a crash of the machine (`Crash`). `Stop`
is the end of the process, in the middle of a save too. A start reads the references first and the
state with them; each may find nothing because `listAll` throws (`ListFails`), or fail on the way
(`LoadThrows`). `Opened` is the result of `load`'s loop over `listAll()`, which sorts names as
strings. `held[i]` is what save `i` wrote of the references, so that they come back from their own
files only. `promised` and `snaps` are what clients were told and may rely on: they shrink where the
code keeps no promise, and `gaps` records why (`listing`: the directory could not be listed;
`order`: the start did not find the names in the order of the generations; `unsure`: the newest file
was not synced when it started).

**CopyJobs.** `rpc` is the runner; `Notify` wakes one thread of the wait set, runner or closer.
Copying is a number of visits. `Service` maps the state to `JobService`: a job is new, refused,
pending until its callback ran, then completed; the service is open, closing after `finish` is
set, closed when the thread has exited. Nobody interrupts the runner in its `wait()`, so that this
exception is no outcome.

**IndexLifecycle.** `req[n]` is how far the request of the administrator of index `n` is:
`saving` and `adding` are the two halves of a creation (with the registry's lock until the
names are saved and the `IndexState` is in the map), `stopping`, `deleting`, `deleteFiles` and `deleteName` the parts of a
stop and a delete. `saved` is the newest `indices.N`, which is `Torn` from its creation until
`force()` returned. `GetIndex` may happen whenever the lock is free. `Opens` is what a writer
sees: nothing with `OpenMode.CREATE`, the last commit otherwise. Each operation that can throw
has an action for that, with what it leaves behind. `created`, `deleted`, `acked`, `promised` are what clients were
told and exist for the properties; so does `broken`, which marks the indexes whose close threw
(section 6).

**Snapshots.** `commit` is the place of the one thread that can be in `commit()`, which holds
the monitor; `snap[c].pc` that of the request of client `c`, and `gens` the generations it
was given. An index commit is described by its documents, by those whose categories were
in the taxonomy writer when the commit began (`covered`), and by the newest field it uses.
`Unused` and `Keep` are Lucene's `PersistentSnapshotDeletionPolicy` over
`KeepOnlyLastCommitDeletionPolicy`: external, modelled from how the code uses it.

**MergeWarming.** `pc[m]` is the thread of merge `m`: it reads the replicas *before* it enters
`warmingSegments`, asks one after the other, and loops between `check`
(`MergePreCopy.finished`) and `poll`. `joiner[i]` is the call of `addReplica` that registered
entry `i` of `replicaAddresses`, with its place in the loop over `warmingSegments`, whose
`monitor` it holds. `conn` is each connection as the primary would find it: `copying`,
`answered`, `gone` (the peer crashed) or `refused` (its handler threw, or the request did not get
through). A look at a broken connection may throw, which ends it, or find `available()` at 0, time
after time. A replica is `starting` from its registration, in the constructor of `NRTReplicaNode`,
until `ShardState` has assigned `nrtReplicaNode`; a request in between is refused. The copy itself
is one step; `CopyJobs` has its inside.

Definitions with a comment "(Mistake: ...)" are variants with a plausible bug. No action uses
them: each replaces the definition it is a variant of in a mutated run, to show that some
property notices.

## 3 Runs: what they check and show

| run | module, cfg | properties | shows |
|---|---|---|---|
| bulk_streams | `MCBulkIndex`, `MCBulkStreams.cfg` | `TypeOK`, `AnswerAfterAllChunks`, `OkMeansIndexedOnce`, `NoSpuriousError`, `QueueNeverOverflows`, `PermitsReturned`, `ShardDrained`, `FragmentGivenOnce`, no deadlock | two requests of any of the three handlers, empty, good, faulty in each way, on two pool threads and three permits; about 390,000 states |
| bulk_one | `MCBulkIndex`, `MCBulkOne.cfg` | `OkMeansIndexedOnce`, `EveryRequestAnswered` | one request with documents that contain whole chunks, so that a fragment is passed on from chunk to chunk; it is answered in the end |
| bulk_facet | `MCBulkIndex`, `MCBulkFacet.cfg` | `OkMeansIndexedOnce` **violated** | finding 1 |
| rollover | `MCShardRollover`, `MCRollover.cfg` | `TypeOK`, `FinishNotMissed`, `CountsBalance`, `PermitsAccounted`, `FullShardCloses` | two handlers with two chunks each roll over a shard while chunks run, with a `start()` that may throw |
| rollover_closed | `MCShardRollover`, `MCRolloverClosed.cfg` | `NoChunkMeetsClosedWriter` **violated** | finding 2 |
| gen_file | `MCGenFile`, `MCGenFile.cfg` | `TypeOK`, `NothingLost`, `SnapshotStateKept`, `NoStaleFiles` | three saves of the two kinds of file, with every failure, any number of stops and crashes, snapshots taken and released; about 187,000 states |
| gen_file_ten | `MCGenFile`, `MCGenFileTen.cfg` | `LoadsNewest` **violated** | finding 3 |
| copy_jobs | `MCCopyJobs`, `MCCopyJobs.cfg` | `TypeOK`, `EachJobInOnePlace`, `NoJobLost`, `NoLostWakeup`, `ImplementsService`, `AcceptedJobsComplete`, `CloseReturns` | three jobs, one with priority, two closers, cancellations and failing visits; refinement of `JobService` |
| lifecycle | `MCIndexLifecycle`, `MCLifecycle.cfg` | `TypeOK`, `CreatedSurvives`, `DeletedReturnsOnlyUnsaved`, `CommitsKept`, `AckedKept` | two indexes whose requests interleave and fail at each step, lookups by others, one crash, any number of shutdowns; about 440,000 states |
| snapshots | `MCSnapshots`, `MCSnapshots.cfg` | `TypeOK`, `SnapshotFilesKept`, `TaxonomyCoversIndex`, `SettingsCoverIndex`, `ReleaseFrees` | two clients, two snapshots, two commits, two documents, a field that is registered on the way, one crash; 1.65 million states |
| warming | `MCMergeWarming`, `MCWarming.cfg` | `TypeOK`, `EndsAfterAnswers`, `CloseEndsWarming`, `WarmingEndsWhenHealthy` | a merge, two registrations by one or two replicas, of which one crashes, stops or fails to start, with requests that are refused or cut; about 340,000 states |
| warming_crash | `MCMergeWarming`, `MCWarmingCrash.cfg` | `WarmingEnds` **violated** | finding 4 |

What the properties are about:

* `OkMeansIndexedOnce` is the promise to the client: after a response without error the index
  holds exactly the documents of the stream, each once, and `addCount` says so. Every race
  between neighbouring chunks ends in it.
* `NoSpuriousError` is its converse: an error is reported only when some document has a fault
  (or, in the CSV handlers, when the last line has no newline).
* `AnswerAfterAllChunks` is why the Phaser may be used as it is: a chunk arrives only after its
  successor registered, or after the handler closed it.
* `FragmentGivenOnce` is what the `IllegalStateException` in `setNextStartFragment` guards.
* `PermitsReturned`, `ShardDrained`, `QueueNeverOverflows`, `PermitsAccounted`: resources.
  `ShardDrained` speaks of requests whose handler counts down (csv).
* `FinishNotMissed` relates flag, count and the threads between their two reads; its liveness
  form is `FullShardCloses`, which leaves out shards whose count the race below put wrong.
* `CountsBalance`: `return writableShard` is outside the lock (`IndexState.java:1063`), so that with
  two handlers a chunk may be counted in one shard and written to, and taken off, a later one.
  The property says that the counts are off by exactly these chunks, and by nothing else.
* `CreatedSurvives` and `DeletedReturnsOnlyUnsaved` relate what clients were told with memory
  and with the file that the next start reads. The second says exactly how long a deleted index
  can come back: until the next creation saves the names. A request between the close and the
  removal of the name leaves an `IndexState` in the map that `getIndex` looks at first
  (`GlobalState.java:291`): the running server can then still be asked for the deleted index, and
  the property says that no writer is opened for it.
* `CommitsKept`: `doCreate` is a field of an `IndexState` that is only right as long as nobody commits
  and starts that same object again; the property holds because stop and rollback remove the
  object from the map. `AckedKept`: `close()` commits and closes the writer in two steps,
  and documents are added in between.
* `TaxonomyCoversIndex` and `SettingsCoverIndex`: a snapshot takes three references without
  the monitor that commit holds, so they may be of three different commits; the order in
  which both take them makes the later parts cover the earlier ones. The taxonomy covers the
  documents whose categories it had when the commit began; of those that are added between the
  two commits (`ShardState.java:304`) nothing is said.
* `ReleaseFrees`: no reference to any part is left, and of the commits of taxonomy and index only
  the last. The release does not delete a file `state.N`; the next save or start does (`NoStaleFiles`).
* `EndsAfterAnswers`: a replica that joins while the merge thread finds no connection left
  must be turned away or be waited for.
* `WarmingEndsWhenHealthy` needs more than replicas that do not fail: no connection may break. A
  replica that has registered and not yet been assigned refuses a request, and the merge may wait
  for ever. `CloseEndsWarming` and `EndsAfterAnswers` hold whatever breaks.
* `NothingLost`: a server that has started has at least what the last `save` that returned wrote, of
  the state and of the references, as long as that can be relied on: not after `listAll` threw, not
  when a crash took the unsynced entry of the directory, and not when the newest file is torn and
  the one before it was deleted by an earlier fallback or is not next in the order of names.
* `SnapshotStateKept`: the deletion policy asks for references that are themselves loaded from files,
  which can be torn or missing on their own. `NoStaleFiles` is its converse.

## 4 Bounds and fairness

*BulkIndex.* Chunks have three characters: a document can then lie inside a chunk, end with
it, span it, or contain a whole chunk, which are all the positions the code distinguishes. Two
streams compete for permits and threads; more streams add no new kind of conflict, since
requests share only the pool and the shard's count. Three permits are the least with which two
requests cannot block each other, as long as no document contains a whole chunk (see section 6). In `bulk_streams` requests come from a set
that contains each handler and each fault at least once; `bulk_one` takes up to four chunks.
`bulk_streams` uses symmetry of the streams; it checks no liveness.

*ShardRollover.* Two handlers are what the race for `return writableShard` needs, one extra shard
what a rollover needs; two chunks each let one be counted before and one after it. `MaxDocs = 0` makes a shard full with its first document. `MCRollover.cfg` has more permits than chunks and tasks, since
with few permits the pool deadlocks (section 6). *GenFile.* Three saves, of either kind: a
snapshot needs one of each, and a third can replace what the snapshot refers to, or release it.
Stops, starts and crashes are not bounded. Twelve in the other run, where generation 10 comes in; the proofs
(section 5) have no bound.
*CopyJobs.* Three jobs give all cases of the priority order; one more visit per job adds
only repetition.

*IndexLifecycle.* Two indexes are needed for the lock of the registry and for names that one
creation saves on behalf of the other; a third is like the second. One document tells an
empty index from one that has something, and a second administrator of the same index is left out
(section 7). *Snapshots.* Two commits and the initial one give each of the three parts of a
snapshot a generation of its own; two documents let one be committed and the other be half
added; one field suffices to tell settings that know it from those that do not. Both runs
use symmetry (indexes, clients) and check no liveness. *MergeWarming.* One merge and
two registrations: the merges share `warmingSegments` and its monitor, and each has its
connections for itself. Two registrations may be of two replicas or of one that started twice; one
crash, stop or failed start, and any number of refused requests.

*Fairness.* `BulkIndex` and `ShardRollover` use weak fairness of `Next`: some thread that can
run does run. That is less than an operating system gives, and it suffices because no step of
these models can be repeated or undone, so that each behaviour is finite. `CopyJobs` needs
fairness of the runner (a thread that is never blocked except by the wait the model has) and of
each closer's return from `join()`; nothing forces anyone to launch, cancel or close. A read
from the primary is assumed to return or throw; the code has no timeout there. In `MergeWarming` each merge thread
runs on, some joiner does, and copies end (`CopyJobs` shows that an accepted job completes). The
monitor of a Java object is not fair, but it is taken a bounded number of times, so that weak
fairness is enough to get it in the end. Nothing forces a replica to start, crash or stop, or
the primary to close. `GenFile`, `IndexLifecycle` and `Snapshots` have no liveness. Deadlock is checked in `bulk_streams` and `bulk_one`, where the idle server is a
stuttering step of its own; the other models stop when their bounded callers are done, or, in
`bulk_facet` and `rollover_closed`, only one property is of interest.

## 5 Proofs

**`BulkIndexProofs`** - for any finite set of streams, any texts up to `MaxLen`, any chunk
length, any number of threads and permits (`BulkAssumption`). All four theorems have the form
`Spec => []P`, except `FragmentOnce`, an action property.

* `BulkTypes` (`TypeOK`), `FragmentOnce` (`FragmentGivenOnce`), `AnswersWait`
  (`AnswerAfterAllChunks`), `QueueFits` (`QueueNeverOverflows`).

The argument: (1) `ControlInv` says where handlers, jobs and chunks can be *together*. The
types alone are not inductive: that the chunk a handler submits exists, that a chunk whose end
offset is -2 has a predecessor, or that `indexSplitDoc` finds both fragments are facts about
several variables. It is the invariant everything else stands on, with lemmas about the text
(positions, line ends, blocks) below it. (2) `GivenInv`: a chunk that has yet to hand a fragment to its
predecessor - because it was not scanned, or because it passes one on - finds the predecessor's
`nextStartFragment` still null. It depends on who may be in which place at once and gives
`FragmentOnce`, and also that `fin` only moves forward. (3) `PhaserInv`: in phase 0 the number
of unarrived parties is the number of chunks that are not done, and parties never fall below
it; so the phase can end only with the last chunk. This uses that a chunk arrives only when it has a next
fragment, that is after its successor registered. (4) `PermitInv`, `LocalInv`, `RunInv`: free
permits plus the chunks that hold one are constant, for the pool and for each request; the
shard's count is the cardinality of the chunks counted. `QueueFits` follows from an injection
of the queue into the holders.

**`BulkResultProofs`** - on top of it, what a request leaves behind, under the same
assumptions:

* `SuccessIsComplete`: `OkMeansIndexedOnce` whenever no split document threw;
* `GoodStreamsAreTaken`: `NoSpuriousError`, without a condition;
* `PermitsComeBack` (`PermitsReturned`) and `CountComesBack` (`ShardDrained`), whenever no
  request ended in an exception;
* `ExceptionsNeedFacets`: what those conditions exclude can only come from a request for an
  index with facets. `WithoutFacets` draws the conclusion: where no request is, the three
  invariants hold as the runs check them.

The conditions are not weaker than they could be by accident. With facets a split document that throws loses a
document behind a success (finding 1), a chunk that dies keeps its permit, and a handler that
throws does not wait for its chunks. With them excluded, everything else is
still there: unparsable and refused documents, any cutting of the text, any order of the threads.

Documents glued by several chunks look like a case for induction over the text, which the prover does not have.
None is needed, because a fragment is a run of consecutive positions (`Run`), known from its two
ends: chunk `c` ends at `Upto(c)`, and what its successor hands back is the run from there to the
next newline, `Behind(c)`. When a chunk without newline passes on itself and what it got,
two runs that meet become one (`RunJoin`, `PassedOnIs`), and the same sentence holds of its predecessor: that
is `TextInv`. The documents of a stream are the runs between newlines (`DocumentsAre`), and each
starts in exactly one chunk, its `Home` (`HomeIs`). The chunk indexes those that end in it as lines
(`BlockIs`), and the last as its end fragment (`GluedIsDocument`). `WorkInv`
excludes the other ways to the end of a job: only exceptions end one early, and a faulty line is
reported. With that, `IndexInv` is an equation: the index of a sound request consists of one
entry for each document whose chunk is past it (`InIndex`), and `addCount` is their number. An answer
comes after all chunks (`PhaserInv`), so then all documents are past (`AllPast`). That each is there
*once* is the one-to-one correspondence between documents and the places they start
at (`AllEntries`).

**`ShardRolloverProofs`** - for any finite set of handlers, and any number of chunks, shards,
threads and permits: `RolloverTypes` (`TypeOK`), `PermitsAddUp` (`PermitsAccounted`), `FullShardsNoticed`
(`FinishNotMissed`), and `CountsAddUp` (`CountsBalance`). `HandlerInv`
gives the synchronized block one owner; `ChunkInv` and `QueueInv` say that a chunk or
force merge is queued once, so that a permit is counted once; `TaskInv`, that a chunk and a
rollover each submit one force merge at most, and `ClosedInv`, that nothing else closes a shard.
`FinishNotMissed` is inductive on top of these: the rollover sets the flag before it reads the count,
a chunk counts down before it reads the flag, so one of them sees both. For the counts, `LedgerInv`
keeps books: a count is the number of chunks counted in the shard less the number taken off it; `CountInv`
says that the shard a chunk is given is the one that counted it or a later one. From both follows
the balance (`LedgerBalances`), by cutting the two sets into the parts they share and those they do not.
`NoChunkMeetsClosedWriter` is false already with one handler (finding 2).

**`GenFileProofs`** - for any number of saves, failures, stops, crashes and snapshots, and any length of
the names: `GenFileTypes` (`TypeOK`), `SnapshotsKeepState` (`SnapshotStateKept`), `NothingIsLost`
(`NothingLost`), `OldFilesGo` (`NoStaleFiles`). `FileInv` bounds the generations by the saves and says
which files a running server has; `OrderInv` that a higher generation is a later save, in the
directory and on the disk, wherever the directory could be listed; `PromiseInv` that a file of the promised save
or of a later one is there; `RefInv` and `SnapInv` that each such file of references has the snapshots
that can be relied on. What is promised ends at the gaps named in section 2, in the statement itself
and not by a hypothesis of the theorem; each of them is a behaviour of the code (section 6).

**`CopyJobsProofs`** - for any set of jobs and closers: `TypeCorrect`, `OnePlace`
(`EachJobInOnePlace`), `WakeupsArrive` (`NoLostWakeup`), `CloseLosesNothing` (`NoJobLost`),
`Refinement` (`ImplementsService`). Here `TypeOK /\ RunnerAndCallers` is the inductive
invariant (that the runner has a job exactly while it visits it, puts it back or runs its callback is part
of the second half, and of what `TypeCorrect` says),
`EachJobInOnePlace` is inductive over it, and the refinement maps each step to one of the
service or to a stutter.

**`IndexLifecycleProofs`** - for any set of indexes and any number of failures and crashes:
`LifecycleTypes` (`TypeOK`), `CreatedIsKept` (`CreatedSurvives`), `DeletedStaysAway`
(`DeletedReturnsOnlyUnsaved`), `CommitsAreKept` (`CommitsKept`), `DocumentsAreKept`
(`AckedKept`). `CommitsKept` and `AckedKept` speak of the directory, which a writer overwrites when
it is opened with `OpenMode.CREATE` and when it commits; so the invariant `WriterInv` says what each
writer, open or yet to be opened, would overwrite: one that is opened next in CREATE mode meets
an index nothing was promised of, and an open one holds everything that was. That a deleted name
can be created again, with a directory that is empty, needs `RequestInv`: what is true while a
request is between two of its steps, and that `doCreate` is only set where the directory is
the index's own. `CreatedSurvives` is inductive together with these.

**`SnapshotsProofs`** - for any finite set of clients (`SnapshotsAssumption`), any number of
documents, fields and commits: `SnapshotTypes` (`TypeOK`), `SnapshotsKeepFiles` (`SnapshotFilesKept`),
`TaxonomiesCover` (`TaxonomyCoversIndex`), `SettingsCover` (`SettingsCoverIndex`), `ReleasesFree`
(`ReleaseFrees`). The heart is `CountInv`: the count of a generation is at least the
number of clients that hold it, each of the three parts taken at its own step; without a crash it
is exactly that number. From it follow that a held file is never unused (`FilesInv`) and that
released ones go (`FreedInv`). `DiskInv` says that there always is a newest generation and
what a commit under way has written so far; `CategoryInv` and `FieldInv` carry the order of the
steps of `commit` (categories before documents, documents before the settings) through to the
moment the snapshot takes its references. Lemmas about `Keep` and `Committed`
(what is deleted, what is left as it was) come first.

**`MergeWarmingProofs`** - for any sets of merges and replicas and any number of registrations and
failures: `WarmingTypes` (`TypeOK`) and `WarmingWaits` (`EndsAfterAnswers`). `ListedInv` is the
strengthening: as long as the wait is not over, a connection that is open is in
`MergePreCopy.connections`, or is the one its thread just made; so an empty list means that all
were answered, and `finished`, which is set at that moment, keeps any other from being added. `PlaceInv`
ties `warmingSegments` to the places of the merge threads, with a lemma about removing from a
sequence without repetitions.

**Only model-checked.** Liveness (`EveryRequestAnswered`, `FullShardCloses`,
`AcceptedJobsComplete`, `CloseReturns`, `CloseEndsWarming`, `WarmingEndsWhenHealthy`), which is
beyond the prover. Every invariant and action property of a passing run is stated by a theorem,
and the refinement is. Three have a hypothesis that the run satisfies by its constants: no facets
(`OkMeansIndexedOnce`, `PermitsReturned`, `ShardDrained`). Without it each of them is false, for
the reasons above, and TLC finds a counterexample in a larger instance (for `ShardDrained` only with
chunks of four characters and a handler that throws).

## 6 Where the code disagrees with what it promises

Four have a run whose counterexample shows them (`findings` in `PROJECT.json`):

1. `bulk_facet`: an unchecked exception of `FacetsConfig.build` in a split document is swallowed
   by a `Future` nobody reads; the request answers success with a document missing
   (`handlers/BulkCSVAddDocumentHandler.java:149`).
2. `rollover_closed`: `finishIndexingChunk` decides on a count that has grown again, and a chunk meets
   a closed writer (`ShardState.java:1003`).
3. `gen_file_ten`: from generation 10 on, a torn newest file hides the intact older one
   (`GenFileUtil.java:75`).
4. `warming_crash`: the protocol's description says that a replica that crashes is just removed from the
   primary's list (`handlers/CopyFilesHandler.java:67`). Nothing removes it, and a merge that waits for
   it reads a connection at its end only while `available()` is positive: the merge thread polls until
   the primary closes (`NRTPrimaryNode.java:128`). So it does when the replica's handler throws: the
   index was stopped, the job could not be launched, or the replica is only just starting, because it
   registers before `ShardState.java:666` has assigned `nrtReplicaNode`.

Others were met on the way and bound what the runs above may assume:

* A permit is held until the chunk's successor is scanned. A document with more chunks than
  permits waits forever, and so can several requests that together hold all permits.
* When a split document throws in the thread of the *successor*, the successor's job dies before
  it indexes anything: the request hangs and its permit is gone. The runs have indices without facets
  for this reason (the exception arises nowhere else).
* json counts a chunk in `getWritableShard` and never counts it down: its shard never finishes.
* After a parse error in json the end fragment starts at offset 0 of the chunk, so that a later
  fragment is glued to documents that are indexed already
  (`handlers/BulkAddDocumentHandler.java` 191-194 asserts otherwise).
* If `getWritableShard` throws, the last submitted chunk is never closed and keeps permit and
  party. csvchars always writes to shard 0 (`BulkCSVAddDocumentHandlerNonBinary.java:352`).
* `return writableShard` is outside the lock (`IndexState.java:1063`): with two handlers a chunk
  is counted in one shard and taken off another. The first may then never be finished.
* `finishIndexing` can be submitted twice; the second meets a closed writer and keeps its
  permit, which `PermitsAccounted` allows. It is called in a pool thread and takes a permit
  there: with few permits the pool deadlocks.
* If `start()` of the next shard throws, no shard accepts documents any more. After a restart only
  shard 0 is opened (`GlobalState.java` 301-302).
* `GenFile`: a second crash before the first save after a fallback loses everything, since `load`
  deleted the file it fell back to; a snapshot taken then refers to the torn file. A failed
  sync leaves the file of the next generation in place, and all later saves collide with it. The
  directory is not synced (`GenFileUtil.java:145`): a crash of the machine can undo a save that
  returned, or keep the deletion of the previous file and lose the new one. If `listAll` throws, a
  start loads nothing and says nothing (67). Bytes that are not UTF-8 fail the start instead of
  falling back (`IndexState.java:943`).
* An index that was created, stopped without a commit and loaded again cannot be started: it
  is reloaded with `doCreate` false and there is no commit to append to (`GlobalState.java:302`).
* A torn newest `indices.N` keeps the server from starting; older files are not tried
  (`GlobalState.java:376`). `deleteIndex` does not save the names (325).
* A close or rollback that throws leaves the `IndexState` in the map, with `doCreate` still true if it
  created the index: the next start drops what was committed. Two concurrent stops of one
  index may remove an instance that somebody loaded in between (`IndexState.java:510`).
* A rollback of a primary is let through although its `NRTPrimaryNode` and its reopen thread
  stay (`ShardState.java:281`).
* A crash between the commit of the writer and the save of the settings leaves documents with
  fields the settings do not have. A crash in the middle of a create or release of a snapshot leaks
  references for ever; a release that is sent twice takes the reference of somebody
  else; an exception after the references were taken (`openSearcher`) leaks them.
* A replica that starts again is registered again, and its older entries are never removed. One
  that finds a merge already finished closes its connection and writes to it all the same; the
  exception ends `addReplica`, and other merges are not joined. A connection that is added
  between the cancelling of a merge and its removal from `warmingSegments` is never closed. An
  exception while the request is written leaves the connection in the list (374-380), with a replica
  that will not answer.

## 7 Not modelled, and why

The JavaScript under `src/examples/*/static/` is jQuery, jQuery UI, select2 and Bootstrap: vendored
libraries of the example pages, no part of the server. Everything modelled here is in the server's
Java sources.

The distributed search queue has no behaviour yet: the broadcast of a query to the other nodes
is commented out in `Search2Handler` (168-182), so that no node but the one that got a query knows
it. `Pipe` is used by no class.

Query construction, highlighting, grouping and the answers of search are translations between
JSON and Lucene's classes: no state, and Lucene's behaviour is a library. Plugins, statistics,
documentation and analysis only read. Sockets, timeouts of HTTP clients and the byte layout of
messages are left out. HTTP requests, parameters, field registration,
suggesters, single-document handlers, the parsers and the wait for a search version are left for
later (section 8). Inside the modelled parts: the header line of a csv request, the content
of fields, renaming of copied files, and the
merge policies of the writer. In `BulkIndex` all requests write to one shard and
`getWritableShard` succeeds; in `ShardRollover` the chunk's inside is one step. In
`IndexLifecycle` an index has one shard, one administrator at a time, and starts standalone,
never as primary or replica. In `Snapshots` clients release what they were given, once; searching
a snapshot is left out. In `MergeWarming` connecting to a server that is off fails at once, and NRT
points are not sent.

## 8 Plan

In this order; later modules may use the abstract part of earlier ones.

1. `BulkIndex`, `ShardRollover`, `GenFile`, `CopyJobs`, `JobService` with runs, and proofs for
   `BulkIndex` and `CopyJobs`: done.
2. `IndexLifecycle`, `Snapshots`, `MergeWarming` with runs: done.
   Proofs for them: done.
3. Proofs for `ShardRollover`, `GenFile` and the result of a bulk request: done.
4. `SearcherWait`: a wait with one signal. Property: a search sees the version it asked for, and is
   answered.
5. `RequestLifecycle` with the parameters, field registration and settings: what is read is
   removed, what is left is refused; all checks before any change.
6. `NumberParse`, `CsvParse`: pure operators against a reference definition over bounded inputs,
   with the integer width of the code.
7. Single and block document jobs in the same pool; a composition of `BulkIndex` with
   `ShardRollover` with a failing `getWritableShard`; suggesters.
8. `SearchQueue`, when the broadcast of queries exists.
