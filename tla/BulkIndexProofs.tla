--------------------------- MODULE BulkIndexProofs ---------------------------
EXTENDS BulkIndex, TLAPS, FiniteSetTheorems, SequenceTheorems, WellFoundedInduction

(***************************************************************************)
(* Proofs about BulkIndex, for any number of requests, pool threads and    *)
(* permits, any chunk length and any texts up to MaxLen.                   *)
(*                                                                         *)
(* One step of the argument is one invariant:                              *)
(*   ControlInv   where handlers, jobs and chunks can be, together: only   *)
(*                what was cut is queued, only chunks whose two ends are   *)
(*                known run indexSplitDoc;                                 *)
(*   GivenInv     a chunk that still has to hand a fragment back finds     *)
(*                its predecessor without one;                             *)
(*   PhaserInv    parties and unarrived count the chunks at work;          *)
(*   PermitInv, LocalInv, RunInv   each permit, and each unit of the       *)
(*                shard's count, belongs to one chunk.                     *)
(* Each is preserved by the step of a handler and by the step of a pool    *)
(* thread, one lemma for each (HandlerKeeps..., JobKeeps...).              *)
(***************************************************************************)

(* A non-empty set of natural numbers has a least element. *)
LEMMA LeastExists ==
  ASSUME NEW S, S \subseteq Nat, S # {}
  PROVE  \E x \in S : \A y \in S : x <= y
<1> DEFINE R == {p \in Nat \X Nat : p[1] < p[2]}
<1>1. OpToRel(<, Nat) = R
  BY DEF OpToRel
<1>2. IsWellFoundedOn(R, Nat)
  BY <1>1, NatLessThanWellFounded
<1> HIDE DEF R
<1>3. PICK x \in S : \A y \in S : ~(<<y, x>> \in R)
  BY <1>2, WFMin
<1>4. ASSUME NEW y \in S PROVE x <= y
  <2>1. x \in Nat /\ y \in Nat /\ ~(<<y, x>> \in R)
    BY <1>3
  <2> QED BY <2>1 DEF R
<1> QED BY <1>4

(* Min of a non-empty set of natural numbers is its least element. *)
LEMMA MinIsLeast ==
  ASSUME NEW S, S \subseteq Nat, S # {}
  PROVE  Min(S) \in S /\ \A y \in S : Min(S) <= y
BY LeastExists DEF Min

(* Max of a non-empty bounded set of natural numbers is its greatest element. *)
LEMMA MaxIsGreatest ==
  ASSUME NEW n \in Nat, NEW S, S \subseteq 0 .. n, S # {}
  PROVE  Max(S) \in S /\ \A y \in S : Max(S) >= y
<1> DEFINE T == {n - x : x \in S}
<1>0. \A x \in S : x \in 0 .. n
  OBVIOUS
<1>1. T \subseteq Nat /\ T # {}
  <2>1. \A x \in 0 .. n : n - x \in Nat
    OBVIOUS
  <2>2. T \subseteq Nat
    BY <1>0, <2>1
  <2>3. PICK x : x \in S
    OBVIOUS
  <2>4. n - x \in T
    BY <2>3
  <2> QED BY <2>2, <2>4
<1>2. PICK t \in T : \A u \in T : t <= u
  <2> HIDE DEF T
  <2> QED BY <1>1, LeastExists
<1>3. PICK x \in S : t = n - x
  BY <1>2
<1>4. \A y \in S : x >= y
  <2> SUFFICES ASSUME NEW y \in S PROVE x >= y
    OBVIOUS
  <2>1. n - y \in T
    OBVIOUS
  <2>2. n - x <= n - y
    BY <1>2, <1>3, <2>1
  <2> QED BY <1>0, <2>2
<1> QED BY <1>4 DEF Max

(* Fewer characters need no more chunks. *)
LEMMA DivMonotone ==
  ASSUME NEW a \in Nat, NEW b \in Nat, NEW d \in Nat \ {0}, a <= b
  PROVE  a \div d \in Nat /\ a \div d <= b \div d
OBVIOUS

-----------------------------------------------------------------------------
(* Chunks and their text. *)

\* The requests are what the clients may send.
RequestOK == request \in [Streams -> Requests]

(* There is room for at least one chunk. *)
LEMMA MaxChunksType == MaxChunks \in Nat
BY BulkAssumption DEF MaxChunks

(* A chunk is a stream with a number, and so is its predecessor. *)
LEMMA ChunkParts ==
  ASSUME NEW c \in Chunk
  PROVE  /\ c[1] \in Streams /\ c[2] \in 1 .. MaxChunks /\ c = <<c[1], c[2]>>
         /\ HasPrev(c) => Prev(c) \in Chunk /\ Prev(c) # c
         /\ Prev(c)[1] = c[1] /\ Prev(c)[2] = c[2] - 1
<1>1. MaxChunks \in Nat
  BY BulkAssumption DEF MaxChunks
<1> QED BY <1>1 DEF Chunk, HasPrev, Prev

(* The text of a request is short enough for the chunks there are. *)
LEMMA TextFacts ==
  ASSUME RequestOK, NEW s \in Streams
  PROVE  /\ Text(s) \in Seq(Chars) /\ Len(Text(s)) \in 0 .. MaxLen
         /\ Format(s) \in {"csv", "csvchars", "json"}
         /\ HasFacets(s) \in BOOLEAN
         /\ NumChunks(s) \in 1 .. MaxChunks
<1>1. request[s] \in Requests
  BY DEF RequestOK
<1>2. /\ Text(s) \in Seq(Chars) /\ Len(Text(s)) \in 0 .. MaxLen
      /\ Format(s) \in {"csv", "csvchars", "json"} /\ HasFacets(s) \in BOOLEAN
  BY <1>1, BulkAssumption DEF Text, Format, HasFacets
<1>3. /\ Len(Text(s)) \div ChunkLen \in Nat
      /\ Len(Text(s)) \div ChunkLen <= MaxLen \div ChunkLen
  BY <1>2, DivMonotone, BulkAssumption
<1>4. MaxLen \div ChunkLen \in Nat
  BY DivMonotone, BulkAssumption
<1> QED BY <1>2, <1>3, <1>4 DEF NumChunks, MaxChunks

(* The positions of a chunk lie in the text, and there are at most ChunkLen. *)
LEMMA PositionsType ==
  ASSUME RequestOK, NEW c \in Chunk
  PROVE  Positions(c) \in Seq(1 .. MaxLen) /\ Len(Positions(c)) \in 0 .. ChunkLen
<1> DEFINE first == (c[2] - 1) * ChunkLen
           left  == Len(Text(c[1])) - first
           n     == IF left < ChunkLen THEN left ELSE ChunkLen
           m     == IF n < 0 THEN 0 ELSE n
<1>1. c[1] \in Streams /\ c[2] - 1 \in Nat /\ ChunkLen \in Nat \ {0} /\ MaxLen \in Nat
  BY ChunkParts, BulkAssumption
<1>2. first \in Nat
  BY <1>1
<1>3. Len(Text(c[1])) \in 0 .. MaxLen
  BY <1>1, TextFacts
<1> HIDE DEF first
<1>4. n \in Int /\ n <= ChunkLen /\ first + n <= MaxLen
  BY <1>1, <1>2, <1>3
<1>5. Positions(c) = [i \in 1 .. n |-> first + i]
  BY DEF Positions, first
<1> HIDE DEF n
<1>6. 1 .. n = 1 .. m /\ m \in 0 .. ChunkLen
  BY <1>1, <1>4
<1>7. \A i \in 1 .. m : first + i \in 1 .. MaxLen
  BY <1>1, <1>2, <1>4, <1>6
<1> HIDE DEF m
<1>8. Positions(c) = [i \in 1 .. m |-> first + i]
  BY <1>5, <1>6
<1>9. Positions(c) \in [1 .. m -> 1 .. MaxLen]
  BY <1>7, <1>8
<1> QED BY <1>1, <1>6, <1>9

(* Line ends are places of the fragment. *)
LEMMA LineEndsType ==
  ASSUME NEW s, NEW T, NEW frag \in Seq(T)
  PROVE  LineEndsIn(s, frag) \subseteq 1 .. Len(frag)
BY DEF LineEndsIn

(* The prefix that is skipped lies inside the chunk, when there is a newline. *)
LEMMA SkipType ==
  ASSUME RequestOK, NEW c \in Chunk,
         HasPrev(c) => LineEndsIn(c[1], Positions(c)) # {}
  PROVE  SkipPrefix(c) \in 0 .. Len(Positions(c))
<1> DEFINE nls == LineEndsIn(c[1], Positions(c))
<1>1. Len(Positions(c)) \in Nat /\ nls \subseteq 1 .. Len(Positions(c))
  BY PositionsType, LineEndsType
<1>2. CASE HasPrev(c)
  <2>1. \A i \in 1 .. Len(Positions(c)) : i \in Nat
    BY <1>1
  <2>2. Min(nls) \in nls
    BY <1>1, <1>2, <2>1, MinIsLeast
  <2> QED BY <1>1, <1>2, <2>2 DEF SkipPrefix
<1>3. CASE ~HasPrev(c)
  BY <1>1, <1>3 DEF SkipPrefix
<1> QED BY <1>2, <1>3

(* A line starts inside the chunk. *)
LEMMA LineStartType ==
  ASSUME RequestOK, NEW c \in Chunk,
         HasPrev(c) => LineEndsIn(c[1], Positions(c)) # {},
         NEW E, E \subseteq LineEnds(c)
  PROVE  Max({SkipPrefix(c)} \cup E) \in 0 .. ChunkLen
<1> DEFINE S == {SkipPrefix(c)} \cup E
<1>1. Len(Positions(c)) \in Nat /\ Len(Positions(c)) <= ChunkLen /\ ChunkLen \in Nat
  BY PositionsType, BulkAssumption
<1>2. LineEndsIn(c[1], Positions(c)) \subseteq 1 .. Len(Positions(c))
  BY PositionsType, LineEndsType
<1>3. SkipPrefix(c) \in 0 .. Len(Positions(c))
  BY SkipType
<1>4. S \subseteq 0 .. ChunkLen
  BY <1>1, <1>2, <1>3 DEF LineEnds
<1>5. S # {}
  OBVIOUS
<1> HIDE DEF S
<1>6. Max(S) \in S
  BY <1>1, <1>4, <1>5, MaxIsGreatest
<1> QED BY <1>4, <1>6 DEF S

(* What addDocuments leaves: a count, and an end offset inside the chunk. *)
LEMMA BlockType ==
  ASSUME RequestOK, NEW c \in Chunk
  PROVE  /\ Block(c).counted \in Nat /\ Block(c).failed \in BOOLEAN
         /\ (HasPrev(c) => LineEndsIn(c[1], Positions(c)) # {}) => Block(c).end \in 0 .. ChunkLen
<1> DEFINE bad  == Min(FaultyEnds(c))
           good == {i \in LineEnds(c) : i < bad}
<1>1. LineEndsIn(c[1], Positions(c)) \subseteq 1 .. Len(Positions(c)) /\ Len(Positions(c)) \in Nat
  BY PositionsType, LineEndsType
<1>2. IsFiniteSet(1 .. Len(Positions(c)))
  BY <1>1, FS_Interval
<1>3. IsFiniteSet(LineEnds(c)) /\ IsFiniteSet(good)
  BY <1>1, <1>2, FS_Subset DEF LineEnds
<1>4. Cardinality(LineEnds(c)) \in Nat /\ Cardinality(good) \in Nat
  BY <1>3, FS_CardinalityType
<1>5. Block(c).counted \in Nat /\ Block(c).failed \in BOOLEAN
  BY <1>4 DEF Block
<1>6. ASSUME HasPrev(c) => LineEndsIn(c[1], Positions(c)) # {}
      PROVE  Block(c).end \in 0 .. ChunkLen
  <2>1. Max({SkipPrefix(c)} \cup LineEnds(c)) \in 0 .. ChunkLen
    BY <1>6, LineStartType
  <2>2. LineStart(c, bad) \in 0 .. ChunkLen
    BY <1>6, LineStartType DEF LineStart
  <2>3. 0 \in 0 .. ChunkLen
    BY BulkAssumption
  <2> QED BY <2>1, <2>2, <2>3 DEF Block
<1> QED BY <1>5, <1>6

(* The end offset is a place in the chunk, or -2 when the chunk has no newline. *)
LEMMA EndOffsetType ==
  ASSUME RequestOK, NEW c \in Chunk
  PROVE  /\ EndOffset(c) \in -2 .. ChunkLen /\ EndOffset(c) # -1
         /\ EndOffset(c) = -2 <=> HasPrev(c) /\ LineEndsIn(c[1], Positions(c)) = {}
<1>1. ChunkLen \in Nat
  BY BulkAssumption
<1>2. CASE HasPrev(c) /\ LineEndsIn(c[1], Positions(c)) = {}
  BY <1>1, <1>2 DEF EndOffset
<1>3. CASE ~(HasPrev(c) /\ LineEndsIn(c[1], Positions(c)) = {})
  <2>1. Block(c).end \in 0 .. ChunkLen
    BY <1>3, BlockType
  <2>2. EndOffset(c) = Block(c).end
    BY <1>3 DEF EndOffset
  <2> QED BY <1>1, <1>3, <2>1, <2>2
<1> QED BY <1>2, <1>3

(* Every outcome of the split document is a count and two flags. *)
LEMMA OutcomeType ==
  ASSUME RequestOK, NEW c \in Chunk, NEW r \in SplitOutcomes(c)
  PROVE  r.add \in Nat /\ r.failed \in BOOLEAN /\ r.throws \in BOOLEAN
<1> DEFINE s == c[1]
           d == FirstLine(s, SplitFragment(c))
           noNewline == LineEndsIn(s, d) = {}
<1>1. Format(s) \in {"csv", "csvchars", "json"}
  BY ChunkParts, TextFacts
<1>2. Fault(s, d) \in {"parse", "facet", "write", "none"}
  BY DEF Fault
<1> DEFINE OK(o) == o.add \in Nat /\ o.failed \in BOOLEAN /\ o.throws \in BOOLEAN
<1>3. \A D : /\ OK(Outcome(0, D, FALSE, FALSE)) /\ OK(Outcome(0, D, TRUE, FALSE))
             /\ OK(Outcome(0, D, FALSE, TRUE)) /\ OK(Outcome(1, D, FALSE, TRUE))
             /\ OK(Outcome(1, D, TRUE, FALSE)) /\ OK(Outcome(1, D, FALSE, FALSE))
  BY DEF Outcome
<1>4. \/ r = Outcome(0, {}, FALSE, FALSE) \/ r = Outcome(0, {}, TRUE, FALSE)
      \/ r = Outcome(0, {}, FALSE, TRUE) \/ r = Outcome(1, {}, FALSE, TRUE)
      \/ r = Outcome(1, {}, TRUE, FALSE) \/ r = Outcome(1, {<<d, c, "split">>}, FALSE, FALSE)
  <2> HIDE DEF d
  <2> QED BY <1>1, <1>2 DEF SplitOutcomes, d
<1> HIDE DEF OK
<1>5. OK(r)
  BY <1>3, <1>4
<1> QED BY <1>5 DEF OK

-----------------------------------------------------------------------------
(* The control invariant: types without the bounds that need counting, where
   the handler is, and where the chunks are. *)

HandlerStates == {"read", "acquire", "submit", "close", "closing", "await", "answered"}
JobStates == {"none", "queued", "scan", "delivering", "index", "end", "ending", "done", "died"}
FinStates == {"open", "split", "passing", "release", "arrive", "done"}
Closed3   == {"closing", "await", "answered"}

Types ==
  /\ request \in [Streams -> Requests]
  /\ hpc \in [Streams -> HandlerStates]
  /\ nchunks \in [Streams -> Nat]
  /\ job \in [Chunk -> JobStates]
  /\ queue \in Seq(Chunk)
  /\ endOff \in [Chunk -> -2 .. ChunkLen]
  /\ nextFrag \in [Chunk -> Seq(Seq(1 .. MaxLen))]
  /\ fin \in [Chunk -> FinStates]
  /\ exc \in [Chunk -> BOOLEAN]
  /\ permits \in Int
  /\ local \in [Streams -> Int]
  /\ running \in Int
  /\ parties \in [Streams -> Int] /\ unarrived \in [Streams -> Int] /\ phase \in [Streams -> Nat]
  /\ error \in [Streams -> BOOLEAN]
  /\ addCount \in [Streams -> Nat]
  /\ answer \in [Streams -> {"none", "ok", "error", "exception"}]

NoNewline(c) == LineEndsIn(c[1], Positions(c)) = {}

HandlerInv ==
  \A s \in Streams :
    /\ nchunks[s] <= NumChunks(s)
    /\ hpc[s] = "read" => nchunks[s] < NumChunks(s)
    /\ hpc[s] # "read" \/ error[s] => nchunks[s] >= 1
    /\ hpc[s] \in {"acquire", "submit"} => job[<<s, nchunks[s]>>] = "none"

ChunkInv ==
  \A c \in Chunk :
    /\ job[c] # "none" => c[2] <= nchunks[c[1]]
    /\ endOff[c] # -1 => job[c] \in {"ending", "done", "died"}
    /\ endOff[c] = -2 => HasPrev(c) /\ NoNewline(c)
    /\ nextFrag[c] # << >> =>
         \/ c[2] < nchunks[c[1]]
         \/ c[2] = nchunks[c[1]] /\ hpc[c[1]] \in Closed3
    /\ fin[c] # "open" => nextFrag[c] # << >> /\ endOff[c] # -1
    /\ fin[c] = "passing" => HasPrev(c)

QueueInv ==
  /\ \A i \in 1 .. Len(queue) : job[queue[i]] = "queued"
  /\ \A i, j \in 1 .. Len(queue) : queue[i] = queue[j] => i = j

ControlInv == Types /\ HandlerInv /\ ChunkInv /\ QueueInv

(* The text of a request never changes, nor what is computed from it. *)
LEMMA SameText ==
  ASSUME request' = request
  PROVE  /\ \A s \in Streams : NumChunks(s)' = NumChunks(s)
         /\ \A c \in Chunk : NoNewline(c)' = NoNewline(c) /\ Positions(c)' = Positions(c)
BY DEF NumChunks, NoNewline, LineEndsIn, Positions, Text

(* The last chunk a handler made is a chunk. *)
LEMMA LastChunk ==
  ASSUME Types, HandlerInv, NEW s \in Streams, nchunks[s] >= 1
  PROVE  <<s, nchunks[s]>> \in Chunk
<1>1. NumChunks(s) \in 1 .. MaxChunks /\ MaxChunks \in Int
  BY TextFacts, BulkAssumption DEF Types, RequestOK, MaxChunks
<1>2. nchunks[s] \in Nat /\ nchunks[s] <= NumChunks(s)
  BY DEF Types, HandlerInv
<1>3. nchunks[s] \in 1 .. MaxChunks
  BY <1>1, <1>2
<1> QED BY <1>3 DEF Chunk

(* Fragments are sequences of positions. *)
LEMMA FragmentType ==
  ASSUME Types, NEW c \in Chunk
  PROVE  /\ \A n \in 1 .. Len(Positions(c)) :
              SubSeq(Positions(c), 1, n) \in Seq(1 .. MaxLen)
         /\ nextFrag[c] # << >> => Positions(c) \o nextFrag[c][1] \in Seq(1 .. MaxLen)
<1>1. Positions(c) \in Seq(1 .. MaxLen)
  BY PositionsType DEF Types, RequestOK
<1>2. nextFrag[c] # << >> => nextFrag[c][1] \in Seq(1 .. MaxLen)
  BY DEF Types
<1>3. \A n \in 1 .. Len(Positions(c)) : SubSeq(Positions(c), 1, n) \in Seq(1 .. MaxLen)
  <2> SUFFICES ASSUME NEW n \in 1 .. Len(Positions(c))
               PROVE  SubSeq(Positions(c), 1, n) \in Seq(1 .. MaxLen)
    OBVIOUS
  <2>1. /\ Len(Positions(c)) \in Nat
        /\ Positions(c) \in [1 .. Len(Positions(c)) -> 1 .. MaxLen]
    BY <1>1, LenProperties
  <2>2. n \in Int /\ 1 \in Int /\ \A i \in 1 .. n : i \in 1 .. Len(Positions(c))
    BY <2>1
  <2>3. \A i \in 1 .. n : Positions(c)[i] \in 1 .. MaxLen
    BY <2>1, <2>2
  <2> QED BY <2>2, <2>3, SubSeqProperties
<1>4. nextFrag[c] # << >> => Positions(c) \o nextFrag[c][1] \in Seq(1 .. MaxLen)
  BY <1>1, <1>2
<1> QED BY <1>3, <1>4

(* The handler's steps keep the types. *)
LEMMA HandlerTypes ==
  ASSUME ControlInv, NEW s \in Streams, Handler(s)
  PROVE  Types'
<1> USE DEF ControlInv, Types, HandlerStates, JobStates, FinStates, phaserVars, ctxVars, limitVars
<1>1. CASE ReadChunk(s)
  <2>1. nchunks' \in [Streams -> Nat] /\ running' \in Int
    BY <1>1 DEF ReadChunk
  <2>2. parties' \in [Streams -> Int] /\ unarrived' \in [Streams -> Int]
    BY <1>1 DEF ReadChunk
  <2>3. hpc' \in [Streams -> HandlerStates]
    BY <1>1 DEF ReadChunk
  <2> QED BY <1>1, <2>1, <2>2, <2>3 DEF ReadChunk
<1>2. CASE StopOnError(s)
  BY <1>2 DEF StopOnError
<1>3. CASE AcquireLocal(s)
  BY <1>3 DEF AcquireLocal
<1>4. CASE Submit(s)
  <2>1. <<s, nchunks[s]>> \in Chunk
    BY <1>4, LastChunk DEF Submit, HandlerInv
  <2> QED BY <1>4, <2>1 DEF Submit
<1>5. CASE CloseLast(s)
  <2>1. << << >> >> \in Seq(Seq(1 .. MaxLen))
    OBVIOUS
  <2> QED BY <1>5, <2>1 DEF CloseLast, Hand
<1>6. CASE Closed(s)
  BY <1>6 DEF Closed
<1>7. CASE Answer(s)
  BY <1>7 DEF Answer
<1> QED BY <1>1, <1>2, <1>3, <1>4, <1>5, <1>6, <1>7 DEF Handler

(* The steps of a pool thread keep the types. *)
LEMMA JobTypes ==
  ASSUME ControlInv, NEW c \in Chunk, RunJob(c)
  PROVE  Types'
<1> USE DEF ControlInv, Types, HandlerStates, JobStates, FinStates, phaserVars, ctxVars, limitVars,
            handVars
<1>1. CASE Start(c)
  BY <1>1 DEF Start
<1>2. CASE ScanPrefix(c)
  <2> DEFINE nls == LineEndsIn(c[1], Positions(c))
             frag == SubSeq(Positions(c), 1, Min(nls))
  <2>1. nls \subseteq 1 .. Len(Positions(c)) /\ nls # {} /\ Len(Positions(c)) \in Nat
    BY <1>2, PositionsType, LineEndsType DEF ScanPrefix, RequestOK
  <2>2. Min(nls) \in nls
    <3>1. \A i \in 1 .. Len(Positions(c)) : i \in Nat
      BY <2>1
    <3> HIDE DEF nls
    <3> QED BY <2>1, <3>1, MinIsLeast
  <2>3. << frag >> \in Seq(Seq(1 .. MaxLen))
    <3>1. frag \in Seq(1 .. MaxLen)
      BY <2>1, <2>2, FragmentType
    <3> HIDE DEF frag
    <3> QED BY <3>1
  <2>4. Prev(c) \in Chunk
    BY <1>2, ChunkParts DEF ScanPrefix
  <2>5. nextFrag' = [nextFrag EXCEPT ![Prev(c)] = <<frag>>]
    BY <1>2 DEF ScanPrefix, Hand
  <2>6. nextFrag' \in [Chunk -> Seq(Seq(1 .. MaxLen))]
    <3> HIDE DEF frag
    <3> QED BY <2>3, <2>5
  <2>7. fin' \in [Chunk -> FinStates] /\ job' \in [Chunk -> JobStates]
    BY <1>2, <2>4 DEF ScanPrefix
  <2> QED BY <1>2, <2>6, <2>7 DEF ScanPrefix
<1>3. CASE ScanNoPrefix(c)
  BY <1>3 DEF ScanNoPrefix
<1>4. CASE Delivered(c)
  BY <1>4 DEF Delivered
<1>5. CASE IndexBlock(c)
  <2>1. Block(c).counted \in Nat /\ Block(c).failed \in BOOLEAN /\ c[1] \in Streams
    BY BlockType, ChunkParts DEF RequestOK
  <2>2. addCount' \in [Streams -> Nat]
    <3>1. addCount[c[1]] + Block(c).counted \in Nat
      BY <2>1
    <3> QED BY <1>5, <2>1, <3>1 DEF IndexBlock
  <2>3. error' \in [Streams -> BOOLEAN]
    BY <1>5, <2>1 DEF IndexBlock
  <2> QED BY <1>5, <2>2, <2>3 DEF IndexBlock
<1>6. CASE SetEnd(c)
  <2>1. EndOffset(c) \in -2 .. ChunkLen
    BY EndOffsetType DEF RequestOK
  <2> QED BY <1>6, <2>1 DEF SetEnd
<1>7. CASE Ended(c)
  BY <1>7 DEF Ended
<1> QED BY <1>1, <1>2, <1>3, <1>4, <1>5, <1>6, <1>7 DEF RunJob

(* The steps of the split document keep the types. *)
LEMMA SplitTypes ==
  ASSUME ControlInv, NEW c \in Chunk, SplitDoc(c)
  PROVE  Types'
<1> USE DEF ControlInv, Types, HandlerStates, JobStates, FinStates, phaserVars, ctxVars, limitVars,
            handVars
<1>0. c[1] \in Streams
  BY ChunkParts
<1>1. CASE PassOn(c)
  <2> DEFINE frag == Positions(c) \o nextFrag[c][1]
  <2>1. Prev(c) \in Chunk /\ Prev(c) # c
    BY <1>1, ChunkParts DEF PassOn, ChunkInv
  <2>2. << frag >> \in Seq(Seq(1 .. MaxLen))
    <3>1. frag \in Seq(1 .. MaxLen)
      BY <1>1, FragmentType DEF PassOn, ChunkInv
    <3> HIDE DEF frag
    <3> QED BY <3>1
  <2>3. nextFrag' = [nextFrag EXCEPT ![Prev(c)] = <<frag>>]
    BY <1>1 DEF PassOn, Hand
  <2>4. nextFrag' \in [Chunk -> Seq(Seq(1 .. MaxLen))]
    <3> HIDE DEF frag
    <3> QED BY <2>2, <2>3
  <2>5. fin' \in [Chunk -> FinStates]
    BY <1>1, <2>1 DEF PassOn
  <2> QED BY <1>1, <2>4, <2>5 DEF PassOn
<1>2. CASE Passed(c)
  <2>1. Prev(c) \in Chunk
    BY <1>2, ChunkParts DEF Passed, ChunkInv
  <2> QED BY <1>2, <2>1 DEF Passed
<1>3. CASE IndexSplitDoc(c)
  <2>1. PICK r \in SplitOutcomes(c) :
          /\ addCount' = [addCount EXCEPT ![c[1]] = @ + r.add]
          /\ error' = [error EXCEPT ![c[1]] = @ \/ r.failed]
          /\ exc' = [exc EXCEPT ![c] = r.throws]
    BY <1>3 DEF IndexSplitDoc
  <2>2. r.add \in Nat /\ r.failed \in BOOLEAN /\ r.throws \in BOOLEAN
    BY OutcomeType DEF RequestOK
  <2>3. addCount' \in [Streams -> Nat]
    BY <1>0, <2>1, <2>2
  <2>4. error' \in [Streams -> BOOLEAN] /\ exc' \in [Chunk -> BOOLEAN]
    BY <1>0, <2>1, <2>2
  <2> QED BY <1>3, <2>3, <2>4 DEF IndexSplitDoc
<1>4. CASE Release(c)
  <2>1. running' \in Int /\ permits' \in Int
    BY <1>4 DEF Release
  <2>2. local' \in [Streams -> Int]
    BY <1>0, <1>4 DEF Release
  <2>3. fin' \in [Chunk -> FinStates]
    BY <1>4 DEF Release
  <2> QED BY <1>4, <2>1, <2>2, <2>3 DEF Release
<1>5. CASE Arrive(c)
  <2> DEFINE registered == IF Format(c[1]) = "csvchars" THEN parties[c[1]] - 1 ELSE parties[c[1]]
  <2>0. registered \in Int
    BY <1>0
  <2>1. parties' \in [Streams -> Int]
    BY <1>0, <1>5, <2>0 DEF Arrive
  <2>2. unarrived' \in [Streams -> Int] /\ phase' \in [Streams -> Nat]
    <3>1. CASE unarrived[c[1]] = 1
      <4>1. /\ phase' = [phase EXCEPT ![c[1]] = @ + 1]
            /\ unarrived' = [unarrived EXCEPT ![c[1]] = registered]
        BY <1>5, <3>1 DEF Arrive
      <4> HIDE DEF registered
      <4> QED BY <1>0, <2>0, <4>1
    <3>2. CASE unarrived[c[1]] # 1
      <4>1. phase' = phase /\ unarrived' = [unarrived EXCEPT ![c[1]] = @ - 1]
        BY <1>5, <3>2 DEF Arrive
      <4> QED BY <1>0, <4>1
    <3> QED BY <3>1, <3>2
  <2>3. fin' \in [Chunk -> FinStates]
    BY <1>5 DEF Arrive
  <2> QED BY <1>5, <2>1, <2>2, <2>3 DEF Arrive
<1> QED BY <1>1, <1>2, <1>3, <1>4, <1>5 DEF SplitDoc

-----------------------------------------------------------------------------
(* The control facts are kept. *)

(* No step changes what the client asked for. *)
LEMMA RequestStays ==
  ASSUME [Next]_vars
  PROVE  request' = request
BY DEF Next, vars, Handler, RunJob, SplitDoc, Idle, handVars, ReadChunk, StopOnError, AcquireLocal,
   Submit, CloseLast, Closed, Answer, Start, ScanPrefix, ScanNoPrefix, Delivered, IndexBlock, SetEnd,
   Ended, PassOn, Passed, IndexSplitDoc, Release, Arrive

(* A pool thread moves its own job forward, a job that exists, and records
   errors of requests that have chunks; it leaves the handlers alone. *)
LEMMA JobMoves ==
  ASSUME ControlInv, NEW c \in Chunk, RunJob(c) \/ SplitDoc(c)
  PROVE  /\ UNCHANGED handVars
         /\ \A d \in Chunk : job'[d] # job[d] =>
              /\ d = c /\ job[c] # "none" /\ job'[c] \notin {"none", "queued"}
              /\ job'[c] = "scan" => job[c] = "queued"
         /\ \A s \in Streams : error'[s] # error[s] => nchunks[s] >= 1
<1>p. c[1] \in Streams /\ c[2] \in 1 .. MaxChunks /\ MaxChunks \in Nat
  BY ChunkParts, MaxChunksType
<1>t. /\ job \in [Chunk -> JobStates] /\ error \in [Streams -> BOOLEAN]
      /\ nchunks \in [Streams -> Nat] /\ c[1] \in Streams /\ c[2] >= 1 /\ c[2] \in Int
      /\ nchunks[c[1]] \in Nat
  BY <1>p DEF ControlInv, Types
<1>c. /\ job[c] # "none" => c[2] <= nchunks[c[1]]
      /\ fin[c] # "open" => c[2] <= nchunks[c[1]]
  <2>1. /\ job[c] # "none" => c[2] <= nchunks[c[1]]
        /\ fin[c] # "open" => nextFrag[c] # << >>
        /\ nextFrag[c] # << >> => c[2] < nchunks[c[1]] \/ c[2] = nchunks[c[1]]
    BY DEF ControlInv, ChunkInv
  <2> QED BY <1>t, <2>1
<1>1. CASE Start(c)
  <2>1. queue \in Seq(Chunk) /\ queue # << >> /\ Head(queue) = c
    BY <1>1 DEF Start, ControlInv, Types
  <2>2. c = queue[1] /\ 1 \in 1 .. Len(queue)
    BY <2>1
  <2>3. job[c] = "queued"
    BY <2>2 DEF ControlInv, QueueInv
  <2> QED BY <1>1, <1>t, <2>3 DEF Start, ctxVars
<1>2. CASE ScanPrefix(c) \/ ScanNoPrefix(c) \/ Delivered(c) \/ SetEnd(c) \/ Ended(c)
  BY <1>2, <1>t DEF ScanPrefix, ScanNoPrefix, Delivered, SetEnd, Ended, ctxVars
<1>3. CASE IndexBlock(c)
  <2>1. nchunks[c[1]] >= 1
    BY <1>3, <1>t, <1>c DEF IndexBlock
  <2>2. UNCHANGED handVars /\ job[c] = "index" /\ job' = [job EXCEPT ![c] = "end"]
    BY <1>3 DEF IndexBlock
  <2>3. error' = [error EXCEPT ![c[1]] = @ \/ Block(c).failed]
    BY <1>3 DEF IndexBlock
  <2>4. \A s \in Streams : error'[s] # error[s] => s = c[1]
    BY <1>t, <2>3
  <2> QED BY <1>t, <2>1, <2>2, <2>4
<1>4. CASE IndexSplitDoc(c)
  <2>1. nchunks[c[1]] >= 1
    BY <1>4, <1>t, <1>c DEF IndexSplitDoc
  <2>2. UNCHANGED handVars /\ job' = job
    BY <1>4 DEF IndexSplitDoc
  <2>3. \A s \in Streams : error'[s] # error[s] => s = c[1]
    BY <1>4, <1>t DEF IndexSplitDoc
  <2> QED BY <2>1, <2>2, <2>3
<1>5. CASE PassOn(c) \/ Passed(c) \/ Release(c) \/ Arrive(c)
  BY <1>5 DEF PassOn, Passed, Release, Arrive, ctxVars
<1> QED BY <1>1, <1>2, <1>3, <1>4, <1>5 DEF RunJob, SplitDoc

(* The handler facts survive a step of a pool thread. *)
LEMMA JobKeepsHandler ==
  ASSUME ControlInv, NEW c \in Chunk, RunJob(c) \/ SplitDoc(c)
  PROVE  HandlerInv'
<1> SUFFICES ASSUME NEW s \in Streams
             PROVE  /\ nchunks'[s] <= NumChunks(s)'
                    /\ hpc'[s] = "read" => nchunks'[s] < NumChunks(s)'
                    /\ hpc'[s] # "read" \/ error'[s] => nchunks'[s] >= 1
                    /\ hpc'[s] \in {"acquire", "submit"} => job'[<<s, nchunks'[s]>>] = "none"
  BY DEF HandlerInv
<1>1. hpc' = hpc /\ nchunks' = nchunks /\ request' = request
  BY JobMoves DEF handVars
<1>2. NumChunks(s)' = NumChunks(s)
  BY <1>1, SameText
<1>3. /\ nchunks[s] <= NumChunks(s)
      /\ hpc[s] = "read" => nchunks[s] < NumChunks(s)
      /\ hpc[s] # "read" \/ error[s] => nchunks[s] >= 1
      /\ hpc[s] \in {"acquire", "submit"} => job[<<s, nchunks[s]>>] = "none"
  BY DEF ControlInv, HandlerInv
<1>4. error'[s] # error[s] => nchunks[s] >= 1
  BY JobMoves
<1>5. ASSUME hpc[s] \in {"acquire", "submit"} PROVE job'[<<s, nchunks[s]>>] = "none"
  <2>1. <<s, nchunks[s]>> \in Chunk
    BY <1>3, <1>5, LastChunk DEF ControlInv
  <2> QED BY <1>3, <1>5, <2>1, JobMoves
<1> QED BY <1>1, <1>2, <1>3, <1>4, <1>5

(* The facts about a handler survive a step of a handler. *)
LEMMA HandlerKeepsHandler ==
  ASSUME ControlInv, NEW h \in Streams, Handler(h)
  PROVE  HandlerInv'
<1> SUFFICES ASSUME NEW s \in Streams
             PROVE  /\ nchunks'[s] <= NumChunks(s)'
                    /\ hpc'[s] = "read" => nchunks'[s] < NumChunks(s)'
                    /\ hpc'[s] # "read" \/ error'[s] => nchunks'[s] >= 1
                    /\ hpc'[s] \in {"acquire", "submit"} => job'[<<s, nchunks'[s]>>] = "none"
  BY DEF HandlerInv
<1>p. /\ NumChunks(s) \in 1 .. MaxChunks /\ NumChunks(h) \in 1 .. MaxChunks
      /\ MaxChunks \in Nat
  BY TextFacts, MaxChunksType DEF ControlInv, Types, RequestOK
<1>t. /\ nchunks \in [Streams -> Nat] /\ hpc \in [Streams -> HandlerStates]
      /\ job \in [Chunk -> JobStates] /\ NumChunks(s) \in Int /\ NumChunks(h) \in Int
      /\ nchunks[s] \in Nat /\ nchunks[h] \in Nat
  BY <1>p DEF ControlInv, Types
<1>i. \A k \in {s, h} :
         /\ nchunks[k] <= NumChunks(k)
         /\ hpc[k] = "read" => nchunks[k] < NumChunks(k)
         /\ hpc[k] # "read" \/ error[k] => nchunks[k] >= 1
         /\ hpc[k] \in {"acquire", "submit"} => job[<<k, nchunks[k]>>] = "none"
  BY DEF ControlInv, HandlerInv
<1>r. request' = request
  BY RequestStays DEF Next
<1>n. NumChunks(s)' = NumChunks(s)
  BY <1>r, SameText
<1>1. CASE ReadChunk(h)
  <2>1. CASE s = h
    <3>1. /\ nchunks'[s] = nchunks[s] + 1 /\ hpc'[s] \in {"acquire", "submit"}
          /\ job' = job /\ nchunks[s] < NumChunks(s)
      BY <1>1, <1>i, <1>t, <2>1 DEF ReadChunk
    <3>3. nchunks[s] + 1 \in 1 .. MaxChunks
      BY <1>p, <1>t, <3>1
    <3>4. <<s, nchunks[s] + 1>> \in Chunk
      BY <3>3 DEF Chunk
    <3>5. job[<<s, nchunks[s] + 1>>] # "none" => nchunks[s] + 1 <= nchunks[s]
      BY <3>4 DEF ControlInv, ChunkInv
    <3> QED BY <1>n, <1>t, <3>1, <3>5
  <2>2. CASE s # h
    BY <1>1, <1>i, <1>n, <1>t, <2>2 DEF ReadChunk, ctxVars
  <2> QED BY <2>1, <2>2
<1>2. CASE StopOnError(h) \/ AcquireLocal(h) \/ CloseLast(h) \/ Closed(h) \/ Answer(h)
  <2>1. nchunks' = nchunks /\ job' = job /\ error' = error
    BY <1>2 DEF StopOnError, AcquireLocal, CloseLast, Closed, Answer, ctxVars
  <2>2. \/ hpc'[s] = hpc[s]
        \/ s = h /\ hpc'[s] \in {"close", "closing", "await", "answered"}
             /\ (hpc[s] # "read" \/ error[s])
        \/ s = h /\ hpc[s] = "acquire" /\ hpc'[s] = "submit"
    BY <1>2, <1>t DEF StopOnError, AcquireLocal, CloseLast, Closed, Answer
  <2> QED BY <1>i, <1>n, <2>1, <2>2
<1>3. CASE Submit(h)
  <2>1. <<h, nchunks[h]>> \in Chunk /\ nchunks' = nchunks /\ error' = error
    BY <1>3, <1>i, LastChunk DEF Submit, ControlInv, ctxVars
  <2>2. CASE s = h
    <3>1. hpc'[s] = IF nchunks[s] = NumChunks(s) THEN "close" ELSE "read"
      BY <1>3, <1>t, <2>2 DEF Submit
    <3>2. hpc[s] = "submit"
      BY <1>3, <2>2 DEF Submit
    <3> QED BY <1>i, <1>n, <1>t, <2>1, <3>1, <3>2
  <2>3. CASE s # h
    <3>1. hpc'[s] = hpc[s] /\ job'[<<s, nchunks[s]>>] = job[<<s, nchunks[s]>>]
      BY <1>3, <1>t, <2>1, <2>3 DEF Submit
    <3> QED BY <1>i, <1>n, <2>1, <3>1
  <2> QED BY <2>2, <2>3
<1> QED BY <1>1, <1>2, <1>3 DEF Handler

\* What ChunkInv says of one chunk.
ChunkOK(c) ==
  /\ job[c] # "none" => c[2] <= nchunks[c[1]]
  /\ endOff[c] # -1 => job[c] \in {"ending", "done", "died"}
  /\ endOff[c] = -2 => HasPrev(c) /\ NoNewline(c)
  /\ nextFrag[c] # << >> =>
       \/ c[2] < nchunks[c[1]]
       \/ c[2] = nchunks[c[1]] /\ hpc[c[1]] \in Closed3
  /\ fin[c] # "open" => nextFrag[c] # << >> /\ endOff[c] # -1
  /\ fin[c] = "passing" => HasPrev(c)

(* The facts about the chunks survive a step of a handler. *)
LEMMA HandlerKeepsChunks ==
  ASSUME ControlInv, NEW h \in Streams, Handler(h)
  PROVE  ChunkInv'
<1> SUFFICES ASSUME NEW d \in Chunk PROVE ChunkOK(d)'
  BY DEF ChunkInv, ChunkOK
<1>p. d[1] \in Streams /\ d[2] \in 1 .. MaxChunks /\ MaxChunks \in Nat /\ d = <<d[1], d[2]>>
  BY ChunkParts, MaxChunksType
<1>v. /\ nchunks \in [Streams -> Nat] /\ hpc \in [Streams -> HandlerStates]
      /\ job \in [Chunk -> JobStates]
      /\ nextFrag \in [Chunk -> Seq(Seq(1 .. MaxLen))] /\ fin \in [Chunk -> FinStates]
  BY DEF ControlInv, Types
<1>t. nchunks[d[1]] \in Nat /\ d[2] \in Nat
  BY <1>p, <1>v
<1>i. ChunkOK(d)
  BY DEF ControlInv, ChunkInv, ChunkOK
<1>n. NoNewline(d)' = NoNewline(d) /\ HasPrev(d)' = HasPrev(d)
  BY RequestStays, SameText DEF Next, HasPrev
<1>1. CASE ReadChunk(h)
  <2>1. UNCHANGED <<job, endOff, nextFrag, fin>>
    BY <1>1 DEF ReadChunk
  <2>2. \/ nchunks'[d[1]] = nchunks[d[1]] /\ hpc'[d[1]] = hpc[d[1]]
        \/ nchunks'[d[1]] = nchunks[d[1]] + 1 /\ hpc[d[1]] = "read"
    <3>1. nchunks' = [nchunks EXCEPT ![h] = @ + 1] /\ hpc[h] = "read"
      BY <1>1 DEF ReadChunk
    <3>2. d[1] # h => hpc'[d[1]] = hpc[d[1]]
      BY <1>1, <1>p, <1>t, <1>v DEF ReadChunk
    <3> QED BY <1>p, <1>t, <1>v, <3>1, <3>2
  <2> QED BY <1>i, <1>n, <1>t, <1>v, <2>1, <2>2 DEF ChunkOK, Closed3
<1>2. CASE StopOnError(h) \/ AcquireLocal(h) \/ Closed(h) \/ Answer(h)
  <2>1. UNCHANGED <<nchunks, job, endOff, nextFrag, fin>>
    BY <1>2 DEF StopOnError, AcquireLocal, Closed, Answer
  <2>2. hpc[d[1]] \in Closed3 => hpc'[d[1]] \in Closed3
    BY <1>2, <1>p, <1>t, <1>v DEF StopOnError, AcquireLocal, Closed, Answer, Closed3
  <2> QED BY <1>i, <1>n, <2>1, <2>2 DEF ChunkOK
<1>3. CASE Submit(h)
  <2> DEFINE c == <<h, nchunks[h]>>
  <2>1. job[c] = "none" /\ c \in Chunk
    BY <1>3, LastChunk DEF Submit, ControlInv, HandlerInv
  <2>2. UNCHANGED <<nchunks, endOff, nextFrag, fin>>
    BY <1>3 DEF Submit
  <2>3. hpc[d[1]] \in Closed3 => hpc'[d[1]] \in Closed3
    BY <1>3, <1>p, <1>t, <1>v DEF Submit, Closed3
  <2>4. job'[d] = job[d] \/ (d = c /\ job[d] = "none")
    BY <1>3, <1>t, <1>v, <2>1 DEF Submit
  <2>5. d = c => d[2] <= nchunks[d[1]]
    BY <1>t, <1>v
  <2> HIDE DEF c
  <2> QED BY <1>i, <1>n, <2>2, <2>3, <2>4, <2>5 DEF ChunkOK
<1>4. CASE CloseLast(h)
  <2> DEFINE c == <<h, nchunks[h]>>
  <2>1. c \in Chunk
    BY <1>4, LastChunk DEF CloseLast, ControlInv, HandlerInv
  <2>2. UNCHANGED <<nchunks, job, endOff>>
    BY <1>4 DEF CloseLast
  <2>3. hpc'[d[1]] = hpc[d[1]] \/ (d[1] = h /\ hpc'[d[1]] \in Closed3)
    BY <1>4, <1>p, <1>t, <1>v DEF CloseLast, Closed3
  <2>4. CASE d = c
    <3>1. d[1] = h /\ d[2] = nchunks[d[1]] /\ hpc'[d[1]] \in Closed3
      BY <1>4, <1>p, <1>t, <1>v, <2>4 DEF CloseLast, Closed3
    <3>2. nextFrag'[d] # << >> /\ (fin'[d] = fin[d] \/ (fin'[d] = "split" /\ endOff[d] # -1))
      BY <1>4, <1>t, <1>v, <2>1, <2>4 DEF CloseLast, Hand, Triggers
    <3> HIDE DEF c
    <3> QED BY <1>i, <1>n, <2>2, <3>1, <3>2 DEF ChunkOK
  <2>5. CASE d # c
    <3>1. nextFrag'[d] = nextFrag[d] /\ fin'[d] = fin[d]
      BY <1>4, <1>t, <1>v, <2>1, <2>5 DEF CloseLast, Hand
    <3> QED BY <1>i, <1>n, <2>2, <2>3, <3>1 DEF ChunkOK
  <2> QED BY <2>4, <2>5
<1> QED BY <1>1, <1>2, <1>3, <1>4 DEF Handler

(* Which fragment a pool thread hands over, and to whom: to the predecessor of
   a chunk that exists. *)
LEMMA HandOver ==
  ASSUME ControlInv, NEW c \in Chunk, RunJob(c) \/ SplitDoc(c)
  PROVE  \/ UNCHANGED nextFrag
         \/ /\ HasPrev(c) /\ Prev(c) \in Chunk /\ Prev(c) # c
            /\ Prev(c)[1] = c[1] /\ Prev(c)[2] < nchunks[c[1]]
            /\ \A d \in Chunk : d # Prev(c) => nextFrag'[d] = nextFrag[d]
            /\ nextFrag'[Prev(c)] # << >>
            /\ ScanPrefix(c) \/ PassOn(c)
<1>t. /\ nextFrag \in [Chunk -> Seq(Seq(1 .. MaxLen))] /\ nchunks[c[1]] \in Nat /\ c[2] \in Int
  BY ChunkParts, MaxChunksType DEF ControlInv, Types
<1>1. CASE ScanPrefix(c)
  <2>1. HasPrev(c) /\ job[c] # "none"
    BY <1>1 DEF ScanPrefix
  <2>2. Prev(c) \in Chunk /\ Prev(c) # c /\ Prev(c)[1] = c[1] /\ Prev(c)[2] = c[2] - 1
    BY <2>1, ChunkParts
  <2>3. c[2] <= nchunks[c[1]]
    BY <2>1 DEF ControlInv, ChunkInv
  <2>4. PICK f : nextFrag' = [nextFrag EXCEPT ![Prev(c)] = <<f>>]
    BY <1>1 DEF ScanPrefix, Hand
  <2> QED BY <1>1, <1>t, <2>1, <2>2, <2>3, <2>4
<1>2. CASE PassOn(c)
  <2>1. HasPrev(c) /\ nextFrag[c] # << >>
    BY <1>2 DEF PassOn, ControlInv, ChunkInv
  <2>2. Prev(c) \in Chunk /\ Prev(c) # c /\ Prev(c)[1] = c[1] /\ Prev(c)[2] = c[2] - 1
    BY <2>1, ChunkParts
  <2>3. c[2] < nchunks[c[1]] \/ c[2] = nchunks[c[1]]
    BY <2>1 DEF ControlInv, ChunkInv
  <2>4. PICK f : nextFrag' = [nextFrag EXCEPT ![Prev(c)] = <<f>>]
    BY <1>2 DEF PassOn, Hand
  <2> QED BY <1>2, <1>t, <2>1, <2>2, <2>3, <2>4
<1>3. CASE ~(ScanPrefix(c) \/ PassOn(c))
  BY <1>3 DEF RunJob, SplitDoc, Start, ScanNoPrefix, Delivered, IndexBlock, SetEnd, Ended, Passed,
              IndexSplitDoc, Release, Arrive
<1> QED BY <1>1, <1>2, <1>3

(* A pool thread opens the split document of a chunk only when both halves are
   there, and otherwise moves its own one forward. *)
LEMMA FinMoves ==
  ASSUME ControlInv, NEW c \in Chunk, RunJob(c) \/ SplitDoc(c), NEW d \in Chunk
  PROVE  \/ fin'[d] = fin[d]
         \/ fin'[d] = "split" /\ nextFrag'[d] # << >> /\ endOff'[d] # -1
         \/ /\ d = c /\ fin[d] # "open" /\ fin'[d] # "open"
            /\ fin'[d] = "passing" => HasPrev(d)
<1>t. fin \in [Chunk -> FinStates] /\ endOff \in [Chunk -> -2 .. ChunkLen]
  BY DEF ControlInv, Types
<1>1. CASE ScanPrefix(c) \/ PassOn(c)
  <2>1. nextFrag'[Prev(c)] # << >> /\ Prev(c) \in Chunk /\ Prev(c) # c /\ HasPrev(c)
    <3>1. HasPrev(c)
      BY <1>1 DEF ScanPrefix, PassOn, ControlInv, ChunkInv
    <3>2. Prev(c) \in Chunk /\ Prev(c) # c
      BY <3>1, ChunkParts
    <3>3. \E f : nextFrag' = [nextFrag EXCEPT ![Prev(c)] = <<f>>]
      BY <1>1 DEF ScanPrefix, PassOn, Hand
    <3> QED BY <3>1, <3>2, <3>3 DEF ControlInv, Types
  <2>2. endOff' = endOff
    BY <1>1 DEF ScanPrefix, PassOn
  <2>3. CASE d = Prev(c)
    BY <1>1, <1>t, <2>1, <2>2, <2>3 DEF ScanPrefix, PassOn, Triggers
  <2>4. CASE d # Prev(c)
    BY <1>1, <1>t, <2>1, <2>4 DEF ScanPrefix, PassOn
  <2> QED BY <2>3, <2>4
<1>2. CASE SetEnd(c)
  <2>1. EndOffset(c) # -1
    BY EndOffsetType DEF ControlInv, Types, RequestOK
  <2> QED BY <1>2, <1>t, <2>1 DEF SetEnd
<1>3. CASE Passed(c) \/ IndexSplitDoc(c) \/ Release(c) \/ Arrive(c)
  BY <1>3, <1>t DEF Passed, IndexSplitDoc, Release, Arrive
<1>4. CASE Start(c) \/ ScanNoPrefix(c) \/ Delivered(c) \/ IndexBlock(c) \/ Ended(c)
  BY <1>4 DEF Start, ScanNoPrefix, Delivered, IndexBlock, Ended
<1> QED BY <1>1, <1>2, <1>3, <1>4 DEF RunJob, SplitDoc

(* The end offset is set once, by the end of the job. *)
LEMMA EndMoves ==
  ASSUME ControlInv, NEW c \in Chunk, RunJob(c) \/ SplitDoc(c), NEW d \in Chunk
  PROVE  /\ \/ endOff'[d] = endOff[d]
            \/ d = c /\ endOff'[d] = EndOffset(d) /\ job'[d] \in {"ending", "done"}
         /\ job[d] \in {"ending", "done", "died"} => job'[d] \in {"ending", "done", "died"}
<1>t. job \in [Chunk -> JobStates] /\ endOff \in [Chunk -> -2 .. ChunkLen]
  BY DEF ControlInv, Types
<1>1. CASE SetEnd(c)
  BY <1>1, <1>t DEF SetEnd
<1>2. CASE ~SetEnd(c)
  <2>1. endOff' = endOff
    BY <1>2 DEF RunJob, SplitDoc, Start, ScanPrefix, ScanNoPrefix, Delivered, IndexBlock, Ended,
                PassOn, Passed, IndexSplitDoc, Release, Arrive
  <2>2. CASE Start(c)
    <3>1. queue \in Seq(Chunk) /\ queue # << >> /\ Head(queue) = c
      BY <2>2 DEF Start, ControlInv, Types
    <3>2. c = queue[1] /\ 1 \in 1 .. Len(queue)
      BY <3>1
    <3>3. job[c] = "queued"
      BY <3>2 DEF ControlInv, QueueInv
    <3> QED BY <1>t, <2>1, <2>2, <3>3 DEF Start
  <2>3. CASE ScanPrefix(c) \/ ScanNoPrefix(c) \/ Delivered(c) \/ IndexBlock(c) \/ Ended(c)
    BY <1>t, <2>1, <2>3 DEF ScanPrefix, ScanNoPrefix, Delivered, IndexBlock, Ended
  <2>4. CASE SplitDoc(c)
    BY <2>1, <2>4 DEF SplitDoc, PassOn, Passed, IndexSplitDoc, Release, Arrive
  <2> QED BY <1>2, <2>2, <2>3, <2>4 DEF RunJob
<1> QED BY <1>1, <1>2

(* The facts about the chunks survive a step of a pool thread. *)
LEMMA JobKeepsChunks ==
  ASSUME ControlInv, NEW c \in Chunk, RunJob(c) \/ SplitDoc(c)
  PROVE  ChunkInv'
<1> SUFFICES ASSUME NEW d \in Chunk PROVE ChunkOK(d)'
  BY DEF ChunkInv, ChunkOK
<1>i. ChunkOK(d) /\ ChunkOK(c)
  BY DEF ControlInv, ChunkInv, ChunkOK
<1>h. hpc' = hpc /\ nchunks' = nchunks /\ request' = request
  BY JobMoves DEF handVars
<1>n. NoNewline(d)' = NoNewline(d) /\ HasPrev(d)' = HasPrev(d)
  BY <1>h, SameText DEF HasPrev
<1>j. job'[d] # job[d] => d = c /\ job[d] # "none"
  BY JobMoves
<1>e. /\ \/ endOff'[d] = endOff[d]
         \/ d = c /\ endOff'[d] = EndOffset(d) /\ job'[d] \in {"ending", "done"}
      /\ job[d] \in {"ending", "done", "died"} => job'[d] \in {"ending", "done", "died"}
  BY EndMoves
<1>o. EndOffset(d) # -1 /\ (EndOffset(d) = -2 => HasPrev(d) /\ NoNewline(d))
  BY EndOffsetType DEF ControlInv, Types, RequestOK, NoNewline
<1>g. \/ nextFrag'[d] = nextFrag[d]
      \/ d[2] < nchunks[d[1]] /\ nextFrag'[d] # << >>
  <2>1. CASE UNCHANGED nextFrag
    BY <2>1
  <2>2. CASE ~UNCHANGED nextFrag
    BY <2>2, HandOver
  <2> QED BY <2>1, <2>2
<1>f. \/ fin'[d] = fin[d]
      \/ fin'[d] = "split" /\ nextFrag'[d] # << >> /\ endOff'[d] # -1
      \/ fin[d] # "open" /\ fin'[d] # "open" /\ (fin'[d] = "passing" => HasPrev(d))
  BY FinMoves
<1>1. job'[d] # "none" => d[2] <= nchunks'[d[1]]
  BY <1>h, <1>i, <1>j DEF ChunkOK
<1>2. /\ endOff'[d] # -1 => job'[d] \in {"ending", "done", "died"}
      /\ endOff'[d] = -2 => HasPrev(d) /\ NoNewline(d)
  BY <1>e, <1>i, <1>o DEF ChunkOK
<1>3. nextFrag'[d] # << >> =>
        \/ d[2] < nchunks'[d[1]]
        \/ d[2] = nchunks'[d[1]] /\ hpc'[d[1]] \in Closed3
  BY <1>g, <1>h, <1>i DEF ChunkOK
<1>4. /\ fin'[d] # "open" => nextFrag'[d] # << >> /\ endOff'[d] # -1
      /\ fin'[d] = "passing" => HasPrev(d)
  BY <1>e, <1>f, <1>g, <1>i, <1>o DEF ChunkOK
<1> QED BY <1>n, <1>1, <1>2, <1>3, <1>4 DEF ChunkOK

(* The queue holds each queued chunk once. *)
LEMMA QueueStep == ControlInv /\ [Next]_vars => QueueInv'
<1> SUFFICES ASSUME ControlInv, [Next]_vars PROVE QueueInv'
  OBVIOUS
<1>q. /\ \A i \in 1 .. Len(queue) : job[queue[i]] = "queued"
      /\ \A i, j \in 1 .. Len(queue) : queue[i] = queue[j] => i = j
  BY DEF ControlInv, QueueInv
<1>t. /\ job \in [Chunk -> JobStates] /\ queue \in Seq(Chunk) /\ Len(queue) \in Nat
      /\ \A i \in 1 .. Len(queue) : queue[i] \in Chunk
  BY DEF ControlInv, Types
<1>0. ASSUME queue' = queue, \A d \in Chunk : job[d] = "queued" => job'[d] = "queued"
      PROVE  QueueInv'
  BY <1>0, <1>q, <1>t DEF QueueInv
<1>1. ASSUME NEW s \in Streams, Submit(s) PROVE QueueInv'
  <2> DEFINE c == <<s, nchunks[s]>>
  <2>1. c \in Chunk /\ job[c] = "none"
    BY <1>1, LastChunk DEF Submit, ControlInv, HandlerInv
  <2>2. queue' = Append(queue, c) /\ job' = [job EXCEPT ![c] = "queued"]
    BY <1>1 DEF Submit
  <2> HIDE DEF c
  <2>3. /\ Len(queue') = Len(queue) + 1
        /\ \A i \in 1 .. Len(queue) : queue'[i] = queue[i] /\ queue[i] # c
        /\ queue'[Len(queue) + 1] = c
    BY <1>q, <1>t, <2>1, <2>2
  <2>4. \A i \in 1 .. Len(queue') : i \in 1 .. Len(queue) \/ i = Len(queue) + 1
    BY <1>t, <2>3
  <2>5. \A i \in 1 .. Len(queue') : job'[queue'[i]] = "queued"
    BY <1>q, <1>t, <2>1, <2>2, <2>3, <2>4
  <2>6. \A i, j \in 1 .. Len(queue') : queue'[i] = queue'[j] => i = j
    BY <1>q, <2>3, <2>4
  <2> QED BY <2>5, <2>6 DEF QueueInv
<1>2. ASSUME NEW c \in Chunk, Start(c) PROVE QueueInv'
  <2>1. queue # << >> /\ Head(queue) = c /\ queue' = Tail(queue) /\ job' = [job EXCEPT ![c] = "scan"]
    BY <1>2 DEF Start
  <2>2. /\ Len(queue') = Len(queue) - 1 /\ queue[1] = c /\ 1 \in 1 .. Len(queue)
        /\ \A i \in 1 .. Len(queue') : queue'[i] = queue[i + 1] /\ i + 1 \in 1 .. Len(queue)
    BY <1>t, <2>1
  <2>3. \A i \in 1 .. Len(queue') : queue'[i] # c
    <3> SUFFICES ASSUME NEW i \in 1 .. Len(queue'), queue[i + 1] = queue[1] PROVE FALSE
      BY <2>2
    <3>1. i + 1 = 1
      BY <1>q, <2>2
    <3> QED BY <1>t, <2>2, <3>1
  <2>4. \A i \in 1 .. Len(queue') : job'[queue'[i]] = "queued"
    BY <1>q, <1>t, <2>1, <2>2, <2>3
  <2>5. \A i, j \in 1 .. Len(queue') : queue'[i] = queue'[j] => i = j
    <3> SUFFICES ASSUME NEW i \in 1 .. Len(queue'), NEW j \in 1 .. Len(queue'),
                        queue[i + 1] = queue[j + 1]
                 PROVE  i = j
      BY <2>2
    <3>1. i + 1 = j + 1
      BY <1>q, <2>2
    <3> QED BY <3>1, <1>t, <2>2
  <2> QED BY <2>4, <2>5 DEF QueueInv
<1>3. ASSUME NEW s \in Streams, Handler(s), ~Submit(s) PROVE QueueInv'
  <2>1. queue' = queue /\ job' = job
    BY <1>3 DEF Handler, ReadChunk, StopOnError, AcquireLocal, CloseLast, Closed, Answer
  <2> QED BY <1>0, <2>1
<1>4. ASSUME NEW c \in Chunk, RunJob(c) \/ SplitDoc(c), ~Start(c) PROVE QueueInv'
  <2>1. queue' = queue
    BY <1>4 DEF RunJob, SplitDoc, ScanPrefix, ScanNoPrefix, Delivered, IndexBlock, SetEnd, Ended,
                PassOn, Passed, IndexSplitDoc, Release, Arrive
  <2>2. job' = job \/ (job[c] # "queued" /\ \E x : job' = [job EXCEPT ![c] = x])
    BY <1>4 DEF RunJob, SplitDoc, ScanPrefix, ScanNoPrefix, Delivered, IndexBlock, SetEnd, Ended,
                PassOn, Passed, IndexSplitDoc, Release, Arrive
  <2> QED BY <1>0, <1>t, <2>1, <2>2
<1>5. CASE Idle \/ UNCHANGED vars
  BY <1>0, <1>5 DEF Idle, vars
<1> QED BY <1>1, <1>2, <1>3, <1>4, <1>5 DEF Next

(* The control invariant holds at the start ... *)
LEMMA ControlInit == Init => ControlInv
<1> SUFFICES ASSUME Init PROVE ControlInv
  OBVIOUS
<1>1. ChunkLen \in Nat /\ Permits \in Nat /\ LocalPermits \in Nat
  BY BulkAssumption
<1>2. Types
  BY <1>1 DEF Init, Types, HandlerStates, JobStates, FinStates
<1>3. HandlerInv
  <2> SUFFICES ASSUME NEW s \in Streams
               PROVE  /\ nchunks[s] = 0 /\ hpc[s] = "read" /\ ~error[s]
                      /\ NumChunks(s) \in Nat /\ 0 < NumChunks(s)
    BY DEF HandlerInv
  <2>1. NumChunks(s) \in 1 .. MaxChunks
    BY <1>2, TextFacts DEF Types, RequestOK
  <2> QED BY <2>1, MaxChunksType DEF Init
<1>4. ChunkInv
  BY DEF Init, ChunkInv
<1>5. QueueInv
  BY DEF Init, QueueInv
<1> QED BY <1>2, <1>3, <1>4, <1>5 DEF ControlInv

(* ... and every step keeps it. *)
LEMMA ControlStep == ControlInv /\ [Next]_vars => ControlInv'
<1> SUFFICES ASSUME ControlInv, [Next]_vars PROVE ControlInv'
  OBVIOUS
<1>q. QueueInv'
  BY QueueStep
<1>1. ASSUME NEW s \in Streams, Handler(s) PROVE Types' /\ HandlerInv' /\ ChunkInv'
  BY <1>1, HandlerTypes, HandlerKeepsHandler, HandlerKeepsChunks
<1>2. ASSUME NEW c \in Chunk, RunJob(c) \/ SplitDoc(c) PROVE Types' /\ HandlerInv' /\ ChunkInv'
  BY <1>2, JobTypes, SplitTypes, JobKeepsHandler, JobKeepsChunks
<1>3. CASE Idle \/ UNCHANGED vars
  <2>1. UNCHANGED vars
    BY <1>3 DEF Idle
  <2>2. Types'
    BY <2>1 DEF ControlInv, Types, vars
  <2>3. HandlerInv' /\ ChunkInv'
    <3>1. request' = request
      BY <2>1 DEF vars
    <3>2. /\ \A s \in Streams : NumChunks(s)' = NumChunks(s)
          /\ \A c \in Chunk : NoNewline(c)' = NoNewline(c)
      BY <3>1, SameText
    <3>3. HandlerInv'
      BY <2>1, <3>2 DEF ControlInv, HandlerInv, vars
    <3>4. ChunkInv'
      BY <2>1, <3>2 DEF ControlInv, ChunkInv, vars, HasPrev
    <3> QED BY <3>3, <3>4
  <2> QED BY <1>q, <2>2, <2>3 DEF ControlInv
<1> QED BY <1>q, <1>1, <1>2, <1>3 DEF Next, ControlInv

(* The control invariant holds always. *)
LEMMA ControlCorrect == Spec => []ControlInv
<1> QED BY ControlInit, ControlStep, PTL DEF Spec

-----------------------------------------------------------------------------
(* Every fragment is handed over once. *)

\* A chunk whose predecessor has its fragment has given it, from its scan when it
\* holds a newline and from its own split document when it does not.
Given(c) ==
  HasPrev(c) /\ c[2] <= nchunks[c[1]] /\ nextFrag[Prev(c)] # << >> =>
    IF NoNewline(c) THEN fin[c] \notin {"open", "split"}
                    ELSE job[c] \notin {"none", "queued", "scan"}

GivenInv == \A c \in Chunk : Given(c)

(* Nobody hands a fragment to a chunk that has one. *)
LEMMA HandedOnce ==
  ASSUME ControlInv, GivenInv, [Next]_vars, NEW d \in Chunk, nextFrag[d] # << >>
  PROVE  nextFrag'[d] = nextFrag[d]
<1>t. nextFrag \in [Chunk -> Seq(Seq(1 .. MaxLen))]
  BY DEF ControlInv, Types
<1>1. ASSUME NEW s \in Streams, Handler(s) PROVE nextFrag'[d] = nextFrag[d]
  <2>1. CASE CloseLast(s)
    <3>1. d # <<s, nchunks[s]>>
      <4> SUFFICES ASSUME d = <<s, nchunks[s]>> PROVE FALSE
        OBVIOUS
      <4>1. d[1] = s /\ d[2] = nchunks[s] /\ nchunks[s] \in Nat
        BY DEF ControlInv, Types
      <4>2. hpc[s] \in Closed3
        BY <4>1 DEF ControlInv, ChunkInv
      <4> QED BY <2>1, <4>2 DEF CloseLast, Closed3
    <3> QED BY <1>t, <2>1, <3>1 DEF CloseLast, Hand
  <2>2. CASE ~CloseLast(s)
    BY <1>1, <2>2 DEF Handler, ReadChunk, StopOnError, AcquireLocal, Submit, Closed, Answer
  <2> QED BY <2>1, <2>2
<1>2. ASSUME NEW c \in Chunk, RunJob(c) \/ SplitDoc(c) PROVE nextFrag'[d] = nextFrag[d]
  <2> SUFFICES ASSUME ~UNCHANGED nextFrag, d = Prev(c) PROVE FALSE
    BY <1>2, HandOver
  <2>1. HasPrev(c) /\ Prev(c) \in Chunk /\ (ScanPrefix(c) \/ PassOn(c))
    BY <1>2, HandOver
  <2>2. /\ job[c] # "none" => c[2] <= nchunks[c[1]]
        /\ nextFrag[c] # << >> => c[2] < nchunks[c[1]] \/ c[2] = nchunks[c[1]]
        /\ fin[c] # "open" => nextFrag[c] # << >> /\ endOff[c] # -1
        /\ endOff[c] # -1 => job[c] \in {"ending", "done", "died"}
        /\ endOff[c] = -2 => NoNewline(c)
    BY DEF ControlInv, ChunkInv
  <2>3. c[2] <= nchunks[c[1]]
    BY <2>1, <2>2 DEF ScanPrefix, PassOn
  <2>4. IF NoNewline(c) THEN fin[c] \notin {"open", "split"}
                        ELSE job[c] \notin {"none", "queued", "scan"}
    BY <2>1, <2>3 DEF GivenInv, Given
  <2>5. CASE ScanPrefix(c)
    BY <2>2, <2>4, <2>5 DEF ScanPrefix, NoNewline
  <2>6. CASE PassOn(c)
    BY <2>2, <2>4, <2>6 DEF PassOn
  <2> QED BY <2>1, <2>5, <2>6
<1>3. CASE Idle \/ UNCHANGED vars
  BY <1>3 DEF Idle, vars
<1> QED BY <1>1, <1>2, <1>3 DEF Next

(* The split document of a chunk goes through its states in order. *)
LEMMA FinForward ==
  ASSUME ControlInv, GivenInv, NEW c \in Chunk, RunJob(c) \/ SplitDoc(c), NEW d \in Chunk
  PROVE  \/ fin'[d] = fin[d]
         \/ fin[d] = "open" /\ fin'[d] = "split"
         \/ d = c /\ fin[d] = "split" /\ fin'[d] \in {"passing", "release"}
         \/ d = c /\ fin[d] = "passing" /\ fin'[d] = "release"
         \/ d = c /\ fin[d] = "release" /\ fin'[d] = "arrive" /\ Release(c)
         \/ d = c /\ fin[d] = "arrive" /\ fin'[d] = "done" /\ Arrive(c)
<1>t. fin \in [Chunk -> FinStates] /\ endOff \in [Chunk -> -2 .. ChunkLen]
  BY DEF ControlInv, Types
<1>o. fin[d] # "open" => nextFrag[d] # << >> /\ endOff[d] # -1
  BY DEF ControlInv, ChunkInv
<1>1. CASE ScanPrefix(c) \/ PassOn(c)
  <2>1. HasPrev(c)
    BY <1>1 DEF ScanPrefix, PassOn, ControlInv, ChunkInv
  <2>2. Prev(c) \in Chunk /\ Prev(c) # c
    BY <2>1, ChunkParts
  <2>3. d = Prev(c) => nextFrag[d] = << >>
    <3> SUFFICES ASSUME d = Prev(c), nextFrag[d] # << >> PROVE FALSE
      OBVIOUS
    <3>1. /\ job[c] # "none" => c[2] <= nchunks[c[1]]
          /\ nextFrag[c] # << >> => c[2] < nchunks[c[1]] \/ c[2] = nchunks[c[1]]
          /\ fin[c] # "open" => nextFrag[c] # << >> /\ endOff[c] # -1
          /\ endOff[c] # -1 => job[c] \in {"ending", "done", "died"}
          /\ endOff[c] = -2 => NoNewline(c)
      BY DEF ControlInv, ChunkInv
    <3>2. c[2] <= nchunks[c[1]]
      BY <1>1, <3>1 DEF ScanPrefix, PassOn
    <3>3. IF NoNewline(c) THEN fin[c] \notin {"open", "split"}
                          ELSE job[c] \notin {"none", "queued", "scan"}
      BY <2>1, <3>2 DEF GivenInv, Given
    <3>4. CASE ScanPrefix(c)
      BY <3>1, <3>3, <3>4 DEF ScanPrefix, NoNewline
    <3>5. CASE PassOn(c)
      BY <3>1, <3>3, <3>5 DEF PassOn
    <3> QED BY <1>1, <3>4, <3>5
  <2>4. CASE d = Prev(c)
    BY <1>1, <1>t, <1>o, <2>2, <2>3, <2>4 DEF ScanPrefix, PassOn
  <2>5. CASE d # Prev(c)
    BY <1>1, <1>t, <2>2, <2>5 DEF ScanPrefix, PassOn
  <2> QED BY <2>4, <2>5
<1>2. CASE SetEnd(c)
  <2>1. fin[c] = "open"
    BY <1>2 DEF SetEnd, ControlInv, ChunkInv
  <2> QED BY <1>2, <1>t, <2>1 DEF SetEnd
<1>3. CASE Passed(c) \/ IndexSplitDoc(c) \/ Release(c) \/ Arrive(c)
  BY <1>3, <1>t DEF Passed, IndexSplitDoc, Release, Arrive
<1>4. CASE Start(c) \/ ScanNoPrefix(c) \/ Delivered(c) \/ IndexBlock(c) \/ Ended(c)
  BY <1>4 DEF Start, ScanNoPrefix, Delivered, IndexBlock, Ended
<1> QED BY <1>1, <1>2, <1>3, <1>4 DEF RunJob, SplitDoc

(* GivenInv survives a step of a handler. *)
LEMMA HandlerKeepsGiven ==
  ASSUME ControlInv, GivenInv, NEW h \in Streams, Handler(h)
  PROVE  GivenInv'
<1> SUFFICES ASSUME NEW c \in Chunk, HasPrev(c), c[2] <= nchunks'[c[1]],
                    nextFrag'[Prev(c)] # << >>
             PROVE  IF NoNewline(c) THEN fin'[c] \notin {"open", "split"}
                                    ELSE job'[c] \notin {"none", "queued", "scan"}
  <2>1. \A c \in Chunk : NoNewline(c)' = NoNewline(c)
    BY RequestStays, SameText DEF Next
  <2> QED BY <2>1 DEF GivenInv, Given, HasPrev, Prev
<1>p. /\ c[1] \in Streams /\ c[2] \in 1 .. MaxChunks /\ c = <<c[1], c[2]>> /\ Prev(c) \in Chunk
      /\ Prev(c)[1] = c[1] /\ Prev(c)[2] = c[2] - 1 /\ MaxChunks \in Nat
  BY ChunkParts, MaxChunksType
<1>v. /\ nchunks \in [Streams -> Nat] /\ job \in [Chunk -> JobStates]
      /\ nextFrag \in [Chunk -> Seq(Seq(1 .. MaxLen))] /\ fin \in [Chunk -> FinStates]
  BY DEF ControlInv, Types
<1>n. nchunks[c[1]] \in Nat /\ c[2] \in Nat
  BY <1>p, <1>v
<1>i. c[2] <= nchunks[c[1]] /\ nextFrag[Prev(c)] # << >> =>
        IF NoNewline(c) THEN fin[c] \notin {"open", "split"}
                        ELSE job[c] \notin {"none", "queued", "scan"}
  BY DEF GivenInv, Given
<1>1. CASE ReadChunk(h)
  <2>1. UNCHANGED <<job, nextFrag, fin>>
    BY <1>1 DEF ReadChunk
  <2>2. c[2] <= nchunks[c[1]]
    <3> SUFFICES ASSUME ~(c[2] <= nchunks[c[1]]) PROVE FALSE
      OBVIOUS
    <3>1. nchunks' = [nchunks EXCEPT ![h] = @ + 1] /\ hpc[h] = "read"
      BY <1>1 DEF ReadChunk
    <3>2. c[1] = h /\ Prev(c)[2] = nchunks[h]
      BY <1>n, <1>p, <1>v, <3>1
    <3>3. hpc[h] \in Closed3
      BY <1>n, <1>p, <2>1, <3>2 DEF ControlInv, ChunkInv
    <3> QED BY <3>1, <3>3 DEF Closed3
  <2> QED BY <1>i, <2>1, <2>2
<1>2. CASE Submit(h)
  <2> DEFINE l == <<h, nchunks[h]>>
  <2>1. l \in Chunk /\ job[l] = "none"
    BY <1>2, LastChunk DEF Submit, ControlInv, HandlerInv
  <2>2. UNCHANGED <<nchunks, nextFrag, fin>> /\ (c # l => job'[c] = job[c])
    BY <1>2, <1>v, <2>1 DEF Submit
  <2> HIDE DEF l
  <2> QED BY <1>i, <2>1, <2>2
<1>3. CASE CloseLast(h)
  <2> DEFINE l == <<h, nchunks[h]>>
  <2>1. l \in Chunk /\ UNCHANGED <<nchunks, job>>
    BY <1>3, LastChunk DEF CloseLast, ControlInv, HandlerInv
  <2>2. Prev(c) # l
    BY <1>n, <1>p, <2>1
  <2>3. nextFrag[Prev(c)] # << >>
    BY <1>3, <1>p, <1>v, <2>1, <2>2 DEF CloseLast, Hand
  <2>4. c = l => fin[c] = "open"
    <3> SUFFICES ASSUME c = l, fin[c] # "open" PROVE FALSE
      OBVIOUS
    <3>1. c[1] = h /\ c[2] = nchunks[h]
      BY <1>p
    <3>2. hpc[h] \in Closed3
      BY <1>n, <3>1 DEF ControlInv, ChunkInv
    <3> QED BY <1>3, <3>2 DEF CloseLast, Closed3
  <2>5. c # l => fin'[c] = fin[c]
    BY <1>3, <1>v, <2>1 DEF CloseLast
  <2> HIDE DEF l
  <2> QED BY <1>i, <2>1, <2>3, <2>4, <2>5
<1>4. CASE StopOnError(h) \/ AcquireLocal(h) \/ Closed(h) \/ Answer(h)
  <2>1. UNCHANGED <<nchunks, job, nextFrag, fin>>
    BY <1>4 DEF StopOnError, AcquireLocal, Closed, Answer
  <2> QED BY <1>i, <2>1
<1> QED BY <1>1, <1>2, <1>3, <1>4 DEF Handler

(* GivenInv survives a step of a pool thread. *)
LEMMA JobKeepsGiven ==
  ASSUME ControlInv, GivenInv, NEW x \in Chunk, RunJob(x) \/ SplitDoc(x)
  PROVE  GivenInv'
<1>h. hpc' = hpc /\ nchunks' = nchunks /\ request' = request
  BY JobMoves DEF handVars
<1> SUFFICES ASSUME NEW c \in Chunk, HasPrev(c), c[2] <= nchunks[c[1]],
                    nextFrag'[Prev(c)] # << >>
             PROVE  IF NoNewline(c) THEN fin'[c] \notin {"open", "split"}
                                    ELSE job'[c] \notin {"none", "queued", "scan"}
  <2>1. \A c \in Chunk : NoNewline(c)' = NoNewline(c)
    BY <1>h, SameText
  <2> QED BY <1>h, <2>1 DEF GivenInv, Given, HasPrev, Prev
<1>p. /\ c = <<c[1], c[2]>> /\ Prev(c) \in Chunk /\ Prev(c)[1] = c[1] /\ Prev(c)[2] = c[2] - 1
      /\ x = <<x[1], x[2]>> /\ Prev(x)[1] = x[1] /\ Prev(x)[2] = x[2] - 1
      /\ c[2] \in Int /\ x[2] \in Int
  BY ChunkParts, MaxChunksType
<1>1. CASE nextFrag[Prev(c)] # << >>
  <2>1. IF NoNewline(c) THEN fin[c] \notin {"open", "split"}
                        ELSE job[c] \notin {"none", "queued", "scan"}
    BY <1>1 DEF GivenInv, Given
  <2>2. CASE NoNewline(c)
    BY <2>1, <2>2, FinForward
  <2>3. CASE ~NoNewline(c)
    BY <2>1, <2>3, JobMoves
  <2> QED BY <2>2, <2>3
<1>2. CASE nextFrag[Prev(c)] = << >>
  <2>1. ~UNCHANGED nextFrag
    BY <1>2
  <2>2. Prev(c) = Prev(x) /\ (ScanPrefix(x) \/ PassOn(x))
    BY <1>p, <1>2, <2>1, HandOver
  <2>3. c = x
    BY <1>p, <2>2
  <2>4. job \in [Chunk -> JobStates] /\ fin \in [Chunk -> FinStates] /\ Prev(x) # x
    BY <2>3, ChunkParts DEF ControlInv, Types
  <2>5. CASE ScanPrefix(x)
    BY <2>3, <2>4, <2>5 DEF ScanPrefix, NoNewline
  <2>6. CASE PassOn(x)
    <3>1. NoNewline(c)
      BY <2>3, <2>6 DEF PassOn, ControlInv, ChunkInv
    <3>2. fin'[c] \in {"passing", "release"}
      BY <1>p, <2>3, <2>4, <2>6 DEF PassOn
    <3> QED BY <3>1, <3>2
  <2> QED BY <2>2, <2>5, <2>6
<1> QED BY <1>1, <1>2

(* GivenInv holds always. *)
LEMMA GivenCorrect == Spec => []GivenInv
<1>1. Init => GivenInv
  <2> SUFFICES ASSUME Init, NEW c \in Chunk, HasPrev(c), nextFrag[Prev(c)] # << >> PROVE FALSE
    BY DEF GivenInv, Given
  <2>1. Prev(c) \in Chunk
    BY ChunkParts
  <2> QED BY <2>1 DEF Init
<1>2. ControlInv /\ GivenInv /\ [Next]_vars => GivenInv'
  <2> SUFFICES ASSUME ControlInv, GivenInv, [Next]_vars PROVE GivenInv'
    OBVIOUS
  <2>1. CASE Idle \/ UNCHANGED vars
    <3>1. UNCHANGED vars
      BY <2>1 DEF Idle
    <3>2. \A c \in Chunk : NoNewline(c)' = NoNewline(c)
      BY <3>1, SameText DEF vars
    <3> QED BY <3>1, <3>2 DEF GivenInv, Given, vars, HasPrev, Prev
  <2> QED BY <2>1, HandlerKeepsGiven, JobKeepsGiven DEF Next
<1> QED BY <1>1, <1>2, ControlCorrect, PTL DEF Spec

(* setNextStartFragment runs at most once on a chunk, whoever calls it: the
   next chunk, a later one through the chunks between, or the handler. *)
THEOREM FragmentOnce == Spec => FragmentGivenOnce
<1>1. ControlInv /\ GivenInv /\ [Next]_vars =>
        [\A c \in Chunk : nextFrag[c] # << >> => nextFrag'[c] = nextFrag[c]]_nextFrag
  BY HandedOnce
<1> QED BY <1>1, ControlCorrect, GivenCorrect, PTL DEF Spec, FragmentGivenOnce

-----------------------------------------------------------------------------
(* The Phaser counts the chunks that are still to arrive. *)

(* A handler opens a split document, and changes nothing else of one. *)
LEMMA HandlerFin ==
  ASSUME ControlInv, NEW h \in Streams, Handler(h), NEW d \in Chunk
  PROVE  fin'[d] = fin[d] \/ (fin[d] = "open" /\ fin'[d] = "split")
<1>1. CASE CloseLast(h)
  <2> DEFINE l == <<h, nchunks[h]>>
  <2>1. l \in Chunk
    BY <1>1, LastChunk DEF CloseLast, ControlInv, HandlerInv
  <2>2. fin \in [Chunk -> FinStates]
    BY DEF ControlInv, Types
  <2>3. d = l => fin[d] = "open"
    <3> SUFFICES ASSUME d = l, fin[d] # "open" PROVE FALSE
      OBVIOUS
    <3>1. d[1] = h /\ d[2] = nchunks[h] /\ nchunks[h] \in Nat
      BY DEF ControlInv, Types
    <3>2. hpc[h] \in Closed3
      BY <3>1 DEF ControlInv, ChunkInv
    <3> QED BY <1>1, <3>2 DEF CloseLast, Closed3
  <2> QED BY <1>1, <2>1, <2>2, <2>3 DEF CloseLast
<1>2. CASE ~CloseLast(h)
  BY <1>2 DEF Handler, ReadChunk, StopOnError, AcquireLocal, Submit, Closed, Answer
<1> QED BY <1>1, <1>2

PhaserOK(s) ==
  /\ parties[s] >= Cardinality(Outstanding(s))
  /\ phase[s] = 0 => unarrived[s] = Cardinality(Outstanding(s))
  /\ phase[s] # 0 => Outstanding(s) = {} /\ hpc[s] \in Closed3 /\ unarrived[s] >= 0
  /\ answer[s] \in {"ok", "error"} => phase[s] # 0

PhaserInv == \A s \in Streams : PhaserOK(s)

(* The chunks still to arrive are finitely many. *)
LEMMA OutstandingFinite ==
  ASSUME ControlInv, NEW s \in Streams
  PROVE  IsFiniteSet(Outstanding(s)) /\ Cardinality(Outstanding(s)) \in Nat
<1>1. nchunks[s] \in Nat
  BY DEF ControlInv, Types
<1>2. IsFiniteSet(1 .. nchunks[s])
  BY <1>1, FS_Interval
<1>3. IsFiniteSet(Outstanding(s))
  BY <1>2, FS_Subset DEF Outstanding
<1> QED BY <1>3, FS_CardinalityType

(* A place of a stream is a chunk once the handler made it. *)
LEMMA PlaceIsChunk ==
  ASSUME ControlInv, NEW s \in Streams, NEW k \in 1 .. nchunks[s]
  PROVE  <<s, k>> \in Chunk
<1>1. nchunks[s] \in Nat /\ nchunks[s] <= NumChunks(s)
  BY DEF ControlInv, Types, HandlerInv
<1>2. NumChunks(s) \in 1 .. MaxChunks /\ MaxChunks \in Nat
  BY TextFacts, MaxChunksType DEF ControlInv, Types, RequestOK
<1>3. k \in 1 .. MaxChunks
  BY <1>1, <1>2
<1> QED BY <1>3 DEF Chunk

(* A step that keeps the chunks of s and moves none of them to its end keeps
   the set of those that are still to arrive. *)
LEMMA OutstandingSame ==
  ASSUME ControlInv, NEW s \in Streams, nchunks'[s] = nchunks[s],
         \A k \in 1 .. nchunks[s] : fin'[<<s, k>>] = "done" <=> fin[<<s, k>>] = "done"
  PROVE  Outstanding(s)' = Outstanding(s)
BY DEF Outstanding

(* The Phaser survives a step of a handler. *)
LEMMA HandlerKeepsPhaser ==
  ASSUME ControlInv, PhaserInv, NEW h \in Streams, Handler(h)
  PROVE  PhaserInv'
<1> SUFFICES ASSUME NEW s \in Streams PROVE PhaserOK(s)'
  BY DEF PhaserInv
<1>v. /\ nchunks \in [Streams -> Nat] /\ hpc \in [Streams -> HandlerStates]
      /\ parties \in [Streams -> Int] /\ unarrived \in [Streams -> Int]
      /\ answer \in [Streams -> {"none", "ok", "error", "exception"}]
  BY DEF ControlInv, Types
<1>i. PhaserOK(s)
  BY DEF PhaserInv
<1>f. \A k \in 1 .. nchunks[s] : fin'[<<s, k>>] = "done" <=> fin[<<s, k>>] = "done"
  BY PlaceIsChunk, HandlerFin
<1>1. CASE ReadChunk(h) /\ s = h
  <2>1. /\ nchunks' = [nchunks EXCEPT ![s] = @ + 1] /\ hpc[s] = "read" /\ fin' = fin
        /\ parties' = [parties EXCEPT ![s] = @ + 1] /\ unarrived' = [unarrived EXCEPT ![s] = @ + 1]
        /\ UNCHANGED <<phase, answer>>
    BY <1>1 DEF ReadChunk
  <2> DEFINE n == nchunks[s] + 1
  <2>2. n \in Nat /\ n \notin 1 .. nchunks[s] /\ 1 .. n = (1 .. nchunks[s]) \cup {n}
    BY <1>v
  <2>3. nchunks'[s] = n
    BY <1>v, <2>1
  <2>4. fin[<<s, n>>] # "done"
    <3> SUFFICES ASSUME fin[<<s, n>>] = "done" PROVE FALSE
      OBVIOUS
    <3>0. nchunks[s] < NumChunks(s) /\ NumChunks(s) \in 1 .. MaxChunks /\ MaxChunks \in Nat
      BY <2>1, TextFacts, MaxChunksType DEF ControlInv, HandlerInv, Types, RequestOK
    <3>1. n \in 1 .. MaxChunks
      BY <1>v, <3>0
    <3>2. <<s, n>> \in Chunk
      BY <3>1 DEF Chunk
    <3>3. n < nchunks[s] \/ n = nchunks[s]
      BY <3>2 DEF ControlInv, ChunkInv
    <3> QED BY <1>v, <3>3
  <2>5. Outstanding(s)' = Outstanding(s) \cup {n} /\ n \notin Outstanding(s)
    <3> HIDE DEF n
    <3> QED BY <2>1, <2>2, <2>3, <2>4 DEF Outstanding
  <2>6. Cardinality(Outstanding(s)') = Cardinality(Outstanding(s)) + 1
    BY <2>5, OutstandingFinite, FS_AddElement
  <2>7. phase[s] = 0
    BY <1>i, <2>1 DEF PhaserOK, Closed3
  <2>8. Cardinality(Outstanding(s)) \in Nat
    BY OutstandingFinite
  <2>9. parties'[s] = parties[s] + 1 /\ unarrived'[s] = unarrived[s] + 1
    BY <1>v, <2>1
  <2>10. parties'[s] >= Cardinality(Outstanding(s)')
    BY <1>i, <1>v, <2>6, <2>8, <2>9 DEF PhaserOK
  <2>11. unarrived'[s] = Cardinality(Outstanding(s)')
    BY <1>i, <1>v, <2>6, <2>7, <2>8, <2>9 DEF PhaserOK
  <2> QED BY <1>i, <2>1, <2>7, <2>10, <2>11 DEF PhaserOK
<1>2. CASE ~(ReadChunk(h) /\ s = h)
  <2>1. nchunks'[s] = nchunks[s] /\ parties'[s] = parties[s] /\ unarrived'[s] = unarrived[s]
    <3>1. CASE ReadChunk(h)
      BY <1>2, <1>v, <3>1 DEF ReadChunk
    <3>2. CASE ~ReadChunk(h)
      BY <3>2 DEF Handler, StopOnError, AcquireLocal, Submit, CloseLast, Closed, Answer, phaserVars
    <3> QED BY <3>1, <3>2
  <2>2. phase' = phase
    BY DEF Handler, ReadChunk, StopOnError, AcquireLocal, Submit, CloseLast, Closed, Answer, phaserVars
  <2>3. Outstanding(s)' = Outstanding(s)
    BY <1>f, <2>1, OutstandingSame
  <2>4. hpc[s] \in Closed3 => hpc'[s] \in Closed3
    <3>1. CASE ReadChunk(h) \/ StopOnError(h) \/ AcquireLocal(h) \/ Submit(h)
      BY <1>v, <3>1 DEF ReadChunk, StopOnError, AcquireLocal, Submit, Closed3
    <3>2. CASE CloseLast(h) \/ Closed(h) \/ Answer(h)
      BY <1>v, <3>2 DEF CloseLast, Closed, Answer, Closed3
    <3> QED BY <3>1, <3>2 DEF Handler
  <2>5. answer'[s] \in {"ok", "error"} => phase[s] # 0
    <3>1. CASE Answer(h)
      BY <1>i, <1>v, <3>1 DEF Answer, PhaserOK
    <3>2. CASE Closed(h)
      BY <1>i, <1>v, <3>2 DEF Closed, PhaserOK
    <3>3. CASE ~(Answer(h) \/ Closed(h))
      <4>1. answer' = answer
        BY <3>3 DEF Handler, ReadChunk, StopOnError, AcquireLocal, Submit, CloseLast
      <4> QED BY <1>i, <4>1 DEF PhaserOK
    <3> QED BY <3>1, <3>2, <3>3
  <2> QED BY <1>i, <2>1, <2>2, <2>3, <2>4, <2>5 DEF PhaserOK
<1> QED BY <1>1, <1>2

(* The last chunk to arrive arrives after the handler closed the stream: the
   last chunk made is that one or arrived before, so it has its fragment, and
   only the handler gives the last chunk one. *)
LEMMA LastArrival ==
  ASSUME ControlInv, NEW c \in Chunk, fin[c] = "arrive", Outstanding(c[1]) = {c[2]}
  PROVE  hpc[c[1]] \in Closed3
<1> DEFINE s == c[1]
           l == <<s, nchunks[s]>>
<1>1. c[1] \in Streams /\ c = <<c[1], c[2]>> /\ nchunks[s] \in Nat
  BY ChunkParts DEF ControlInv, Types
<1>2. c[2] \in 1 .. nchunks[s]
  BY DEF Outstanding
<1>3. nchunks[s] \in 1 .. nchunks[s] /\ l \in Chunk
  BY <1>1, <1>2, PlaceIsChunk
<1>4. fin[l] # "open"
  <2>1. CASE nchunks[s] = c[2]
    BY <1>1, <2>1
  <2>2. CASE nchunks[s] # c[2]
    <3>1. nchunks[s] \notin Outstanding(s)
      BY <2>2
    <3> QED BY <1>3, <3>1 DEF Outstanding
  <2> QED BY <2>1, <2>2
<1>5. nextFrag[l] # << >>
  BY <1>3, <1>4 DEF ControlInv, ChunkInv
<1>6. \/ l[2] < nchunks[l[1]]
      \/ l[2] = nchunks[l[1]] /\ hpc[l[1]] \in Closed3
  BY <1>3, <1>5 DEF ControlInv, ChunkInv
<1> QED BY <1>1, <1>6

(* The Phaser survives a step of a pool thread. *)
LEMMA JobKeepsPhaser ==
  ASSUME ControlInv, GivenInv, PhaserInv, NEW c \in Chunk, RunJob(c) \/ SplitDoc(c)
  PROVE  PhaserInv'
<1> SUFFICES ASSUME NEW s \in Streams PROVE PhaserOK(s)'
  BY DEF PhaserInv
<1>p. c[1] \in Streams /\ c = <<c[1], c[2]>> /\ c[2] \in 1 .. MaxChunks /\ MaxChunks \in Nat
  BY ChunkParts, MaxChunksType
<1>h. hpc' = hpc /\ nchunks' = nchunks /\ request' = request /\ answer' = answer
  BY JobMoves DEF handVars
<1>v. /\ nchunks[s] \in Nat /\ parties \in [Streams -> Int] /\ unarrived \in [Streams -> Int]
      /\ phase \in [Streams -> Nat] /\ fin \in [Chunk -> FinStates]
  BY DEF ControlInv, Types
<1>i. PhaserOK(s)
  BY DEF PhaserInv
<1>1. CASE Arrive(c) /\ s = c[1]
  <2> DEFINE registered == IF Format(s) = "csvchars" THEN parties[s] - 1 ELSE parties[s]
  <2>1. fin[c] = "arrive" /\ fin' = [fin EXCEPT ![c] = "done"]
        /\ parties' = [parties EXCEPT ![s] = registered]
    BY <1>1 DEF Arrive
  <2>2. c[2] \in Outstanding(s)
    <3>1. nextFrag[c] # << >>
      BY <2>1 DEF ControlInv, ChunkInv
    <3>2. c[2] < nchunks[s] \/ c[2] = nchunks[s]
      BY <1>1, <3>1 DEF ControlInv, ChunkInv
    <3>3. c[2] \in 1 .. nchunks[s]
      BY <1>p, <1>v, <3>2
    <3>4. fin[<<s, c[2]>>] # "done"
      BY <1>1, <1>p, <2>1
    <3> QED BY <3>3, <3>4 DEF Outstanding
  <2>3. Outstanding(s)' = Outstanding(s) \ {c[2]}
    <3>1. \A k \in 1 .. nchunks[s] :
             fin'[<<s, k>>] = IF k = c[2] THEN "done" ELSE fin[<<s, k>>]
      BY <1>1, <1>p, <1>v, <2>1, PlaceIsChunk
    <3> QED BY <1>h, <3>1 DEF Outstanding
  <2> DEFINE out == Cardinality(Outstanding(s))
  <2>4. /\ out \in Nat /\ Cardinality(Outstanding(s)') = out - 1
        /\ out = 1 => Outstanding(s) = {c[2]}
    <3>1. IsFiniteSet(Outstanding(s)) /\ out \in Nat
      BY OutstandingFinite
    <3>r. Cardinality(Outstanding(s) \ {c[2]}) = Cardinality(Outstanding(s)) - 1
      BY <2>2, <3>1, FS_RemoveElement
    <3>2. Cardinality(Outstanding(s)') = out - 1
      BY <2>3, <3>r
    <3>3. out = 1 => \E x : Outstanding(s) = {x}
      BY <3>1, FS_Singleton
    <3> QED BY <2>2, <3>1, <3>2, <3>3
  <2>5. out # 0
    BY <2>2, OutstandingFinite, FS_EmptySet
  <2>6. phase[s] = 0 /\ unarrived[s] = out /\ parties[s] >= out
    BY <1>i, <2>2 DEF PhaserOK
  <2> HIDE DEF out
  <2>7. parties'[s] = registered /\ registered \in Int /\ registered >= out - 1
    BY <1>v, <2>1, <2>4, <2>6
  <2> HIDE DEF registered
  <2>8. CASE out = 1
    <3>1. phase' = [phase EXCEPT ![s] = @ + 1] /\ unarrived' = [unarrived EXCEPT ![s] = registered]
      BY <1>1, <2>6, <2>8 DEF Arrive, registered
    <3>2. phase'[s] = 1 /\ unarrived'[s] = registered
      BY <1>v, <2>6, <3>1
    <3>3. Outstanding(s)' = {} /\ hpc'[s] \in Closed3
      BY <1>1, <1>h, <2>1, <2>3, <2>4, <2>8, LastArrival
    <3>4. Cardinality(Outstanding(s)') = 0 /\ registered >= 0
      BY <2>4, <2>7, <2>8
    <3> QED BY <2>7, <3>2, <3>3, <3>4 DEF PhaserOK
  <2>9. CASE out # 1
    <3>1. phase' = phase /\ unarrived' = [unarrived EXCEPT ![s] = @ - 1]
      BY <1>1, <2>6, <2>9 DEF Arrive
    <3>2. unarrived'[s] = out - 1 /\ phase'[s] = 0
      BY <1>v, <2>6, <3>1
    <3> QED BY <1>h, <1>i, <2>4, <2>6, <2>7, <3>2 DEF PhaserOK
  <2> QED BY <2>8, <2>9
<1>2. CASE ~(Arrive(c) /\ s = c[1])
  <2>1. parties'[s] = parties[s] /\ unarrived'[s] = unarrived[s] /\ phase'[s] = phase[s]
    <3>1. CASE Arrive(c)
      <4>1. s # c[1]
        BY <1>2, <3>1
      <4>2. parties'[s] = parties[s] /\ unarrived'[s] = unarrived[s]
        BY <1>v, <3>1, <4>1 DEF Arrive
      <4>3. phase'[s] = phase[s]
        BY <1>v, <3>1, <4>1 DEF Arrive
      <4> QED BY <4>2, <4>3
    <3>2. CASE ~Arrive(c)
      BY <3>2 DEF RunJob, SplitDoc, Start, ScanPrefix, ScanNoPrefix, Delivered, IndexBlock, SetEnd,
                  Ended, PassOn, Passed, IndexSplitDoc, Release, phaserVars
    <3> QED BY <3>1, <3>2
  <2>2. \A k \in 1 .. nchunks[s] : fin'[<<s, k>>] = "done" <=> fin[<<s, k>>] = "done"
    <3> SUFFICES ASSUME NEW k \in 1 .. nchunks[s]
                 PROVE  fin'[<<s, k>>] = "done" <=> fin[<<s, k>>] = "done"
      OBVIOUS
    <3>1. <<s, k>> \in Chunk
      BY PlaceIsChunk
    <3>2. ~(Arrive(c) /\ <<s, k>> = c)
      BY <1>2
    <3> QED BY <3>1, <3>2, FinForward
  <2>3. Outstanding(s)' = Outstanding(s)
    BY <1>h, <2>2, OutstandingSame
  <2> QED BY <1>h, <1>i, <2>1, <2>3 DEF PhaserOK
<1> QED BY <1>1, <1>2

(* The Phaser facts hold always. *)
LEMMA PhaserCorrect == Spec => []PhaserInv
<1>1. Init => PhaserInv
  <2> SUFFICES ASSUME Init, NEW s \in Streams PROVE PhaserOK(s)
    BY DEF PhaserInv
  <2>1. Outstanding(s) = {}
    BY DEF Init, Outstanding
  <2>2. Cardinality(Outstanding(s)) = 0
    BY <2>1, FS_EmptySet
  <2> QED BY <2>1, <2>2 DEF Init, PhaserOK
<1>2. ControlInv /\ GivenInv /\ PhaserInv /\ [Next]_vars => PhaserInv'
  <2> SUFFICES ASSUME ControlInv, GivenInv, PhaserInv, [Next]_vars PROVE PhaserInv'
    OBVIOUS
  <2>1. CASE Idle \/ UNCHANGED vars
    BY <2>1 DEF Idle, vars, PhaserInv, PhaserOK, Outstanding
  <2> QED BY <2>1, HandlerKeepsPhaser, JobKeepsPhaser DEF Next
<1> QED BY <1>1, <1>2, ControlCorrect, GivenCorrect, PTL DEF Spec

(* A response, of success or of an error, is given only when every chunk of the
   request has arrived: for any number of streams, threads and permits. *)
THEOREM AnswersWait == Spec => []AnswerAfterAllChunks
<1>1. PhaserInv => AnswerAfterAllChunks
  BY DEF PhaserInv, PhaserOK, AnswerAfterAllChunks
<1> QED BY <1>1, PhaserCorrect, PTL

-----------------------------------------------------------------------------
(* Permits of the pool: each is free or held by a chunk that was submitted and
   did not release it yet. *)

Released == {"arrive", "done"}
Holding  == {c \in Chunk : job[c] # "none" /\ fin[c] \notin Released}

PermitInv == permits >= 0 /\ permits + Cardinality(Holding) = Permits

(* There are finitely many chunks. *)
LEMMA ChunksFinite == IsFiniteSet(Chunk)
<1>1. IsFiniteSet(Streams) /\ 1 \in Int /\ MaxChunks \in Int
  BY BulkAssumption, MaxChunksType
<1>2. IsFiniteSet(1 .. MaxChunks)
  BY <1>1, FS_Interval
<1>3. IsFiniteSet(Streams \X (1 .. MaxChunks))
  BY <1>1, <1>2, FS_Product
<1> QED BY <1>3 DEF Chunk

(* A chunk holds at most one permit, so finitely many are held. *)
LEMMA HoldingFinite == IsFiniteSet(Holding) /\ Cardinality(Holding) \in Nat
<1>1. Holding \in SUBSET Chunk
  BY DEF Holding
<1>2. IsFiniteSet(Holding)
  BY <1>1, ChunksFinite, FS_Subset
<1> QED BY <1>2, FS_CardinalityType

(* A step that submits nothing and releases nothing leaves the permits alone. *)
LEMMA HoldingSame ==
  ASSUME PermitInv, permits' = permits,
         \A d \in Chunk : /\ job'[d] # "none" <=> job[d] # "none"
                          /\ fin'[d] \in Released <=> fin[d] \in Released
  PROVE  PermitInv'
<1>1. Holding' = Holding
  BY DEF Holding
<1> QED BY <1>1 DEF PermitInv

(* The accounting survives a step of a handler. *)
LEMMA HandlerKeepsPermits ==
  ASSUME ControlInv, PermitInv, NEW h \in Streams, Handler(h)
  PROVE  PermitInv'
<1>f. \A d \in Chunk : fin'[d] \in Released <=> fin[d] \in Released
  BY HandlerFin DEF Released
<1>1. CASE Submit(h)
  <2> DEFINE l == <<h, nchunks[h]>>
  <2>1. /\ l \in Chunk /\ job[l] = "none" /\ permits > 0 /\ permits' = permits - 1
        /\ job' = [job EXCEPT ![l] = "queued"] /\ fin' = fin
    BY <1>1, LastChunk DEF Submit, ControlInv, HandlerInv
  <2>2. fin[l] = "open"
    BY <2>1 DEF ControlInv, ChunkInv
  <2>3. job \in [Chunk -> JobStates]
    BY DEF ControlInv, Types
  <2> HIDE DEF l
  <2>4. Holding' = Holding \cup {l} /\ l \notin Holding
    BY <2>1, <2>2, <2>3 DEF Holding, Released
  <2>5. Cardinality(Holding \cup {l}) = Cardinality(Holding) + 1
    BY <2>4, HoldingFinite, FS_AddElement
  <2>6. permits \in Int /\ Cardinality(Holding) \in Nat /\ Permits \in Nat
    BY HoldingFinite, BulkAssumption DEF ControlInv, Types
  <2>7. Cardinality(Holding') = Cardinality(Holding) + 1
    BY <2>4, <2>5
  <2> QED BY <2>1, <2>6, <2>7 DEF PermitInv
<1>2. CASE ~Submit(h)
  <2>1. permits' = permits /\ job' = job
    BY <1>2 DEF Handler, ReadChunk, StopOnError, AcquireLocal, CloseLast, Closed, Answer, limitVars
  <2> QED BY <1>f, <2>1, HoldingSame
<1> QED BY <1>1, <1>2

(* The accounting survives a step of a pool thread. *)
LEMMA JobKeepsPermits ==
  ASSUME ControlInv, GivenInv, PermitInv, NEW c \in Chunk, RunJob(c) \/ SplitDoc(c)
  PROVE  PermitInv'
<1>j. \A d \in Chunk : job'[d] # "none" <=> job[d] # "none"
  BY JobMoves
<1>1. CASE Release(c)
  <2>1. fin[c] = "release" /\ fin' = [fin EXCEPT ![c] = "arrive"] /\ permits' = permits + 1
    BY <1>1 DEF Release
  <2>2. job[c] # "none"
    BY <2>1 DEF ControlInv, ChunkInv
  <2>3. fin \in [Chunk -> FinStates]
    BY DEF ControlInv, Types
  <2>4. Holding' = Holding \ {c} /\ c \in Holding
    BY <1>j, <2>1, <2>2, <2>3 DEF Holding, Released
  <2>5. Cardinality(Holding \ {c}) = Cardinality(Holding) - 1
    BY <2>4, HoldingFinite, FS_RemoveElement
  <2>6. permits \in Int /\ Cardinality(Holding) \in Nat /\ Permits \in Nat
    BY HoldingFinite, BulkAssumption DEF ControlInv, Types
  <2>7. Cardinality(Holding') = Cardinality(Holding) - 1
    BY <2>4, <2>5
  <2> QED BY <2>1, <2>6, <2>7 DEF PermitInv
<1>2. CASE ~Release(c)
  <2>1. permits' = permits
    BY <1>2 DEF RunJob, SplitDoc, Start, ScanPrefix, ScanNoPrefix, Delivered, IndexBlock, SetEnd,
                Ended, PassOn, Passed, IndexSplitDoc, Arrive, limitVars
  <2>2. \A d \in Chunk : fin'[d] \in Released <=> fin[d] \in Released
    BY <1>2, FinForward DEF Released
  <2> QED BY <1>j, <2>1, <2>2, HoldingSame
<1> QED BY <1>1, <1>2

(* The permits are accounted for, always. *)
LEMMA PermitsCorrect == Spec => []PermitInv
<1>1. Init => PermitInv
  <2> SUFFICES ASSUME Init PROVE PermitInv
    OBVIOUS
  <2>1. Holding = {}
    BY DEF Init, Holding
  <2>2. Cardinality(Holding) = 0
    BY <2>1, FS_EmptySet
  <2> QED BY <2>2, BulkAssumption DEF Init, PermitInv
<1>2. ControlInv /\ GivenInv /\ PermitInv /\ [Next]_vars => PermitInv'
  <2> SUFFICES ASSUME ControlInv, GivenInv, PermitInv, [Next]_vars PROVE PermitInv'
    OBVIOUS
  <2>1. CASE Idle \/ UNCHANGED vars
    BY <2>1 DEF Idle, vars, PermitInv, Holding
  <2> QED BY <2>1, HandlerKeepsPermits, JobKeepsPermits DEF Next
<1> QED BY <1>1, <1>2, ControlCorrect, GivenCorrect, PTL DEF Spec

(* The pool never rejects a chunk: the queue is never longer than there are
   permits, because each place in it is a different chunk that holds one. *)
THEOREM QueueFits == Spec => []QueueNeverOverflows
<1>1. ControlInv /\ PermitInv => QueueNeverOverflows
  <2> SUFFICES ASSUME ControlInv, PermitInv PROVE Len(queue) <= Permits
    BY DEF QueueNeverOverflows
  <2>1. queue \in Seq(Chunk) /\ Len(queue) \in Nat /\ queue \in [1 .. Len(queue) -> Chunk]
    BY DEF ControlInv, Types
  <2>2. \A i \in 1 .. Len(queue) : queue[i] \in Holding
    <3> SUFFICES ASSUME NEW i \in 1 .. Len(queue) PROVE queue[i] \in Holding
      OBVIOUS
    <3>1. queue[i] \in Chunk /\ job[queue[i]] = "queued"
      BY <2>1 DEF ControlInv, QueueInv
    <3>2. fin[queue[i]] = "open"
      BY <3>1 DEF ControlInv, ChunkInv
    <3> QED BY <3>1, <3>2 DEF Holding, Released
  <2>3. queue \in [1 .. Len(queue) -> Holding]
    BY <2>1, <2>2
  <2>4. \A i, j \in 1 .. Len(queue) : queue[i] = queue[j] => i = j
    BY DEF ControlInv, QueueInv
  <2>5. queue \in Injection(1 .. Len(queue), Holding)
    BY <2>3, <2>4 DEF Injection, IsInjective
  <2>6. Cardinality(1 .. Len(queue)) <= Cardinality(Holding)
    BY <2>5, HoldingFinite, FS_Injection
  <2>7. Cardinality(1 .. Len(queue)) = Len(queue)
    BY <2>1, FS_Interval
  <2>8. permits \in Int /\ Permits \in Nat /\ Cardinality(Holding) \in Nat
    BY HoldingFinite, BulkAssumption DEF ControlInv, Types
  <2> QED BY <2>1, <2>6, <2>7, <2>8 DEF PermitInv
<1> QED BY <1>1, ControlCorrect, PermitsCorrect, PTL

-----------------------------------------------------------------------------
(* The semaphores of the requests, and the shard's count of running chunks. *)

\* The chunks of request s that hold a permit of its own semaphore.
LocalHeld(s) ==
  {k \in 1 .. nchunks[s] : /\ fin[<<s, k>>] \notin Released
                          /\ ~(hpc[s] = "acquire" /\ k = nchunks[s])}

LocalOK(s) ==
  IF UsesLocalSemaphore(s)
  THEN local[s] >= 0 /\ local[s] + Cardinality(LocalHeld(s)) = LocalPermits
  ELSE local[s] = LocalPermits /\ hpc[s] # "acquire"

LocalInv == \A s \in Streams : LocalOK(s)

(* Finitely many chunks hold a permit of the request. *)
LEMMA LocalFinite ==
  ASSUME ControlInv, NEW s \in Streams
  PROVE  IsFiniteSet(LocalHeld(s)) /\ Cardinality(LocalHeld(s)) \in Nat
<1>1. nchunks[s] \in Nat
  BY DEF ControlInv, Types
<1>2. IsFiniteSet(1 .. nchunks[s])
  BY <1>1, FS_Interval
<1>3. IsFiniteSet(LocalHeld(s))
  BY <1>2, FS_Subset DEF LocalHeld
<1> QED BY <1>3, FS_CardinalityType

(* The semaphores of the requests survive a step of a handler. *)
LEMMA HandlerKeepsLocal ==
  ASSUME ControlInv, LocalInv, NEW h \in Streams, Handler(h)
  PROVE  LocalInv'
<1> SUFFICES ASSUME NEW s \in Streams PROVE LocalOK(s)'
  BY DEF LocalInv
<1>v. /\ nchunks \in [Streams -> Nat] /\ hpc \in [Streams -> HandlerStates]
      /\ local \in [Streams -> Int] /\ LocalPermits \in Nat
  BY BulkAssumption DEF ControlInv, Types
<1>i. LocalOK(s)
  BY DEF LocalInv
<1>u. UsesLocalSemaphore(s)' = UsesLocalSemaphore(s)
  BY RequestStays DEF Next, UsesLocalSemaphore, Format
<1>f. \A k \in 1 .. nchunks[s] : fin'[<<s, k>>] \in Released <=> fin[<<s, k>>] \in Released
  BY PlaceIsChunk, HandlerFin DEF Released
<1>1. CASE ReadChunk(h) /\ s = h
  <2>1. /\ nchunks' = [nchunks EXCEPT ![s] = @ + 1] /\ hpc[s] = "read"
        /\ fin' = fin /\ local' = local
    BY <1>1 DEF ReadChunk, limitVars
  <2>2. /\ nchunks'[s] = nchunks[s] + 1 /\ nchunks[s] \in Nat
        /\ hpc'[s] = IF UsesLocalSemaphore(s) THEN "acquire" ELSE "submit"
    BY <1>1, <1>v, <2>1 DEF ReadChunk
  <2>3. ASSUME UsesLocalSemaphore(s) PROVE LocalHeld(s)' = LocalHeld(s)
    <3>1. \A k : k \in 1 .. nchunks'[s] /\ k # nchunks'[s] <=> k \in 1 .. nchunks[s]
      BY <2>2
    <3> QED BY <2>1, <2>2, <2>3, <3>1 DEF LocalHeld
  <2> QED BY <1>i, <1>u, <2>1, <2>2, <2>3 DEF LocalOK
<1>2. CASE AcquireLocal(h) /\ s = h
  <2>1. /\ hpc[s] = "acquire" /\ hpc' = [hpc EXCEPT ![s] = "submit"] /\ local[s] > 0
        /\ local' = [local EXCEPT ![s] = @ - 1] /\ nchunks' = nchunks /\ fin' = fin
    BY <1>2 DEF AcquireLocal
  <2>2. hpc'[s] = "submit" /\ local'[s] = local[s] - 1 /\ nchunks[s] \in Nat
    BY <1>v, <2>1
  <2>3. nchunks[s] \in 1 .. nchunks[s] /\ <<s, nchunks[s]>> \in Chunk
    BY <2>1, <2>2, LastChunk DEF ControlInv, HandlerInv
  <2>4. fin[<<s, nchunks[s]>>] = "open"
    <3>1. job[<<s, nchunks[s]>>] = "none"
      BY <2>1 DEF ControlInv, HandlerInv
    <3> QED BY <2>3, <3>1 DEF ControlInv, ChunkInv
  <2>5. LocalHeld(s)' = LocalHeld(s) \cup {nchunks[s]} /\ nchunks[s] \notin LocalHeld(s)
    BY <2>1, <2>2, <2>3, <2>4 DEF LocalHeld, Released
  <2>6. Cardinality(LocalHeld(s) \cup {nchunks[s]}) = Cardinality(LocalHeld(s)) + 1
    BY <2>5, LocalFinite, FS_AddElement
  <2>7. Cardinality(LocalHeld(s)') = Cardinality(LocalHeld(s)) + 1
    BY <2>5, <2>6
  <2>8. Cardinality(LocalHeld(s)) \in Nat /\ local[s] \in Int
    BY <1>v, LocalFinite
  <2> QED BY <1>i, <1>u, <1>v, <2>1, <2>2, <2>7, <2>8 DEF LocalOK
<1>3. CASE ~(ReadChunk(h) /\ s = h) /\ ~(AcquireLocal(h) /\ s = h)
  <2>1. CASE ReadChunk(h) \/ AcquireLocal(h)
    <3>1. nchunks'[s] = nchunks[s] /\ local'[s] = local[s] /\ hpc'[s] = hpc[s]
      BY <1>3, <1>v, <2>1 DEF ReadChunk, AcquireLocal, limitVars
    <3> QED BY <1>f, <1>i, <1>u, <3>1 DEF LocalOK, LocalHeld
  <2>2. CASE ~(ReadChunk(h) \/ AcquireLocal(h))
    <3>1. nchunks' = nchunks /\ local' = local
      BY <2>2 DEF Handler, StopOnError, Submit, CloseLast, Closed, Answer, limitVars
    <3>2. hpc'[s] = hpc[s] \/ (hpc[s] # "acquire" /\ hpc'[s] # "acquire")
      <4>1. CASE StopOnError(h) \/ Submit(h) \/ CloseLast(h)
        BY <1>v, <4>1 DEF StopOnError, Submit, CloseLast
      <4>2. CASE Closed(h) \/ Answer(h)
        BY <1>v, <4>2 DEF Closed, Answer
      <4> QED BY <2>2, <4>1, <4>2 DEF Handler
    <3>3. LocalHeld(s)' = LocalHeld(s)
      BY <1>f, <3>1, <3>2 DEF LocalHeld
    <3> QED BY <1>i, <1>u, <3>1, <3>2, <3>3 DEF LocalOK
  <2> QED BY <2>1, <2>2
<1> QED BY <1>1, <1>2, <1>3

(* The semaphores of the requests survive a step of a pool thread. *)
LEMMA JobKeepsLocal ==
  ASSUME ControlInv, GivenInv, LocalInv, NEW c \in Chunk, RunJob(c) \/ SplitDoc(c)
  PROVE  LocalInv'
<1> SUFFICES ASSUME NEW s \in Streams PROVE LocalOK(s)'
  BY DEF LocalInv
<1>p. c[1] \in Streams /\ c = <<c[1], c[2]>> /\ c[2] \in 1 .. MaxChunks /\ MaxChunks \in Nat
  BY ChunkParts, MaxChunksType
<1>h. hpc' = hpc /\ nchunks' = nchunks /\ request' = request
  BY JobMoves DEF handVars
<1>v. /\ nchunks[s] \in Nat /\ local \in [Streams -> Int] /\ fin \in [Chunk -> FinStates]
      /\ local[s] \in Int
  BY DEF ControlInv, Types
<1>i. LocalOK(s)
  BY DEF LocalInv
<1>u. UsesLocalSemaphore(s)' = UsesLocalSemaphore(s)
  BY <1>h DEF UsesLocalSemaphore, Format
<1>1. CASE Release(c) /\ s = c[1] /\ UsesLocalSemaphore(s)
  <2>1. /\ fin[c] = "release" /\ fin' = [fin EXCEPT ![c] = "arrive"]
        /\ local' = [local EXCEPT ![s] = @ + 1]
    BY <1>1 DEF Release
  <2>2. c[2] \in 1 .. nchunks[s] /\ job[c] # "none"
    <3>1. nextFrag[c] # << >> /\ endOff[c] # -1
      BY <2>1 DEF ControlInv, ChunkInv
    <3>2. (c[2] < nchunks[s] \/ c[2] = nchunks[s]) /\ job[c] # "none"
      BY <1>1, <3>1 DEF ControlInv, ChunkInv
    <3> QED BY <1>p, <1>v, <3>2
  <2>3. ~(hpc[s] = "acquire" /\ c[2] = nchunks[s])
    BY <1>1, <1>p, <2>2 DEF ControlInv, HandlerInv
  <2>4. c[2] \in LocalHeld(s)
    BY <1>1, <1>p, <2>1, <2>2, <2>3 DEF LocalHeld, Released
  <2>5. LocalHeld(s)' = LocalHeld(s) \ {c[2]}
    <3>1. \A k \in 1 .. nchunks[s] :
             fin'[<<s, k>>] = IF k = c[2] THEN "arrive" ELSE fin[<<s, k>>]
      BY <1>1, <1>p, <1>v, <2>1, PlaceIsChunk
    <3> QED BY <1>h, <3>1 DEF LocalHeld, Released
  <2>6. Cardinality(LocalHeld(s) \ {c[2]}) = Cardinality(LocalHeld(s)) - 1
    BY <2>4, LocalFinite, FS_RemoveElement
  <2>7. Cardinality(LocalHeld(s)') = Cardinality(LocalHeld(s)) - 1
    BY <2>5, <2>6
  <2>8. Cardinality(LocalHeld(s)) \in Nat /\ local'[s] = local[s] + 1 /\ LocalPermits \in Nat
    BY <1>v, <2>1, LocalFinite, BulkAssumption
  <2> QED BY <1>1, <1>i, <1>u, <1>v, <2>7, <2>8 DEF LocalOK
<1>2. CASE ~(Release(c) /\ s = c[1] /\ UsesLocalSemaphore(s))
  <2>1. local'[s] = local[s]
    <3>1. CASE Release(c)
      BY <1>2, <1>v, <3>1 DEF Release
    <3>2. CASE ~Release(c)
      BY <3>2 DEF RunJob, SplitDoc, Start, ScanPrefix, ScanNoPrefix, Delivered, IndexBlock, SetEnd,
                  Ended, PassOn, Passed, IndexSplitDoc, Arrive, limitVars
    <3> QED BY <3>1, <3>2
  <2>2. UsesLocalSemaphore(s) =>
          \A k \in 1 .. nchunks[s] : fin'[<<s, k>>] \in Released <=> fin[<<s, k>>] \in Released
    <3> SUFFICES ASSUME UsesLocalSemaphore(s), NEW k \in 1 .. nchunks[s]
                 PROVE  fin'[<<s, k>>] \in Released <=> fin[<<s, k>>] \in Released
      OBVIOUS
    <3>1. <<s, k>> \in Chunk
      BY PlaceIsChunk
    <3>2. ~(Release(c) /\ <<s, k>> = c)
      BY <1>2
    <3> QED BY <3>1, <3>2, FinForward DEF Released
  <2>3. UsesLocalSemaphore(s) => LocalHeld(s)' = LocalHeld(s)
    BY <1>h, <2>2 DEF LocalHeld
  <2> QED BY <1>h, <1>i, <1>u, <2>1, <2>3 DEF LocalOK
<1> QED BY <1>1, <1>2

(* The semaphore of a request is accounted for, always. *)
LEMMA LocalCorrect == Spec => []LocalInv
<1>1. Init => LocalInv
  <2> SUFFICES ASSUME Init, NEW s \in Streams PROVE LocalOK(s)
    BY DEF LocalInv
  <2>1. LocalHeld(s) = {}
    BY DEF Init, LocalHeld
  <2>2. Cardinality(LocalHeld(s)) = 0
    BY <2>1, FS_EmptySet
  <2> QED BY <2>2, BulkAssumption DEF Init, LocalOK
<1>2. ControlInv /\ GivenInv /\ LocalInv /\ [Next]_vars => LocalInv'
  <2> SUFFICES ASSUME ControlInv, GivenInv, LocalInv, [Next]_vars PROVE LocalInv'
    OBVIOUS
  <2>1. CASE Idle \/ UNCHANGED vars
    BY <2>1 DEF Idle, vars, LocalInv, LocalOK, LocalHeld, UsesLocalSemaphore, Format
  <2> QED BY <2>1, HandlerKeepsLocal, JobKeepsLocal DEF Next
<1> QED BY <1>1, <1>2, ControlCorrect, GivenCorrect, PTL DEF Spec

\* The chunks the shard counts as running.
Counted ==
  {c \in Chunk : /\ CountsChunkStart(c[1]) /\ c[2] <= nchunks[c[1]]
                 /\ CountsChunkFinish(c[1]) => fin[c] \notin Released}

RunInv == running = Cardinality(Counted)

(* Finitely many chunks are counted. *)
LEMMA CountedFinite == IsFiniteSet(Counted) /\ Cardinality(Counted) \in Nat
<1>1. Counted \in SUBSET Chunk
  BY DEF Counted
<1>2. IsFiniteSet(Counted)
  BY <1>1, ChunksFinite, FS_Subset
<1> QED BY <1>2, FS_CardinalityType

(* The count survives a step of a handler. *)
LEMMA HandlerKeepsCount ==
  ASSUME ControlInv, RunInv, NEW h \in Streams, Handler(h)
  PROVE  RunInv'
<1>f. \A d \in Chunk : fin'[d] \in Released <=> fin[d] \in Released
  BY HandlerFin DEF Released
<1>r. request' = request
  BY RequestStays DEF Next
<1>1. CASE ReadChunk(h)
  <2> DEFINE l == <<h, nchunks[h] + 1>>
  <2>1. /\ hpc[h] = "read" /\ nchunks' = [nchunks EXCEPT ![h] = @ + 1] /\ fin' = fin
        /\ running' = IF CountsChunkStart(h) THEN running + 1 ELSE running
    BY <1>1 DEF ReadChunk
  <2>2. nchunks \in [Streams -> Nat] /\ NumChunks(h) \in 1 .. MaxChunks /\ MaxChunks \in Nat
    BY TextFacts, MaxChunksType DEF ControlInv, Types, RequestOK
  <2>n. nchunks[h] < NumChunks(h)
    BY <2>1 DEF ControlInv, HandlerInv
  <2>m. nchunks[h] \in Nat
    BY <2>2
  <2>3. nchunks[h] + 1 \in 1 .. MaxChunks
    BY <2>2, <2>m, <2>n
  <2>4. l \in Chunk /\ l[1] = h /\ l[2] = nchunks[h] + 1
    BY <2>3 DEF Chunk
  <2>5. fin[l] = "open"
    BY <2>2, <2>4 DEF ControlInv, ChunkInv
  <2>6. \A c \in Chunk : c[2] <= nchunks'[c[1]] <=> c[2] <= nchunks[c[1]] \/ c = l
    <3> SUFFICES ASSUME NEW c \in Chunk
                 PROVE  c[2] <= nchunks'[c[1]] <=> c[2] <= nchunks[c[1]] \/ c = l
      OBVIOUS
    <3>1. c[1] \in Streams /\ c = <<c[1], c[2]>> /\ c[2] \in Nat
      BY ChunkParts, MaxChunksType
    <3> QED BY <2>1, <2>2, <3>1
  <2>7. l \notin Counted
    BY <2>2, <2>4 DEF Counted
  <2> HIDE DEF l
  <2>8. Counted' = IF CountsChunkStart(h) THEN Counted \cup {l} ELSE Counted
    BY <1>r, <2>1, <2>4, <2>5, <2>6
       DEF Counted, Released, CountsChunkStart, CountsChunkFinish, Format
  <2>9. Cardinality(Counted \cup {l}) = Cardinality(Counted) + 1
    BY <2>7, CountedFinite, FS_AddElement
  <2> QED BY <2>1, <2>8, <2>9 DEF RunInv
<1>2. CASE ~ReadChunk(h)
  <2>1. running' = running /\ nchunks' = nchunks
    BY <1>2 DEF Handler, StopOnError, AcquireLocal, Submit, CloseLast, Closed, Answer, limitVars
  <2>2. Counted' = Counted
    BY <1>f, <1>r, <2>1 DEF Counted, CountsChunkStart, CountsChunkFinish, Format
  <2> QED BY <2>1, <2>2 DEF RunInv
<1> QED BY <1>1, <1>2

(* The count survives a step of a pool thread. *)
LEMMA JobKeepsCount ==
  ASSUME ControlInv, GivenInv, RunInv, NEW c \in Chunk, RunJob(c) \/ SplitDoc(c)
  PROVE  RunInv'
<1>h. nchunks' = nchunks /\ request' = request
  BY JobMoves DEF handVars
<1>1. CASE Release(c) /\ CountsChunkFinish(c[1])
  <2>1. /\ fin[c] = "release" /\ fin' = [fin EXCEPT ![c] = "arrive"] /\ running' = running - 1
    BY <1>1 DEF Release
  <2>2. fin \in [Chunk -> FinStates]
    BY DEF ControlInv, Types
  <2>3. c[2] <= nchunks[c[1]] /\ CountsChunkStart(c[1])
    BY <1>1, <2>1 DEF ControlInv, ChunkInv, CountsChunkFinish, CountsChunkStart
  <2>4. Counted' = Counted \ {c} /\ c \in Counted
    BY <1>1, <1>h, <2>1, <2>2, <2>3
       DEF Counted, Released, CountsChunkStart, CountsChunkFinish, Format
  <2>5. Cardinality(Counted \ {c}) = Cardinality(Counted) - 1
    BY <2>4, CountedFinite, FS_RemoveElement
  <2> QED BY <2>1, <2>4, <2>5 DEF RunInv
<1>2. CASE ~(Release(c) /\ CountsChunkFinish(c[1]))
  <2>1. running' = running
    BY <1>2 DEF RunJob, SplitDoc, Start, ScanPrefix, ScanNoPrefix, Delivered, IndexBlock, SetEnd,
                Ended, PassOn, Passed, IndexSplitDoc, Release, Arrive, limitVars
  <2>2. \A d \in Chunk : CountsChunkFinish(d[1]) =>
           (fin'[d] \in Released <=> fin[d] \in Released)
    BY <1>2, FinForward DEF Released
  <2>3. Counted' = Counted
    BY <1>h, <2>2 DEF Counted, CountsChunkStart, CountsChunkFinish, Format
  <2> QED BY <2>1, <2>3 DEF RunInv
<1> QED BY <1>1, <1>2

(* The shard counts its running chunks correctly, always. *)
LEMMA CountCorrect == Spec => []RunInv
<1>1. Init => RunInv
  <2> SUFFICES ASSUME Init PROVE RunInv
    OBVIOUS
  <2>1. Counted = {}
    <3>1. \A c \in Chunk : c[1] \in Streams /\ c[2] \in Nat /\ c[2] >= 1
      BY ChunkParts, MaxChunksType
    <3> QED BY <3>1 DEF Init, Counted
  <2>2. Cardinality(Counted) = 0
    BY <2>1, FS_EmptySet
  <2> QED BY <2>2 DEF Init, RunInv
<1>2. ControlInv /\ GivenInv /\ RunInv /\ [Next]_vars => RunInv'
  <2> SUFFICES ASSUME ControlInv, GivenInv, RunInv, [Next]_vars PROVE RunInv'
    OBVIOUS
  <2>1. CASE Idle \/ UNCHANGED vars
    BY <2>1 DEF Idle, vars, RunInv, Counted, CountsChunkStart, CountsChunkFinish, Format
  <2> QED BY <2>1, HandlerKeepsCount, JobKeepsCount DEF Next
<1> QED BY <1>1, <1>2, ControlCorrect, GivenCorrect, PTL DEF Spec

(* Every variable keeps its type.  The counters are what makes this more than
   bookkeeping: no permit is released that was not acquired, neither the shard's
   count nor a Phaser goes below zero, no request has more chunks than its text. *)
THEOREM BulkTypes == Spec => []TypeOK
<1>1. ControlInv /\ PermitInv /\ LocalInv /\ RunInv /\ PhaserInv => TypeOK
  <2> SUFFICES ASSUME ControlInv, PermitInv, LocalInv, RunInv, PhaserInv PROVE TypeOK
    OBVIOUS
  <2>1. Types
    BY DEF ControlInv
  <2>2. nchunks \in [Streams -> 0 .. MaxChunks]
    <3> SUFFICES ASSUME NEW s \in Streams PROVE nchunks[s] \in 0 .. MaxChunks
      BY <2>1 DEF Types
    <3>1. nchunks[s] \in Nat /\ NumChunks(s) \in 1 .. MaxChunks /\ MaxChunks \in Nat
      BY <2>1, TextFacts, MaxChunksType DEF Types, RequestOK
    <3>2. nchunks[s] <= NumChunks(s)
      BY DEF ControlInv, HandlerInv
    <3> QED BY <3>1, <3>2
  <2>3. permits \in 0 .. Permits
    <3>1. permits \in Int /\ Permits \in Nat
      BY <2>1, BulkAssumption DEF Types
    <3> QED BY <3>1, HoldingFinite DEF PermitInv
  <2>4. local \in [Streams -> 0 .. LocalPermits]
    <3> SUFFICES ASSUME NEW s \in Streams PROVE local[s] \in 0 .. LocalPermits
      BY <2>1 DEF Types
    <3>1. local[s] \in Int /\ LocalPermits \in Nat /\ LocalOK(s)
      BY <2>1, BulkAssumption DEF Types, LocalInv
    <3> QED BY <3>1, LocalFinite DEF LocalOK
  <2>5. running \in Nat
    BY CountedFinite DEF RunInv
  <2>6. parties \in [Streams -> Nat] /\ unarrived \in [Streams -> Nat]
    <3> SUFFICES ASSUME NEW s \in Streams PROVE parties[s] \in Nat /\ unarrived[s] \in Nat
      BY <2>1 DEF Types
    <3>1. parties[s] \in Int /\ unarrived[s] \in Int /\ PhaserOK(s)
      BY <2>1 DEF Types, PhaserInv
    <3> QED BY <3>1, OutstandingFinite DEF PhaserOK
  <2> QED BY <2>1, <2>2, <2>3, <2>4, <2>5, <2>6 DEF Types, TypeOK, HandlerStates, JobStates, FinStates
<1> QED BY <1>1, ControlCorrect, PermitsCorrect, LocalCorrect, CountCorrect, PhaserCorrect, PTL

=============================================================================
