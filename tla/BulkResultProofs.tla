-------------------------- MODULE BulkResultProofs --------------------------
(***************************************************************************)
(* What a bulk request leaves behind, for any texts, chunk length and      *)
(* number of streams, threads and permits: a request that reports success  *)
(* has indexed every document of its stream once, a stream of good         *)
(* documents is not refused, and the permits and the shard's count come    *)
(* back.                                                                   *)
(*                                                                         *)
(* A fragment is a run of consecutive positions, so what the chunks hand   *)
(* to each other is known from its two ends: it begins where the chunk     *)
(* ends and goes up to the next newline.  No induction over the text is    *)
(* needed.  The invariants, each on top of those before it:                *)
(*   ExcInv    who may throw, and who passes an exception on;              *)
(*   TextInv   all of the stream is cut, and a chunk's end and the         *)
(*             fragment handed to it meet;                                 *)
(*   WorkInv   a chunk past its block holds no faulty line, one that died  *)
(*             met an exception;                                           *)
(*   IndexInv  the index holds the documents of the chunks that are past   *)
(*             them, and no others.                                        *)
(***************************************************************************)
EXTENDS BulkIndexProofs

-----------------------------------------------------------------------------
(* Runs of positions. *)

\* The positions after a, up to b.
Run(a, b) == [k \in 1 .. (b - a) |-> a + k]

(* A run is a sequence of the positions after a up to b. *)
LEMMA RunIs ==
  ASSUME NEW a \in Nat, NEW b \in Nat, a <= b
  PROVE  /\ Run(a, b) \in Seq(Nat) /\ Len(Run(a, b)) = b - a /\ DOMAIN Run(a, b) = 1 .. (b - a)
         /\ \A k \in 1 .. (b - a) : Run(a, b)[k] = a + k
<1>1. b - a \in Nat /\ \A k \in 1 .. (b - a) : a + k \in Nat
  OBVIOUS
<1>2. Run(a, b) \in [1 .. (b - a) -> Nat]
  BY <1>1 DEF Run
<1> QED BY <1>1, <1>2 DEF Run

(* A part of a run is a run. *)
LEMMA RunCut ==
  ASSUME NEW a \in Nat, NEW b \in Nat, a <= b, NEW i \in Nat, NEW j \in Nat, i <= j, j <= b - a
  PROVE  SubSeq(Run(a, b), i + 1, j) = Run(a + i, a + j)
<1>1. \A k \in i + 1 .. j : Run(a, b)[k] = a + k /\ a + k \in Nat
  BY RunIs
<1>2. /\ SubSeq(Run(a, b), i + 1, j) \in Seq(Nat) /\ Len(SubSeq(Run(a, b), i + 1, j)) = j - i
      /\ \A k \in 1 .. j - i : SubSeq(Run(a, b), i + 1, j)[k] = Run(a, b)[i + k]
  <2>1. i + 1 \in Int /\ j \in Int /\ \A k \in i + 1 .. j : Run(a, b)[k] \in Nat
    BY <1>1
  <2>2. /\ SubSeq(Run(a, b), i + 1, j) \in Seq(Nat)
        /\ Len(SubSeq(Run(a, b), i + 1, j)) = IF i + 1 <= j THEN j - (i + 1) + 1 ELSE 0
        /\ \A k \in 1 .. j - (i + 1) + 1 : SubSeq(Run(a, b), i + 1, j)[k] = Run(a, b)[i + 1 + k - 1]
    BY <2>1, SubSeqProperties
  <2>3. j - (i + 1) + 1 = j - i /\ \A k \in Int : i + 1 + k - 1 = i + k
    OBVIOUS
  <2> QED BY <2>2, <2>3
<1>3. /\ Run(a + i, a + j) \in Seq(Nat) /\ Len(Run(a + i, a + j)) = j - i
      /\ \A k \in 1 .. j - i : Run(a + i, a + j)[k] = a + i + k
  <2>1. a + i \in Nat /\ a + j \in Nat /\ a + i <= a + j /\ (a + j) - (a + i) = j - i
    OBVIOUS
  <2> QED BY <2>1, RunIs
<1>4. \A k \in 1 .. j - i : SubSeq(Run(a, b), i + 1, j)[k] = Run(a + i, a + j)[k]
  <2> SUFFICES ASSUME NEW k \in 1 .. j - i
               PROVE  SubSeq(Run(a, b), i + 1, j)[k] = Run(a + i, a + j)[k]
    OBVIOUS
  <2>1. i + k \in i + 1 .. j
    OBVIOUS
  <2>2. Run(a, b)[i + k] = a + (i + k)
    BY <1>1, <2>1
  <2> QED BY <1>2, <1>3, <2>2
<1> QED BY <1>2, <1>3, <1>4, SeqEqual

(* Two runs that meet are one. *)
LEMMA RunJoin ==
  ASSUME NEW a \in Nat, NEW b \in Nat, NEW c \in Nat, a <= b, b <= c
  PROVE  Run(a, b) \o Run(b, c) = Run(a, c)
<1> DEFINE s == Run(a, b)
           t == Run(b, c)
           u == Run(a, c)
<1>1. s \in Seq(Nat) /\ Len(s) = b - a /\ \A k \in 1 .. (b - a) : s[k] = a + k
  BY RunIs
<1>2. t \in Seq(Nat) /\ Len(t) = c - b /\ \A k \in 1 .. (c - b) : t[k] = b + k
  BY RunIs
<1>3. u \in Seq(Nat) /\ Len(u) = c - a /\ \A k \in 1 .. (c - a) : u[k] = a + k
  BY RunIs
<1> HIDE DEF s, t, u
<1>4. /\ s \o t \in Seq(Nat) /\ Len(s \o t) = c - a
      /\ \A k \in 1 .. c - a : (s \o t)[k] = IF k <= b - a THEN s[k] ELSE t[k - (b - a)]
  <2>1. (b - a) + (c - b) = c - a
    OBVIOUS
  <2>2. /\ s \o t \in Seq(Nat) /\ Len(s \o t) = Len(s) + Len(t)
        /\ \A k \in 1 .. Len(s) + Len(t) : (s \o t)[k] = IF k <= Len(s) THEN s[k] ELSE t[k - Len(s)]
    BY <1>1, <1>2, ConcatProperties
  <2> QED BY <1>1, <1>2, <2>1, <2>2
<1>5. \A k \in 1 .. c - a : (s \o t)[k] = u[k]
  <2> SUFFICES ASSUME NEW k \in 1 .. c - a PROVE (s \o t)[k] = u[k]
    OBVIOUS
  <2>1. CASE k <= b - a
    BY <1>1, <1>3, <1>4, <2>1
  <2>2. CASE ~ k <= b - a
    <3>1. k - (b - a) \in 1 .. c - b /\ b + (k - (b - a)) = a + k
      BY <2>2
    <3> QED BY <1>2, <1>3, <1>4, <2>2, <3>1
  <2> QED BY <2>1, <2>2
<1>6. s \o t = u
  BY <1>3, <1>4, <1>5, SeqEqual
<1> QED BY <1>6 DEF s, t, u

(* A run is empty when its ends meet, and otherwise known from its first and last
   position. *)
LEMMA RunEnds ==
  ASSUME NEW a \in Nat, NEW b \in Nat, a <= b
  PROVE  /\ Run(a, b) = << >> <=> a = b
         /\ a < b => Run(a, b)[1] = a + 1
<1>1. Run(a, b) \in Seq(Nat) /\ Len(Run(a, b)) = b - a /\ \A k \in 1 .. (b - a) : Run(a, b)[k] = a + k
  BY RunIs
<1>2. Run(a, b) = << >> <=> Len(Run(a, b)) = 0
  BY <1>1, EmptySeq
<1> QED BY <1>1, <1>2

(* The first part of a run. *)
LEMMA RunHead ==
  ASSUME NEW a \in Nat, NEW b \in Nat, a <= b, NEW j \in Nat, j <= b - a
  PROVE  SubSeq(Run(a, b), 1, j) = Run(a, a + j)
<1>1. \A i \in Nat : i <= j => SubSeq(Run(a, b), i + 1, j) = Run(a + i, a + j)
  <2> SUFFICES ASSUME NEW i \in Nat, i <= j
               PROVE  SubSeq(Run(a, b), i + 1, j) = Run(a + i, a + j)
    OBVIOUS
  <2> QED BY RunCut
<1>2. \A i \in Nat : i = 0 => i <= j /\ i + 1 = 1 /\ a + i = a
  OBVIOUS
<1>3. 0 \in Nat
  OBVIOUS
<1> QED BY <1>1, <1>2, <1>3, Zenon

(* The last part of a run. *)
LEMMA RunTail ==
  ASSUME NEW a \in Nat, NEW b \in Nat, a <= b, NEW i \in Nat, i <= b - a
  PROVE  SubSeq(Run(a, b), i + 1, Len(Run(a, b))) = Run(a + i, b)
<1>1. Len(Run(a, b)) = b - a /\ b - a \in Nat /\ a + (b - a) = b
  BY RunIs
<1>2. SubSeq(Run(a, b), i + 1, b - a) = Run(a + i, a + (b - a))
  <2>1. PICK j \in Nat : j = b - a
    BY <1>1
  <2>2. SubSeq(Run(a, b), i + 1, j) = Run(a + i, a + j)
    <3>1. i <= j /\ j <= b - a
      BY <2>1
    <3> QED BY <3>1, RunCut
  <2> QED BY <2>1, <2>2
<1> QED BY <1>1, <1>2
-----------------------------------------------------------------------------
(* Chunks as parts of the text. *)

\* The newlines of a stream; the end of the document that position x + 1 lies in.
Newlines(s)  == {p \in 1 .. Len(Text(s)) : Text(s)[p] = "n"}
After(s, x)  == {p \in Newlines(s) : p > x}
DocEnd(s, x) == IF After(s, x) = {} THEN Len(Text(s)) ELSE Min(After(s, x))

\* A chunk holds the positions after Before(c) up to Upto(c).
Before(c) == (c[2] - 1) * ChunkLen
Upto(c)   == IF Len(Text(c[1])) - Before(c) < ChunkLen THEN Len(Text(c[1])) ELSE Before(c) + ChunkLen
Own(c)    == {p \in Newlines(c[1]) : Before(c) < p /\ p <= Upto(c)}

\* The chunks that the text of their stream is cut into.
TextChunk == {c \in Chunk : c[2] <= NumChunks(c[1])}

(* Whole chunks before a number of characters. *)
LEMMA WholeChunks ==
  ASSUME NEW n \in Nat, NEW d \in Nat \ {0}
  PROVE  n \div d \in Nat /\ (n \div d) * d <= n /\ n < (n \div d) * d + d
OBVIOUS

(* Chunks follow each other. *)
LEMMA Multiples ==
  ASSUME NEW j \in Nat, NEW k \in Nat, NEW d \in Nat \ {0}
  PROVE  /\ j * d \in Nat /\ (k + 1) * d = k * d + d
         /\ j <= k => j * d <= k * d
         /\ j < k => j * d + d <= k * d
<1>1. j * d \in Nat /\ k * d \in Nat /\ (k + 1) * d = k * d + d
  OBVIOUS
<1>2. j <= k => j * d <= k * d
  OBVIOUS
<1>3. j < k => j * d + d <= k * d
  <2> SUFFICES ASSUME j < k PROVE j * d + d <= k * d
    OBVIOUS
  <2>1. (j + 1) * d = j * d + d
    OBVIOUS
  <2>2. j + 1 <= k => (j + 1) * d <= k * d
    OBVIOUS
  <2> QED BY <2>1, <2>2
<1> QED BY <1>1, <1>2, <1>3

(* Where a chunk lies in the text, and next to which others. *)
LEMMA ChunkSpan ==
  ASSUME RequestOK, NEW c \in TextChunk
  PROVE  /\ Before(c) \in Nat /\ Upto(c) \in Nat /\ Before(c) <= Upto(c)
         /\ Upto(c) <= Len(Text(c[1])) /\ Upto(c) - Before(c) <= ChunkLen
         /\ c[2] = NumChunks(c[1]) => Upto(c) = Len(Text(c[1]))
         /\ c[2] < NumChunks(c[1]) => Upto(c) = Before(c) + ChunkLen
         /\ ~ HasPrev(c) => Before(c) = 0
         /\ HasPrev(c) => Prev(c) \in TextChunk /\ Upto(Prev(c)) = Before(c)
<1> DEFINE N == Len(Text(c[1]))
           m == N \div ChunkLen
<1>1. /\ c[1] \in Streams /\ c[2] \in Nat /\ c[2] >= 1 /\ c[2] <= m + 1 /\ N \in Nat
      /\ ChunkLen \in Nat \ {0} /\ MaxChunks \in Nat
  BY ChunkParts, TextFacts, BulkAssumption, MaxChunksType DEF TextChunk, NumChunks
<1>2. m \in Nat /\ m * ChunkLen <= N /\ N < m * ChunkLen + ChunkLen
  BY <1>1, WholeChunks
<1>3. c[2] - 1 \in Nat /\ c[2] - 1 <= m
  BY <1>1, <1>2
<1>4. (c[2] - 1) * ChunkLen \in Nat /\ (c[2] - 1) * ChunkLen <= m * ChunkLen
  BY <1>1, <1>2, <1>3, Multiples
<1>5. c[2] - 1 < m => (c[2] - 1) * ChunkLen + ChunkLen <= m * ChunkLen
  BY <1>1, <1>2, <1>3, Multiples
<1>6. NumChunks(c[1]) = m + 1
  BY DEF NumChunks
<1> HIDE DEF m, N
<1> DEFINE f == Before(c)
<1>7. f \in Nat /\ f <= m * ChunkLen /\ m * ChunkLen \in Nat
  BY <1>1, <1>2, <1>4 DEF Before
<1>8. c[2] < m + 1 => f + ChunkLen <= N
  BY <1>1, <1>2, <1>3, <1>5, <1>7 DEF Before
<1>9. c[2] = m + 1 => N - f < ChunkLen
  <2> SUFFICES ASSUME c[2] = m + 1 PROVE N - f < ChunkLen
    OBVIOUS
  <2>1. c[2] - 1 = m
    BY <1>1, <1>2
  <2>2. f = m * ChunkLen
    BY <2>1 DEF Before
  <2> QED BY <1>1, <1>2, <1>7, <2>2
<1>10. Upto(c) = IF N - f < ChunkLen THEN N ELSE f + ChunkLen
  BY DEF Upto, N
<1>11. /\ Before(c) \in Nat /\ Upto(c) \in Nat /\ Before(c) <= Upto(c)
       /\ Upto(c) <= N /\ Upto(c) - Before(c) <= ChunkLen
       /\ c[2] = m + 1 => Upto(c) = N
       /\ c[2] < m + 1 => Upto(c) = Before(c) + ChunkLen
  <2> HIDE DEF f
  <2>1. f <= N /\ (c[2] < m + 1 \/ c[2] = m + 1)
    BY <1>1, <1>2, <1>7
  <2> QED BY <1>1, <1>7, <1>8, <1>9, <1>10, <2>1 DEF f
<1>12. ~ HasPrev(c) => Before(c) = 0
  <2> SUFFICES ASSUME ~ HasPrev(c) PROVE Before(c) = 0
    OBVIOUS
  <2>1. c[2] - 1 = 0
    BY <1>1 DEF HasPrev
  <2>2. 0 * ChunkLen = 0
    BY <1>1
  <2> QED BY <2>1, <2>2 DEF Before
<1>13. ASSUME HasPrev(c) PROVE Prev(c) \in TextChunk /\ Upto(Prev(c)) = Before(c)
  <2> DEFINE p == Prev(c)
  <2>1. p \in Chunk /\ p[1] = c[1] /\ p[2] = c[2] - 1
    BY <1>13, ChunkParts DEF TextChunk
  <2>2. p \in TextChunk
    BY <1>1, <1>2, <1>6, <2>1 DEF TextChunk
  <2>3. p[2] - 1 \in Nat /\ c[2] - 1 = (p[2] - 1) + 1
    BY <1>1, <1>13, <2>1 DEF HasPrev
  <2>4. Before(c) = Before(p) + ChunkLen
    BY <1>1, <2>3, Multiples DEF Before
  <2>5. Before(p) \in Nat
    BY <1>1, <2>3, Multiples DEF Before
  <2>6. Before(c) <= N
    BY <1>1, <1>11
  <2>7. Upto(p) = IF N - Before(p) < ChunkLen THEN N ELSE Before(p) + ChunkLen
    BY <2>1 DEF Upto, N
  <2>8. ~ N - Before(p) < ChunkLen
    BY <1>1, <2>4, <2>5, <2>6
  <2> QED BY <2>2, <2>4, <2>7, <2>8
<1> QED BY <1>6, <1>11, <1>12, <1>13 DEF N

(* The positions of a chunk are the run between its ends. *)
LEMMA PositionsAre ==
  ASSUME RequestOK, NEW c \in TextChunk
  PROVE  Positions(c) = Run(Before(c), Upto(c))
<1> DEFINE f == Before(c)
           N == Len(Text(c[1]))
<1>1. Positions(c) = [i \in 1 .. (IF N - f < ChunkLen THEN N - f ELSE ChunkLen) |-> f + i]
  BY DEF Positions, Before
<1>2. f \in Nat /\ N \in Nat /\ ChunkLen \in Nat
  BY ChunkSpan, TextFacts, ChunkParts, BulkAssumption DEF TextChunk
<1>3. Upto(c) = IF N - f < ChunkLen THEN N ELSE f + ChunkLen
  BY DEF Upto
<1> HIDE DEF f, N
<1>4. (IF N - f < ChunkLen THEN N - f ELSE ChunkLen) = Upto(c) - f
  BY <1>2, <1>3
<1> QED BY <1>1, <1>4 DEF Run, f

(* Chunks of one stream do not overlap, and none of its characters is left out. *)
LEMMA ChunksTile ==
  ASSUME RequestOK, NEW s \in Streams
  PROVE  /\ \A c, d \in TextChunk : c[1] = s /\ d[1] = s /\ c[2] < d[2] => Upto(c) <= Before(d)
         /\ \A p \in 1 .. Len(Text(s)) :
              LET c == <<s, ((p - 1) \div ChunkLen) + 1>>
              IN  c \in TextChunk /\ c[1] = s /\ Before(c) < p /\ p <= Upto(c)
<1>0. Len(Text(s)) \in Nat /\ ChunkLen \in Nat \ {0} /\ NumChunks(s) \in 1 .. MaxChunks /\ MaxChunks \in Nat
  BY TextFacts, BulkAssumption, MaxChunksType
<1>1. ASSUME NEW c \in TextChunk, NEW d \in TextChunk, c[1] = s, d[1] = s, c[2] < d[2]
      PROVE  Upto(c) <= Before(d)
  <2>1. c[2] \in Nat /\ d[2] \in Nat /\ c[2] >= 1 /\ d[2] <= NumChunks(s)
    BY <1>0, <1>1, ChunkParts DEF TextChunk
  <2>2. Upto(c) = Before(c) + ChunkLen
    BY <1>0, <1>1, <2>1, ChunkSpan
  <2>3. c[2] - 1 \in Nat /\ d[2] - 1 \in Nat /\ c[2] - 1 < d[2] - 1
    BY <1>1, <2>1
  <2> QED BY <1>0, <2>2, <2>3, Multiples DEF Before
<1>2. ASSUME NEW p \in 1 .. Len(Text(s))
      PROVE  LET c == <<s, ((p - 1) \div ChunkLen) + 1>>
             IN  c \in TextChunk /\ c[1] = s /\ Before(c) < p /\ p <= Upto(c)
  <2> DEFINE k == (p - 1) \div ChunkLen
             c == <<s, k + 1>>
  <2>1. p - 1 \in Nat /\ p <= Len(Text(s))
    BY <1>0
  <2>2. k \in Nat /\ k * ChunkLen <= p - 1 /\ p - 1 < k * ChunkLen + ChunkLen
    BY <1>0, <2>1, WholeChunks
  <2>3. k <= Len(Text(s)) \div ChunkLen
    BY <1>0, <2>1, DivMonotone
  <2>4. Len(Text(s)) \div ChunkLen \in Nat
    BY <1>0, WholeChunks
  <2> HIDE DEF k
  <2>5. k + 1 \in 1 .. NumChunks(s)
    BY <2>2, <2>3, <2>4 DEF NumChunks
  <2>6. c \in TextChunk /\ c[1] = s /\ c[2] = k + 1
    BY <1>0, <2>5 DEF TextChunk, Chunk
  <2>7. Before(c) = k * ChunkLen
    <3>1. c[2] - 1 = k
      BY <2>2, <2>6
    <3> QED BY <3>1 DEF Before
  <2>8. k * ChunkLen \in Nat
    BY <1>0, <2>2
  <2>9. Upto(c) = IF Len(Text(s)) - Before(c) < ChunkLen THEN Len(Text(s)) ELSE Before(c) + ChunkLen
    BY <2>6 DEF Upto
  <2> HIDE DEF c
  <2>10. Before(c) < p /\ p <= Upto(c)
    BY <1>0, <2>1, <2>2, <2>7, <2>8, <2>9
  <2> QED BY <2>6, <2>10 DEF c, k
<1> QED BY <1>1, <1>2

-----------------------------------------------------------------------------
(* Documents as parts of the text. *)

\* Where documents start: behind these positions.
Starts(s) == {a \in {0} \cup Newlines(s) : a < Len(Text(s))}

(* The next newline, or the end of the text. *)
LEMMA DocEndIs ==
  ASSUME RequestOK, NEW s \in Streams, NEW x \in 0 .. Len(Text(s))
  PROVE  /\ DocEnd(s, x) \in Nat /\ x <= DocEnd(s, x) /\ DocEnd(s, x) <= Len(Text(s))
         /\ x < Len(Text(s)) => x < DocEnd(s, x)
         /\ \A p \in Newlines(s) : x < p => DocEnd(s, x) <= p
         /\ (DocEnd(s, x) \in Newlines(s) /\ x < DocEnd(s, x)) \/ DocEnd(s, x) = Len(Text(s))
<1>1. Len(Text(s)) \in Nat
  BY TextFacts
<1>2. CASE After(s, x) = {}
  BY <1>1, <1>2 DEF DocEnd, After
<1>3. CASE After(s, x) # {}
  <2>1. \A p \in Newlines(s) : p \in Nat /\ p <= Len(Text(s))
    BY <1>1 DEF Newlines
  <2>2. After(s, x) \subseteq Nat
    BY <2>1 DEF After
  <2>3. Min(After(s, x)) \in After(s, x) /\ \A p \in After(s, x) : Min(After(s, x)) <= p
    BY <1>3, <2>2, MinIsLeast
  <2>4. DocEnd(s, x) = Min(After(s, x))
    BY <1>3 DEF DocEnd
  <2>5. DocEnd(s, x) \in Newlines(s) /\ x < DocEnd(s, x) /\ \A p \in Newlines(s) : x < p => DocEnd(s, x) <= p
    BY <2>3, <2>4 DEF After
  <2> QED BY <1>1, <2>1, <2>5
<1> QED BY <1>2, <1>3

(* It is known from what it is. *)
LEMMA DocEndKnown ==
  ASSUME RequestOK, NEW s \in Streams, NEW x \in 0 .. Len(Text(s)), NEW e \in x .. Len(Text(s)),
         (e \in Newlines(s) /\ x < e) \/ e = Len(Text(s)),
         \A p \in Newlines(s) : x < p => e <= p
  PROVE  DocEnd(s, x) = e
<1>1. /\ DocEnd(s, x) \in Nat /\ x <= DocEnd(s, x) /\ DocEnd(s, x) <= Len(Text(s))
      /\ \A p \in Newlines(s) : x < p => DocEnd(s, x) <= p
      /\ (DocEnd(s, x) \in Newlines(s) /\ x < DocEnd(s, x)) \/ DocEnd(s, x) = Len(Text(s))
  BY DocEndIs
<1>2. Len(Text(s)) \in Nat /\ e \in Int
  BY TextFacts
<1>3. DocEnd(s, x) <= e
  BY <1>1, <1>2
<1>4. e <= DocEnd(s, x)
  BY <1>1, <1>2
<1> QED BY <1>1, <1>2, <1>3, <1>4

(* Where no newline is between two positions, they are in the same document. *)
LEMMA SameDoc ==
  ASSUME RequestOK, NEW s \in Streams, NEW x \in 0 .. Len(Text(s)), NEW y \in x .. Len(Text(s)),
         \A p \in Newlines(s) : ~ (x < p /\ p <= y)
  PROVE  DocEnd(s, x) = DocEnd(s, y)
<1>1. Len(Text(s)) \in Nat /\ y \in 0 .. Len(Text(s)) /\ \A p \in Newlines(s) : p \in Nat
  BY TextFacts DEF Newlines
<1>2. \A p \in Newlines(s) : x < p <=> y < p
  BY <1>1
<1>3. After(s, x) = After(s, y)
  BY <1>2 DEF After
<1> QED BY <1>3 DEF DocEnd

(* The documents of a stream are the runs from the start of the text, and from each
   newline, to the next newline or the end. *)
LEMMA DocumentsAre ==
  ASSUME RequestOK, NEW s \in Streams
  PROVE  Documents(s) = {Run(a, DocEnd(s, a)) : a \in Starts(s)}
<1> DEFINE N == Len(Text(s))
           ends == {0, N} \cup Newlines(s)
           next(b) == b[1] < b[2] /\ ~\E m \in ends : b[1] < m /\ m < b[2]
<1>1. N \in Nat /\ DOMAIN Text(s) = 1 .. N /\ \A p \in Newlines(s) : p \in Nat /\ 0 < p /\ p <= N
  <2>1. Text(s) \in Seq(Chars) /\ N \in Nat
    BY TextFacts
  <2>2. DOMAIN Text(s) = 1 .. N
    BY <2>1, LenProperties
  <2> QED BY <2>1, <2>2 DEF Newlines
<1>2. Documents(s) = {Run(e[1], e[2]) : e \in {b \in ends \X ends : next(b)}}
  <2>1. {i \in DOMAIN Text(s) : Text(s)[i] = "n"} = Newlines(s)
    BY <1>1 DEF Newlines
  <2> QED BY <2>1 DEF Documents, Run
<1> HIDE DEF N
<1>3. \A a \in ends, b \in ends : next(<<a, b>>) <=> a \in Starts(s) /\ b = DocEnd(s, a)
  <2> SUFFICES ASSUME NEW a \in ends, NEW b \in ends
               PROVE  next(<<a, b>>) <=> a \in Starts(s) /\ b = DocEnd(s, a)
    OBVIOUS
  <2>1. a \in 0 .. N /\ b \in 0 .. N
    BY <1>1
  <2>2. ASSUME next(<<a, b>>) PROVE a \in Starts(s) /\ b = DocEnd(s, a)
    <3>1. a < b /\ \A m \in ends : ~ (a < m /\ m < b)
      BY <2>2
    <3>2. a \in Starts(s)
      <4>1. a # N /\ a < N
        BY <1>1, <2>1, <3>1
      <4>2. a \in {0} \cup Newlines(s)
        BY <4>1
      <4> QED BY <4>1, <4>2 DEF Starts, N
    <3>3. \A p \in Newlines(s) : a < p => b <= p
      BY <1>1, <2>1, <3>1
    <3>4. b \in Newlines(s) \/ b = N
      BY <1>1, <2>1, <3>1
    <3>5. a \in 0 .. Len(Text(s)) /\ b \in a .. Len(Text(s))
      BY <2>1, <3>1 DEF N
    <3> QED BY <3>1, <3>2, <3>3, <3>4, <3>5, DocEndKnown DEF N
  <2>3. ASSUME a \in Starts(s), b = DocEnd(s, a) PROVE next(<<a, b>>)
    <3>1. a \in 0 .. Len(Text(s)) /\ a < Len(Text(s))
      BY <2>1, <2>3 DEF N, Starts
    <3>2. a < b /\ b <= N /\ \A p \in Newlines(s) : a < p => b <= p
      BY <2>3, <3>1, DocEndIs DEF N
    <3>3. \A m \in ends : ~ (a < m /\ m < b)
      BY <1>1, <2>1, <3>2
    <3> QED BY <3>2, <3>3
  <2> QED BY <2>2, <2>3
<1>4. \A a \in Starts(s) : a \in ends /\ DocEnd(s, a) \in ends
  <2> SUFFICES ASSUME NEW a \in Starts(s) PROVE a \in ends /\ DocEnd(s, a) \in ends
    OBVIOUS
  <2>0. a \in {0} \cup Newlines(s)
    BY DEF Starts
  <2>1. a \in ends /\ a \in 0 .. Len(Text(s))
    <3>1. a \in ends
      BY <2>0
    <3>2. CASE a = 0
      BY <1>1, <3>1, <3>2 DEF N
    <3>3. CASE a \in Newlines(s)
      <4>1. a \in Nat /\ a <= N /\ N \in Nat
        BY <1>1, <3>3
      <4> QED BY <3>1, <4>1 DEF N
    <3> QED BY <2>0, <3>2, <3>3
  <2>2. DocEnd(s, a) \in Newlines(s) \/ DocEnd(s, a) = Len(Text(s))
    BY <2>1, DocEndIs
  <2> QED BY <2>1, <2>2 DEF N
<1> HIDE DEF ends, next
<1>5. ASSUME NEW d \in Documents(s) PROVE d \in {Run(a, DocEnd(s, a)) : a \in Starts(s)}
  <2>1. PICK e \in ends \X ends : next(e) /\ d = Run(e[1], e[2])
    BY <1>2
  <2>2. e = <<e[1], e[2]>> /\ e[1] \in ends /\ e[2] \in ends
    OBVIOUS
  <2>3. e[1] \in Starts(s) /\ e[2] = DocEnd(s, e[1])
    BY <1>3, <2>1, <2>2
  <2> QED BY <2>1, <2>3
<1>6. ASSUME NEW a \in Starts(s) PROVE Run(a, DocEnd(s, a)) \in Documents(s)
  <2> DEFINE e == <<a, DocEnd(s, a)>>
  <2>1. e \in ends \X ends /\ next(e) /\ e[1] = a /\ e[2] = DocEnd(s, a)
    BY <1>3, <1>4
  <2> HIDE DEF e
  <2>2. Run(e[1], e[2]) \in Documents(s)
    BY <1>2, <2>1
  <2> QED BY <2>1, <2>2
<1> QED BY <1>5, <1>6

-----------------------------------------------------------------------------
(* Exceptions of split documents. *)

\* No split document threw.
NoException == \A c \in Chunk : ~exc[c]

\* An exception comes from an index with facets, when the split document is over; the
\* handler passes on the one of its last chunk.
ExcInv ==
  /\ \A c \in Chunk : exc[c] => HasFacets(c[1]) /\ fin[c] \in {"release", "arrive", "done"}
  /\ \A s \in Streams : answer[s] = "none" <=> hpc[s] # "answered"
  /\ \A s \in Streams : answer[s] = "exception" => exc[<<s, nchunks[s]>>]

(* A split document throws only where the index has facets. *)
LEMMA ThrowNeedsFacets ==
  ASSUME RequestOK, NEW c \in Chunk, NEW r \in SplitOutcomes(c), r.throws
  PROVE  HasFacets(c[1])
<1> DEFINE s == c[1]
           d == FirstLine(s, SplitFragment(c))
           noNewline == LineEndsIn(s, d) = {}
<1>1. Format(s) \in {"csv", "csvchars", "json"} /\ HasFacets(s) \in BOOLEAN
  BY ChunkParts, TextFacts
<1>2. Fault(s, d) \in {"parse", "facet", "write", "none"} /\ (Fault(s, d) = "facet" => HasFacets(s))
  BY <1>1 DEF Fault
<1>3. \A D : /\ ~Outcome(0, D, FALSE, FALSE).throws /\ ~Outcome(0, D, TRUE, FALSE).throws
             /\ ~Outcome(1, D, TRUE, FALSE).throws /\ ~Outcome(1, D, FALSE, FALSE).throws
  BY DEF Outcome
<1> HIDE DEF d
<1>4. \/ r = Outcome(0, {}, FALSE, FALSE) \/ r = Outcome(0, {}, TRUE, FALSE)
      \/ HasFacets(s)
      \/ r = Outcome(1, {}, TRUE, FALSE) \/ r = Outcome(1, {<<d, c, "split">>}, FALSE, FALSE)
  BY <1>1, <1>2 DEF SplitOutcomes, d
<1> QED BY <1>3, <1>4

(* An exception is recorded once, where it was thrown or passed on. *)
LEMMA ExcMoves ==
  ASSUME ControlInv, GivenInv, ExcInv, NEW c \in Chunk, RunJob(c) \/ SplitDoc(c), NEW d \in Chunk
  PROVE  /\ exc[d] => exc'[d]
         /\ exc'[d] => HasFacets(d[1]) /\ fin'[d] \in {"release", "arrive", "done"}
<1>t. exc \in [Chunk -> BOOLEAN] /\ fin \in [Chunk -> FinStates] /\ RequestOK
  BY DEF ControlInv, Types, RequestOK
<1>i. exc[d] => HasFacets(d[1]) /\ fin[d] \in {"release", "arrive", "done"}
  BY DEF ExcInv
<1>f. fin[d] \in {"release", "arrive", "done"} => fin'[d] \in {"release", "arrive", "done"}
  BY FinForward
<1>1. CASE Passed(c)
  <2>1. HasPrev(c)
    BY <1>1 DEF Passed, ControlInv, ChunkInv
  <2>2. Prev(c) \in Chunk /\ Prev(c)[1] = c[1]
    BY <2>1, ChunkParts
  <2>3. exc[Prev(c)] => HasFacets(c[1])
    BY <2>2 DEF ExcInv
  <2>4. fin[c] = "passing" /\ fin' = [fin EXCEPT ![c] = "release"]
        /\ exc' = [exc EXCEPT ![c] = exc[Prev(c)]]
    BY <1>1 DEF Passed
  <2>5. CASE d = c
    BY <1>t, <1>i, <2>3, <2>4, <2>5
  <2>6. CASE d # c
    BY <1>t, <1>i, <2>4, <2>6
  <2> QED BY <2>5, <2>6
<1>2. CASE IndexSplitDoc(c)
  <2>1. PICK r \in SplitOutcomes(c) : exc' = [exc EXCEPT ![c] = r.throws]
    BY <1>2 DEF IndexSplitDoc
  <2>2. r.throws \in BOOLEAN /\ (r.throws => HasFacets(c[1]))
    BY <1>t, OutcomeType, ThrowNeedsFacets
  <2>3. fin[c] = "split" /\ fin' = [fin EXCEPT ![c] = "release"]
    BY <1>2 DEF IndexSplitDoc
  <2>4. CASE d = c
    BY <1>t, <1>i, <2>1, <2>2, <2>3, <2>4
  <2>5. CASE d # c
    BY <1>t, <1>i, <2>1, <2>3, <2>5
  <2> QED BY <2>4, <2>5
<1>3. CASE ~(Passed(c) \/ IndexSplitDoc(c))
  <2>1. exc' = exc
    BY <1>3 DEF RunJob, SplitDoc, Start, ScanPrefix, ScanNoPrefix, Delivered, IndexBlock,
                SetEnd, Ended, PassOn, Release, Arrive
  <2> QED BY <1>i, <1>f, <2>1
<1> QED BY <1>1, <1>2, <1>3

(* Only the handler that ran the split document of its last chunk passes an
   exception on to the client. *)
LEMMA ExcStep ==
  ASSUME ControlInv, GivenInv, ExcInv, [Next]_vars
  PROVE  ExcInv'
<1>r. request' = request
  BY RequestStays
<1>h. \A d \in Chunk : HasFacets(d[1])' = HasFacets(d[1])
  BY <1>r DEF HasFacets
<1>t. /\ answer \in [Streams -> {"none", "ok", "error", "exception"}]
      /\ hpc \in [Streams -> HandlerStates] /\ nchunks \in [Streams -> Nat]
  BY DEF ControlInv, Types
<1>1. ASSUME NEW h \in Streams, Handler(h) PROVE ExcInv'
  <2> USE DEF Handler, ReadChunk, StopOnError, AcquireLocal, Submit, CloseLast, Closed, Answer
  <2>1. exc' = exc
    BY <1>1
  <2>f. \A d \in Chunk : fin[d] \in {"release", "arrive", "done"} => fin'[d] = fin[d]
    BY <1>1, HandlerFin
  <2>2. \A s \in Streams : answer'[s] = "none" <=> hpc'[s] # "answered"
    BY <1>1, <1>t DEF ExcInv
  <2>3. \A s \in Streams : answer'[s] = "exception" => exc[<<s, nchunks'[s]>>]
    <3> SUFFICES ASSUME NEW s \in Streams, answer'[s] = "exception" PROVE exc[<<s, nchunks'[s]>>]
      OBVIOUS
    <3>1. CASE answer'[s] = answer[s]
      <4>1. exc[<<s, nchunks[s]>>] /\ hpc[s] = "answered"
        BY <1>t, <3>1 DEF ExcInv
      <4>2. nchunks'[s] = nchunks[s]
        BY <1>1, <1>t, <4>1
      <4> QED BY <4>1, <4>2
    <3>2. CASE answer'[s] # answer[s]
      BY <1>1, <1>t, <3>2
    <3> QED BY <3>1, <3>2
  <2>4. \A d \in Chunk : exc'[d] => HasFacets(d[1])' /\ fin'[d] \in {"release", "arrive", "done"}
    BY <1>h, <2>1, <2>f DEF ExcInv
  <2> QED BY <2>1, <2>2, <2>3, <2>4 DEF ExcInv
<1>2. ASSUME NEW c \in Chunk, RunJob(c) \/ SplitDoc(c) PROVE ExcInv'
  <2>1. UNCHANGED handVars
    BY <1>2, JobMoves
  <2>2. \A d \in Chunk : exc'[d] => HasFacets(d[1])' /\ fin'[d] \in {"release", "arrive", "done"}
    BY <1>2, <1>h, ExcMoves
  <2>3. ASSUME NEW s \in Streams, answer[s] = "exception" PROVE exc'[<<s, nchunks[s]>>]
    <3>1. exc[<<s, nchunks[s]>>] /\ hpc[s] = "answered"
      BY <1>t, <2>3 DEF ExcInv
    <3>2. <<s, nchunks[s]>> \in Chunk
      BY <3>1, LastChunk DEF ControlInv, HandlerInv
    <3> QED BY <1>2, <3>1, <3>2, ExcMoves
  <2>4. \A s \in Streams : answer[s] = "none" <=> hpc[s] # "answered"
    BY DEF ExcInv
  <2> QED BY <2>1, <2>2, <2>3, <2>4 DEF ExcInv, handVars
<1>3. CASE Idle \/ UNCHANGED vars
  <2>1. UNCHANGED vars
    BY <1>3 DEF Idle
  <2> QED BY <2>1 DEF vars, ExcInv, HasFacets
<1> QED BY <1>1, <1>2, <1>3 DEF Next

(* What is known of exceptions holds always. *)
LEMMA ExcCorrect == Spec => []ExcInv
<1>1. Init => ExcInv
  BY DEF Init, ExcInv
<1> QED BY <1>1, ExcStep, ControlCorrect, GivenCorrect, PTL DEF Spec

(* A request for an index without facets is never cut short by an exception of a
   split document, in no handler. *)
THEOREM ExceptionsNeedFacets ==
  Spec => [](\A c \in Chunk : exc[c] => HasFacets(c[1]))
<1>1. ExcInv => \A c \in Chunk : exc[c] => HasFacets(c[1])
  BY DEF ExcInv
<1> QED BY <1>1, ExcCorrect, PTL

-----------------------------------------------------------------------------
(* What is given back. *)

\* Every request got a response of its handler.
NoHandlerException == \A s \in Streams : answer[s] # "exception"

(* An answered request has no chunk left to arrive. *)
LEMMA AnsweredIsOver ==
  ASSUME ControlInv, ExcInv, PhaserInv, NEW s \in Streams, hpc[s] = "answered", answer[s] # "exception"
  PROVE  Outstanding(s) = {} /\ nchunks[s] \in Nat
<1>1. answer[s] \in {"ok", "error"}
  BY DEF ExcInv, ControlInv, Types
<1> QED BY <1>1 DEF PhaserInv, PhaserOK, ControlInv, Types

(* When every request is answered, with success or with an error, all permits are
   back: those of the pool and those of each request.  A request that ended in an
   exception is left out: its handler does not wait for its chunks. *)
THEOREM PermitsComeBack == Spec => [](NoHandlerException => PermitsReturned)
<1>1. ControlInv /\ ExcInv /\ PhaserInv /\ PermitInv /\ LocalInv => (NoHandlerException => PermitsReturned)
  <2> SUFFICES ASSUME ControlInv, ExcInv, PhaserInv, PermitInv, LocalInv, NoHandlerException,
                      \A s \in Streams : hpc[s] = "answered"
               PROVE  permits = Permits /\ \A s \in Streams : local[s] = LocalPermits
    BY DEF PermitsReturned
  <2>1. \A s \in Streams : Outstanding(s) = {} /\ nchunks[s] \in Nat
    BY AnsweredIsOver DEF NoHandlerException
  <2>2. Holding = {}
    <3> SUFFICES ASSUME NEW c \in Chunk, job[c] # "none" PROVE fin[c] \in Released
      BY DEF Holding
    <3>1. c[1] \in Streams /\ c = <<c[1], c[2]>> /\ c[2] \in 1 .. MaxChunks
      BY ChunkParts
    <3>2. c[2] <= nchunks[c[1]]
      BY DEF ControlInv, ChunkInv
    <3>3. c[2] \in 1 .. nchunks[c[1]]
      BY <2>1, <3>1, <3>2, MaxChunksType
    <3>4. fin[<<c[1], c[2]>>] = "done"
      BY <2>1, <3>1, <3>3 DEF Outstanding
    <3> QED BY <3>1, <3>4 DEF Released
  <2>3. permits = Permits
    <3>1. Cardinality(Holding) = 0
      BY <2>2, FS_EmptySet
    <3> QED BY <3>1, BulkAssumption DEF PermitInv, ControlInv, Types
  <2>4. ASSUME NEW s \in Streams PROVE local[s] = LocalPermits
    <3>1. LocalHeld(s) = {}
      BY <2>1 DEF LocalHeld, Outstanding, Released
    <3>2. Cardinality(LocalHeld(s)) = 0
      BY <3>1, FS_EmptySet
    <3>3. LocalOK(s) /\ local[s] \in Int /\ LocalPermits \in Nat
      BY BulkAssumption DEF LocalInv, ControlInv, Types
    <3> QED BY <3>2, <3>3 DEF LocalOK
  <2> QED BY <2>3, <2>4
<1> QED BY <1>1, ControlCorrect, ExcCorrect, PhaserCorrect, PermitsCorrect, LocalCorrect, PTL

(* When all requests are of the handler that counts its chunks down, and are
   answered, the shard counts no running chunk. *)
THEOREM CountComesBack == Spec => [](NoHandlerException => ShardDrained)
<1>1. ControlInv /\ ExcInv /\ PhaserInv /\ RunInv => (NoHandlerException => ShardDrained)
  <2> SUFFICES ASSUME ControlInv, ExcInv, PhaserInv, RunInv, NoHandlerException,
                      \A s \in Streams : hpc[s] = "answered" /\ CountsChunkFinish(s)
               PROVE  running = 0
    BY DEF ShardDrained
  <2>1. \A s \in Streams : Outstanding(s) = {} /\ nchunks[s] \in Nat
    BY AnsweredIsOver DEF NoHandlerException
  <2>2. Counted = {}
    <3> SUFFICES ASSUME NEW c \in Chunk, c[2] <= nchunks[c[1]] PROVE fin[c] \in Released
      BY ChunkParts DEF Counted
    <3>1. c[1] \in Streams /\ c = <<c[1], c[2]>> /\ c[2] \in 1 .. MaxChunks
      BY ChunkParts
    <3>2. c[2] \in 1 .. nchunks[c[1]]
      BY <2>1, <3>1, MaxChunksType
    <3>3. fin[<<c[1], c[2]>>] = "done"
      BY <2>1, <3>1, <3>2 DEF Outstanding
    <3> QED BY <3>1, <3>3 DEF Released
  <2> QED BY <2>2, FS_EmptySet DEF RunInv
<1> QED BY <1>1, ControlCorrect, ExcCorrect, PhaserCorrect, CountCorrect, PTL
-----------------------------------------------------------------------------
(* What a chunk hands to its predecessor, and what it keeps. *)

(* The newlines inside a run. *)
LEMMA RunLineEnds ==
  ASSUME RequestOK, NEW s \in Streams, NEW a \in Nat, NEW b \in Nat, a <= b, b <= Len(Text(s))
  PROVE  LineEndsIn(s, Run(a, b)) = {i \in 1 .. (b - a) : a + i \in Newlines(s)}
<1>1. DOMAIN Run(a, b) = 1 .. (b - a) /\ \A i \in 1 .. (b - a) : Run(a, b)[i] = a + i
  BY RunIs
<1>2. Len(Text(s)) \in Nat
  BY TextFacts
<1>3. \A i \in 1 .. (b - a) : a + i \in 1 .. Len(Text(s))
  BY <1>2
<1> QED BY <1>1, <1>3 DEF LineEndsIn, Newlines

(* The newlines of a chunk. *)
LEMMA ChunkLineEnds ==
  ASSUME RequestOK, NEW c \in TextChunk
  PROVE  /\ LineEndsIn(c[1], Positions(c)) = {i \in 1 .. (Upto(c) - Before(c)) : Before(c) + i \in Newlines(c[1])}
         /\ \A p \in Own(c) : p - Before(c) \in LineEndsIn(c[1], Positions(c))
         /\ NoNewline(c) <=> Own(c) = {}
<1> DEFINE B == Before(c)
           U == Upto(c)
           E == LineEndsIn(c[1], Positions(c))
<1>1. B \in Nat /\ U \in Nat /\ B <= U /\ U <= Len(Text(c[1])) /\ c[1] \in Streams
  BY ChunkSpan, ChunkParts DEF TextChunk
<1>2. E = {i \in 1 .. (U - B) : B + i \in Newlines(c[1])}
  <2>1. Positions(c) = Run(B, U)
    BY PositionsAre
  <2>2. LineEndsIn(c[1], Run(B, U)) = {i \in 1 .. (U - B) : B + i \in Newlines(c[1])}
    BY <1>1, RunLineEnds
  <2> QED BY <2>1, <2>2
<1>3. ASSUME NEW p \in Own(c) PROVE p - B \in E
  <2>1. p \in Newlines(c[1]) /\ B < p /\ p <= U /\ p \in Int
    BY DEF Own, Newlines
  <2>2. p - B \in 1 .. (U - B) /\ B + (p - B) = p
    BY <1>1, <2>1
  <2> QED BY <1>2, <2>1, <2>2
<1>4. ASSUME NEW i \in E PROVE B + i \in Own(c)
  <2>1. i \in 1 .. (U - B) /\ B + i \in Newlines(c[1])
    BY <1>2
  <2>2. B < B + i /\ B + i <= U
    BY <1>1, <2>1
  <2> QED BY <2>1, <2>2 DEF Own
<1>5. E = {} <=> Own(c) = {}
  BY <1>3, <1>4
<1> QED BY <1>2, <1>3, <1>5 DEF NoNewline

(* The prefix that a chunk hands over goes from its first position to the end of the
   document that position is in. *)
LEMMA PrefixIs ==
  ASSUME RequestOK, NEW c \in TextChunk, ~NoNewline(c)
  PROVE  LET m == Min(LineEndsIn(c[1], Positions(c)))
         IN  /\ m \in 1 .. (Upto(c) - Before(c)) /\ m \in LineEndsIn(c[1], Positions(c))
             /\ DocEnd(c[1], Before(c)) = Before(c) + m
             /\ SubSeq(Positions(c), 1, m) = Run(Before(c), DocEnd(c[1], Before(c)))
<1> DEFINE B == Before(c)
           U == Upto(c)
           s == c[1]
           E == LineEndsIn(s, Positions(c))
           m == Min(E)
<1>1. B \in Nat /\ U \in Nat /\ B <= U /\ U <= Len(Text(s)) /\ s \in Streams /\ Len(Text(s)) \in Nat
  BY ChunkSpan, ChunkParts, TextFacts DEF TextChunk
<1>2. E = {i \in 1 .. (U - B) : B + i \in Newlines(s)} /\ \A p \in Own(c) : p - B \in E
  BY ChunkLineEnds
<1>3. E # {} /\ E \subseteq Nat
  BY <1>2 DEF NoNewline
<1>4. m \in E /\ \A i \in E : m <= i
  BY <1>3, MinIsLeast
<1> HIDE DEF m
<1>5. m \in 1 .. (U - B) /\ B + m \in Newlines(s)
  BY <1>2, <1>4
<1> HIDE DEF E
<1>6. ASSUME NEW p \in Newlines(s), B < p PROVE B + m <= p
  <2>1. p \in Nat
    BY <1>1 DEF Newlines
  <2>2. CASE p <= U
    <3>1. p \in Own(c)
      BY <1>6, <2>2 DEF Own
    <3> QED BY <1>1, <1>2, <1>4, <1>5, <2>1, <3>1
  <2>3. CASE U < p
    BY <1>1, <1>5, <2>1, <2>3
  <2> QED BY <1>1, <2>1, <2>2, <2>3
<1>7. DocEnd(s, B) = B + m
  <2>1. B \in 0 .. Len(Text(s)) /\ B + m \in B .. Len(Text(s)) /\ B < B + m
    BY <1>1, <1>5
  <2>2. (B + m \in Newlines(s) /\ B < B + m) \/ B + m = Len(Text(s))
    BY <1>5, <2>1
  <2> HIDE DEF s
  <2> QED BY <1>1, <1>6, <2>1, <2>2, DocEndKnown
<1>8. SubSeq(Positions(c), 1, m) = Run(B, B + m)
  <2>1. Positions(c) = Run(B, U)
    BY PositionsAre
  <2>2. SubSeq(Run(B, U), 1, m) = Run(B, B + m)
    <3>1. m \in Nat /\ m <= U - B
      BY <1>1, <1>5
    <3> HIDE DEF B, U
    <3> QED BY <1>1, <3>1, RunHead
  <2> QED BY <2>1, <2>2
<1>9. m \in E
  BY <1>4
<1> QED BY <1>5, <1>7, <1>8, <1>9 DEF m, E

(* A chunk without newline passes itself on, with what follows it. *)
LEMMA PassedOnIs ==
  ASSUME RequestOK, NEW c \in TextChunk, NoNewline(c)
  PROVE  Positions(c) \o Run(Upto(c), DocEnd(c[1], Upto(c))) = Run(Before(c), DocEnd(c[1], Before(c)))
<1> DEFINE B == Before(c)
           U == Upto(c)
           s == c[1]
<1>1. B \in Nat /\ U \in Nat /\ B <= U /\ U <= Len(Text(s)) /\ s \in Streams /\ Len(Text(s)) \in Nat
  BY ChunkSpan, ChunkParts, TextFacts DEF TextChunk
<1>2. Own(c) = {}
  BY ChunkLineEnds
<1>3. \A p \in Newlines(s) : ~ (B < p /\ p <= U)
  BY <1>2 DEF Own
<1>4. DocEnd(s, B) = DocEnd(s, U)
  BY <1>1, <1>3, SameDoc
<1>5. DocEnd(s, U) \in Nat /\ U <= DocEnd(s, U)
  BY <1>1, DocEndIs
<1>6. Positions(c) = Run(B, U)
  BY PositionsAre
<1>7. Run(B, U) \o Run(U, DocEnd(s, U)) = Run(B, DocEnd(s, U))
  BY <1>1, <1>5, RunJoin
<1> QED BY <1>4, <1>6, <1>7

(* Behind the last chunk there is nothing. *)
LEMMA NothingBehind ==
  ASSUME RequestOK, NEW c \in TextChunk, c[2] = NumChunks(c[1])
  PROVE  Run(Upto(c), DocEnd(c[1], Upto(c))) = << >>
<1>1. Upto(c) = Len(Text(c[1])) /\ Len(Text(c[1])) \in Nat /\ c[1] \in Streams
  BY ChunkSpan, ChunkParts, TextFacts DEF TextChunk
<1>2. \A p \in Newlines(c[1]) : p <= Len(Text(c[1])) /\ p \in Nat
  BY <1>1 DEF Newlines
<1>3. After(c[1], Upto(c)) = {}
  BY <1>1, <1>2 DEF After
<1>4. DocEnd(c[1], Upto(c)) = Len(Text(c[1]))
  BY <1>3 DEF DocEnd
<1> QED BY <1>1, <1>4, RunEnds

(* A document is its own first line, and ends with a newline or with the text. *)
LEMMA OneLine ==
  ASSUME RequestOK, NEW s \in Streams, NEW a \in 0 .. Len(Text(s)), a < Len(Text(s))
  PROVE  /\ FirstLine(s, Run(a, DocEnd(s, a))) = Run(a, DocEnd(s, a))
         /\ LineEndsIn(s, Run(a, DocEnd(s, a))) = {} => Text(s)[Len(Text(s))] # "n"
<1> DEFINE e == DocEnd(s, a)
           E == LineEndsIn(s, Run(a, e))
           N == Len(Text(s))
<1>1. /\ N \in Nat /\ e \in Nat /\ a \in Nat /\ a < e /\ e <= N
      /\ \A p \in Newlines(s) : a < p => e <= p
      /\ e \in Newlines(s) \/ e = N
  BY DocEndIs, TextFacts
<1>2. E = {i \in 1 .. (e - a) : a + i \in Newlines(s)}
  BY <1>1, RunLineEnds
<1>3. \A i \in E : i = e - a
  BY <1>1, <1>2
<1>4. e \in Newlines(s) => e - a \in E
  <2>1. e - a \in 1 .. (e - a) /\ a + (e - a) = e
    BY <1>1
  <2> QED BY <1>2, <2>1
<1> HIDE DEF E, e, N
<1>5. CASE E = {}
  <2>1. e = N /\ N \notin Newlines(s) /\ N \in 1 .. N
    BY <1>1, <1>4, <1>5
  <2>2. FirstLine(s, Run(a, e)) = Run(a, e)
    BY <1>5 DEF FirstLine, E
  <2> QED BY <2>1, <2>2 DEF Newlines, N, e
<1>6. CASE E # {}
  <2>1. E \subseteq Nat
    BY <1>1, <1>3
  <2>2. Min(E) = e - a
    BY <1>3, <1>6, <2>1, MinIsLeast
  <2>3. e - a \in Nat /\ e - a <= e - a /\ a <= e /\ a + (e - a) = e
    BY <1>1
  <2>4. SubSeq(Run(a, e), 1, e - a) = Run(a, a + (e - a))
    BY <1>1, <2>3, RunHead
  <2>5. SubSeq(Run(a, e), 1, e - a) = Run(a, e)
    BY <2>3, <2>4
  <2>6. FirstLine(s, Run(a, e)) = Run(a, e)
    BY <1>6, <2>2, <2>5 DEF FirstLine, E
  <2> QED BY <1>6, <2>6 DEF E, e
<1> QED BY <1>5, <1>6

(* A document that starts at the start of the text or behind a newline does not
   start inside a document. *)
LEMMA StartsOutside ==
  ASSUME RequestOK, NEW s \in Streams, NEW a \in Starts(s)
  PROVE  ~StartsInsideDoc(s, Run(a, DocEnd(s, a)))
<1>1. /\ Len(Text(s)) \in Nat /\ a < Len(Text(s))
      /\ a = 0 \/ (a \in Newlines(s) /\ a \in Nat /\ Text(s)[a] = "n")
  BY TextFacts DEF Starts, Newlines
<1>2. a \in Nat /\ a \in 0 .. Len(Text(s))
  BY <1>1
<1>3. DocEnd(s, a) \in Nat /\ a < DocEnd(s, a)
  BY <1>1, <1>2, DocEndIs
<1>4. Run(a, DocEnd(s, a))[1] = a + 1
  BY <1>2, <1>3, RunEnds
<1>5. (a + 1) - 1 = a
  BY <1>2
<1> QED BY <1>1, <1>4, <1>5 DEF StartsInsideDoc
-----------------------------------------------------------------------------
(* The documents that start in a chunk. *)

\* A chunk's own newlines, and the start of the text in the first, start documents.
StartsOf(c) == (IF HasPrev(c) THEN {} ELSE {0}) \cup Own(c)

\* Where lines of a chunk may start, as offsets.
Kept(c) == {SkipPrefix(c)} \cup LineEnds(c)

(* A chunk skips the document its predecessor completes, and keeps those that
   start in it. *)
LEMMA KeptAre ==
  ASSUME RequestOK, NEW c \in TextChunk, ~(HasPrev(c) /\ NoNewline(c))
  PROVE  /\ \A i \in Kept(c) : i \in 0 .. (Upto(c) - Before(c)) /\ Before(c) + i \in StartsOf(c)
         /\ \A a \in StartsOf(c) : a - Before(c) \in Kept(c)
         /\ \A i \in LineEnds(c) : i \in 1 .. (Upto(c) - Before(c)) /\ Before(c) + i \in Own(c)
<1> DEFINE B == Before(c)
           U == Upto(c)
           E == LineEndsIn(c[1], Positions(c))
<1>1. B \in Nat /\ U \in Nat /\ B <= U /\ (~HasPrev(c) => B = 0)
  BY ChunkSpan
<1>2. E = {i \in 1 .. (U - B) : B + i \in Newlines(c[1])} /\ \A p \in Own(c) : p - B \in E
  BY ChunkLineEnds
<1>3. \A i \in E : i \in 1 .. (U - B) /\ B + i \in Own(c)
  <2> SUFFICES ASSUME NEW i \in E PROVE i \in 1 .. (U - B) /\ B + i \in Own(c)
    OBVIOUS
  <2>1. i \in 1 .. (U - B) /\ B + i \in Newlines(c[1])
    BY <1>2
  <2>2. B < B + i /\ B + i <= U
    BY <1>1, <2>1
  <2> QED BY <2>1, <2>2 DEF Own
<1>4. LineEnds(c) \subseteq E
  BY DEF LineEnds
<1>5. CASE HasPrev(c)
  <2>1. E # {} /\ SkipPrefix(c) = Min(E)
    BY <1>5 DEF NoNewline, SkipPrefix
  <2> HIDE DEF E
  <2>2. E \subseteq Nat
    BY <1>1, <1>2
  <2>3. SkipPrefix(c) \in E /\ \A i \in E : SkipPrefix(c) <= i
    BY <2>1, <2>2, MinIsLeast
  <2>4. \A i \in E : i = SkipPrefix(c) \/ i > SkipPrefix(c)
    <3>1. SkipPrefix(c) \in Nat /\ \A i \in E : i \in Nat
      BY <2>2, <2>3
    <3> QED BY <2>3, <3>1
  <2>5. Kept(c) = E
    BY <1>4, <2>3, <2>4 DEF Kept, LineEnds, E
  <2>6. StartsOf(c) = Own(c)
    BY <1>5 DEF StartsOf
  <2>7. \A i \in E : i \in 0 .. (U - B)
    BY <1>3
  <2> QED BY <1>2, <1>3, <1>4, <2>5, <2>6, <2>7
<1>6. CASE ~HasPrev(c)
  <2>1. SkipPrefix(c) = 0 /\ B = 0
    BY <1>1, <1>6 DEF SkipPrefix
  <2> HIDE DEF B, U
  <2>2. \A i \in E : i > 0 /\ i \in 0 .. (U - B)
    BY <1>1, <1>3
  <2>3. LineEnds(c) = E
    BY <2>1, <2>2 DEF LineEnds
  <2>4. Kept(c) = {0} \cup E /\ StartsOf(c) = {0} \cup Own(c)
    BY <1>6, <2>1, <2>3 DEF Kept, StartsOf
  <2> HIDE DEF E
  <2>5. B + 0 \in StartsOf(c) /\ 0 - B \in Kept(c) /\ 0 \in 0 .. (U - B)
    BY <1>1, <2>1, <2>4
  <2> QED BY <1>2, <1>3, <2>2, <2>3, <2>4, <2>5 DEF B, U
<1> QED BY <1>5, <1>6

(* A line of a chunk is a document that starts in the chunk. *)
LEMMA LineIs ==
  ASSUME RequestOK, NEW c \in TextChunk, ~(HasPrev(c) /\ NoNewline(c)), NEW i \in LineEnds(c)
  PROVE  LET a == Before(c) + LineStart(c, i)
         IN  /\ LineStart(c, i) \in Nat /\ LineStart(c, i) < i
             /\ a \in StartsOf(c) /\ a \in Starts(c[1])
             /\ DocEnd(c[1], a) = Before(c) + i
             /\ Line(c, i) = Run(a, DocEnd(c[1], a))
<1> DEFINE B == Before(c)
           U == Upto(c)
           s == c[1]
           N == Len(Text(s))
           S == {SkipPrefix(c)} \cup {j \in LineEnds(c) : j < i}
           m == LineStart(c, i)
           a == B + m
<1>1. B \in Nat /\ U \in Nat /\ B <= U /\ U <= N /\ s \in Streams /\ N \in Nat
  BY ChunkSpan, ChunkParts, TextFacts DEF TextChunk
<1>2. /\ \A j \in Kept(c) : j \in 0 .. (U - B) /\ B + j \in StartsOf(c)
      /\ \A x \in StartsOf(c) : x - B \in Kept(c)
      /\ \A j \in LineEnds(c) : j \in 1 .. (U - B) /\ B + j \in Own(c)
  BY KeptAre
<1>3. S \subseteq Kept(c) /\ S # {}
  BY DEF Kept
<1>4. S \subseteq 0 .. (U - B) /\ U - B \in Nat
  BY <1>1, <1>2, <1>3
<1>5. m = Max(S)
  BY DEF LineStart
<1>6. \A j \in S : j < i
  BY DEF LineEnds
<1>7. i \in 1 .. (U - B) /\ B + i \in Own(c)
  BY <1>2
<1> HIDE DEF S, m
<1>8. m \in S /\ \A j \in S : m >= j
  BY <1>3, <1>4, <1>5, MaxIsGreatest
<1>9. m \in 0 .. (U - B) /\ m < i /\ a \in StartsOf(c)
  BY <1>2, <1>3, <1>4, <1>6, <1>8
<1>10. a \in 0 .. N /\ a < B + i /\ B + i \in a .. N /\ a < N
  BY <1>1, <1>7, <1>9
<1>11. a \in Starts(s)
  <2>1. a = 0 \/ a \in Newlines(s)
    BY <1>9 DEF StartsOf, Own
  <2> QED BY <1>10, <2>1 DEF Starts
<1>12. ASSUME NEW p \in Newlines(s), a < p PROVE B + i <= p
  <2>1. p \in Nat
    BY <1>1 DEF Newlines
  <2>2. CASE B + i > p
    <3>1. B < p /\ p <= U
      BY <1>1, <1>7, <1>9, <1>12, <2>1, <2>2
    <3>2. p \in Own(c) /\ p \in StartsOf(c)
      BY <3>1 DEF Own, StartsOf
    <3>3. p - B \in Kept(c)
      BY <1>2, <3>2
    <3>4. p - B < i
      BY <1>1, <1>7, <2>1, <2>2
    <3>5. p - B \in S
      BY <3>3, <3>4 DEF S, Kept
    <3>6. m >= p - B
      BY <1>8, <3>5
    <3> QED BY <1>1, <1>9, <1>12, <2>1, <3>6
  <2> QED BY <1>1, <1>7, <2>1, <2>2
<1>13. DocEnd(s, a) = B + i
  <2>1. (B + i \in Newlines(s) /\ a < B + i) \/ B + i = N
    BY <1>7, <1>10 DEF Own
  <2> HIDE DEF s, a
  <2> QED BY <1>1, <1>10, <1>12, <2>1, DocEndKnown DEF N
<1>14. Line(c, i) = Run(a, B + i)
  <2>1. Positions(c) = Run(B, U)
    BY PositionsAre
  <2>2. m \in Nat /\ i \in Nat /\ m <= i /\ i <= U - B
    BY <1>1, <1>7, <1>9
  <2> HIDE DEF B, U
  <2>3. PICK b \in Nat, u \in Nat, x \in Nat, y \in Nat : b = B /\ u = U /\ x = m /\ y = i
    BY <1>1, <2>2
  <2>4. SubSeq(Run(b, u), x + 1, y) = Run(b + x, b + y)
    <3>1. b <= u /\ x <= y /\ y <= u - b
      BY <1>1, <2>2, <2>3
    <3> QED BY <3>1, RunCut
  <2> QED BY <2>1, <2>3, <2>4 DEF Line, m
<1>15. m \in Nat /\ m < i
  BY <1>1, <1>9
<1> QED BY <1>9, <1>11, <1>13, <1>14, <1>15 DEF m

(* Where all lines of a chunk are good, its end fragment starts with the last
   document that starts in it. *)
LEMMA TailIs ==
  ASSUME RequestOK, NEW c \in TextChunk, ~(HasPrev(c) /\ NoNewline(c)), FaultyEnds(c) = {}
  PROVE  LET a == Before(c) + EndOffset(c)
         IN  /\ EndOffset(c) \in 0 .. (Upto(c) - Before(c))
             /\ a \in StartsOf(c) /\ a <= Upto(c)
             /\ \A p \in Newlines(c[1]) : ~(a < p /\ p <= Upto(c))
             /\ DocEnd(c[1], a) = DocEnd(c[1], Upto(c))
<1> DEFINE B == Before(c)
           U == Upto(c)
           s == c[1]
           N == Len(Text(s))
           m == EndOffset(c)
           a == B + m
<1>1. B \in Nat /\ U \in Nat /\ B <= U /\ U <= N /\ s \in Streams /\ N \in Nat
  BY ChunkSpan, ChunkParts, TextFacts DEF TextChunk
<1>2. /\ \A j \in Kept(c) : j \in 0 .. (U - B) /\ B + j \in StartsOf(c)
      /\ \A x \in StartsOf(c) : x - B \in Kept(c)
  BY KeptAre
<1>3. m = Max(Kept(c))
  BY DEF EndOffset, Block, Kept, NoNewline
<1>4. Kept(c) \subseteq 0 .. (U - B) /\ U - B \in Nat /\ Kept(c) # {}
  BY <1>1, <1>2 DEF Kept
<1> HIDE DEF m
<1>5. m \in Kept(c) /\ \A j \in Kept(c) : m >= j
  BY <1>3, <1>4, MaxIsGreatest
<1>6. m \in 0 .. (U - B) /\ a \in StartsOf(c) /\ a <= U /\ a \in 0 .. N /\ U \in a .. N
  BY <1>1, <1>2, <1>5
<1>7. ASSUME NEW p \in Newlines(s), a < p, p <= U PROVE FALSE
  <2>1. p \in Nat
    BY <1>1 DEF Newlines
  <2>2. B < p
    BY <1>1, <1>6, <1>7, <2>1
  <2>3. p \in StartsOf(c)
    BY <1>7, <2>2 DEF Own, StartsOf
  <2>4. m >= p - B
    BY <1>2, <1>5, <2>3
  <2> QED BY <1>1, <1>6, <1>7, <2>1, <2>4
<1>8. DocEnd(s, a) = DocEnd(s, U)
  <2> HIDE DEF s, a, U
  <2> QED BY <1>1, <1>6, <1>7, SameDoc DEF N
<1> QED BY <1>6, <1>7, <1>8 DEF m

(* The glued fragment is that document. *)
LEMMA GluedIs ==
  ASSUME RequestOK, NEW c \in TextChunk, ~(HasPrev(c) /\ NoNewline(c)), FaultyEnds(c) = {},
         endOff[c] = EndOffset(c), nextFrag[c][1] = Run(Upto(c), DocEnd(c[1], Upto(c)))
  PROVE  LET a == Before(c) + EndOffset(c)
         IN  SplitFragment(c) = Run(a, DocEnd(c[1], a))
<1> DEFINE B == Before(c)
           U == Upto(c)
           s == c[1]
           N == Len(Text(s))
           m == EndOffset(c)
           a == B + m
<1>1. B \in Nat /\ U \in Nat /\ B <= U /\ U <= N /\ s \in Streams /\ N \in Nat
  BY ChunkSpan, ChunkParts, TextFacts DEF TextChunk
<1>2. m \in 0 .. (U - B) /\ DocEnd(s, a) = DocEnd(s, U)
  BY TailIs
<1>3. DocEnd(s, U) \in Nat /\ U <= DocEnd(s, U)
  BY <1>1, DocEndIs
<1>4. Positions(c) = Run(B, U)
  BY PositionsAre
<1> HIDE DEF B, U, s, m
<1>5. m \in Nat /\ m <= U - B /\ a \in Nat /\ a <= U
  BY <1>1, <1>2
<1>6. SubSeq(Run(B, U), m + 1, Len(Run(B, U))) = Run(a, U)
  <2> SUFFICES \A b \in Nat, u \in Nat, x \in Nat :
                 b <= u /\ x <= u - b => SubSeq(Run(b, u), x + 1, Len(Run(b, u))) = Run(b + x, u)
    BY <1>1, <1>5, Zenon
  <2> QED BY RunTail, Zenon
<1>7. Run(a, U) \o Run(U, DocEnd(s, U)) = Run(a, DocEnd(s, U))
  BY <1>1, <1>3, <1>5, RunJoin
<1>8. SplitFragment(c) = Run(a, U) \o Run(U, DocEnd(s, U))
  BY <1>4, <1>6 DEF SplitFragment, B, U, s, m
<1> QED BY <1>2, <1>7, <1>8 DEF m, B, s
-----------------------------------------------------------------------------
(* What the chunks of a stream know of each other, as long as no error ended the
   handler's loop early. *)

\* What follows chunk c, up to the end of the document that spans its end.
Behind(c) == Run(Upto(c), DocEnd(c[1], Upto(c)))

\* A closed stream was cut completely; a fragment handed over is what follows the chunk;
\* an end offset is the one of the text.
CutInv == \A s \in Streams : ~error[s] /\ hpc[s] \in {"close"} \cup Closed3 => nchunks[s] = NumChunks(s)
FragInv == \A c \in Chunk : nextFrag[c] # << >> /\ ~error[c[1]] => nextFrag[c][1] = Behind(c)
EndInv == \A c \in Chunk : endOff[c] # -1 => endOff[c] = EndOffset(c)

TextInv == CutInv /\ FragInv /\ EndInv

(* A step changes none of what is read from the text. *)
LEMMA SameParts ==
  ASSUME request' = request
  PROVE  /\ \A s \in Streams : Text(s)' = Text(s) /\ Format(s)' = Format(s) /\ HasFacets(s)' = HasFacets(s)
         /\ \A s \in Streams : NumChunks(s)' = NumChunks(s)
         /\ \A c \in Chunk : /\ Text(c[1])' = Text(c[1]) /\ Format(c[1])' = Format(c[1])
                             /\ Behind(c)' = Behind(c) /\ EndOffset(c)' = EndOffset(c)
                             /\ NoNewline(c)' = NoNewline(c) /\ FaultyEnds(c)' = FaultyEnds(c)
<1>1. /\ \A s \in Streams : Text(s)' = Text(s) /\ Format(s)' = Format(s) /\ HasFacets(s)' = HasFacets(s)
      /\ \A c \in Chunk : Text(c[1])' = Text(c[1]) /\ Format(c[1])' = Format(c[1]) /\ HasFacets(c[1])' = HasFacets(c[1])
  BY DEF Text, Format, HasFacets
<1>2. ASSUME NEW c \in Chunk
      PROVE  /\ Behind(c)' = Behind(c) /\ EndOffset(c)' = EndOffset(c)
             /\ NoNewline(c)' = NoNewline(c) /\ FaultyEnds(c)' = FaultyEnds(c)
  <2>1. Text(c[1])' = Text(c[1]) /\ Format(c[1])' = Format(c[1]) /\ HasFacets(c[1])' = HasFacets(c[1])
    BY <1>1
  <2>2. Upto(c)' = Upto(c) /\ Newlines(c[1])' = Newlines(c[1])
    BY <2>1 DEF Upto, Before, Newlines
  <2>3. Behind(c)' = Behind(c)
    BY <2>1, <2>2 DEF Behind, Run, DocEnd, After
  <2>4. Positions(c)' = Positions(c)
    BY <2>1 DEF Positions
  <2>5. LineEndsIn(c[1], Positions(c))' = LineEndsIn(c[1], Positions(c))
    BY <2>1, <2>4 DEF LineEndsIn
  <2>6. SkipPrefix(c)' = SkipPrefix(c) /\ LineEnds(c)' = LineEnds(c)
    BY <2>5 DEF SkipPrefix, LineEnds
  <2>7. \A i : Line(c, i)' = Line(c, i) /\ LineStart(c, i)' = LineStart(c, i)
    BY <2>4, <2>6 DEF Line, LineStart
  <2>8. \A d : Fault(c[1], d)' = Fault(c[1], d)
    BY <2>1 DEF Fault, Kinds
  <2>9. FaultyEnds(c)' = FaultyEnds(c)
    BY <2>6, <2>7, <2>8 DEF FaultyEnds
  <2>10. Block(c)' = Block(c)
    BY <2>1, <2>6, <2>7, <2>8, <2>9 DEF Block
  <2> QED BY <2>3, <2>5, <2>9, <2>10 DEF EndOffset, NoNewline
<1>3. \A s \in Streams : NumChunks(s)' = NumChunks(s)
  BY SameText
<1> QED BY <1>1, <1>2, <1>3

(* An error is never forgotten. *)
LEMMA ErrorStays ==
  ASSUME ControlInv, [Next]_vars, NEW s \in Streams, error[s]
  PROVE  error'[s]
<1>t. error \in [Streams -> BOOLEAN]
  BY DEF ControlInv, Types
<1>1. CASE \E c \in Chunk : IndexBlock(c) \/ IndexSplitDoc(c)
  BY <1>1, <1>t, ChunkParts DEF IndexBlock, IndexSplitDoc
<1>2. CASE ~\E c \in Chunk : IndexBlock(c) \/ IndexSplitDoc(c)
  <2>1. error' = error
    BY <1>2 DEF Next, vars, Handler, RunJob, SplitDoc, Idle, ctxVars, ReadChunk, StopOnError, AcquireLocal,
       Submit, CloseLast, Closed, Answer, Start, ScanPrefix, ScanNoPrefix, Delivered, SetEnd,
       Ended, PassOn, Passed, Release, Arrive
  <2> QED BY <2>1
<1> QED BY <1>1, <1>2

(* A chunk that a handler made is a part of the text. *)
LEMMA MadeChunk ==
  ASSUME ControlInv, NEW c \in Chunk, c[2] <= nchunks[c[1]]
  PROVE  c \in TextChunk
<1>1. c[1] \in Streams /\ c[2] \in Nat /\ nchunks[c[1]] \in Nat
  BY ChunkParts, MaxChunksType DEF ControlInv, Types
<1>2. NumChunks(c[1]) \in Nat
  BY <1>1, TextFacts, MaxChunksType DEF ControlInv, Types, RequestOK
<1>3. nchunks[c[1]] <= NumChunks(c[1])
  BY <1>1 DEF ControlInv, HandlerInv
<1> QED BY <1>1, <1>2, <1>3 DEF TextChunk

(* A chunk at work was made. *)
LEMMA AtWork ==
  ASSUME ControlInv, NEW c \in Chunk, job[c] # "none" \/ nextFrag[c] # << >> \/ endOff[c] # -1 \/ fin[c] # "open"
  PROVE  c[2] <= nchunks[c[1]] /\ c \in TextChunk
<1>1. c[1] \in Streams /\ c[2] \in Nat /\ nchunks[c[1]] \in Nat
  BY ChunkParts, MaxChunksType DEF ControlInv, Types
<1>2. c[2] <= nchunks[c[1]]
  BY <1>1 DEF ControlInv, ChunkInv
<1> QED BY <1>2, MadeChunk

(* These facts survive a step of a handler. *)
LEMMA HandlerKeepsText ==
  ASSUME ControlInv, TextInv, NEW h \in Streams, Handler(h)
  PROVE  TextInv'
<1>n. [Next]_vars
  BY DEF Next
<1>r. request' = request /\ RequestOK
  BY <1>n, RequestStays DEF ControlInv, Types, RequestOK
<1>e. error' = error
  BY DEF Handler, ctxVars, ReadChunk, StopOnError, AcquireLocal, Submit, CloseLast, Closed, Answer
<1>t. /\ hpc \in [Streams -> HandlerStates] /\ nchunks \in [Streams -> Nat]
      /\ nextFrag \in [Chunk -> Seq(Seq(1 .. MaxLen))] /\ error \in [Streams -> BOOLEAN]
  BY DEF ControlInv, Types
<1>1. CutInv'
  <2> SUFFICES ASSUME NEW s \in Streams, ~error[s], hpc'[s] \in {"close"} \cup Closed3
               PROVE  nchunks'[s] = NumChunks(s)
    BY <1>r, <1>e, SameParts DEF CutInv
  <2>1. CASE hpc[s] \in {"close"} \cup Closed3
    <3>1. nchunks[s] = NumChunks(s)
      BY <2>1 DEF TextInv, CutInv
    <3>2. nchunks'[s] = nchunks[s]
      BY <1>t, <2>1 DEF Handler, ReadChunk, StopOnError, AcquireLocal, Submit, CloseLast, Closed, Answer, Closed3
    <3> QED BY <3>1, <3>2
  <2>2. CASE hpc[s] \notin {"close"} \cup Closed3
    BY <1>t, <2>2 DEF Handler, ReadChunk, StopOnError, AcquireLocal, Submit, CloseLast, Closed, Answer, Closed3
  <2> QED BY <2>1, <2>2
<1>2. FragInv'
  <2> SUFFICES ASSUME NEW c \in Chunk, nextFrag'[c] # << >>, ~error[c[1]]
               PROVE  nextFrag'[c][1] = Behind(c)
    BY <1>r, <1>e, SameParts DEF FragInv
  <2>1. CASE nextFrag'[c] = nextFrag[c]
    BY <2>1 DEF TextInv, FragInv
  <2>2. CASE nextFrag'[c] # nextFrag[c]
    <3>1. CloseLast(h)
      BY <2>2 DEF Handler, ReadChunk, StopOnError, AcquireLocal, Submit, Closed, Answer
    <3>2. nextFrag' = [nextFrag EXCEPT ![<<h, nchunks[h]>>] = << << >> >>] /\ hpc[h] = "close"
      BY <3>1 DEF CloseLast, Hand
    <3>3. c = <<h, nchunks[h]>>
      BY <1>t, <2>2, <3>2
    <3>4. nextFrag'[c] = << << >> >>
      BY <1>t, <3>2, <3>3
    <3>5. c[1] = h /\ c[2] = nchunks[h]
      BY <3>3
    <3>6. c[2] = NumChunks(c[1])
      BY <3>2, <3>5 DEF TextInv, CutInv
    <3>7. c \in TextChunk
      BY <1>t, <3>5, MadeChunk
    <3>8. Behind(c) = << >>
      BY <1>r, <3>6, <3>7, NothingBehind DEF Behind
    <3> QED BY <3>4, <3>8
  <2> QED BY <2>1, <2>2
<1>3. EndInv'
  <2>1. endOff' = endOff
    BY DEF Handler, ReadChunk, StopOnError, AcquireLocal, Submit, CloseLast, Closed, Answer
  <2> QED BY <1>r, <2>1, SameParts DEF TextInv, EndInv
<1> QED BY <1>1, <1>2, <1>3 DEF TextInv

(* These facts survive a step of a pool thread: a chunk hands to its predecessor the
   prefix up to its first newline, or itself and what it was handed. *)
LEMMA JobKeepsText ==
  ASSUME ControlInv, TextInv, NEW c \in Chunk, RunJob(c) \/ SplitDoc(c)
  PROVE  TextInv'
<1>n. [Next]_vars
  BY DEF Next
<1>r. request' = request /\ RequestOK
  BY <1>n, RequestStays DEF ControlInv, Types, RequestOK
<1>e. \A s \in Streams : error[s] => error'[s]
  BY <1>n, ErrorStays
<1>t. nextFrag \in [Chunk -> Seq(Seq(1 .. MaxLen))]
  BY DEF ControlInv, Types
<1>p. \A d \in Chunk : d[1] \in Streams
  BY ChunkParts
<1>1. CutInv'
  <2>1. hpc' = hpc /\ nchunks' = nchunks
    BY JobMoves DEF handVars
  <2> QED BY <1>r, <1>e, <2>1, SameParts DEF TextInv, CutInv
<1>2. FragInv'
  <2> SUFFICES ASSUME NEW d \in Chunk, nextFrag'[d] # << >>, ~error[d[1]]
               PROVE  nextFrag'[d][1] = Behind(d)
    BY <1>r, <1>e, <1>p, SameParts DEF FragInv
  <2>1. CASE nextFrag'[d] = nextFrag[d]
    BY <2>1 DEF TextInv, FragInv
  <2>2. CASE nextFrag'[d] # nextFrag[d]
    <3>1. /\ HasPrev(c) /\ Prev(c) \in Chunk /\ d = Prev(c) /\ d[1] = c[1]
          /\ ScanPrefix(c) \/ PassOn(c)
      BY <2>2, HandOver
    <3>2. c \in TextChunk
      <4>1. job[c] # "none" \/ fin[c] # "open"
        BY <3>1 DEF ScanPrefix, PassOn
      <4> QED BY <4>1, AtWork
    <3>3. Upto(d) = Before(c)
      BY <1>r, <3>1, <3>2, ChunkSpan
    <3>4. Behind(d) = Run(Before(c), DocEnd(c[1], Before(c)))
      BY <3>1, <3>3 DEF Behind
    <3>5. CASE ScanPrefix(c)
      <4> DEFINE f == SubSeq(Positions(c), 1, Min(LineEndsIn(c[1], Positions(c))))
      <4>1. nextFrag' = [nextFrag EXCEPT ![Prev(c)] = <<f>>] /\ ~NoNewline(c)
        BY <3>5 DEF ScanPrefix, Hand, NoNewline
      <4>2. f = Behind(d)
        BY <1>r, <3>2, <3>4, <4>1, PrefixIs
      <4> HIDE DEF f
      <4>3. nextFrag'[d] = <<f>>
        BY <1>t, <3>1, <4>1
      <4> QED BY <4>2, <4>3
    <3>6. CASE PassOn(c)
      <4> DEFINE f == Positions(c) \o nextFrag[c][1]
      <4>1. nextFrag' = [nextFrag EXCEPT ![Prev(c)] = <<f>>] /\ fin[c] = "split" /\ endOff[c] = -2
        BY <3>6 DEF PassOn, Hand
      <4>2. NoNewline(c) /\ nextFrag[c] # << >>
        BY <4>1 DEF ControlInv, ChunkInv
      <4>3. nextFrag[c][1] = Run(Upto(c), DocEnd(c[1], Upto(c)))
        BY <3>1, <4>2 DEF TextInv, FragInv, Behind
      <4>4. f = Behind(d)
        BY <1>r, <3>2, <3>4, <4>2, <4>3, PassedOnIs
      <4> HIDE DEF f
      <4>5. nextFrag'[d] = <<f>>
        BY <1>t, <3>1, <4>1
      <4> QED BY <4>4, <4>5
    <3> QED BY <3>1, <3>5, <3>6
  <2> QED BY <2>1, <2>2
<1>3. EndInv'
  <2>1. \A d \in Chunk : endOff'[d] = endOff[d] \/ endOff'[d] = EndOffset(d)
    BY EndMoves
  <2> QED BY <1>r, <2>1, SameParts DEF TextInv, EndInv
<1> QED BY <1>1, <1>2, <1>3 DEF TextInv

(* What the chunks know of each other is right, always. *)
LEMMA TextCorrect == Spec => []TextInv
<1>1. Init => TextInv
  BY DEF Init, TextInv, CutInv, FragInv, EndInv, Closed3
<1>2. ControlInv /\ TextInv /\ [Next]_vars => TextInv'
  <2> SUFFICES ASSUME ControlInv, TextInv, [Next]_vars PROVE TextInv'
    OBVIOUS
  <2>1. CASE Idle \/ UNCHANGED vars
    <3>1. UNCHANGED vars
      BY <2>1 DEF Idle
    <3>2. request' = request
      BY <3>1 DEF vars
    <3> QED BY <3>1, <3>2, SameParts DEF vars, TextInv, CutInv, FragInv, EndInv
  <2> QED BY <2>1, HandlerKeepsText, JobKeepsText DEF Next
<1> QED BY <1>1, <1>2, ControlCorrect, PTL DEF Spec
-----------------------------------------------------------------------------
(* Good streams. *)

\* All documents of a stream are good, and the last is complete where it has to be.
Clean(s) ==
  /\ \A d \in Documents(s) : Fault(s, d) = "none"
  /\ Format(s) = "json" \/ Text(s) = << >> \/ Text(s)[Len(Text(s))] = "n"

(* No line of a stream of good documents is faulty. *)
LEMMA GoodLines ==
  ASSUME RequestOK, NEW c \in TextChunk, \A d \in Documents(c[1]) : Fault(c[1], d) = "none"
  PROVE  FaultyEnds(c) = {}
<1>1. CASE HasPrev(c) /\ NoNewline(c)
  <2>1. LineEnds(c) = {}
    BY <1>1 DEF LineEnds, NoNewline
  <2> QED BY <2>1 DEF FaultyEnds
<1>2. CASE ~(HasPrev(c) /\ NoNewline(c))
  <2> SUFFICES ASSUME NEW i \in LineEnds(c) PROVE Fault(c[1], Line(c, i)) = "none"
    BY DEF FaultyEnds
  <2>1. c[1] \in Streams
    BY ChunkParts DEF TextChunk
  <2>2. Line(c, i) \in Documents(c[1])
    BY <1>2, <2>1, LineIs, DocumentsAre
  <2> QED BY <2>2
<1> QED BY <1>1, <1>2

\* Where the fragment that spans the end of a chunk starts.
TailStart(c) == Before(c) + EndOffset(c)

(* When both halves of the end fragment are known, it is empty or one document. *)
LEMMA GluedIsDocument ==
  ASSUME RequestOK, NEW c \in TextChunk, ~(HasPrev(c) /\ NoNewline(c)), FaultyEnds(c) = {},
         endOff[c] = EndOffset(c), nextFrag[c][1] = Behind(c)
  PROVE  \/ TailStart(c) = Len(Text(c[1])) /\ SplitFragment(c) = << >>
         \/ /\ TailStart(c) \in Starts(c[1]) /\ TailStart(c) \in StartsOf(c)
            /\ SplitFragment(c) # << >>
            /\ FirstLine(c[1], SplitFragment(c)) = Run(TailStart(c), DocEnd(c[1], TailStart(c)))
            /\ Run(TailStart(c), DocEnd(c[1], TailStart(c))) \in Documents(c[1])
            /\ ~StartsInsideDoc(c[1], FirstLine(c[1], SplitFragment(c)))
            /\ LineEndsIn(c[1], FirstLine(c[1], SplitFragment(c))) = {} => Text(c[1])[Len(Text(c[1]))] # "n"
<1> DEFINE a == TailStart(c)
           s == c[1]
           N == Len(Text(s))
<1>1. Upto(c) \in Nat /\ Upto(c) <= N /\ s \in Streams /\ N \in Nat /\ Before(c) \in Nat
  BY ChunkSpan, ChunkParts, TextFacts DEF TextChunk
<1>2. EndOffset(c) \in Nat /\ a \in StartsOf(c) /\ a <= Upto(c)
  BY TailIs DEF TailStart
<1>3. SplitFragment(c) = Run(a, DocEnd(s, a))
  BY GluedIs DEF TailStart, Behind
<1>4. a \in Nat /\ a \in 0 .. N
  BY <1>1, <1>2 DEF TailStart
<1>5. CASE a = N
  <2>1. DocEnd(s, a) = N
    BY <1>1, <1>4, <1>5, DocEndIs
  <2>2. Run(N, N) = << >>
    BY <1>1, RunEnds
  <2> QED BY <1>3, <1>5, <2>1, <2>2
<1>6. CASE a # N
  <2>1. a < N
    BY <1>1, <1>4, <1>6
  <2>2. a \in Starts(s)
    <3>1. a = 0 \/ a \in Newlines(s)
      BY <1>2 DEF StartsOf, Own
    <3> QED BY <2>1, <3>1 DEF Starts
  <2>3. DocEnd(s, a) \in Nat /\ a < DocEnd(s, a)
    BY <1>1, <1>4, <2>1, DocEndIs
  <2>4. SplitFragment(c) # << >>
    <3> HIDE DEF a, s
    <3> QED BY <1>3, <1>4, <2>3, RunEnds
  <2>5. FirstLine(s, Run(a, DocEnd(s, a))) = Run(a, DocEnd(s, a))
        /\ (LineEndsIn(s, Run(a, DocEnd(s, a))) = {} => Text(s)[N] # "n")
    BY <1>1, <1>4, <2>1, OneLine
  <2>6. ~StartsInsideDoc(s, Run(a, DocEnd(s, a)))
    BY <1>1, <2>2, StartsOutside
  <2>7. Run(a, DocEnd(s, a)) \in Documents(s)
    BY <1>1, <2>2, DocumentsAre
  <2> QED BY <1>2, <1>3, <2>2, <2>4, <2>5, <2>6, <2>7
<1> QED BY <1>5, <1>6

(* The split document of a good stream is not refused. *)
LEMMA GoodSplit ==
  ASSUME RequestOK, NEW c \in TextChunk, ~(HasPrev(c) /\ NoNewline(c)), Clean(c[1]),
         endOff[c] = EndOffset(c), nextFrag[c][1] = Behind(c), NEW r \in SplitOutcomes(c)
  PROVE  ~r.failed
<1> DEFINE s == c[1]
           d == FirstLine(s, SplitFragment(c))
           noNewline == LineEndsIn(s, d) = {}
<1>1. FaultyEnds(c) = {}
  BY GoodLines DEF Clean
<1>2. \A D : ~Outcome(0, D, FALSE, FALSE).failed /\ ~Outcome(0, D, FALSE, TRUE).failed
             /\ ~Outcome(1, D, FALSE, FALSE).failed
  BY DEF Outcome
<1>3. CASE SplitFragment(c) = << >>
  BY <1>2, <1>3 DEF SplitOutcomes
<1>4. CASE SplitFragment(c) # << >>
  <2>1. ~StartsInsideDoc(s, d) /\ d \in Documents(s) /\ (noNewline => Text(s)[Len(Text(s))] # "n")
    BY <1>1, <1>4, GluedIsDocument
  <2>2. Fault(s, d) = "none"
    BY <2>1 DEF Clean
  <2>3. s \in Streams /\ Text(s) # << >>
    <3>1. s \in Streams
      BY ChunkParts DEF TextChunk
    <3>2. TailStart(c) \in Starts(s) /\ Len(Text(s)) \in Nat
      BY <1>1, <1>4, <3>1, GluedIsDocument, TextFacts
    <3>3. Len(Text(s)) # 0
      BY <3>2 DEF Starts, Newlines
    <3> QED BY <3>1, <3>3
  <2>4. noNewline => Format(s) = "json"
    BY <2>1, <2>3 DEF Clean
  <2>5. Format(s) \in {"csv", "csvchars", "json"}
    BY <2>3, TextFacts
  <2> HIDE DEF d
  <2>6. r = Outcome(1, {<<d, c, "split">>}, FALSE, FALSE)
    BY <1>4, <2>1, <2>2, <2>4, <2>5 DEF SplitOutcomes, d
  <2> QED BY <1>2, <2>6
<1> QED BY <1>3, <1>4

(* No step makes an error of a good stream. *)
LEMMA CleanStep ==
  ASSUME ControlInv, TextInv, NoSpuriousError, [Next]_vars
  PROVE  NoSpuriousError'
<1>r. request' = request /\ RequestOK
  BY RequestStays DEF ControlInv, Types, RequestOK
<1>t. error \in [Streams -> BOOLEAN]
  BY DEF ControlInv, Types
<1>1. \A s \in Streams : Clean(s)' <=> Clean(s)
  <2> SUFFICES ASSUME NEW s \in Streams PROVE Clean(s)' <=> Clean(s)
    OBVIOUS
  <2>1. Text(s)' = Text(s) /\ Format(s)' = Format(s) /\ HasFacets(s)' = HasFacets(s)
    BY <1>r, SameParts
  <2>2. \A d : Fault(s, d)' = Fault(s, d)
    BY <2>1 DEF Fault, Kinds
  <2>3. Documents(s)' = Documents(s)
    BY <2>1 DEF Documents
  <2> QED BY <2>1, <2>2, <2>3 DEF Clean
<1>2. NoSpuriousError <=> \A s \in Streams : Clean(s) => ~error[s]
  BY DEF NoSpuriousError, Clean
<1>3. NoSpuriousError' <=> \A s \in Streams : Clean(s)' => ~error'[s]
  BY DEF NoSpuriousError, Clean
<1> SUFFICES ASSUME NEW s \in Streams, Clean(s), ~error[s], error'[s] PROVE FALSE
  BY <1>1, <1>2, <1>3
<1>4. PICK c \in Chunk : IndexBlock(c) \/ IndexSplitDoc(c)
  BY DEF Next, vars, Handler, RunJob, SplitDoc, Idle, ctxVars, ReadChunk, StopOnError, AcquireLocal,
     Submit, CloseLast, Closed, Answer, Start, ScanPrefix, ScanNoPrefix, Delivered, SetEnd,
     Ended, PassOn, Passed, Release, Arrive
<1>5. c[1] \in Streams
  BY ChunkParts
<1>6. CASE IndexBlock(c)
  <2>1. error' = [error EXCEPT ![c[1]] = @ \/ Block(c).failed] /\ job[c] = "index"
    BY <1>6 DEF IndexBlock
  <2>2. s = c[1] /\ Block(c).failed
    BY <1>t, <1>5, <2>1
  <2>3. c \in TextChunk
    BY <2>1, AtWork
  <2>4. FaultyEnds(c) = {}
    BY <1>r, <2>2, <2>3, GoodLines DEF Clean
  <2> QED BY <2>2, <2>4 DEF Block
<1>7. CASE IndexSplitDoc(c)
  <2>1. fin[c] = "split" /\ endOff[c] # -2
    BY <1>7 DEF IndexSplitDoc
  <2>2. PICK r \in SplitOutcomes(c) : error' = [error EXCEPT ![c[1]] = @ \/ r.failed]
    BY <1>7 DEF IndexSplitDoc
  <2>3. s = c[1] /\ r.failed
    BY <1>t, <1>5, <2>2
  <2>4. c \in TextChunk
    BY <2>1, AtWork
  <2>5. endOff[c] # -1 /\ nextFrag[c] # << >>
    BY <2>1 DEF ControlInv, ChunkInv
  <2>6. endOff[c] = EndOffset(c) /\ nextFrag[c][1] = Behind(c)
    BY <2>3, <2>5 DEF TextInv, EndInv, FragInv
  <2>7. ~(HasPrev(c) /\ NoNewline(c))
    BY <1>r, <2>1, <2>6, EndOffsetType DEF NoNewline
  <2> QED BY <1>r, <2>2, <2>3, <2>4, <2>6, <2>7, GoodSplit
<1> QED BY <1>4, <1>6, <1>7

(* A stream of good documents is never refused, wherever its chunks end and whichever
   thread glues a document: for every text, chunk length and number of threads. *)
THEOREM GoodStreamsAreTaken == Spec => []NoSpuriousError
<1>1. Init => NoSpuriousError
  BY DEF Init, NoSpuriousError
<1> QED BY <1>1, CleanStep, ControlCorrect, TextCorrect, PTL DEF Spec
-----------------------------------------------------------------------------
(* Each document starts in one chunk. *)

(* A function that is one to one, and reaches all of its target, counts it. *)
LEMMA ImageCount ==
  ASSUME NEW S, IsFiniteSet(S), NEW T, NEW f \in [S -> T],
         \A x, y \in S : f[x] = f[y] => x = y,
         \A t \in T : \E x \in S : f[x] = t
  PROVE  IsFiniteSet(T) /\ Cardinality(T) = Cardinality(S)
<1>1. f \in Bijection(S, T)
  BY DEF Bijection, Injection, IsInjective, Surjection
<1>2. ExistsBijection(S, T)
  BY <1>1 DEF ExistsBijection
<1> QED BY <1>2, FS_Bijection

\* The chunk that a document which starts behind position a starts in.
Home(s, a) == <<s, IF a = 0 THEN 1 ELSE ((a - 1) \div ChunkLen) + 1>>

(* No position is the start of documents in two chunks. *)
LEMMA StartsApart ==
  ASSUME RequestOK, NEW c \in TextChunk, NEW d \in TextChunk, c[1] = d[1], c[2] < d[2],
         NEW a \in StartsOf(c)
  PROVE  a \notin StartsOf(d)
<1>1. c[1] \in Streams /\ c[2] \in Nat /\ c[2] >= 1 /\ d[2] \in Nat
  BY ChunkParts, MaxChunksType DEF TextChunk
<1>2. Upto(c) <= Before(d) /\ Upto(c) \in Nat /\ Before(d) \in Nat
  BY <1>1, ChunksTile, ChunkSpan
<1>3. HasPrev(d)
  BY <1>1 DEF HasPrev
<1>4. a = 0 \/ (a \in Nat /\ a <= Upto(c))
  BY DEF StartsOf, Own, Newlines
<1>5. \A b \in StartsOf(d) : b \in Nat /\ Before(d) < b
  BY <1>3 DEF StartsOf, Own, Newlines
<1> QED BY <1>2, <1>4, <1>5

(* Every start has a home, and only one. *)
LEMMA HomeIs ==
  ASSUME RequestOK, NEW s \in Streams, NEW a \in Starts(s)
  PROVE  /\ Home(s, a) \in TextChunk /\ Home(s, a)[1] = s /\ a \in StartsOf(Home(s, a))
         /\ \A c \in TextChunk : c[1] = s /\ a \in StartsOf(c) => c = Home(s, a)
<1>1. Home(s, a) \in TextChunk /\ Home(s, a)[1] = s /\ a \in StartsOf(Home(s, a))
  <2>1. CASE a = 0
    <3> DEFINE c == <<s, 1>>
    <3>1. NumChunks(s) \in 1 .. MaxChunks /\ MaxChunks \in Nat
      BY TextFacts, MaxChunksType
    <3>2. c \in TextChunk /\ c[1] = s /\ c[2] = 1
      BY <3>1 DEF TextChunk, Chunk
    <3>3. a \in StartsOf(c)
      BY <2>1, <3>2 DEF StartsOf, HasPrev
    <3> QED BY <2>1, <3>2, <3>3 DEF Home
  <2>2. CASE a \in Newlines(s)
    <3> DEFINE c == <<s, ((a - 1) \div ChunkLen) + 1>>
    <3>0. a \in 1 .. Len(Text(s)) /\ a # 0
      BY <2>2 DEF Newlines
    <3>1. c \in TextChunk /\ c[1] = s /\ Before(c) < a /\ a <= Upto(c)
      BY <3>0, ChunksTile
    <3>2. Home(s, a) = c
      BY <3>0 DEF Home
    <3> HIDE DEF c
    <3> QED BY <2>2, <3>1, <3>2 DEF StartsOf, Own
  <2> QED BY <2>1, <2>2 DEF Starts
<1>2. ASSUME NEW c \in TextChunk, c[1] = s, a \in StartsOf(c) PROVE c = Home(s, a)
  <2> DEFINE d == Home(s, a)
  <2>0. d \in TextChunk /\ d[1] = s /\ a \in StartsOf(d)
    BY <1>1
  <2> HIDE DEF d
  <2>1. c[2] \in Nat /\ d[2] \in Nat /\ c = <<c[1], c[2]>> /\ d = <<d[1], d[2]>>
    BY <2>0, ChunkParts, MaxChunksType DEF TextChunk
  <2>2. ~(c[2] < d[2])
    BY <1>2, <2>0, StartsApart
  <2>3. ~(d[2] < c[2])
    BY <1>2, <2>0, StartsApart
  <2>4. c[2] = d[2]
    BY <2>1, <2>2, <2>3
  <2> QED BY <1>2, <2>0, <2>1, <2>4 DEF d
<1> QED BY <1>1, <1>2

(* Documents that differ start, and end, at different places. *)
LEMMA StartsDiffer ==
  ASSUME RequestOK, NEW s \in Streams, NEW a \in Starts(s), NEW b \in Starts(s),
         Run(a, DocEnd(s, a)) = Run(b, DocEnd(s, b)) \/ DocEnd(s, a) = DocEnd(s, b)
  PROVE  a = b
<1>0. Len(Text(s)) \in Nat
  BY TextFacts
<1>1. \A x \in Starts(s) : /\ x \in 0 .. Len(Text(s)) /\ x < Len(Text(s)) /\ x \in Nat
                           /\ x # 0 => x \in Newlines(s)
  BY <1>0 DEF Starts, Newlines
<1>2. \A x \in Starts(s) : DocEnd(s, x) \in Nat /\ x < DocEnd(s, x) /\ \A p \in Newlines(s) : x < p => DocEnd(s, x) <= p
  BY <1>1, DocEndIs
<1>3. CASE Run(a, DocEnd(s, a)) = Run(b, DocEnd(s, b))
  <2>1. Run(a, DocEnd(s, a))[1] = a + 1 /\ Run(b, DocEnd(s, b))[1] = b + 1
    BY <1>1, <1>2, RunEnds
  <2> QED BY <1>1, <1>3, <2>1
<1>4. CASE DocEnd(s, a) = DocEnd(s, b)
  <2>1. a \in Nat /\ b \in Nat /\ a < DocEnd(s, a) /\ b < DocEnd(s, b) /\ DocEnd(s, a) \in Nat
    BY <1>1, <1>2
  <2>2. ~(a < b)
    <3> SUFFICES ASSUME a < b PROVE FALSE
      OBVIOUS
    <3>1. b \in Newlines(s)
      BY <1>1, <2>1
    <3>2. DocEnd(s, a) <= b
      BY <1>2, <3>1
    <3> QED BY <1>4, <2>1, <3>2
  <2>3. ~(b < a)
    <3> SUFFICES ASSUME b < a PROVE FALSE
      OBVIOUS
    <3>1. a \in Newlines(s)
      BY <1>1, <2>1
    <3>2. DocEnd(s, b) <= a
      BY <1>2, <3>1
    <3> QED BY <1>4, <2>1, <3>2
  <2> QED BY <2>1, <2>2, <2>3
<1> QED BY <1>3, <1>4

(* A stream has finitely many documents, as many as places where one starts. *)
LEMMA DocumentCount ==
  ASSUME RequestOK, NEW s \in Streams
  PROVE  IsFiniteSet(Starts(s)) /\ Cardinality(Documents(s)) = Cardinality(Starts(s))
<1>1. Starts(s) \subseteq 0 .. Len(Text(s)) /\ Len(Text(s)) \in Nat
  BY TextFacts DEF Starts, Newlines
<1>2. IsFiniteSet(0 .. Len(Text(s)))
  BY <1>1, FS_Interval
<1>3. IsFiniteSet(Starts(s))
  BY <1>1, <1>2, FS_Subset
<1> DEFINE f == [a \in Starts(s) |-> Run(a, DocEnd(s, a))]
<1>4. Documents(s) = {Run(a, DocEnd(s, a)) : a \in Starts(s)}
  BY DocumentsAre
<1>5. /\ f \in [Starts(s) -> Documents(s)]
      /\ \A x, y \in Starts(s) : f[x] = f[y] => x = y
      /\ \A t \in Documents(s) : \E x \in Starts(s) : f[x] = t
  BY <1>4, StartsDiffer
<1> HIDE DEF f
<1> QED BY <1>3, <1>5, ImageCount
-----------------------------------------------------------------------------
(* What a chunk puts into the index itself. *)

\* The documents that start and end in chunk c.
BlockStarts(c) == {a \in StartsOf(c) : \E p \in Newlines(c[1]) : a < p /\ p <= Upto(c)}

(* The documents that lie in a chunk are its lines, one for one. *)
LEMMA BlockIs ==
  ASSUME RequestOK, NEW c \in TextChunk
  PROVE  /\ BlockStarts(c) \subseteq Starts(c[1])
         /\ {Line(c, i) : i \in LineEnds(c)} = {Run(a, DocEnd(c[1], a)) : a \in BlockStarts(c)}
         /\ IsFiniteSet(BlockStarts(c)) /\ Cardinality(BlockStarts(c)) = Cardinality(LineEnds(c))
<1> DEFINE B == Before(c)
           U == Upto(c)
           s == c[1]
           N == Len(Text(s))
           T == BlockStarts(c)
           L == LineEnds(c)
<1>1. B \in Nat /\ U \in Nat /\ B <= U /\ U <= N /\ s \in Streams /\ N \in Nat
  BY ChunkSpan, ChunkParts, TextFacts DEF TextChunk
<1>2. T \subseteq Starts(s)
  <2> SUFFICES ASSUME NEW a \in T PROVE a \in Starts(s)
    OBVIOUS
  <2>1. PICK p \in Newlines(s) : a < p /\ p <= U
    BY DEF BlockStarts
  <2>2. p \in Nat /\ a \in Nat /\ (a = 0 \/ a \in Newlines(s))
    BY DEF BlockStarts, StartsOf, Own, Newlines
  <2>3. a < N
    BY <1>1, <2>1, <2>2
  <2> QED BY <2>2, <2>3 DEF Starts
<1>3. CASE HasPrev(c) /\ NoNewline(c)
  <2>1. L = {}
    BY <1>3 DEF LineEnds, NoNewline
  <2>2. T = {}
    BY <1>3, ChunkLineEnds DEF BlockStarts, StartsOf
  <2>3. {Line(c, i) : i \in L} = {Run(a, DocEnd(s, a)) : a \in T}
    BY <2>1, <2>2
  <2>4. IsFiniteSet(T) /\ Cardinality(T) = Cardinality(L)
    BY <2>1, <2>2, FS_EmptySet
  <2> QED BY <1>2, <2>3, <2>4
<1>4. CASE ~(HasPrev(c) /\ NoNewline(c))
  <2> DEFINE from(i) == B + LineStart(c, i)
  <2>k. /\ \A j \in Kept(c) : j \in 0 .. (U - B) /\ B + j \in StartsOf(c)
        /\ \A x \in StartsOf(c) : x - B \in Kept(c)
        /\ \A j \in L : j \in 1 .. (U - B) /\ B + j \in Own(c)
    BY <1>4, KeptAre
  <2>1. ASSUME NEW i \in L
        PROVE  from(i) \in T /\ DocEnd(s, from(i)) = B + i /\ Line(c, i) = Run(from(i), DocEnd(s, from(i)))
    <3>1. /\ LineStart(c, i) \in Nat /\ LineStart(c, i) < i /\ from(i) \in StartsOf(c)
          /\ DocEnd(s, from(i)) = B + i /\ Line(c, i) = Run(from(i), DocEnd(s, from(i)))
      BY <1>4, LineIs
    <3>2. i \in 1 .. (U - B) /\ B + i \in Newlines(s) /\ B + i <= U
      BY <2>k DEF Own
    <3>3. from(i) < B + i
      BY <1>1, <3>1, <3>2
    <3>4. from(i) \in T
      BY <3>1, <3>2, <3>3 DEF BlockStarts
    <3> QED BY <3>1, <3>4
  <2>2. ASSUME NEW a \in T
        PROVE  DocEnd(s, a) - B \in L /\ B + (DocEnd(s, a) - B) = DocEnd(s, a)
    <3> DEFINE e == DocEnd(s, a)
    <3>1. a \in StartsOf(c) /\ a \in Nat /\ B <= a
      <4>1. a \in StartsOf(c)
        BY DEF BlockStarts
      <4>2. CASE a \in Own(c)
        BY <1>1, <4>1, <4>2 DEF Own, Newlines
      <4>3. CASE ~HasPrev(c) /\ a = 0
        BY <4>1, <4>3, ChunkSpan
      <4> QED BY <4>1, <4>2, <4>3 DEF StartsOf
    <3>2. PICK p \in Newlines(s) : a < p /\ p <= U
      BY DEF BlockStarts
    <3>3. p \in Nat /\ a \in 0 .. N /\ a < N
      BY <1>1, <3>1, <3>2 DEF Newlines
    <3>4. /\ e \in Nat /\ a < e /\ e <= p /\ (e \in Newlines(s) \/ e = N)
      BY <1>1, <3>2, <3>3, DocEndIs
    <3> HIDE DEF e
    <3>5. e \in Newlines(s)
      BY <1>1, <3>2, <3>3, <3>4
    <3>6. e \in Own(c)
      BY <1>1, <3>1, <3>2, <3>3, <3>4, <3>5 DEF Own
    <3>7. e - B \in Kept(c) /\ a - B \in Kept(c) /\ a - B < e - B
      <4>1. e \in StartsOf(c)
        BY <3>6 DEF StartsOf
      <4>2. a - B < e - B
        BY <1>1, <3>1, <3>4
      <4> QED BY <2>k, <3>1, <4>1, <4>2
    <3>8. e - B # SkipPrefix(c)
      <4>1. SkipPrefix(c) \in Nat /\ a - B \in Nat /\ e - B \in Nat
        <5>1. SkipPrefix(c) \in Kept(c)
          BY DEF Kept
        <5> QED BY <1>1, <2>k, <3>7, <5>1
      <4>2. a - B >= SkipPrefix(c)
        <5>1. a - B = SkipPrefix(c) \/ a - B > SkipPrefix(c)
          BY <3>7 DEF Kept, LineEnds
        <5> QED BY <4>1, <5>1
      <4> QED BY <3>7, <4>1, <4>2
    <3>9. e - B \in L
      BY <3>7, <3>8 DEF Kept
    <3>10. B + (e - B) = e
      BY <1>1, <3>4
    <3> QED BY <3>9, <3>10 DEF e
  <2>3. \A a \in T : from(DocEnd(s, a) - B) = a
    <3> SUFFICES ASSUME NEW a \in T PROVE from(DocEnd(s, a) - B) = a
      OBVIOUS
    <3> DEFINE b == from(DocEnd(s, a) - B)
    <3>1. b \in T /\ DocEnd(s, b) = DocEnd(s, a)
      BY <2>1, <2>2
    <3> HIDE DEF b
    <3>2. b \in Starts(s) /\ a \in Starts(s)
      BY <1>2, <3>1
    <3>3. b = a
      BY <1>1, <3>1, <3>2, StartsDiffer
    <3> QED BY <3>3 DEF b
  <2> HIDE DEF from
  <2>4. {Line(c, i) : i \in L} = {Run(a, DocEnd(s, a)) : a \in T}
    <3>1. ASSUME NEW i \in L PROVE \E a \in T : Line(c, i) = Run(a, DocEnd(s, a))
      BY <2>1
    <3>2. ASSUME NEW a \in T PROVE \E i \in L : Line(c, i) = Run(a, DocEnd(s, a))
      <4>1. DocEnd(s, a) - B \in L
        BY <2>2
      <4>2. Line(c, DocEnd(s, a) - B) = Run(a, DocEnd(s, a))
        BY <2>1, <2>3, <4>1
      <4> QED BY <4>1, <4>2
    <3> HIDE DEF T, L, s
    <3> QED BY <3>1, <3>2
  <2>5. IsFiniteSet(T)
    BY <1>1, <1>2, DocumentCount, FS_Subset
  <2> DEFINE f == [a \in T |-> DocEnd(s, a) - B]
  <2>6. f \in [T -> L]
    BY <2>2
  <2>7. \A x, y \in T : f[x] = f[y] => x = y
    <3> SUFFICES ASSUME NEW x \in T, NEW y \in T, f[x] = f[y] PROVE x = y
      OBVIOUS
    <3>1. DocEnd(s, x) - B = DocEnd(s, y) - B
      OBVIOUS
    <3> QED BY <2>3, <3>1
  <2>8. \A i \in L : \E a \in T : f[a] = i
    <3> SUFFICES ASSUME NEW i \in L PROVE \E a \in T : f[a] = i
      OBVIOUS
    <3>1. from(i) \in T /\ DocEnd(s, from(i)) = B + i
      BY <2>1
    <3>2. (B + i) - B = i
      BY <1>1, <2>k
    <3>3. f[from(i)] = i
      BY <3>1, <3>2
    <3> QED BY <3>1, <3>3
  <2> HIDE DEF f
  <2>9. Cardinality(L) = Cardinality(T)
    BY <2>5, <2>6, <2>7, <2>8, ImageCount
  <2> QED BY <1>2, <2>4, <2>5, <2>9
<1> QED BY <1>3, <1>4
-----------------------------------------------------------------------------
(* Work that was given up. *)

\* Chunk c is past its block, and past its end fragment.
JobPast(c) == job[c] \in {"end", "ending", "done"}
FinPast(c) == fin[c] \in {"release", "arrive", "done"}

\* A chunk passes on only when it lies inside one document; only exceptions end a job; a
\* faulty line is reported before the chunk goes on, and before success is.
PassInv == \A c \in Chunk : fin[c] = "passing" => NoNewline(c)
DiedInv ==
  \A c \in Chunk :
    /\ job[c] = "delivering" => HasPrev(c)
    /\ job[c] = "died" => exc[c] \/ (HasPrev(c) /\ exc[Prev(c)])
LineInv == \A c \in Chunk : JobPast(c) /\ ~error[c[1]] => FaultyEnds(c) = {}
OkInv   == \A s \in Streams : answer[s] = "ok" => ~error[s]

WorkInv == PassInv /\ DiedInv /\ LineInv /\ OkInv

(* These facts survive a step of a handler. *)
LEMMA HandlerKeepsWork ==
  ASSUME ControlInv, WorkInv, NEW h \in Streams, Handler(h)
  PROVE  WorkInv'
<1>r. request' = request
  BY RequestStays DEF Next
<1>e. error' = error /\ exc' = exc
  BY DEF Handler, ctxVars, ReadChunk, StopOnError, AcquireLocal, Submit, CloseLast, Closed, Answer
<1>j. \A c \in Chunk : job'[c] = job[c] \/ job'[c] = "queued"
  <2>1. CASE Submit(h)
    <3>1. <<h, nchunks[h]>> \in Chunk
      BY <2>1, LastChunk DEF Submit, ControlInv, HandlerInv
    <3> QED BY <2>1, <3>1 DEF Submit, ControlInv, Types
  <2>2. CASE ~Submit(h)
    BY <2>2 DEF Handler, ReadChunk, StopOnError, AcquireLocal, CloseLast, Closed, Answer
  <2> QED BY <2>1, <2>2
<1>1. PassInv'
  <2>1. \A c \in Chunk : fin'[c] = "passing" => fin[c] = "passing"
    BY HandlerFin
  <2> QED BY <1>r, <2>1, SameParts DEF WorkInv, PassInv
<1>2. DiedInv'
  BY <1>e, <1>j DEF WorkInv, DiedInv, HasPrev, Prev
<1>3. LineInv'
  BY <1>r, <1>e, <1>j, SameParts DEF WorkInv, LineInv, JobPast
<1>4. OkInv'
  <2>1. \A s \in Streams : answer'[s] = "ok" => answer[s] = "ok" \/ ~error[s]
    BY DEF Handler, ReadChunk, StopOnError, AcquireLocal, Submit, CloseLast, Closed, Answer,
           ControlInv, Types
  <2> QED BY <1>e, <2>1 DEF WorkInv, OkInv
<1> QED BY <1>1, <1>2, <1>3, <1>4 DEF WorkInv

(* An answered request has no chunk at work, so no error comes after an answer. *)
LEMMA NoLateError ==
  ASSUME ControlInv, PhaserInv, NEW c \in Chunk, RunJob(c) \/ SplitDoc(c),
         NEW s \in Streams, answer[s] = "ok"
  PROVE  error'[s] = error[s]
<1>1. CASE IndexBlock(c) \/ IndexSplitDoc(c)
  <2>1. (job[c] = "index" \/ fin[c] = "split")
    BY <1>1 DEF IndexBlock, IndexSplitDoc
  <2>2. c[1] \in Streams /\ c = <<c[1], c[2]>> /\ c[2] \in 1 .. MaxChunks /\ MaxChunks \in Nat
    BY ChunkParts, MaxChunksType
  <2>3. c[2] <= nchunks[c[1]] /\ nchunks[c[1]] \in Nat
    <3>1. job[c] # "none" \/ fin[c] # "open"
      BY <2>1
    <3> QED BY <2>2, <3>1, AtWork DEF ControlInv, Types
  <2>4. fin[c] # "done"
    BY <2>1 DEF ControlInv, ChunkInv
  <2>5. c[2] \in Outstanding(c[1])
    BY <2>2, <2>3, <2>4 DEF Outstanding
  <2>6. c[1] # s
    BY <2>5 DEF PhaserInv, PhaserOK
  <2> QED BY <1>1, <2>2, <2>6 DEF IndexBlock, IndexSplitDoc, ControlInv, Types
<1>2. CASE ~(IndexBlock(c) \/ IndexSplitDoc(c))
  <2>1. error' = error
    BY <1>2 DEF RunJob, SplitDoc, ctxVars, Start, ScanPrefix, ScanNoPrefix, Delivered, SetEnd,
       Ended, PassOn, Passed, Release, Arrive
  <2> QED BY <2>1
<1> QED BY <1>1, <1>2

(* These facts survive a step of a pool thread. *)
LEMMA JobKeepsWork ==
  ASSUME ControlInv, GivenInv, PhaserInv, ExcInv, WorkInv, NEW c \in Chunk, RunJob(c) \/ SplitDoc(c)
  PROVE  WorkInv'
<1>n. [Next]_vars
  BY DEF Next
<1>r. request' = request
  BY <1>n, RequestStays
<1>e. \A d \in Chunk : error[d[1]] => error'[d[1]]
  BY <1>n, ErrorStays, ChunkParts
<1>x. \A d \in Chunk : exc[d] => exc'[d]
  BY ExcMoves
<1>t. job \in [Chunk -> JobStates] /\ fin \in [Chunk -> FinStates] /\ error \in [Streams -> BOOLEAN]
  BY DEF ControlInv, Types
<1>p. c[1] \in Streams /\ (HasPrev(c) => Prev(c) \in Chunk)
  BY ChunkParts
<1>1. PassInv'
  <2> SUFFICES ASSUME NEW d \in Chunk, fin'[d] = "passing" PROVE NoNewline(d)
    BY <1>r, SameParts DEF PassInv
  <2>1. CASE fin[d] = "passing"
    BY <2>1 DEF WorkInv, PassInv
  <2>2. CASE fin[d] # "passing"
    <3>1. d = c /\ fin[c] = "split" /\ fin'[c] = "passing"
      BY <2>2, FinForward
    <3>2. PassOn(c)
      BY <1>t, <3>1 DEF RunJob, SplitDoc, Start, ScanPrefix, ScanNoPrefix, Delivered, IndexBlock, SetEnd,
         Ended, Passed, IndexSplitDoc, Release, Arrive
    <3>3. endOff[c] = -2
      BY <3>2 DEF PassOn
    <3> QED BY <3>1, <3>3 DEF ControlInv, ChunkInv
  <2> QED BY <2>1, <2>2
<1>2. DiedInv'
  <2>d. \A d \in Chunk : job'[d] = "delivering" => HasPrev(d)
    <3> SUFFICES ASSUME NEW d \in Chunk, job'[d] = "delivering" PROVE HasPrev(d)
      OBVIOUS
    <3>1. CASE job[d] = "delivering"
      BY <3>1 DEF WorkInv, DiedInv
    <3>2. CASE job[d] # "delivering"
      <4>1. d = c
        BY <3>2, JobMoves
      <4>2. ScanPrefix(c)
        BY <1>t, <3>2, <4>1 DEF RunJob, SplitDoc, Start, ScanNoPrefix, Delivered, IndexBlock, SetEnd,
           Ended, PassOn, Passed, IndexSplitDoc, Release, Arrive
      <4> QED BY <4>1, <4>2 DEF ScanPrefix
    <3> QED BY <3>1, <3>2
  <2> SUFFICES ASSUME NEW d \in Chunk, job'[d] = "died"
               PROVE  exc'[d] \/ (HasPrev(d) /\ exc'[Prev(d)])
    BY <2>d DEF DiedInv, HasPrev, Prev
  <2>1. CASE job[d] = "died"
    <3>1. exc[d] \/ (HasPrev(d) /\ exc[Prev(d)])
      BY <2>1 DEF WorkInv, DiedInv
    <3> QED BY <1>x, <3>1, ChunkParts
  <2>2. CASE job[d] # "died"
    <3>1. d = c
      BY <2>2, JobMoves
    <3>2. Delivered(c) \/ Ended(c)
      BY <1>t, <2>2, <3>1 DEF RunJob, SplitDoc, Start, ScanPrefix, ScanNoPrefix, IndexBlock, SetEnd,
         PassOn, Passed, IndexSplitDoc, Release, Arrive
    <3>3. CASE Delivered(c)
      <4>1. exc[Prev(c)] /\ exc' = exc /\ job[c] = "delivering"
        BY <1>t, <2>2, <3>1, <3>3 DEF Delivered
      <4>2. HasPrev(c)
        BY <4>1 DEF WorkInv, DiedInv
      <4> QED BY <3>1, <4>1, <4>2
    <3>4. CASE Ended(c)
      BY <1>t, <2>2, <3>1, <3>4 DEF Ended
    <3> QED BY <3>2, <3>3, <3>4
  <2> QED BY <2>1, <2>2
<1>3. LineInv'
  <2> SUFFICES ASSUME NEW d \in Chunk, job'[d] \in {"end", "ending", "done"}, ~error'[d[1]]
               PROVE  FaultyEnds(d) = {}
    BY <1>r, SameParts DEF LineInv, JobPast
  <2>1. CASE job[d] \in {"end", "ending", "done"}
    BY <1>e, <2>1 DEF WorkInv, LineInv, JobPast
  <2>2. CASE job[d] \notin {"end", "ending", "done"}
    <3>1. d = c
      BY <2>2, JobMoves
    <3>2. ScanNoPrefix(c) \/ IndexBlock(c)
      BY <1>t, <2>2, <3>1 DEF RunJob, SplitDoc, Start, ScanPrefix, Delivered, SetEnd,
         Ended, PassOn, Passed, IndexSplitDoc, Release, Arrive
    <3>3. CASE ScanNoPrefix(c)
      <4>1. LineEndsIn(c[1], Positions(c)) = {}
        BY <1>t, <2>2, <3>1, <3>3 DEF ScanNoPrefix
      <4> QED BY <3>1, <4>1 DEF FaultyEnds, LineEnds
    <3>4. CASE IndexBlock(c)
      <4>1. ~Block(c).failed
        BY <1>t, <1>p, <3>1, <3>4 DEF IndexBlock
      <4> QED BY <3>1, <4>1 DEF Block
    <3> QED BY <3>2, <3>3, <3>4
  <2> QED BY <2>1, <2>2
<1>4. OkInv'
  <2>1. answer' = answer
    BY JobMoves DEF handVars
  <2> QED BY <2>1, NoLateError DEF WorkInv, OkInv
<1> QED BY <1>1, <1>2, <1>3, <1>4 DEF WorkInv

(* These facts hold always. *)
LEMMA WorkCorrect == Spec => []WorkInv
<1>1. Init => WorkInv
  BY DEF Init, WorkInv, PassInv, DiedInv, LineInv, OkInv, JobPast
<1>2. ControlInv /\ GivenInv /\ PhaserInv /\ ExcInv /\ WorkInv /\ [Next]_vars => WorkInv'
  <2> SUFFICES ASSUME ControlInv, GivenInv, PhaserInv, ExcInv, WorkInv, [Next]_vars PROVE WorkInv'
    OBVIOUS
  <2>1. CASE Idle \/ UNCHANGED vars
    <3>1. UNCHANGED vars
      BY <2>1 DEF Idle
    <3>2. request' = request
      BY <3>1 DEF vars
    <3> QED BY <3>1, <3>2, SameParts DEF vars, WorkInv, PassInv, DiedInv, LineInv, OkInv, JobPast, HasPrev, Prev
  <2> QED BY <2>1, HandlerKeepsWork, JobKeepsWork DEF Next
<1> QED BY <1>1, <1>2, ControlCorrect, GivenCorrect, PhaserCorrect, ExcCorrect, PTL DEF Spec
-----------------------------------------------------------------------------
(* The index of a request: an entry for each document whose chunk is past it. *)

\* The document that starts behind a is the last that starts in its chunk.
Trailing(s, a) == \A p \in Newlines(s) : ~(a < p /\ p <= Upto(Home(s, a)))

\* What the index holds of that document: its own chunk indexed it, in the block or as its
\* end fragment.
Entry(s, a) ==
  <<Run(a, DocEnd(s, a)), Home(s, a), IF Trailing(s, a) THEN "split" ELSE "block">>

\* The documents whose chunk is past them.
InIndex(s) ==
  {a \in Starts(s) : IF Trailing(s, a) THEN FinPast(Home(s, a)) ELSE JobPast(Home(s, a))}

\* No document of request s failed.
Sound(s) == ~error[s] /\ \A c \in Chunk : c[1] = s => ~exc[c]

\* They, and no others, are in the index, and counted.
IndexOK(s) ==
  Sound(s) => /\ indexed[s] = {Entry(s, a) : a \in InIndex(s)}
              /\ addCount[s] = Cardinality(InIndex(s))

IndexInv == DOMAIN indexed = Streams /\ \A s \in Streams : IndexOK(s)

(* The lines of a chunk are the entries of the documents that lie in it. *)
LEMMA BlockEntries ==
  ASSUME RequestOK, NEW c \in TextChunk
  PROVE  /\ \A a \in BlockStarts(c) : a \in Starts(c[1]) /\ Home(c[1], a) = c /\ ~Trailing(c[1], a)
         /\ \A a \in Starts(c[1]) : Home(c[1], a) = c /\ ~Trailing(c[1], a) => a \in BlockStarts(c)
         /\ {<<Line(c, i), c, "block">> : i \in LineEnds(c)} = {Entry(c[1], a) : a \in BlockStarts(c)}
<1> DEFINE s == c[1]
<1>1. s \in Streams
  BY ChunkParts DEF TextChunk
<1>2. \A a \in BlockStarts(c) : a \in Starts(s) /\ Home(s, a) = c /\ ~Trailing(s, a)
  <2> SUFFICES ASSUME NEW a \in BlockStarts(c)
               PROVE  a \in Starts(s) /\ Home(s, a) = c /\ ~Trailing(s, a)
    OBVIOUS
  <2>1. a \in Starts(s)
    BY BlockIs
  <2>2. Home(s, a) = c
    BY <1>1, <2>1, HomeIs DEF BlockStarts
  <2>3. ~Trailing(s, a)
    BY <2>2 DEF Trailing, BlockStarts
  <2> QED BY <2>1, <2>2, <2>3
<1>3. \A a \in Starts(s) : Home(s, a) = c /\ ~Trailing(s, a) => a \in BlockStarts(c)
  <2> SUFFICES ASSUME NEW a \in Starts(s), Home(s, a) = c, ~Trailing(s, a) PROVE a \in BlockStarts(c)
    OBVIOUS
  <2>1. a \in StartsOf(c)
    BY <1>1, HomeIs
  <2> QED BY <2>1 DEF Trailing, BlockStarts
<1>4. \A a \in BlockStarts(c) : Entry(s, a) = <<Run(a, DocEnd(s, a)), c, "block">>
  BY <1>2 DEF Entry
<1>5. {Line(c, i) : i \in LineEnds(c)} = {Run(a, DocEnd(s, a)) : a \in BlockStarts(c)}
  BY BlockIs
<1>6. \A i \in LineEnds(c) : \E a \in BlockStarts(c) : Line(c, i) = Run(a, DocEnd(s, a))
  BY <1>5
<1>7. \A a \in BlockStarts(c) : \E i \in LineEnds(c) : Line(c, i) = Run(a, DocEnd(s, a))
  BY <1>5
<1>8. {<<Line(c, i), c, "block">> : i \in LineEnds(c)} = {Entry(s, a) : a \in BlockStarts(c)}
  <2>1. \A i \in LineEnds(c) : \E a \in BlockStarts(c) : <<Line(c, i), c, "block">> = Entry(s, a)
    BY <1>4, <1>6
  <2>2. \A a \in BlockStarts(c) : \E i \in LineEnds(c) : <<Line(c, i), c, "block">> = Entry(s, a)
    BY <1>4, <1>7
  <2> HIDE DEF s
  <2> QED BY <2>1, <2>2
<1> QED BY <1>2, <1>3, <1>8

(* The end fragment of a chunk is the entry of the last document that starts in it. *)
LEMMA TailEntry ==
  ASSUME RequestOK, NEW c \in TextChunk, ~(HasPrev(c) /\ NoNewline(c)), FaultyEnds(c) = {}
  PROVE  /\ TailStart(c) \in Starts(c[1]) =>
              Home(c[1], TailStart(c)) = c /\ Trailing(c[1], TailStart(c))
         /\ \A a \in Starts(c[1]) : Home(c[1], a) = c /\ Trailing(c[1], a) => a = TailStart(c)
<1> DEFINE s == c[1]
           t == TailStart(c)
<1>1. s \in Streams
  BY ChunkParts DEF TextChunk
<1>2. t \in StartsOf(c) /\ t <= Upto(c) /\ \A p \in Newlines(s) : ~(t < p /\ p <= Upto(c))
  BY TailIs DEF TailStart
<1>3. ASSUME t \in Starts(s) PROVE Home(s, t) = c /\ Trailing(s, t)
  <2>1. Home(s, t) = c
    BY <1>1, <1>2, <1>3, HomeIs
  <2> QED BY <1>2, <2>1 DEF Trailing
<1>4. ASSUME NEW a \in Starts(s), Home(s, a) = c, Trailing(s, a) PROVE a = t
  <2>1. a \in StartsOf(c)
    BY <1>1, <1>4, HomeIs
  <2>2. \A p \in Newlines(s) : ~(a < p /\ p <= Upto(c))
    BY <1>4 DEF Trailing
  <2>3. \A x \in StartsOf(c) : x \in Nat /\ (x = 0 \/ (x \in Newlines(s) /\ x <= Upto(c)))
    BY DEF StartsOf, Own, Newlines
  <2> HIDE DEF t, s
  <2>4. a \in Nat /\ t \in Nat
    BY <1>2, <2>1, <2>3
  <2>5. ~(a < t)
    BY <1>2, <2>2, <2>3, <2>4
  <2>6. ~(t < a)
    BY <1>2, <2>1, <2>3, <2>4
  <2> QED BY <2>4, <2>5, <2>6
<1> QED BY <1>3, <1>4

(* What is read from the text stays the same. *)
LEMMA SameEntries ==
  ASSUME request' = request, NEW s \in Streams
  PROVE  /\ Starts(s)' = Starts(s) /\ Documents(s)' = Documents(s)
         /\ \A a : Trailing(s, a)' = Trailing(s, a) /\ Entry(s, a)' = Entry(s, a)
<1>1. Text(s)' = Text(s)
  BY SameParts
<1>2. Newlines(s)' = Newlines(s)
  BY <1>1 DEF Newlines
<1>3. \A a : Home(s, a)' = Home(s, a) /\ Home(s, a)[1] = s
  BY DEF Home
<1>4. \A a : Upto(Home(s, a))' = Upto(Home(s, a))
  BY <1>1, <1>3 DEF Upto, Before
<1>5. \A a : Trailing(s, a)' = Trailing(s, a)
  BY <1>2, <1>4 DEF Trailing
<1>6. \A a : DocEnd(s, a)' = DocEnd(s, a)
  BY <1>1, <1>2 DEF DocEnd, After
<1>7. \A a : Entry(s, a)' = Entry(s, a)
  BY <1>3, <1>5, <1>6 DEF Entry, Run
<1> QED BY <1>1, <1>2, <1>5, <1>7 DEF Starts, Documents

(* A step that moves none of the chunks that documents wait for changes nothing. *)
LEMMA SameIndex ==
  ASSUME RequestOK, request' = request, NEW s \in Streams,
         \A c \in TextChunk : c[1] = s /\ StartsOf(c) # {} => JobPast(c)' = JobPast(c) /\ FinPast(c)' = FinPast(c)
  PROVE  InIndex(s)' = InIndex(s)
<1>1. \A a \in Starts(s) : Home(s, a) \in TextChunk /\ Home(s, a)[1] = s /\ StartsOf(Home(s, a)) # {}
  BY HomeIs
<1>2. \A a : Home(s, a)' = Home(s, a)
  BY DEF Home
<1>3. \A a \in Starts(s) : JobPast(Home(s, a))' = JobPast(Home(s, a)) /\ FinPast(Home(s, a))' = FinPast(Home(s, a))
  BY <1>1, <1>2 DEF JobPast, FinPast
<1> QED BY <1>3, SameEntries DEF InIndex
-----------------------------------------------------------------------------
(* The index grows by the documents of one chunk at a time. *)

(* A document once failed stays so. *)
LEMMA SoundBefore ==
  ASSUME ControlInv, GivenInv, ExcInv, [Next]_vars, NEW s \in Streams, Sound(s)'
  PROVE  Sound(s)
<1>1. error[s] => error'[s]
  BY ErrorStays
<1>2. \A c \in Chunk : exc[c] => exc'[c]
  <2>1. ASSUME NEW h \in Streams, Handler(h) PROVE exc' = exc
    BY <2>1 DEF Handler, ReadChunk, StopOnError, AcquireLocal, Submit, CloseLast, Closed, Answer
  <2>2. ASSUME NEW x \in Chunk, RunJob(x) \/ SplitDoc(x), NEW c \in Chunk PROVE exc[c] => exc'[c]
    BY <2>2, ExcMoves
  <2>3. CASE Idle \/ UNCHANGED vars
    BY <2>3 DEF Idle, vars
  <2> QED BY <2>1, <2>2, <2>3 DEF Next
<1> QED BY <1>1, <1>2 DEF Sound

(* A step that adds the documents of A to the index, and counts them, when nothing
   failed. *)
LEMMA IndexGrows ==
  ASSUME RequestOK, request' = request, NEW s \in Streams, IndexOK(s), Sound(s)' => Sound(s),
         addCount[s] \in Nat, NEW A,
         Sound(s)' => /\ InIndex(s)' = InIndex(s) \cup A
                      /\ InIndex(s) \cap A = {} /\ IsFiniteSet(A)
                      /\ indexed'[s] = indexed[s] \cup {Entry(s, a) : a \in A}
                      /\ addCount'[s] = addCount[s] + Cardinality(A)
  PROVE  IndexOK(s)'
<1> SUFFICES ASSUME Sound(s)'
             PROVE  /\ indexed'[s] = {Entry(s, a)' : a \in InIndex(s)'}
                    /\ addCount'[s] = Cardinality(InIndex(s)')
  BY DEF IndexOK
<1>1. indexed[s] = {Entry(s, a) : a \in InIndex(s)} /\ addCount[s] = Cardinality(InIndex(s))
  BY DEF IndexOK
<1>2. IsFiniteSet(InIndex(s))
  <2>1. IsFiniteSet(Starts(s)) /\ InIndex(s) \in SUBSET Starts(s)
    BY DocumentCount DEF InIndex
  <2> QED BY <2>1, FS_Subset
<1>3. Cardinality(InIndex(s) \cup A) = Cardinality(InIndex(s)) + Cardinality(A)
  <2>1. Cardinality(InIndex(s) \cup A)
          = Cardinality(InIndex(s)) + Cardinality(A) - Cardinality(InIndex(s) \cap A)
    BY <1>2, FS_Union
  <2>2. Cardinality(InIndex(s) \cap A) = 0
    BY FS_EmptySet
  <2>3. Cardinality(InIndex(s)) \in Nat /\ Cardinality(A) \in Nat
    BY <1>2, FS_CardinalityType
  <2> QED BY <2>1, <2>2, <2>3
<1>4. \A a : Entry(s, a)' = Entry(s, a)
  BY SameEntries
<1>5. indexed'[s] = {Entry(s, a) : a \in InIndex(s)'}
  BY <1>1
<1> QED BY <1>1, <1>3, <1>4, <1>5

(* A step that leaves the index of a request alone. *)
LEMMA IndexStays ==
  ASSUME RequestOK, request' = request, NEW s \in Streams, IndexOK(s), Sound(s)' => Sound(s),
         addCount[s] \in Nat,
         InIndex(s)' = InIndex(s), indexed'[s] = indexed[s], addCount'[s] = addCount[s]
  PROVE  IndexOK(s)'
<1> SUFFICES ASSUME Sound(s)'
             PROVE  /\ indexed'[s] = {Entry(s, a)' : a \in InIndex(s)'}
                    /\ addCount'[s] = Cardinality(InIndex(s)')
  BY DEF IndexOK
<1>1. \A a : Entry(s, a)' = Entry(s, a)
  BY SameEntries
<1> QED BY <1>1 DEF IndexOK

(* A chunk without newline starts no document, unless it is the first. *)
LEMMA NoStarts ==
  ASSUME RequestOK, NEW c \in TextChunk, HasPrev(c), NoNewline(c)
  PROVE  StartsOf(c) = {}
BY ChunkLineEnds DEF StartsOf

(* The steps between leave the index alone. *)
LEMMA OtherSteps ==
  ASSUME ControlInv, GivenInv, ExcInv, WorkInv, NEW c \in Chunk, RunJob(c) \/ SplitDoc(c),
         ~IndexBlock(c), ~IndexSplitDoc(c), NEW s \in Streams, Sound(s)'
  PROVE  InIndex(s)' = InIndex(s) /\ indexed' = indexed /\ addCount' = addCount
<1>r. request' = request /\ RequestOK
  BY RequestStays DEF Next, ControlInv, Types, RequestOK
<1>t. job \in [Chunk -> JobStates] /\ fin \in [Chunk -> FinStates]
  BY DEF ControlInv, Types
<1>x. indexed' = indexed /\ addCount' = addCount
  BY DEF RunJob, SplitDoc, ctxVars, Start, ScanPrefix, ScanNoPrefix, Delivered, SetEnd, Ended,
         PassOn, Passed, Release, Arrive
<1>1. ASSUME NEW d \in TextChunk, d[1] = s, StartsOf(d) # {} PROVE JobPast(d)' = JobPast(d)
  <2>0. d \in Chunk /\ ~(HasPrev(d) /\ NoNewline(d))
    BY <1>1, <1>r, NoStarts DEF TextChunk
  <2>1. CASE job'[d] = job[d]
    BY <2>1 DEF JobPast
  <2>2. CASE job'[d] # job[d]
    <3>1. d = c /\ (job'[c] = "scan" => job[c] = "queued")
      BY <2>0, <2>2, JobMoves
    <3>2. CASE Start(c)
      <4>1. job'[c] = "scan"
        BY <1>t, <3>2 DEF Start
      <4> QED BY <3>1, <4>1 DEF JobPast
    <3>3. CASE ScanPrefix(c)
      BY <1>t, <3>1, <3>3 DEF ScanPrefix, JobPast
    <3>4. CASE ScanNoPrefix(c)
      <4>1. job[c] = "scan" /\ job'[c] = "index"
        BY <1>t, <2>0, <3>1, <3>4 DEF ScanNoPrefix, NoNewline
      <4> QED BY <3>1, <4>1 DEF JobPast
    <3>5. CASE Delivered(c)
      BY <1>t, <3>1, <3>5 DEF Delivered, JobPast
    <3>6. CASE SetEnd(c)
      BY <1>t, <3>1, <3>6 DEF SetEnd, JobPast
    <3>7. CASE Ended(c)
      <4>1. exc' = exc /\ ~exc'[c]
        BY <1>1, <2>0, <3>1, <3>7 DEF Ended, Sound
      <4> QED BY <1>t, <3>1, <3>7, <4>1 DEF Ended, JobPast
    <3>8. CASE SplitDoc(c)
      BY <2>2, <3>8 DEF SplitDoc, PassOn, Passed, IndexSplitDoc, Release, Arrive
    <3> QED BY <3>2, <3>3, <3>4, <3>5, <3>6, <3>7, <3>8 DEF RunJob
  <2> QED BY <2>1, <2>2
<1>2. ASSUME NEW d \in TextChunk, d[1] = s, StartsOf(d) # {} PROVE FinPast(d)' = FinPast(d)
  <2>0. d \in Chunk /\ ~(HasPrev(d) /\ NoNewline(d))
    BY <1>2, <1>r, NoStarts DEF TextChunk
  <2>1. ~(d = c /\ fin[c] = "split" /\ fin'[c] \in {"passing", "release"})
    <3> SUFFICES ASSUME d = c, fin[c] = "split", fin'[c] \in {"passing", "release"} PROVE FALSE
      OBVIOUS
    <3>1. PassOn(c)
      BY <1>t DEF RunJob, SplitDoc, Start, ScanPrefix, ScanNoPrefix, Delivered, IndexBlock, SetEnd,
         Ended, Passed, IndexSplitDoc, Release, Arrive
    <3>2. endOff[c] = -2
      BY <3>1 DEF PassOn
    <3> QED BY <2>0, <3>2 DEF ControlInv, ChunkInv
  <2>2. ~(d = c /\ fin[c] = "passing")
    BY <2>0 DEF ControlInv, ChunkInv, WorkInv, PassInv
  <2>3. \/ fin'[d] = fin[d]
        \/ fin[d] = "open" /\ fin'[d] = "split"
        \/ fin[d] = "release" /\ fin'[d] = "arrive"
        \/ fin[d] = "arrive" /\ fin'[d] = "done"
    BY <2>0, <2>1, <2>2, FinForward
  <2> QED BY <2>3 DEF FinPast
<1>3. InIndex(s)' = InIndex(s)
  BY <1>1, <1>2, <1>r, SameIndex
<1> QED BY <1>x, <1>3

(* The steps of a handler leave the index alone. *)
LEMMA HandlerSteps ==
  ASSUME ControlInv, NEW h \in Streams, Handler(h), NEW s \in Streams
  PROVE  InIndex(s)' = InIndex(s) /\ indexed' = indexed /\ addCount' = addCount
<1>r. request' = request /\ RequestOK
  BY RequestStays DEF Next, ControlInv, Types, RequestOK
<1>1. indexed' = indexed /\ addCount' = addCount
  BY DEF Handler, ctxVars, ReadChunk, StopOnError, AcquireLocal, Submit, CloseLast, Closed, Answer
<1>2. \A d \in TextChunk : JobPast(d)' = JobPast(d)
  <2>1. CASE Submit(h)
    <3>1. <<h, nchunks[h]>> \in Chunk /\ job[<<h, nchunks[h]>>] = "none"
      BY <2>1, LastChunk DEF Submit, ControlInv, HandlerInv
    <3>2. job' = [job EXCEPT ![<<h, nchunks[h]>>] = "queued"] /\ job \in [Chunk -> JobStates]
      BY <2>1 DEF Submit, ControlInv, Types
    <3>3. \A d \in Chunk : job'[d] = job[d] \/ (job[d] = "none" /\ job'[d] = "queued")
      BY <3>1, <3>2
    <3> QED BY <3>3 DEF JobPast, TextChunk
  <2>2. CASE ~Submit(h)
    <3>1. job' = job
      BY <2>2 DEF Handler, ReadChunk, StopOnError, AcquireLocal, CloseLast, Closed, Answer
    <3> QED BY <3>1 DEF JobPast
  <2> QED BY <2>1, <2>2
<1>3. \A d \in TextChunk : FinPast(d)' = FinPast(d)
  BY HandlerFin DEF FinPast, TextChunk
<1>4. InIndex(s)' = InIndex(s)
  BY <1>2, <1>3, <1>r, SameIndex
<1> QED BY <1>1, <1>4

(* addDocuments puts the lines of a chunk into the index. *)
LEMMA BlockStep ==
  ASSUME ControlInv, GivenInv, ExcInv, IndexInv, NEW c \in Chunk, IndexBlock(c), NEW s \in Streams
  PROVE  IndexOK(s)'
<1>n. [Next]_vars
  BY DEF Next, RunJob
<1>r. request' = request /\ RequestOK
  BY <1>n, RequestStays DEF ControlInv, Types, RequestOK
<1>t. /\ job \in [Chunk -> JobStates] /\ error \in [Streams -> BOOLEAN]
      /\ DOMAIN indexed = Streams /\ addCount \in [Streams -> Nat]
  BY DEF ControlInv, Types, IndexInv
<1>s. Sound(s)' => Sound(s)
  BY <1>n, SoundBefore
<1>b. /\ job[c] = "index" /\ job' = [job EXCEPT ![c] = "end"] /\ fin' = fin
      /\ error' = [error EXCEPT ![c[1]] = @ \/ Block(c).failed]
      /\ indexed' = [indexed EXCEPT ![c[1]] = @ \cup {<<Line(c, i), c, "block">> : i \in Block(c).lines}]
      /\ addCount' = [addCount EXCEPT ![c[1]] = @ + Block(c).counted]
  BY DEF IndexBlock
<1>c. c \in TextChunk
  BY <1>b, AtWork
<1>j. JobPast(c)' /\ ~JobPast(c) /\ \A d \in Chunk : d # c => JobPast(d)' = JobPast(d)
  BY <1>t, <1>b DEF JobPast
<1>f. \A d : FinPast(d)' = FinPast(d)
  BY <1>b DEF FinPast
<1>1. CASE s = c[1]
  <2> DEFINE A == BlockStarts(c)
  <2>1. ASSUME Sound(s)' PROVE Block(c).lines = LineEnds(c) /\ Block(c).counted = Cardinality(A)
    <3>1. ~Block(c).failed
      BY <1>t, <1>1, <1>b, <2>1, BlockType, <1>r DEF Sound
    <3>2. FaultyEnds(c) = {}
      BY <3>1 DEF Block
    <3>3. Cardinality(A) = Cardinality(LineEnds(c))
      BY <1>c, <1>r, BlockIs
    <3> QED BY <3>2, <3>3 DEF Block
  <2>2. IsFiniteSet(A)
    BY <1>c, <1>r, BlockIs
  <2>3. /\ \A a \in A : a \in Starts(s) /\ Home(s, a) = c /\ ~Trailing(s, a)
        /\ \A a \in Starts(s) : Home(s, a) = c /\ ~Trailing(s, a) => a \in A
        /\ {<<Line(c, i), c, "block">> : i \in LineEnds(c)} = {Entry(s, a) : a \in A}
    BY <1>c, <1>1, <1>r, BlockEntries
  <2> HIDE DEF A
  <2>4. InIndex(s) \cap A = {}
    BY <1>j, <2>3 DEF InIndex
  <2>5. InIndex(s)' = InIndex(s) \cup A
    <3>1. Starts(s)' = Starts(s) /\ \A a : Trailing(s, a)' = Trailing(s, a)
      BY <1>r, SameEntries
    <3>2. \A a \in Starts(s) : Home(s, a) \in Chunk
      BY <1>r, HomeIs DEF TextChunk
    <3>3. \A a : Home(s, a)' = Home(s, a)
      BY DEF Home
    <3>4. \A a : FinPast(Home(s, a))' = FinPast(Home(s, a))
      BY <1>f, <3>3 DEF FinPast
    <3>5. \A a \in Starts(s) : JobPast(Home(s, a))' <=> JobPast(Home(s, a)) \/ Home(s, a) = c
      <4>1. \A a \in Starts(s) : Home(s, a) = c => JobPast(Home(s, a))'
        BY <1>j, <3>3 DEF JobPast
      <4>2. \A a \in Starts(s) : Home(s, a) # c => JobPast(Home(s, a))' = JobPast(Home(s, a))
        BY <1>j, <3>2, <3>3 DEF JobPast
      <4> QED BY <1>j, <4>1, <4>2 DEF JobPast
    <3>6. \A a \in Starts(s) :
            (IF Trailing(s, a) THEN FinPast(Home(s, a)) ELSE JobPast(Home(s, a)))'
              <=> (IF Trailing(s, a) THEN FinPast(Home(s, a)) ELSE JobPast(Home(s, a))) \/ a \in A
      BY <2>3, <3>1, <3>4, <3>5
    <3> QED BY <2>3, <3>1, <3>6 DEF InIndex
  <2>6. ASSUME Sound(s)'
        PROVE  /\ indexed'[s] = indexed[s] \cup {Entry(s, a) : a \in A}
               /\ addCount'[s] = addCount[s] + Cardinality(A)
    BY <1>t, <1>1, <1>b, <2>1, <2>3, <2>6
  <2> QED BY <1>r, <1>s, <1>t, <2>2, <2>4, <2>5, <2>6, IndexGrows DEF IndexInv
<1>2. CASE s # c[1]
  <2>1. indexed'[s] = indexed[s] /\ addCount'[s] = addCount[s]
    BY <1>t, <1>2, <1>b
  <2>2. InIndex(s)' = InIndex(s)
    <3>1. \A d \in TextChunk : d[1] = s => JobPast(d)' = JobPast(d) /\ FinPast(d)' = FinPast(d)
      BY <1>j, <1>f, <1>2 DEF TextChunk
    <3> QED BY <1>r, <3>1, SameIndex
  <2>3. IndexOK(s)'
    <3>1. addCount[s] \in Nat /\ IndexOK(s)
      BY <1>t DEF IndexInv
    <3> QED BY <1>r, <1>s, <2>1, <2>2, <3>1, IndexStays
  <2> QED BY <2>3
<1> QED BY <1>1, <1>2

(* A split document that neither fails nor throws is in the index. *)
LEMMA GoodOutcome ==
  ASSUME RequestOK, NEW c \in Chunk, SplitFragment(c) # << >>,
         ~StartsInsideDoc(c[1], FirstLine(c[1], SplitFragment(c))),
         NEW r \in SplitOutcomes(c), ~r.failed, ~r.throws
  PROVE  r.add = 1 /\ r.doc = {<<FirstLine(c[1], SplitFragment(c)), c, "split">>}
<1> DEFINE s == c[1]
           d == FirstLine(s, SplitFragment(c))
           noNewline == LineEndsIn(s, d) = {}
<1>1. Format(s) \in {"csv", "csvchars", "json"} /\ HasFacets(s) \in BOOLEAN
  BY ChunkParts, TextFacts
<1>2. Fault(s, d) \in {"parse", "facet", "write", "none"} /\ ~StartsInsideDoc(s, d)
  BY <1>1 DEF Fault
<1>3. \A n, D : /\ Outcome(n, D, TRUE, FALSE).failed /\ Outcome(n, D, FALSE, TRUE).throws
                /\ Outcome(n, D, FALSE, FALSE).add = n /\ Outcome(n, D, FALSE, FALSE).doc = D
  BY DEF Outcome
<1> HIDE DEF d
<1>4. \/ \E n, D : r = Outcome(n, D, TRUE, FALSE) \/ r = Outcome(n, D, FALSE, TRUE)
      \/ r = Outcome(1, {<<d, c, "split">>}, FALSE, FALSE)
  BY <1>1, <1>2 DEF SplitOutcomes, d
<1>5. r = Outcome(1, {<<d, c, "split">>}, FALSE, FALSE)
  <2>1. ASSUME NEW n, NEW D, r = Outcome(n, D, TRUE, FALSE) \/ r = Outcome(n, D, FALSE, TRUE) PROVE FALSE
    BY <1>3, <2>1
  <2> QED BY <1>4, <2>1
<1>6. r.add = 1 /\ r.doc = {<<d, c, "split">>}
  BY <1>3, <1>5
<1> QED BY <1>6 DEF d

(* The end fragment of a chunk goes into the index, when there is one. *)
LEMMA SplitStep ==
  ASSUME ControlInv, GivenInv, ExcInv, TextInv, WorkInv, IndexInv,
         NEW c \in Chunk, IndexSplitDoc(c), NEW s \in Streams
  PROVE  IndexOK(s)'
<1>n. [Next]_vars
  BY DEF Next, SplitDoc
<1>r. request' = request /\ RequestOK
  BY <1>n, RequestStays DEF ControlInv, Types, RequestOK
<1>t. /\ fin \in [Chunk -> FinStates] /\ error \in [Streams -> BOOLEAN] /\ exc \in [Chunk -> BOOLEAN]
      /\ DOMAIN indexed = Streams /\ addCount \in [Streams -> Nat]
  BY DEF ControlInv, Types, IndexInv
<1>s. Sound(s)' => Sound(s)
  BY <1>n, SoundBefore
<1>i. IndexOK(s) /\ addCount[s] \in Nat
  BY <1>t DEF IndexInv
<1>b. PICK r \in SplitOutcomes(c) :
        /\ addCount' = [addCount EXCEPT ![c[1]] = @ + r.add]
        /\ indexed' = [indexed EXCEPT ![c[1]] = @ \cup r.doc]
        /\ error' = [error EXCEPT ![c[1]] = @ \/ r.failed]
        /\ exc' = [exc EXCEPT ![c] = r.throws]
  BY DEF IndexSplitDoc
<1>m. fin[c] = "split" /\ endOff[c] # -2 /\ fin' = [fin EXCEPT ![c] = "release"] /\ job' = job
  BY DEF IndexSplitDoc
<1>c. c \in TextChunk /\ nextFrag[c] # << >> /\ endOff[c] # -1 /\ job[c] \in {"ending", "done", "died"}
  BY <1>m, AtWork DEF ControlInv, ChunkInv
<1>f. FinPast(c)' /\ ~FinPast(c) /\ \A d \in Chunk : d # c => FinPast(d)' = FinPast(d)
  BY <1>t, <1>m DEF FinPast
<1>j. \A d : JobPast(d)' = JobPast(d)
  BY <1>m DEF JobPast
<1>1. CASE s = c[1] /\ Sound(s)'
  <2> DEFINE t == TailStart(c)
             frag == SplitFragment(c)
             d == FirstLine(s, frag)
  <2>1. ~r.failed /\ ~r.throws
    BY <1>t, <1>b, <1>1, <1>r, OutcomeType DEF Sound
  <2>2. ~error[s] /\ \A x \in Chunk : x[1] = s => ~exc[x]
    BY <1>s, <1>1 DEF Sound
  <2>3. endOff[c] = EndOffset(c) /\ nextFrag[c][1] = Behind(c)
    BY <1>c, <1>1, <2>2 DEF TextInv, EndInv, FragInv
  <2>4. JobPast(c)
    <3>1. job[c] # "died"
      BY <1>1, <2>2, ChunkParts DEF WorkInv, DiedInv
    <3> QED BY <1>c, <3>1 DEF JobPast
  <2>5. FaultyEnds(c) = {}
    BY <1>1, <2>2, <2>4 DEF WorkInv, LineInv
  <2>6. ~(HasPrev(c) /\ NoNewline(c))
    BY <1>m, <1>r, <2>3, EndOffsetType DEF NoNewline
  <2>7. \/ t = Len(Text(s)) /\ frag = << >>
        \/ /\ t \in Starts(s) /\ frag # << >> /\ d = Run(t, DocEnd(s, t))
           /\ ~StartsInsideDoc(s, d)
    BY <1>1, <1>c, <1>r, <2>3, <2>5, <2>6, GluedIsDocument
  <2>8. /\ t \in Starts(s) => Home(s, t) = c /\ Trailing(s, t)
        /\ \A a \in Starts(s) : Home(s, a) = c /\ Trailing(s, a) => a = t
    BY <1>1, <1>c, <1>r, <2>5, <2>6, TailEntry
  <2> HIDE DEF t, frag, d
  <2> DEFINE A == {a \in Starts(s) : a = t}
  <2>9. InIndex(s)' = InIndex(s) \cup A
    <3>1. Starts(s)' = Starts(s) /\ \A a : Trailing(s, a)' = Trailing(s, a)
      BY <1>r, SameEntries
    <3>2. \A a \in Starts(s) : Home(s, a) \in Chunk
      BY <1>r, HomeIs DEF TextChunk
    <3>3. \A a : Home(s, a)' = Home(s, a)
      BY DEF Home
    <3>4. \A a : JobPast(Home(s, a))' = JobPast(Home(s, a))
      BY <1>j, <3>3 DEF JobPast
    <3>5. \A a \in Starts(s) : FinPast(Home(s, a))' <=> FinPast(Home(s, a)) \/ Home(s, a) = c
      <4>1. \A a \in Starts(s) : Home(s, a) = c => FinPast(Home(s, a))'
        BY <1>f, <3>3 DEF FinPast
      <4>2. \A a \in Starts(s) : Home(s, a) # c => FinPast(Home(s, a))' = FinPast(Home(s, a))
        BY <1>f, <3>2, <3>3 DEF FinPast
      <4> QED BY <1>f, <4>1, <4>2 DEF FinPast
    <3>6. \A a \in Starts(s) :
            (IF Trailing(s, a) THEN FinPast(Home(s, a)) ELSE JobPast(Home(s, a)))'
              <=> (IF Trailing(s, a) THEN FinPast(Home(s, a)) ELSE JobPast(Home(s, a))) \/ a \in A
      BY <2>8, <3>1, <3>4, <3>5
    <3> QED BY <3>1, <3>6 DEF InIndex
  <2>10. InIndex(s) \cap A = {}
    BY <1>f, <2>8 DEF InIndex
  <2>11. CASE t = Len(Text(s)) /\ frag = << >>
    <3>1. A = {}
      <4>1. Len(Text(s)) \in Nat
        BY <1>r, TextFacts
      <4>2. \A a \in Starts(s) : a < Len(Text(s))
        BY DEF Starts
      <4>3. t \notin Starts(s)
        BY <2>11, <4>1, <4>2
      <4> QED BY <4>3
    <3>2. r = Outcome(0, {}, FALSE, FALSE)
      BY <2>11 DEF SplitOutcomes, frag
    <3>3. r.add = 0 /\ r.doc = {}
      BY <3>2 DEF Outcome
    <3>4. indexed'[s] = indexed[s] /\ addCount'[s] = addCount[s]
      BY <1>t, <1>b, <1>1, <3>3
    <3> QED BY <1>r, <1>s, <1>i, <2>9, <3>1, <3>4, IndexStays
  <2>12. CASE /\ t \in Starts(s) /\ frag # << >> /\ d = Run(t, DocEnd(s, t))
              /\ ~StartsInsideDoc(s, d)
    <3>1. A = {t}
      BY <2>12
    <3>2. r.add = 1 /\ r.doc = {<<d, c, "split">>}
      BY <1>1, <1>r, <2>1, <2>12, GoodOutcome DEF d, frag
    <3>3. Entry(s, t) = <<d, c, "split">>
      BY <2>8, <2>12 DEF Entry
    <3>4. IsFiniteSet(A) /\ Cardinality(A) = 1
      BY <3>1, FS_Singleton
    <3>5. {Entry(s, a) : a \in A} = {<<d, c, "split">>}
      BY <3>1, <3>3
    <3>6. /\ indexed'[s] = indexed[s] \cup {Entry(s, a) : a \in A}
          /\ addCount'[s] = addCount[s] + Cardinality(A)
      <4> HIDE DEF A
      <4> QED BY <1>t, <1>b, <1>1, <3>2, <3>4, <3>5
    <3> HIDE DEF A
    <3> QED BY <1>r, <1>s, <1>i, <2>9, <2>10, <3>4, <3>6, IndexGrows
  <2> QED BY <2>7, <2>11, <2>12
<1>2. CASE s # c[1]
  <2>1. indexed'[s] = indexed[s] /\ addCount'[s] = addCount[s]
    BY <1>t, <1>2, <1>b
  <2>2. InIndex(s)' = InIndex(s)
    <3>1. \A d \in TextChunk : d[1] = s => JobPast(d)' = JobPast(d) /\ FinPast(d)' = FinPast(d)
      BY <1>j, <1>f, <1>2 DEF TextChunk
    <3> QED BY <1>r, <3>1, SameIndex
  <2> QED BY <1>r, <1>s, <1>i, <2>1, <2>2, IndexStays
<1>3. CASE ~Sound(s)'
  BY <1>3 DEF IndexOK
<1> QED BY <1>1, <1>2, <1>3

(* Every step keeps what is known of the index. *)
LEMMA IndexStep ==
  ASSUME ControlInv, GivenInv, ExcInv, TextInv, WorkInv, IndexInv, [Next]_vars
  PROVE  IndexInv'
<1>r. request' = request /\ RequestOK
  BY RequestStays DEF ControlInv, Types, RequestOK
<1>d. DOMAIN indexed' = Streams
  <2>1. ASSUME NEW h \in Streams, Handler(h) PROVE indexed' = indexed
    BY <2>1, HandlerSteps
  <2>2. ASSUME NEW c \in Chunk, RunJob(c) \/ SplitDoc(c) PROVE DOMAIN indexed' = DOMAIN indexed
    BY <2>2 DEF RunJob, SplitDoc, ctxVars, Start, ScanPrefix, ScanNoPrefix, Delivered, IndexBlock,
                SetEnd, Ended, PassOn, Passed, IndexSplitDoc, Release, Arrive
  <2>3. CASE Idle \/ UNCHANGED vars
    BY <2>3 DEF Idle, vars, IndexInv
  <2> QED BY <2>1, <2>2, <2>3 DEF Next, IndexInv
<1> SUFFICES ASSUME NEW s \in Streams PROVE IndexOK(s)'
  BY <1>d DEF IndexInv
<1>i. IndexOK(s) /\ addCount[s] \in Nat /\ (Sound(s)' => Sound(s))
  BY SoundBefore DEF IndexInv, ControlInv, Types
<1>1. ASSUME NEW h \in Streams, Handler(h) PROVE IndexOK(s)'
  BY <1>1, <1>r, <1>i, HandlerSteps, IndexStays
<1>2. ASSUME NEW c \in Chunk, RunJob(c) \/ SplitDoc(c) PROVE IndexOK(s)'
  <2>1. CASE IndexBlock(c)
    BY <2>1, BlockStep
  <2>2. CASE IndexSplitDoc(c)
    BY <2>2, SplitStep
  <2>3. CASE ~IndexBlock(c) /\ ~IndexSplitDoc(c) /\ Sound(s)'
    BY <1>2, <2>3, <1>r, <1>i, OtherSteps, IndexStays
  <2>4. CASE ~Sound(s)'
    BY <2>4 DEF IndexOK
  <2> QED BY <2>1, <2>2, <2>3, <2>4
<1>3. CASE Idle \/ UNCHANGED vars
  <2>1. UNCHANGED vars
    BY <1>3 DEF Idle
  <2>2. \A d \in TextChunk : JobPast(d)' = JobPast(d) /\ FinPast(d)' = FinPast(d)
    BY <2>1 DEF vars, JobPast, FinPast
  <2>3. InIndex(s)' = InIndex(s)
    BY <1>r, <2>2, SameIndex
  <2> QED BY <1>r, <1>i, <2>1, <2>3, IndexStays DEF vars
<1> QED BY <1>1, <1>2, <1>3 DEF Next

(* The index of a request whose documents are good holds what its chunks are past. *)
LEMMA IndexCorrect == Spec => []IndexInv
<1>1. Init => IndexInv
  <2> SUFFICES ASSUME Init PROVE IndexInv
    OBVIOUS
  <2>1. RequestOK /\ DOMAIN indexed = Streams
    BY DEF Init, RequestOK
  <2>2. ASSUME NEW s \in Streams PROVE InIndex(s) = {}
    <3>1. \A a \in Starts(s) : Home(s, a) \in Chunk
      BY <2>1, HomeIs DEF TextChunk
    <3>2. \A c \in Chunk : ~JobPast(c) /\ ~FinPast(c)
      BY DEF Init, JobPast, FinPast
    <3> QED BY <3>1, <3>2 DEF InIndex
  <2>3. \A s \in Streams : indexed[s] = {} /\ addCount[s] = 0
    BY DEF Init
  <2> QED BY <2>1, <2>2, <2>3, FS_EmptySet DEF IndexInv, IndexOK
<1> QED BY <1>1, IndexStep, ControlCorrect, GivenCorrect, ExcCorrect, TextCorrect, WorkCorrect, PTL
        DEF Spec

-----------------------------------------------------------------------------
(* What success means. *)

(* When a request is answered with success and no chunk of it threw, all of its
   documents are past. *)
LEMMA AllPast ==
  ASSUME ControlInv, PhaserInv, ExcInv, TextInv, WorkInv,
         NEW s \in Streams, answer[s] = "ok", Sound(s)
  PROVE  InIndex(s) = Starts(s)
<1>r. RequestOK
  BY DEF ControlInv, Types, RequestOK
<1>1. Outstanding(s) = {} /\ nchunks[s] = NumChunks(s)
  <2>1. phase[s] # 0 /\ Outstanding(s) = {} /\ hpc[s] \in Closed3
    BY DEF PhaserInv, PhaserOK
  <2> QED BY <2>1 DEF TextInv, CutInv, Sound
<1>2. ASSUME NEW c \in TextChunk, c[1] = s PROVE JobPast(c) /\ FinPast(c)
  <2>1. c \in Chunk /\ c[2] \in 1 .. MaxChunks /\ c[2] <= NumChunks(s) /\ NumChunks(s) \in 1 .. MaxChunks
    BY <1>r, <1>2, ChunkParts, TextFacts DEF TextChunk
  <2>2. c[2] \in 1 .. nchunks[s]
    BY <1>1, <2>1, MaxChunksType
  <2>3. fin[c] = "done"
    BY <1>1, <1>2, <2>1, <2>2, ChunkParts DEF Outstanding
  <2>4. job[c] \in {"ending", "done", "died"}
    BY <2>1, <2>3 DEF ControlInv, ChunkInv
  <2>5. job[c] # "died"
    BY <1>2, <2>1, ChunkParts DEF WorkInv, DiedInv, Sound
  <2> QED BY <2>3, <2>4, <2>5 DEF JobPast, FinPast
<1>3. \A a \in Starts(s) : Home(s, a) \in TextChunk /\ Home(s, a)[1] = s
  BY <1>r, HomeIs
<1> QED BY <1>2, <1>3 DEF InIndex

(* The entries of all documents are the documents, each once. *)
LEMMA AllEntries ==
  ASSUME RequestOK, NEW s \in Streams
  PROVE  /\ {e[1] : e \in {Entry(s, a) : a \in Starts(s)}} = Documents(s)
         /\ Cardinality({Entry(s, a) : a \in Starts(s)}) = Cardinality(Documents(s))
<1> DEFINE T == {Entry(s, a) : a \in Starts(s)}
           f == [a \in Starts(s) |-> Entry(s, a)]
<1>1. \A a \in Starts(s) : Entry(s, a)[1] = Run(a, DocEnd(s, a))
  BY DEF Entry
<1>2. {e[1] : e \in T} = {Run(a, DocEnd(s, a)) : a \in Starts(s)}
  <2> HIDE DEF f
  <2>1. {e[1] : e \in T} = {Entry(s, a)[1] : a \in Starts(s)}
    OBVIOUS
  <2> QED BY <1>1, <2>1
<1>3. f \in [Starts(s) -> T] /\ \A t \in T : \E a \in Starts(s) : f[a] = t
  OBVIOUS
<1>4. \A a, b \in Starts(s) : f[a] = f[b] => a = b
  <2> SUFFICES ASSUME NEW a \in Starts(s), NEW b \in Starts(s), Entry(s, a) = Entry(s, b) PROVE a = b
    OBVIOUS
  <2>1. Run(a, DocEnd(s, a)) = Run(b, DocEnd(s, b))
    BY <1>1
  <2> QED BY <2>1, StartsDiffer
<1>5. IsFiniteSet(Starts(s)) /\ Cardinality(Documents(s)) = Cardinality(Starts(s))
  BY DocumentCount
<1> HIDE DEF T, f
<1>6. Cardinality(T) = Cardinality(Starts(s))
  BY <1>3, <1>4, <1>5, ImageCount
<1> QED BY <1>2, <1>5, <1>6, DocumentsAre DEF T

(* A request that reports success indexed every document of its stream once, and
   reports their number, unless a split document threw an exception: for any texts,
   chunk lengths, streams, threads and permits, in each of the three handlers. *)
THEOREM SuccessIsComplete == Spec => [](NoException => OkMeansIndexedOnce)
<1>1. ControlInv /\ PhaserInv /\ ExcInv /\ TextInv /\ WorkInv /\ IndexInv
        => (NoException => OkMeansIndexedOnce)
  <2> SUFFICES ASSUME ControlInv, PhaserInv, ExcInv, TextInv, WorkInv, IndexInv, NoException,
                      NEW s \in Streams, answer[s] = "ok"
               PROVE  /\ {e[1] : e \in indexed[s]} = Documents(s)
                      /\ Cardinality(indexed[s]) = Cardinality(Documents(s))
                      /\ addCount[s] = Cardinality(Documents(s))
    BY DEF OkMeansIndexedOnce
  <2>1. RequestOK
    BY DEF ControlInv, Types, RequestOK
  <2>2. Sound(s)
    BY DEF WorkInv, OkInv, NoException, Sound
  <2>3. InIndex(s) = Starts(s)
    BY <2>2, AllPast
  <2>4. indexed[s] = {Entry(s, a) : a \in Starts(s)} /\ addCount[s] = Cardinality(Starts(s))
    BY <2>2, <2>3 DEF IndexInv, IndexOK
  <2> QED BY <2>1, <2>4, AllEntries, DocumentCount
<1> QED BY <1>1, ControlCorrect, PhaserCorrect, ExcCorrect, TextCorrect, WorkCorrect, IndexCorrect, PTL

\* No request is for an index with facets.
NoFacets == \A r \in Requests : ~r.facets

(* In an index without facets no split document throws, so success always means that,
   and what was taken always comes back. *)
THEOREM WithoutFacets ==
  ASSUME NoFacets
  PROVE  Spec => [](OkMeansIndexedOnce /\ PermitsReturned /\ ShardDrained)
<1>1. ControlInv /\ ExcInv => NoException
  <2> SUFFICES ASSUME ControlInv, ExcInv, NEW c \in Chunk, exc[c] PROVE FALSE
    BY DEF NoException
  <2>1. HasFacets(c[1])
    BY DEF ExcInv
  <2>2. request[c[1]] \in Requests
    BY ChunkParts DEF ControlInv, Types
  <2> QED BY <2>1, <2>2 DEF HasFacets, NoFacets
<1>2. ControlInv /\ ExcInv => NoHandlerException
  <2> SUFFICES ASSUME ControlInv, ExcInv, NEW s \in Streams, answer[s] = "exception" PROVE FALSE
    BY DEF NoHandlerException
  <2>1. exc[<<s, nchunks[s]>>] /\ hpc[s] = "answered"
    BY DEF ExcInv
  <2>2. <<s, nchunks[s]>> \in Chunk
    BY <2>1, LastChunk DEF ControlInv, HandlerInv
  <2> QED BY <1>1, <2>1, <2>2 DEF NoException
<1> QED BY <1>1, <1>2, SuccessIsComplete, PermitsComeBack, CountComesBack, ControlCorrect, ExcCorrect,
           PTL

=============================================================================
