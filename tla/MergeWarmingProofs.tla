------------------------- MODULE MergeWarmingProofs -------------------------
(***************************************************************************)
(* Proofs about merge warming, for any set of merges and replicas and any  *)
(* number of registrations and failures: types, the monitor, and that a    *)
(* merge which ended without a close was answered by every replica asked.  *)
(***************************************************************************)
EXTENDS MergeWarming, SequenceTheorems, TLAPS

(* Connections. *)
Conn == Reg \X Via

(* Places of a merge thread between EnterWarming and LeaveWarming. *)
InWarming == {"ask", "list", "check", "poll", "leave"}

(* A merge is listed as warming exactly while its thread is in between, once; a call of
   addReplica is under way only for what was registered. *)
PlaceInv ==
  /\ \A m \in Merge : pc[m] \in InWarming <=> \E k \in 1 .. Len(warming) : warming[k] = m
  /\ \A i \in Reg : i > Len(known) => joiner[i].pc = "none"
  /\ \A i \in Reg : joiner[i].next \in Nat \ {0}

(* A connection the primary has not seen the end of is in the list, or about to be put
   there, until the wait is over; it is over with an empty list only, and for good. *)
ListedInv ==
  \A m \in Merge :
    /\ finished[m] => pc[m] \in {"leave", "done"}
    /\ finished[m] => \A c \in Conn : conn[m][c] \in {"none", "closed"}
    /\ pc[m] \notin {"leave", "done"} => \A c \in Conn : conn[m][c] \in Open =>
         c \in listed[m] \/ (pc[m] = "list" /\ c = <<todo[m].asked, "merge">>)
    /\ pc[m] = "list" => todo[m].asked \in Reg

(* TypeOK in three parts: merge threads, their list, and everybody else. *)
MergeTypes ==
  /\ pc \in [Merge -> {"idle", "enter", "ask", "list", "check", "poll", "leave", "done"}]
  /\ todo \in [Merge -> [read : 0 .. MaxJoins, asked : 0 .. MaxJoins]]
  /\ listed \in [Merge -> SUBSET Conn]
  /\ finished \in [Merge -> BOOLEAN]
  /\ conn \in [Merge -> [Conn -> Open \cup {"none", "closed"}]]

ListTypes == warming \in Seq(Merge) /\ IsInjective(warming)

JoinTypes ==
  /\ closed \in BOOLEAN /\ fails \in 0 .. MaxFails
  /\ replica \in [Replica -> {"off", "starting", "started", "stopped"}]
  /\ known \in Seq(Replica) /\ Len(known) <= MaxJoins
  /\ joiner \in [Reg -> [pc : {"none", "enter", "joining", "done"}, next : Nat]]
  /\ monitor \in Reg \cup {None}
  /\ monitor # None <=> \E i \in Reg : joiner[i].pc = "joining"
  /\ \A i \in Reg : joiner[i].pc = "joining" => monitor = i

(* The three parts are all of TypeOK. *)
LEMMA TypeParts == TypeOK <=> MergeTypes /\ ListTypes /\ JoinTypes
BY DEF TypeOK, MergeTypes, ListTypes, JoinTypes, Conn

WarmingInv == MergeTypes /\ ListTypes /\ JoinTypes /\ PlaceInv /\ ListedInv

(* Removing one element of a sequence without repetitions leaves the others. *)
LEMMA RemovedOnce ==
  ASSUME NEW S, NEW s \in Seq(S), IsInjective(s), NEW k \in 1 .. Len(s)
  PROVE  /\ RemoveAt(s, k) \in Seq(S) /\ IsInjective(RemoveAt(s, k))
         /\ \A x \in S : (\E j \in 1 .. Len(RemoveAt(s, k)) : RemoveAt(s, k)[j] = x)
                         <=> (x # s[k] /\ \E j \in 1 .. Len(s) : s[j] = x)
<1> DEFINE r == RemoveAt(s, k)
<1>1. /\ r \in Seq(S) /\ Len(r) = Len(s) - 1
      /\ \A j \in 1 .. Len(r) : r[j] = IF j < k THEN s[j] ELSE s[j + 1]
  <2> DEFINE p == SubSeq(s, 1, k - 1)
             q == SubSeq(s, k + 1, Len(s))
  <2>0. Len(s) \in Nat /\ \A j \in 1 .. Len(s) : s[j] \in S
    OBVIOUS
  <2>1. p \in Seq(S) /\ Len(p) = k - 1 /\ \A j \in 1 .. k - 1 : p[j] = s[j]
    BY <2>0
  <2>2. q \in Seq(S) /\ Len(q) = Len(s) - k /\ \A j \in 1 .. Len(s) - k : q[j] = s[k + j]
    BY <2>0
  <2>3. r = p \o q
    BY DEF RemoveAt
  <2> HIDE DEF p, q, r
  <2>4. r \in Seq(S) /\ Len(r) = Len(s) - 1
    <3>1. p \o q \in Seq(S) /\ Len(p \o q) = Len(p) + Len(q)
      <4>1. p \in Seq(S) /\ q \in Seq(S)
        BY <2>1, <2>2
      <4> QED BY ONLY <4>1, ConcatProperties
    <3>2. Len(r) = Len(s) - 1
      BY <2>0, <2>1, <2>2, <2>3, <3>1
    <3> QED BY <2>3, <3>1, <3>2
  <2>5. ASSUME NEW j \in 1 .. Len(r) PROVE r[j] = IF j < k THEN s[j] ELSE s[j + 1]
    <3>1. CASE j < k
      BY <2>0, <2>1, <2>2, <2>3, <2>4, <3>1
    <3>2. CASE ~(j < k)
      <4>1. j - (k - 1) \in 1 .. Len(s) - k /\ k + (j - (k - 1)) = j + 1
        BY <2>0, <2>4, <3>2
      <4>2. r[j] = q[j - (k - 1)]
        BY <2>0, <2>1, <2>2, <2>3, <2>4, <3>2
      <4> QED BY <2>2, <4>1, <4>2, <3>2
    <3> QED BY <3>1, <3>2
  <2> QED BY <2>4, <2>5
<1> HIDE DEF r
<1>2. DOMAIN r = 1 .. Len(r) /\ DOMAIN s = 1 .. Len(s) /\ Len(s) \in Nat
  BY <1>1
<1>0. \A u, v \in 1 .. Len(s) : s[u] = s[v] => u = v
  BY <1>2 DEF IsInjective
<1>3. IsInjective(r)
  <2>1. ASSUME NEW u \in 1 .. Len(r), NEW v \in 1 .. Len(r), r[u] = r[v] PROVE u = v
    <3> DEFINE At(j) == IF j < k THEN j ELSE j + 1
    <3>1. /\ At(u) \in 1 .. Len(s) /\ At(v) \in 1 .. Len(s)
          /\ r[u] = s[At(u)] /\ r[v] = s[At(v)]
      BY <1>1, <1>2
    <3>2. At(u) = At(v)
      BY <1>0, <2>1, <3>1
    <3> QED BY <1>2, <3>2
  <2> QED BY <1>2, <2>1 DEF IsInjective
<1>4. ASSUME NEW x \in S, NEW j \in 1 .. Len(r), r[j] = x
      PROVE  x # s[k] /\ \E i \in 1 .. Len(s) : s[i] = x
  <2> DEFINE i == IF j < k THEN j ELSE j + 1
  <2>1. i \in 1 .. Len(s) /\ i # k /\ s[i] = x
    BY <1>1, <1>2, <1>4
  <2> QED BY <1>0, <2>1
<1>5. ASSUME NEW x \in S, NEW j \in 1 .. Len(s), s[j] = x, x # s[k]
      PROVE  \E i \in 1 .. Len(r) : r[i] = x
  <2>1. CASE j < k
    BY <1>1, <1>2, <1>5, <2>1
  <2>2. CASE j > k
    <3>1. j - 1 \in 1 .. Len(r) /\ r[j - 1] = x
      BY <1>1, <1>2, <1>5, <2>2
    <3> QED BY <3>1
  <2> QED BY <1>2, <1>5, <2>1, <2>2
<1> QED BY <1>1, <1>3, <1>4, <1>5 DEF r

(* Every pair of a registration and a side is a connection. *)
LEMMA Pairs == \A i \in Reg, v \in Via : <<i, v>> \in Conn
BY DEF Conn

(* A request is answered by a connection that is open. *)
LEMMA AnsweringOpen == \A i \in Reg : Answering(i) \subseteq Open
BY DEF Answering, Open, Broken

(* The invariant holds at the start. *)
LEMMA WarmingInit == Init => WarmingInv
<1> SUFFICES ASSUME Init PROVE WarmingInv
  OBVIOUS
<1> USE MergeWarmingAssumption DEF Init
<1>1. MergeTypes
  BY DEF MergeTypes, Conn
<1>2. ListTypes
  BY DEF ListTypes, IsInjective
<1>3. JoinTypes
  <2>1. known \in Seq(Replica) /\ Len(known) <= MaxJoins
    OBVIOUS
  <2>2. \A i \in Reg : joiner[i].pc # "joining"
    OBVIOUS
  <2>3. joiner \in [Reg -> [pc : {"none", "enter", "joining", "done"}, next : Nat]]
    OBVIOUS
  <2>4. closed \in BOOLEAN /\ fails \in 0 .. MaxFails
    <3>1. closed = FALSE /\ fails = 0 /\ 0 \in 0 .. MaxFails
      OBVIOUS
    <3> QED BY ONLY <3>1
  <2>5. replica \in [Replica -> {"off", "starting", "started", "stopped"}] /\ monitor = None
    OBVIOUS
  <2> QED BY ONLY <2>1, <2>2, <2>3, <2>4, <2>5 DEF JoinTypes
<1>4. PlaceInv
  <2>1. \A m \in Merge : pc[m] \in InWarming <=> \E k \in 1 .. Len(warming) : warming[k] = m
    <3>1. Len(warming) = 0
      OBVIOUS
    <3> QED BY <3>1 DEF InWarming
  <2> QED BY <2>1 DEF PlaceInv
<1>5. ListedInv
  BY DEF ListedInv, Open, Broken, Conn
<1> QED BY <1>1, <1>2, <1>3, <1>4, <1>5 DEF WarmingInv

(* The steps of a merge thread. *)
LEMMA MergeKeeps == ASSUME WarmingInv, NEW m \in Merge, MergeStep(m) PROVE WarmingInv'
<1> USE MergeWarmingAssumption DEF WarmingInv, replicas, joins
<1>0. JoinTypes'
  <2>1. UNCHANGED <<closed, fails, replica, known, joiner, monitor>>
    BY DEF MergeStep, ReadReplicas, EnterWarming, Ask, ListConnection, AllAsked,
           CheckFinished, CancelWarming, Poll, LeaveWarming
  <2> QED BY <2>1 DEF JoinTypes
<1>1. CASE ReadReplicas(m)
  <2>0. Len(known) \in 0 .. MaxJoins
    BY DEF JoinTypes
  <2>1. MergeTypes'
    BY <1>1, <2>0 DEF ReadReplicas, MergeTypes
  <2>2. ListTypes'
    BY <1>1 DEF ReadReplicas, ListTypes
  <2>3. PlaceInv'
    BY <1>1 DEF ReadReplicas, PlaceInv, InWarming, MergeTypes
  <2>4. ListedInv'
    BY <1>1 DEF ReadReplicas, ListedInv, MergeTypes
  <2> QED BY <1>0, <2>1, <2>2, <2>3, <2>4
<1>2. CASE EnterWarming(m)
  <2>1. /\ warming' \in Seq(Merge) /\ IsInjective(warming')
        /\ \A x \in Merge : (\E k \in 1 .. Len(warming') : warming'[k] = x)
                            <=> (x = m \/ \E k \in 1 .. Len(warming) : warming[k] = x)
    <3>1. ~ \E k \in 1 .. Len(warming) : warming[k] = m
      BY <1>2 DEF EnterWarming, PlaceInv, InWarming
    <3>2. warming' \in Seq(Merge) /\ Len(warming') = Len(warming) + 1
          /\ \A k \in 1 .. Len(warming') : warming'[k] = IF k = Len(warming) + 1 THEN m ELSE warming[k]
      BY <1>2 DEF EnterWarming, ListTypes
    <3>3. Len(warming) \in Nat /\ DOMAIN warming' = 1 .. Len(warming')
          /\ DOMAIN warming = 1 .. Len(warming)
      BY <3>2 DEF ListTypes
    <3>4. \A u, v \in 1 .. Len(warming) : warming[u] = warming[v] => u = v
      BY <3>3 DEF IsInjective, ListTypes
    <3>5. \A u, v \in 1 .. Len(warming') : warming'[u] = warming'[v] => u = v
      BY <3>1, <3>2, <3>3, <3>4
    <3>6. IsInjective(warming')
      BY <3>3, <3>5 DEF IsInjective
    <3>7. \A x \in Merge : (\E k \in 1 .. Len(warming') : warming'[k] = x)
                         <=> (x = m \/ \E k \in 1 .. Len(warming) : warming[k] = x)
      BY <3>2, <3>3
    <3> QED BY <3>2, <3>6, <3>7
  <2>2. MergeTypes' /\ ListTypes'
    BY <1>2, <2>1 DEF EnterWarming, MergeTypes, ListTypes
  <2>3. PlaceInv'
    BY <1>2, <2>1 DEF EnterWarming, PlaceInv, InWarming, MergeTypes
  <2>4. ListedInv'
    BY <1>2 DEF EnterWarming, ListedInv, MergeTypes
  <2> QED BY <1>0, <2>2, <2>3, <2>4
<1>3. CASE Ask(m)
  <2> DEFINE i == todo[m].asked + 1
  <2>0. i \in Reg /\ i \in 0 .. MaxJoins /\ <<i, "merge">> \in Conn
    <3>1. i \in Reg /\ i \in 0 .. MaxJoins
      BY <1>3 DEF Ask, MergeTypes, Reg
    <3> QED BY <3>1, Pairs DEF Via
  <2>1. Answering(i) \subseteq Open
    BY <2>0, AnsweringOpen
  <2>2. ListTypes'
    BY <1>3 DEF Ask, ListTypes
  <2>a. /\ pc[m] = "ask" /\ todo' = [todo EXCEPT ![m].asked = i]
        /\ UNCHANGED <<listed, finished, known, joiner, warming>>
    BY <1>3 DEF Ask
  <2>3. CASE UNCHANGED <<conn, pc>>
    <3>1. MergeTypes'
      BY <2>0, <2>3, <2>a DEF MergeTypes
    <3>2. PlaceInv'
      BY <2>3, <2>a DEF PlaceInv
    <3>3. ListedInv'
      BY <2>3, <2>a DEF ListedInv, MergeTypes
    <3> QED BY <1>0, <2>2, <3>1, <3>2, <3>3
  <2>4. ASSUME NEW s \in Open, conn' = [conn EXCEPT ![m][<<i, "merge">>] = s],
               pc' = [pc EXCEPT ![m] = "list"]
        PROVE  WarmingInv'
    <3>1. MergeTypes'
      BY <2>0, <2>4, <2>a DEF MergeTypes
    <3>2. PlaceInv'
      BY <2>4, <2>a DEF PlaceInv, InWarming, MergeTypes
    <3>3. ListedInv'
      BY <2>0, <2>4, <2>a DEF ListedInv, MergeTypes
    <3> QED BY <1>0, <2>2, <3>1, <3>2, <3>3
  <2> QED BY <1>3, <2>1, <2>3, <2>4 DEF Ask
<1>4. CASE ListConnection(m)
  <2>0. <<todo[m].asked, "merge">> \in Conn
    BY <1>4, Pairs DEF ListConnection, ListedInv, Via
  <2>1. MergeTypes'
    BY <1>4, <2>0 DEF ListConnection, MergeTypes
  <2>2. ListTypes'
    BY <1>4 DEF ListConnection, ListTypes
  <2>3. PlaceInv'
    BY <1>4 DEF ListConnection, PlaceInv, InWarming, MergeTypes
  <2>4. ListedInv'
    BY <1>4, <2>0 DEF ListConnection, ListedInv, MergeTypes
  <2> QED BY <1>0, <2>1, <2>2, <2>3, <2>4
<1>5. CASE AllAsked(m)
  <2>1. MergeTypes'
    BY <1>5 DEF AllAsked, MergeTypes
  <2>2. ListTypes'
    BY <1>5 DEF AllAsked, ListTypes
  <2>3. PlaceInv'
    BY <1>5 DEF AllAsked, PlaceInv, InWarming, MergeTypes
  <2>4. ListedInv'
    BY <1>5 DEF AllAsked, ListedInv, MergeTypes
  <2> QED BY <1>0, <2>1, <2>2, <2>3, <2>4
<1>6. CASE CheckFinished(m)
  <2>0. listed[m] = {} => \A c \in Conn : conn[m][c] \in {"none", "closed"}
    BY <1>6 DEF CheckFinished, ListedInv, MergeTypes
  <2>1. MergeTypes'
    BY <1>6 DEF CheckFinished, MergeTypes
  <2>2. ListTypes'
    BY <1>6 DEF CheckFinished, ListTypes
  <2>3. PlaceInv'
    BY <1>6 DEF CheckFinished, PlaceInv, InWarming, MergeTypes
  <2>4. ListedInv'
    BY <1>6, <2>0 DEF CheckFinished, ListedInv, MergeTypes
  <2> QED BY <1>0, <2>1, <2>2, <2>3, <2>4
<1>7. CASE CancelWarming(m)
  <2>1. MergeTypes'
    BY <1>7 DEF CancelWarming, MergeTypes
  <2>2. ListTypes'
    BY <1>7 DEF CancelWarming, ListTypes
  <2>3. PlaceInv'
    BY <1>7 DEF CancelWarming, PlaceInv, InWarming, MergeTypes
  <2>4. ListedInv'
    BY <1>7 DEF CancelWarming, ListedInv, MergeTypes
  <2> QED BY <1>0, <2>1, <2>2, <2>3, <2>4
<1>8. CASE Poll(m)
  <2>1. MergeTypes'
    BY <1>8 DEF Poll, MergeTypes
  <2>2. ListTypes'
    BY <1>8 DEF Poll, ListTypes
  <2>3. PlaceInv'
    BY <1>8 DEF Poll, PlaceInv, InWarming, MergeTypes
  <2>4. ListedInv'
    <3>0. PICK thrown \in SUBSET {c \in listed[m] : conn[m][c] \in Broken} :
            LET over == {c \in listed[m] : conn[m][c] \in Over} \cup thrown
            IN /\ listed' = [listed EXCEPT ![m] = @ \ over]
               /\ conn' = [conn EXCEPT ![m] =
                             [c \in DOMAIN @ |-> IF c \in over THEN "closed" ELSE @[c]]]
      BY <1>8 DEF Poll
    <3> DEFINE gone == {c \in listed[m] : conn[m][c] \in Over} \cup thrown
    <3>1. /\ pc[m] = "poll" /\ pc' = [pc EXCEPT ![m] = "check"]
          /\ listed' = [listed EXCEPT ![m] = @ \ gone]
          /\ conn' = [conn EXCEPT ![m] =
                        [c \in DOMAIN @ |-> IF c \in gone THEN "closed" ELSE @[c]]]
          /\ UNCHANGED <<finished, todo>>
      BY <1>8, <3>0 DEF Poll
    <3>2. gone \subseteq Conn /\ DOMAIN conn[m] = Conn
      BY <3>0 DEF MergeTypes
    <3> HIDE DEF gone
    <3>3. /\ listed'[m] = listed[m] \ gone
          /\ \A c \in Conn : conn'[m][c] = IF c \in gone THEN "closed" ELSE conn[m][c]
          /\ pc'[m] = "check"
      BY <3>1, <3>2 DEF MergeTypes
    <3>4. \A n \in Merge \ {m} : /\ listed'[n] = listed[n] /\ conn'[n] = conn[n]
                                /\ pc'[n] = pc[n]
      BY <3>1 DEF MergeTypes
    <3>5. ~finished[m]
      BY <3>1 DEF ListedInv
    <3>6. \A c \in Conn : conn'[m][c] \in Open => c \in listed'[m]
      BY <3>1, <3>3 DEF ListedInv, Open, Broken
    <3>7. UNCHANGED <<finished, todo>>
      BY <3>1
    <3> SUFFICES ASSUME NEW n \in Merge
        PROVE  (/\ finished[n] => pc[n] \in {"leave", "done"}
                /\ finished[n] => \A c \in Conn : conn[n][c] \in {"none", "closed"}
                /\ pc[n] \notin {"leave", "done"} => \A c \in Conn : conn[n][c] \in Open =>
                     c \in listed[n] \/ (pc[n] = "list" /\ c = <<todo[n].asked, "merge">>)
                /\ pc[n] = "list" => todo[n].asked \in Reg)'
      BY DEF ListedInv
    <3>8. CASE n = m
      BY <3>3, <3>5, <3>6, <3>7, <3>8
    <3>9. CASE n # m
      BY <3>4, <3>7, <3>9 DEF ListedInv
    <3> QED BY <3>8, <3>9
  <2> QED BY <1>0, <2>1, <2>2, <2>3, <2>4
<1>9. CASE LeaveWarming(m)
  <2>1. PICK k \in 1 .. Len(warming) : warming[k] = m /\ warming' = RemoveAt(warming, k)
    BY <1>9 DEF LeaveWarming
  <2>2. /\ warming' \in Seq(Merge) /\ IsInjective(warming')
        /\ \A x \in Merge : (\E j \in 1 .. Len(warming') : warming'[j] = x)
                            <=> (x # m /\ \E j \in 1 .. Len(warming) : warming[j] = x)
    <3>1. warming \in Seq(Merge) /\ IsInjective(warming)
      BY DEF ListTypes
    <3> DEFINE r == RemoveAt(warming, k)
    <3>2. /\ r \in Seq(Merge) /\ IsInjective(r)
          /\ \A x \in Merge : (\E j \in 1 .. Len(r) : r[j] = x)
                              <=> (x # warming[k] /\ \E j \in 1 .. Len(warming) : warming[j] = x)
      BY <3>1, RemovedOnce
    <3> HIDE DEF r
    <3>3. warming' = r /\ warming[k] = m
      BY <2>1 DEF r
    <3> QED BY <3>2, <3>3
  <2>3. MergeTypes'
    BY <1>9 DEF LeaveWarming, MergeTypes
  <2>4. ListTypes'
    BY <2>2 DEF ListTypes
  <2>5. PlaceInv'
    BY <1>9, <2>2 DEF LeaveWarming, PlaceInv, InWarming, MergeTypes
  <2>6. ListedInv'
    BY <1>9 DEF LeaveWarming, ListedInv, MergeTypes
  <2> QED BY <1>0, <2>3, <2>4, <2>5, <2>6
<1> QED BY <1>1, <1>2, <1>3, <1>4, <1>5, <1>6, <1>7, <1>8, <1>9 DEF MergeStep

(* The steps of a call of addReplica. *)
LEMMA JoinKeeps == ASSUME WarmingInv, NEW i \in Reg, JoinStep(i) PROVE WarmingInv'
<1> USE MergeWarmingAssumption DEF WarmingInv, replicas, EndJoining
<1>0. i # None /\ None \notin Reg
  BY DEF Reg, None
<1>a. ListTypes'
  <2>1. UNCHANGED warming
    BY DEF JoinStep, BeginJoining, AllJoined, SkipMerge, JoinMerge, JoinBreaks, JoinFails
  <2> QED BY <2>1 DEF ListTypes
<1>1. CASE BeginJoining(i)
  <2>1. MergeTypes'
    BY <1>1 DEF BeginJoining, MergeTypes
  <2>3. PlaceInv'
    BY <1>1 DEF BeginJoining, PlaceInv, JoinTypes
  <2>4. ListedInv'
    BY <1>1 DEF BeginJoining, ListedInv
  <2>5. JoinTypes'
    <3>1. /\ joiner' \in [Reg -> [pc : {"none", "enter", "joining", "done"}, next : Nat]]
          /\ monitor' \in Reg \cup {None}
      BY <1>1 DEF BeginJoining, JoinTypes
    <3>2. /\ monitor' # None <=> \E j \in Reg : joiner'[j].pc = "joining"
          /\ \A j \in Reg : joiner'[j].pc = "joining" => monitor' = j
      BY <1>0, <1>1 DEF BeginJoining, JoinTypes
    <3>3. UNCHANGED <<closed, fails, replica, known>>
      BY <1>1 DEF BeginJoining
    <3> QED BY <3>1, <3>2, <3>3 DEF JoinTypes
  <2> QED BY <1>a, <2>1, <2>3, <2>4, <2>5
<1>2. CASE AllJoined(i)
  <2>1. MergeTypes'
    BY <1>2 DEF AllJoined, MergeTypes
  <2>3. PlaceInv'
    BY <1>2 DEF AllJoined, PlaceInv, JoinTypes
  <2>4. ListedInv'
    BY <1>2 DEF AllJoined, ListedInv
  <2>5. JoinTypes'
    <3>1. /\ joiner' \in [Reg -> [pc : {"none", "enter", "joining", "done"}, next : Nat]]
          /\ monitor' \in Reg \cup {None}
      BY <1>2 DEF AllJoined, JoinTypes
    <3>2. /\ monitor' # None <=> \E j \in Reg : joiner'[j].pc = "joining"
          /\ \A j \in Reg : joiner'[j].pc = "joining" => monitor' = j
      BY <1>0, <1>2 DEF AllJoined, JoinTypes
    <3>3. UNCHANGED <<closed, fails, replica, known>>
      BY <1>2 DEF AllJoined
    <3> QED BY <3>1, <3>2, <3>3 DEF JoinTypes
  <2> QED BY <1>a, <2>1, <2>3, <2>4, <2>5
<1>3. ASSUME NEW m \in Merge, SkipMerge(i, m) PROVE WarmingInv'
  <2>1. MergeTypes'
    BY <1>3 DEF SkipMerge, JoinerAt, MergeTypes
  <2>3. PlaceInv'
    BY <1>3 DEF SkipMerge, JoinerAt, PlaceInv, JoinTypes
  <2>4. ListedInv'
    BY <1>3 DEF SkipMerge, JoinerAt, ListedInv
  <2>5. JoinTypes'
    <3>1. /\ joiner' \in [Reg -> [pc : {"none", "enter", "joining", "done"}, next : Nat]]
          /\ monitor' \in Reg \cup {None}
      BY <1>3 DEF SkipMerge, JoinerAt, JoinTypes
    <3>2. /\ monitor' # None <=> \E j \in Reg : joiner'[j].pc = "joining"
          /\ \A j \in Reg : joiner'[j].pc = "joining" => monitor' = j
      BY <1>0, <1>3 DEF SkipMerge, JoinerAt, JoinTypes
    <3>3. UNCHANGED <<closed, fails, replica, known>>
      BY <1>3 DEF SkipMerge
    <3> QED BY <3>1, <3>2, <3>3 DEF JoinTypes
  <2> QED BY <1>a, <2>1, <2>3, <2>4, <2>5
<1>4. ASSUME NEW m \in Merge, JoinMerge(i, m) PROVE WarmingInv'
  <2>0. /\ <<i, "join">> \in Conn
        /\ \E s \in Open : conn' = [conn EXCEPT ![m][<<i, "join">>] = s]
    <3>1. <<i, "join">> \in Conn
      BY Pairs DEF Via
    <3> QED BY <1>4, <3>1, AnsweringOpen DEF JoinMerge
  <2>1. MergeTypes'
    <3>1. conn' \in [Merge -> [Conn -> Open \cup {"none", "closed"}]]
      BY <2>0 DEF MergeTypes
    <3>2. listed' \in [Merge -> SUBSET Conn]
      BY <1>4, <2>0 DEF JoinMerge, MergeTypes
    <3>3. UNCHANGED <<pc, todo, finished>>
      BY <1>4 DEF JoinMerge
    <3> QED BY <3>1, <3>2, <3>3 DEF MergeTypes
  <2>3. PlaceInv'
    BY <1>4 DEF JoinMerge, JoinerAt, PlaceInv, JoinTypes
  <2>4. ListedInv'
    BY <1>4, <2>0 DEF JoinMerge, JoinerAt, TooLate, ListedInv, MergeTypes
  <2>5. JoinTypes'
    <3>1. /\ joiner' \in [Reg -> [pc : {"none", "enter", "joining", "done"}, next : Nat]]
          /\ monitor' \in Reg \cup {None}
      BY <1>4 DEF JoinMerge, JoinerAt, JoinTypes
    <3>2. /\ monitor' # None <=> \E j \in Reg : joiner'[j].pc = "joining"
          /\ \A j \in Reg : joiner'[j].pc = "joining" => monitor' = j
      BY <1>0, <1>4 DEF JoinMerge, JoinerAt, JoinTypes
    <3>3. UNCHANGED <<closed, fails, replica, known>>
      BY <1>4 DEF JoinMerge
    <3> QED BY <3>1, <3>2, <3>3 DEF JoinTypes
  <2> QED BY <1>a, <2>1, <2>3, <2>4, <2>5
<1>5. ASSUME NEW m \in Merge, JoinFails(i, m) PROVE WarmingInv'
  <2>1. MergeTypes'
    BY <1>5 DEF JoinFails, JoinerAt, MergeTypes
  <2>3. PlaceInv'
    BY <1>5 DEF JoinFails, JoinerAt, PlaceInv, JoinTypes
  <2>4. ListedInv'
    BY <1>5 DEF JoinFails, JoinerAt, ListedInv
  <2>5. JoinTypes'
    <3>1. /\ joiner' \in [Reg -> [pc : {"none", "enter", "joining", "done"}, next : Nat]]
          /\ monitor' \in Reg \cup {None}
      BY <1>5 DEF JoinFails, JoinerAt, JoinTypes
    <3>2. /\ monitor' # None <=> \E j \in Reg : joiner'[j].pc = "joining"
          /\ \A j \in Reg : joiner'[j].pc = "joining" => monitor' = j
      BY <1>0, <1>5 DEF JoinFails, JoinerAt, JoinTypes
    <3>3. UNCHANGED <<closed, fails, replica, known>>
      BY <1>5 DEF JoinFails
    <3> QED BY <3>1, <3>2, <3>3 DEF JoinTypes
  <2> QED BY <1>a, <2>1, <2>3, <2>4, <2>5
<1>6. ASSUME NEW m \in Merge, JoinBreaks(i, m) PROVE WarmingInv'
  <2>0. /\ <<i, "join">> \in Conn
        /\ \E s \in Open : conn' = [conn EXCEPT ![m][<<i, "join">>] = s]
    <3>1. <<i, "join">> \in Conn
      BY Pairs DEF Via
    <3> QED BY <1>6, <3>1, AnsweringOpen DEF JoinBreaks, Open, Broken
  <2>1. MergeTypes'
    <3>1. conn' \in [Merge -> [Conn -> Open \cup {"none", "closed"}]]
      BY <2>0 DEF MergeTypes
    <3>2. listed' \in [Merge -> SUBSET Conn]
      BY <1>6, <2>0 DEF JoinBreaks, MergeTypes
    <3>3. UNCHANGED <<pc, todo, finished>>
      BY <1>6 DEF JoinBreaks
    <3> QED BY <3>1, <3>2, <3>3 DEF MergeTypes
  <2>3. PlaceInv'
    BY <1>6 DEF JoinBreaks, JoinerAt, PlaceInv, JoinTypes
  <2>4. ListedInv'
    BY <1>6, <2>0 DEF JoinBreaks, JoinerAt, TooLate, ListedInv, MergeTypes
  <2>5. JoinTypes'
    <3>1. /\ joiner' \in [Reg -> [pc : {"none", "enter", "joining", "done"}, next : Nat]]
          /\ monitor' \in Reg \cup {None}
      BY <1>6 DEF JoinBreaks, JoinerAt, JoinTypes
    <3>2. /\ monitor' # None <=> \E j \in Reg : joiner'[j].pc = "joining"
          /\ \A j \in Reg : joiner'[j].pc = "joining" => monitor' = j
      BY <1>0, <1>6 DEF JoinBreaks, JoinerAt, JoinTypes
    <3>3. UNCHANGED <<closed, fails, replica, known>>
      BY <1>6 DEF JoinBreaks
    <3> QED BY <3>1, <3>2, <3>3 DEF JoinTypes
  <2> QED BY <1>a, <2>1, <2>3, <2>4, <2>5
<1> QED BY <1>1, <1>2, <1>3, <1>4, <1>5, <1>6 DEF JoinStep

(* What replicas and the close of the primary do. *)
LEMMA OthersKeep ==
  ASSUME WarmingInv,
         \/ \E m \in Merge, c \in Reg \X Via : Answer(m, c)
         \/ \E r \in Replica : StartReplica(r) \/ StartEnds(r) \/ StartThrows(r)
                              \/ CrashReplica(r) \/ StopReplica(r)
         \/ ClosePrimary
         \/ UNCHANGED vars
  PROVE  WarmingInv'
<1> USE MergeWarmingAssumption DEF WarmingInv, replicas, joins
<1>1. ASSUME NEW m \in Merge, NEW c \in Conn, Answer(m, c) PROVE WarmingInv'
  <2>1. MergeTypes'
    BY <1>1 DEF Answer, MergeTypes, Open, Broken
  <2>2. ListTypes' /\ PlaceInv'
    BY <1>1 DEF Answer, PlaceInv, ListTypes
  <2>3. ListedInv'
    BY <1>1 DEF Answer, ListedInv, MergeTypes, Open, Broken
  <2>4. JoinTypes'
    BY <1>1 DEF Answer, JoinTypes
  <2> QED BY <2>1, <2>2, <2>3, <2>4
<1>2. ASSUME NEW r \in Replica, StartReplica(r) PROVE WarmingInv'
  <2>0. MergeTypes' /\ ListTypes' /\ ListedInv'
    BY <1>2 DEF StartReplica, MergeTypes, ListTypes, ListedInv
  <2>a. replica' \in [Replica -> {"off", "starting", "started", "stopped"}]
    BY <1>2 DEF StartReplica, JoinTypes
  <2>1. CASE UNCHANGED <<known, joiner>>
    <3>1. JoinTypes'
      BY <1>2, <2>1, <2>a DEF StartReplica, JoinTypes
    <3>2. PlaceInv'
      BY <1>2, <2>1 DEF StartReplica, PlaceInv
    <3> QED BY <2>0, <3>1, <3>2
  <2>2. CASE known' = Append(known, r) /\ joiner' = [joiner EXCEPT ![Len(known')].pc = "enter"]
    <3>1. /\ known' \in Seq(Replica) /\ Len(known') = Len(known) + 1 /\ Len(known) \in Nat
          /\ Len(known') <= MaxJoins
      BY <1>2, <2>2 DEF StartReplica, JoinTypes
    <3>2. Len(known') \in Reg /\ joiner[Len(known')].pc = "none"
      BY <3>1 DEF PlaceInv, Reg
    <3>3. joiner' \in [Reg -> [pc : {"none", "enter", "joining", "done"}, next : Nat]]
      BY <2>2, <3>2 DEF JoinTypes
    <3>4. \A j \in Reg : joiner'[j].pc = "joining" <=> joiner[j].pc = "joining"
      BY <2>2, <3>2 DEF JoinTypes
    <3>5. JoinTypes'
      BY <1>2, <2>a, <3>1, <3>3, <3>4 DEF StartReplica, JoinTypes
    <3>6. PlaceInv'
      <4>1. \A m \in Merge : (pc[m] \in InWarming <=> \E k \in 1 .. Len(warming) : warming[k] = m)'
        BY <1>2 DEF StartReplica, PlaceInv
      <4>2. \A j \in Reg : j > Len(known') => joiner'[j].pc = "none"
        BY <2>2, <3>1, <3>2 DEF PlaceInv, JoinTypes, Reg
      <4>3. \A j \in Reg : joiner'[j].next \in Nat \ {0}
        BY <2>2, <3>2 DEF PlaceInv, JoinTypes
      <4> QED BY <4>1, <4>2, <4>3 DEF PlaceInv
    <3> QED BY <2>0, <3>5, <3>6
  <2> QED BY <1>2, <2>1, <2>2 DEF StartReplica
<1>3. ASSUME NEW r \in Replica, CrashReplica(r) \/ StopReplica(r) PROVE WarmingInv'
  <2>1. PICK s \in {"gone", "answered"} :
          conn' = [m \in Merge |-> [c \in DOMAIN conn[m] |->
                                      IF c \in Copies(r, m) THEN s ELSE conn[m][c]]]
    BY <1>3 DEF CrashReplica, StopReplica
  <2>a. \A m \in Merge : DOMAIN conn[m] = Conn /\ Copies(r, m) \subseteq Conn
    BY DEF MergeTypes, Copies
  <2>2. \A m \in Merge, c \in Conn :
          conn'[m][c] = conn[m][c] \/ (conn[m][c] \in Open /\ conn'[m][c] \in Open)
    BY <2>1, <2>a DEF Copies, Open, Broken
  <2>3. MergeTypes'
    <3>1. conn' \in [Merge -> [Conn -> Open \cup {"none", "closed"}]]
      BY <2>1, <2>a DEF MergeTypes, Open, Broken
    <3> QED BY <1>3, <3>1 DEF CrashReplica, StopReplica, MergeTypes
  <2>4. ListTypes' /\ PlaceInv'
    BY <1>3 DEF CrashReplica, StopReplica, ListTypes, PlaceInv
  <2>5. JoinTypes'
    <3>1. replica' \in [Replica -> {"off", "starting", "started", "stopped"}] /\ fails' \in 0 .. MaxFails
      BY <1>3 DEF CrashReplica, StopReplica, JoinTypes
    <3>2. UNCHANGED <<closed, known, joiner, monitor>>
      BY <1>3 DEF CrashReplica, StopReplica
    <3> QED BY <3>1, <3>2 DEF JoinTypes
  <2>6. ListedInv'
    <3>1. UNCHANGED <<pc, todo, listed, finished>>
      BY <1>3 DEF CrashReplica, StopReplica
    <3> QED BY <2>2, <3>1 DEF ListedInv, Open, Broken
  <2> QED BY <2>3, <2>4, <2>5, <2>6
<1>4. CASE ClosePrimary
  <2>1. MergeTypes' /\ ListTypes' /\ PlaceInv' /\ ListedInv'
    BY <1>4 DEF ClosePrimary, MergeTypes, ListTypes, PlaceInv, ListedInv
  <2>2. JoinTypes'
    BY <1>4 DEF ClosePrimary, JoinTypes
  <2> QED BY <2>1, <2>2
<1>5. CASE UNCHANGED vars
  BY <1>5 DEF vars, MergeTypes, ListTypes, JoinTypes, PlaceInv, ListedInv
<1>6. ASSUME NEW r \in Replica, StartEnds(r) \/ StartThrows(r) PROVE WarmingInv'
  <2>1. MergeTypes' /\ ListTypes' /\ PlaceInv' /\ ListedInv'
    <3>1. UNCHANGED <<known, joiner, warming, pc, todo, listed, finished, conn>>
      BY <1>6 DEF StartEnds, StartThrows
    <3> QED BY <3>1 DEF MergeTypes, ListTypes, PlaceInv, ListedInv
  <2>2. JoinTypes'
    <3>1. /\ replica' \in [Replica -> {"off", "starting", "started", "stopped"}]
          /\ fails' \in 0 .. MaxFails
      BY <1>6 DEF StartEnds, StartThrows, JoinTypes
    <3>2. UNCHANGED <<closed, known, joiner, monitor>>
      BY <1>6 DEF StartEnds, StartThrows
    <3> QED BY <3>1, <3>2 DEF JoinTypes
  <2> QED BY <2>1, <2>2
<1> QED BY <1>1, <1>2, <1>3, <1>4, <1>5, <1>6 DEF Conn

(* The invariant is one. *)
LEMMA WarmingInvariant == Spec => []WarmingInv
<1>1. WarmingInv /\ [Next]_vars => WarmingInv'
  BY MergeKeeps, JoinKeeps, OthersKeep DEF Next
<1> QED BY <1>1, WarmingInit, PTL DEF Spec

(* Every variable keeps its type; the monitor of warmingSegments has one owner, and a
   merge is listed once. *)
THEOREM WarmingTypes == Spec => []TypeOK
<1>1. WarmingInv => TypeOK
  BY TypeParts DEF WarmingInv
<1> QED BY <1>1, WarmingInvariant, PTL

(* When the wait of a merge ended without a close, every replica that was asked has
   answered or its connection failed. *)
THEOREM WarmingWaits == Spec => []EndsAfterAnswers
<1>1. WarmingInv => EndsAfterAnswers
  BY DEF WarmingInv, ListedInv, EndsAfterAnswers, Conn
<1> QED BY <1>1, WarmingInvariant, PTL
=============================================================================
