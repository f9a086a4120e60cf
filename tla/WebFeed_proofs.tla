--------------------------- MODULE WebFeed_proofs ---------------------------
(***************************************************************************)
(* Theorems about a page of the web UI composed with the hub.  Every step  *)
(* is a step of the hub or leaves the hub alone, so the hub's theorems     *)
(* hold here.  What is left is to follow a frame from the client's channel *)
(* through the writer's hand to the page, and to know where the high-water *)
(* mark comes from.  That the mark is the latest time of the history means *)
(* computing a fold, which is done by induction over the natural numbers   *)
(* below (InductiveSet, FoldExists, FoldIs).                               *)
(***************************************************************************)
EXTENDS WebFeed, SequenceTheorems, FiniteSetTheorems, WellFoundedInduction, TLAPS

\* The theorems about the hub.
HubT == INSTANCE LiveServer_proofs

LEMMA HubAssumptions == HubT!ServerAssumption
  BY HubAssumption DEF HubT!ServerAssumption

LEMMA HubVars == UNCHANGED hubAll => UNCHANGED HubT!vars
  BY DEF hubAll, HubT!vars, HubT!publisherVars, HubT!hubVars, HubT!clientVars

\* WebFeed's instance of the hub is the one the theorems are about.
LEMMA PublisherOps ==
  /\ Hub!Persist => HubT!Persist
  /\ Hub!PublishStep => HubT!PublishStep
  <1>1. Hub!Persist => HubT!Persist
    BY DEF Hub!Persist, Hub!clientVars, HubT!Persist, HubT!clientVars
  <1>2. Hub!Record => HubT!Record
    BY DEF Hub!Record, Hub!Newest, Hub!clientVars, HubT!Record, HubT!Newest, HubT!clientVars
  <1>3. Hub!PublishReturns => HubT!PublishReturns
    BY DEF Hub!PublishReturns, Hub!hubVars, Hub!clientVars,
           HubT!PublishReturns, HubT!hubVars, HubT!clientVars
  <1>4. ASSUME NEW c \in Clients
        PROVE  /\ Hub!FanOut(c) => HubT!FanOut(c)
               /\ Hub!FanOutPanics(c) => HubT!FanOutPanics(c)
    BY DEF Hub!FanOut, Hub!FanOutPanics, Hub!Queue, Hub!hubVars, Hub!publisherVars, Hub!clientVars,
           HubT!FanOut, HubT!FanOutPanics, HubT!Queue, HubT!hubVars, HubT!publisherVars,
           HubT!clientVars
  <1> QED BY <1>1, <1>2, <1>3, <1>4 DEF Hub!PublishStep, HubT!PublishStep

LEMMA HandlerOps ==
  ASSUME NEW c \in Clients
  PROVE  /\ Hub!Register(c) => HubT!Register(c)
         /\ Hub!HandlerStep(c) => HubT!HandlerStep(c)
         /\ Hub!PeerLeaves(c) => HubT!PeerLeaves(c)
  <1> USE DEF Hub!publisherVars, Hub!hubVars, HubT!publisherVars, HubT!hubVars,
              Hub!Goto, HubT!Goto
  <1>1. Hub!Register(c) => HubT!Register(c)
    BY DEF Hub!Register, Hub!Recorded, HubT!Register, HubT!Recorded
  <1>2. Hub!SendBacklog(c) => HubT!SendBacklog(c)
    BY DEF Hub!SendBacklog, Hub!Queue, HubT!SendBacklog, HubT!Queue
  <1>3. /\ Hub!BacklogPanics(c) => HubT!BacklogPanics(c)
        /\ Hub!BacklogSent(c) => HubT!BacklogSent(c)
    BY DEF Hub!BacklogPanics, Hub!BacklogSent, HubT!BacklogPanics, HubT!BacklogSent
  <1>4. /\ Hub!ReadFails(c) => HubT!ReadFails(c)
        /\ Hub!PeerLeaves(c) => HubT!PeerLeaves(c)
    BY DEF Hub!ReadFails, Hub!PeerLeaves, HubT!ReadFails, HubT!PeerLeaves
  <1>5. /\ Hub!Unregister(c) => HubT!Unregister(c)
        /\ Hub!HandlerCloses(c) => HubT!HandlerCloses(c)
    BY DEF Hub!Unregister, Hub!HandlerCloses, Hub!Close,
           HubT!Unregister, HubT!HandlerCloses, HubT!Close
  <1> QED BY <1>1, <1>2, <1>3, <1>4, <1>5 DEF Hub!HandlerStep, HubT!HandlerStep

LEMMA WriterOps ==
  ASSUME NEW c \in Clients
  PROVE  /\ Hub!TakeFrame(c) => HubT!WriterStep(c)
         /\ Hub!FrameWritten(c) => HubT!WriterStep(c)
         /\ Hub!WriteFails(c) => HubT!WriterStep(c)
         /\ Hub!WriterReturns(c) => HubT!WriterStep(c)
  <1> USE DEF Hub!publisherVars, Hub!hubVars, HubT!publisherVars, HubT!hubVars,
              Hub!WriterAt, HubT!WriterAt
  <1>1. /\ Hub!TakeFrame(c) => HubT!TakeFrame(c)
        /\ Hub!FrameWritten(c) => HubT!FrameWritten(c)
    BY DEF Hub!TakeFrame, Hub!FrameWritten, HubT!TakeFrame, HubT!FrameWritten
  <1>2. /\ Hub!WriteFails(c) => HubT!WriteFails(c)
        /\ Hub!WriterReturns(c) => HubT!WriterReturns(c)
    BY DEF Hub!WriteFails, Hub!WriterReturns, Hub!Close,
           HubT!WriteFails, HubT!WriterReturns, HubT!Close
  <1> QED BY <1>1, <1>2 DEF HubT!WriterStep

LEMMA InitHub == Init => HubT!Init
  BY DEF Init, Hub!Init, HubT!Init

LEMMA NextHub == [Next]_vars => [HubT!Next]_(HubT!vars)
  <1> SUFFICES ASSUME [Next]_vars PROVE [HubT!Next]_(HubT!vars)
    OBVIOUS
  <1>1. CASE UNCHANGED hubAll
    BY <1>1, HubVars
  <1>2. CASE ~crashed /\ (Hub!Persist \/ PublishStep)
    BY <1>2, PublisherOps DEF PublishStep, HubT!Next
  <1>3. ASSUME ~crashed, NEW c \in Clients,
               Connect(c) \/ HandlerStep(c) \/ WriterStep(c) \/ Hub!PeerLeaves(c)
        PROVE  HubT!Next
    <2>1. HubT!Register(c) \/ HubT!HandlerStep(c) \/ HubT!WriterStep(c) \/ HubT!PeerLeaves(c)
      BY <1>3, HandlerOps, WriterOps
         DEF Connect, HandlerStep, WriterStep, TakeFrame, FrameWritten, WriteFails
    <2> QED BY <1>3, <2>1 DEF HubT!Next
  <1>4. CASE \/ ServeHistory \/ LoadHistory \/ HistoryFails
             \/ ConnectFails \/ OnClose \/ Retry \/ Unmount \/ UNCHANGED vars
    <2>1. UNCHANGED hubAll
      BY <1>4 DEF ServeHistory, LoadHistory, HistoryFails, ConnectFails, OnClose, Retry, Unmount,
                  vars
    <2> QED BY <2>1, HubVars
  <1> QED BY <1>2, <1>3, <1>4 DEF Next

Elements(s) == {s[i] : i \in 1 .. Len(s)}

\* What the hub brings, in WebFeed's own terms.
HubOK ==
  /\ Hub!TypeOK
  /\ Hub!RingIsNewest
  /\ \A c \in clients \ targets :
       Elements(queued[c]) \cup dropped[c] \cup Elements(backlog[c]) = since[c] .. Hub!Recorded
  /\ Hub!Recorded \in Nat
  /\ \A c \in Clients : handler[c] = "absent" => queued[c] = <<>>
  /\ \A c \in Clients :
       /\ c \in targets => published \notin Elements(queued[c])
       /\ handler[c] = "backlog" /\ backlog[c] # <<>> => Head(backlog[c]) \notin Elements(queued[c])

LEMMA HubHolds == Spec => []HubOK
  <1>1. Spec => HubT!SafetySpec
    BY InitHub, NextHub, PTL DEF Spec, HubT!SafetySpec
  <1>2. HubT!SafetySpec => []HubT!HubInv /\ []HubT!NoneMissed
    BY HubAssumptions, HubT!HubInvariant, HubT!RegisteredSeesAll, PTL
  <1>3. HubT!HubInv /\ HubT!NoneMissed => HubOK
    <2> SUFFICES ASSUME HubT!HubInv, HubT!NoneMissed PROVE HubOK
      OBVIOUS
    <2>1. Hub!TypeOK
      BY DEF HubT!HubInv, HubT!TypeOK, HubT!HandlerStates, Hub!TypeOK, Hub!HandlerStates
    <2>2. Hub!RingIsNewest
      BY DEF HubT!HubInv, HubT!RingIsNewest, HubT!Recorded, Hub!RingIsNewest, Hub!Recorded
    <2>3. ASSUME NEW c \in clients \ targets
          PROVE  Elements(queued[c]) \cup dropped[c] \cup Elements(backlog[c])
                   = since[c] .. Hub!Recorded
      BY DEF HubT!NoneMissed, HubT!Recorded, HubT!Elements, Hub!Recorded, Elements
    <2>4. Hub!Recorded \in Nat
      BY <2>1 DEF HubT!HubInv, HubT!PublisherInv, Hub!TypeOK, Hub!Recorded
    <2>5. \A c \in Clients : handler[c] = "absent" => queued[c] = <<>>
      BY DEF HubT!HubInv, HubT!ClientInv, HubT!Newcomer
    <2>6. ASSUME NEW c \in Clients, handler[c] # "absent"
          PROVE  /\ c \in targets => published \notin Elements(queued[c])
                 /\ backlog[c] # <<>> => Head(backlog[c]) \notin Elements(queued[c])
      <3>1. HubT!Member(c)
        BY <2>6 DEF HubT!HubInv, HubT!ClientInv
      <3>2. /\ published \in Nat /\ joined[c] \in Nat /\ since[c] \in Nat
            /\ backlog[c] \in Seq(Nat) /\ Len(backlog[c]) \in Nat
        BY <2>1, LenProperties DEF Hub!TypeOK
      <3>3. \A v \in Elements(queued[c]) :
              v \in since[c] .. HubT!BacklogEnd(c) \/ v \in joined[c] + 1 .. HubT!Top(c)
        BY <3>1 DEF HubT!Member, HubT!Sent, HubT!Reached, HubT!Elements, Elements
      <3>4. joined[c] <= HubT!Top(c) /\ HubT!BacklogEnd(c) = joined[c] - Len(backlog[c])
        BY <3>1 DEF HubT!Member, HubT!BacklogEnd
      <3>5. ASSUME c \in targets PROVE published \notin Elements(queued[c])
        <4>1. HubT!Top(c) = published - 1
          BY <3>5 DEF HubT!Top
        <4>2. published \notin since[c] .. HubT!BacklogEnd(c)
              /\ published \notin joined[c] + 1 .. HubT!Top(c)
          BY <3>2, <3>4, <4>1
        <4> QED BY <3>3, <4>2
      <3>6. ASSUME backlog[c] # <<>> PROVE Head(backlog[c]) \notin Elements(queued[c])
        <4>1. Len(backlog[c]) > 0 /\ Head(backlog[c]) = backlog[c][1]
          BY <3>2, <3>6, EmptySeq
        <4>2. Head(backlog[c]) = HubT!BacklogEnd(c) + 1
          BY <3>1, <3>2, <4>1 DEF HubT!Member
        <4>3. Head(backlog[c]) \notin since[c] .. HubT!BacklogEnd(c)
              /\ Head(backlog[c]) \notin joined[c] + 1 .. HubT!Top(c)
          BY <3>2, <3>4, <4>1, <4>2
        <4> QED BY <3>3, <4>3
      <3> QED BY <3>5, <3>6
    <2>7. \A c \in Clients : handler[c] = "absent" => c \notin targets
      BY DEF HubT!HubInv, HubT!ClientInv, HubT!Newcomer
    <2> QED BY <2>1, <2>2, <2>3, <2>4, <2>5, <2>6, <2>7 DEF HubOK
  <1> QED BY <1>1, <1>2, <1>3, PTL

-----------------------------------------------------------------------------
(* The list of the page.                                                   *)

Distinct(s) == \A i, j \in 1 .. Len(s) : s[i] = s[j] => i = j

\* How often v is in the list.
Places(list, v) == {i \in DOMAIN list : list[i] = v}
Count(list, v) == Cardinality(Places(list, v))

LEMMA CountType ==
  ASSUME NEW list \in Seq(Nat), NEW v
  PROVE  IsFiniteSet(Places(list, v)) /\ Count(list, v) \in Nat
  <1>1. IsFiniteSet(1 .. Len(list))
    BY LenProperties, FS_Interval
  <1>2. Places(list, v) \subseteq 1 .. Len(list)
    BY LenProperties DEF Places
  <1> QED BY <1>1, <1>2, FS_Subset, FS_CardinalityType DEF Count

LEMMA CountNone ==
  ASSUME NEW list \in Seq(Nat), NEW v, v \notin Elements(list)
  PROVE  Count(list, v) = 0
  <1>1. Places(list, v) = {}
    BY LenProperties DEF Places, Elements
  <1> QED BY <1>1, FS_EmptySet DEF Count

\* The new verdict comes first, the others move down, the last may be cut.
LEMMA RecordIs ==
  ASSUME NEW list \in Seq(Nat), NEW v \in Nat
  PROVE  LET r == Record(list, v) IN
         /\ r \in Seq(Nat) /\ Len(r) \in 1 .. Len(list) + 1
         /\ r[1] = v
         /\ \A i \in 2 .. Len(r) : r[i] = list[i - 1]
  <1> DEFINE whole == <<v>> \o list
             n == IF Len(list) < MaxItems THEN Len(list) + 1 ELSE MaxItems
  <1>1. Len(list) \in Nat /\ <<v>> \in Seq(Nat) /\ Len(<<v>>) = 1 /\ <<v>>[1] = v
    BY LenProperties
  <1>2. /\ whole \in Seq(Nat) /\ Len(whole) = 1 + Len(list)
        /\ \A i \in 1 .. 1 + Len(list) :
             whole[i] = IF i <= 1 THEN <<v>>[i] ELSE list[i - 1]
    BY <1>1, ConcatProperties
  <1>3. n \in 1 .. Len(list) + 1 /\ n \in Int
    BY <1>1, FeedAssumption
  <1>4. Record(list, v) = SubSeq(whole, 1, n)
    BY DEF Record
  <1> HIDE DEF whole, n
  <1>5. \A i \in 1 .. n : i \in 1 .. 1 + Len(list) /\ whole[i] \in Nat
    <2>1. \A i \in 1 .. n : i \in 1 .. Len(whole) /\ i \in 1 .. 1 + Len(list)
      BY <1>1, <1>2, <1>3
    <2> QED BY <1>2, <2>1, ElementOfSeq
  <1>6. /\ SubSeq(whole, 1, n) \in Seq(Nat)
        /\ Len(SubSeq(whole, 1, n)) = IF 1 <= n THEN n - 1 + 1 ELSE 0
        /\ \A i \in 1 .. n - 1 + 1 : SubSeq(whole, 1, n)[i] = whole[1 + i - 1]
    BY <1>3, <1>5, SubSeqProperties
  <1>7. n - 1 + 1 = n /\ (IF 1 <= n THEN n - 1 + 1 ELSE 0) = n
        /\ (\A i \in 1 .. n : 1 + i - 1 = i) /\ 1 \in 1 .. n
        /\ \A i \in 2 .. n : i \in 1 .. n /\ ~(i <= 1)
    BY <1>1, <1>3
  <1>8. \A i \in 1 .. n : SubSeq(whole, 1, n)[i] = whole[i]
    BY <1>6, <1>7
  <1>9. whole[1] = v /\ \A i \in 2 .. n : whole[i] = list[i - 1]
    BY <1>1, <1>2, <1>5, <1>7
  <1> QED BY <1>3, <1>4, <1>6, <1>7, <1>8, <1>9

\* Recording v adds at most one v, and nothing else.
LEMMA CountRecord ==
  ASSUME NEW list \in Seq(Nat), NEW v \in Nat, NEW u
  PROVE  Count(Record(list, v), u) <= Count(list, u) + IF u = v THEN 1 ELSE 0
  <1> DEFINE r == Record(list, v)
             f == [i \in Places(r, u) \ {1} |-> i - 1]
  <1>1. /\ r \in Seq(Nat) /\ Len(r) \in 1 .. Len(list) + 1 /\ Len(list) \in Nat
        /\ r[1] = v /\ \A i \in 2 .. Len(r) : r[i] = list[i - 1]
        /\ DOMAIN r = 1 .. Len(r) /\ DOMAIN list = 1 .. Len(list)
    BY RecordIs, LenProperties
  <1> HIDE DEF r
  <1>2. /\ IsFiniteSet(Places(list, u)) /\ Count(list, u) \in Nat
        /\ IsFiniteSet(Places(r, u)) /\ Count(r, u) \in Nat
    BY <1>1, CountType
  <1>3. \A i \in Places(r, u) \ {1} : i \in 2 .. Len(r) /\ i - 1 \in Places(list, u)
    <2> SUFFICES ASSUME NEW i \in Places(r, u), i # 1
                 PROVE  i \in 2 .. Len(r) /\ i - 1 \in Places(list, u)
      OBVIOUS
    <2>1. i \in 1 .. Len(r) /\ r[i] = u
      BY <1>1 DEF Places
    <2>2. i \in 2 .. Len(r) /\ i - 1 \in 1 .. Len(list)
      BY <1>1, <2>1
    <2> QED BY <1>1, <2>1, <2>2 DEF Places
  <1>4. f \in Injection(Places(r, u) \ {1}, Places(list, u))
    <2>1. f \in [Places(r, u) \ {1} -> Places(list, u)]
      BY <1>3
    <2>2. \A i, j \in Places(r, u) \ {1} : f[i] = f[j] => i = j
      BY <1>3
    <2> QED BY <2>1, <2>2 DEF Injection, IsInjective
  <1>5. Cardinality(Places(r, u) \ {1}) <= Count(list, u)
    BY <1>2, <1>4, FS_Injection DEF Count
  <1>6. Cardinality(Places(r, u) \ {1})
          = IF 1 \in Places(r, u) THEN Count(r, u) - 1 ELSE Count(r, u)
    BY <1>2, FS_RemoveElement DEF Count
  <1>7. 1 \in Places(r, u) => u = v
    BY <1>1 DEF Places
  <1>8. Count(r, u) <= Count(list, u) + IF u = v THEN 1 ELSE 0
    BY <1>2, <1>5, <1>6, <1>7
  <1> QED BY <1>8 DEF r

-----------------------------------------------------------------------------
(* The fold that loads the history.  Its value is that of a recursive      *)
(* function on sets; induction over the numbers, by the well-foundedness   *)
(* of <, shows that this function exists and what it yields.               *)

\* Induction, for a set of numbers.
LEMMA InductiveSet ==
  ASSUME NEW S, 0 \in S, \A n \in Nat : n \in S => n + 1 \in S
  PROVE  Nat \subseteq S
  <1> DEFINE Less == {ss \in Nat \X Nat : ss[1] < ss[2]}
             T == Nat \ S
  <1> SUFFICES ASSUME T # {} PROVE FALSE
    OBVIOUS
  <1>1. IsWellFoundedOn(Less, Nat)
    BY NatLessThanWellFounded DEF OpToRel
  <1>2. \A x, y \in Nat : x < y => <<x, y>> \in Less
    OBVIOUS
  <1>3. T \subseteq Nat
    OBVIOUS
  <1> HIDE DEF Less, T
  <1>4. PICK n \in T : \A m \in T : ~(<<m, n>> \in Less)
    BY <1>1, <1>3, WFMin
  <1>5. n \in Nat /\ n # 0 /\ n - 1 \in Nat /\ n - 1 < n /\ n - 1 + 1 = n
    BY <1>3 DEF T
  <1>6. n - 1 \in T
    BY <1>5 DEF T
  <1> QED BY <1>2, <1>4, <1>5, <1>6

LEMMA MaxIs ==
  ASSUME NEW S \in SUBSET Nat, NEW m \in S, \A n \in S : n <= m
  PROVE  Max(S) = m
  <1>1. \E x \in S : \A y \in S : x >= y
    BY DEF Max
  <1>2. Max(S) \in S /\ \A y \in S : Max(S) >= y
    BY <1>1 DEF Max
  <1>3. Max(S) >= m /\ Max(S) <= m /\ Max(S) \in Nat /\ m \in Nat
    BY <1>2
  <1> QED BY <1>3

\* The equation of the function that FoldLeft evaluates at the domain of q.
Folds(g, q, base, n) ==
  g = [s \in SUBSET (1 .. n) |-> IF s = {} THEN base ELSE Record(g[s \ {Max(s)}], q[Max(s)])]

LEMMA FoldExtends ==
  ASSUME NEW q, NEW base, NEW n \in Nat, NEW g, Folds(g, q, base, n)
  PROVE  \E h : Folds(h, q, base, n + 1)
  <1> DEFINE h == [s \in SUBSET (1 .. n + 1) |->
                     IF n + 1 \in s THEN Record(g[s \ {n + 1}], q[n + 1]) ELSE g[s]]
  <1>1. ASSUME NEW s \in SUBSET (1 .. n + 1)
        PROVE  h[s] = IF s = {} THEN base ELSE Record(h[s \ {Max(s)}], q[Max(s)])
    <2>1. \A t \in SUBSET (1 .. n) :
            t \in SUBSET (1 .. n + 1) /\ n + 1 \notin t /\ h[t] = g[t]
      <3>1. 1 .. n \subseteq 1 .. n + 1 /\ n + 1 \notin 1 .. n
        OBVIOUS
      <3> QED BY <3>1
    <2>2. CASE n + 1 \in s
      <3>1. Max(s) = n + 1
        <4>1. s \in SUBSET Nat /\ \A k \in s : k <= n + 1
          OBVIOUS
        <4> QED BY <2>2, <4>1, MaxIs
      <3>2. s \ {n + 1} \in SUBSET (1 .. n)
        OBVIOUS
      <3>3. h[s \ {n + 1}] = g[s \ {n + 1}]
        BY <2>1, <3>2
      <3>4. h[s] = Record(g[s \ {n + 1}], q[n + 1])
        BY <2>2
      <3> QED BY <2>2, <3>1, <3>3, <3>4
    <2>3. CASE n + 1 \notin s
      <3>1. s \in SUBSET (1 .. n) /\ s \ {Max(s)} \in SUBSET (1 .. n)
        <4>1. 1 .. n + 1 = 1 .. n \cup {n + 1}
          OBVIOUS
        <4> QED BY <2>3, <4>1
      <3>2. g[s] = IF s = {} THEN base ELSE Record(g[s \ {Max(s)}], q[Max(s)])
        BY <3>1 DEF Folds
      <3>3. h[s] = g[s] /\ h[s \ {Max(s)}] = g[s \ {Max(s)}]
        BY <2>1, <3>1
      <3> QED BY <3>2, <3>3
    <2> QED BY <2>2, <2>3
  <1>2. h = [s \in SUBSET (1 .. n + 1) |-> h[s]]
    OBVIOUS
  <1> HIDE DEF h
  <1>3. Folds(h, q, base, n + 1)
    BY <1>1, <1>2 DEF Folds
  <1> QED BY <1>3

LEMMA FoldExists ==
  ASSUME NEW q, NEW base, NEW n \in Nat
  PROVE  \E g : Folds(g, q, base, n)
  <1> DEFINE S == {m \in Nat : \E g : Folds(g, q, base, m)}
  <1>1. 0 \in S
    <2> DEFINE g == [s \in SUBSET (1 .. 0) |-> base]
    <2>1. 1 .. 0 = {}
      OBVIOUS
    <2>2. \A s \in SUBSET (1 .. 0) : s = {}
      BY <2>1
    <2>3. Folds(g, q, base, 0)
      BY <2>2 DEF Folds
    <2> QED BY <2>3
  <1>2. \A m \in Nat : m \in S => m + 1 \in S
    BY FoldExtends
  <1> HIDE DEF S
  <1>3. n \in S
    BY <1>1, <1>2, InductiveSet
  <1> QED BY <1>3 DEF S

\* The rows are recorded one after the other.
LEMMA FoldIs ==
  ASSUME NEW q \in Seq(Nat), NEW base
  PROVE  \E a : /\ a[0] = base
                /\ \A k \in 1 .. Len(q) : a[k] = Record(a[k - 1], q[k])
                /\ FoldLeft(Record, base, q) = a[Len(q)]
  <1> DEFINE n == Len(q)
             g == CHOOSE g : Folds(g, q, base, n)
             a == [k \in 0 .. n |-> g[1 .. k]]
  <1>1. n \in Nat /\ DOMAIN q = 1 .. n
    BY LenProperties
  <1>2. FoldLeft(Record, base, q) = g[1 .. n]
    BY <1>1 DEF FoldLeft, MapThenFoldSet, Folds
  <1> HIDE DEF n
  <1>3. Folds(g, q, base, n)
    BY <1>1, FoldExists
  <1> HIDE DEF g
  <1>4. \A s \in SUBSET (1 .. n) :
          g[s] = IF s = {} THEN base ELSE Record(g[s \ {Max(s)}], q[Max(s)])
    BY <1>3 DEF Folds
  <1>5. a[0] = base
    <2>1. 1 .. 0 = {} /\ 0 \in 0 .. n
      BY <1>1
    <2> QED BY <1>4, <2>1
  <1>6. ASSUME NEW k \in 1 .. n PROVE a[k] = Record(a[k - 1], q[k])
    <2>1. k \in 0 .. n /\ k - 1 \in 0 .. n /\ k \in 1 .. k /\ 1 .. k \in SUBSET (1 .. n)
          /\ (1 .. k) \ {k} = 1 .. k - 1
      BY <1>1
    <2>2. Max(1 .. k) = k
      <3>1. 1 .. k \in SUBSET Nat /\ \A j \in 1 .. k : j <= k
        BY <1>1
      <3> QED BY <2>1, <3>1, MaxIs
    <2>3. g[1 .. k] = Record(g[1 .. k - 1], q[k])
      <3>1. 1 .. k # {}
        BY <2>1
      <3> QED BY <1>4, <2>1, <2>2, <3>1
    <2> QED BY <2>1, <2>3
  <1>7. a[n] = g[1 .. n]
    BY <1>1
  <1> HIDE DEF a
  <1> QED BY <1>2, <1>5, <1>6, <1>7 DEF n

\* Loading distinct rows into an empty list shows each of them at most once,
\* and nothing else.
LEMMA LoadedOnce ==
  ASSUME NEW q \in Seq(Nat), Distinct(q)
  PROVE  LET list == FoldLeft(Record, <<>>, q) IN
         /\ list \in Seq(Nat)
         /\ \A v : Count(list, v) <= IF v \in Elements(q) THEN 1 ELSE 0
  <1> DEFINE n == Len(q)
             First(k) == {q[i] : i \in 1 .. k}
  <1>1. n \in Nat /\ \A i \in 1 .. n : q[i] \in Nat
    BY LenProperties, ElementOfSeq
  <1>2. PICK a : /\ a[0] = <<>>
                 /\ \A k \in 1 .. n : a[k] = Record(a[k - 1], q[k])
                 /\ FoldLeft(Record, <<>>, q) = a[n]
    BY FoldIs
  <1> DEFINE Good(k) == /\ a[k] \in Seq(Nat)
                        /\ \A v : Count(a[k], v) <= IF v \in First(k) THEN 1 ELSE 0
             S == {k \in Nat : k <= n => Good(k)}
  <1>3. 0 \in S
    <2>1. a[0] \in Seq(Nat) /\ \A v : v \notin Elements(a[0])
      BY <1>2, EmptySeq DEF Elements
    <2>2. \A v : Count(a[0], v) = 0
      BY <2>1, CountNone
    <2> QED BY <2>1, <2>2
  <1>4. ASSUME NEW k \in Nat, k \in S PROVE k + 1 \in S
    <2> SUFFICES ASSUME k + 1 <= n PROVE Good(k + 1)
      OBVIOUS
    <2>1. k + 1 \in 1 .. n /\ k + 1 - 1 = k /\ k <= n /\ 1 .. k + 1 = 1 .. k \cup {k + 1}
      BY <1>1
    <2>2. Good(k) /\ a[k] \in Seq(Nat)
      BY <1>4, <2>1
    <2>3. q[k + 1] \in Nat /\ a[k + 1] = Record(a[k], q[k + 1])
      BY <1>1, <1>2, <2>1
    <2>4. a[k + 1] \in Seq(Nat)
      BY <2>2, <2>3, RecordIs
    <2>5. First(k + 1) = First(k) \cup {q[k + 1]}
      BY <2>1
    <2>6. q[k + 1] \notin First(k)
      <3>1. \A i \in 1 .. k : i \in 1 .. n /\ i # k + 1
        BY <1>1, <2>1
      <3> QED BY <2>1, <3>1 DEF Distinct
    <2>7. ASSUME NEW v PROVE Count(a[k + 1], v) <= IF v \in First(k + 1) THEN 1 ELSE 0
      <3>1. Count(a[k + 1], v) <= Count(a[k], v) + IF v = q[k + 1] THEN 1 ELSE 0
        BY <2>2, <2>3, CountRecord
      <3>2. Count(a[k], v) \in Nat /\ Count(a[k + 1], v) \in Nat
        BY <2>2, <2>4, CountType
      <3>3. Count(a[k], v) <= IF v \in First(k) THEN 1 ELSE 0
        BY <2>2
      <3> HIDE DEF First
      <3> QED BY <2>5, <2>6, <3>1, <3>2, <3>3
    <2> QED BY <2>4, <2>7
  <1> HIDE DEF S
  <1>5. n \in S
    BY <1>1, <1>3, <1>4, InductiveSet
  <1>6. Good(n) /\ First(n) = Elements(q)
    BY <1>1, <1>5 DEF S, Elements
  <1> QED BY <1>2, <1>6

-----------------------------------------------------------------------------
(* The page.                                                               *)

\* The oldest of some rows' newest times is one of theirs.
HasLatest(s) ==
  s # <<>> => \E i \in 1 .. Len(s) : \A j \in 1 .. Len(s) : ts[s[j]] <= ts[s[i]]

\* Every suffix of the table, of which Query returns one, has a latest row.
RowsInv ==
  /\ published <= MaxVerdicts
  /\ \A i \in 1 .. Len(rows) : rows[i] \in 1 .. published
  /\ Distinct(rows)
  /\ \A k \in 1 .. Len(rows) : \E i \in k .. Len(rows) :
       \A j \in k .. Len(rows) : ts[rows[j]] <= ts[rows[i]]

AnswerInv ==
  page = "answered" =>
    /\ answer \in Seq(1 .. MaxVerdicts)
    /\ HasLatest(answer)
    /\ Distinct(answer)

\* The mark is the latest time of the history.
MarkInv ==
  /\ hwm \in Nat
  /\ \A h \in loaded : h \in 1 .. MaxVerdicts /\ ts[h] <= hwm
  /\ hwm = 0 \/ \E h \in loaded : h \in 1 .. MaxVerdicts /\ ts[h] = hwm

\* The page has heard of v: it shows it, or took it for one of the history.
Heard(v) == v \in shown \/ ts[v] <= hwm

\* A frame on the way to the page.
OnTheWay(c, v) == v \in Elements(out[c]) \/ (writer[c] = "write" /\ hand[c] = v)

\* What was queued for the page's connection is on the way or was heard.
Delivered(c) ==
  writer[c] # "done" =>
    \A i \in 1 .. Len(queued[c]) : OnTheWay(c, queued[c][i]) \/ Heard(queued[c][i])

ConnInv ==
  /\ page = "open" => conn \in Clients
  /\ \A c \in Clients :
       page = "open" /\ conn = c => handler[c] # "absent" /\ Delivered(c)

ClientsInv ==
  \A c \in Clients :
    /\ handler[c] # "absent" => since[c] >= 1
    /\ handler[c] = "reading" => backlog[c] = <<>>

FeedTypes ==
  /\ ts \in [1 .. MaxVerdicts -> Times]
  /\ hand \in [Clients -> Nat]

\* No verdict is twice in c's channel or in the writer's hand.
ChannelInv(c) ==
  /\ Distinct(queued[c]) /\ Distinct(out[c])
  /\ Elements(out[c]) \subseteq Elements(queued[c])
  /\ writer[c] = "write" => hand[c] \in Elements(queued[c]) \ Elements(out[c])

\* The page may still get v over c.
Awaited(c, v) == OnTheWay(c, v) \/ v \notin Elements(queued[c])

\* A verdict that is not of the history is there once for each connection at
\* most, and not yet for one that may still bring it.
ItemsInv ==
  /\ items \in Seq(Nat) /\ connects \in Nat
  /\ page \in {"loading", "answered"} => items = <<>> /\ connects = 0
  /\ \A v \in Nat : Count(items, v) <= IF v \in loaded THEN 1 ELSE connects
  /\ \A c \in Clients : page = "open" /\ conn = c =>
       \A v \in Nat \ loaded : Awaited(c, v) => Count(items, v) < connects

FeedInv ==
  /\ FeedTypes /\ RowsInv /\ AnswerInv /\ MarkInv /\ ConnInv /\ ClientsInv
  /\ \A c \in Clients : ChannelInv(c)
  /\ ItemsInv

\* A step of the page leaves these alone.
LEMMA PageSteps ==
  ASSUME ServeHistory \/ LoadHistory \/ HistoryFails \/ ConnectFails \/ OnClose \/ Retry \/ Unmount
  PROVE  UNCHANGED <<published, rows, handler, backlog, writer, out, since, queued, ts, hand>>
  BY DEF ServeHistory, LoadHistory, HistoryFails, ConnectFails, OnClose, Retry, Unmount, hubAll

\* What a step of the hub that no frame comes of does to client c.
HubMoves(c) ==
  /\ writer'[c] \in {writer[c], "done"}
  /\ \/ queued'[c] = queued[c] /\ out'[c] = out[c]
     \/ \E v \in Nat : /\ v \notin Elements(queued[c])
                       /\ queued'[c] = Append(queued[c], v) /\ out'[c] = Append(out[c], v)
  /\ handler'[c] = "absent" <=> handler[c] = "absent"
  /\ since'[c] = since[c]
  /\ handler'[c] = "reading" => \/ handler[c] = "reading" /\ backlog'[c] = backlog[c]
                                \/ backlog'[c] = <<>>

LEMMA QueueMoves ==
  ASSUME Hub!TypeOK, NEW c \in Clients, NEW d \in Clients, NEW v \in Nat, Hub!Queue(d, v)
  PROVE  \/ queued'[c] = queued[c] /\ out'[c] = out[c]
         \/ c = d /\ queued'[c] = Append(queued[c], v) /\ out'[c] = Append(out[c], v)
  BY DEF Hub!Queue, Hub!TypeOK

LEMMA PublishMoves ==
  ASSUME HubOK, NEW c \in Clients, Hub!Persist \/ Hub!PublishStep
  PROVE  HubMoves(c)
  <1> Hub!TypeOK
    BY DEF HubOK
  <1> USE DEF Hub!clientVars, Hub!hubVars, Hub!publisherVars
  <1>1. CASE \/ Hub!Persist \/ Hub!Record \/ Hub!PublishReturns
             \/ \E d \in Clients : Hub!FanOutPanics(d)
    BY <1>1 DEF HubMoves, Hub!Persist, Hub!Record, Hub!PublishReturns, Hub!FanOutPanics
  <1>2. ASSUME NEW d \in Clients, Hub!FanOut(d) PROVE HubMoves(c)
    <2>1. published \in Nat
      BY DEF Hub!TypeOK
    <2>2. \/ queued'[c] = queued[c] /\ out'[c] = out[c]
          \/ /\ published \notin Elements(queued[c])
             /\ queued'[c] = Append(queued[c], published) /\ out'[c] = Append(out[c], published)
      <3>1. Hub!Queue(d, published) /\ published \notin Elements(queued[d])
        BY <1>2 DEF Hub!FanOut, HubOK
      <3> QED BY <2>1, <3>1, QueueMoves
    <2> QED BY <1>2, <2>1, <2>2 DEF HubMoves, Hub!FanOut
  <1> QED BY <1>1, <1>2 DEF Hub!PublishStep

LEMMA ClientMoves ==
  ASSUME HubOK, NEW c \in Clients, NEW d \in Clients,
         Hub!HandlerStep(d) \/ Hub!PeerLeaves(d) \/ Hub!WriterReturns(d)
  PROVE  HubMoves(c)
  <1> Hub!TypeOK
    BY DEF HubOK
  <1>1. CASE Hub!SendBacklog(d)
    <2>1. Head(backlog[d]) \in Nat
      BY <1>1, HeadTailProperties DEF Hub!SendBacklog, Hub!TypeOK
    <2>2. \/ queued'[c] = queued[c] /\ out'[c] = out[c]
          \/ /\ Head(backlog[d]) \notin Elements(queued[c])
             /\ queued'[c] = Append(queued[c], Head(backlog[d]))
             /\ out'[c] = Append(out[c], Head(backlog[d]))
      <3>1. Hub!Queue(d, Head(backlog[d])) /\ Head(backlog[d]) \notin Elements(queued[d])
        BY <1>1 DEF Hub!SendBacklog, HubOK
      <3> QED BY <2>1, <3>1, QueueMoves
    <2>3. handler' = handler /\ handler[d] = "backlog" /\ writer' = writer /\ since' = since
          /\ (c # d => backlog'[c] = backlog[c])
      BY <1>1 DEF Hub!SendBacklog, Hub!TypeOK
    <2> QED BY <2>1, <2>2, <2>3 DEF HubMoves
  <1>2. CASE Hub!BacklogPanics(d) \/ Hub!BacklogSent(d)
    BY <1>2 DEF HubMoves, Hub!BacklogPanics, Hub!BacklogSent, Hub!Goto, Hub!TypeOK
  <1>3. CASE Hub!ReadFails(d) \/ Hub!PeerLeaves(d)
    BY <1>3 DEF HubMoves, Hub!ReadFails, Hub!PeerLeaves, Hub!Goto, Hub!TypeOK
  <1>4. CASE Hub!Unregister(d) \/ Hub!HandlerCloses(d)
    BY <1>4 DEF HubMoves, Hub!Unregister, Hub!HandlerCloses, Hub!Goto, Hub!TypeOK
  <1>5. CASE Hub!WriterReturns(d)
    BY <1>5 DEF HubMoves, Hub!WriterReturns, Hub!WriterAt, Hub!TypeOK
  <1> QED BY <1>1, <1>2, <1>3, <1>4, <1>5 DEF Hub!HandlerStep

\* Only Persist adds a row or a verdict.
LEMMA RowsStay ==
  ASSUME [Next]_vars, ~Hub!Persist
  PROVE  UNCHANGED <<rows, published>>
  <1>1. CASE UNCHANGED vars
    BY <1>1 DEF vars, hubAll
  <1>2. CASE PublishStep
    BY <1>2 DEF PublishStep, Hub!PublishStep, Hub!Record, Hub!PublishReturns, Hub!FanOut,
                Hub!FanOutPanics, Hub!hubVars, Hub!publisherVars
  <1>3. ASSUME NEW c \in Clients, Connect(c) \/ HandlerStep(c) \/ Hub!PeerLeaves(c)
        PROVE  UNCHANGED <<rows, published>>
    BY <1>3 DEF Connect, HandlerStep, Hub!Register, Hub!HandlerStep, Hub!SendBacklog,
                Hub!BacklogPanics, Hub!BacklogSent, Hub!ReadFails, Hub!Unregister,
                Hub!HandlerCloses, Hub!PeerLeaves, Hub!hubVars, Hub!publisherVars
  <1>4. ASSUME NEW c \in Clients, WriterStep(c)
        PROVE  UNCHANGED <<rows, published>>
    BY <1>4 DEF WriterStep, TakeFrame, FrameWritten, WriteFails, Hub!TakeFrame,
                Hub!FrameWritten, Hub!WriteFails, Hub!WriterReturns, Hub!hubVars,
                Hub!publisherVars
  <1> QED BY <1>1, <1>2, <1>3, <1>4, PageSteps DEF Next

-----------------------------------------------------------------------------
(* The history.                                                            *)

\* The times of the verdicts of the table are numbers.
LEMMA TimesOfRows ==
  ASSUME FeedTypes, NEW v \in 1 .. MaxVerdicts
  PROVE  ts[v] \in Times /\ ts[v] \in Nat
  BY FeedAssumption DEF FeedTypes

\* A suffix that gets one row more has a latest row again.
LEMMA PersistKeepsRows ==
  ASSUME HubOK, FeedTypes, RowsInv, ts' = ts, Hub!Persist
  PROVE  RowsInv'
  <1>1. published \in Nat /\ published + 1 \in Nat /\ rows \in Seq(Nat) /\ Len(rows) \in Nat
    BY LenProperties DEF HubOK, Hub!TypeOK
  <1>2. published' = published + 1 /\ published' <= MaxVerdicts
    BY <1>1, HubAssumption DEF Hub!Persist
  <1>3. \A i \in 1 .. Len(rows) : rows[i] \in 1 .. published /\ rows[i] \in 1 .. published'
    BY <1>1, <1>2 DEF RowsInv
  <1>4. CASE rows' = rows
    BY <1>2, <1>3, <1>4 DEF RowsInv, Distinct
  <1>5. CASE rows' = Append(rows, published + 1)
    <2> DEFINE n == Len(rows)
    <2>1. /\ Len(rows') = n + 1
          /\ \A i \in 1 .. n : rows'[i] = rows[i]
          /\ rows'[n + 1] = published'
      BY <1>1, <1>2, <1>5, AppendProperties
    <2>2. \A i \in 1 .. n + 1 : i \in 1 .. n \/ i = n + 1
      BY <1>1
    <2>3. published' \in 1 .. published'
      BY <1>1, <1>2
    <2>4. \A i \in 1 .. Len(rows') : rows'[i] \in 1 .. published'
      BY <1>3, <2>1, <2>2, <2>3
    <2>5. \A i \in 1 .. Len(rows') : ts[rows'[i]] \in Nat
      <3> SUFFICES ASSUME NEW i \in 1 .. Len(rows') PROVE ts[rows'[i]] \in Nat
        OBVIOUS
      <3>1. rows'[i] \in 1 .. MaxVerdicts
        BY <1>1, <1>2, <2>4, HubAssumption
      <3> QED BY <3>1, TimesOfRows
    <2>6. ASSUME NEW k \in 1 .. Len(rows')
          PROVE  \E i \in k .. Len(rows') : \A j \in k .. Len(rows') :
                   ts[rows'[j]] <= ts[rows'[i]]
      <3>1. n + 1 \in k .. Len(rows') /\ n + 1 \in 1 .. Len(rows')
        BY <1>1, <2>1
      <3>2. CASE k = n + 1
        <4>1. \A j \in k .. Len(rows') : j = n + 1
          BY <1>1, <2>1, <3>2
        <4>2. ts[rows'[n + 1]] <= ts[rows'[n + 1]]
          BY <2>5, <3>1
        <4> QED BY <3>1, <4>1, <4>2
      <3>3. CASE k # n + 1
        <4>1. k \in 1 .. n
          BY <2>1, <2>2, <3>3
        <4>2. PICK i \in k .. n : \A j \in k .. n : ts[rows[j]] <= ts[rows[i]]
          BY <4>1 DEF RowsInv
        <4>3. /\ i \in k .. Len(rows') /\ i \in 1 .. Len(rows') /\ i \in 1 .. n
              /\ \A j \in k .. Len(rows') : j = n + 1 \/ j \in k .. n
          BY <1>1, <2>1, <4>1, <4>2
        <4>4. \A j \in k .. n : ts[rows'[j]] <= ts[rows'[i]]
          <5> SUFFICES ASSUME NEW j \in k .. n PROVE ts[rows'[j]] <= ts[rows'[i]]
            OBVIOUS
          <5>1. j \in 1 .. n
            BY <1>1, <4>1
          <5> QED BY <2>1, <4>2, <4>3, <5>1
        <4>5. CASE ts[rows'[n + 1]] <= ts[rows'[i]]
          BY <4>3, <4>4, <4>5
        <4>6. CASE ~(ts[rows'[n + 1]] <= ts[rows'[i]])
          <5>1. \A j \in k .. n : ts[rows'[j]] <= ts[rows'[n + 1]]
            <6> SUFFICES ASSUME NEW j \in k .. n PROVE ts[rows'[j]] <= ts[rows'[n + 1]]
              OBVIOUS
            <6>1. j \in 1 .. Len(rows')
              BY <1>1, <2>1, <4>1
            <6>2. ts[rows'[j]] \in Nat /\ ts[rows'[i]] \in Nat /\ ts[rows'[n + 1]] \in Nat
              BY <2>5, <3>1, <4>3, <6>1
            <6>3. \A a, b, c \in Nat : a <= b /\ ~(c <= b) => a <= c
              OBVIOUS
            <6>4. ts[rows'[j]] <= ts[rows'[i]]
              BY <4>4
            <6> QED BY <4>6, <6>2, <6>3, <6>4
          <5>2. ts[rows'[n + 1]] <= ts[rows'[n + 1]]
            BY <2>5, <3>1
          <5> QED BY <3>1, <4>3, <5>1, <5>2
        <4> QED BY <4>5, <4>6
      <3> QED BY <3>2, <3>3
    <2> HIDE DEF n
    <2>7. \A k \in 1 .. Len(rows') : \E i \in k .. Len(rows') : \A j \in k .. Len(rows') :
            ts'[rows'[j]] <= ts'[rows'[i]]
      BY <2>6
    <2>8. Distinct(rows')
      <3>1. \A i \in 1 .. n : rows'[i] # rows'[n + 1]
        BY <1>1, <1>2, <1>3, <2>1 DEF n
      <3>2. \A i, j \in 1 .. n : rows'[i] = rows'[j] => i = j
        BY <2>1 DEF RowsInv, Distinct, n
      <3> QED BY <2>1, <2>2, <3>1, <3>2 DEF Distinct
    <2>9. \A i, j \in 1 .. Len(rows') : rows'[i] = rows'[j] => i = j
      BY <2>8 DEF Distinct
    <2> QED BY <1>2, <2>4, <2>7, <2>9 DEF RowsInv, Distinct
  <1> QED BY <1>4, <1>5 DEF Hub!Persist

\* The newest rows, the newest first (store.go 95-149).
LEMMA QueryIs ==
  ASSUME NEW table \in Seq(Nat), NEW limit \in Nat \ {0}
  PROVE  LET n == IF Len(table) < limit THEN Len(table) ELSE limit IN
         /\ Len(Query(table, limit)) = n
         /\ Query(table, limit) \in Seq(Nat)
         /\ \A i \in 1 .. n : Query(table, limit)[i] = table[Len(table) - i + 1]
  <1> DEFINE n == IF Len(table) < limit THEN Len(table) ELSE limit
  <1>1. Len(table) \in Nat /\ n \in 0 .. Len(table) /\ n \in Int
    BY LenProperties
  <1>2. \A i \in 1 .. Len(table) : Len(table) - i + 1 \in 1 .. Len(table)
    BY <1>1
  <1>3. \A i \in 1 .. Len(table) :
          Reverse(table)[i] = table[Len(table) - i + 1] /\ Reverse(table)[i] \in Nat
    BY <1>2, ElementOfSeq DEF Reverse
  <1>4. Query(table, limit) = SubSeq(Reverse(table), 1, n)
    BY DEF Query
  <1> HIDE DEF n
  <1>5. \A i \in 1 .. n : i \in 1 .. Len(table) /\ Reverse(table)[i] \in Nat
    BY <1>1, <1>3
  <1>6. /\ SubSeq(Reverse(table), 1, n) \in Seq(Nat)
        /\ Len(SubSeq(Reverse(table), 1, n)) = IF 1 <= n THEN n - 1 + 1 ELSE 0
        /\ \A i \in 1 .. n - 1 + 1 : SubSeq(Reverse(table), 1, n)[i] = Reverse(table)[1 + i - 1]
    BY <1>1, <1>5, SubSeqProperties
  <1>7. n - 1 + 1 = n /\ (IF 1 <= n THEN n - 1 + 1 ELSE 0) = n
        /\ \A i \in 1 .. n : 1 + i - 1 = i
    BY <1>1
  <1>8. \A i \in 1 .. n : SubSeq(Reverse(table), 1, n)[i] = table[Len(table) - i + 1]
    BY <1>3, <1>5, <1>6, <1>7
  <1>9. Len(Query(table, limit)) = n /\ Query(table, limit) \in Seq(Nat)
        /\ \A i \in 1 .. n : Query(table, limit)[i] = table[Len(table) - i + 1]
    BY <1>4, <1>6, <1>7, <1>8
  <1> QED BY <1>9 DEF n

LEMMA ServeHistoryAnswers ==
  ASSUME HubOK, FeedTypes, RowsInv, ServeHistory
  PROVE  answer' \in Seq(1 .. MaxVerdicts) /\ HasLatest(answer') /\ Distinct(answer')
  <1> DEFINE n == IF Len(rows) < HistoryLimit THEN Len(rows) ELSE HistoryLimit
             k == Len(rows) - n + 1
  <1>1. rows \in Seq(Nat) /\ Len(rows) \in Nat /\ n \in 0 .. Len(rows) /\ published \in Nat
    BY LenProperties, FeedAssumption DEF HubOK, Hub!TypeOK
  <1>2. answer' = Query(rows, HistoryLimit)
    BY DEF ServeHistory
  <1>3. /\ Len(answer') = n /\ answer' \in Seq(Nat)
        /\ \A i \in 1 .. n : answer'[i] = rows[Len(rows) - i + 1]
    BY <1>1, <1>2, QueryIs, FeedAssumption
  <1> HIDE DEF n
  <1>4. \A i \in 1 .. n : Len(rows) - i + 1 \in k .. Len(rows) /\ Len(rows) - i + 1 \in 1 .. Len(rows)
    BY <1>1
  <1>5. \A i \in 1 .. n : answer'[i] \in 1 .. MaxVerdicts
    <2>1. \A i \in 1 .. Len(rows) : rows[i] \in 1 .. MaxVerdicts
      BY <1>1, HubAssumption DEF RowsInv
    <2> QED BY <1>3, <1>4, <2>1
  <1>6. answer' \in Seq(1 .. MaxVerdicts)
    <2>1. answer' \in [1 .. n -> 1 .. MaxVerdicts] /\ n \in Nat
      <3>1. answer' \in [1 .. n -> Nat] /\ n \in Nat
        BY <1>1, <1>3, LenProperties
      <3> QED BY <1>5, <3>1
    <2> QED BY <2>1, SeqDef
  <1>7. HasLatest(answer')
    <2> SUFFICES ASSUME answer' # <<>>
                 PROVE  \E i \in 1 .. n : \A j \in 1 .. n : ts[answer'[j]] <= ts[answer'[i]]
      BY <1>3 DEF HasLatest
    <2>1. n > 0
      BY <1>1, <1>3, EmptySeq
    <2>2. k \in 1 .. Len(rows)
      BY <1>1, <2>1
    <2>3. PICK m \in k .. Len(rows) : \A j \in k .. Len(rows) : ts[rows[j]] <= ts[rows[m]]
      BY <2>2 DEF RowsInv
    <2>4. Len(rows) - m + 1 \in 1 .. n /\ Len(rows) - (Len(rows) - m + 1) + 1 = m
      BY <1>1, <2>1, <2>3
    <2>5. answer'[Len(rows) - m + 1] = rows[m]
      BY <1>3, <2>4
    <2>6. \A j \in 1 .. n : ts[answer'[j]] <= ts[rows[m]]
      BY <1>3, <1>4, <2>3
    <2> QED BY <2>4, <2>5, <2>6
  <1>8. Distinct(answer')
    <2> SUFFICES ASSUME NEW i \in 1 .. n, NEW j \in 1 .. n, answer'[i] = answer'[j]
                 PROVE  i = j
      BY <1>3 DEF Distinct
    <2>1. Len(rows) - i + 1 = Len(rows) - j + 1
      BY <1>3, <1>4 DEF RowsInv, Distinct
    <2> QED BY <1>1, <2>1
  <1> QED BY <1>6, <1>7, <1>8

\* Math.max over the rows of the answer is the time of one of them.
LEMMA MarkIsOfRow ==
  ASSUME FeedTypes, answer \in Seq(1 .. MaxVerdicts), HasLatest(answer)
  PROVE  LET m == HighWaterMark(answer) IN
         /\ m \in Nat
         /\ \A i \in 1 .. Len(answer) : ts[answer[i]] <= m
         /\ m = 0 \/ \E i \in 1 .. Len(answer) : ts[answer[i]] = m
  <1> DEFINE OK(m) == /\ \A i \in DOMAIN answer : ts[answer[i]] <= m
                      /\ m = 0 \/ \E i \in DOMAIN answer : ts[answer[i]] = m
  <1>1. DOMAIN answer = 1 .. Len(answer) /\ Len(answer) \in Nat
        /\ \A i \in 1 .. Len(answer) : answer[i] \in 1 .. MaxVerdicts
    BY LenProperties, ElementOfSeq
  <1>2. \E m \in Times \cup {0} : OK(m)
    <2>1. CASE answer = <<>>
      BY <1>1, <2>1
    <2>2. CASE answer # <<>>
      <3>1. PICK i \in 1 .. Len(answer) : \A j \in 1 .. Len(answer) : ts[answer[j]] <= ts[answer[i]]
        BY <2>2 DEF HasLatest
      <3>2. ts[answer[i]] \in Times
        BY <1>1, TimesOfRows
      <3> QED BY <1>1, <3>1, <3>2
    <2> QED BY <2>1, <2>2
  <1>3. HighWaterMark(answer) = CHOOSE m \in Times \cup {0} : OK(m)
    BY DEF HighWaterMark
  <1> HIDE DEF OK
  <1>4. HighWaterMark(answer) \in Times \cup {0} /\ OK(HighWaterMark(answer))
    BY <1>2, <1>3
  <1>5. HighWaterMark(answer) \in Nat
    <2>1. \A m \in Times \cup {0} : m \in Nat
      BY FeedAssumption
    <2> QED BY <1>4, <2>1
  <1> QED BY <1>1, <1>4, <1>5 DEF OK

LEMMA NextRows ==
  ASSUME HubOK, FeedTypes, RowsInv, [Next]_vars
  PROVE  RowsInv' /\ FeedTypes'
  <1>1. ts' = ts
    BY DEF Next, vars, PublishStep, Connect, HandlerStep, WriterStep, TakeFrame, FrameWritten,
           WriteFails, pageVars, ServeHistory, LoadHistory, HistoryFails, ConnectFails, OnClose,
           Retry, Unmount
  <1>2. FeedTypes'
    <2>1. \A c \in Clients : out[c] # <<>> => Head(out[c]) \in Nat
      BY HeadTailProperties DEF HubOK, Hub!TypeOK
    <2>2. \/ hand' = hand
          \/ \E c \in Clients : TakeFrame(c) \/ FrameWritten(c) \/ WriteFails(c)
      BY DEF Next, vars, PublishStep, Connect, HandlerStep, WriterStep, ServeHistory,
             LoadHistory, HistoryFails, ConnectFails, OnClose, Retry, Unmount
    <2>3. hand' \in [Clients -> Nat]
      <3>1. CASE hand' = hand
        BY <3>1 DEF FeedTypes
      <3>2. ASSUME NEW c \in Clients, TakeFrame(c) PROVE hand' \in [Clients -> Nat]
        BY <2>1, <3>2 DEF FeedTypes, TakeFrame, Hub!TakeFrame
      <3>3. ASSUME NEW c \in Clients, FrameWritten(c) \/ WriteFails(c)
            PROVE  hand' \in [Clients -> Nat]
        BY <3>3 DEF FeedTypes, FrameWritten, WriteFails
      <3> QED BY <2>2, <3>1, <3>2, <3>3
    <2> QED BY <1>1, <2>3 DEF FeedTypes
  <1>3. RowsInv'
    <2>1. CASE Hub!Persist
      BY <1>1, <2>1, PersistKeepsRows
    <2>2. CASE ~Hub!Persist
      BY <1>1, <2>2, RowsStay DEF RowsInv, Distinct
    <2> QED BY <2>1, <2>2
  <1> QED BY <1>2, <1>3

\* A step that is none of the page's own history leaves the history alone.
LEMMA HistoryStays ==
  ASSUME [Next]_vars, ~ServeHistory, ~LoadHistory
  PROVE  /\ UNCHANGED <<ts, hwm, loaded>>
         /\ answer' = answer \/ page' # "answered"
         /\ page' = "answered" => page = "answered"
  <1>1. CASE UNCHANGED <<ts, pageVars>>
    BY <1>1 DEF pageVars
  <1>2. ASSUME NEW c \in Clients, Connect(c) \/ FrameWritten(c)
        PROVE  /\ UNCHANGED <<ts, hwm, loaded>>
               /\ answer' = answer \/ page' # "answered"
               /\ page' = "answered" => page = "answered"
    BY <1>2 DEF Connect, FrameWritten, OnMessage
  <1>3. CASE HistoryFails \/ ConnectFails \/ OnClose \/ Retry \/ Unmount
    BY <1>3 DEF HistoryFails, ConnectFails, OnClose, Retry, Unmount
  <1> QED
    BY <1>1, <1>2, <1>3
       DEF Next, vars, PublishStep, HandlerStep, WriterStep, TakeFrame, WriteFails

LEMMA NextHistory ==
  ASSUME HubOK, FeedTypes, RowsInv, AnswerInv, MarkInv, [Next]_vars
  PROVE  AnswerInv' /\ MarkInv'
  <1>1. CASE ServeHistory
    <2>1. answer' \in Seq(1 .. MaxVerdicts) /\ HasLatest(answer') /\ Distinct(answer')
      BY <1>1, ServeHistoryAnswers
    <2>2. UNCHANGED <<ts, hwm, loaded>>
      BY <1>1 DEF ServeHistory
    <2> QED BY <2>1, <2>2 DEF AnswerInv, MarkInv, HasLatest, Distinct
  <1>2. CASE LoadHistory
    <2>1. answer \in Seq(1 .. MaxVerdicts) /\ HasLatest(answer)
      BY <1>2 DEF LoadHistory, AnswerInv
    <2>2. /\ hwm' = HighWaterMark(answer) /\ loaded' = ToSet(answer)
          /\ ts' = ts /\ page' = "connecting"
      BY <1>2 DEF LoadHistory
    <2>3. /\ hwm' \in Nat /\ \A i \in 1 .. Len(answer) : ts[answer[i]] <= hwm'
          /\ hwm' = 0 \/ \E i \in 1 .. Len(answer) : ts[answer[i]] = hwm'
      BY <2>1, <2>2, MarkIsOfRow
    <2>4. /\ \A i \in 1 .. Len(answer) : answer[i] \in loaded' /\ answer[i] \in 1 .. MaxVerdicts
          /\ \A h \in loaded' : \E i \in 1 .. Len(answer) : h = answer[i]
      BY <2>1, <2>2, LenProperties, ElementOfSeq DEF ToSet
    <2>5. MarkInv'
      BY <2>2, <2>3, <2>4 DEF MarkInv
    <2> QED BY <2>2, <2>5 DEF AnswerInv
  <1>3. CASE ~ServeHistory /\ ~LoadHistory
    BY <1>3, HistoryStays DEF AnswerInv, MarkInv, HasLatest, Distinct
  <1> QED BY <1>1, <1>2, <1>3

-----------------------------------------------------------------------------
(* The frames.                                                             *)

\* A frame of a step of the hub that this page knows nothing of.
LEMMA MovesKeepDelivered ==
  ASSUME Hub!TypeOK, NEW c \in Clients, Delivered(c), HubMoves(c), hand'[c] = hand[c],
         shown \subseteq shown', hwm' = hwm, ts' = ts
  PROVE  Delivered(c)'
  <1>1. queued[c] \in Seq(Nat) /\ out[c] \in Seq(Nat)
        /\ Len(queued[c]) \in Nat /\ Len(out[c]) \in Nat
    BY LenProperties DEF Hub!TypeOK
  <1> SUFFICES ASSUME writer'[c] # "done", NEW i \in 1 .. Len(queued'[c])
               PROVE  \/ queued'[c][i] \in Elements(out'[c])
                      \/ (writer'[c] = "write" /\ hand'[c] = queued'[c][i])
                      \/ queued'[c][i] \in shown' \/ ts'[queued'[c][i]] <= hwm'
    BY DEF Delivered, OnTheWay, Heard, Elements
  <1>2. writer'[c] = writer[c] /\ writer[c] # "done"
    BY DEF HubMoves
  <1>3. \A k \in 1 .. Len(queued[c]) :
          \/ queued[c][k] \in Elements(out[c])
          \/ (writer[c] = "write" /\ hand[c] = queued[c][k])
          \/ queued[c][k] \in shown \/ ts[queued[c][k]] <= hwm
    BY <1>2 DEF Delivered, OnTheWay, Heard
  <1>4. CASE queued'[c] = queued[c] /\ out'[c] = out[c]
    BY <1>2, <1>3, <1>4
  <1>5. ASSUME NEW v \in Nat, queued'[c] = Append(queued[c], v), out'[c] = Append(out[c], v)
        PROVE  \/ queued'[c][i] \in Elements(out'[c])
               \/ (writer'[c] = "write" /\ hand'[c] = queued'[c][i])
               \/ queued'[c][i] \in shown' \/ ts'[queued'[c][i]] <= hwm'
    <2>1. /\ Len(queued'[c]) = Len(queued[c]) + 1
          /\ \A k \in 1 .. Len(queued[c]) : queued'[c][k] = queued[c][k]
          /\ queued'[c][Len(queued[c]) + 1] = v
      BY <1>1, <1>5, AppendProperties
    <2>2. /\ Len(out'[c]) = Len(out[c]) + 1
          /\ \A k \in 1 .. Len(out[c]) : out'[c][k] = out[c][k]
          /\ out'[c][Len(out[c]) + 1] = v
      BY <1>1, <1>5, AppendProperties
    <2>3. v \in Elements(out'[c]) /\ Elements(out[c]) \subseteq Elements(out'[c])
      <3>1. Len(out[c]) + 1 \in 1 .. Len(out'[c])
            /\ \A k \in 1 .. Len(out[c]) : k \in 1 .. Len(out'[c])
        BY <1>1, <2>2
      <3> QED BY <2>2, <3>1 DEF Elements
    <2>4. i = Len(queued[c]) + 1 \/ i \in 1 .. Len(queued[c])
      BY <1>1, <2>1
    <2> QED BY <1>2, <1>3, <2>1, <2>3, <2>4
  <1> QED BY <1>4, <1>5 DEF HubMoves

LEMMA TakeFrameDelivers ==
  ASSUME Hub!TypeOK, FeedTypes, NEW c \in Clients, NEW d \in Clients, Delivered(c), TakeFrame(d)
  PROVE  Delivered(c)'
  <1>1. /\ UNCHANGED <<queued, shown, hwm, ts>>
        /\ c # d => out'[c] = out[c] /\ writer'[c] = writer[c] /\ hand'[c] = hand[c]
    BY DEF TakeFrame, Hub!TakeFrame, Hub!WriterAt, pageVars, Hub!TypeOK, FeedTypes
  <1>2. CASE c # d
    BY <1>1, <1>2 DEF Delivered, OnTheWay, Heard, Elements
  <1>3. CASE c = d
    <2>1. /\ writer[c] = "receive" /\ writer'[c] = "write"
          /\ out[c] # <<>> /\ out'[c] = Tail(out[c]) /\ hand'[c] = Head(out[c])
      BY <1>3 DEF TakeFrame, Hub!TakeFrame, Hub!WriterAt, Hub!TypeOK, FeedTypes
    <2>2. /\ out[c] \in Seq(Nat) /\ Len(out[c]) \in Nat
          /\ Head(out[c]) = out[c][1] /\ Len(Tail(out[c])) = Len(out[c]) - 1
          /\ \A k \in 1 .. Len(Tail(out[c])) : Tail(out[c])[k] = out[c][k + 1]
      BY <2>1, HeadTailProperties, LenProperties DEF Hub!TypeOK
    <2>3. ASSUME NEW v \in Elements(out[c])
          PROVE  v \in Elements(out'[c]) \/ hand'[c] = v
      <3>1. PICK k \in 1 .. Len(out[c]) : out[c][k] = v
        BY DEF Elements
      <3>2. CASE k = 1
        BY <2>1, <2>2, <3>1, <3>2
      <3>3. CASE k # 1
        <4>1. k - 1 \in 1 .. Len(Tail(out[c])) /\ (k - 1) + 1 = k
          BY <2>2, <3>1, <3>3
        <4>2. Tail(out[c])[k - 1] = v
          BY <2>2, <3>1, <4>1
        <4> QED BY <2>1, <4>1, <4>2 DEF Elements
      <3> QED BY <3>2, <3>3
    <2>4. \A i \in 1 .. Len(queued[c]) : queued[c][i] \in Elements(out[c]) \/ Heard(queued[c][i])
      BY <2>1 DEF Delivered, OnTheWay
    <2>5. \A i \in 1 .. Len(queued'[c]) :
            \/ queued'[c][i] \in Elements(out'[c])
            \/ (writer'[c] = "write" /\ hand'[c] = queued'[c][i])
            \/ queued'[c][i] \in shown' \/ ts'[queued'[c][i]] <= hwm'
      BY <1>1, <2>1, <2>3, <2>4 DEF Heard
    <2> QED BY <2>5 DEF Delivered, OnTheWay, Heard, Elements
  <1> QED BY <1>2, <1>3

\* The page records the frame or takes it for one of the history.
LEMMA FrameWrittenDelivers ==
  ASSUME Hub!TypeOK, FeedTypes, NEW c \in Clients, NEW d \in Clients, Delivered(c), FrameWritten(d),
         page = "open", conn = c
  PROVE  Delivered(c)'
  <1>1. /\ UNCHANGED <<queued, out, hwm, ts>> /\ shown \subseteq shown'
        /\ c # d => writer'[c] = writer[c] /\ hand'[c] = hand[c]
        /\ c = d => /\ writer[c] = "write" /\ writer'[c] = "receive"
                    /\ hand[c] \in shown' \/ ts[hand[c]] <= hwm
    BY DEF FrameWritten, Hub!FrameWritten, Hub!WriterAt, OnMessage, Hub!TypeOK, FeedTypes
  <1>2. \A i \in 1 .. Len(queued'[c]) :
          writer'[c] # "done" =>
            \/ queued'[c][i] \in Elements(out'[c])
            \/ (writer'[c] = "write" /\ hand'[c] = queued'[c][i])
            \/ queued'[c][i] \in shown' \/ ts'[queued'[c][i]] <= hwm'
    BY <1>1 DEF Delivered, OnTheWay, Heard
  <1> QED BY <1>2 DEF Delivered, OnTheWay, Heard, Elements

LEMMA WriteFailsDelivers ==
  ASSUME Hub!TypeOK, FeedTypes, NEW c \in Clients, NEW d \in Clients, Delivered(c), WriteFails(d)
  PROVE  Delivered(c)'
  <1>1. /\ UNCHANGED <<queued, out, shown, hwm, ts>>
        /\ c # d => writer'[c] = writer[c] /\ hand'[c] = hand[c]
        /\ c = d => writer'[c] = "done"
    BY DEF WriteFails, Hub!WriteFails, Hub!WriterAt, pageVars, Hub!TypeOK, FeedTypes
  <1> QED BY <1>1 DEF Delivered, OnTheWay, Heard, Elements

LEMMA NextConn ==
  ASSUME HubOK, FeedTypes, ConnInv, [Next]_vars
  PROVE  ConnInv'
  <1> USE DEF HubOK
  <1>1. CASE UNCHANGED vars
    BY <1>1 DEF vars, hubAll, pageVars, ConnInv, Delivered, OnTheWay, Heard, Elements
  <1>2. ASSUME UNCHANGED <<ts, pageVars, hand>>, \A c \in Clients : HubMoves(c)
        PROVE  ConnInv'
    <2>1. UNCHANGED <<ts, page, conn, shown, hwm, hand>>
      BY <1>2 DEF pageVars
    <2>2. ASSUME NEW c \in Clients, page = "open", conn = c
          PROVE  handler'[c] # "absent" /\ Delivered(c)'
      <3>1. handler[c] # "absent" /\ Delivered(c) /\ HubMoves(c)
        BY <1>2, <2>2 DEF ConnInv
      <3> QED BY <2>1, <3>1, MovesKeepDelivered DEF HubMoves
    <2> QED BY <2>1, <2>2 DEF ConnInv
  <1>3. CASE (Hub!Persist /\ UNCHANGED <<ts, pageVars, hand>>) \/ PublishStep
    BY <1>2, <1>3, PublishMoves DEF PublishStep
  <1>4. ASSUME NEW d \in Clients,
               \/ HandlerStep(d)
               \/ /\ Hub!PeerLeaves(d) \/ Hub!WriterReturns(d)
                  /\ UNCHANGED <<ts, pageVars, hand>>
        PROVE  ConnInv'
    BY <1>2, <1>4, ClientMoves DEF HandlerStep
  <1>5. ASSUME NEW d \in Clients, Connect(d) PROVE ConnInv'
    <2>1. /\ conn' = d /\ handler'[d] # "absent" /\ queued' = queued /\ queued[d] = <<>>
      BY <1>5 DEF Connect, Hub!Register, Hub!Goto, Hub!TypeOK
    <2>2. \A i \in 1 .. Len(queued'[d]) : FALSE
      BY <2>1
    <2>3. Delivered(d)'
      BY <2>2 DEF Delivered
    <2> QED BY <2>1, <2>3 DEF ConnInv
  <1>6. ASSUME NEW d \in Clients, TakeFrame(d) \/ FrameWritten(d) \/ WriteFails(d)
        PROVE  ConnInv'
    <2>1. UNCHANGED <<page, conn, handler>>
      BY <1>6 DEF TakeFrame, FrameWritten, WriteFails, pageVars, Hub!TakeFrame,
                  Hub!FrameWritten, Hub!WriteFails
    <2>2. ASSUME NEW c \in Clients, page = "open", conn = c
          PROVE  handler'[c] # "absent" /\ Delivered(c)'
      <3>1. handler[c] # "absent" /\ Delivered(c)
        BY <2>2 DEF ConnInv
      <3> QED BY <1>6, <2>1, <2>2, <3>1, TakeFrameDelivers, FrameWrittenDelivers,
                 WriteFailsDelivers
    <2> QED BY <2>1, <2>2 DEF ConnInv
  <1>7. CASE ServeHistory \/ LoadHistory \/ HistoryFails \/ ConnectFails \/ OnClose \/ Retry \/ Unmount
    <2>1. page' # "open"
      BY <1>7 DEF ServeHistory, LoadHistory, HistoryFails, ConnectFails, OnClose, Retry, Unmount
    <2> QED BY <2>1 DEF ConnInv
  <1> QED BY <1>1, <1>3, <1>4, <1>5, <1>6, <1>7 DEF Next, WriterStep

LEMMA NextClients ==
  ASSUME HubOK, ClientsInv, [Next]_vars
  PROVE  ClientsInv'
  <1> USE DEF HubOK
  <1>1. CASE UNCHANGED <<handler, backlog, since>>
    BY <1>1 DEF ClientsInv
  <1>2. ASSUME \A c \in Clients : HubMoves(c) PROVE ClientsInv'
    <2> SUFFICES ASSUME NEW c \in Clients
                 PROVE  /\ handler'[c] # "absent" => since'[c] >= 1
                        /\ handler'[c] = "reading" => backlog'[c] = <<>>
      BY DEF ClientsInv
    <2> QED BY <1>2 DEF ClientsInv, HubMoves
  <1>3. CASE Hub!Persist \/ PublishStep
    BY <1>2, <1>3, PublishMoves DEF PublishStep
  <1>4. ASSUME NEW d \in Clients, HandlerStep(d) \/ Hub!PeerLeaves(d) \/ Hub!WriterReturns(d)
        PROVE  ClientsInv'
    BY <1>2, <1>4, ClientMoves DEF HandlerStep
  <1>5. ASSUME NEW d \in Clients, Connect(d) PROVE ClientsInv'
    <2>1. Len(ring) \in Nat /\ Len(ring) <= Hub!Recorded
      BY HubAssumption, LenProperties DEF Hub!TypeOK, Hub!RingIsNewest
    <2>2. Hub!Recorded - Len(ring) + 1 >= 1
      BY <2>1
    <2>3. /\ since' = [since EXCEPT ![d] = Hub!Recorded - Len(ring) + 1]
          /\ handler' = [handler EXCEPT ![d] = "backlog"]
          /\ \A c \in Clients : c # d => backlog'[c] = backlog[c]
      BY <1>5 DEF Connect, Hub!Register, Hub!Goto, Hub!TypeOK
    <2> QED BY <2>2, <2>3 DEF ClientsInv, Hub!TypeOK
  <1>6. ASSUME NEW d \in Clients, TakeFrame(d) \/ FrameWritten(d) \/ WriteFails(d)
        PROVE  ClientsInv'
    BY <1>6 DEF ClientsInv, TakeFrame, FrameWritten, WriteFails, Hub!TakeFrame,
                Hub!FrameWritten, Hub!WriteFails
  <1>7. CASE UNCHANGED vars
    BY <1>1, <1>7 DEF vars, hubAll
  <1> QED BY <1>1, <1>3, <1>4, <1>5, <1>6, <1>7, PageSteps DEF Next, WriterStep

-----------------------------------------------------------------------------
(* No verdict twice.                                                       *)

LEMMA AppendDistinct ==
  ASSUME NEW s \in Seq(Nat), NEW v \in Nat
  PROVE  /\ Elements(Append(s, v)) = Elements(s) \cup {v}
         /\ Distinct(s) /\ v \notin Elements(s) => Distinct(Append(s, v))
  <1> DEFINE n == Len(s)
  <1>1. n \in Nat /\ Len(Append(s, v)) = n + 1 /\ Append(s, v)[n + 1] = v
        /\ \A i \in 1 .. n : Append(s, v)[i] = s[i]
    BY LenProperties, AppendProperties
  <1>2. /\ \A i \in 1 .. n + 1 : i \in 1 .. n \/ i = n + 1
        /\ n + 1 \in 1 .. n + 1 /\ \A i \in 1 .. n : i \in 1 .. n + 1
    BY <1>1
  <1>3. Elements(Append(s, v)) = Elements(s) \cup {v}
    BY <1>1, <1>2 DEF Elements
  <1>4. ASSUME Distinct(s), v \notin Elements(s) PROVE Distinct(Append(s, v))
    <2>1. \A i \in 1 .. n : s[i] # v
      BY <1>4 DEF Elements
    <2> QED BY <1>1, <1>2, <1>4, <2>1 DEF Distinct
  <1> QED BY <1>3, <1>4

LEMMA TailDistinct ==
  ASSUME NEW s \in Seq(Nat), s # <<>>
  PROVE  /\ Head(s) \in Elements(s) /\ Elements(Tail(s)) \subseteq Elements(s)
         /\ Distinct(s) => Distinct(Tail(s)) /\ Head(s) \notin Elements(Tail(s))
  <1> DEFINE n == Len(s)
  <1>1. n \in Nat \ {0} /\ Head(s) = s[1] /\ Len(Tail(s)) = n - 1
        /\ \A i \in 1 .. n - 1 : Tail(s)[i] = s[i + 1]
    BY LenProperties, EmptySeq, HeadTailProperties
  <1>2. 1 \in 1 .. n /\ \A i \in 1 .. n - 1 : i + 1 \in 1 .. n /\ i + 1 # 1
    BY <1>1
  <1>3. Head(s) \in Elements(s) /\ Elements(Tail(s)) \subseteq Elements(s)
    BY <1>1, <1>2 DEF Elements
  <1>4. ASSUME Distinct(s) PROVE Distinct(Tail(s)) /\ Head(s) \notin Elements(Tail(s))
    <2>1. \A i, j \in 1 .. n - 1 : i + 1 = j + 1 => i = j
      OBVIOUS
    <2>2. \A i, j \in 1 .. n - 1 : Tail(s)[i] = Tail(s)[j] => i = j
      BY <1>1, <1>2, <1>4, <2>1 DEF Distinct
    <2>3. \A i \in 1 .. n - 1 : Tail(s)[i] # s[1]
      BY <1>1, <1>2, <1>4 DEF Distinct
    <2> QED BY <1>1, <2>2, <2>3 DEF Distinct, Elements
  <1> QED BY <1>3, <1>4

\* What a step may do to c's channel: no verdict enters it a second time, and
\* what the page may get after the step it might have got before.
Follows(c) ==
  /\ Distinct(queued'[c]) /\ Distinct(out'[c])
  /\ Elements(out'[c]) \subseteq Elements(queued'[c])
  /\ writer'[c] = "write" => hand'[c] \in Elements(queued'[c]) \ Elements(out'[c])
  /\ \A v : \/ v \in Elements(out'[c])
            \/ (writer'[c] = "write" /\ hand'[c] = v)
            \/ v \notin Elements(queued'[c])
          => Awaited(c, v)

LEMMA FollowsIs ==
  ASSUME NEW c \in Clients, Follows(c)
  PROVE  ChannelInv(c)' /\ \A v : Awaited(c, v)' => Awaited(c, v)
  <1>1. ChannelInv(c)'
    BY DEF Follows, ChannelInv, Distinct, Elements
  <1>2. \A v : Awaited(c, v)' => \/ v \in Elements(out'[c])
                                 \/ (writer'[c] = "write" /\ hand'[c] = v)
                                 \/ v \notin Elements(queued'[c])
    BY DEF Awaited, OnTheWay, Elements
  <1> QED BY <1>1, <1>2 DEF Follows

LEMMA MovesFollow ==
  ASSUME Hub!TypeOK, NEW c \in Clients, ChannelInv(c), HubMoves(c), hand'[c] = hand[c]
  PROVE  Follows(c)
  <1>1. queued[c] \in Seq(Nat) /\ out[c] \in Seq(Nat)
    BY DEF Hub!TypeOK
  <1>2. writer'[c] = "write" => writer[c] = "write"
    BY DEF HubMoves
  <1>3. CASE queued'[c] = queued[c] /\ out'[c] = out[c]
    BY <1>2, <1>3 DEF Follows, ChannelInv, Awaited, OnTheWay
  <1>4. ASSUME NEW v \in Nat, v \notin Elements(queued[c]),
               queued'[c] = Append(queued[c], v), out'[c] = Append(out[c], v)
        PROVE  Follows(c)
    <2>1. v \notin Elements(out[c])
      BY <1>4 DEF ChannelInv
    <2>2. /\ Elements(queued'[c]) = Elements(queued[c]) \cup {v}
          /\ Elements(out'[c]) = Elements(out[c]) \cup {v}
          /\ Distinct(queued'[c]) /\ Distinct(out'[c])
      BY <1>1, <1>4, <2>1, AppendDistinct DEF ChannelInv
    <2> QED BY <1>2, <1>4, <2>2 DEF Follows, ChannelInv, Awaited, OnTheWay
  <1> QED BY <1>3, <1>4 DEF HubMoves

LEMMA FramesFollow ==
  ASSUME Hub!TypeOK, FeedTypes, NEW c \in Clients, NEW d \in Clients, ChannelInv(c),
         TakeFrame(d) \/ FrameWritten(d) \/ WriteFails(d) \/ Connect(d)
  PROVE  /\ Follows(c)
         /\ FrameWritten(c) => hand[c] \in Elements(queued'[c]) /\ hand[c] \notin Elements(out'[c])
                               /\ writer'[c] = "receive" /\ writer[c] = "write"
  <1>1. CASE TakeFrame(d)
    <2>1. queued' = queued
      BY <1>1 DEF TakeFrame, Hub!TakeFrame
    <2>2. CASE c # d
      <3>1. out'[c] = out[c] /\ writer'[c] = writer[c] /\ hand'[c] = hand[c]
        BY <1>1, <2>2 DEF TakeFrame, Hub!TakeFrame, Hub!WriterAt, Hub!TypeOK, FeedTypes
      <3>2. Follows(c)
        BY <2>1, <3>1 DEF Follows, ChannelInv, Awaited, OnTheWay
      <3> QED BY <1>1, <2>2, <3>1, <3>2 DEF TakeFrame, FrameWritten, Hub!TakeFrame,
                 Hub!FrameWritten, Hub!WriterAt, Hub!TypeOK
    <2>3. CASE c = d
      <3>1. /\ writer[c] = "receive" /\ writer'[c] = "write"
            /\ out[c] # <<>> /\ out'[c] = Tail(out[c]) /\ hand'[c] = Head(out[c])
        BY <1>1, <2>3 DEF TakeFrame, Hub!TakeFrame, Hub!WriterAt, Hub!TypeOK, FeedTypes
      <3>2. /\ Head(out[c]) \in Elements(out[c]) /\ Elements(out'[c]) \subseteq Elements(out[c])
            /\ Distinct(out'[c]) /\ Head(out[c]) \notin Elements(out'[c])
        BY <3>1, TailDistinct DEF ChannelInv, Hub!TypeOK
      <3>3. Follows(c)
        BY <2>1, <3>1, <3>2 DEF Follows, ChannelInv, Awaited, OnTheWay
      <3> QED BY <3>1, <3>3 DEF FrameWritten, Hub!FrameWritten
    <2> QED BY <2>2, <2>3
  <1>2. CASE FrameWritten(d)
    <2>1. /\ UNCHANGED <<queued, out>>
          /\ c # d => writer'[c] = writer[c] /\ hand'[c] = hand[c]
          /\ c = d => writer[c] = "write" /\ writer'[c] = "receive"
      BY <1>2 DEF FrameWritten, Hub!FrameWritten, Hub!WriterAt, Hub!TypeOK, FeedTypes
    <2>2. Follows(c)
      BY <2>1 DEF Follows, ChannelInv, Awaited, OnTheWay
    <2>3. FrameWritten(c) => writer[c] = "write" /\ writer'[c] = "receive"
      BY DEF FrameWritten, Hub!FrameWritten, Hub!WriterAt, Hub!TypeOK
    <2> QED BY <2>1, <2>2, <2>3 DEF ChannelInv
  <1>3. CASE WriteFails(d)
    <2>1. /\ UNCHANGED <<queued, out>>
          /\ c # d => writer'[c] = writer[c] /\ hand'[c] = hand[c]
          /\ c = d => writer'[c] = "done"
      BY <1>3 DEF WriteFails, Hub!WriteFails, Hub!WriterAt, Hub!TypeOK, FeedTypes
    <2>2. Follows(c)
      BY <2>1 DEF Follows, ChannelInv, Awaited, OnTheWay
    <2>3. FrameWritten(c) => writer[c] = "write" /\ writer'[c] = "receive"
      BY DEF FrameWritten, Hub!FrameWritten, Hub!WriterAt, Hub!TypeOK
    <2> QED BY <2>1, <2>2, <2>3 DEF ChannelInv
  <1>4. CASE Connect(d)
    <2>1. /\ UNCHANGED <<queued, out>> /\ hand' = hand
          /\ writer'[c] = writer[c] \/ writer'[c] = "receive"
      BY <1>4 DEF Connect, Hub!Register, Hub!TypeOK
    <2>2. Follows(c)
      BY <2>1 DEF Follows, ChannelInv, Awaited, OnTheWay
    <2>3. FrameWritten(c) => writer[c] = "write" /\ writer'[c] = "receive"
      BY DEF FrameWritten, Hub!FrameWritten, Hub!WriterAt, Hub!TypeOK
    <2> QED BY <2>1, <2>2, <2>3 DEF ChannelInv
  <1> QED BY <1>1, <1>2, <1>3, <1>4

LEMMA ReverseKeeps ==
  ASSUME NEW s \in Seq(1 .. MaxVerdicts)
  PROVE  /\ Reverse(s) \in Seq(Nat)
         /\ Elements(Reverse(s)) = ToSet(s)
         /\ Distinct(s) => Distinct(Reverse(s))
  <1> DEFINE n == Len(s)
             r == [i \in 1 .. n |-> s[n - i + 1]]
  <1>1. n \in Nat /\ DOMAIN s = 1 .. n /\ \A i \in 1 .. n : s[i] \in Nat
    <2>1. \A i \in 1 .. n : s[i] \in 1 .. MaxVerdicts
      BY ElementOfSeq
    <2> QED BY <2>1, LenProperties
  <1>2. Reverse(s) = r
    BY DEF Reverse
  <1> HIDE DEF n
  <1>3. \A i \in 1 .. n : n - i + 1 \in 1 .. n /\ n - (n - i + 1) + 1 = i
    BY <1>1
  <1>4. r \in [1 .. n -> Nat]
    BY <1>1, <1>3
  <1>5. r \in Seq(Nat)
    BY <1>1, <1>4, SeqDef
  <1>6. Len(r) = n
    BY <1>1, <1>5, LenProperties
  <1>7. Elements(r) = ToSet(s)
    BY <1>1, <1>3, <1>6 DEF Elements, ToSet
  <1>8. ASSUME Distinct(s), NEW i \in 1 .. n, NEW j \in 1 .. n, r[i] = r[j] PROVE i = j
    <2>1. n - i + 1 = n - j + 1
      BY <1>3, <1>8 DEF Distinct, n
    <2> QED BY <1>1, <2>1
  <1> QED BY <1>2, <1>5, <1>6, <1>7, <1>8 DEF Distinct

\* The kinds of steps.
LEMMA StepKinds ==
  ASSUME HubOK, [Next]_vars
  PROVE  \/ UNCHANGED vars
         \/ UNCHANGED <<ts, pageVars, hand>> /\ \A c \in Clients : HubMoves(c)
         \/ \E d \in Clients : TakeFrame(d) \/ FrameWritten(d) \/ WriteFails(d) \/ Connect(d)
         \/ ServeHistory \/ LoadHistory \/ HistoryFails \/ ConnectFails \/ OnClose \/ Retry \/ Unmount
  <1>1. CASE (Hub!Persist /\ UNCHANGED <<ts, pageVars, hand>>) \/ PublishStep
    BY <1>1, PublishMoves DEF PublishStep
  <1>2. ASSUME NEW d \in Clients,
               \/ HandlerStep(d)
               \/ /\ Hub!PeerLeaves(d) \/ Hub!WriterReturns(d)
                  /\ UNCHANGED <<ts, pageVars, hand>>
        PROVE  UNCHANGED <<ts, pageVars, hand>> /\ \A c \in Clients : HubMoves(c)
    BY <1>2, ClientMoves DEF HandlerStep
  <1> QED BY <1>1, <1>2 DEF Next, WriterStep

LEMMA NextChannels ==
  ASSUME HubOK, FeedTypes, [Next]_vars, NEW c \in Clients, ChannelInv(c)
  PROVE  /\ ChannelInv(c)'
         /\ \A v : Awaited(c, v)' => Awaited(c, v)
         /\ \A v : FrameWritten(c) /\ v = hand[c] => ~Awaited(c, v)'
  <1> USE DEF HubOK
  <1>1. CASE \/ UNCHANGED vars
             \/ ServeHistory \/ LoadHistory \/ HistoryFails \/ ConnectFails \/ OnClose \/ Retry \/ Unmount
    <2>1. UNCHANGED <<queued, out, writer, hand>>
      BY <1>1, PageSteps DEF vars, hubAll
    <2>2. ~FrameWritten(c)
      BY <2>1 DEF FrameWritten, Hub!FrameWritten, Hub!WriterAt, Hub!TypeOK
    <2>3. Follows(c)
      BY <2>1 DEF Follows, ChannelInv, Awaited, OnTheWay
    <2> QED BY <2>2, <2>3, FollowsIs
  <1>2. CASE UNCHANGED <<ts, pageVars, hand>> /\ \A d \in Clients : HubMoves(d)
    <2>1. Follows(c)
      BY <1>2, MovesFollow
    <2>2. ~FrameWritten(c)
      BY <1>2 DEF HubMoves, FrameWritten, Hub!FrameWritten, Hub!WriterAt, Hub!TypeOK
    <2> QED BY <2>1, <2>2, FollowsIs
  <1>3. ASSUME NEW d \in Clients, TakeFrame(d) \/ FrameWritten(d) \/ WriteFails(d) \/ Connect(d)
        PROVE  /\ ChannelInv(c)'
               /\ \A v : Awaited(c, v)' => Awaited(c, v)
               /\ \A v : FrameWritten(c) /\ v = hand[c] => ~Awaited(c, v)'
    <2>1. Follows(c)
      BY <1>3, FramesFollow
    <2>2. ASSUME FrameWritten(c), NEW v, v = hand[c] PROVE ~Awaited(c, v)'
      <3>1. v \in Elements(queued'[c]) /\ v \notin Elements(out'[c]) /\ writer'[c] = "receive"
        BY <2>2, FramesFollow
      <3> QED BY <3>1 DEF Awaited, OnTheWay, Elements
    <2> QED BY <2>1, <2>2, FollowsIs
  <1> QED BY <1>1, <1>2, <1>3, StepKinds

\* What is not changed by a step that shows nothing.
LEMMA SameItems ==
  ASSUME ItemsInv, \A c \in Clients : \A v : Awaited(c, v)' => Awaited(c, v),
         UNCHANGED <<items, connects, loaded>>,
         page' = "open" => page = "open" /\ conn' = conn,
         page' \in {"loading", "answered"} => page \in {"loading", "answered"}
  PROVE  ItemsInv'
  BY DEF ItemsInv, Count, Places

\* The frame in the writer's hand is recorded, unless it is of the history.
LEMMA FrameIsNew ==
  ASSUME HubOK, FeedTypes, MarkInv, NEW c \in Clients, OnMessage(hand[c]), hand[c] \in loaded
  PROVE  items' = items
  <1>1. hand[c] \in 1 .. MaxVerdicts /\ ts[hand[c]] <= hwm /\ hwm \in Nat
    BY DEF MarkInv
  <1>2. ts[hand[c]] \in Nat
    BY <1>1, TimesOfRows
  <1>3. ~(ts[hand[c]] > hwm)
    BY <1>1, <1>2
  <1> QED BY <1>3 DEF OnMessage

LEMMA NextItems ==
  ASSUME HubOK, FeedTypes, AnswerInv, MarkInv, ItemsInv, \A c \in Clients : ChannelInv(c),
         [Next]_vars
  PROVE  ItemsInv'
  <1>1. \A c \in Clients : \A v : Awaited(c, v)' => Awaited(c, v)
    BY NextChannels
  <1>2. CASE UNCHANGED vars
    BY <1>1, <1>2, SameItems DEF vars, pageVars
  <1>3. CASE UNCHANGED <<ts, pageVars, hand>>
    BY <1>1, <1>3, SameItems DEF pageVars
  <1>4. ASSUME NEW d \in Clients, TakeFrame(d) \/ WriteFails(d) PROVE ItemsInv'
    BY <1>1, <1>4, SameItems DEF TakeFrame, WriteFails, pageVars
  <1>5. ASSUME NEW d \in Clients, FrameWritten(d) PROVE ItemsInv'
    <2>1. UNCHANGED <<page, conn, connects, loaded, hwm>>
      BY <1>5 DEF FrameWritten, OnMessage
    <2>2. CASE items' = items
      BY <1>1, <2>1, <2>2, SameItems
    <2>3. CASE items' # items
      <3> DEFINE v == hand[d]
      <3>1. page = "open" /\ conn = d /\ OnMessage(v)
        BY <1>5, <2>3 DEF FrameWritten
      <3>2. v \in Nat /\ v \notin loaded /\ items' = Record(items, v) /\ writer[d] = "write"
        BY <1>5, <2>3, <3>1, FrameIsNew
           DEF FeedTypes, OnMessage, FrameWritten, Hub!FrameWritten
      <3>3. Awaited(d, v) /\ \A u : u = v => ~Awaited(d, u)'
        BY <1>5, <3>2, NextChannels DEF Awaited, OnTheWay
      <3>4. Count(items, v) < connects /\ connects \in Nat /\ items \in Seq(Nat)
        BY <3>1, <3>2, <3>3 DEF ItemsInv
      <3>5. items' \in Seq(Nat)
        BY <3>2, <3>4, RecordIs
      <3>6. ASSUME NEW u
            PROVE  /\ Count(items, u) \in Nat /\ Count(items', u) \in Nat
                   /\ Count(items', u) <= Count(items, u) + IF u = v THEN 1 ELSE 0
        BY <3>2, <3>4, <3>5, CountType, CountRecord
      <3>7. ASSUME NEW u \in Nat
            PROVE  Count(items', u) <= IF u \in loaded THEN 1 ELSE connects
        <4>1. CASE u = v
          BY <3>2, <3>4, <3>6, <4>1
        <4>2. CASE u # v
          <5>1. Count(items, u) <= IF u \in loaded THEN 1 ELSE connects
            BY DEF ItemsInv
          <5> QED BY <3>4, <3>6, <4>2, <5>1
        <4> QED BY <4>1, <4>2
      <3>8. ASSUME NEW u \in Nat \ loaded, Awaited(d, u)'
            PROVE  Count(items', u) < connects
        <4>1. u # v /\ Awaited(d, u)
          BY <1>1, <3>3, <3>8
        <4>2. Count(items, u) < connects
          BY <3>1, <4>1 DEF ItemsInv
        <4> QED BY <3>4, <3>6, <4>1, <4>2
      <3> HIDE DEF v
      <3> QED BY <2>1, <3>1, <3>4, <3>5, <3>7, <3>8 DEF ItemsInv, Count, Places
    <2> QED BY <2>2, <2>3
  <1>6. ASSUME NEW d \in Clients, Connect(d) PROVE ItemsInv'
    <2>1. /\ UNCHANGED <<items, loaded>> /\ connects' = connects + 1
          /\ page' = "open" /\ conn' = d
      BY <1>6 DEF Connect
    <2>2. ASSUME NEW v \in Nat
          PROVE  /\ Count(items, v) <= IF v \in loaded THEN 1 ELSE connects'
                 /\ v \notin loaded => Count(items, v) < connects'
      <3>1. Count(items, v) \in Nat /\ connects \in Nat
            /\ Count(items, v) <= IF v \in loaded THEN 1 ELSE connects
        BY CountType DEF ItemsInv
      <3> QED BY <2>1, <3>1
    <2> QED BY <2>1, <2>2 DEF ItemsInv, Count, Places
  <1>7. CASE LoadHistory
    <2> DEFINE q == Reverse(answer)
    <2>1. /\ items = <<>> /\ connects = 0 /\ page = "answered"
          /\ answer \in Seq(1 .. MaxVerdicts) /\ Distinct(answer)
          /\ items' = FoldLeft(Record, <<>>, q) /\ loaded' = ToSet(answer)
          /\ connects' = connects /\ page' = "connecting"
      BY <1>7 DEF LoadHistory, AnswerInv, ItemsInv
    <2>2. q \in Seq(Nat) /\ Distinct(q) /\ Elements(q) = ToSet(answer)
      BY <2>1, ReverseKeeps
    <2> HIDE DEF q
    <2>3. items' \in Seq(Nat)
          /\ \A v : Count(items', v) <= IF v \in loaded' THEN 1 ELSE 0
      BY <2>1, <2>2, LoadedOnce
    <2> QED BY <2>1, <2>3 DEF ItemsInv, Count, Places
  <1>8. CASE ServeHistory \/ HistoryFails \/ ConnectFails \/ OnClose \/ Retry \/ Unmount
    <2>1. /\ UNCHANGED <<items, connects, loaded>> /\ page' # "open"
          /\ page' \in {"loading", "answered"} => page \in {"loading", "answered"}
      BY <1>8 DEF ServeHistory, HistoryFails, ConnectFails, OnClose, Retry, Unmount
    <2> QED BY <1>1, <2>1, SameItems
  <1> QED BY <1>2, <1>3, <1>4, <1>5, <1>6, <1>7, <1>8, StepKinds

LEMMA InitFeed == Init => FeedInv
  <1> SUFFICES ASSUME Init PROVE FeedInv
    OBVIOUS
  <1>1. FeedTypes
    BY DEF Init, FeedTypes
  <1>2. /\ rows = <<>> /\ published = 0 /\ page = "loading" /\ hwm = 0 /\ loaded = {}
        /\ items = <<>> /\ connects = 0
        /\ \A c \in Clients : /\ handler[c] = "absent" /\ writer[c] = "none"
                              /\ queued[c] = <<>> /\ out[c] = <<>>
    BY DEF Init, Hub!Init
  <1>3. <<>> \in Seq(Nat) /\ Len(<<>>) = 0 /\ Elements(<<>>) = {}
    BY EmptySeq DEF Elements
  <1>4. Distinct(<<>>)
    BY <1>3 DEF Distinct
  <1>5. RowsInv
    <2>1. published <= MaxVerdicts
      BY <1>2, HubAssumption
    <2> QED BY <1>2, <1>3, <1>4, <2>1 DEF RowsInv
  <1>6. \A c \in Clients : ChannelInv(c)
    BY <1>2, <1>3, <1>4 DEF ChannelInv
  <1>7. ItemsInv
    <2>1. \A v : Count(<<>>, v) = 0
      BY <1>3, CountNone
    <2> QED BY <1>2, <1>3, <2>1 DEF ItemsInv
  <1> QED BY <1>1, <1>2, <1>5, <1>6, <1>7 DEF FeedInv, AnswerInv, MarkInv, ConnInv, ClientsInv

\* The hub keeps its promises behind the page; no frame of the page's connection
\* is lost, and none comes twice, between the hub's queue and the page.
THEOREM FeedInvariant == Spec => [](HubOK /\ FeedInv)
  <1>1. HubOK /\ FeedInv /\ [Next]_vars => FeedInv'
    <2> SUFFICES ASSUME HubOK, FeedInv, [Next]_vars PROVE FeedInv'
      OBVIOUS
    <2>1. RowsInv' /\ FeedTypes'
      BY NextRows DEF FeedInv
    <2>2. AnswerInv' /\ MarkInv'
      BY NextHistory DEF FeedInv
    <2>3. ConnInv' /\ ClientsInv'
      BY NextConn, NextClients DEF FeedInv
    <2>4. \A c \in Clients : ChannelInv(c)'
      BY NextChannels DEF FeedInv
    <2>5. ItemsInv'
      BY NextItems DEF FeedInv
    <2> QED BY <2>1, <2>2, <2>3, <2>4, <2>5 DEF FeedInv
  <1> QED BY <1>1, InitFeed, HubHolds, PTL DEF Spec

\* A page that has heard all the hub has to say shows every verdict since the
\* oldest of its backlog that is newer than the whole history, save those
\* dropped: the mark hides only what is not newer than the history
\* (useVerdicts.ts 31-33, 87-91).  A time of 0 would be hidden by the mark of
\* a page without history; the scorer stamps the present (verdict.go 66).
THEOREM PageUpToDate == 0 \notin Times => (Spec => []UpToDate)
  <1> SUFFICES ASSUME 0 \notin Times PROVE Spec => []UpToDate
    OBVIOUS
  <1>1. HubOK /\ FeedInv => UpToDate
    <2> SUFFICES ASSUME HubOK, FeedInv, page = "open", Quiet(conn),
                        NEW v \in (since[conn] .. Hub!Recorded) \ dropped[conn],
                        \A h \in loaded : ts[v] > ts[h], v \notin shown
                 PROVE  FALSE
      BY DEF UpToDate
    <2> DEFINE c == conn
    <2>1. /\ c \in Clients /\ handler[c] = "reading" /\ c \in clients \ targets
          /\ out[c] = <<>> /\ writer[c] = "receive"
      BY DEF Quiet, FeedInv, ConnInv
    <2>2. backlog[c] = <<>> /\ since[c] >= 1 /\ Delivered(c)
      BY <2>1 DEF FeedInv, ClientsInv, ConnInv
    <2>3. v \in Elements(queued[c])
      <3>1. Elements(backlog[c]) = {}
        BY <2>2, EmptySeq DEF Elements
      <3> QED BY <2>1, <3>1 DEF HubOK
    <2>4. PICK i \in 1 .. Len(queued[c]) : queued[c][i] = v
      BY <2>3 DEF Elements
    <2>5. ts[v] <= hwm
      <3>1. ~OnTheWay(c, v)
        BY <2>1, EmptySeq DEF OnTheWay, Elements
      <3> QED BY <2>1, <2>2, <2>4, <3>1 DEF Delivered, Heard
    <2>6. v \in 1 .. MaxVerdicts
      <3>1. published \in Nat /\ published <= MaxVerdicts /\ since[c] \in Nat
        BY <2>1 DEF HubOK, Hub!TypeOK, FeedInv, RowsInv
      <3>2. Hub!Recorded \in Nat /\ Hub!Recorded <= published
        BY <3>1 DEF HubOK, Hub!Recorded
      <3> QED BY <2>2, <3>1, <3>2, HubAssumption
    <2>7. ts[v] \in Nat /\ ts[v] # 0 /\ hwm \in Nat
      BY <2>6, TimesOfRows DEF FeedInv, MarkInv
    <2>8. PICK h \in loaded : h \in 1 .. MaxVerdicts /\ ts[h] = hwm
      BY <2>5, <2>7 DEF FeedInv, MarkInv
    <2>9. ts[v] > hwm
      BY <2>8
    <2> QED BY <2>5, <2>7, <2>9
  <1> QED BY <1>1, FeedInvariant, PTL

\* History and websocket overlap, and every connection brings a backlog again:
\* a verdict of the history is there once at most, any other once for each
\* connection at most, whatever their times (useVerdicts.ts 32, 41-42).
THEOREM ShownAtMostOnce == Spec => []NoDoubles
  <1>1. FeedInv => NoDoubles
    <2> SUFFICES ASSUME FeedInv, NEW v \in 1 .. MaxVerdicts
                 PROVE  Count(items, v) <= IF v \in loaded THEN 1 ELSE connects
      BY DEF NoDoubles, Count, Places
    <2>1. v \in Nat
      BY HubAssumption
    <2> QED BY <2>1 DEF FeedInv, ItemsInv
  <1> QED BY <1>1, FeedInvariant, PTL
=============================================================================
