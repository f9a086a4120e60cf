------------------------- MODULE LiveServer_proofs -------------------------
(***************************************************************************)
(* Theorems about LiveServer, for every set of browsers, every size of the *)
(* ring and of the buffers and every number of verdicts: what the ring     *)
(* holds, that no registered client misses a verdict, and in which order   *)
(* it gets them.                                                           *)
(*                                                                         *)
(* The invariant describes a client by two intervals of verdicts: those of *)
(* its backlog that its handler has sent, and the live ones that Publish   *)
(* has sent.  Each send extends one of them by the next verdict.           *)
(***************************************************************************)
EXTENDS LiveServer, SequenceTheorems, FiniteSetTheorems, TLAPS

\* The newest verdict Publish has sent to c.
Top(c) == IF c \in targets THEN published - 1 ELSE Recorded

\* The newest verdict of its backlog that c's handler has sent.
BacklogEnd(c) == joined[c] - Len(backlog[c])

\* What c has been sent; while it is registered, without exception.
Reached(c) == (since[c] .. BacklogEnd(c)) \cup (joined[c] + 1 .. Top(c))
Sent(c) == Elements(queued[c]) \cup dropped[c]

\* Only a live verdict overtakes, and only one of the backlog, up to j.
Ordered(q, j) ==
  \A i, k \in 1 .. Len(q) : i < k /\ q[i] > q[k] => q[k] <= j /\ j < q[i]

PublisherInv ==
  /\ publisher = "recording" => published > 0
  /\ publisher # "sending" => targets = {}

\* A client that has not come yet.
Newcomer(c) == c \notin clients \cup targets /\ queued[c] = <<>> /\ dropped[c] = {}

\* A client that has registered, whether or not it has left again.
Member(c) ==
  /\ since[c] + Len(backlog[c]) <= joined[c] + 1
  /\ joined[c] <= Top(c)
  /\ \A i \in 1 .. Len(backlog[c]) : backlog[c][i] = BacklogEnd(c) + i
  /\ IsFiniteSet(dropped[c])
  /\ Sent(c) \subseteq Reached(c)
  /\ c \in clients =>
       /\ Sent(c) = Reached(c)
       /\ Len(queued[c]) + Cardinality(dropped[c]) = Top(c) - Len(backlog[c]) + 1 - since[c]
  /\ Ordered(queued[c], joined[c])

ClientInv(c) == IF handler[c] = "absent" THEN Newcomer(c) ELSE Member(c)

HubInv == TypeOK /\ PublisherInv /\ RingIsNewest /\ \A c \in Clients : ClientInv(c)

-----------------------------------------------------------------------------
(* Types                                                                   *)

\* The last n of a sequence (server.go 130-133).
LEMMA NewestIs ==
  ASSUME NEW s \in Seq(Nat), NEW n \in Nat \ {0}
  PROVE  /\ Newest(s, n) \in Seq(Nat)
         /\ Len(Newest(s, n)) = IF Len(s) > n THEN n ELSE Len(s)
         /\ \A i \in 1 .. Len(Newest(s, n)) :
              Newest(s, n)[i] = s[Len(s) - Len(Newest(s, n)) + i]
  <1>1. Len(s) \in Nat
    BY LenProperties
  <1>2. CASE Len(s) > n
    <2> DEFINE m == Len(s) - n + 1
    <2>1. m \in 1 .. Len(s) /\ m \in Int /\ Len(s) - m + 1 = n
      BY <1>1, <1>2
    <2>2. \A i \in 1 .. n : m + i - 1 = Len(s) - n + i
      BY <1>1, <2>1
    <2>3. Newest(s, n) = SubSeq(s, m, Len(s))
      BY <1>2 DEF Newest
    <2> HIDE DEF m
    <2>4. \A i \in m .. Len(s) : s[i] \in Nat
      BY <1>1, <2>1, ElementOfSeq
    <2>5. /\ SubSeq(s, m, Len(s)) \in Seq(Nat)
          /\ Len(SubSeq(s, m, Len(s))) = Len(s) - m + 1
          /\ \A i \in 1 .. Len(s) - m + 1 : SubSeq(s, m, Len(s))[i] = s[m + i - 1]
      <3>1. m \in Int /\ Len(s) \in Int /\ m <= Len(s)
        BY <1>1, <2>1
      <3> QED BY <2>4, <3>1, SubSeqProperties
    <2> QED BY <1>2, <2>1, <2>5, <2>2, <2>3
  <1>3. CASE ~(Len(s) > n)
    <2>1. Newest(s, n) = s
      BY <1>3 DEF Newest
    <2>2. \A i \in 1 .. Len(s) : Len(s) - Len(s) + i = i
      BY <1>1
    <2> QED BY <1>3, <2>1, <2>2
  <1> QED BY <1>2, <1>3

\* Whatever happens to the channel, it stays within its buffer.
LEMMA QueueTypeOK ==
  ASSUME TypeOK, NEW c \in Clients, NEW v \in Nat, Queue(c, v)
  PROVE  /\ out' \in [Clients -> Seq(Nat)]
         /\ \A d \in Clients : Len(out'[d]) <= SendBuffer
         /\ queued' \in [Clients -> Seq(Nat)]
         /\ dropped' \in [Clients -> SUBSET Nat]
  <1>1. CASE /\ dropped' = [dropped EXCEPT ![c] = @ \cup {v}]
             /\ UNCHANGED <<out, queued>>
    <2>1. dropped[c] \cup {v} \in SUBSET Nat
      BY DEF TypeOK
    <2> QED BY <1>1, <2>1 DEF TypeOK
  <1>2. CASE /\ Len(out[c]) < SendBuffer
             /\ out' = [out EXCEPT ![c] = Append(@, v)]
             /\ queued' = [queued EXCEPT ![c] = Append(@, v)]
             /\ dropped' = dropped
    <2>1. Append(out[c], v) \in Seq(Nat) /\ Len(Append(out[c], v)) = Len(out[c]) + 1
          /\ Append(queued[c], v) \in Seq(Nat) /\ Len(out[c]) \in Nat
      BY AppendProperties, LenProperties DEF TypeOK
    <2>2. Len(Append(out[c], v)) <= SendBuffer
      BY <1>2, <2>1, ServerAssumption
    <2> QED BY <1>2, <2>1, <2>2 DEF TypeOK
  <1> QED BY <1>1, <1>2 DEF Queue

LEMMA InitTypeOK == Init => TypeOK
  <1> SUFFICES ASSUME Init PROVE TypeOK
    OBVIOUS
  <1>1. <<>> \in Seq(Nat) /\ Len(<<>>) = 0
    BY EmptySeq
  <1>2. \A c \in Clients : Len(out[c]) <= SendBuffer
    BY <1>1, ServerAssumption DEF Init
  <1> QED BY <1>1, <1>2 DEF Init, TypeOK, HandlerStates

LEMMA RecordedType == TypeOK /\ PublisherInv => Recorded \in Nat
  BY DEF TypeOK, PublisherInv, Recorded

LEMMA NextTypeOK ==
  ASSUME TypeOK, PublisherInv, RingIsNewest, [Next]_vars
  PROVE  TypeOK'
  <1> USE DEF TypeOK, HandlerStates, publisherVars, hubVars, clientVars
  <1>1. CASE Persist
    <2>1. published + 1 \in Nat
      OBVIOUS
    <2>2. Append(rows, published + 1) \in Seq(Nat)
      BY <2>1, AppendProperties
    <2> QED BY <1>1, <2>1, <2>2 DEF Persist
  <1>2. CASE Record
    <2>1. Append(ring, published) \in Seq(Nat)
      BY AppendProperties
    <2>2. Newest(Append(ring, published), RingSize) \in Seq(Nat)
      BY <2>1, NewestIs, ServerAssumption
    <2> QED BY <1>2, <2>2 DEF Record
  <1>3. CASE PublishReturns
    BY <1>3 DEF PublishReturns
  <1>4. ASSUME NEW c \in Clients, FanOut(c) PROVE TypeOK'
    <2>1. Queue(c, published)
      BY <1>4 DEF FanOut
    <2> QED BY <1>4, <2>1, QueueTypeOK DEF FanOut
  <1>5. ASSUME NEW c \in Clients, FanOutPanics(c) PROVE TypeOK'
    BY <1>5 DEF FanOutPanics
  <1>6. ASSUME NEW c \in Clients, Register(c) PROVE TypeOK'
    <2>1. Recorded \in Nat /\ Recorded - Len(ring) + 1 \in Nat
      <3>1. Recorded \in Nat /\ RingSize \in Nat
        BY RecordedType, ServerAssumption
      <3>2. Len(ring) = IF Recorded < RingSize THEN Recorded ELSE RingSize
        BY DEF RingIsNewest
      <3> QED BY <3>1, <3>2
    <2> QED BY <1>6, <2>1 DEF Register, Goto
  <1>7. ASSUME NEW c \in Clients, SendBacklog(c) PROVE TypeOK'
    <2>1. Head(backlog[c]) \in Nat /\ Tail(backlog[c]) \in Seq(Nat)
      BY <1>7, HeadTailProperties DEF SendBacklog
    <2>2. Queue(c, Head(backlog[c]))
      BY <1>7 DEF SendBacklog
    <2> QED BY <1>7, <2>1, <2>2, QueueTypeOK DEF SendBacklog
  <1>8. ASSUME NEW c \in Clients, TakeFrame(c) PROVE TypeOK'
    <2>1. Tail(out[c]) \in Seq(Nat) /\ Len(Tail(out[c])) = Len(out[c]) - 1 /\ Len(out[c]) \in Nat
      BY <1>8, HeadTailProperties, LenProperties DEF TakeFrame
    <2>2. Len(Tail(out[c])) <= SendBuffer
      BY <2>1, ServerAssumption
    <2> QED BY <1>8, <2>1, <2>2 DEF TakeFrame, WriterAt
  <1>9. ASSUME NEW c \in Clients,
               BacklogPanics(c) \/ BacklogSent(c) \/ ReadFails(c) \/ PeerLeaves(c) \/ Unregister(c)
        PROVE  TypeOK'
    BY <1>9 DEF BacklogPanics, BacklogSent, ReadFails, PeerLeaves, Unregister, Goto
  <1>10. ASSUME NEW c \in Clients,
                HandlerCloses(c) \/ FrameWritten(c) \/ WriteFails(c) \/ WriterReturns(c)
         PROVE  TypeOK'
    BY <1>10 DEF HandlerCloses, FrameWritten, WriteFails, WriterReturns, Goto, WriterAt, Close
  <1>11. CASE UNCHANGED vars
    BY <1>11 DEF vars
  <1> QED
    BY <1>1, <1>2, <1>3, <1>4, <1>5, <1>6, <1>7, <1>8, <1>9, <1>10, <1>11
    DEF Next, PublishStep, HandlerStep, WriterStep

-----------------------------------------------------------------------------
(* The publisher and the ring                                              *)

\* Outside Publish nothing that it works on changes.
LEMMA ClientSteps ==
  ASSUME NEW c \in Clients,
         \/ FanOut(c) \/ FanOutPanics(c) \/ Register(c) \/ HandlerStep(c)
         \/ WriterStep(c) \/ PeerLeaves(c)
  PROVE  UNCHANGED <<publisher, published, ring>> /\ targets' \subseteq targets
  BY DEF FanOut, FanOutPanics, Register, HandlerStep, WriterStep, PeerLeaves, SendBacklog,
         BacklogPanics, BacklogSent, ReadFails, Unregister, HandlerCloses, TakeFrame,
         FrameWritten, WriteFails, WriterReturns, publisherVars, hubVars

LEMMA NextPublisher ==
  ASSUME TypeOK, PublisherInv, [Next]_vars
  PROVE  PublisherInv'
  <1> USE DEF PublisherInv, TypeOK
  <1>1. CASE Persist \/ Record \/ PublishReturns
    BY <1>1 DEF Persist, Record, PublishReturns
  <1>2. ASSUME NEW c \in Clients,
               \/ FanOut(c) \/ FanOutPanics(c) \/ Register(c) \/ HandlerStep(c)
               \/ WriterStep(c) \/ PeerLeaves(c)
        PROVE  PublisherInv'
    BY <1>2, ClientSteps
  <1>3. CASE UNCHANGED vars
    BY <1>3 DEF vars, publisherVars
  <1> QED BY <1>1, <1>2, <1>3 DEF Next, PublishStep

LEMMA RecordKeepsNewest ==
  ASSUME TypeOK, PublisherInv, RingIsNewest, Record
  PROVE  RingIsNewest'
  <1> DEFINE longer == Append(ring, published)
  <1>1. /\ published \in Nat \ {0} /\ RingSize \in Nat \ {0} /\ Len(ring) \in Nat
        /\ ring \in Seq(Nat)
    BY ServerAssumption, LenProperties DEF Record, PublisherInv, TypeOK
  <1>2. Recorded = published - 1 /\ Recorded' = published
    BY DEF Record, Recorded
  <1>3. /\ Len(ring) = IF published - 1 < RingSize THEN published - 1 ELSE RingSize
        /\ \A i \in 1 .. Len(ring) : ring[i] = published - 1 - Len(ring) + i
    BY <1>2 DEF RingIsNewest
  <1>4. /\ longer \in Seq(Nat) /\ Len(longer) = Len(ring) + 1
        /\ \A i \in 1 .. Len(ring) : longer[i] = ring[i]
        /\ longer[Len(ring) + 1] = published
    BY <1>1, AppendProperties
  <1> HIDE DEF longer
  <1>5. \A i \in 1 .. Len(longer) : longer[i] = published - Len(longer) + i
    <2> SUFFICES ASSUME NEW i \in 1 .. Len(ring) + 1
                 PROVE  longer[i] = published - (Len(ring) + 1) + i
      BY <1>4
    <2>1. CASE i = Len(ring) + 1
      BY <2>1, <1>1, <1>4
    <2>2. CASE i \in 1 .. Len(ring)
      BY <2>2, <1>1, <1>3, <1>4
    <2> QED BY <1>1, <2>1, <2>2
  <1>6. /\ Len(ring') = IF Len(longer) > RingSize THEN RingSize ELSE Len(longer)
        /\ \A i \in 1 .. Len(ring') : ring'[i] = longer[Len(longer) - Len(ring') + i]
    BY <1>1, <1>4, NewestIs DEF Record, longer
  <1>7. Len(ring') = IF published < RingSize THEN published ELSE RingSize
    BY <1>1, <1>3, <1>4, <1>6
  <1>8. ASSUME NEW i \in 1 .. Len(ring') PROVE ring'[i] = published - Len(ring') + i
    <2> DEFINE k == Len(longer) - Len(ring') + i
    <2>1. k \in 1 .. Len(longer)
      BY <1>1, <1>4, <1>6, <1>7
    <2>2. longer[k] = published - Len(longer) + k
      BY <1>5, <2>1
    <2>3. published - Len(longer) + k = published - Len(ring') + i
      BY <1>1, <1>4, <1>7
    <2> QED BY <1>6, <2>2, <2>3
  <1> QED BY <1>2, <1>7, <1>8 DEF RingIsNewest

LEMMA NextRing ==
  ASSUME TypeOK, PublisherInv, RingIsNewest, [Next]_vars
  PROVE  RingIsNewest'
  <1>1. CASE Persist
    <2>1. Recorded' = Recorded /\ ring' = ring
      BY <1>1 DEF Persist, Recorded, TypeOK
    <2> QED BY <2>1 DEF RingIsNewest
  <1>2. CASE Record
    BY <1>2, RecordKeepsNewest
  <1>3. CASE PublishReturns
    BY <1>3 DEF PublishReturns, RingIsNewest, Recorded, hubVars
  <1>4. ASSUME NEW c \in Clients,
               \/ FanOut(c) \/ FanOutPanics(c) \/ Register(c) \/ HandlerStep(c)
               \/ WriterStep(c) \/ PeerLeaves(c)
        PROVE  RingIsNewest'
    BY <1>4, ClientSteps DEF RingIsNewest, Recorded
  <1>5. CASE UNCHANGED vars
    BY <1>5 DEF vars, publisherVars, hubVars, RingIsNewest, Recorded
  <1> QED BY <1>1, <1>2, <1>3, <1>4, <1>5 DEF Next, PublishStep

-----------------------------------------------------------------------------
(* One client                                                              *)

\* A step that leaves a client alone, or takes it off the list.
LEMMA ClientUnmoved ==
  ASSUME NEW c \in Clients, ClientInv(c),
         (handler'[c] = "absent") <=> (handler[c] = "absent"),
         handler[c] = "absent" => c \notin clients' \cup targets',
         c \in clients' => c \in clients,
         backlog'[c] = backlog[c], since'[c] = since[c], joined'[c] = joined[c],
         queued'[c] = queued[c], dropped'[c] = dropped[c],
         Top(c) \in Int, Top(c)' \in Int, joined[c] \in Nat,
         Top(c) <= Top(c)', c \in clients' => Top(c)' = Top(c)
  PROVE  ClientInv(c)'
  <1>1. CASE handler[c] = "absent"
    BY <1>1 DEF ClientInv, Newcomer
  <1>2. CASE handler[c] # "absent"
    <2> SUFFICES Member(c)'
      BY <1>2 DEF ClientInv
    <2>0. Member(c)
      BY <1>2 DEF ClientInv
    <2>1. BacklogEnd(c)' = BacklogEnd(c) /\ Sent(c)' = Sent(c)
      BY DEF BacklogEnd, Sent, Elements
    <2>2. Reached(c) \subseteq Reached(c)'
      BY <2>1 DEF Reached
    <2>3. c \in clients' => Reached(c)' = Reached(c)
      BY <2>1 DEF Reached
    <2>4. joined'[c] <= Top(c)'
      BY <2>0 DEF Member
    <2>5. Sent(c)' \subseteq Reached(c)'
      BY <2>0, <2>1, <2>2 DEF Member
    <2>6. c \in clients' =>
            /\ Sent(c)' = Reached(c)'
            /\ Len(queued'[c]) + Cardinality(dropped'[c]) = Top(c)' - Len(backlog'[c]) + 1 - since'[c]
      BY <2>0, <2>1, <2>3 DEF Member
    <2>7. /\ since'[c] + Len(backlog'[c]) <= joined'[c] + 1
          /\ \A i \in 1 .. Len(backlog'[c]) : backlog'[c][i] = BacklogEnd(c)' + i
          /\ IsFiniteSet(dropped'[c])
          /\ Ordered(queued'[c], joined'[c])
      BY <2>0, <2>1 DEF Member, Ordered
    <2> QED BY <2>4, <2>5, <2>6, <2>7 DEF Member, Ordered
  <1> QED BY <1>1, <1>2

\* client.send, seen from the client: v is sent, once, and overtakes only what
\* it may.
LEMMA QueueSends ==
  ASSUME TypeOK, NEW c \in Clients, NEW v \in Nat, Queue(c, v),
         v \notin Sent(c), IsFiniteSet(dropped[c]), Ordered(queued[c], joined[c]),
         \A i \in 1 .. Len(queued[c]) : queued[c][i] > v => v <= joined[c] /\ joined[c] < queued[c][i]
  PROVE  /\ Sent(c)' = Sent(c) \cup {v}
         /\ IsFiniteSet(dropped'[c])
         /\ Len(queued'[c]) + Cardinality(dropped'[c]) = Len(queued[c]) + Cardinality(dropped[c]) + 1
         /\ Ordered(queued'[c], joined[c])
         /\ \A d \in Clients \ {c} : queued'[d] = queued[d] /\ dropped'[d] = dropped[d]
  <1>1. /\ queued[c] \in Seq(Nat) /\ Len(queued[c]) \in Nat /\ Cardinality(dropped[c]) \in Nat
        /\ \A i \in 1 .. Len(queued[c]) : queued[c][i] \in Nat
    BY LenProperties, ElementOfSeq, FS_CardinalityType DEF TypeOK
  <1>2. CASE /\ queued' = [queued EXCEPT ![c] = Append(@, v)] /\ dropped' = dropped
    <2> DEFINE q == Append(queued[c], v)
    <2>1. /\ Len(q) = Len(queued[c]) + 1
          /\ \A i \in 1 .. Len(queued[c]) : q[i] = queued[c][i]
          /\ q[Len(queued[c]) + 1] = v
      BY <1>1, AppendProperties
    <2>2. /\ queued'[c] = q /\ dropped'[c] = dropped[c]
          /\ \A d \in Clients \ {c} : queued'[d] = queued[d] /\ dropped'[d] = dropped[d]
      BY <1>2 DEF TypeOK
    <2> HIDE DEF q
    <2>3. Elements(q) = Elements(queued[c]) \cup {v}
      <3>1. \A i \in 1 .. Len(q) : i \in 1 .. Len(queued[c]) \/ i = Len(queued[c]) + 1
        BY <1>1, <2>1
      <3>2. 1 .. Len(queued[c]) \subseteq 1 .. Len(q) /\ Len(queued[c]) + 1 \in 1 .. Len(q)
        BY <1>1, <2>1
      <3> QED BY <2>1, <3>1, <3>2 DEF Elements
    <2>4. Ordered(q, joined[c])
      <3> SUFFICES ASSUME NEW i \in 1 .. Len(q), NEW k \in 1 .. Len(q), i < k, q[i] > q[k]
                   PROVE  q[k] <= joined[c] /\ joined[c] < q[i]
        BY DEF Ordered
      <3>1. i \in 1 .. Len(queued[c]) /\ q[i] = queued[c][i]
        BY <1>1, <2>1
      <3>2. CASE k = Len(queued[c]) + 1
        BY <3>1, <3>2, <2>1
      <3>3. CASE k # Len(queued[c]) + 1
        <4>1. k \in 1 .. Len(queued[c]) /\ q[k] = queued[c][k]
          BY <1>1, <2>1, <3>3
        <4> QED BY <3>1, <4>1 DEF Ordered
      <3> QED BY <3>2, <3>3
    <2>5. Sent(c)' = Sent(c) \cup {v}
      <3>1. Sent(c)' = Elements(queued'[c]) \cup dropped'[c]
        BY DEF Sent, Elements
      <3> QED BY <2>2, <2>3, <3>1 DEF Sent
    <2> QED BY <1>1, <2>1, <2>2, <2>4, <2>5
  <1>3. CASE /\ dropped' = [dropped EXCEPT ![c] = @ \cup {v}] /\ queued' = queued
    <2>1. dropped'[c] = dropped[c] \cup {v} /\ v \notin dropped[c]
      BY <1>3 DEF TypeOK, Sent
    <2>2. /\ IsFiniteSet(dropped'[c])
          /\ Cardinality(dropped'[c]) = Cardinality(dropped[c]) + 1
      BY <2>1, FS_AddElement
    <2>3. Sent(c)' = Sent(c) \cup {v}
      BY <1>3, <2>1 DEF Sent, Elements
    <2>4. \A d \in Clients \ {c} : dropped'[d] = dropped[d]
      BY <1>3 DEF TypeOK
    <2> QED BY <1>1, <1>3, <2>2, <2>3, <2>4
  <1> QED BY <1>2, <1>3 DEF Queue

LEMMA TopType ==
  ASSUME TypeOK, PublisherInv, NEW c \in Clients
  PROVE  Top(c) \in Int /\ Top(c) <= Recorded /\ Recorded \in Nat
  BY DEF TypeOK, PublisherInv, Top, Recorded

\* The places of a member's interval.
LEMMA MemberTypes ==
  ASSUME TypeOK, PublisherInv, NEW c \in Clients, Member(c)
  PROVE  /\ since[c] \in Nat /\ joined[c] \in Nat /\ Top(c) \in Nat
         /\ backlog[c] \in Seq(Nat) /\ Len(backlog[c]) \in Nat /\ BacklogEnd(c) \in Int
         /\ since[c] <= BacklogEnd(c) + 1 /\ BacklogEnd(c) <= joined[c] /\ joined[c] <= Top(c)
         /\ Len(queued[c]) \in Nat /\ \A i \in 1 .. Len(queued[c]) : queued[c][i] \in Nat
         /\ \A i \in 1 .. Len(queued[c]) : queued[c][i] \in Reached(c)
  <1>1. /\ since[c] \in Nat /\ joined[c] \in Nat /\ Top(c) \in Int
        /\ backlog[c] \in Seq(Nat) /\ Len(backlog[c]) \in Nat
        /\ Len(queued[c]) \in Nat /\ \A i \in 1 .. Len(queued[c]) : queued[c][i] \in Nat
    BY TopType, LenProperties, ElementOfSeq DEF TypeOK
  <1>2. \A i \in 1 .. Len(queued[c]) : queued[c][i] \in Reached(c)
    BY DEF Member, Sent, Elements
  <1>3. since[c] + Len(backlog[c]) <= joined[c] + 1 /\ joined[c] <= Top(c)
    BY DEF Member
  <1>4. /\ BacklogEnd(c) \in Int /\ since[c] <= BacklogEnd(c) + 1 /\ BacklogEnd(c) <= joined[c]
        /\ Top(c) \in Nat
    BY <1>1, <1>3 DEF BacklogEnd
  <1> QED BY <1>1, <1>2, <1>3, <1>4

LEMMA FanOutKeeps ==
  ASSUME HubInv, NEW c \in Clients, FanOut(c)
  PROVE  \A d \in Clients : ClientInv(d)'
  <1>1. /\ publisher = "sending" /\ c \in targets /\ Queue(c, published)
        /\ targets' = targets \ {c}
        /\ UNCHANGED <<publisher, published, ring, clients, handler, backlog, since, joined>>
        /\ published \in Nat
    BY DEF FanOut, hubVars, HubInv, TypeOK
  <1>2. TypeOK /\ PublisherInv /\ ClientInv(c) /\ Member(c)
    BY <1>1 DEF HubInv, ClientInv, Newcomer
  <1>3. /\ since[c] \in Nat /\ joined[c] \in Nat /\ Top(c) \in Nat
        /\ backlog[c] \in Seq(Nat) /\ Len(backlog[c]) \in Nat /\ BacklogEnd(c) \in Int
        /\ since[c] <= BacklogEnd(c) + 1 /\ BacklogEnd(c) <= joined[c] /\ joined[c] <= Top(c)
        /\ Len(queued[c]) \in Nat /\ \A i \in 1 .. Len(queued[c]) : queued[c][i] \in Nat
        /\ \A i \in 1 .. Len(queued[c]) : queued[c][i] \in Reached(c)
    BY <1>2, MemberTypes
  <1>4. Top(c) = published - 1 /\ Top(c)' = published
    BY <1>1 DEF Top, Recorded
  <1>5. published \notin Reached(c) /\ \A i \in 1 .. Len(queued[c]) : queued[c][i] < published
    <2>1. \A r \in Reached(c) : r \in Int /\ r < published
      BY <1>1, <1>3, <1>4 DEF Reached
    <2> QED BY <1>1, <1>3, <2>1
  <1>6. /\ Sent(c) \subseteq Reached(c) /\ IsFiniteSet(dropped[c]) /\ Ordered(queued[c], joined[c])
        /\ c \in clients =>
             /\ Sent(c) = Reached(c)
             /\ Len(queued[c]) + Cardinality(dropped[c]) = Top(c) - Len(backlog[c]) + 1 - since[c]
        /\ \A i \in 1 .. Len(backlog[c]) : backlog[c][i] = BacklogEnd(c) + i
        /\ since[c] + Len(backlog[c]) <= joined[c] + 1
    BY <1>2 DEF Member
  <1>7. /\ Sent(c)' = Sent(c) \cup {published}
        /\ IsFiniteSet(dropped'[c])
        /\ Len(queued'[c]) + Cardinality(dropped'[c]) = Len(queued[c]) + Cardinality(dropped[c]) + 1
        /\ Ordered(queued'[c], joined[c])
        /\ \A d \in Clients \ {c} : queued'[d] = queued[d] /\ dropped'[d] = dropped[d]
    <2>1. published \notin Sent(c)
      BY <1>5, <1>6
    <2>2. \A i \in 1 .. Len(queued[c]) : ~(queued[c][i] > published)
      BY <1>1, <1>3, <1>5
    <2> QED BY <1>1, <1>2, <1>6, <2>1, <2>2, QueueSends
  <1>8. Reached(c)' = Reached(c) \cup {published}
    <2>1. Reached(c)' = (since[c] .. BacklogEnd(c)) \cup (joined[c] + 1 .. published)
      BY <1>1, <1>4 DEF Reached, BacklogEnd
    <2> QED BY <1>1, <1>3, <1>4, <2>1 DEF Reached
  <1>9. ClientInv(c)'
    <2>1. handler'[c] # "absent"
      BY <1>1, <1>2 DEF HubInv, ClientInv, Newcomer
    <2>2. joined[c] <= published
      BY <1>1, <1>3, <1>4
    <2>3. c \in clients => Len(queued'[c]) + Cardinality(dropped'[c]) = published - Len(backlog[c]) + 1 - since[c]
      <3> SUFFICES ASSUME c \in clients
                   PROVE  Len(queued'[c]) + Cardinality(dropped'[c]) = published - Len(backlog[c]) + 1 - since[c]
        OBVIOUS
      <3>1. Len(queued[c]) + Cardinality(dropped[c]) = published - 1 - Len(backlog[c]) + 1 - since[c]
        BY <1>4, <1>6
      <3>2. Len(queued'[c]) + Cardinality(dropped'[c]) = (published - 1 - Len(backlog[c]) + 1 - since[c]) + 1
        BY <1>7, <3>1
      <3>3. published \in Int /\ Len(backlog[c]) \in Int /\ since[c] \in Int
        BY <1>1, <1>3
      <3>4. \A p, l, s \in Int : (p - 1 - l + 1 - s) + 1 = p - l + 1 - s
        OBVIOUS
      <3>5. (published - 1 - Len(backlog[c]) + 1 - since[c]) + 1 = published - Len(backlog[c]) + 1 - since[c]
        BY <3>3, <3>4
      <3> QED BY <3>2, <3>5
    <2>4. BacklogEnd(c)' = BacklogEnd(c)
      BY <1>1 DEF BacklogEnd
    <2>5. Member(c)'
      BY <1>1, <1>4, <1>6, <1>7, <1>8, <2>2, <2>3, <2>4 DEF Member, Ordered
    <2> QED BY <2>1, <2>5 DEF ClientInv
  <1>10. ASSUME NEW d \in Clients, d # c PROVE ClientInv(d)'
    <2>1. Top(d)' = Top(d) /\ Top(d) \in Int
      BY <1>1, <1>2, <1>10, TopType DEF Top, Recorded
    <2>2. ClientInv(d) /\ joined[d] \in Nat
      BY DEF HubInv, TypeOK
    <2>3. handler[d] = "absent" => d \notin clients' \cup targets'
      BY <1>1, <2>2 DEF ClientInv, Newcomer
    <2> QED BY <1>1, <1>7, <1>10, <2>1, <2>2, <2>3, ClientUnmoved
  <1> QED BY <1>9, <1>10

LEMMA SendBacklogKeeps ==
  ASSUME HubInv, NEW c \in Clients, SendBacklog(c)
  PROVE  \A d \in Clients : ClientInv(d)'
  <1> DEFINE v == Head(backlog[c])
  <1>1. /\ handler[c] = "backlog" /\ backlog[c] # <<>> /\ Queue(c, v)
        /\ backlog' = [backlog EXCEPT ![c] = Tail(@)]
        /\ UNCHANGED <<publisher, published, targets, ring, clients, handler, since, joined>>
    BY DEF SendBacklog, publisherVars, hubVars
  <1>2. TypeOK /\ PublisherInv /\ Member(c)
    BY <1>1 DEF HubInv, ClientInv
  <1>3. /\ since[c] \in Nat /\ joined[c] \in Nat /\ Top(c) \in Nat
        /\ backlog[c] \in Seq(Nat) /\ Len(backlog[c]) \in Nat /\ BacklogEnd(c) \in Int
        /\ since[c] <= BacklogEnd(c) + 1 /\ BacklogEnd(c) <= joined[c] /\ joined[c] <= Top(c)
        /\ Len(queued[c]) \in Nat /\ \A i \in 1 .. Len(queued[c]) : queued[c][i] \in Nat
        /\ \A i \in 1 .. Len(queued[c]) : queued[c][i] \in Reached(c)
    BY <1>2, MemberTypes
  <1>4. /\ Sent(c) \subseteq Reached(c) /\ IsFiniteSet(dropped[c]) /\ Ordered(queued[c], joined[c])
        /\ c \in clients =>
             /\ Sent(c) = Reached(c)
             /\ Len(queued[c]) + Cardinality(dropped[c]) = Top(c) - Len(backlog[c]) + 1 - since[c]
        /\ \A i \in 1 .. Len(backlog[c]) : backlog[c][i] = BacklogEnd(c) + i
        /\ since[c] + Len(backlog[c]) <= joined[c] + 1
    BY <1>2 DEF Member
  <1>5. /\ v = backlog[c][1] /\ v \in Nat /\ Len(backlog[c]) > 0
        /\ Tail(backlog[c]) \in Seq(Nat) /\ Len(Tail(backlog[c])) = Len(backlog[c]) - 1
        /\ \A i \in 1 .. Len(Tail(backlog[c])) : Tail(backlog[c])[i] = backlog[c][i + 1]
    BY <1>1, <1>3, HeadTailProperties, EmptySeq
  <1>6. /\ v = BacklogEnd(c) + 1 /\ v <= joined[c]
    <2>1. 1 \in 1 .. Len(backlog[c]) /\ BacklogEnd(c) = joined[c] - Len(backlog[c])
      BY <1>3, <1>5 DEF BacklogEnd
    <2> HIDE DEF v
    <2> QED BY <1>3, <1>4, <1>5, <2>1
  <1> HIDE DEF v
  <1>7. /\ backlog'[c] = Tail(backlog[c]) /\ BacklogEnd(c)' = v
        /\ \A d \in Clients \ {c} : backlog'[d] = backlog[d]
    <2>1. /\ backlog'[c] = Tail(backlog[c])
          /\ \A d \in Clients \ {c} : backlog'[d] = backlog[d]
      BY <1>1, <1>2 DEF TypeOK
    <2>2. BacklogEnd(c)' = joined[c] - (Len(backlog[c]) - 1)
      BY <1>1, <1>5, <2>1 DEF BacklogEnd
    <2>3. BacklogEnd(c) = joined[c] - Len(backlog[c])
      BY DEF BacklogEnd
    <2> QED BY <1>3, <1>6, <2>1, <2>2, <2>3
  <1>8. /\ v \notin Sent(c)
        /\ \A i \in 1 .. Len(queued[c]) : queued[c][i] > v => v <= joined[c] /\ joined[c] < queued[c][i]
    <2>1. \A r \in Reached(c) : r \in Int /\ (r <= BacklogEnd(c) \/ joined[c] < r)
      BY <1>3 DEF Reached
    <2>2. v \notin Reached(c)
      BY <1>3, <1>6, <2>1
    <2>3. v \notin Sent(c)
      BY <1>4, <2>2
    <2>4. ASSUME NEW i \in 1 .. Len(queued[c]), queued[c][i] > v
          PROVE  joined[c] < queued[c][i]
      <3>1. queued[c][i] \in Reached(c)
        BY <1>3
      <3>2. ~(queued[c][i] <= BacklogEnd(c))
        BY <1>3, <1>6, <2>4
      <3> QED BY <2>1, <3>1, <3>2
    <2> QED BY <1>6, <2>3, <2>4
  <1>9. /\ Sent(c)' = Sent(c) \cup {v}
        /\ IsFiniteSet(dropped'[c])
        /\ Len(queued'[c]) + Cardinality(dropped'[c]) = Len(queued[c]) + Cardinality(dropped[c]) + 1
        /\ Ordered(queued'[c], joined[c])
        /\ \A d \in Clients \ {c} : queued'[d] = queued[d] /\ dropped'[d] = dropped[d]
    BY <1>1, <1>2, <1>4, <1>5, <1>8, QueueSends
  <1>10. Top(c)' = Top(c)
    BY <1>1 DEF Top, Recorded
  <1>11. Reached(c)' = Reached(c) \cup {v}
    <2>1. Reached(c)' = (since[c] .. v) \cup (joined[c] + 1 .. Top(c))
      BY <1>1, <1>7, <1>10 DEF Reached
    <2>2. (since[c] .. v) = (since[c] .. BacklogEnd(c)) \cup {v}
      BY <1>3, <1>5, <1>6
    <2> QED BY <2>1, <2>2 DEF Reached
  <1>12. ClientInv(c)'
    <2>1. \A i \in 1 .. Len(Tail(backlog[c])) : Tail(backlog[c])[i] = v + i
      <3> SUFFICES ASSUME NEW i \in 1 .. Len(Tail(backlog[c])) PROVE Tail(backlog[c])[i] = v + i
        OBVIOUS
      <3>0. Len(Tail(backlog[c])) = Len(backlog[c]) - 1 /\ Len(backlog[c]) \in Nat
        BY <1>3, <1>5
      <3>1. Tail(backlog[c])[i] = backlog[c][i + 1] /\ i + 1 \in 1 .. Len(backlog[c]) /\ i \in Int
        BY <1>5, <3>0
      <3>2. backlog[c][i + 1] = BacklogEnd(c) + (i + 1)
        BY <1>4, <3>1
      <3> QED BY <1>3, <1>6, <3>1, <3>2
    <2>2. since[c] + Len(Tail(backlog[c])) <= joined[c] + 1
      <3>1. since[c] \in Nat /\ joined[c] \in Nat /\ Len(backlog[c]) \in Nat
        BY <1>3
      <3>2. Len(Tail(backlog[c])) = Len(backlog[c]) - 1 /\ since[c] + Len(backlog[c]) <= joined[c] + 1
        BY <1>4, <1>5
      <3> QED BY <3>1, <3>2
    <2>3. c \in clients =>
            Len(queued'[c]) + Cardinality(dropped'[c]) = Top(c) - Len(Tail(backlog[c])) + 1 - since[c]
      <3> SUFFICES ASSUME c \in clients
                   PROVE  Len(queued'[c]) + Cardinality(dropped'[c])
                            = Top(c) - Len(Tail(backlog[c])) + 1 - since[c]
        OBVIOUS
      <3>1. Len(queued'[c]) + Cardinality(dropped'[c]) = (Top(c) - Len(backlog[c]) + 1 - since[c]) + 1
        BY <1>4, <1>9
      <3>2. Top(c) \in Int /\ Len(backlog[c]) \in Int /\ since[c] \in Int
        BY <1>3
      <3>3. \A p, l, s \in Int : (p - l + 1 - s) + 1 = p - (l - 1) + 1 - s
        OBVIOUS
      <3>4. (Top(c) - Len(backlog[c]) + 1 - since[c]) + 1
              = Top(c) - (Len(backlog[c]) - 1) + 1 - since[c]
        BY <3>2, <3>3
      <3> QED BY <1>5, <3>1, <3>4
    <2>4. Member(c)'
      BY <1>1, <1>3, <1>4, <1>7, <1>9, <1>10, <1>11, <2>1, <2>2, <2>3 DEF Member, Ordered
    <2> QED BY <1>1, <2>4 DEF ClientInv
  <1>13. ASSUME NEW d \in Clients, d # c PROVE ClientInv(d)'
    <2>1. Top(d)' = Top(d) /\ Top(d) \in Int
      BY <1>1, <1>2, TopType DEF Top, Recorded
    <2>2. ClientInv(d) /\ joined[d] \in Nat
      BY DEF HubInv, TypeOK
    <2>3. handler[d] = "absent" => d \notin clients' \cup targets'
      BY <1>1, <2>2 DEF ClientInv, Newcomer
    <2> QED BY <1>1, <1>7, <1>9, <1>13, <2>1, <2>2, <2>3, ClientUnmoved
  <1> QED BY <1>12, <1>13

LEMMA RegisterKeeps ==
  ASSUME HubInv, NEW c \in Clients, Register(c)
  PROVE  \A d \in Clients : ClientInv(d)'
  <1>1. /\ handler[c] = "absent" /\ handler' = [handler EXCEPT ![c] = "backlog"]
        /\ backlog' = [backlog EXCEPT ![c] = ring]
        /\ since' = [since EXCEPT ![c] = Recorded - Len(ring) + 1]
        /\ joined' = [joined EXCEPT ![c] = Recorded]
        /\ clients' = clients \cup {c}
        /\ UNCHANGED <<publisher, published, targets, ring, queued, dropped>>
    BY DEF Register, Goto, publisherVars
  <1>2. /\ TypeOK /\ PublisherInv /\ RingIsNewest /\ Recorded \in Nat /\ Len(ring) \in Nat
        /\ Newcomer(c) /\ RingSize \in Nat
    BY <1>1, TopType, LenProperties, ServerAssumption DEF HubInv, ClientInv, TypeOK
  <1>3. /\ handler'[c] = "backlog" /\ backlog'[c] = ring /\ since'[c] = Recorded - Len(ring) + 1
        /\ joined'[c] = Recorded /\ queued'[c] = <<>> /\ dropped'[c] = {}
    BY <1>1, <1>2 DEF TypeOK, Newcomer
  <1>4. Top(c)' = Recorded /\ Recorded' = Recorded
    BY <1>1, <1>2 DEF Top, Recorded, Newcomer
  <1>5. BacklogEnd(c)' = Recorded - Len(ring)
    BY <1>3 DEF BacklogEnd
  <1>6. Reached(c)' = {}
    <2>1. Reached(c)' = ((Recorded - Len(ring) + 1) .. (Recorded - Len(ring))) \cup ((Recorded + 1) .. Recorded)
      BY <1>3, <1>4, <1>5 DEF Reached
    <2> QED BY <1>2, <2>1
  <1>7. Sent(c)' = {} /\ Len(queued'[c]) = 0
    <2>1. Len(queued'[c]) = 0
      BY <1>3
    <2>2. Elements(queued[c])' = {}
      BY <1>3, <2>1 DEF Elements
    <2> QED BY <1>3, <2>1, <2>2 DEF Sent
  <1>8. IsFiniteSet(dropped'[c]) /\ Cardinality(dropped'[c]) = 0
    BY <1>3, FS_EmptySet
  <1>9. \A i \in 1 .. Len(ring) : ring[i] = Recorded - Len(ring) + i
    BY <1>2 DEF RingIsNewest
  <1>10. ClientInv(c)'
    <2>1. since'[c] + Len(backlog'[c]) <= joined'[c] + 1 /\ joined'[c] <= Top(c)'
      BY <1>2, <1>3, <1>4
    <2>2. Len(queued'[c]) + Cardinality(dropped'[c]) = Top(c)' - Len(backlog'[c]) + 1 - since'[c]
      BY <1>2, <1>3, <1>4, <1>7, <1>8
    <2>3. Ordered(queued'[c], joined'[c])
      BY <1>7 DEF Ordered
    <2>4. \A i \in 1 .. Len(backlog'[c]) : backlog'[c][i] = BacklogEnd(c)' + i
      BY <1>3, <1>5, <1>9
    <2>5. Member(c)'
      BY <1>6, <1>7, <1>8, <2>1, <2>2, <2>3, <2>4 DEF Member, Ordered
    <2> QED BY <1>3, <2>5 DEF ClientInv
  <1>11. ASSUME NEW d \in Clients, d # c PROVE ClientInv(d)'
    <2>1. Top(d)' = Top(d) /\ Top(d) \in Int
      BY <1>1, <1>2, TopType DEF Top, Recorded
    <2>2. /\ ClientInv(d) /\ joined[d] \in Nat
          /\ handler'[d] = handler[d] /\ backlog'[d] = backlog[d] /\ since'[d] = since[d]
          /\ joined'[d] = joined[d]
      BY <1>1, <1>2, <1>11 DEF HubInv, TypeOK
    <2>3. handler[d] = "absent" => d \notin clients' \cup targets'
      BY <1>1, <1>11, <2>2 DEF ClientInv, Newcomer
    <2> QED BY <1>1, <1>11, <2>1, <2>2, <2>3, ClientUnmoved
  <1> QED BY <1>10, <1>11

\* The steps that send to nobody.
LEMMA PublisherKeeps ==
  ASSUME HubInv, [Next]_vars, Persist \/ Record \/ PublishReturns
  PROVE  \A d \in Clients : ClientInv(d)'
  <1> SUFFICES ASSUME NEW d \in Clients PROVE ClientInv(d)'
    OBVIOUS
  <1>1. /\ TypeOK /\ PublisherInv /\ PublisherInv' /\ TypeOK' /\ ClientInv(d) /\ joined[d] \in Nat
        /\ published \in Nat
    BY NextTypeOK, NextPublisher DEF HubInv, TypeOK
  <1>2. UNCHANGED <<clients, clientVars>>
    BY DEF Persist, Record, PublishReturns, hubVars
  <1>3. Top(d) \in Int /\ Top(d)' \in Int
    BY <1>1, TopType DEF TypeOK, PublisherInv, Top, Recorded
  <1>4. Top(d) <= Top(d)' /\ (d \in clients' => Top(d)' = Top(d))
    <2>1. CASE Persist
      BY <1>1, <2>1 DEF Persist, Top, Recorded, PublisherInv
    <2>2. CASE Record
      BY <1>1, <2>2 DEF Record, Top, Recorded, PublisherInv
    <2>3. CASE PublishReturns
      BY <1>1, <2>3 DEF PublishReturns, Top, Recorded, PublisherInv
    <2> QED BY <2>1, <2>2, <2>3
  <1>5. handler[d] = "absent" => d \notin clients' \cup targets'
    BY <1>1, <1>2 DEF ClientInv, Newcomer, Persist, Record, PublishReturns
  <1> QED BY <1>1, <1>2, <1>3, <1>4, <1>5, ClientUnmoved DEF clientVars

LEMMA OtherStepsKeep ==
  ASSUME HubInv, NEW c \in Clients,
         \/ FanOutPanics(c) \/ BacklogPanics(c) \/ BacklogSent(c) \/ ReadFails(c)
         \/ PeerLeaves(c) \/ Unregister(c) \/ HandlerCloses(c) \/ WriterStep(c)
  PROVE  \A d \in Clients : ClientInv(d)'
  <1> SUFFICES ASSUME NEW d \in Clients PROVE ClientInv(d)'
    OBVIOUS
  <1>1. /\ TypeOK /\ PublisherInv /\ ClientInv(d) /\ joined[d] \in Nat /\ Top(d) \in Int
    BY TopType DEF HubInv, TypeOK
  <1>2. /\ UNCHANGED <<publisher, published, targets, backlog, since, joined, queued, dropped>>
        /\ clients' \subseteq clients
        /\ handler'[d] = "absent" <=> handler[d] = "absent"
    <2>1. CASE FanOutPanics(c) \/ WriterStep(c)
      BY <2>1 DEF FanOutPanics, WriterStep, TakeFrame, FrameWritten, WriteFails,
                  WriterReturns, publisherVars, hubVars, clientVars
    <2>2. CASE BacklogPanics(c) \/ BacklogSent(c) \/ ReadFails(c) \/ PeerLeaves(c)
               \/ Unregister(c) \/ HandlerCloses(c)
      BY <1>1, <2>2 DEF BacklogPanics, BacklogSent, ReadFails, PeerLeaves, Unregister,
                        HandlerCloses, Goto, publisherVars, hubVars, TypeOK
    <2> QED BY <2>1, <2>2
  <1>3. Top(d)' = Top(d)
    BY <1>2 DEF Top, Recorded
  <1>4. handler[d] = "absent" => d \notin clients' \cup targets'
    BY <1>1, <1>2 DEF ClientInv, Newcomer
  <1> QED BY <1>1, <1>2, <1>3, <1>4, ClientUnmoved

-----------------------------------------------------------------------------
(* The theorems                                                            *)

LEMMA InitInv == Init => HubInv
  <1> SUFFICES ASSUME Init PROVE HubInv
    OBVIOUS
  <1>1. TypeOK /\ PublisherInv
    BY InitTypeOK DEF Init, PublisherInv
  <1>2. RingIsNewest
    <2>1. Recorded = 0 /\ Len(ring) = 0
      BY DEF Init, Recorded
    <2> QED BY <2>1, ServerAssumption DEF RingIsNewest
  <1>3. \A c \in Clients : ClientInv(c)
    BY DEF Init, ClientInv, Newcomer
  <1> QED BY <1>1, <1>2, <1>3 DEF HubInv

LEMMA NextInv == HubInv /\ [Next]_vars => HubInv'
  <1> SUFFICES ASSUME HubInv, [Next]_vars PROVE HubInv'
    OBVIOUS
  <1>1. TypeOK' /\ PublisherInv' /\ RingIsNewest'
    BY NextTypeOK, NextPublisher, NextRing DEF HubInv
  <1>2. \A d \in Clients : ClientInv(d)'
    <2>1. CASE Persist \/ Record \/ PublishReturns
      BY <2>1, PublisherKeeps
    <2>2. ASSUME NEW c \in Clients, FanOut(c) PROVE \A d \in Clients : ClientInv(d)'
      BY <2>2, FanOutKeeps
    <2>3. ASSUME NEW c \in Clients, Register(c) PROVE \A d \in Clients : ClientInv(d)'
      BY <2>3, RegisterKeeps
    <2>4. ASSUME NEW c \in Clients, SendBacklog(c) PROVE \A d \in Clients : ClientInv(d)'
      BY <2>4, SendBacklogKeeps
    <2>5. ASSUME NEW c \in Clients,
                 \/ FanOutPanics(c) \/ BacklogPanics(c) \/ BacklogSent(c) \/ ReadFails(c)
                 \/ PeerLeaves(c) \/ Unregister(c) \/ HandlerCloses(c) \/ WriterStep(c)
          PROVE  \A d \in Clients : ClientInv(d)'
      BY <2>5, OtherStepsKeep
    <2>6. CASE UNCHANGED vars
      <3>1. ASSUME NEW d \in Clients PROVE ClientInv(d)'
        <4>1. Top(d)' = Top(d) /\ Top(d) \in Int /\ ClientInv(d) /\ joined[d] \in Nat
          BY <2>6, TopType DEF vars, publisherVars, Top, Recorded, HubInv, TypeOK
        <4>2. handler[d] = "absent" => d \notin clients' \cup targets'
          BY <2>6, <4>1 DEF ClientInv, Newcomer, vars, publisherVars, hubVars
        <4> QED BY <2>6, <4>1, <4>2, ClientUnmoved DEF vars, publisherVars, hubVars, clientVars
      <3> QED BY <3>1
    <2> QED
      BY <2>1, <2>2, <2>3, <2>4, <2>5, <2>6 DEF Next, PublishStep, HandlerStep
  <1> QED BY <1>1, <1>2 DEF HubInv

\* What the intervals say of a registered client.
LEMMA RegisteredMissesNone == HubInv => NoneMissed
  <1> SUFFICES ASSUME HubInv, NEW c \in clients
               PROVE  LET live == IF c \in targets THEN {published} ELSE {} IN
                      /\ Elements(queued[c]) \cup dropped[c] \cup Elements(backlog[c]) \cup live
                           = since[c] .. Recorded
                      /\ Len(queued[c]) + Cardinality(dropped[c]) + Len(backlog[c])
                           + Cardinality(live) = Recorded + 1 - since[c]
    BY DEF NoneMissed
  <1> DEFINE live == IF c \in targets THEN {published} ELSE {}
  <1>1. /\ c \in Clients /\ TypeOK /\ PublisherInv /\ Member(c)
        /\ Recorded \in Nat /\ published \in Nat /\ IsFiniteSet(dropped[c])
    BY TopType DEF HubInv, TypeOK, ClientInv, Newcomer, Member
  <1>2. /\ since[c] \in Nat /\ joined[c] \in Nat /\ Top(c) \in Nat /\ BacklogEnd(c) \in Int
        /\ since[c] <= BacklogEnd(c) + 1 /\ BacklogEnd(c) <= joined[c] /\ joined[c] <= Top(c)
        /\ Len(backlog[c]) \in Nat /\ Len(queued[c]) \in Nat
    BY <1>1, MemberTypes
  <1>3. /\ Sent(c) = Reached(c)
        /\ Len(queued[c]) + Cardinality(dropped[c]) = Top(c) - Len(backlog[c]) + 1 - since[c]
        /\ \A i \in 1 .. Len(backlog[c]) : backlog[c][i] = BacklogEnd(c) + i
    BY <1>1 DEF Member
  <1>4. Elements(backlog[c]) = (BacklogEnd(c) + 1) .. joined[c]
    <2>1. joined[c] = BacklogEnd(c) + Len(backlog[c])
      BY <1>2 DEF BacklogEnd
    <2>2. \A x \in (BacklogEnd(c) + 1) .. joined[c] :
            x - BacklogEnd(c) \in 1 .. Len(backlog[c]) /\ BacklogEnd(c) + (x - BacklogEnd(c)) = x
      BY <1>2, <2>1
    <2>3. \A i \in 1 .. Len(backlog[c]) : BacklogEnd(c) + i \in (BacklogEnd(c) + 1) .. joined[c]
      BY <1>2, <2>1
    <2>4. Elements(backlog[c]) \subseteq (BacklogEnd(c) + 1) .. joined[c]
      BY <1>3, <2>3 DEF Elements
    <2>5. ASSUME NEW x \in (BacklogEnd(c) + 1) .. joined[c] PROVE x \in Elements(backlog[c])
      BY <1>3, <2>2 DEF Elements
    <2> QED BY <2>4, <2>5
  <1>5. /\ live = (Top(c) + 1) .. Recorded /\ Cardinality(live) = Recorded - Top(c)
    <2>1. CASE c \in targets
      <3>1. Recorded = published /\ Top(c) = published - 1
        BY <1>1, <2>1 DEF PublisherInv, Recorded, Top
      <3>2. Cardinality(live) = 1
        BY <2>1, FS_Singleton
      <3>3. (Top(c) + 1) .. Recorded = {published}
        BY <1>1, <3>1
      <3> QED BY <1>1, <2>1, <3>1, <3>2, <3>3
    <2>2. CASE c \notin targets
      <3>1. Top(c) = Recorded
        BY <2>2 DEF Top
      <3>2. Cardinality(live) = 0
        BY <2>2, FS_EmptySet
      <3>3. (Recorded + 1) .. Recorded = {}
        BY <1>1
      <3> QED BY <1>1, <2>2, <3>1, <3>2, <3>3
    <2> QED BY <2>1, <2>2
  <1> HIDE DEF live
  <1>6. Top(c) <= Recorded
    BY <1>1, TopType
  <1>7. Elements(queued[c]) \cup dropped[c] \cup Elements(backlog[c]) \cup live = since[c] .. Recorded
    <2>1. Elements(queued[c]) \cup dropped[c]
            = (since[c] .. BacklogEnd(c)) \cup (joined[c] + 1 .. Top(c))
      BY <1>3 DEF Sent, Reached
    <2>2. (since[c] .. BacklogEnd(c)) \cup (joined[c] + 1 .. Top(c))
            \cup ((BacklogEnd(c) + 1) .. joined[c]) \cup ((Top(c) + 1) .. Recorded)
          = since[c] .. Recorded
      BY <1>1, <1>2, <1>6
    <2> QED BY <1>4, <1>5, <2>1, <2>2
  <1>8. Len(queued[c]) + Cardinality(dropped[c]) + Len(backlog[c]) + Cardinality(live)
          = Recorded + 1 - since[c]
    <2>1. \A t, l, s, r \in Int : (t - l + 1 - s) + l + (r - t) = r + 1 - s
      OBVIOUS
    <2>2. Top(c) \in Int /\ Len(backlog[c]) \in Int /\ since[c] \in Int /\ Recorded \in Int
      BY <1>1, <1>2
    <2>3. (Top(c) - Len(backlog[c]) + 1 - since[c]) + Len(backlog[c]) + (Recorded - Top(c))
            = Recorded + 1 - since[c]
      BY <2>1, <2>2
    <2> QED BY <1>3, <1>5, <2>3
  <1> QED BY <1>7, <1>8 DEF live

LEMMA OrderFromMembers == HubInv => OrderKept
  <1> SUFFICES ASSUME HubInv, NEW c \in Clients PROVE Ordered(queued[c], joined[c])
    BY DEF OrderKept, Ordered
  <1>1. CASE handler[c] = "absent"
    BY <1>1 DEF HubInv, ClientInv, Newcomer, Ordered
  <1>2. CASE handler[c] # "absent"
    BY <1>2 DEF HubInv, ClientInv, Member
  <1> QED BY <1>1, <1>2

\* In every behaviour each client has been sent exactly the two intervals: the
\* part of its backlog its handler reached and the live part Publish reached.
THEOREM HubInvariant == SafetySpec => []HubInv
  BY InitInv, NextInv, PTL DEF SafetySpec

\* The hub's variables keep their types, every client's channel its buffer.
THEOREM HubTypeCorrect == SafetySpec => []TypeOK
  <1>1. HubInv => TypeOK
    BY DEF HubInv
  <1> QED BY <1>1, HubInvariant, PTL

\* A fresh browser's snapshot is the newest verdicts, whatever the store did
\* (server.go 44-46, 130-134).
THEOREM RingHoldsRecent == SafetySpec => []RingIsNewest
  <1>1. HubInv => RingIsNewest
    BY DEF HubInv
  <1> QED BY <1>1, HubInvariant, PTL

\* Snapshot and registration in one critical section: no verdict falls between
\* the backlog and the live ones, none is in both (server.go 189-206).
THEOREM RegisteredSeesAll == SafetySpec => []NoneMissed
  BY RegisteredMissesNone, HubInvariant, PTL

\* Two goroutines queue for one client: a live verdict may overtake the
\* backlog, and nothing else is out of order (server.go 139-143, 199-202).
THEOREM QueuedInOrder == SafetySpec => []OrderKept
  BY OrderFromMembers, HubInvariant, PTL
=============================================================================
