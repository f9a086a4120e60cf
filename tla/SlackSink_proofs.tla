-------------------------- MODULE SlackSink_proofs --------------------------
(***************************************************************************)
(* Safety of the Slack notifier for any number of callers, any buffer and  *)
(* any number of alerts.                                                   *)
(***************************************************************************)
EXTENDS SlackSink, TLAPS

\* Where the calls of Close, closeOnce and the sender stand relative to each
\* other.
Shutdown ==
  /\ chClosed <=> once # "new"
  /\ sender = "none" <=> ~enabled
  /\ sender = "done" => chClosed /\ ch = <<>>
  /\ once = "done" => sender = "done"
  /\ \A c \in Callers : enabled /\ caller[c] = "closed" => once = "done"

SinkInv == SinkTypeOK /\ EveryAlertCounted /\ Shutdown

Undelivered == InFlight \o ch

-----------------------------------------------------------------------------
\* What is undelivered, by its length and its elements.
LEMMA UndeliveredIs ==
  ASSUME SinkTypeOK
  PROVE  /\ Undelivered \in Seq(Nat)
         /\ sender # "post" => Undelivered = ch
         /\ sender = "post" =>
              /\ Len(Undelivered) = Len(ch) + 1
              /\ Undelivered[1] = posting
              /\ \A i \in 1 .. Len(ch) : Undelivered[i + 1] = ch[i]
<1>1. CASE sender # "post"
  BY <1>1 DEF SinkTypeOK, Undelivered, InFlight
<1>2. CASE sender = "post"
  <2>1. InFlight = <<posting>>
    BY <1>2 DEF InFlight
  <2>2. /\ <<posting>> \o ch \in Seq(Nat)
        /\ Len(<<posting>> \o ch) = Len(ch) + 1
        /\ (<<posting>> \o ch)[1] = posting
        /\ \A i \in 1 .. Len(ch) : (<<posting>> \o ch)[i + 1] = ch[i]
    BY DEF SinkTypeOK
  <2> QED BY <1>2, <2>1, <2>2 DEF Undelivered
<1> QED BY <1>1, <1>2

\* What is put into the channel is put behind everything undelivered.
LEMMA ConcatAppend ==
  ASSUME NEW s \in Seq(Nat), NEW t \in Seq(Nat), NEW v \in Nat
  PROVE  s \o Append(t, v) = Append(s \o t, v)
<1>1. /\ s \o Append(t, v) \in Seq(Nat)
      /\ Append(s \o t, v) \in Seq(Nat)
  OBVIOUS
<1>2. Len(s \o Append(t, v)) = Len(Append(s \o t, v))
  OBVIOUS
<1>3. ASSUME NEW i \in 1 .. Len(s \o Append(t, v))
      PROVE  (s \o Append(t, v))[i] = Append(s \o t, v)[i]
  <2>1. i \in 1 .. Len(s) + Len(t) + 1
    OBVIOUS
  <2>2. CASE i \in 1 .. Len(s) + Len(t)
    <3>1. Append(s \o t, v)[i] = (s \o t)[i]
      BY <2>2
    <3>2. CASE i \in 1 .. Len(s)
      BY <3>1, <3>2
    <3>3. CASE i \in Len(s) + 1 .. Len(s) + Len(t)
      <4> DEFINE j == i - Len(s)
      <4>1. j \in 1 .. Len(t)
        BY <3>3
      <4>2. (s \o Append(t, v))[i] = Append(t, v)[j] /\ (s \o t)[i] = t[j]
        BY <3>3
      <4> QED BY <3>1, <4>1, <4>2
    <3> QED BY <2>2, <3>2, <3>3
  <2>3. CASE i = Len(s) + Len(t) + 1
    BY <2>3
  <2> QED BY <2>1, <2>2, <2>3
<1> QED BY <1>1, <1>2, <1>3

\* The steps keep the types.
LEMMA TypeStep ==
  ASSUME SinkTypeOK, [SinkNext]_sinkVars
  PROVE  SinkTypeOK'
<1> USE SinkAssumption DEF SinkTypeOK
<1>1. CASE UNCHANGED sinkVars
  BY <1>1 DEF sinkVars, callerVars, counters
<1>2. CASE Receive
  BY <1>2 DEF Receive, callerVars, counters
<1>3. CASE Post
  BY <1>3 DEF Post, callerVars
<1>4. CASE Quit
  BY <1>4 DEF Quit, callerVars, counters
<1>5. ASSUME NEW c \in Callers, Maybe(c)
      PROVE  SinkTypeOK'
  <2>1. CASE Enqueue
    <3>1. Append(ch, offered + 1) \in Seq(Nat) /\ Len(Append(ch, offered + 1)) = Len(ch) + 1
          /\ Append(accepted, offered + 1) \in Seq(Nat)
      OBVIOUS
    <3> QED BY <1>5, <2>1, <3>1 DEF Maybe, Enqueue, callerVars
  <2>2. CASE DropWhenFull \/ DropAfterClose
    BY <1>5, <2>2 DEF Maybe, DropWhenFull, DropAfterClose, callerVars
  <2> QED BY <1>5, <2>1, <2>2 DEF Maybe
<1>6. ASSUME NEW c \in Callers, Close(c)
      PROVE  SinkTypeOK'
  BY <1>6 DEF Close, CloseFirst, CloseAgain, CloseNothing, Goto, CallerStates, counters
<1>7. ASSUME NEW c \in Callers, CloseReturns(c)
      PROVE  SinkTypeOK'
  BY <1>7 DEF CloseReturns, Drained, OnceDone, Goto, CallerStates, counters
<1> QED BY <1>1, <1>2, <1>3, <1>4, <1>5, <1>6, <1>7 DEF SinkNext, SenderStep

-----------------------------------------------------------------------------
LEMMA ShutdownStep ==
  ASSUME SinkTypeOK, Shutdown, [SinkNext]_sinkVars
  PROVE  Shutdown'
<1> USE DEF SinkTypeOK, Shutdown
<1>1. CASE UNCHANGED sinkVars
  BY <1>1 DEF sinkVars, callerVars, counters
<1>2. CASE Receive
  BY <1>2 DEF Receive, callerVars
<1>3. CASE Post
  BY <1>3 DEF Post, callerVars
<1>4. CASE Quit
  BY <1>4 DEF Quit, callerVars
<1>5. ASSUME NEW c \in Callers, Maybe(c)
      PROVE  Shutdown'
  BY <1>5 DEF Maybe, Enqueue, DropWhenFull, DropAfterClose, callerVars
<1>6. ASSUME NEW c \in Callers, Close(c)
      PROVE  Shutdown'
  BY <1>6 DEF Close, CloseFirst, CloseAgain, CloseNothing, Goto, CallerStates
<1>7. ASSUME NEW c \in Callers, CloseReturns(c)
      PROVE  Shutdown'
  BY <1>7 DEF CloseReturns, Drained, OnceDone, Goto, CallerStates
<1> QED BY <1>1, <1>2, <1>3, <1>4, <1>5, <1>6, <1>7 DEF SinkNext, SenderStep

\* q is what follows the first n elements of s.
Follows(q, s, n) ==
  /\ n + Len(q) = Len(s)
  /\ \A i \in 1 .. Len(q) : q[i] = s[n + i]

LEMMA FollowsAppend ==
  ASSUME NEW q \in Seq(Nat), NEW s \in Seq(Nat), NEW n \in Nat, Follows(q, s, n), NEW v \in Nat
  PROVE  Follows(Append(q, v), Append(s, v), n)
<1>1. n + Len(q) = Len(s)
  BY DEF Follows
<1>2. Len(Append(q, v)) = Len(q) + 1 /\ Len(Append(s, v)) = Len(s) + 1
  OBVIOUS
<1>3. ASSUME NEW i \in 1 .. Len(q) + 1
      PROVE  Append(q, v)[i] = Append(s, v)[n + i]
  <2>1. CASE i = Len(q) + 1
    BY <1>1, <2>1
  <2>2. CASE i # Len(q) + 1
    <3>1. i \in 1 .. Len(q) /\ n + i \in 1 .. Len(s)
      BY <1>1, <2>2
    <3>2. Append(q, v)[i] = q[i] /\ Append(s, v)[n + i] = s[n + i]
      BY <3>1
    <3> QED BY <3>1, <3>2 DEF Follows
  <2> QED BY <2>1, <2>2
<1> QED BY <1>1, <1>2, <1>3 DEF Follows

LEMMA FollowsNext ==
  ASSUME NEW q \in Seq(Nat), NEW t \in Seq(Nat), NEW s \in Seq(Nat), NEW n \in Nat,
         Follows(q, s, n),
         Len(q) = Len(t) + 1, \A i \in 1 .. Len(t) : q[i + 1] = t[i]
  PROVE  Follows(t, s, n + 1)
<1>1. n + Len(q) = Len(s)
  BY DEF Follows
<1>2. ASSUME NEW i \in 1 .. Len(t)
      PROVE  t[i] = s[(n + 1) + i]
  <2>1. i + 1 \in 1 .. Len(q) /\ n + (i + 1) = (n + 1) + i
    OBVIOUS
  <2>2. q[i + 1] = s[n + (i + 1)]
    BY <2>1 DEF Follows
  <2> QED BY <2>1, <2>2
<1> QED BY <1>1, <1>2 DEF Follows

LEMMA LedgerIs ==
  EveryAlertCounted <=>
    /\ offered = Len(accepted) + dropped
    /\ sent + failed + Len(Undelivered) = Len(accepted)
    /\ Follows(Undelivered, accepted, sent + failed)
BY DEF EveryAlertCounted, Undelivered, Follows

\* The ledger: what leaves one place enters exactly one other.
LEMMA LedgerStep ==
  ASSUME SinkTypeOK, EveryAlertCounted, [SinkNext]_sinkVars
  PROVE  EveryAlertCounted'
<1>0. SinkTypeOK'
  BY TypeStep
<1>1. /\ offered = Len(accepted) + dropped
      /\ sent + failed + Len(Undelivered) = Len(accepted)
      /\ Follows(Undelivered, accepted, sent + failed)
  BY LedgerIs
<1>2. /\ ch \in Seq(Nat) /\ accepted \in Seq(Nat) /\ posting \in Nat
      /\ sent \in Nat /\ failed \in Nat /\ dropped \in Nat /\ offered \in Nat
      /\ InFlight \in Seq(Nat) /\ Undelivered \in Seq(Nat)
  BY UndeliveredIs DEF SinkTypeOK, InFlight
<1> SUFFICES /\ offered' = Len(accepted') + dropped'
             /\ sent' + failed' + Len(Undelivered') = Len(accepted')
             /\ Follows(Undelivered', accepted', sent' + failed')
  <2>1. (/\ offered = Len(accepted) + dropped
         /\ sent + failed + Len(Undelivered) = Len(accepted)
         /\ Follows(Undelivered, accepted, sent + failed))' => EveryAlertCounted'
    BY LedgerIs, PTL
  <2> QED BY <2>1
<1>3. CASE UNCHANGED <<sender, posting, ch, sent, failed, dropped, offered, accepted>>
  <2>1. UNCHANGED Undelivered
    BY <1>3 DEF Undelivered, InFlight
  <2> QED BY <1>1, <1>3, <2>1
<1>4. CASE Receive
  <2>1. Undelivered' = Undelivered
    <3>1. InFlight = <<>> /\ InFlight' = <<Head(ch)>> /\ ch' = Tail(ch) /\ ch # <<>>
      BY <1>4 DEF Receive, InFlight
    <3>2. <<Head(ch)>> \o Tail(ch) = ch
      BY <1>2, <3>1
    <3>3. <<>> \o ch = ch
      BY <1>2
    <3> QED BY <3>1, <3>2, <3>3 DEF Undelivered
  <2> QED BY <1>1, <1>4, <2>1 DEF Receive, counters
<1>5. CASE Post
  <2>1. /\ sender = "post" /\ sender' = "receive" /\ ch' = ch
        /\ sent' + failed' = (sent + failed) + 1
        /\ UNCHANGED <<dropped, offered, accepted>>
    BY <1>2, <1>5 DEF Post
  <2>2. Undelivered' = ch
    BY <1>2, <2>1 DEF Undelivered, InFlight
  <2>3. /\ Len(Undelivered) = Len(ch) + 1
        /\ \A i \in 1 .. Len(ch) : Undelivered[i + 1] = ch[i]
    BY <2>1, UndeliveredIs
  <2>4. Follows(ch, accepted, (sent + failed) + 1)
    <3>1. sent + failed \in Nat
      BY <1>2
    <3> QED BY <1>1, <1>2, <2>3, <3>1, FollowsNext, Zenon
  <2> QED BY <1>1, <1>2, <2>1, <2>2, <2>3, <2>4
<1>6. ASSUME NEW c \in Callers, Maybe(c)
      PROVE  /\ offered' = Len(accepted') + dropped'
             /\ sent' + failed' + Len(Undelivered') = Len(accepted')
             /\ Follows(Undelivered', accepted', sent' + failed')
  <2>1. UNCHANGED <<sender, posting, sent, failed>> /\ offered' = offered + 1
    BY <1>6 DEF Maybe
  <2>2. CASE Enqueue
    <3>1. ch' = Append(ch, offered + 1) /\ accepted' = Append(accepted, offered + 1)
          /\ dropped' = dropped
      BY <2>2 DEF Enqueue
    <3>2. Undelivered' = Append(Undelivered, offered + 1)
      <4>1. InFlight' = InFlight
        BY <2>1 DEF InFlight
      <4>2. InFlight \o Append(ch, offered + 1) = Append(InFlight \o ch, offered + 1)
        BY <1>2, ConcatAppend
      <4> QED BY <3>1, <4>1, <4>2 DEF Undelivered
    <3>3. Follows(Undelivered', accepted', sent' + failed')
      BY <1>1, <1>2, <2>1, <3>1, <3>2, FollowsAppend
    <3> QED BY <1>1, <1>2, <2>1, <3>1, <3>2, <3>3
  <2>3. CASE DropWhenFull \/ DropAfterClose
    <3>1. UNCHANGED <<ch, accepted>> /\ dropped' = dropped + 1
      BY <2>3 DEF DropWhenFull, DropAfterClose
    <3>2. UNCHANGED Undelivered
      BY <2>1, <3>1 DEF Undelivered, InFlight
    <3> QED BY <1>1, <1>2, <2>1, <3>1, <3>2
  <2> QED BY <1>6, <2>2, <2>3 DEF Maybe
<1>7. ASSUME NEW c \in Callers, Close(c) \/ CloseReturns(c)
      PROVE  UNCHANGED <<sender, posting, ch, sent, failed, dropped, offered, accepted>>
  BY <1>7 DEF Close, CloseFirst, CloseAgain, CloseNothing, CloseReturns, Drained, OnceDone, counters
<1>8. CASE Quit
  <2>1. UNCHANGED Undelivered
    BY <1>8 DEF Quit, Undelivered, InFlight
  <2> QED BY <1>1, <1>8, <2>1 DEF Quit, counters
<1>9. CASE UNCHANGED sinkVars
  BY <1>3, <1>9 DEF sinkVars, counters
<1> QED BY <1>3, <1>4, <1>5, <1>6, <1>7, <1>8, <1>9 DEF SinkNext, SenderStep

-----------------------------------------------------------------------------
\* The invariant.
THEOREM SinkInvariant == SinkSafetySpec => []SinkInv
<1>1. SinkInit => SinkInv
  <2> SUFFICES ASSUME SinkInit PROVE SinkInv
    OBVIOUS
  <2>1. SinkTypeOK
    <3>1. ch \in Seq(Nat) /\ Len(ch) <= BufferSize /\ accepted \in Seq(Nat)
      BY SinkAssumption DEF SinkInit
    <3>2. caller \in [Callers -> CallerStates]
      BY DEF SinkInit, CallerStates
    <3> QED BY <3>1, <3>2 DEF SinkInit, SinkTypeOK
  <2>2. InFlight \o ch = <<>>
    BY DEF SinkInit, InFlight
  <2>3. EveryAlertCounted
    BY <2>2 DEF SinkInit, EveryAlertCounted
  <2>4. Shutdown
    BY DEF SinkInit, Shutdown
  <2> QED BY <2>1, <2>3, <2>4 DEF SinkInv
<1>2. SinkInv /\ [SinkNext]_sinkVars => SinkInv'
  BY TypeStep, ShutdownStep, LedgerStep DEF SinkInv
<1> QED BY <1>1, <1>2, PTL DEF SinkSafetySpec

\* The variables keep their types, and the channel stays within its buffer
\* (slack.go 62, 90-96).
THEOREM SinkTypeCorrect == SinkSafetySpec => []SinkTypeOK
<1>1. SinkInv => SinkTypeOK
  BY DEF SinkInv
<1> QED BY <1>1, SinkInvariant, PTL

\* Each alert is counted exactly once, whenever Close comes (slack.go 74-128).
THEOREM AlertsCounted == SinkSafetySpec => []EveryAlertCounted
<1>1. SinkInv => EveryAlertCounted
  BY DEF SinkInv
<1> QED BY <1>1, SinkInvariant, PTL

\* When any Close has returned, everything accepted was delivered or failed
\* (slack.go 130-140).
THEOREM CloseDrains == SinkSafetySpec => []ClosedMeansDrained
<1>1. ASSUME SinkInv PROVE ClosedMeansDrained
  <2> SUFFICES ASSUME NEW c \in Callers, enabled, caller[c] = "closed"
               PROVE  sender = "done" /\ sent + failed = Len(accepted)
    BY DEF ClosedMeansDrained
  <2>1. sender = "done" /\ ch = <<>>
    BY <1>1 DEF SinkInv, Shutdown
  <2>2. InFlight \o ch = <<>>
    BY <2>1 DEF InFlight
  <2> QED BY <1>1, <2>1, <2>2 DEF SinkInv, SinkTypeOK, EveryAlertCounted
<1> QED BY <1>1, SinkInvariant, PTL

\* Stats read after a Close are final (slack.go 142-145, cmd/report/main.go
\* 120-134).
THEOREM StatsFinal == SinkSafetySpec => DeliveryFinal
<1>1. ASSUME SinkInv, [SinkNext]_sinkVars, \E c \in Callers : caller[c] = "closed"
      PROVE  UNCHANGED <<sent, failed>>
  <2>1. sender \in {"none", "done"}
    BY <1>1 DEF SinkInv, SinkTypeOK, Shutdown
  <2> QED BY <1>1, <2>1 DEF SinkNext, sinkVars, counters, SenderStep, Receive, Post, Quit, Maybe,
                 Close, CloseFirst, CloseAgain, CloseNothing, CloseReturns, Drained, OnceDone
<1>2. SinkInv /\ [SinkNext]_sinkVars =>
        [(\E c \in Callers : caller[c] = "closed") => UNCHANGED <<sent, failed>>]_sinkVars
  BY <1>1
<1> QED BY <1>2, SinkInvariant, PTL DEF SinkSafetySpec, DeliveryFinal
=============================================================================
