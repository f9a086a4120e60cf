--------------------------- MODULE Scorer_proofs ---------------------------
(***************************************************************************)
(* Theorems about the scorer process.                                      *)
(*                                                                         *)
(* The process is its queue, its pool and the plumbing around them: every  *)
(* step is a step of each part or leaves the part alone, so what is proved *)
(* of the parts holds here.  What is left is the way of a sequence number  *)
(* from Pop over a worker, the results channel and the pending map to      *)
(* stdout (Flow), the counters (Counted) and who has gone (Standing).      *)
(***************************************************************************)
EXTENDS Scorer, SequenceTheorems, FiniteSetTheorems, TLAPS

\* The theorems about the parts.
QP == INSTANCE PendingQueue_proofs WITH MaxPushes <- MaxLines
PP == INSTANCE ScorerPool_proofs WITH MaxCalls <- MaxLines

LEMMA QueueAssumptions ==
  QP!CapacityAssumption /\ QP!WorkersAssumption /\ QP!MaxPushesAssumption
  <1>1. QP!CapacityAssumption
    BY CapacityAssumption DEF QP!CapacityAssumption
  <1>2. QP!WorkersAssumption
    BY WorkersAssumption DEF QP!WorkersAssumption, IsFiniteSet, QP!IsFiniteSet
  <1>3. QP!MaxPushesAssumption
    BY MaxLinesAssumption DEF QP!MaxPushesAssumption
  <1> QED BY <1>1, <1>2, <1>3

LEMMA PoolAssumptions == PP!PoolAssumption
  BY PoolAssumption, MaxLinesAssumption DEF PP!PoolAssumption, PP!Risks, PP!Nobody

\* The parts of the state that the parts own.
LEMMA QueueVars == UNCHANGED queueVars => UNCHANGED QP!vars
  BY DEF queueVars, QP!vars

LEMMA PoolVars == UNCHANGED poolVars => UNCHANGED PP!poolVars
  BY DEF poolVars, PP!poolVars, PP!counters, PP!history

\* Scorer's instance of the queue is the one the theorems are about.
LEMMA QueueOps ==
  /\ Q!Push => QP!Push
  /\ Q!Signal => QP!Signal
  /\ Q!Close => QP!Close
  /\ Q!Broadcast => QP!Broadcast
  /\ \A w \in Workers : /\ Q!Take(w) => QP!Take(w)
                        /\ Q!Wait(w) => QP!Wait(w)
                        /\ Q!Exit(w) => QP!Exit(w)
                        /\ Q!Return(w) => QP!Return(w)
  <1>1. Q!Push => QP!Push
    BY DEF Q!Push, Q!PushWithRoom, Q!PushOverflow, Q!Place, Q!Slot,
           QP!Push, QP!PushWithRoom, QP!PushOverflow, QP!Place, QP!Slot
  <1>2. /\ Q!Signal => QP!Signal
        /\ Q!Close => QP!Close
        /\ Q!Broadcast => QP!Broadcast
    BY DEF Q!Signal, Q!Close, Q!Broadcast, Q!In, Q!ring,
           QP!Signal, QP!Close, QP!Broadcast, QP!In, QP!ring
  <1>3. ASSUME NEW w \in Workers
        PROVE  /\ Q!Take(w) => QP!Take(w)
               /\ Q!Wait(w) => QP!Wait(w)
               /\ Q!Exit(w) => QP!Exit(w)
               /\ Q!Return(w) => QP!Return(w)
    BY DEF Q!Take, Q!Wait, Q!Exit, Q!Return, Q!ring, Q!Release, Q!Slot, Q!ZeroEvent,
           QP!Take, QP!Wait, QP!Exit, QP!Return, QP!ring, QP!Release, QP!Slot, QP!ZeroEvent
  <1> QED BY <1>1, <1>2, <1>3

LEMMA PoolOps ==
  ASSUME NEW w \in Workers
  PROVE  /\ \A c : P!Prefilter(w, c) => PP!Call(w)
         /\ \A c : P!Enter(w, c) => PP!Call(w)
         /\ P!Resolve(w) => PP!Resolve(w)
         /\ P!Leave(w) => PP!Leave(w)
  <1>1. ASSUME NEW c, P!Prefilter(w, c)
        PROVE  PP!Call(w)
    <2>1. c \in Commands
      BY <1>1, PoolAssumption DEF P!Prefilter
    <2>2. PP!Prefilter(w, c)
      BY <1>1 DEF P!Prefilter, P!Goto, P!Yield, PP!Prefilter, PP!Goto, PP!Yield
    <2> QED BY <2>1, <2>2 DEF PP!Call
  <1>2. ASSUME NEW c, P!Enter(w, c)
        PROVE  PP!Call(w)
    <2>1. c \in Commands
      BY <1>2 DEF P!Enter
    <2>2. PP!Enter(w, c)
      BY <1>2 DEF P!Enter, P!Goto, P!counters, PP!Enter, PP!Goto, PP!counters
    <2> QED BY <2>1, <2>2 DEF PP!Call
  <1>3. P!Leave(w) => PP!Leave(w)
    BY DEF P!Leave, P!Goto, P!NoResult, P!Nobody, P!counters, P!history,
           PP!Leave, PP!Goto, PP!NoResult, PP!Nobody, PP!counters, PP!history
  <1>4. P!Hit(w) \/ P!Park(w) \/ P!Claim(w) \/ P!Wake(w) => PP!Resolve(w)
    BY DEF P!Hit, P!Park, P!Claim, P!Wake, P!Woken, P!Goto, P!Yield, P!Nobody, P!Cached, P!Get,
           P!counters, P!history,
           PP!Hit, PP!Park, PP!Claim, PP!Wake, PP!Woken, PP!Goto, PP!Yield, PP!Nobody,
           PP!Cached, PP!Get, PP!counters, PP!history, PP!Resolve
  <1>5. P!Score(w) => PP!Resolve(w)
    BY DEF P!Score, P!ScoreOK, P!ScoreError, P!ApplyFloor, P!Risks, P!Goto, P!Yield,
           P!counters, P!history,
           PP!Score, PP!ScoreOK, PP!ScoreError, PP!ApplyFloor, PP!Risks, PP!Goto, PP!Yield,
           PP!counters, PP!history, PP!Resolve
  <1>6. P!Publish(w) => PP!Resolve(w)
    <2>1. /\ \A c : P!Evicted(cache, CacheSize, c) = PP!Evicted(cache, CacheSize, c)
          /\ \A c, r : P!Put(cache, CacheSize, c, r) = PP!Put(cache, CacheSize, c, r)
      BY DEF P!Evicted, P!Put, P!Cached, P!Insert, P!Overwrite, P!EvictOldest,
             PP!Evicted, PP!Put, PP!Cached, PP!Insert, PP!Overwrite, PP!EvictOldest
    <2>2. P!Publish(w) => PP!Publish(w)
      BY <2>1 DEF P!Publish, P!Goto, P!Nobody, P!counters,
                  PP!Publish, PP!Goto, PP!Nobody, PP!counters
    <2> QED BY <2>2 DEF PP!Resolve
  <1> QED BY <1>1, <1>2, <1>3, <1>4, <1>5, <1>6 DEF P!Resolve

LEMMA InitParts == Init => QP!Init /\ PP!PoolInit
  BY DEF Init, Q!Init, Q!Slots, Q!ZeroEvent, QP!Init, QP!Slots, QP!ZeroEvent,
         P!PoolInit, P!EmptyCache, P!Nobody, P!NoResult,
         PP!PoolInit, PP!EmptyCache, PP!Nobody, PP!NoResult

\* What a step of the process is to the queue and to the pool.
LEMMA NextParts ==
  [Next]_vars => [QP!Next]_(QP!vars) /\ [PP!PoolNext]_(PP!poolVars)
  <1> SUFFICES ASSUME [Next]_vars PROVE [QP!Next]_(QP!vars) /\ [PP!PoolNext]_(PP!poolVars)
    OBVIOUS
  <1> USE DEF writerVars, lineVars
  <1>1. CASE UNCHANGED vars
    BY <1>1, QueueVars, PoolVars DEF vars
  <1>2. CASE \/ SkipMalformed \/ SkipNonExec \/ SkipEmpty
             \/ AfterPush \/ StdinEnds \/ Cancel \/ CloseResults \/ Finish
             \/ Receive \/ WriteDue \/ FlushEnds \/ WriterEnds
    BY <1>2, QueueVars, PoolVars
       DEF SkipMalformed, SkipNonExec, SkipEmpty, AfterPush, StdinEnds, Cancel, CloseResults,
           Finish, Receive, WriteDue, FlushEnds, WriterEnds
  <1>3. CASE \/ \E c \in Commands : PushExec(c)
             \/ Signal \/ CloseQueue \/ Broadcast
    <2>1. UNCHANGED poolVars
      BY <1>3 DEF PushExec, Signal, CloseQueue, Broadcast
    <2>2. Q!Push \/ Q!Signal \/ Q!Close \/ Q!Broadcast
      BY <1>3 DEF PushExec, Signal, CloseQueue, Broadcast
    <2>3. QP!Next
      BY <2>2, QueueOps DEF QP!Next
    <2> QED BY <2>1, <2>3, PoolVars
  <1>4. ASSUME NEW w \in Workers, Pop(w)
        PROVE  QP!Next /\ UNCHANGED PP!poolVars
    <2>1. UNCHANGED poolVars
      BY <1>4 DEF Pop
    <2>2. Q!Take(w) \/ Q!Wait(w) \/ Q!Exit(w)
      BY <1>4 DEF Pop
    <2>3. QP!WorkerStep(w)
      BY <2>2, QueueOps DEF QP!WorkerStep
    <2> QED BY <2>1, <2>3, PoolVars DEF QP!Next
  <1>5. ASSUME NEW w \in Workers, CallResolve(w) \/ Resolve(w)
        PROVE  PP!PoolNext /\ UNCHANGED QP!vars
    <2>1. UNCHANGED queueVars
      BY <1>5 DEF CallResolve, Resolve
    <2>2. \/ \E c : P!Prefilter(w, c) \/ P!Enter(w, c)
          \/ P!Resolve(w)
      BY <1>5 DEF CallResolve, Resolve
    <2>3. PP!Call(w) \/ PP!Resolve(w)
      BY <2>2, PoolOps
    <2> QED BY <2>1, <2>3, QueueVars DEF PP!PoolNext
  <1>6. ASSUME NEW w \in Workers, Send(w)
        PROVE  QP!Next /\ PP!PoolNext
    <2>1. QP!WorkerStep(w) /\ PP!Leave(w)
      BY <1>6, QueueOps, PoolOps DEF Send, QP!WorkerStep
    <2> QED BY <2>1 DEF QP!Next, PP!PoolNext
  <1> QED
    BY <1>1, <1>2, <1>3, <1>4, <1>5, <1>6
       DEF Next, ReadLine, MainStep, WorkerStep, WriterStep

-----------------------------------------------------------------------------
(* What the parts bring.                                                   *)

\* In Scorer's own terms.
QueueOK ==
  Q!TypeOK /\ Q!Accounting /\ Q!HoldsNewest /\ Q!SurvivorsInOrder /\ Q!DrainedBeforeExit

PoolOK ==
  PP!PoolInv /\ PP!Genuine /\ P!PoolTypeOK

LEMMA QueueBrings == QP!RefInv => QueueOK
  BY DEF QP!RefInv, QP!Shutdown, QueueOK,
     Q!TypeOK, Q!Accounting, Q!HoldsNewest, Q!SurvivorsInOrder, Q!DrainedBeforeExit,
     Q!Slots, Q!ReaderStates, Q!WorkerStates, Q!Buffered, Q!Slot, Q!In,
     QP!TypeOK, QP!Accounting, QP!HoldsNewest, QP!SurvivorsInOrder, QP!DrainedBeforeExit,
     QP!Slots, QP!ReaderStates, QP!WorkerStates, QP!Buffered, QP!Slot, QP!In

LEMMA PoolBrings == PP!PoolTypeOK => P!PoolTypeOK
  BY DEF P!PoolTypeOK, P!Stages, P!Results, P!Risks, P!Sources, P!NoResult, P!Nobody,
         PP!PoolTypeOK, PP!Stages, PP!Results, PP!Risks, PP!Sources, PP!NoResult, PP!Nobody

LEMMA QueueHolds == SafetySpec => []QueueOK
  <1>1. SafetySpec => QP!SafetySpec
    BY InitParts, NextParts, PTL DEF SafetySpec, QP!SafetySpec
  <1>2. QP!SafetySpec => []QP!RefInv
    BY QueueAssumptions, QP!RefInvHolds, PTL
  <1> QED BY <1>1, <1>2, QueueBrings, PTL

LEMMA PoolHolds == SafetySpec => []PoolOK
  <1>1. SafetySpec => PP!PoolSafetySpec
    BY InitParts, NextParts, PTL DEF SafetySpec, PP!PoolSafetySpec
  <1>2. PP!PoolSafetySpec => []PP!PoolInv /\ []PP!PoolTypeOK
    BY PoolAssumptions, PP!PoolInvHolds, PP!PoolTypeCorrect, PTL
  <1>3. PP!PoolInit => PP!Genuine
    BY DEF PP!PoolInit, PP!Genuine, PP!EmptyCache
  <1>4. PP!PoolInv /\ PP!Genuine /\ [PP!PoolNext]_(PP!poolVars) => PP!Genuine'
    BY PoolAssumptions, PP!NextGenuine
  <1>5. PP!PoolSafetySpec => []PP!Genuine
    BY <1>2, <1>3, <1>4, PTL DEF PP!PoolSafetySpec
  <1> QED BY <1>1, <1>2, <1>5, PoolBrings, PTL DEF PoolOK

-----------------------------------------------------------------------------
(* The invariant of the plumbing.                                          *)

Busy(w) == worker[w] = "busy"

Verdicts == [ev : Nat, risk : P!Risks, source : P!Sources \cup {"none"}]

\* The event that got sequence number s.
Numbered(s) == given[s + 1].ev

OwnTypes ==
  /\ input \in Seq(Commands)
  /\ tagged \in [Workers -> [seq : Nat, ev : Nat]]
  /\ results \in Seq([seq : Nat, verdict : Verdicts])
  /\ Len(results) <= ResultsCap
  /\ \A s \in DOMAIN pending : pending[s] \in Verdicts
  /\ written \in Seq(Verdicts)

\* Where the main goroutine stands against the workers and the writer: the
\* results channel is closed once every worker has left for good, and the
\* writer is done once the closed channel is empty.
Standing ==
  /\ main \in MainStates
  /\ cancelled \in BOOLEAN /\ resultsClosed \in BOOLEAN
  /\ writer \in {"receive", "flush", "done"}
  /\ resultsClosed <=> main \in {"awaiting", "finished"}
  /\ resultsClosed => \A w \in Workers : worker[w] = "exited"
  /\ writer = "done" => resultsClosed /\ results = <<>>
  /\ main = "finished" => writer = "done"
  /\ writer # "flush" => next \notin DOMAIN pending
  /\ \A w \in Workers : stage[w] # "idle" => Busy(w)

\* The writer has written the events numbered below `next', in order.
Output ==
  /\ next \in 0 .. seq
  /\ Len(written) = next
  /\ \A i \in 1 .. next : written[i].ev = Numbered(i - 1)

\* Each number from `next' on is in exactly one place, and the event that
\* travels with it is the one that was popped with it.
Flow ==
  /\ \A w \in Workers : Busy(w) =>
       /\ tagged[w].seq \in next .. seq - 1
       /\ tagged[w].ev = Numbered(tagged[w].seq)
  /\ \A i \in 1 .. Len(results) :
       /\ results[i].seq \in next .. seq - 1
       /\ results[i].verdict.ev = Numbered(results[i].seq)
  /\ \A s \in DOMAIN pending :
       /\ s \in next .. seq - 1
       /\ pending[s].ev = Numbered(s)

OnePlace ==
  /\ \A v, w \in Workers : Busy(v) /\ Busy(w) /\ v # w => tagged[v].seq # tagged[w].seq
  /\ \A i, j \in 1 .. Len(results) : i # j => results[i].seq # results[j].seq
  /\ \A w \in Workers : Busy(w) =>
       /\ tagged[w].seq \notin DOMAIN pending
       /\ \A i \in 1 .. Len(results) : results[i].seq # tagged[w].seq
  /\ \A i \in 1 .. Len(results) : results[i].seq \notin DOMAIN pending

SomePlace ==
  \A s \in next .. seq - 1 :
    \/ \E w \in Workers : Busy(w) /\ tagged[w].seq = s
    \/ \E i \in 1 .. Len(results) : results[i].seq = s
    \/ s \in DOMAIN pending

\* The workers that hold an event no counter has counted yet.
Unresolved == {w \in Workers : Busy(w) /\ stage[w] # "resolved"}

Counted ==
  /\ read \in Nat /\ nonExec \in Nat /\ emptyCmd \in Nat /\ malformed \in Nat
  /\ read = malformed + nonExec + emptyCmd + pushed
  /\ seq = prefiltered + hits + scored + Cardinality(Unresolved)

ProcessInv ==
  /\ OwnTypes /\ Standing /\ Counted
  /\ Output /\ Flow /\ OnePlace /\ SomePlace

-----------------------------------------------------------------------------
(* The way of a sequence number.                                           *)

OnItsWay == Output /\ Flow /\ OnePlace /\ SomePlace

\* The step moves no number: the same workers are busy, with the same events.
Unmoved ==
  /\ UNCHANGED <<tagged, results, pending, next, written, seq, given>>
  /\ \A w \in Workers : worker'[w] = "busy" <=> Busy(w)

\* The step of Pop that hands out a number.
PopTakes(w) ==
  /\ Q!Take(w)
  /\ tagged' = [tagged EXCEPT ![w] = [seq |-> seq, ev |-> buf[head]]]
  /\ UNCHANGED <<results, pending, next, written>>

\* Only these four steps move a number.
LEMMA PathSteps ==
  QueueOK /\ [Next]_vars =>
    \/ Unmoved
    \/ \E w \in Workers : PopTakes(w) \/ Send(w)
    \/ Receive \/ WriteDue
  <1> SUFFICES ASSUME QueueOK, [Next]_vars
               PROVE  \/ Unmoved
                      \/ \E w \in Workers : PopTakes(w) \/ Send(w)
                      \/ Receive \/ WriteDue
    OBVIOUS
  <1>0. worker \in [Workers -> Q!WorkerStates]
    BY DEF QueueOK, Q!TypeOK
  <1> USE DEF writerVars, lineVars, queueVars
  <1>1. CASE UNCHANGED vars
    BY <1>1 DEF vars, Unmoved, Busy
  <1>2. CASE \/ SkipMalformed \/ SkipNonExec \/ SkipEmpty
             \/ AfterPush \/ StdinEnds \/ Cancel \/ CloseResults \/ Finish
             \/ FlushEnds \/ WriterEnds
    BY <1>2 DEF SkipMalformed, SkipNonExec, SkipEmpty, AfterPush, StdinEnds, Cancel,
                CloseResults, Finish, FlushEnds, WriterEnds, Unmoved, Busy
  <1>3. CASE (\E c \in Commands : PushExec(c)) \/ CloseQueue
    <2>1. UNCHANGED <<tagged, results, pending, next, written>>
      BY <1>3 DEF PushExec, CloseQueue
    <2>2. UNCHANGED <<seq, given, worker>>
      BY <1>3 DEF PushExec, CloseQueue, Q!Push, Q!PushWithRoom, Q!PushOverflow, Q!Close
    <2> QED BY <2>1, <2>2 DEF Unmoved, Busy
  <1>4. CASE Signal \/ Broadcast
    <2>1. UNCHANGED <<tagged, results, pending, next, written>>
      BY <1>4 DEF Signal, Broadcast
    <2>2. UNCHANGED <<seq, given>>
      BY <1>4 DEF Signal, Broadcast, Q!Signal, Q!Broadcast
    <2>3. \A w \in Workers : worker'[w] = "busy" <=> worker[w] = "busy"
      BY <1>0, <1>4 DEF Signal, Broadcast, Q!Signal, Q!Broadcast, Q!In, Q!WorkerStates
    <2> QED BY <2>1, <2>2, <2>3 DEF Unmoved, Busy
  <1>5. ASSUME NEW w \in Workers, Pop(w)
        PROVE  Unmoved \/ PopTakes(w)
    <2>1. CASE Q!Take(w) /\ tagged' = [tagged EXCEPT ![w] = [seq |-> seq, ev |-> buf[head]]]
      BY <1>5, <2>1 DEF Pop, PopTakes
    <2>2. CASE (Q!Wait(w) \/ Q!Exit(w)) /\ UNCHANGED tagged
      <3>1. UNCHANGED <<results, pending, next, written, seq, given>>
        BY <1>5, <2>2 DEF Pop, Q!Wait, Q!Exit
      <3>2. \A v \in Workers : worker'[v] = "busy" <=> worker[v] = "busy"
        BY <1>0, <2>2 DEF Q!Wait, Q!Exit
      <3> QED BY <2>2, <3>1, <3>2 DEF Unmoved, Busy
    <2> QED BY <1>5, <2>1, <2>2 DEF Pop
  <1>6. ASSUME NEW w \in Workers, CallResolve(w) \/ Resolve(w)
        PROVE  Unmoved
    BY <1>6 DEF CallResolve, Resolve, Unmoved, Busy
  <1> QED
    BY <1>1, <1>2, <1>3, <1>4, <1>5, <1>6
       DEF Next, ReadLine, MainStep, WorkerStep, WriterStep

LEMMA UnmovedKeeps == OnItsWay /\ Unmoved => OnItsWay'
  <1> SUFFICES ASSUME OnItsWay, Unmoved PROVE OnItsWay'
    OBVIOUS
  <1>1. /\ tagged' = tagged /\ results' = results /\ pending' = pending /\ next' = next
        /\ written' = written /\ seq' = seq /\ given' = given
        /\ \A w \in Workers : Busy(w)' <=> Busy(w)
    BY DEF Unmoved, Busy
  <1>2. Output'
    BY <1>1 DEF OnItsWay, Output, Numbered
  <1>3. Flow'
    BY <1>1 DEF OnItsWay, Flow, Numbered
  <1>4. OnePlace'
    BY <1>1 DEF OnItsWay, OnePlace
  <1>5. SomePlace'
    BY <1>1 DEF OnItsWay, SomePlace
  <1> QED BY <1>2, <1>3, <1>4, <1>5 DEF OnItsWay

\* What Pop does, number by number.
LEMMA TakeNumbers ==
  ASSUME QueueOK, OwnTypes, NEW w \in Workers, PopTakes(w)
  PROVE  /\ seq \in Nat /\ seq' = seq + 1
         /\ \A s \in 0 .. seq : Numbered(s)' = IF s = seq THEN buf[head] ELSE Numbered(s)
         /\ ~Busy(w)
         /\ \A v \in Workers : Busy(v)' <=> (v = w \/ Busy(v))
         /\ tagged'[w].seq = seq /\ tagged'[w].ev = buf[head]
         /\ \A v \in Workers \ {w} : tagged'[v] = tagged[v]
  <1>1. /\ seq \in Nat /\ given \in Seq([seq : Nat, ev : Nat]) /\ Len(given) = seq
        /\ worker \in [Workers -> Q!WorkerStates]
    BY DEF QueueOK, Q!TypeOK, Q!SurvivorsInOrder
  <1>2. /\ seq' = seq + 1
        /\ given' = Append(given, [seq |-> seq, ev |-> buf[head]])
        /\ worker[w] = "pop" /\ worker' = [worker EXCEPT ![w] = "busy"]
        /\ tagged' = [tagged EXCEPT ![w] = [seq |-> seq, ev |-> buf[head]]]
    BY DEF PopTakes, Q!Take
  <1>3. /\ \A i \in 1 .. seq : given'[i] = given[i]
        /\ given'[seq + 1] = [seq |-> seq, ev |-> buf[head]]
    BY <1>1, <1>2
  <1>4. \A s \in 0 .. seq : Numbered(s)' = IF s = seq THEN buf[head] ELSE Numbered(s)
    <2> SUFFICES ASSUME NEW s \in 0 .. seq
                 PROVE  given'[s + 1].ev = IF s = seq THEN buf[head] ELSE given[s + 1].ev
      BY DEF Numbered
    <2> QED BY <1>1, <1>3
  <1>6. /\ ~Busy(w)
        /\ \A v \in Workers : Busy(v)' <=> (v = w \/ Busy(v))
    BY <1>1, <1>2 DEF Busy
  <1>7. /\ tagged'[w].seq = seq /\ tagged'[w].ev = buf[head]
        /\ \A v \in Workers \ {w} : tagged'[v] = tagged[v]
    BY <1>2 DEF OwnTypes
  <1> QED BY <1>1, <1>2, <1>4, <1>6, <1>7


LEMMA TakeKeeps ==
  ASSUME QueueOK, OwnTypes, OnItsWay, NEW w \in Workers, PopTakes(w)
  PROVE  OnItsWay'
  <1>1. /\ seq \in Nat /\ seq' = seq + 1
        /\ \A s \in 0 .. seq : Numbered(s)' = IF s = seq THEN buf[head] ELSE Numbered(s)
        /\ ~Busy(w)
        /\ \A v \in Workers : Busy(v)' <=> (v = w \/ Busy(v))
        /\ tagged'[w].seq = seq /\ tagged'[w].ev = buf[head]
        /\ \A v \in Workers \ {w} : tagged'[v] = tagged[v]
    BY TakeNumbers
  <1>2. results' = results /\ pending' = pending /\ next' = next /\ written' = written
    BY DEF PopTakes
  <1>3. /\ next \in 0 .. seq /\ Len(written) = next
        /\ \A i \in 1 .. next : written[i].ev = Numbered(i - 1)
    BY DEF OnItsWay, Output
  <1>4. Output'
    <2>1. \A i \in 1 .. next : Numbered(i - 1)' = Numbered(i - 1)
      BY <1>1, <1>3
    <2>2. next \in 0 .. seq + 1
      BY <1>1, <1>3
    <2> QED BY <1>1, <1>2, <1>3, <2>1, <2>2 DEF Output
  <1>5. \A s \in next .. seq - 1 :
          s \in next .. (seq + 1) - 1 /\ given'[s + 1].ev = Numbered(s)
    BY <1>1, <1>3 DEF Numbered
  <1>6. seq \in next .. (seq + 1) - 1 /\ given'[seq + 1].ev = buf[head]
    <2>1. seq \in 0 .. seq /\ seq \in next .. (seq + 1) - 1
      BY <1>1, <1>3
    <2> QED BY <1>1, <2>1 DEF Numbered
  <1>7. Flow'
    <2>1. ASSUME NEW v \in Workers, Busy(v)'
          PROVE  /\ tagged'[v].seq \in next .. (seq + 1) - 1
                 /\ tagged'[v].ev = given'[tagged'[v].seq + 1].ev
      <3>1. CASE v = w
        BY <1>1, <1>6, <3>1
      <3>2. CASE v # w
        <4>1. Busy(v) /\ tagged'[v] = tagged[v]
          BY <1>1, <2>1, <3>2
        <4> QED BY <1>5, <4>1 DEF OnItsWay, Flow
      <3> QED BY <3>1, <3>2
    <2>2. ASSUME NEW i \in 1 .. Len(results)
          PROVE  /\ results[i].seq \in next .. (seq + 1) - 1
                 /\ results[i].verdict.ev = given'[results[i].seq + 1].ev
      BY <1>5 DEF OnItsWay, Flow
    <2>3. ASSUME NEW s \in DOMAIN pending
          PROVE  s \in next .. (seq + 1) - 1 /\ pending[s].ev = given'[s + 1].ev
      BY <1>5 DEF OnItsWay, Flow
    <2> QED BY <1>1, <1>2, <2>1, <2>2, <2>3 DEF Flow, Numbered
  <1>8. \A s \in next .. seq - 1 : s # seq
    BY <1>1, <1>3
  <1>9. OnePlace'
    BY <1>1, <1>2, <1>8 DEF OnItsWay, OnePlace, Flow
  <1>10. SomePlace'
    <2> SUFFICES ASSUME NEW s \in next .. (seq + 1) - 1
                 PROVE  \/ \E v \in Workers : Busy(v)' /\ tagged'[v].seq = s
                        \/ \E i \in 1 .. Len(results) : results[i].seq = s
                        \/ s \in DOMAIN pending
      BY <1>1, <1>2 DEF SomePlace
    <2>1. s \in next .. seq - 1 \/ s = seq
      BY <1>1, <1>3
    <2> QED BY <1>1, <2>1 DEF OnItsWay, SomePlace
  <1> QED BY <1>4, <1>7, <1>9, <1>10 DEF OnItsWay

\* The verdict worker w sends.
Verdict(w) ==
  [seq |-> tagged[w].seq,
   verdict |-> [ev |-> tagged[w].ev, risk |-> result[w].risk, source |-> result[w].source]]

LEMMA SendNumbers ==
  ASSUME QueueOK, OwnTypes, NEW w \in Workers, Send(w)
  PROVE  /\ Busy(w)
         /\ \A v \in Workers : Busy(v)' <=> (v # w /\ Busy(v))
         /\ results' = Append(results, Verdict(w))
         /\ Len(results') = Len(results) + 1
         /\ \A i \in 1 .. Len(results) : results'[i] = results[i]
         /\ results'[Len(results) + 1].seq = tagged[w].seq
         /\ results'[Len(results) + 1].verdict.ev = tagged[w].ev
         /\ UNCHANGED <<tagged, pending, next, written, seq, given>>
  <1>1. worker \in [Workers -> Q!WorkerStates] /\ results \in Seq([seq : Nat, verdict : Verdicts])
    BY DEF QueueOK, Q!TypeOK, OwnTypes
  <1>2. /\ worker[w] = "busy" /\ worker' = [worker EXCEPT ![w] = "pop"]
        /\ UNCHANGED <<tagged, pending, next, written, seq, given>>
    BY DEF Send, Q!Return, writerVars
  <1>3. results' = Append(results, Verdict(w))
    BY DEF Send, Verdict
  <1>4. /\ Len(results') = Len(results) + 1
        /\ \A i \in 1 .. Len(results) : results'[i] = results[i]
        /\ results'[Len(results) + 1] = Verdict(w)
    BY <1>1, <1>3
  <1>5. /\ Busy(w)
        /\ \A v \in Workers : Busy(v)' <=> (v # w /\ Busy(v))
    BY <1>1, <1>2 DEF Busy
  <1> QED BY <1>2, <1>3, <1>4, <1>5 DEF Verdict

LEMMA SendKeeps ==
  ASSUME QueueOK, OwnTypes, OnItsWay, NEW w \in Workers, Send(w)
  PROVE  OnItsWay'
  <1> DEFINE last == Len(results) + 1
  <1>1. /\ Busy(w)
        /\ \A v \in Workers : Busy(v)' <=> (v # w /\ Busy(v))
        /\ Len(results') = last
        /\ \A i \in 1 .. Len(results) : results'[i] = results[i]
        /\ results'[last].seq = tagged[w].seq
        /\ results'[last].verdict.ev = tagged[w].ev
        /\ tagged' = tagged /\ pending' = pending /\ next' = next /\ written' = written
        /\ seq' = seq /\ given' = given
    BY SendNumbers
  <1>2. Len(results) \in Nat /\ \A i \in 1 .. last : i \in 1 .. Len(results) \/ i = last
    BY DEF OwnTypes
  <1>3. \A i \in 1 .. Len(results) : i \in 1 .. last /\ i # last
    BY <1>2
  <1>4. last \in 1 .. last
    BY <1>2
  <1> HIDE DEF last
  <1>5. \A s : Numbered(s)' = Numbered(s)
    BY <1>1 DEF Numbered
  <1>6. Output'
    BY <1>1, <1>5 DEF OnItsWay, Output
  <1>7. Flow'
    <2>1. ASSUME NEW i \in 1 .. last
          PROVE  /\ results'[i].seq \in next .. seq - 1
                 /\ results'[i].verdict.ev = Numbered(results'[i].seq)
      BY <1>1, <1>2 DEF OnItsWay, Flow
    <2> QED BY <1>1, <1>5, <2>1 DEF OnItsWay, Flow
  <1>8. OnePlace'
    <2>1. ASSUME NEW i \in 1 .. last, NEW j \in 1 .. last, i # j
          PROVE  results'[i].seq # results'[j].seq
      BY <1>1, <1>2, <2>1 DEF OnItsWay, OnePlace
    <2>2. ASSUME NEW v \in Workers, v # w, Busy(v), NEW i \in 1 .. last
          PROVE  results'[i].seq # tagged[v].seq
      BY <1>1, <1>2, <2>2 DEF OnItsWay, OnePlace
    <2>3. ASSUME NEW i \in 1 .. last
          PROVE  results'[i].seq \notin DOMAIN pending
      BY <1>1, <1>2 DEF OnItsWay, OnePlace
    <2> QED BY <1>1, <2>1, <2>2, <2>3 DEF OnItsWay, OnePlace
  <1>9. SomePlace'
    <2> SUFFICES ASSUME NEW s \in next .. seq - 1
                 PROVE  \/ \E v \in Workers : Busy(v)' /\ tagged[v].seq = s
                        \/ \E i \in 1 .. last : results'[i].seq = s
                        \/ s \in DOMAIN pending
      BY <1>1 DEF SomePlace
    <2>1. CASE \E v \in Workers : Busy(v) /\ tagged[v].seq = s
      <3>1. PICK v \in Workers : Busy(v) /\ tagged[v].seq = s
        BY <2>1
      <3> QED BY <1>1, <1>4, <3>1
    <2>2. CASE \E i \in 1 .. Len(results) : results[i].seq = s
      BY <1>1, <1>3, <2>2
    <2>3. CASE s \in DOMAIN pending
      BY <2>3
    <2> QED BY <2>1, <2>2, <2>3 DEF OnItsWay, SomePlace
  <1> QED BY <1>6, <1>7, <1>8, <1>9 DEF OnItsWay

LEMMA ReceiveNumbers ==
  ASSUME OwnTypes, Receive
  PROVE  LET first == results[1] IN
         /\ Len(results) \in Nat /\ 1 \in 1 .. Len(results)
         /\ Len(results') = Len(results) - 1
         /\ \A i \in 1 .. Len(results') : results'[i] = results[i + 1]
         /\ DOMAIN pending' = DOMAIN pending \cup {first.seq}
         /\ pending'[first.seq] = first.verdict
         /\ \A s \in DOMAIN pending : s # first.seq => pending'[s] = pending[s]
         /\ UNCHANGED <<tagged, next, written, seq, given, worker>>
  <1> DEFINE first == results[1]
  <1>1. results \in Seq([seq : Nat, verdict : Verdicts]) /\ results # <<>>
    BY DEF OwnTypes, Receive
  <1>2. /\ Len(results) \in Nat /\ 1 \in 1 .. Len(results) /\ Head(results) = results[1]
        /\ Len(Tail(results)) = Len(results) - 1
        /\ \A i \in 1 .. Len(results) - 1 : Tail(results)[i] = results[i + 1]
    BY <1>1
  <1>3. /\ results' = Tail(results)
        /\ pending' = [s \in DOMAIN pending \cup {first.seq} |->
                         IF s = first.seq THEN first.verdict ELSE pending[s]]
        /\ UNCHANGED <<tagged, next, written, seq, given, worker>>
    BY <1>2 DEF Receive, queueVars
  <1> QED BY <1>2, <1>3

LEMMA ReceiveKeeps ==
  ASSUME OwnTypes, OnItsWay, Receive
  PROVE  OnItsWay'
  <1> DEFINE first == results[1]
  <1>1. /\ Len(results) \in Nat /\ 1 \in 1 .. Len(results)
        /\ Len(results') = Len(results) - 1
        /\ \A i \in 1 .. Len(results') : results'[i] = results[i + 1]
        /\ DOMAIN pending' = DOMAIN pending \cup {first.seq}
        /\ pending'[first.seq] = first.verdict
        /\ \A s \in DOMAIN pending : s # first.seq => pending'[s] = pending[s]
        /\ tagged' = tagged /\ next' = next /\ written' = written /\ seq' = seq
        /\ given' = given /\ worker' = worker
    BY ReceiveNumbers
  <1>2. /\ \A i \in 1 .. Len(results') : i + 1 \in 1 .. Len(results) /\ i + 1 # 1
        /\ \A i, j \in 1 .. Len(results') : i # j => i + 1 # j + 1
        /\ \A i \in 1 .. Len(results) : i = 1 \/ \E j \in 1 .. Len(results') : i = j + 1
    <2>1. \A i \in 1 .. Len(results) : i # 1 => i - 1 \in 1 .. Len(results') /\ i = (i - 1) + 1
      BY <1>1
    <2> QED BY <1>1, <2>1
  <1>3. /\ first.seq \in next .. seq - 1
        /\ first.verdict.ev = Numbered(first.seq)
        /\ first.seq \notin DOMAIN pending
    BY <1>1 DEF OnItsWay, Flow, OnePlace
  <1>4. \A w \in Workers : Busy(w) => first.seq # tagged[w].seq
    BY <1>1 DEF OnItsWay, OnePlace
  <1>5. \A i \in 1 .. Len(results') : results'[i].seq # first.seq
    BY <1>1, <1>2 DEF OnItsWay, OnePlace
  <1> HIDE DEF first
  <1>6. /\ \A s : Numbered(s)' = Numbered(s)
        /\ \A w : Busy(w)' <=> Busy(w)
    BY <1>1 DEF Numbered, Busy
  <1>7. Output'
    BY <1>1, <1>6 DEF OnItsWay, Output
  <1>8. Flow'
    <2>1. ASSUME NEW i \in 1 .. Len(results')
          PROVE  /\ results'[i].seq \in next .. seq - 1
                 /\ results'[i].verdict.ev = Numbered(results'[i].seq)
      BY <1>1, <1>2 DEF OnItsWay, Flow
    <2>2. ASSUME NEW s \in DOMAIN pending'
          PROVE  s \in next .. seq - 1 /\ pending'[s].ev = Numbered(s)
      BY <1>1, <1>3 DEF OnItsWay, Flow
    <2> QED BY <1>1, <1>6, <2>1, <2>2 DEF OnItsWay, Flow
  <1>9. OnePlace'
    <2>1. ASSUME NEW i \in 1 .. Len(results'), NEW j \in 1 .. Len(results'), i # j
          PROVE  results'[i].seq # results'[j].seq
      <3>1. i + 1 \in 1 .. Len(results) /\ j + 1 \in 1 .. Len(results) /\ i + 1 # j + 1
        BY <1>2, <2>1
      <3>2. results[i + 1].seq # results[j + 1].seq
        BY <3>1 DEF OnItsWay, OnePlace
      <3> QED BY <1>1, <3>2
    <2>2. ASSUME NEW v \in Workers, Busy(v), NEW i \in 1 .. Len(results')
          PROVE  results'[i].seq # tagged[v].seq
      BY <1>1, <1>2, <2>2 DEF OnItsWay, OnePlace
    <2>3. ASSUME NEW i \in 1 .. Len(results')
          PROVE  results'[i].seq \notin DOMAIN pending'
      BY <1>1, <1>2, <1>5 DEF OnItsWay, OnePlace
    <2>4. \A v \in Workers : Busy(v) => tagged[v].seq \notin DOMAIN pending'
      BY <1>1, <1>4 DEF OnItsWay, OnePlace
    <2> QED BY <1>1, <1>6, <2>1, <2>2, <2>3, <2>4 DEF OnItsWay, OnePlace
  <1>10. SomePlace'
    <2> SUFFICES ASSUME NEW s \in next .. seq - 1
                 PROVE  \/ \E v \in Workers : Busy(v) /\ tagged[v].seq = s
                        \/ \E i \in 1 .. Len(results') : results'[i].seq = s
                        \/ s \in DOMAIN pending'
      BY <1>1, <1>6 DEF SomePlace
    <2>1. ASSUME NEW i \in 1 .. Len(results), results[i].seq = s
          PROVE  \/ \E j \in 1 .. Len(results') : results'[j].seq = s
                 \/ s \in DOMAIN pending'
      BY <1>1, <1>2, <2>1 DEF first
    <2> QED BY <1>1, <2>1 DEF OnItsWay, SomePlace
  <1> QED BY <1>7, <1>8, <1>9, <1>10 DEF OnItsWay

LEMMA WriteKeeps ==
  ASSUME QueueOK, OwnTypes, OnItsWay, WriteDue
  PROVE  OnItsWay'
  <1>1. /\ next \in DOMAIN pending /\ next' = next + 1
        /\ written' = Append(written, pending[next])
        /\ DOMAIN pending' = DOMAIN pending \ {next}
        /\ \A s \in DOMAIN pending' : pending'[s] = pending[s]
        /\ tagged' = tagged /\ results' = results /\ seq' = seq
        /\ given' = given /\ worker' = worker
    BY DEF WriteDue, queueVars
  <1>2. seq \in Nat
    BY DEF QueueOK, Q!TypeOK
  <1>3. next \in next .. seq - 1 /\ pending[next].ev = Numbered(next)
    BY <1>1 DEF OnItsWay, Flow
  <1>4. next \in Nat /\ next + 1 \in 0 .. seq
    BY <1>2, <1>3 DEF OnItsWay, Output
  <1>5. \A s \in next .. seq - 1 : s # next => s \in next + 1 .. seq - 1
    BY <1>2, <1>4
  <1>6. \A s \in next + 1 .. seq - 1 : s \in next .. seq - 1 /\ s # next
    BY <1>2, <1>4
  <1>7. /\ \A s : Numbered(s)' = Numbered(s)
        /\ \A w : Busy(w)' <=> Busy(w)
    BY <1>1 DEF Numbered, Busy
  <1>8. Output'
    <2>1. /\ Len(written') = next + 1
          /\ \A i \in 1 .. next : written'[i] = written[i]
          /\ written'[next + 1] = pending[next]
      BY <1>1 DEF OwnTypes, OnItsWay, Output
    <2>2. ASSUME NEW i \in 1 .. next + 1
          PROVE  written'[i].ev = Numbered(i - 1)
      <3>1. CASE i \in 1 .. next
        BY <2>1, <3>1 DEF OnItsWay, Output
      <3>2. CASE i = next + 1
        BY <1>3, <1>4, <2>1, <3>2
      <3> QED BY <1>4, <3>1, <3>2
    <2> QED BY <1>1, <1>4, <1>7, <2>1, <2>2 DEF Output
  <1>9. Flow'
    <2>1. ASSUME NEW w \in Workers, Busy(w)
          PROVE  /\ tagged[w].seq \in next + 1 .. seq - 1
                 /\ tagged[w].ev = Numbered(tagged[w].seq)
      BY <1>1, <1>5, <2>1 DEF OnItsWay, Flow, OnePlace
    <2>2. ASSUME NEW i \in 1 .. Len(results)
          PROVE  /\ results[i].seq \in next + 1 .. seq - 1
                 /\ results[i].verdict.ev = Numbered(results[i].seq)
      BY <1>1, <1>5 DEF OnItsWay, Flow, OnePlace
    <2>3. ASSUME NEW s \in DOMAIN pending'
          PROVE  s \in next + 1 .. seq - 1 /\ pending'[s].ev = Numbered(s)
      BY <1>1, <1>5 DEF OnItsWay, Flow
    <2> QED BY <1>1, <1>7, <2>1, <2>2, <2>3 DEF Flow
  <1>10. OnePlace'
    BY <1>1, <1>7 DEF OnItsWay, OnePlace
  <1>11. SomePlace'
    <2> SUFFICES ASSUME NEW s \in next + 1 .. seq - 1
                 PROVE  \/ \E v \in Workers : Busy(v) /\ tagged[v].seq = s
                        \/ \E i \in 1 .. Len(results) : results[i].seq = s
                        \/ s \in DOMAIN pending \ {next}
      BY <1>1, <1>7 DEF SomePlace
    <2> QED BY <1>6 DEF OnItsWay, SomePlace
  <1> QED BY <1>8, <1>9, <1>10, <1>11 DEF OnItsWay

LEMMA NextOnItsWay ==
  QueueOK /\ OwnTypes /\ OnItsWay /\ [Next]_vars => OnItsWay'
  BY PathSteps, UnmovedKeeps, TakeKeeps, SendKeeps, ReceiveKeeps, WriteKeeps

-----------------------------------------------------------------------------
(* The types of the plumbing.                                              *)

LEMMA SentVerdict ==
  ASSUME PoolOK, OwnTypes, NEW w \in Workers
  PROVE  Verdict(w) \in [seq : Nat, verdict : Verdicts]
  <1>1. result[w] \in [risk : P!Risks, source : P!Sources] \cup {[risk |-> 0, source |-> "none"]}
    BY DEF PoolOK, P!PoolTypeOK, P!Results, P!NoResult
  <1>2. 0 \in P!Risks
    BY PoolAssumption DEF P!Risks
  <1>3. result[w].risk \in P!Risks /\ result[w].source \in P!Sources \cup {"none"}
    BY <1>1, <1>2
  <1>4. tagged[w].seq \in Nat /\ tagged[w].ev \in Nat
    BY DEF OwnTypes
  <1> QED BY <1>3, <1>4 DEF Verdict, Verdicts

LEMMA NextOwnTypes ==
  QueueOK /\ PoolOK /\ OwnTypes /\ OnItsWay /\ [Next]_vars => OwnTypes'
  <1> SUFFICES ASSUME QueueOK, PoolOK, OwnTypes, OnItsWay, [Next]_vars PROVE OwnTypes'
    OBVIOUS
  <1>1. /\ tagged \in [Workers -> [seq : Nat, ev : Nat]]
        /\ results \in Seq([seq : Nat, verdict : Verdicts]) /\ Len(results) <= ResultsCap
        /\ written \in Seq(Verdicts) /\ \A s \in DOMAIN pending : pending[s] \in Verdicts
    BY DEF OwnTypes
  <1>2. input' \in Seq(Commands)
    <2>1. CASE \E c \in Commands : PushExec(c)
      BY <2>1 DEF PushExec, OwnTypes
    <2>2. CASE ~\E c \in Commands : PushExec(c)
      <3>1. input' = input
        BY <2>2 DEF Next, vars, ReadLine, SkipMalformed, SkipNonExec, SkipEmpty, StdinEnds, Cancel,
             MainStep, Signal, AfterPush, CloseQueue, Broadcast, CloseResults, Finish,
             WorkerStep, Pop, CallResolve, Resolve, Send,
             WriterStep, Receive, WriteDue, FlushEnds, WriterEnds, lineVars
      <3> QED BY <3>1 DEF OwnTypes
    <2> QED BY <2>1, <2>2
  <1>3. CASE Unmoved
    BY <1>1, <1>2, <1>3 DEF Unmoved, OwnTypes
  <1>4. ASSUME NEW w \in Workers, PopTakes(w)
        PROVE  OwnTypes'
    <2>1. seq \in Nat /\ buf[head] \in Nat
      BY DEF QueueOK, Q!TypeOK
    <2>2. /\ tagged' = [tagged EXCEPT ![w] = [seq |-> seq, ev |-> buf[head]]]
          /\ UNCHANGED <<results, pending, written>>
      BY <1>4 DEF PopTakes
    <2>3. tagged' \in [Workers -> [seq : Nat, ev : Nat]]
      BY <1>1, <2>1, <2>2
    <2> QED BY <1>1, <1>2, <2>2, <2>3 DEF OwnTypes
  <1>5. ASSUME NEW w \in Workers, Send(w)
        PROVE  OwnTypes'
    <2>1. /\ results' = Append(results, Verdict(w)) /\ Len(results) < ResultsCap
          /\ UNCHANGED <<tagged, pending, written>>
      BY <1>5 DEF Send, Verdict, writerVars
    <2>2. /\ results' \in Seq([seq : Nat, verdict : Verdicts])
          /\ Len(results') = Len(results) + 1 /\ Len(results) \in Nat
      BY <1>1, <2>1, SentVerdict
    <2>3. Len(results') <= ResultsCap
      BY <2>1, <2>2, ScorerAssumption
    <2> QED BY <1>1, <1>2, <2>1, <2>2, <2>3 DEF OwnTypes
  <1>6. CASE Receive
    <2>1. results # <<>> /\ results' = Tail(results)
      BY <1>6 DEF Receive
    <2>2. results' \in Seq([seq : Nat, verdict : Verdicts]) /\ results[1].verdict \in Verdicts
      <3>1. results' \in Seq([seq : Nat, verdict : Verdicts])
        BY <1>1, <2>1
      <3>2. 1 \in 1 .. Len(results)
        BY <1>6, ReceiveNumbers
      <3>3. results[1] \in [seq : Nat, verdict : Verdicts]
        BY <1>1, <3>2, ElementOfSeq
      <3> QED BY <3>1, <3>3
    <2>3. Len(results') <= ResultsCap
      BY <1>1, <1>6, ReceiveNumbers, ScorerAssumption
    <2>4. \A s \in DOMAIN pending' : pending'[s] \in Verdicts
      BY <1>1, <1>6, <2>2, ReceiveNumbers
    <2> QED BY <1>1, <1>2, <1>6, <2>2, <2>3, <2>4, ReceiveNumbers DEF OwnTypes
  <1>7. CASE WriteDue
    <2>1. /\ written' = Append(written, pending[next]) /\ next \in DOMAIN pending
          /\ pending' = [s \in DOMAIN pending \ {next} |-> pending[s]]
          /\ UNCHANGED <<tagged, results>>
      BY <1>7 DEF WriteDue
    <2> QED BY <1>1, <1>2, <2>1 DEF OwnTypes
  <1> QED BY <1>3, <1>4, <1>5, <1>6, <1>7, PathSteps

-----------------------------------------------------------------------------
(* Where everybody stands.                                                 *)

\* What a step of resolve does to the stages and to the counters.
LEMMA StageMoves ==
  ASSUME PoolOK, NEW w \in Workers, CallResolve(w) \/ Resolve(w)
  PROVE  /\ stage[w] # "resolved"
         /\ stage[w] # "idle" \/ Busy(w)
         /\ \A v \in Workers \ {w} : /\ stage'[v] = "idle" <=> stage[v] = "idle"
                                     /\ stage'[v] = "resolved" <=> stage[v] = "resolved"
         /\ \/ /\ stage'[w] = "resolved"
               /\ prefiltered' + hits' + scored' = (prefiltered + hits + scored) + 1
            \/ stage'[w] # "resolved" /\ UNCHANGED <<prefiltered, hits, scored>>
  <1>1. /\ stage \in [Workers -> P!Stages]
        /\ prefiltered \in Nat /\ hits \in Nat /\ scored \in Nat
    BY DEF PoolOK, P!PoolTypeOK
  <1>2. ASSUME NEW c, P!Prefilter(w, c) PROVE
          /\ stage[w] = "idle" /\ stage' = [stage EXCEPT ![w] = "resolved"]
          /\ prefiltered' = prefiltered + 1 /\ hits' = hits /\ scored' = scored
    BY <1>2 DEF P!Prefilter, P!Goto
  <1>3. ASSUME NEW c, P!Enter(w, c) PROVE
          /\ stage[w] = "idle" /\ stage' = [stage EXCEPT ![w] = "lookup"]
          /\ UNCHANGED <<prefiltered, hits, scored>>
    BY <1>3 DEF P!Enter, P!Goto, P!counters
  <1>4. CASE CallResolve(w)
    <2>1. Busy(w)
      BY <1>4 DEF CallResolve, Busy
    <2>2. PICK c : P!Prefilter(w, c) \/ P!Enter(w, c)
      BY <1>4 DEF CallResolve
    <2>3. CASE P!Prefilter(w, c)
      BY <1>1, <1>2, <2>1, <2>3
    <2>4. CASE P!Enter(w, c)
      BY <1>1, <1>3, <2>1, <2>4
    <2> QED BY <2>2, <2>3, <2>4
  <1>5. CASE P!Hit(w)
    <2>1. /\ stage[w] = "lookup" /\ stage' = [stage EXCEPT ![w] = "resolved"]
          /\ prefiltered' = prefiltered /\ hits' = hits + 1 /\ scored' = scored
      BY <1>5 DEF P!Hit, P!Goto
    <2> QED BY <1>1, <2>1
  <1>6. CASE P!Wake(w)
    <2>1. /\ stage[w] = "wake" /\ stage' = P!Woken(w)
          /\ prefiltered' = prefiltered /\ hits' = hits /\ scored' = scored + 1
      BY <1>6 DEF P!Wake
    <2>2. /\ stage'[w] = "resolved"
          /\ \A v \in Workers \ {w} :
               stage'[v] = stage[v] \/ (stage[v] = "parked" /\ stage'[v] = "lookup")
      BY <1>1, <2>1 DEF P!Woken
    <2> QED BY <1>1, <2>1, <2>2
  <1>7. CASE P!Park(w) \/ P!Claim(w) \/ P!Score(w) \/ P!Publish(w)
    <2>1. /\ stage[w] \in {"lookup", "scoring", "publish"}
          /\ \E s \in {"parked", "scoring", "publish", "wake"} :
               stage' = [stage EXCEPT ![w] = s]
          /\ UNCHANGED <<prefiltered, hits, scored>>
      BY <1>7 DEF P!Park, P!Claim, P!Score, P!ScoreOK, P!ScoreError, P!Publish, P!Goto,
                  P!counters
    <2> QED BY <1>1, <2>1
  <1> QED BY <1>4, <1>5, <1>6, <1>7 DEF Resolve, P!Resolve

\* A worker that has left does not come back, and a queue step touches no
\* busy worker but the one that calls it.
LEMMA ExitedStays ==
  QueueOK /\ [Next]_vars =>
    \A w \in Workers : worker[w] = "exited" => worker'[w] = "exited"
  <1> SUFFICES ASSUME QueueOK, [Next]_vars, NEW w \in Workers, worker[w] = "exited"
               PROVE  worker'[w] = "exited"
    OBVIOUS
  <1>1. worker \in [Workers -> Q!WorkerStates]
    BY DEF QueueOK, Q!TypeOK
  <1>2. CASE UNCHANGED QP!vars
    BY <1>2 DEF QP!vars
  <1>3. CASE QP!Push \/ QP!Close \/ (QP!Terminated /\ UNCHANGED QP!vars)
    BY <1>3 DEF QP!Push, QP!Close, QP!vars
  <1>4. CASE QP!Signal \/ QP!Broadcast
    BY <1>1, <1>4 DEF QP!Signal, QP!Broadcast, QP!In
  <1>5. CASE \E v \in Workers : QP!WorkerStep(v)
    BY <1>1, <1>5 DEF QP!WorkerStep, QP!Take, QP!Wait, QP!Exit, QP!Return
  <1> QED BY <1>2, <1>3, <1>4, <1>5, NextParts DEF QP!Next

\* A worker whose resolve is under way is busy with it.
LEMMA BusyStays ==
  QueueOK /\ PoolOK /\ (\A w \in Workers : stage[w] # "idle" => Busy(w)) /\ [Next]_vars
    => \A w \in Workers : stage'[w] # "idle" => Busy(w)'
  <1> SUFFICES ASSUME QueueOK, PoolOK, \A w \in Workers : stage[w] # "idle" => Busy(w),
                      [Next]_vars
               PROVE  \A w \in Workers : stage'[w] # "idle" => Busy(w)'
    OBVIOUS
  <1>0. worker \in [Workers -> Q!WorkerStates] /\ stage \in [Workers -> P!Stages]
    BY DEF QueueOK, Q!TypeOK, PoolOK, P!PoolTypeOK
  <1>1. CASE UNCHANGED <<stage, worker>>
    BY <1>1 DEF Busy
  <1>2. CASE Signal \/ Broadcast
    <2>1. stage' = stage
      BY <1>2 DEF Signal, Broadcast, poolVars
    <2>2. \A w \in Workers : Busy(w) => Busy(w)'
      BY <1>0, <1>2 DEF Signal, Broadcast, Q!Signal, Q!Broadcast, Q!In, Busy
    <2> QED BY <2>1, <2>2
  <1>3. ASSUME NEW w \in Workers, Pop(w)
        PROVE  \A v \in Workers : stage'[v] # "idle" => Busy(v)'
    <2>1. stage' = stage
      BY <1>3 DEF Pop, poolVars
    <2>2. \A v \in Workers : Busy(v) => Busy(v)'
      BY <1>0, <1>3 DEF Pop, Q!Take, Q!Wait, Q!Exit, Busy
    <2> QED BY <2>1, <2>2
  <1>4. ASSUME NEW w \in Workers, CallResolve(w) \/ Resolve(w)
        PROVE  \A v \in Workers : stage'[v] # "idle" => Busy(v)'
    <2>1. worker' = worker
      BY <1>4 DEF CallResolve, Resolve, queueVars
    <2>2. Busy(w) /\ \A v \in Workers \ {w} : stage'[v] = "idle" <=> stage[v] = "idle"
      BY <1>4, StageMoves
    <2> QED BY <2>1, <2>2 DEF Busy
  <1>5. ASSUME NEW w \in Workers, Send(w)
        PROVE  \A v \in Workers : stage'[v] # "idle" => Busy(v)'
    <2>1. stage' = [stage EXCEPT ![w] = "idle"] /\ worker' = [worker EXCEPT ![w] = "pop"]
      BY <1>5 DEF Send, P!Leave, P!Goto, Q!Return
    <2> QED BY <1>0, <2>1 DEF Busy
  <1>6. CASE \/ UNCHANGED vars
             \/ SkipMalformed \/ SkipNonExec \/ SkipEmpty \/ (\E c \in Commands : PushExec(c))
             \/ AfterPush \/ StdinEnds \/ Cancel \/ CloseQueue \/ CloseResults \/ Finish
             \/ WriterStep
    <2>1. UNCHANGED <<stage, worker>>
      BY <1>6 DEF vars, SkipMalformed, SkipNonExec, SkipEmpty, PushExec, AfterPush, StdinEnds,
           Cancel, CloseQueue, CloseResults, Finish, WriterStep, Receive, WriteDue, FlushEnds,
           WriterEnds, queueVars, poolVars, Q!Push, Q!Close
    <2> QED BY <1>1, <2>1
  <1> QED BY <1>2, <1>3, <1>4, <1>5, <1>6 DEF Next, ReadLine, MainStep, WorkerStep

LEMMA NextStanding ==
  QueueOK /\ PoolOK /\ OwnTypes /\ Standing /\ [Next]_vars => Standing'
  <1> SUFFICES ASSUME QueueOK, PoolOK, OwnTypes, Standing, [Next]_vars PROVE Standing'
    OBVIOUS
  <1>1. /\ \A w \in Workers : worker[w] = "exited" => worker'[w] = "exited"
        /\ \A w \in Workers : stage'[w] # "idle" => Busy(w)'
    BY ExitedStays, BusyStays DEF Standing
  <1> USE DEF writerVars, MainStates
  <1>2. CASE \/ UNCHANGED vars
             \/ SkipMalformed \/ SkipNonExec \/ SkipEmpty
             \/ Signal \/ Broadcast
             \/ \E w \in Workers : Pop(w) \/ CallResolve(w) \/ Resolve(w)
    <2>1. UNCHANGED <<main, cancelled, results, resultsClosed, pending, next, writer>>
      BY <1>2 DEF vars, SkipMalformed, SkipNonExec, SkipEmpty, Signal, Broadcast,
                  Pop, CallResolve, Resolve
    <2> QED BY <1>1, <2>1 DEF Standing
  <1>3. CASE \/ \E c \in Commands : PushExec(c)
             \/ AfterPush \/ StdinEnds \/ Cancel \/ CloseQueue
    <2>1. /\ main \in {"reading", "pushing", "stopped", "draining"}
          /\ main' \in {"reading", "pushing", "stopped", "draining"}
          /\ cancelled' \in BOOLEAN
          /\ UNCHANGED <<results, resultsClosed, pending, next, writer>>
      BY <1>3 DEF Line, PushExec, AfterPush, StdinEnds, Cancel, CloseQueue, Standing
    <2> QED BY <1>1, <2>1 DEF Standing
  <1>4. CASE CloseResults
    <2>1. /\ main = "draining" /\ main' = "awaiting" /\ resultsClosed' = TRUE
          /\ \A w \in Workers : worker[w] = "exited"
          /\ UNCHANGED <<cancelled, results, pending, next, writer>>
      BY <1>4 DEF CloseResults, Q!In
    <2> QED BY <1>1, <2>1 DEF Standing
  <1>5. CASE Finish
    <2>1. /\ main = "awaiting" /\ writer = "done" /\ main' = "finished"
          /\ UNCHANGED <<cancelled, results, resultsClosed, pending, next, writer>>
      BY <1>5 DEF Finish
    <2> QED BY <1>1, <2>1 DEF Standing
  <1>6. ASSUME NEW w \in Workers, Send(w)
        PROVE  Standing'
    <2>1. /\ ~resultsClosed
          /\ UNCHANGED <<main, cancelled, resultsClosed, pending, next, writer>>
      BY <1>6 DEF Send, Standing
    <2> QED BY <1>1, <2>1 DEF Standing
  <1>7. CASE Receive
    <2>1. /\ writer = "receive" /\ writer' = "flush"
          /\ UNCHANGED <<main, cancelled, resultsClosed, next>>
      BY <1>7 DEF Receive
    <2> QED BY <1>1, <2>1 DEF Standing
  <1>8. CASE WriteDue
    <2>1. /\ writer = "flush"
          /\ UNCHANGED <<main, cancelled, resultsClosed, results, writer>>
      BY <1>8 DEF WriteDue
    <2> QED BY <1>1, <2>1 DEF Standing
  <1>9. CASE FlushEnds
    <2>1. /\ writer = "flush" /\ writer' = "receive" /\ next \notin DOMAIN pending
          /\ UNCHANGED <<main, cancelled, resultsClosed, results, pending, next>>
      BY <1>9 DEF FlushEnds
    <2> QED BY <1>1, <2>1 DEF Standing
  <1>10. CASE WriterEnds
    <2>1. /\ writer = "receive" /\ writer' = "done" /\ resultsClosed /\ results = <<>>
          /\ UNCHANGED <<main, cancelled, resultsClosed, results, pending, next>>
      BY <1>10 DEF WriterEnds
    <2> QED BY <1>1, <2>1 DEF Standing
  <1> QED
    BY <1>2, <1>3, <1>4, <1>5, <1>6, <1>7, <1>8, <1>9, <1>10
       DEF Next, ReadLine, MainStep, WorkerStep, WriterStep

-----------------------------------------------------------------------------
(* The counters.                                                           *)

LineCount ==
  /\ read \in Nat /\ nonExec \in Nat /\ emptyCmd \in Nat /\ malformed \in Nat
  /\ read = malformed + nonExec + emptyCmd + pushed

LEMMA NextLineCount == QueueOK /\ LineCount /\ [Next]_vars => LineCount'
  <1> SUFFICES ASSUME QueueOK, LineCount, [Next]_vars PROVE LineCount'
    OBVIOUS
  <1>0. pushed \in Nat
    BY DEF QueueOK, Q!TypeOK
  <1>1. CASE SkipMalformed \/ SkipNonExec \/ SkipEmpty
    BY <1>0, <1>1 DEF SkipMalformed, SkipNonExec, SkipEmpty, Line, queueVars, LineCount
  <1>2. CASE \E c \in Commands : PushExec(c)
    <2>1. read' = read + 1 /\ pushed' = pushed + 1 /\ UNCHANGED <<nonExec, emptyCmd, malformed>>
      BY <1>2 DEF PushExec, Line, Q!Push
    <2> QED BY <1>0, <2>1 DEF LineCount
  <1>3. CASE \/ UNCHANGED vars \/ StdinEnds \/ Cancel \/ MainStep \/ WriterStep
             \/ \E w \in Workers : WorkerStep(w)
    <2>1. UNCHANGED <<read, nonExec, emptyCmd, malformed>>
      BY <1>3 DEF vars, StdinEnds, Cancel, MainStep, WriterStep, WorkerStep,
           Signal, AfterPush, CloseQueue, Broadcast, CloseResults, Finish,
           Pop, CallResolve, Resolve, Send, Receive, WriteDue, FlushEnds, WriterEnds, lineVars
    <2>2. pushed' = pushed
      BY <1>3 DEF vars, StdinEnds, Cancel, MainStep, WriterStep, WorkerStep,
           Signal, AfterPush, CloseQueue, Broadcast, CloseResults, Finish,
           Pop, CallResolve, Resolve, Send, Receive, WriteDue, FlushEnds, WriterEnds, queueVars,
           Q!Signal, Q!Close, Q!Broadcast, Q!Take, Q!Wait, Q!Exit, Q!Return
    <2> QED BY <2>1, <2>2 DEF LineCount
  <1> QED BY <1>1, <1>2, <1>3 DEF Next, ReadLine

VerdictCount == seq = prefiltered + hits + scored + Cardinality(Unresolved)

LEMMA UnresolvedFinite ==
  /\ IsFiniteSet(Unresolved) /\ Cardinality(Unresolved) \in Nat
  /\ \A w : w \notin Unresolved => Cardinality(Unresolved \cup {w}) = Cardinality(Unresolved) + 1
  /\ \A w \in Unresolved : Cardinality(Unresolved \ {w}) = Cardinality(Unresolved) - 1
  <1>1. IsFiniteSet(Unresolved)
    BY WorkersAssumption, FS_Subset DEF Unresolved
  <1> QED BY <1>1, FS_CardinalityType, FS_AddElement, FS_RemoveElement

LEMMA NextVerdictCount ==
  QueueOK /\ PoolOK /\ OwnTypes /\ Standing /\ VerdictCount /\ [Next]_vars => VerdictCount'
  <1> SUFFICES ASSUME QueueOK, PoolOK, OwnTypes, Standing, VerdictCount, [Next]_vars
               PROVE  VerdictCount'
    OBVIOUS
  <1>0. /\ worker \in [Workers -> Q!WorkerStates] /\ stage \in [Workers -> P!Stages]
        /\ seq \in Nat /\ prefiltered \in Nat /\ hits \in Nat /\ scored \in Nat
        /\ \A w \in Workers : stage[w] # "idle" => Busy(w)
    BY DEF QueueOK, Q!TypeOK, PoolOK, P!PoolTypeOK, Standing
  <1>1. ASSUME UNCHANGED <<seq, prefiltered, hits, scored>>, Unresolved' = Unresolved
        PROVE  VerdictCount'
    BY <1>1 DEF VerdictCount
  <1>2. CASE \/ UNCHANGED vars
             \/ SkipMalformed \/ SkipNonExec \/ SkipEmpty \/ (\E c \in Commands : PushExec(c))
             \/ AfterPush \/ StdinEnds \/ Cancel \/ CloseQueue \/ CloseResults \/ Finish
             \/ WriterStep
    <2>1. UNCHANGED <<stage, worker, seq, prefiltered, hits, scored>>
      BY <1>2 DEF vars, SkipMalformed, SkipNonExec, SkipEmpty, PushExec, AfterPush, StdinEnds,
           Cancel, CloseQueue, CloseResults, Finish, WriterStep, Receive, WriteDue, FlushEnds,
           WriterEnds, queueVars, poolVars, Q!Push, Q!PushWithRoom, Q!PushOverflow, Q!Close
    <2> QED BY <1>1, <2>1 DEF Unresolved, Busy
  <1>3. CASE Signal \/ Broadcast
    <2>1. UNCHANGED <<stage, seq, prefiltered, hits, scored>>
      BY <1>3 DEF Signal, Broadcast, poolVars, Q!Signal, Q!Broadcast
    <2>2. \A w \in Workers : Busy(w)' <=> Busy(w)
      BY <1>0, <1>3 DEF Signal, Broadcast, Q!Signal, Q!Broadcast, Q!In, Busy, Q!WorkerStates
    <2> QED BY <1>1, <2>1, <2>2 DEF Unresolved
  <1>4. ASSUME NEW w \in Workers, Pop(w)
        PROVE  VerdictCount'
    <2>1. UNCHANGED <<stage, prefiltered, hits, scored>>
      BY <1>4 DEF Pop, poolVars
    <2>2. CASE Q!Wait(w) \/ Q!Exit(w)
      <3>1. seq' = seq /\ \A v \in Workers : Busy(v)' <=> Busy(v)
        BY <1>0, <2>2 DEF Q!Wait, Q!Exit, Busy
      <3> QED BY <1>1, <2>1, <3>1 DEF Unresolved
    <2>3. CASE Q!Take(w)
      <3>1. /\ seq' = seq + 1 /\ ~Busy(w)
            /\ \A v \in Workers : Busy(v)' <=> (v = w \/ Busy(v))
        BY <1>0, <2>3 DEF Q!Take, Busy
      <3>2. stage[w] # "resolved"
        BY <1>0, <3>1
      <3>3. w \notin Unresolved /\ Unresolved' = Unresolved \cup {w}
        BY <2>1, <3>1, <3>2 DEF Unresolved
      <3>4. /\ Cardinality(Unresolved') = Cardinality(Unresolved) + 1
            /\ Cardinality(Unresolved) \in Nat
        BY <3>3, UnresolvedFinite
      <3> QED BY <1>0, <2>1, <3>1, <3>4 DEF VerdictCount
    <2> QED BY <1>4, <2>2, <2>3 DEF Pop
  <1>5. ASSUME NEW w \in Workers, CallResolve(w) \/ Resolve(w)
        PROVE  VerdictCount'
    <2>1. UNCHANGED <<worker, seq>>
      BY <1>5 DEF CallResolve, Resolve, queueVars
    <2>2. /\ stage[w] # "resolved" /\ Busy(w)
          /\ \A v \in Workers \ {w} : stage'[v] = "resolved" <=> stage[v] = "resolved"
          /\ \/ /\ stage'[w] = "resolved"
                /\ prefiltered' + hits' + scored' = (prefiltered + hits + scored) + 1
             \/ stage'[w] # "resolved" /\ UNCHANGED <<prefiltered, hits, scored>>
      BY <1>0, <1>5, StageMoves
    <2>3. w \in Unresolved
      BY <2>2 DEF Unresolved
    <2>4. CASE stage'[w] = "resolved"
      <3>1. Unresolved' = Unresolved \ {w}
        BY <2>1, <2>2, <2>4 DEF Unresolved, Busy
      <3>2. /\ Cardinality(Unresolved') = Cardinality(Unresolved) - 1
            /\ Cardinality(Unresolved) \in Nat
        BY <2>3, <3>1, UnresolvedFinite
      <3>3. prefiltered' + hits' + scored' = (prefiltered + hits + scored) + 1
        BY <2>2, <2>4
      <3> QED BY <1>0, <2>1, <3>2, <3>3 DEF VerdictCount
    <2>5. CASE stage'[w] # "resolved"
      <3>1. Unresolved' = Unresolved
        BY <2>1, <2>2, <2>5 DEF Unresolved, Busy
      <3> QED BY <1>1, <2>1, <2>2, <2>5, <3>1
    <2> QED BY <2>4, <2>5
  <1>6. ASSUME NEW w \in Workers, Send(w)
        PROVE  VerdictCount'
    <2>1. /\ stage[w] = "resolved" /\ stage' = [stage EXCEPT ![w] = "idle"]
          /\ worker' = [worker EXCEPT ![w] = "pop"]
          /\ UNCHANGED <<seq, prefiltered, hits, scored>>
      BY <1>6 DEF Send, P!Leave, P!Goto, P!counters, Q!Return
    <2>2. Unresolved' = Unresolved
      BY <1>0, <2>1 DEF Unresolved, Busy
    <2> QED BY <1>1, <2>1, <2>2
  <1> QED BY <1>2, <1>3, <1>4, <1>5, <1>6 DEF Next, ReadLine, MainStep, WorkerStep

-----------------------------------------------------------------------------
(* The invariant.                                                          *)

LEMMA InitProcess == Init => ProcessInv
  <1> SUFFICES ASSUME Init PROVE ProcessInv
    OBVIOUS
  <1>1. /\ seq = 0 /\ pushed = 0 /\ worker = [w \in Workers |-> "pop"]
        /\ stage = [w \in Workers |-> "idle"]
        /\ prefiltered = 0 /\ hits = 0 /\ scored = 0
    BY DEF Init, Q!Init, P!PoolInit
  <1>2. \A w \in Workers : ~Busy(w)
    BY <1>1 DEF Busy
  <1>3. Standing
    <2>1. next \notin DOMAIN pending
      BY DEF Init
    <2>2. /\ main = "reading" /\ cancelled = FALSE /\ resultsClosed = FALSE
          /\ writer = "receive"
      BY DEF Init
    <2> QED BY <1>1, <2>1, <2>2 DEF Standing, MainStates
  <1>4. OwnTypes
    <2>1. results = <<>> /\ written = <<>> /\ input = <<>> /\ pending = <<>>
      BY DEF Init
    <2>2. results \in Seq([seq : Nat, verdict : Verdicts]) /\ Len(results) = 0
      BY <2>1
    <2>3. written \in Seq(Verdicts) /\ input \in Seq(Commands) /\ DOMAIN pending = {}
      BY <2>1
    <2>4. tagged \in [Workers -> [seq : Nat, ev : Nat]]
      BY DEF Init
    <2> QED BY <2>2, <2>3, <2>4, ScorerAssumption DEF OwnTypes
  <1>5. OnItsWay
    <2>1. results = <<>> /\ written = <<>> /\ pending = <<>> /\ next = 0
      BY DEF Init
    <2> QED BY <1>1, <1>2, <2>1 DEF OnItsWay, Output, Flow, OnePlace, SomePlace
  <1>6. Counted
    <2>1. Unresolved = {}
      BY <1>2 DEF Unresolved
    <2>2. Cardinality(Unresolved) = 0
      BY <2>1, FS_EmptySet
    <2> QED BY <1>1, <2>2 DEF Init, Counted
  <1> QED BY <1>3, <1>4, <1>5, <1>6 DEF ProcessInv, OnItsWay

LEMMA NextProcess == QueueOK /\ PoolOK /\ ProcessInv /\ [Next]_vars => ProcessInv'
  <1> SUFFICES ASSUME QueueOK, PoolOK, ProcessInv, [Next]_vars PROVE ProcessInv'
    OBVIOUS
  <1>1. OnItsWay /\ Standing /\ OwnTypes /\ LineCount /\ VerdictCount
    BY DEF ProcessInv, OnItsWay, Counted, LineCount, VerdictCount
  <1>2. OnItsWay' /\ Standing' /\ OwnTypes' /\ LineCount' /\ VerdictCount'
    BY <1>1, NextOnItsWay, NextStanding, NextOwnTypes, NextLineCount, NextVerdictCount
  <1> QED BY <1>2 DEF ProcessInv, OnItsWay, Counted, LineCount, VerdictCount

\* Queue, pool and plumbing stand as described above in every behaviour.
THEOREM ProcessInvariant == SafetySpec => [](QueueOK /\ PoolOK /\ ProcessInv)
  BY InitProcess, NextProcess, QueueHolds, PoolHolds, PTL DEF SafetySpec

-----------------------------------------------------------------------------
(* What follows from it.                                                   *)

\* The process's variables, its parts' included, keep their types.
THEOREM ScorerTypeCorrect == SafetySpec => []ScorerTypeOK
  <1>1. QueueOK /\ PoolOK /\ ProcessInv => ScorerTypeOK
    <2> SUFFICES ASSUME QueueOK, PoolOK, ProcessInv PROVE ScorerTypeOK
      OBVIOUS
    <2>1. Q!TypeOK /\ P!PoolTypeOK /\ seq \in Nat
      BY DEF QueueOK, PoolOK, Q!TypeOK
    <2>2. next \in Nat /\ DOMAIN pending \subseteq Nat
      BY <2>1 DEF ProcessInv, Output, Flow
    <2> QED BY <2>1, <2>2 DEF ScorerTypeOK, ProcessInv, OwnTypes, Standing, Counted
  <1> QED BY <1>1, ProcessInvariant, PTL

\* For any number of workers, however they race: stdout is the sequence of
\* popped events in the order of the pops (the ordered writer of main.go).
THEOREM OutputInOrder == SafetySpec => []WrittenInOrder
  <1>1. QueueOK /\ PoolOK /\ ProcessInv => WrittenInOrder
    <2> SUFFICES ASSUME QueueOK, ProcessInv PROVE WrittenInOrder
      OBVIOUS
    <2>1. seq \in Nat
      BY DEF QueueOK, Q!TypeOK
    <2>2. /\ next \in Nat /\ Len(written) = next
          /\ \A i \in 1 .. next : written[i].ev = Numbered(i - 1)
      BY <2>1 DEF ProcessInv, Output
    <2>3. \A i \in 1 .. next : Numbered(i - 1) = given[i].ev
      BY <2>2 DEF Numbered
    <2> QED BY <2>2, <2>3 DEF WrittenInOrder
  <1> QED BY <1>1, ProcessInvariant, PTL

\* A function that tells the members of a finite set apart has as many values.
LEMMA DistinctImages ==
  ASSUME NEW S, IsFiniteSet(S), NEW f, f = [x \in S |-> f[x]],
         \A x, y \in S : x # y => f[x] # f[y]
  PROVE  LET T == {f[x] : x \in S} IN IsFiniteSet(T) /\ Cardinality(T) = Cardinality(S)
  <1> DEFINE T == {f[x] : x \in S}
  <1>1. f \in [S -> T]
    OBVIOUS
  <1>2. f \in Bijection(S, T)
    BY <1>1 DEF Bijection, Injection, Surjection, IsInjective
  <1>3. ExistsBijection(S, T)
    BY <1>2 DEF ExistsBijection
  <1> HIDE DEF T
  <1>4. IsFiniteSet(T) /\ Cardinality(T) = Cardinality(S)
    BY <1>3, FS_Bijection
  <1> QED BY <1>4 DEF T

LEMMA CountUpTo ==
  ASSUME NEW n \in Nat
  PROVE  IsFiniteSet(1 .. n) /\ Cardinality(1 .. n) = n
  <1>1. n >= 0 /\ n - 1 + 1 = n /\ (1 > n => n = 0)
    OBVIOUS
  <1> QED BY <1>1, FS_Interval

LEMMA PlacesCount ==
  ASSUME QueueOK, ProcessInv
  PROVE  NoVerdictLost
  <1> DEFINE busy == Q!In("busy")
             held == [w \in busy |-> tagged[w].seq]
             sent == [i \in 1 .. Len(results) |-> results[i].seq]
  <1>1. seq \in Nat /\ next \in Nat /\ next <= seq /\ Len(results) \in Nat
    BY DEF QueueOK, Q!TypeOK, ProcessInv, Output, OwnTypes
  <1>2. \A w : w \in busy <=> w \in Workers /\ Busy(w)
    BY DEF Q!In, Busy
  <1>3. /\ IsFiniteSet(busy)
        /\ IsFiniteSet(1 .. Len(results)) /\ Cardinality(1 .. Len(results)) = Len(results)
    <2>1. IsFiniteSet(busy)
      BY <1>2, WorkersAssumption, FS_Subset
    <2>2. IsFiniteSet(1 .. Len(results)) /\ Cardinality(1 .. Len(results)) = Len(results)
      BY <1>1, CountUpTo
    <2> QED BY <2>1, <2>2
  <1> HIDE DEF busy
  <1>4. HeldSeqs = {held[w] : w \in busy}
    BY DEF HeldSeqs, busy
  <1>5. SentSeqs = {sent[i] : i \in 1 .. Len(results)}
    BY DEF SentSeqs
  <1>6. IsFiniteSet(HeldSeqs) /\ Cardinality(HeldSeqs) = Cardinality(busy)
    <2>1. \A v, w \in busy : v # w => held[v] # held[w]
      BY <1>2 DEF ProcessInv, OnePlace
    <2>2. held = [w \in busy |-> held[w]]
      OBVIOUS
    <2> HIDE DEF held
    <2> QED BY <1>3, <1>4, <2>1, <2>2, DistinctImages
  <1>7. IsFiniteSet(SentSeqs) /\ Cardinality(SentSeqs) = Len(results)
    <2>1. \A i, j \in 1 .. Len(results) : i # j => sent[i] # sent[j]
      BY DEF ProcessInv, OnePlace
    <2>2. sent = [i \in 1 .. Len(results) |-> sent[i]]
      OBVIOUS
    <2> HIDE DEF sent
    <2> QED BY <1>3, <1>5, <2>1, <2>2, DistinctImages
  <1>8. HeldSeqs \cap SentSeqs = {} /\ (HeldSeqs \cup SentSeqs) \cap DOMAIN pending = {}
    BY <1>2 DEF HeldSeqs, SentSeqs, ProcessInv, OnePlace, busy
  <1>9. HeldSeqs \cup SentSeqs \cup DOMAIN pending = next .. seq - 1
    <2>1. ASSUME NEW s \in HeldSeqs \cup SentSeqs \cup DOMAIN pending
          PROVE  s \in next .. seq - 1
      BY <1>2 DEF HeldSeqs, SentSeqs, ProcessInv, Flow, busy
    <2>2. ASSUME NEW s \in next .. seq - 1
          PROVE  s \in HeldSeqs \cup SentSeqs \cup DOMAIN pending
      BY <1>2 DEF HeldSeqs, SentSeqs, ProcessInv, SomePlace, busy
    <2> QED BY <2>1, <2>2
  <1>10. IsFiniteSet(next .. seq - 1) /\ Cardinality(next .. seq - 1) = seq - next
    <2>1. next \in Int /\ seq - 1 \in Int
      BY <1>1
    <2>2. /\ IsFiniteSet(next .. seq - 1)
          /\ Cardinality(next .. seq - 1)
               = IF next > seq - 1 THEN 0 ELSE (seq - 1) - next + 1
      BY <2>1, FS_Interval
    <2> QED BY <1>1, <2>2
  <1>11. IsFiniteSet(DOMAIN pending)
    BY <1>9, <1>10, FS_Subset
  <1>12. /\ IsFiniteSet(HeldSeqs \cup SentSeqs)
         /\ Cardinality(HeldSeqs \cup SentSeqs) = Cardinality(busy) + Len(results)
    <2>1. Cardinality(HeldSeqs \cup SentSeqs)
            = Cardinality(HeldSeqs) + Cardinality(SentSeqs) - Cardinality(HeldSeqs \cap SentSeqs)
      BY <1>6, <1>7, FS_Union
    <2>2. Cardinality(HeldSeqs \cap SentSeqs) = 0
      BY <1>8, FS_EmptySet
    <2>3. Cardinality(busy) \in Nat
      BY <1>3, FS_CardinalityType
    <2>4. \A b, r \in Nat : b + r - 0 = b + r
      OBVIOUS
    <2>5. Cardinality(HeldSeqs \cup SentSeqs) = Cardinality(busy) + Len(results)
      BY <1>1, <1>6, <1>7, <2>1, <2>2, <2>3, <2>4
    <2>6. IsFiniteSet(HeldSeqs \cup SentSeqs)
      BY <1>6, <1>7, FS_Union
    <2> QED BY <2>5, <2>6
  <1>13. Cardinality(busy) + Len(results) + Cardinality(DOMAIN pending) = seq - next
    <2>1. Cardinality((HeldSeqs \cup SentSeqs) \cup DOMAIN pending)
            = Cardinality(HeldSeqs \cup SentSeqs) + Cardinality(DOMAIN pending)
              - Cardinality((HeldSeqs \cup SentSeqs) \cap DOMAIN pending)
      BY <1>11, <1>12, FS_Union
    <2>2. Cardinality((HeldSeqs \cup SentSeqs) \cap DOMAIN pending) = 0
      BY <1>8, FS_EmptySet
    <2>3. Cardinality(busy) \in Nat /\ Cardinality(DOMAIN pending) \in Nat
      BY <1>3, <1>11, FS_CardinalityType
    <2>4. \A b, r, p, d \in Int : d = (b + r) + p - 0 => b + r + p = d
      OBVIOUS
    <2>5. seq - next = (Cardinality(busy) + Len(results)) + Cardinality(DOMAIN pending) - 0
      BY <1>9, <1>10, <1>12, <2>1, <2>2
    <2> QED BY <1>1, <2>3, <2>4, <2>5
  <1> QED BY <1>9, <1>13 DEF NoVerdictLost, busy

\* For any number of workers and any channel: every sequence number handed out
\* and not yet written is in exactly one place, so the writer never waits for a
\* verdict nobody owes it.
THEOREM EveryVerdictOwed == SafetySpec => []NoVerdictLost
  BY PlacesCount, ProcessInvariant, PTL

\* The results channel is closed only when no worker is left to send on it
\* (wg.Wait before close(results)).
THEOREM ClosedAfterSenders == SafetySpec => []NoSendAfterClose
  <1>1. ProcessInv => NoSendAfterClose
    BY DEF ProcessInv, Standing, NoSendAfterClose, Q!In
  <1> QED BY <1>1, ProcessInvariant, PTL

\* When the writer is done nothing is buffered or under way.
LEMMA NothingLeft ==
  ASSUME QueueOK, ProcessInv, Workers # {}, writer = "done"
  PROVE  /\ count = 0 /\ next = seq /\ Unresolved = {}
         /\ \A w \in Workers : ~Busy(w)
  <1>1. /\ \A w \in Workers : worker[w] = "exited"
        /\ results = <<>> /\ next \notin DOMAIN pending
    BY DEF ProcessInv, Standing
  <1>2. \A w \in Workers : ~Busy(w)
    BY <1>1 DEF Busy
  <1>3. Unresolved = {}
    BY <1>2 DEF Unresolved
  <1>4. count = 0
    BY <1>1 DEF QueueOK, Q!DrainedBeforeExit, Q!In
  <1>5. next = seq
    <2>1. next \in 0 .. seq /\ seq \in Nat
      BY DEF QueueOK, Q!TypeOK, ProcessInv, Output
    <2>2. ASSUME next # seq PROVE FALSE
      <3>1. next \in next .. seq - 1
        BY <2>1, <2>2
      <3>2. Len(results) = 0
        BY <1>1
      <3>3. ~\E i \in 1 .. Len(results) : results[i].seq = next
        BY <3>2
      <3> QED BY <1>1, <1>2, <3>1, <3>3 DEF ProcessInv, SomePlace
    <2> QED BY <2>2
  <1> QED BY <1>2, <1>3, <1>4, <1>5

\* The summary line of a scorer with at least one worker adds up.  (main.go
\* takes any -workers: with none the channel is closed at once, and the events
\* still buffered are neither dropped nor written.)
THEOREM SummaryCorrect ==
  ASSUME Workers # {}
  PROVE  SafetySpec => []SummaryAddsUp
  <1>1. QueueOK /\ PoolOK /\ ProcessInv => SummaryAddsUp
    <2> SUFFICES ASSUME QueueOK, PoolOK, ProcessInv, main = "finished"
                 PROVE  /\ read = malformed + nonExec + emptyCmd + pushed
                        /\ pushed = dropped + Len(written)
                        /\ Len(written) = prefiltered + hits + scored
      BY DEF SummaryAddsUp
    <2>1. count = 0 /\ next = seq /\ Unresolved = {}
      BY NothingLeft DEF ProcessInv, Standing
    <2>2. Cardinality(Unresolved) = 0
      BY <2>1, FS_EmptySet
    <2>3. /\ Len(written) = next /\ read = malformed + nonExec + emptyCmd + pushed
          /\ seq = prefiltered + hits + scored + Cardinality(Unresolved)
          /\ pushed = dropped + seq + count
      BY DEF ProcessInv, Output, Counted, QueueOK, Q!Accounting
    <2>4. /\ seq \in Nat /\ dropped \in Nat
          /\ prefiltered \in Nat /\ hits \in Nat /\ scored \in Nat
      BY DEF QueueOK, Q!TypeOK, PoolOK, P!PoolTypeOK
    <2>5. pushed = dropped + Len(written)
      BY <2>1, <2>3, <2>4
    <2>6. Len(written) = prefiltered + hits + scored
      BY <2>1, <2>2, <2>3, <2>4
    <2> QED BY <2>3, <2>5, <2>6
  <1> QED BY <1>1, ProcessInvariant, PTL

-----------------------------------------------------------------------------
(* The process implements VerdictStream (the safety part of                *)
(* ImplementsStream; its fairness stays with TLC).                         *)

\* What the refinement maps the stream's variables to.
Lost == (1 .. pushed) \ (BufferedEvents \cup GivenEvents)
Evs == [i \in 1 .. Len(written) |-> written[i].ev]
Owing == (1 .. pushed) \ (Lost \cup {Evs[i] : i \in 1 .. Len(Evs)})

\* Popped and not yet written.
Underway == {given[i].ev : i \in next + 1 .. seq}

LEMMA QueueNumbers ==
  ASSUME QueueOK
  PROVE  /\ count \in Nat /\ pushed \in Nat /\ seq \in Nat /\ count <= pushed
         /\ given \in Seq([seq : Nat, ev : Nat]) /\ Len(given) = seq
         /\ \A i \in 1 .. seq : given[i].ev \in 1 .. pushed - count
         /\ \A i, j \in 1 .. seq : i < j => given[i].ev < given[j].ev
         /\ BufferedEvents = pushed - count + 1 .. pushed
  <1>1. /\ count \in Nat /\ pushed \in Nat /\ seq \in Nat /\ dropped \in Nat
        /\ given \in Seq([seq : Nat, ev : Nat])
    BY CapacityAssumption DEF QueueOK, Q!TypeOK
  <1>2. count <= pushed
    BY <1>1 DEF QueueOK, Q!Accounting
  <1>3. \A k \in 0 .. count - 1 : Q!Buffered(k) = pushed - count + 1 + k
    BY DEF QueueOK, Q!HoldsNewest
  <1>4. BufferedEvents = pushed - count + 1 .. pushed
    <2>1. ASSUME NEW e \in BufferedEvents PROVE e \in pushed - count + 1 .. pushed
      BY <1>1, <1>3 DEF BufferedEvents
    <2>2. ASSUME NEW e \in pushed - count + 1 .. pushed PROVE e \in BufferedEvents
      <3>1. /\ e - (pushed - count + 1) \in 0 .. count - 1
            /\ e = pushed - count + 1 + (e - (pushed - count + 1))
        BY <1>1
      <3> QED BY <1>3, <3>1 DEF BufferedEvents
    <2> QED BY <2>1, <2>2
  <1> QED BY <1>1, <1>2, <1>4 DEF QueueOK, Q!SurvivorsInOrder

LEMMA OwingIs ==
  ASSUME QueueOK, ProcessInv
  PROVE  /\ Owing = (pushed - count + 1 .. pushed) \cup Underway
         /\ Lost = (1 .. pushed - count) \ GivenEvents
         /\ GivenEvents \subseteq 1 .. pushed - count
  <1>1. /\ count \in Nat /\ pushed \in Nat /\ seq \in Nat /\ count <= pushed
        /\ Len(given) = seq
        /\ \A i \in 1 .. seq : given[i].ev \in 1 .. pushed - count
        /\ \A i, j \in 1 .. seq : i < j => given[i].ev < given[j].ev
        /\ BufferedEvents = pushed - count + 1 .. pushed
    BY QueueNumbers
  <1>2. next \in Nat /\ next <= seq /\ Len(written) = next
    BY <1>1 DEF ProcessInv, Output
  <1>3. {Evs[i] : i \in 1 .. Len(Evs)} = {given[i].ev : i \in 1 .. next}
    <2>1. Len(Evs) = next /\ \A i \in 1 .. next : Evs[i] = written[i].ev
      BY <1>2 DEF Evs
    <2>2. \A i \in 1 .. next : written[i].ev = given[i].ev
      BY <1>2 DEF ProcessInv, Output, Numbered
    <2> QED BY <2>1, <2>2
  <1>4. GivenEvents = {given[i].ev : i \in 1 .. seq}
    BY <1>1 DEF GivenEvents
  <1>5. GivenEvents \subseteq 1 .. pushed - count
    BY <1>1, <1>4
  <1>6. /\ \A e \in pushed - count + 1 .. pushed : e \in 1 .. pushed /\ e \notin 1 .. pushed - count
        /\ \A e \in 1 .. pushed : e \in 1 .. pushed - count \/ e \in pushed - count + 1 .. pushed
        /\ \A e \in 1 .. pushed - count : e \in 1 .. pushed
    BY <1>1
  <1>7. Lost = (1 .. pushed - count) \ GivenEvents
    BY <1>1, <1>6 DEF Lost
  <1>8. /\ {given[i].ev : i \in 1 .. next} \cap Underway = {}
        /\ {given[i].ev : i \in 1 .. next} \cup Underway = GivenEvents
    <2>1. \A i \in 1 .. next : \A j \in next + 1 .. seq :
             i \in 1 .. seq /\ j \in 1 .. seq /\ i < j
      BY <1>1, <1>2
    <2>2. \A i \in 1 .. next : \A j \in next + 1 .. seq : given[i].ev # given[j].ev
      <3> SUFFICES ASSUME NEW i \in 1 .. next, NEW j \in next + 1 .. seq
                   PROVE  given[i].ev # given[j].ev
        OBVIOUS
      <3>1. /\ given[i].ev \in 1 .. pushed - count /\ given[j].ev \in 1 .. pushed - count
            /\ given[i].ev < given[j].ev
        BY <1>1, <2>1
      <3> QED BY <3>1
    <2>3. \A i \in 1 .. seq : i \in 1 .. next \/ i \in next + 1 .. seq
      BY <1>1, <1>2
    <2>4. \A i \in 1 .. next : i \in 1 .. seq
      BY <1>1, <1>2
    <2>5. \A i \in next + 1 .. seq : i \in 1 .. seq
      BY <1>1, <1>2
    <2>6. {given[i].ev : i \in 1 .. next} \cap Underway = {}
      BY <2>2 DEF Underway
    <2>7. {given[i].ev : i \in 1 .. next} \cup Underway = GivenEvents
      BY <1>4, <2>3, <2>4, <2>5 DEF Underway
    <2> QED BY <2>6, <2>7
  <1>9. Owing = (pushed - count + 1 .. pushed) \cup Underway
    BY <1>3, <1>5, <1>6, <1>7, <1>8 DEF Owing
  <1> QED BY <1>5, <1>7, <1>9

LEMMA LostIs ==
  /\ QueueOK /\ ProcessInv => Lost = (1 .. pushed - count) \ GivenEvents
  /\ QueueOK' /\ ProcessInv' => Lost' = (1 .. pushed' - count') \ GivenEvents'
  <1>1. QueueOK /\ ProcessInv => Lost = (1 .. pushed - count) \ GivenEvents
    BY OwingIs
  <1>2. (QueueOK /\ ProcessInv => Lost = (1 .. pushed - count) \ GivenEvents)'
    BY <1>1, PTL
  <1> QED BY <1>1, <1>2

LEMMA PushAccepts ==
  ASSUME QueueOK, ProcessInv, QueueOK', ProcessInv', NEW c \in Commands, PushExec(c)
  PROVE  Stream!Accept
  <1>1. /\ count \in Nat /\ pushed \in Nat /\ count <= pushed
        /\ Lost = (1 .. pushed - count) \ GivenEvents
        /\ GivenEvents \subseteq 1 .. pushed - count
        /\ Owing = (pushed - count + 1 .. pushed) \cup Underway
    BY QueueNumbers, OwingIs
  <1>2. Lost' = (1 .. pushed' - count') \ GivenEvents'
    BY LostIs
  <1>3. /\ main = "reading" /\ main' = "pushing" /\ pushed < MaxLines /\ pushed' = pushed + 1
        /\ given' = given /\ written' = written
    BY DEF PushExec, Line, Q!Push, writerVars
  <1>4. GivenEvents' = GivenEvents /\ Evs' = Evs
    BY <1>3 DEF GivenEvents, Evs
  <1>5. Lost' = Lost \/ \E e \in Owing : Lost' = Lost \cup {e}
    <2>1. CASE count # Capacity
      <3>1. count' = count + 1
        BY <2>1 DEF PushExec, Q!Push, Q!PushWithRoom, Q!PushOverflow, Q!Place
      <3>2. pushed' - count' = pushed - count
        BY <1>1, <1>3, <3>1
      <3> QED BY <1>1, <1>2, <1>4, <3>2
    <2>2. CASE count = Capacity
      <3> DEFINE oldest == pushed - count + 1
      <3>1. count' = (count - 1) + 1
        BY <2>2 DEF PushExec, Q!Push, Q!PushWithRoom, Q!PushOverflow, Q!Place
      <3>2. pushed' - count' = oldest
        BY <1>1, <1>3, <3>1
      <3>3. oldest \in pushed - count + 1 .. pushed
        BY <1>1, <2>2, CapacityAssumption
      <3>4. 1 .. oldest = (1 .. pushed - count) \cup {oldest} /\ oldest \notin 1 .. pushed - count
        BY <1>1
      <3>5. oldest \in Owing
        BY <1>1, <3>3
      <3>6. Lost' = Lost \cup {oldest}
        <4> HIDE DEF oldest
        <4> QED BY <1>1, <1>2, <1>4, <3>2, <3>4
      <3> QED BY <3>5, <3>6
    <2> QED BY <2>1, <2>2
  <1> QED BY <1>3, <1>4, <1>5 DEF Stream!Accept, Stream!Owed, Stream!Written, Lost, Evs, Owing

\* Pop moves an event from the buffered ones to the given ones.
LEMMA TakeStutters ==
  ASSUME QueueOK, ProcessInv, QueueOK', ProcessInv', NEW w \in Workers, PopTakes(w)
  PROVE  Lost' = Lost /\ pushed' = pushed /\ Evs' = Evs
  <1>1. /\ count \in Nat \ {0} /\ pushed \in Nat /\ count <= pushed
        /\ given \in Seq([seq : Nat, ev : Nat]) /\ seq \in Nat /\ Len(given) = seq
        /\ Lost = (1 .. pushed - count) \ GivenEvents
    <2>1. count # 0
      BY DEF PopTakes, Q!Take
    <2> QED BY <2>1, QueueNumbers, OwingIs
  <1>2. /\ count' = count - 1 /\ pushed' = pushed /\ written' = written
        /\ given' = Append(given, [seq |-> seq, ev |-> buf[head]])
    BY DEF PopTakes, Q!Take
  <1>3. buf[head] = pushed - count + 1
    <2>1. Q!Buffered(0) = pushed - count + 1 + 0
      BY <1>1 DEF QueueOK, Q!HoldsNewest
    <2>2. Q!Slot(head, 0) = head
      <3>1. head \in 0 .. Capacity - 1
        BY DEF QueueOK, Q!TypeOK, Q!Slots
      <3>2. (head + 0) % Capacity = head
        BY <3>1, CapacityAssumption
      <3> QED BY <3>2 DEF Q!Slot
    <2> QED BY <1>1, <2>1, <2>2 DEF Q!Buffered
  <1>4. GivenEvents' = GivenEvents \cup {pushed - count + 1}
    <2>1. /\ Len(given') = seq + 1
          /\ \A i \in 1 .. seq : given'[i] = given[i]
          /\ given'[seq + 1].ev = pushed - count + 1
      BY <1>1, <1>2, <1>3
    <2>2. \A i \in 1 .. seq + 1 : i \in 1 .. seq \/ i = seq + 1
      BY <1>1
    <2>3. seq + 1 \in 1 .. seq + 1 /\ \A i \in 1 .. seq : i \in 1 .. seq + 1
      BY <1>1
    <2>4. GivenEvents' = {given'[i].ev : i \in 1 .. seq + 1}
      BY <2>1 DEF GivenEvents
    <2>5. GivenEvents = {given[i].ev : i \in 1 .. seq}
      BY <1>1 DEF GivenEvents
    <2> QED BY <2>1, <2>2, <2>3, <2>4, <2>5
  <1>5. Lost' = (1 .. pushed' - count') \ GivenEvents'
    BY LostIs
  <1>6. Lost' = Lost
    <2> DEFINE oldest == pushed - count + 1
    <2>1. pushed' - count' = oldest
      BY <1>1, <1>2
    <2>2. 1 .. oldest = (1 .. pushed - count) \cup {oldest} /\ oldest \notin 1 .. pushed - count
      BY <1>1
    <2> HIDE DEF oldest
    <2> QED BY <1>1, <1>4, <1>5, <2>1, <2>2 DEF oldest
  <1>7. Evs' = Evs
    BY <1>2 DEF Evs
  <1> QED BY <1>2, <1>6, <1>7

LEMMA DueIsLeast ==
  ASSUME QueueOK, ProcessInv, WriteDue
  PROVE  /\ pending[next].ev \in Owing
         /\ \A f \in Owing : pending[next].ev <= f
         /\ Evs' = Append(Evs, pending[next].ev)
  <1> DEFINE due == given[next + 1].ev
  <1>1. /\ count \in Nat /\ pushed \in Nat /\ seq \in Nat /\ count <= pushed
        /\ \A i \in 1 .. seq : given[i].ev \in 1 .. pushed - count
        /\ \A i, j \in 1 .. seq : i < j => given[i].ev < given[j].ev
        /\ Owing = (pushed - count + 1 .. pushed) \cup Underway
    BY QueueNumbers, OwingIs
  <1>2. next \in DOMAIN pending /\ written' = Append(written, pending[next])
    BY DEF WriteDue
  <1>3. next \in next .. seq - 1 /\ pending[next].ev = due
    BY <1>2 DEF ProcessInv, Flow, Numbered
  <1>4. next \in Nat /\ next + 1 \in next + 1 .. seq /\ next + 1 \in 1 .. seq
    BY <1>1, <1>3 DEF ProcessInv, Output
  <1>5. due \in Owing /\ due \in 1 .. pushed - count
    BY <1>1, <1>4 DEF Underway
  <1>6. ASSUME NEW f \in Owing PROVE due <= f
    <2>1. CASE f \in pushed - count + 1 .. pushed
      BY <1>1, <1>5, <2>1
    <2>2. CASE f \in Underway
      <3>1. PICK i \in next + 1 .. seq : f = given[i].ev
        BY <2>2 DEF Underway
      <3>2. i \in 1 .. seq /\ (i = next + 1 \/ next + 1 < i)
        BY <1>1, <1>4
      <3>3. f \in 1 .. pushed - count /\ (f = due \/ due < f)
        BY <1>1, <1>4, <3>1, <3>2
      <3> QED BY <1>1, <1>5, <3>3
    <2> QED BY <1>1, <2>1, <2>2
  <1>7. Evs' = Append(Evs, pending[next].ev)
    <2>1. written \in Seq(Verdicts) /\ Len(written) = next /\ pending[next] \in Verdicts
      BY <1>2 DEF ProcessInv, OwnTypes, Output
    <2>2. /\ Len(written') = next + 1
          /\ \A i \in 1 .. next : written'[i] = written[i]
          /\ written'[next + 1] = pending[next]
      BY <1>2, <2>1
    <2>3. /\ Evs = [i \in 1 .. next |-> written[i].ev]
          /\ Evs' = [i \in 1 .. next + 1 |-> written'[i].ev]
      BY <2>1, <2>2 DEF Evs
    <2>4. \A i \in 1 .. next : written[i] \in Verdicts
      BY <2>1, ElementOfSeq
    <2>5. Evs \in Seq(Nat) /\ Len(Evs) = next
      BY <1>4, <2>3, <2>4 DEF Verdicts
    <2> DEFINE longer == Append(Evs, pending[next].ev)
    <2>6. /\ longer = [i \in 1 .. next + 1 |-> longer[i]]
          /\ \A i \in 1 .. next : longer[i] = Evs[i]
          /\ longer[next + 1] = pending[next].ev
      BY <1>4, <2>1, <2>5 DEF Verdicts
    <2>7. \A i \in 1 .. next + 1 : longer[i] = written'[i].ev
      BY <1>4, <2>2, <2>3, <2>6
    <2> HIDE DEF longer
    <2> QED BY <2>3, <2>6, <2>7 DEF longer
  <1> QED BY <1>3, <1>5, <1>6, <1>7

LEMMA WriteWrites ==
  ASSUME QueueOK, ProcessInv, WriteDue
  PROVE  Stream!Write
  <1>1. /\ pending[next].ev \in Owing
        /\ \A f \in Owing : pending[next].ev <= f
        /\ Evs' = Append(Evs, pending[next].ev)
    BY DueIsLeast
  <1>2. main # "finished" /\ main' = main
    BY DEF WriteDue, ProcessInv, Standing
  <1>3. UNCHANGED <<buf, head, count, pushed, given>>
    BY DEF WriteDue, queueVars
  <1>4. Lost' = Lost
    BY <1>3 DEF Lost, BufferedEvents, GivenEvents, Q!Buffered
  <1> QED BY <1>1, <1>2, <1>3, <1>4
          DEF Stream!Write, Stream!Owed, Stream!Written, Lost, Evs, Owing

LEMMA FinishEnds ==
  ASSUME QueueOK, ProcessInv, Workers # {}, Finish
  PROVE  Stream!End
  <1>1. /\ writer = "done" /\ main' = "finished"
        /\ UNCHANGED <<buf, head, count, pushed, given, written>>
    BY DEF Finish, queueVars, writerVars
  <1>2. count = 0 /\ next = seq
    BY <1>1, NothingLeft
  <1>3. pushed \in Nat /\ seq \in Nat
    BY QueueNumbers
  <1>4. pushed - count + 1 .. pushed = {} /\ next + 1 .. seq = {}
    BY <1>2, <1>3
  <1>5. Owing = {}
    BY <1>4, OwingIs DEF Underway
  <1>6. Lost' = Lost /\ Evs' = Evs
    BY <1>1 DEF Lost, BufferedEvents, GivenEvents, Evs, Q!Buffered
  <1> QED BY <1>1, <1>5, <1>6
          DEF Stream!End, Stream!Owed, Stream!Written, Lost, Evs, Owing

\* Every other step leaves the stream alone.
LEMMA OthersStutter ==
  ASSUME QueueOK, ProcessInv, QueueOK', ProcessInv', [Next]_vars,
         ~(\E c \in Commands : PushExec(c)), ~WriteDue, ~Finish
  PROVE  UNCHANGED Stream!vars
  <1>1. CASE \E w \in Workers : Pop(w)
    <2>1. PICK w \in Workers : Pop(w)
      BY <1>1
    <2>2. main' = main /\ written' = written
      BY <2>1 DEF Pop, writerVars
    <2>3. CASE Q!Take(w)
      <3>1. PopTakes(w)
        BY <2>1, <2>3 DEF Pop, PopTakes, Q!Take, Q!Wait, Q!Exit, writerVars
      <3>2. Lost' = Lost /\ pushed' = pushed /\ Evs' = Evs
        BY <3>1, TakeStutters
      <3> QED BY <2>2, <3>2 DEF Stream!vars, Lost, Evs
    <2>4. CASE Q!Wait(w) \/ Q!Exit(w)
      <3>1. UNCHANGED <<buf, head, count, pushed, given>>
        BY <2>4 DEF Q!Wait, Q!Exit, Q!ring
      <3> QED BY <2>2, <3>1 DEF Stream!vars, BufferedEvents, GivenEvents, Q!Buffered
    <2> QED BY <2>1, <2>3, <2>4 DEF Pop
  <1>2. CASE ~\E w \in Workers : Pop(w)
    <2>1. UNCHANGED <<buf, head, count, pushed, given>>
      BY <1>2 DEF Next, vars, ReadLine, SkipMalformed, SkipNonExec, SkipEmpty, StdinEnds, Cancel,
           MainStep, Signal, AfterPush, CloseQueue, Broadcast, CloseResults,
           WorkerStep, CallResolve, Resolve, Send, WriterStep, Receive, FlushEnds, WriterEnds,
           queueVars, Q!Signal, Q!Close, Q!Broadcast, Q!Return, Q!ring
    <2>2. written' = written
      BY <1>2 DEF Next, vars, ReadLine, SkipMalformed, SkipNonExec, SkipEmpty, StdinEnds, Cancel,
           MainStep, Signal, AfterPush, CloseQueue, Broadcast, CloseResults,
           WorkerStep, CallResolve, Resolve, Send, WriterStep, Receive, FlushEnds, WriterEnds,
           writerVars
    <2>3. main' = "finished" <=> main = "finished"
      BY <1>2 DEF Next, vars, ReadLine, SkipMalformed, SkipNonExec, SkipEmpty, StdinEnds, Cancel,
           MainStep, Signal, AfterPush, CloseQueue, Broadcast, CloseResults,
           WorkerStep, CallResolve, Resolve, Send, WriterStep, Receive, FlushEnds, WriterEnds
    <2> QED BY <2>1, <2>2, <2>3 DEF Stream!vars, BufferedEvents, GivenEvents, Q!Buffered
  <1> QED BY <1>1, <1>2

LEMMA InitStream == Init => Stream!Init
  <1> SUFFICES ASSUME Init PROVE Stream!Init
    OBVIOUS
  <1>1. pushed = 0 /\ written = <<>> /\ main = "reading"
    BY DEF Init, Q!Init
  <1>2. Lost = {}
    BY <1>1 DEF Lost
  <1>3. Evs = <<>>
    BY <1>1 DEF Evs
  <1> QED BY <1>1, <1>2, <1>3 DEF Stream!Init, Lost, Evs

\* Reader, ring, pool, channel and writer add no behaviour to the verdict
\* stream: each step accepts, writes the oldest exec owed, ends with nothing
\* owed, or leaves the stream alone.
THEOREM RefinesStream ==
  ASSUME Workers # {}
  PROVE  SafetySpec => Stream!SafetySpec
  <1>1. /\ QueueOK /\ PoolOK /\ ProcessInv /\ QueueOK' /\ PoolOK' /\ ProcessInv'
        /\ [Next]_vars
        => [Stream!Next]_(Stream!vars)
    BY PushAccepts, WriteWrites, FinishEnds, OthersStutter DEF Stream!Next
  <1> QED BY <1>1, InitStream, ProcessInvariant, PTL DEF SafetySpec, Stream!SafetySpec

-----------------------------------------------------------------------------
(* Each verdict belongs to its command.                                    *)

\* Verdict v names an exec of inp, and a score in it is one of prod, given by
\* the model for the command of that exec and raised to its floor.
Fits(inp, prod, v) ==
  /\ v.ev \in 1 .. Len(inp)
  /\ v.source \in {"llm", "cache"} =>
       \E p \in prod : p[1] = inp[v.ev] /\ v.risk = P!ApplyFloor(inp[v.ev], p[2])

VerdictsFit ==
  /\ Len(input) = pushed
  /\ \A w \in Workers : stage[w] # "idle" => cmd[w] = input[tagged[w].ev]
  /\ \A i \in 1 .. Len(results) : Fits(input, produced, results[i].verdict)
  /\ \A s \in DOMAIN pending : Fits(input, produced, pending[s])
  /\ \A i \in 1 .. Len(written) : Fits(input, produced, written[i])

\* What fits, fits when more execs are accepted and more scores given.
LEMMA FitsGrows ==
  ASSUME NEW inp \in Seq(Commands), NEW more, NEW prod, NEW new, NEW v,
         more = inp \/ \E c \in Commands : more = Append(inp, c),
         prod \subseteq new, Fits(inp, prod, v)
  PROVE  Fits(more, new, v)
  <1>1. /\ \A i \in 1 .. Len(inp) : i \in 1 .. Len(more) /\ more[i] = inp[i]
    OBVIOUS
  <1> QED BY <1>1 DEF Fits

LEMMA InputGrows ==
  ASSUME QueueOK, PoolOK, OwnTypes, [Next]_vars, Len(input) = pushed
  PROVE  /\ input' = input \/ \E c \in Commands : input' = Append(input, c)
         /\ Len(input') = pushed'
         /\ produced \subseteq produced'
  <1>1. input \in Seq(Commands) /\ pushed \in Nat
    BY DEF OwnTypes, QueueOK, Q!TypeOK
  <1>2. produced \subseteq produced'
    <2>1. CASE UNCHANGED PP!poolVars
      BY <2>1 DEF PP!poolVars, PP!history
    <2>2. CASE \E w \in Workers : PP!Call(w) \/ PP!Leave(w)
      BY <2>2 DEF PP!Call, PP!Prefilter, PP!Enter, PP!Leave, PP!history
    <2>3. CASE \E w \in Workers : PP!Resolve(w)
      BY <2>3 DEF PP!Resolve, PP!Hit, PP!Park, PP!Claim, PP!Score, PP!ScoreOK, PP!ScoreError,
                  PP!Publish, PP!Wake, PP!history
    <2> QED BY <2>1, <2>2, <2>3, NextParts DEF PP!PoolNext
  <1>3. CASE \E c \in Commands : PushExec(c)
    <2>1. PICK c \in Commands : PushExec(c)
      BY <1>3
    <2>2. input' = Append(input, c) /\ pushed' = pushed + 1
      BY <2>1 DEF PushExec, Q!Push
    <2>3. Len(input') = pushed'
      BY <1>1, <2>2
    <2> QED BY <1>2, <2>2, <2>3
  <1>4. CASE ~\E c \in Commands : PushExec(c)
    <2>1. input' = input
      BY <1>4 DEF Next, vars, ReadLine, SkipMalformed, SkipNonExec, SkipEmpty, StdinEnds, Cancel,
           MainStep, Signal, AfterPush, CloseQueue, Broadcast, CloseResults, Finish,
           WorkerStep, Pop, CallResolve, Resolve, Send,
           WriterStep, Receive, WriteDue, FlushEnds, WriterEnds, lineVars
    <2>2. pushed' = pushed
      BY <1>4 DEF Next, vars, ReadLine, SkipMalformed, SkipNonExec, SkipEmpty, StdinEnds, Cancel,
           MainStep, Signal, AfterPush, CloseQueue, Broadcast, CloseResults, Finish,
           WorkerStep, Pop, CallResolve, Resolve, Send,
           WriterStep, Receive, WriteDue, FlushEnds, WriterEnds, queueVars,
           Q!Signal, Q!Close, Q!Broadcast, Q!Take, Q!Wait, Q!Exit, Q!Return
    <2> QED BY <1>2, <2>1, <2>2
  <1> QED BY <1>3, <1>4

LEMMA BusyEvent ==
  ASSUME QueueOK, ProcessInv, NEW w \in Workers, Busy(w)
  PROVE  tagged[w].ev \in 1 .. pushed
  <1>1. /\ seq \in Nat /\ count \in Nat /\ pushed \in Nat
        /\ \A i \in 1 .. seq : given[i].ev \in 1 .. pushed - count
    BY QueueNumbers
  <1>2. next \in Nat /\ tagged[w].seq \in next .. seq - 1
        /\ tagged[w].ev = given[tagged[w].seq + 1].ev
    BY <1>1 DEF ProcessInv, Flow, Output, Numbered
  <1>3. tagged[w].seq + 1 \in 1 .. seq
    BY <1>1, <1>2
  <1>4. tagged[w].ev \in 1 .. pushed - count
    BY <1>1, <1>2, <1>3
  <1> QED BY <1>1, <1>4

LEMMA NextCommands ==
  ASSUME QueueOK, PoolOK, ProcessInv, VerdictsFit, [Next]_vars
  PROVE  \A w \in Workers : stage'[w] # "idle" => cmd'[w] = input'[tagged'[w].ev]
  <1>1. /\ stage \in [Workers -> P!Stages] /\ cmd \in [Workers -> Commands]
        /\ tagged \in [Workers -> [seq : Nat, ev : Nat]] /\ input \in Seq(Commands)
        /\ worker \in [Workers -> Q!WorkerStates]
        /\ Len(input) = pushed /\ pushed \in Nat
        /\ \A w \in Workers : stage[w] # "idle" => Busy(w)
        /\ \A w \in Workers : stage[w] # "idle" => cmd[w] = input[tagged[w].ev]
    BY DEF QueueOK, Q!TypeOK, PoolOK, P!PoolTypeOK, ProcessInv, OwnTypes, Standing, VerdictsFit
  <1>2. CASE UNCHANGED <<stage, cmd, input, tagged>>
    BY <1>1, <1>2
  <1>3. CASE \E c \in Commands : PushExec(c)
    <2>1. PICK c \in Commands : PushExec(c)
      BY <1>3
    <2>2. UNCHANGED <<stage, cmd, tagged>> /\ input' = Append(input, c)
      BY <2>1 DEF PushExec, poolVars
    <2>3. \A i \in 1 .. Len(input) : input'[i] = input[i]
      BY <1>1, <2>2
    <2> QED BY <1>1, <2>2, <2>3, BusyEvent
  <1>4. ASSUME NEW w \in Workers, Pop(w)
        PROVE  \A v \in Workers : stage'[v] # "idle" => cmd'[v] = input'[tagged'[v].ev]
    <2>1. UNCHANGED <<stage, cmd, input>>
      BY <1>4 DEF Pop, poolVars, lineVars
    <2>2. worker[w] = "pop"
      BY <1>4 DEF Pop, Q!Take, Q!Wait, Q!Exit
    <2>3. stage[w] = "idle"
      BY <1>1, <2>2 DEF Busy
    <2>4. \A v \in Workers \ {w} : tagged'[v] = tagged[v]
      BY <1>1, <1>4 DEF Pop
    <2> QED BY <1>1, <2>1, <2>3, <2>4
  <1>5. ASSUME NEW w \in Workers, CallResolve(w)
        PROVE  \A v \in Workers : stage'[v] # "idle" => cmd'[v] = input'[tagged'[v].ev]
    <2> DEFINE c == input[tagged[w].ev]
    <2>1. UNCHANGED <<tagged, input>> /\ (P!Prefilter(w, c) \/ P!Enter(w, c))
      BY <1>5 DEF CallResolve, lineVars
    <2>2. /\ cmd' = [cmd EXCEPT ![w] = c]
          /\ \E s \in {"resolved", "lookup"} : stage' = [stage EXCEPT ![w] = s]
      BY <2>1 DEF P!Prefilter, P!Enter, P!Goto
    <2> HIDE DEF c
    <2>3. cmd'[w] = c /\ \A v \in Workers \ {w} : cmd'[v] = cmd[v] /\ stage'[v] = stage[v]
      BY <1>1, <2>2
    <2> QED BY <1>1, <2>1, <2>3 DEF c
  <1>6. ASSUME NEW w \in Workers, Resolve(w)
        PROVE  \A v \in Workers : stage'[v] # "idle" => cmd'[v] = input'[tagged'[v].ev]
    <2>1. UNCHANGED <<tagged, input, cmd>>
      BY <1>6 DEF Resolve, lineVars, P!Resolve, P!Hit, P!Park, P!Claim, P!Score, P!ScoreOK,
                  P!ScoreError, P!Publish, P!Wake
    <2>2. stage[w] # "idle"
      BY <1>6 DEF Resolve, P!Resolve, P!Hit, P!Park, P!Claim, P!Score, P!ScoreOK,
                  P!ScoreError, P!Publish, P!Wake
    <2>3. \A v \in Workers \ {w} : stage'[v] = "idle" <=> stage[v] = "idle"
      BY <1>6, StageMoves
    <2> QED BY <1>1, <2>1, <2>2, <2>3
  <1>7. ASSUME NEW w \in Workers, Send(w)
        PROVE  \A v \in Workers : stage'[v] # "idle" => cmd'[v] = input'[tagged'[v].ev]
    <2>1. UNCHANGED <<tagged, input, cmd>> /\ stage' = [stage EXCEPT ![w] = "idle"]
      BY <1>7 DEF Send, lineVars, P!Leave, P!Goto
    <2> QED BY <1>1, <2>1
  <1>8. CASE \/ UNCHANGED vars
             \/ SkipMalformed \/ SkipNonExec \/ SkipEmpty
             \/ StdinEnds \/ Cancel \/ MainStep \/ WriterStep
    BY <1>2, <1>8 DEF vars, SkipMalformed, SkipNonExec, SkipEmpty, StdinEnds, Cancel,
         MainStep, Signal, AfterPush, CloseQueue, Broadcast, CloseResults, Finish,
         WriterStep, Receive, WriteDue, FlushEnds, WriterEnds, poolVars, lineVars
  <1> QED BY <1>3, <1>4, <1>5, <1>6, <1>7, <1>8 DEF Next, ReadLine, WorkerStep

LEMMA NextFit == QueueOK /\ PoolOK /\ ProcessInv /\ VerdictsFit /\ [Next]_vars => VerdictsFit'
  <1> SUFFICES ASSUME QueueOK, PoolOK, ProcessInv, VerdictsFit, [Next]_vars
               PROVE  VerdictsFit'
    OBVIOUS
  <1> DEFINE FitNow(v) == Fits(input', produced', v)
  <1>0. OwnTypes /\ input \in Seq(Commands) /\ Len(input) = pushed
    BY DEF ProcessInv, OwnTypes, VerdictsFit
  <1>1. Len(input') = pushed' /\ \A v : Fits(input, produced, v) => FitNow(v)
    BY <1>0, InputGrows, FitsGrows
  <1>2. /\ \A i \in 1 .. Len(results) : FitNow(results[i].verdict)
        /\ \A s \in DOMAIN pending : FitNow(pending[s])
        /\ \A i \in 1 .. Len(written) : FitNow(written[i])
    BY <1>1 DEF VerdictsFit
  <1> HIDE DEF FitNow
  <1> DEFINE AllFit == /\ \A i \in 1 .. Len(results') : FitNow(results'[i].verdict)
                       /\ \A s \in DOMAIN pending' : FitNow(pending'[s])
                       /\ \A i \in 1 .. Len(written') : FitNow(written'[i])
  <1>3. AllFit
    <2>1. CASE Unmoved \/ \E w \in Workers : PopTakes(w)
      <3>1. UNCHANGED <<results, pending, written>>
        BY <2>1 DEF Unmoved, PopTakes
      <3> QED BY <1>2, <3>1
    <2>2. ASSUME NEW w \in Workers, Send(w)
          PROVE  AllFit
      <3>1. /\ Len(results') = Len(results) + 1 /\ Len(results) \in Nat
            /\ \A i \in 1 .. Len(results) : results'[i] = results[i]
            /\ results' = Append(results, Verdict(w))
            /\ pending' = pending /\ written' = written
        BY <1>0, <2>2, SendNumbers DEF OwnTypes
      <3>2. results'[Len(results) + 1] = Verdict(w)
        BY <1>0, <3>1 DEF OwnTypes
      <3>3. stage[w] = "resolved" /\ Busy(w)
        BY <2>2 DEF Send, Busy
      <3>4. tagged[w].ev \in 1 .. Len(input) /\ cmd[w] = input[tagged[w].ev]
        BY <1>0, <3>3, BusyEvent DEF VerdictsFit
      <3>5. Fits(input, produced, Verdict(w).verdict)
        <4>1. result[w].source \in {"llm", "cache"} => PP!Given(cmd[w], result[w].risk)
          BY <3>3 DEF PoolOK, PP!Genuine
        <4> QED BY <3>4, <4>1 DEF Fits, Verdict, PP!Given, PP!ApplyFloor, P!ApplyFloor
      <3>6. FitNow(Verdict(w).verdict)
        BY <1>1, <3>5
      <3>7. \A i \in 1 .. Len(results') : i \in 1 .. Len(results) \/ i = Len(results) + 1
        BY <3>1
      <3> QED BY <1>2, <3>1, <3>2, <3>6, <3>7
    <2>3. CASE Receive
      <3> DEFINE first == results[1]
      <3>1. /\ 1 \in 1 .. Len(results)
            /\ Len(results) \in Nat /\ Len(results') = Len(results) - 1
            /\ \A i \in 1 .. Len(results') : results'[i] = results[i + 1]
            /\ DOMAIN pending' = DOMAIN pending \cup {first.seq}
            /\ pending'[first.seq] = first.verdict
            /\ \A s \in DOMAIN pending : s # first.seq => pending'[s] = pending[s]
            /\ written' = written
        BY <1>0, <2>3, ReceiveNumbers
      <3>2. FitNow(first.verdict)
        BY <1>2, <3>1
      <3>3. \A i \in 1 .. Len(results') : i + 1 \in 1 .. Len(results)
        BY <3>1
      <3> HIDE DEF first
      <3> QED BY <1>2, <3>1, <3>2, <3>3
    <2>4. CASE WriteDue
      <3>1. /\ next \in DOMAIN pending /\ written' = Append(written, pending[next])
            /\ pending' = [s \in DOMAIN pending \ {next} |-> pending[s]]
            /\ results' = results
        BY <2>4 DEF WriteDue
      <3>2. /\ Len(written') = Len(written) + 1 /\ Len(written) \in Nat
            /\ \A i \in 1 .. Len(written) : written'[i] = written[i]
            /\ written'[Len(written) + 1] = pending[next]
        BY <1>0, <3>1 DEF OwnTypes
      <3>3. \A i \in 1 .. Len(written') : i \in 1 .. Len(written) \/ i = Len(written) + 1
        BY <3>2
      <3> QED BY <1>2, <3>1, <3>2, <3>3
    <2> QED BY <2>1, <2>2, <2>3, <2>4, PathSteps
  <1>4. \A w \in Workers : stage'[w] # "idle" => cmd'[w] = input'[tagged'[w].ev]
    BY NextCommands
  <1> QED BY <1>1, <1>3, <1>4 DEF VerdictsFit, FitNow

\* No worker, channel or map ever mixes up two execs: whatever reaches stdout
\* for an exec is a score the model gave for the command of that very exec,
\* raised to its rule floor, or comes from the prefilter or a failed call.
THEOREM VerdictsGenuine ==
  SafetySpec => [](\A i \in 1 .. Len(written) : Fits(input, produced, written[i]))
  <1>1. Init => VerdictsFit
    <2> SUFFICES ASSUME Init PROVE VerdictsFit
      OBVIOUS
    <2>1. /\ results = <<>> /\ written = <<>> /\ pending = <<>> /\ input = <<>>
          /\ stage = [w \in Workers |-> "idle"] /\ pushed = 0
      BY DEF Init, P!PoolInit, Q!Init
    <2> QED BY <2>1 DEF VerdictsFit
  <1>2. VerdictsFit => \A i \in 1 .. Len(written) : Fits(input, produced, written[i])
    BY DEF VerdictsFit
  <1> QED BY <1>1, <1>2, NextFit, ProcessInvariant, PTL DEF SafetySpec

=============================================================================
