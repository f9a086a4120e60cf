------------------------------- MODULE Scorer -------------------------------
(***************************************************************************)
(* The whole scorer process, main() of src/scorer/main.go (110-220): the   *)
(* stdin reader and the shutdown sequence of the main goroutine, the       *)
(* worker goroutines, and the ordered writer, composed from PendingQueue   *)
(* and ScorerPool.  A worker pops an event, resolves it and sends the      *)
(* verdict, tagged with the event's sequence number, to a bounded channel; *)
(* the writer reorders the verdicts by sequence number.                    *)
(*                                                                         *)
(* Definitions that no action uses (CloseResultsEarly, FinishEarly, ...)   *)
(* are mutants of the definition that follows them.                        *)
(***************************************************************************)
EXTENDS Naturals, Sequences, FiniteSets

CONSTANTS Workers, Capacity,                     \* the pending queue
          Commands, Benign, Floor, FloorOn,      \* the pool
          MaxRisk, ErrorRisk, CacheSize,
          ResultsCap,    \* capacity of the results channel (1024 in main.go)
          MaxLines       \* bound: how many lines stdin delivers

ASSUME ScorerAssumption == ResultsCap \in Nat \ {0}
ASSUME MaxLinesAssumption == MaxLines \in Nat

\* The parts' own assumptions (PendingQueue and ScorerPool state why).
ASSUME CapacityAssumption == Capacity \in Nat \ {0}
ASSUME WorkersAssumption == IsFiniteSet(Workers)
ASSUME PoolAssumption ==
  /\ Commands # {} /\ Benign \subseteq Commands
  /\ "nobody" \notin Workers
  /\ MaxRisk \in Nat /\ ErrorRisk \in 0 .. MaxRisk
  /\ Floor \in [Commands -> 0 .. MaxRisk] /\ FloorOn \in BOOLEAN
  /\ CacheSize \in Nat \ {0}

VARIABLES
  \* of PendingQueue
  buf, head, count, seq, closed, dropped, reader, worker, pushed, given,
  \* of ScorerPool
  cache, inflight, stage, cmd, leader, result,
  prefiltered, hits, scored, calls, produced, successes, evictions,
  \* the main goroutine
  main,        \* what it does next
  read, nonExec, emptyCmd, malformed,   \* line counters (malformed: history)
  cancelled,   \* ctx was cancelled by SIGINT or SIGTERM
  input,       \* input[e]: the command of the e-th accepted exec
  \* between the worker goroutines and the writer
  tagged,      \* tagged[w]: the seq and event of worker w's last Pop
  results,     \* the results channel
  resultsClosed,
  \* the writer goroutine
  pending,     \* verdicts that came early, by sequence number
  next,        \* the sequence number to be written next
  written,     \* the verdicts written to stdout
  writer       \* "receive", "flush" or "done"

queueVars == <<buf, head, count, seq, closed, dropped, reader, worker, pushed, given>>
poolVars == <<cache, inflight, stage, cmd, leader, result,
              prefiltered, hits, scored, calls, produced, successes, evictions>>
lineVars == <<read, nonExec, emptyCmd, malformed, input>>
writerVars == <<pending, next, written, writer>>
vars == <<queueVars, poolVars, main, lineVars, cancelled, tagged, results,
          resultsClosed, writerVars>>

Q == INSTANCE PendingQueue WITH MaxPushes <- MaxLines
P == INSTANCE ScorerPool WITH MaxCalls <- MaxLines

\* reading: in the read loop; pushing: Push returned to the loop once it has
\* signalled; stopped: out of the loop; draining: in wg.Wait; awaiting: in
\* <-done; finished: the summary is printed
MainStates == {"reading", "pushing", "stopped", "draining", "awaiting", "finished"}

Init ==
  /\ Q!Init
  /\ P!PoolInit
  /\ main = "reading"
  /\ read = 0 /\ nonExec = 0 /\ emptyCmd = 0 /\ malformed = 0
  /\ cancelled = FALSE
  /\ input = <<>>
  /\ tagged = [w \in Workers |-> [seq |-> 0, ev |-> 0]]
  /\ results = <<>>
  /\ resultsClosed = FALSE
  /\ pending = <<>>
  /\ next = 0
  /\ written = <<>>
  /\ writer = "receive"

-----------------------------------------------------------------------------
(* The main goroutine.  Blank lines change nothing.                        *)

Line == main = "reading" /\ read < MaxLines /\ read' = read + 1

\* A line that does not decode, as an envelope or as an exec: counted in read
\* alone.
SkipMalformed ==
  /\ Line
  /\ malformed' = malformed + 1
  /\ UNCHANGED <<queueVars, poolVars, main, nonExec, emptyCmd, input, cancelled,
                 tagged, results, resultsClosed, writerVars>>

SkipNonExec ==
  /\ Line
  /\ nonExec' = nonExec + 1
  /\ UNCHANGED <<queueVars, poolVars, main, emptyCmd, malformed, input, cancelled,
                 tagged, results, resultsClosed, writerVars>>

SkipEmpty ==
  /\ Line
  /\ emptyCmd' = emptyCmd + 1
  /\ UNCHANGED <<queueVars, poolVars, main, nonExec, malformed, input, cancelled,
                 tagged, results, resultsClosed, writerVars>>

PushExec(c) ==
  /\ Line
  /\ Q!Push
  /\ input' = Append(input, c)
  /\ main' = "pushing"
  /\ UNCHANGED <<poolVars, nonExec, emptyCmd, malformed, cancelled,
                 tagged, results, resultsClosed, writerVars>>

Signal ==
  /\ Q!Signal
  /\ UNCHANGED <<poolVars, main, lineVars, cancelled, tagged, results,
                 resultsClosed, writerVars>>

\* Only here, after a push, does the loop look at the context (206-208): a
\* cancelled reader stays in Scan until stdin delivers an exec or ends.
AfterPush ==
  /\ main = "pushing" /\ reader = "run"
  /\ main' = IF cancelled THEN "stopped" ELSE "reading"
  /\ UNCHANGED <<queueVars, poolVars, lineVars, cancelled, tagged, results,
                 resultsClosed, writerVars>>

\* End of stdin, or a read error.
StdinEnds ==
  /\ main = "reading"
  /\ main' = "stopped"
  /\ UNCHANGED <<queueVars, poolVars, lineVars, cancelled, tagged, results,
                 resultsClosed, writerVars>>

\* SIGINT or SIGTERM, at any time.
Cancel ==
  /\ ~cancelled
  /\ main \in {"reading", "pushing", "stopped", "draining"}
  /\ cancelled' = TRUE
  /\ UNCHANGED <<queueVars, poolVars, main, lineVars, tagged, results,
                 resultsClosed, writerVars>>

CloseQueue ==
  /\ main = "stopped"
  /\ Q!Close
  /\ main' = "draining"
  /\ UNCHANGED <<poolVars, lineVars, cancelled, tagged, results,
                 resultsClosed, writerVars>>

Broadcast ==
  /\ Q!Broadcast
  /\ UNCHANGED <<poolVars, main, lineVars, cancelled, tagged, results,
                 resultsClosed, writerVars>>

CloseResultsEarly ==
  /\ main = "draining" /\ reader = "done"
  /\ resultsClosed' = TRUE
  /\ main' = "awaiting"
  /\ UNCHANGED <<queueVars, poolVars, lineVars, cancelled, tagged, results, writerVars>>

\* wg.Wait returns, and no worker is left to send.
CloseResults ==
  /\ main = "draining" /\ reader = "done"
  /\ Q!In("exited") = Workers
  /\ resultsClosed' = TRUE
  /\ main' = "awaiting"
  /\ UNCHANGED <<queueVars, poolVars, lineVars, cancelled, tagged, results, writerVars>>

FinishEarly ==
  /\ main = "awaiting"
  /\ main' = "finished"
  /\ UNCHANGED <<queueVars, poolVars, lineVars, cancelled, tagged, results,
                 resultsClosed, writerVars>>

\* <-done returns and the summary is printed.
Finish ==
  /\ main = "awaiting" /\ writer = "done"
  /\ main' = "finished"
  /\ UNCHANGED <<queueVars, poolVars, lineVars, cancelled, tagged, results,
                 resultsClosed, writerVars>>

-----------------------------------------------------------------------------
(* The worker goroutines.                                                  *)

Pop(w) ==
  /\ \/ /\ Q!Take(w)
        /\ tagged' = [tagged EXCEPT ![w] = [seq |-> seq, ev |-> buf[head]]]
     \/ (Q!Wait(w) \/ Q!Exit(w)) /\ UNCHANGED tagged
  /\ UNCHANGED <<poolVars, main, lineVars, cancelled, results, resultsClosed, writerVars>>

\* p.resolve is called on the event popped.
CallResolve(w) ==
  /\ worker[w] = "busy"
  /\ LET c == input[tagged[w].ev] IN P!Prefilter(w, c) \/ P!Enter(w, c)
  /\ UNCHANGED <<queueVars, main, lineVars, cancelled, tagged, results,
                 resultsClosed, writerVars>>

\* A cancelled context fails the model call; a call that has its answer already
\* may still succeed.
Resolve(w) ==
  /\ P!Resolve(w)
  /\ UNCHANGED <<queueVars, main, lineVars, cancelled, tagged, results,
                 resultsClosed, writerVars>>

\* results <- seqVerdict{...}: blocks while the channel is full.
Send(w) ==
  /\ worker[w] = "busy" /\ stage[w] = "resolved"
  /\ Len(results) < ResultsCap
  /\ results' = Append(results,
       [seq |-> tagged[w].seq,
        verdict |-> [ev |-> tagged[w].ev, risk |-> result[w].risk, source |-> result[w].source]])
  /\ P!Leave(w)
  /\ Q!Return(w)
  /\ UNCHANGED <<main, lineVars, cancelled, tagged, resultsClosed, writerVars>>

-----------------------------------------------------------------------------
(* The ordered writer.                                                     *)

Receive ==
  /\ writer = "receive"
  /\ results # <<>>
  /\ LET sv == Head(results) IN
       pending' = [s \in DOMAIN pending \cup {sv.seq} |->
                     IF s = sv.seq THEN sv.verdict ELSE pending[s]]
  /\ results' = Tail(results)
  /\ writer' = "flush"
  /\ UNCHANGED <<queueVars, poolVars, main, lineVars, cancelled, tagged,
                 resultsClosed, next, written>>

WriteFirstComer ==
  /\ writer = "flush"
  /\ \E s \in DOMAIN pending :
       /\ written' = Append(written, pending[s])
       /\ pending' = [t \in DOMAIN pending \ {s} |-> pending[t]]
  /\ next' = next + 1
  /\ UNCHANGED <<queueVars, poolVars, main, lineVars, cancelled, tagged, results,
                 resultsClosed, writer>>

WriteKeepsPending ==
  /\ writer = "flush"
  /\ next \in DOMAIN pending
  /\ written' = Append(written, pending[next])
  /\ next' = next + 1
  /\ UNCHANGED <<queueVars, poolVars, main, lineVars, cancelled, tagged, results,
                 resultsClosed, pending, writer>>

\* One turn of the inner loop: the verdict that is due is written.
WriteDue ==
  /\ writer = "flush"
  /\ next \in DOMAIN pending
  /\ written' = Append(written, pending[next])
  /\ pending' = [s \in DOMAIN pending \ {next} |-> pending[s]]
  /\ next' = next + 1
  /\ UNCHANGED <<queueVars, poolVars, main, lineVars, cancelled, tagged, results,
                 resultsClosed, writer>>

\* The verdict that is due has not come yet.
FlushEnds ==
  /\ writer = "flush"
  /\ next \notin DOMAIN pending
  /\ writer' = "receive"
  /\ UNCHANGED <<queueVars, poolVars, main, lineVars, cancelled, tagged, results,
                 resultsClosed, pending, next, written>>

\* The channel is closed and empty: the range loop ends, done is closed.
WriterEnds ==
  /\ writer = "receive"
  /\ resultsClosed /\ results = <<>>
  /\ writer' = "done"
  /\ UNCHANGED <<queueVars, poolVars, main, lineVars, cancelled, tagged, results,
                 resultsClosed, pending, next, written>>

-----------------------------------------------------------------------------
ReadLine == SkipMalformed \/ SkipNonExec \/ SkipEmpty \/ \E c \in Commands : PushExec(c)

MainStep == Signal \/ AfterPush \/ CloseQueue \/ Broadcast \/ CloseResults \/ Finish

WorkerStep(w) == Pop(w) \/ CallResolve(w) \/ Resolve(w) \/ Send(w)

WriterStep == Receive \/ WriteDue \/ FlushEnds \/ WriterEnds

Next == \/ ReadLine \/ StdinEnds \/ Cancel \/ MainStep
        \/ \E w \in Workers : WorkerStep(w)
        \/ WriterStep
        \/ main = "finished" /\ UNCHANGED vars

\* The goroutines run and Score returns within the HTTP timeout; a channel or a
\* mutex serves whoever waits for it, and the next program reads stdout, so that
\* Encode returns.  Nothing obliges stdin to deliver or end, nor a signal to come.
Fairness == /\ WF_vars(MainStep)
            /\ \A w \in Workers : WF_vars(WorkerStep(w))
            /\ WF_vars(WriterStep)

SafetySpec == Init /\ [][Next]_vars
Spec == SafetySpec /\ Fairness

-----------------------------------------------------------------------------
\* Where a sequence number handed out and not yet written may be.
HeldSeqs == {tagged[w].seq : w \in Q!In("busy")}
SentSeqs == {results[i].seq : i \in 1 .. Len(results)}

\* The process's own variables hold values of their types, and those of its
\* parts do.
ScorerTypeOK ==
  /\ Q!TypeOK
  /\ P!PoolTypeOK
  /\ main \in MainStates
  /\ read \in Nat /\ nonExec \in Nat /\ emptyCmd \in Nat /\ malformed \in Nat
  /\ cancelled \in BOOLEAN
  /\ input \in Seq(Commands)
  /\ tagged \in [Workers -> [seq : Nat, ev : Nat]]
  /\ Len(results) <= ResultsCap
  /\ resultsClosed \in BOOLEAN
  /\ DOMAIN pending \subseteq Nat
  /\ next \in Nat
  /\ writer \in {"receive", "flush", "done"}

\* stdout is the sequence of popped events, in the order of the pops: no
\* verdict is written twice, skipped or overtaken, however the workers race.
WrittenInOrder ==
  /\ Len(written) = next
  /\ \A i \in 1 .. Len(written) : written[i].ev = given[i].ev

\* No sequence number is lost between Pop and the writer: each one from `next'
\* on is with exactly one of a worker, the channel and the pending map, so the
\* writer never waits for a verdict nobody owes it.
NoVerdictLost ==
  /\ HeldSeqs \cup SentSeqs \cup DOMAIN pending = next .. seq - 1
  /\ Cardinality(Q!In("busy")) + Len(results) + Cardinality(DOMAIN pending) = seq - next

\* The results channel is closed only when every sender is gone: a send on it
\* would panic.
NoSendAfterClose == resultsClosed => Q!In("exited") = Workers

\* The summary line adds up when the process ends: every line read was skipped
\* for a reason or pushed, every event pushed was dropped or written, every
\* verdict came from one of the three sources that are counted.
SummaryAddsUp ==
  main = "finished" =>
    /\ read = malformed + nonExec + emptyCmd + pushed
    /\ pushed = dropped + Len(written)
    /\ Len(written) = prefiltered + hits + scored

\* Once the read loop is left, the process ends, whatever fails meanwhile.
ShutdownCompletes == main = "stopped" ~> main = "finished"

\* Every event popped is written, even if stdin stays open and silent.
EveryPopWritten == \A n \in 1 .. MaxLines : seq >= n ~> Len(written) >= n

-----------------------------------------------------------------------------
BufferedEvents == {Q!Buffered(k) : k \in 0 .. count - 1}
GivenEvents == {given[i].ev : i \in 1 .. Len(given)}

Stream == INSTANCE VerdictStream WITH
  accepted <- pushed,
  lost     <- (1 .. pushed) \ (BufferedEvents \cup GivenEvents),
  written  <- [i \in 1 .. Len(written) |-> written[i].ev],
  ended    <- main = "finished"

\* Reader, queue, pool and writer together keep the scorer's promise: whatever
\* reaches stdout or is lost, whenever the process ends, and that what is owed
\* is written in the end.
ImplementsStream == Stream!Spec
=============================================================================
