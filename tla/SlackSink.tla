------------------------------ MODULE SlackSink ------------------------------
(***************************************************************************)
(* The Slack notifier, src/exectrace/internal/sink/slack.go (29-145): any  *)
(* number of goroutines call Maybe and Close; one sender goroutine posts   *)
(* what is in the channel to the webhook.                                  *)
(*                                                                         *)
(* Alerts (verdicts at or above the notifier's threshold) are named 1, 2,  *)
(* ... in the order of the calls of Maybe.  A verdict below the threshold  *)
(* changes nothing here; Report has it.                                    *)
(*                                                                         *)
(* Definitions that no action uses (PanicUncounted, QuitWhenClosed, ...)   *)
(* are mutants of the definition that follows them.                        *)
(***************************************************************************)
EXTENDS Naturals, Sequences

CONSTANTS Callers,      \* the goroutines that hold the notifier
          BufferSize,   \* bufferSize, 256 in the code
          MaxAlerts     \* bound: how many alerts Maybe is called with

ASSUME SinkAssumption == BufferSize \in Nat \ {0} /\ MaxAlerts \in Nat

VARIABLES
  enabled,   \* a webhook is configured
  ch,        \* the channel s.ch
  chClosed,  \* it is closed
  once,      \* s.closeOnce: new, running (its function waits in wg.Wait) or done
  caller,    \* caller[c]: using, draining (in that function), waiting (for it), closed
  sender,    \* none, receive, post or done (wg.Done has run)
  posting,   \* the alert the sender posts, 0 if none
  sent, failed, dropped,   \* the counters
  \* history
  offered,   \* how many alerts Maybe was called with
  accepted   \* those that it put into the channel, in order

counters == <<sent, failed, dropped>>
callerVars == <<once, caller, chClosed>>
sinkVars == <<enabled, ch, callerVars, sender, posting, counters, offered, accepted>>

CallerStates == {"using", "draining", "waiting", "closed"}

SinkInit ==
  /\ enabled \in BOOLEAN
  /\ ch = <<>> /\ chClosed = FALSE
  /\ once = "new" /\ caller = [c \in Callers |-> "using"]
  /\ sender = IF enabled THEN "receive" ELSE "none"
  /\ posting = 0
  /\ sent = 0 /\ failed = 0 /\ dropped = 0
  /\ offered = 0 /\ accepted = <<>>

Goto(c, s) == caller' = [caller EXCEPT ![c] = s]

-----------------------------------------------------------------------------
(* Maybe with an alert.  Calls after Close are allowed.                    *)

EnqueueOneMore ==
  /\ ~chClosed /\ Len(ch) <= BufferSize
  /\ ch' = Append(ch, offered + 1)
  /\ accepted' = Append(accepted, offered + 1)
  /\ UNCHANGED dropped

Enqueue ==
  /\ ~chClosed /\ Len(ch) < BufferSize
  /\ ch' = Append(ch, offered + 1)
  /\ accepted' = Append(accepted, offered + 1)
  /\ UNCHANGED dropped

DropWhenFull ==
  /\ ~chClosed /\ Len(ch) >= BufferSize
  /\ dropped' = dropped + 1
  /\ UNCHANGED <<ch, accepted>>

PanicUncounted == chClosed /\ UNCHANGED <<ch, accepted, dropped>>

\* The send on the closed channel panics; the deferred function recovers.
DropAfterClose ==
  /\ chClosed
  /\ dropped' = dropped + 1
  /\ UNCHANGED <<ch, accepted>>

Maybe(c) ==
  /\ enabled
  /\ caller[c] \in {"using", "closed"}
  /\ offered < MaxAlerts
  /\ offered' = offered + 1
  /\ Enqueue \/ DropWhenFull \/ DropAfterClose
  /\ UNCHANGED <<enabled, callerVars, sender, posting, sent, failed>>

-----------------------------------------------------------------------------
(* Close, any number of times.                                             *)

CloseLeavesOpen(c) ==
  /\ enabled /\ caller[c] \in {"using", "closed"} /\ once = "new"
  /\ once' = "running"
  /\ Goto(c, "draining")
  /\ UNCHANGED <<chClosed, enabled, ch, sender, posting, counters, offered, accepted>>

\* The first call runs the function of closeOnce ...
CloseFirst(c) ==
  /\ enabled /\ caller[c] \in {"using", "closed"} /\ once = "new"
  /\ once' = "running" /\ chClosed' = TRUE
  /\ Goto(c, "draining")
  /\ UNCHANGED <<enabled, ch, sender, posting, counters, offered, accepted>>

CloseAgainReturns(c) ==
  /\ enabled /\ caller[c] \in {"using", "closed"} /\ once # "new"
  /\ Goto(c, "closed")
  /\ UNCHANGED <<enabled, ch, chClosed, once, sender, posting, counters, offered, accepted>>

\* ... and every other one waits in Once.Do until that function has returned.
CloseAgain(c) ==
  /\ enabled /\ caller[c] \in {"using", "closed"} /\ once # "new"
  /\ Goto(c, "waiting")
  /\ UNCHANGED <<enabled, ch, chClosed, once, sender, posting, counters, offered, accepted>>

Drained(c) ==
  /\ caller[c] = "draining" /\ sender = "done"
  /\ once' = "done"
  /\ Goto(c, "closed")
  /\ UNCHANGED <<enabled, ch, chClosed, sender, posting, counters, offered, accepted>>

OnceDone(c) ==
  /\ caller[c] = "waiting" /\ once = "done"
  /\ Goto(c, "closed")
  /\ UNCHANGED <<enabled, ch, chClosed, once, sender, posting, counters, offered, accepted>>

CloseNothing(c) ==
  /\ ~enabled /\ caller[c] \in {"using", "closed"}
  /\ Goto(c, "closed")
  /\ UNCHANGED <<enabled, ch, chClosed, once, sender, posting, counters, offered, accepted>>

-----------------------------------------------------------------------------
(* run and post.                                                           *)

Receive ==
  /\ sender = "receive" /\ ch # <<>>
  /\ posting' = Head(ch) /\ ch' = Tail(ch)
  /\ sender' = "post"
  /\ UNCHANGED <<enabled, callerVars, counters, offered, accepted>>

\* A status of 200 to 299, or any other, or none within the 3 s of httpTO.
Post ==
  /\ sender = "post"
  /\ posting' = 0 /\ sender' = "receive"
  /\ \/ sent' = sent + 1 /\ UNCHANGED failed
     \/ failed' = failed + 1 /\ UNCHANGED sent
  /\ UNCHANGED <<enabled, ch, callerVars, dropped, offered, accepted>>

QuitWhenClosed ==
  /\ sender = "receive" /\ chClosed
  /\ sender' = "done"
  /\ UNCHANGED <<enabled, ch, callerVars, posting, counters, offered, accepted>>

\* The range loop ends when the channel is closed and empty; then wg.Done.
Quit ==
  /\ sender = "receive" /\ chClosed /\ ch = <<>>
  /\ sender' = "done"
  /\ UNCHANGED <<enabled, ch, callerVars, posting, counters, offered, accepted>>

-----------------------------------------------------------------------------
SenderStep == Receive \/ Post \/ Quit

Close(c) == CloseFirst(c) \/ CloseAgain(c) \/ CloseNothing(c)

CloseReturns(c) == Drained(c) \/ OnceDone(c)

SinkNext == SenderStep \/ \E c \in Callers : Maybe(c) \/ Close(c) \/ CloseReturns(c)

SinkSafetySpec == SinkInit /\ [][SinkNext]_sinkVars

\* A post ends within the client's timeout.  Nobody is obliged to call
\* anything.
SinkSpec ==
  /\ SinkSafetySpec
  /\ WF_sinkVars(SenderStep)
  /\ \A c \in Callers : WF_sinkVars(CloseReturns(c))

-----------------------------------------------------------------------------
\* Every variable holds a value of its type, the channel within its buffer.
SinkTypeOK ==
  /\ enabled \in BOOLEAN /\ chClosed \in BOOLEAN
  /\ ch \in Seq(Nat) /\ Len(ch) <= BufferSize
  /\ once \in {"new", "running", "done"}
  /\ caller \in [Callers -> CallerStates]
  /\ sender \in {"none", "receive", "post", "done"}
  /\ posting \in Nat
  /\ sent \in Nat /\ failed \in Nat /\ dropped \in Nat /\ offered \in Nat
  /\ accepted \in Seq(Nat)

InFlight == IF sender = "post" THEN <<posting>> ELSE <<>>

\* Each alert is counted once: in the channel, in flight, sent, failed or
\* dropped, also when Maybe meets a full buffer or the closed channel (slack.go
\* 74-96); and the webhook gets the accepted ones in order.
EveryAlertCounted ==
  /\ offered = Len(accepted) + dropped
  /\ sent + failed + Len(InFlight \o ch) = Len(accepted)
  /\ \A i \in 1 .. Len(InFlight \o ch) :
       (InFlight \o ch)[i] = accepted[sent + failed + i]

\* "waits for in-flight deliveries to drain", for the second caller too (slack.go
\* 130-140): when a Close has returned, every accepted alert was delivered or
\* failed, and the sender is gone.
ClosedMeansDrained ==
  \A c \in Callers : enabled /\ caller[c] = "closed" =>
    sender = "done" /\ sent + failed = Len(accepted)

\* The delivery counters are final once a Close has returned: Stats read after
\* it (slack.go 142) is not overtaken by a late post.
DeliveryFinal ==
  [][(\E c \in Callers : caller[c] = "closed") => UNCHANGED <<sent, failed>>]_sinkVars

\* Every Close returns, whatever the webhook answers.
EveryCloseReturns ==
  \A c \in Callers : caller[c] \in {"draining", "waiting"} ~> caller[c] = "closed"
=============================================================================
