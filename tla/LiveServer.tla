----------------------------- MODULE LiveServer -----------------------------
(***************************************************************************)
(* The hub of the web server, src/exectrace/internal/server/server.go      *)
(* (41-52, 120-144, 182-269): one goroutine publishes verdicts to the      *)
(* store, the ring of recent ones and the connected browsers; each browser *)
(* has a handler goroutine and a writer goroutine, joined by a channel.    *)
(*                                                                         *)
(* Verdicts are named 1, 2, ... in the order of their publication.  The    *)
(* mutex s.mu protects ring and clients; one action is one of its critical *)
(* sections, or one step outside it.  close() closes the channel and then  *)
(* the connection, in one action: a frame written in between could as well *)
(* have been written before.                                               *)
(*                                                                         *)
(* Definitions that no action uses (RecordKeepsAll, RegisterFromStore,     *)
(* ...) are mutants of the definition that follows them.                   *)
(***************************************************************************)
EXTENDS Naturals, Sequences, FiniteSets

CONSTANTS Clients,      \* the browsers that may connect, each once
          RingSize,     \* ringSize, 500 in the code
          SendBuffer,   \* sendBuffer, 256 in the code
          MaxVerdicts,  \* bound: how many verdicts are published
          MaxFailures   \* bound: how many of them the store refuses

ASSUME ServerAssumption ==
  /\ RingSize \in Nat \ {0}
  /\ SendBuffer \in Nat \ {0}
  /\ MaxVerdicts \in Nat
  /\ MaxFailures \in Nat

VARIABLES
  \* the publisher goroutine
  publisher,   \* idle, recording (about to take s.mu), sending
  published,   \* how many verdicts Publish was called with
  targets,     \* the clients of its snapshot that are still to be sent to
  \* the Server
  rows,        \* the verdicts in the store
  ring,        \* s.ring
  clients,     \* s.clients
  crashed,     \* a goroutine without a recover has panicked
  \* each client and its two goroutines
  handler,     \* handler[c]: where handleWS stands
  backlog,     \* backlog[c]: what it has still to send of its snapshot
  writer,      \* writer[c]: none, receive, write or done
  out,         \* out[c]: the channel c.out
  outClosed,   \* outClosed[c]: it is closed
  connOpen,    \* connOpen[c]: the server has not closed the connection
  \* history
  since,       \* since[c]: the oldest verdict in c's snapshot, or the next one
  joined,      \* joined[c]: the newest verdict recorded when c registered
  queued,      \* queued[c]: the verdicts put into c.out, in order
  dropped      \* dropped[c]: those dropped because c.out was full

publisherVars == <<publisher, published, targets>>
hubVars == <<rows, ring, clients>>
clientVars == <<handler, backlog, writer, out, outClosed, connOpen, since, joined, queued, dropped>>
vars == <<publisherVars, hubVars, crashed, clientVars>>

\* reading: in readUntilClose; panicked: a send on the closed channel panicked
\* and net/http recovered it, so that what follows in handleWS never runs
HandlerStates == {"absent", "backlog", "reading", "unregister", "closing", "gone", "panicked"}

Init ==
  /\ publisher = "idle" /\ published = 0 /\ targets = {}
  /\ rows = <<>> /\ ring = <<>> /\ clients = {}
  /\ crashed = FALSE
  /\ handler = [c \in Clients |-> "absent"]
  /\ backlog = [c \in Clients |-> <<>>]
  /\ writer = [c \in Clients |-> "none"]
  /\ out = [c \in Clients |-> <<>>]
  /\ outClosed = [c \in Clients |-> FALSE]
  /\ connOpen = [c \in Clients |-> FALSE]
  /\ since = [c \in Clients |-> 0]
  /\ joined = [c \in Clients |-> 0]
  /\ queued = [c \in Clients |-> <<>>]
  /\ dropped = [c \in Clients |-> {}]

\* The last n elements, in order.
Newest(s, n) == IF Len(s) > n THEN SubSeq(s, Len(s) - n + 1, Len(s)) ELSE s

\* How many verdicts Publish has put into the ring.
Recorded == IF publisher = "recording" THEN published - 1 ELSE published

QueueOneMore(c, v) ==
  \/ /\ Len(out[c]) <= SendBuffer
     /\ out' = [out EXCEPT ![c] = Append(@, v)]
     /\ queued' = [queued EXCEPT ![c] = Append(@, v)]
     /\ dropped' = dropped
  \/ /\ Len(out[c]) > SendBuffer
     /\ dropped' = [dropped EXCEPT ![c] = @ \cup {v}]
     /\ UNCHANGED <<out, queued>>

\* client.send on an open channel: queue, or drop when the buffer is full.
Queue(c, v) ==
  \/ /\ Len(out[c]) < SendBuffer
     /\ out' = [out EXCEPT ![c] = Append(@, v)]
     /\ queued' = [queued EXCEPT ![c] = Append(@, v)]
     /\ dropped' = dropped
  \/ /\ Len(out[c]) >= SendBuffer
     /\ dropped' = [dropped EXCEPT ![c] = @ \cup {v}]
     /\ UNCHANGED <<out, queued>>

-----------------------------------------------------------------------------
(* Publish, by the goroutine that reads stdin.                             *)

\* store.Insert comes first, outside the mutex; a failure is logged only.
Persist ==
  /\ publisher = "idle"
  /\ published < MaxVerdicts
  /\ published' = published + 1
  /\ \/ rows' = Append(rows, published + 1)
     \/ published - Len(rows) < MaxFailures /\ rows' = rows
  /\ publisher' = "recording"
  /\ UNCHANGED <<targets, ring, clients, crashed, clientVars>>

RecordKeepsAll ==
  /\ publisher = "recording"
  /\ ring' = Append(ring, published)
  /\ targets' = clients
  /\ publisher' = "sending"
  /\ UNCHANGED <<published, rows, clients, crashed, clientVars>>

\* The critical section: the ring, and a snapshot of the clients.
Record ==
  /\ publisher = "recording"
  /\ ring' = Newest(Append(ring, published), RingSize)
  /\ targets' = clients
  /\ publisher' = "sending"
  /\ UNCHANGED <<published, rows, clients, crashed, clientVars>>

FanOutBlocks(c) ==
  /\ publisher = "sending" /\ c \in targets
  /\ ~outClosed[c] /\ Len(out[c]) < SendBuffer
  /\ targets' = targets \ {c}
  /\ out' = [out EXCEPT ![c] = Append(@, published)]
  /\ queued' = [queued EXCEPT ![c] = Append(@, published)]
  /\ UNCHANGED <<publisher, published, hubVars, crashed, dropped,
                 handler, backlog, writer, outClosed, connOpen, since, joined>>

\* One send of the loop over the snapshot, in any order of the map's keys.
FanOut(c) ==
  /\ publisher = "sending" /\ c \in targets
  /\ ~outClosed[c]
  /\ targets' = targets \ {c}
  /\ Queue(c, published)
  /\ UNCHANGED <<publisher, published, hubVars, crashed,
                 handler, backlog, writer, outClosed, connOpen, since, joined>>

\* A send on a closed channel panics, and nothing recovers it: the process ends.
FanOutPanics(c) ==
  /\ publisher = "sending" /\ c \in targets
  /\ outClosed[c]
  /\ crashed' = TRUE
  /\ UNCHANGED <<publisherVars, hubVars, clientVars>>

PublishReturns ==
  /\ publisher = "sending" /\ targets = {}
  /\ publisher' = "idle"
  /\ UNCHANGED <<published, targets, hubVars, crashed, clientVars>>

-----------------------------------------------------------------------------
(* handleWS, one goroutine for each client.                                *)

Goto(c, h) == handler' = [handler EXCEPT ![c] = h]

RegisterFromStore(c) ==
  /\ handler[c] = "absent"
  /\ Goto(c, "backlog")
  /\ backlog' = [backlog EXCEPT ![c] = Newest(rows, RingSize)]
  /\ since' = [since EXCEPT ![c] = Recorded - Len(ring) + 1]
  /\ joined' = [joined EXCEPT ![c] = Recorded]
  /\ clients' = clients \cup {c}
  /\ connOpen' = [connOpen EXCEPT ![c] = TRUE]
  /\ writer' = [writer EXCEPT ![c] = "receive"]
  /\ UNCHANGED <<publisherVars, rows, ring, crashed, out, outClosed, queued, dropped>>

\* Upgrade, then the critical section that registers the client together with
\* a snapshot of the ring, then the start of its writer.
Register(c) ==
  /\ handler[c] = "absent"
  /\ Goto(c, "backlog")
  /\ backlog' = [backlog EXCEPT ![c] = ring]
  /\ since' = [since EXCEPT ![c] = Recorded - Len(ring) + 1]
  /\ joined' = [joined EXCEPT ![c] = Recorded]
  /\ clients' = clients \cup {c}
  /\ connOpen' = [connOpen EXCEPT ![c] = TRUE]
  /\ writer' = [writer EXCEPT ![c] = "receive"]
  /\ UNCHANGED <<publisherVars, rows, ring, crashed, out, outClosed, queued, dropped>>

SendNewestFirst(c) ==
  /\ handler[c] = "backlog" /\ backlog[c] # <<>>
  /\ ~outClosed[c]
  /\ Queue(c, backlog[c][Len(backlog[c])])
  /\ backlog' = [backlog EXCEPT ![c] = SubSeq(@, 1, Len(@) - 1)]
  /\ UNCHANGED <<publisherVars, hubVars, crashed,
                 handler, writer, outClosed, connOpen, since, joined>>

\* One send of the loop over the backlog; live verdicts may be queued between.
SendBacklog(c) ==
  /\ handler[c] = "backlog" /\ backlog[c] # <<>>
  /\ ~outClosed[c]
  /\ Queue(c, Head(backlog[c]))
  /\ backlog' = [backlog EXCEPT ![c] = Tail(@)]
  /\ UNCHANGED <<publisherVars, hubVars, crashed,
                 handler, writer, outClosed, connOpen, since, joined>>

\* The writer failed and closed the channel meanwhile: the handler panics.  Its
\* connection's goroutine in net/http recovers, and the client stays registered.
BacklogPanics(c) ==
  /\ handler[c] = "backlog" /\ backlog[c] # <<>>
  /\ outClosed[c]
  /\ Goto(c, "panicked")
  /\ UNCHANGED <<publisherVars, hubVars, crashed,
                 backlog, writer, out, outClosed, connOpen, since, joined, queued, dropped>>

BacklogSent(c) ==
  /\ handler[c] = "backlog" /\ backlog[c] = <<>>
  /\ Goto(c, "reading")
  /\ UNCHANGED <<publisherVars, hubVars, crashed,
                 backlog, writer, out, outClosed, connOpen, since, joined, queued, dropped>>

ReadFailsStaysRegistered(c) ==
  /\ handler[c] = "reading" /\ ~connOpen[c]
  /\ Goto(c, "closing")
  /\ UNCHANGED <<publisherVars, hubVars, crashed,
                 backlog, writer, out, outClosed, connOpen, since, joined, queued, dropped>>

\* ReadMessage fails: the browser closed its page or lost its connection, at
\* any time ...
PeerLeaves(c) ==
  /\ handler[c] = "reading" /\ connOpen[c]
  /\ Goto(c, "unregister")
  /\ UNCHANGED <<publisherVars, hubVars, crashed,
                 backlog, writer, out, outClosed, connOpen, since, joined, queued, dropped>>

\* ... or the writer closed the connection.
ReadFails(c) ==
  /\ handler[c] = "reading" /\ ~connOpen[c]
  /\ Goto(c, "unregister")
  /\ UNCHANGED <<publisherVars, hubVars, crashed,
                 backlog, writer, out, outClosed, connOpen, since, joined, queued, dropped>>

Unregister(c) ==
  /\ handler[c] = "unregister"
  /\ clients' = clients \ {c}
  /\ Goto(c, "closing")
  /\ UNCHANGED <<publisherVars, rows, ring, crashed,
                 backlog, writer, out, outClosed, connOpen, since, joined, queued, dropped>>

\* closeOnce: the second of the two goroutines to come finds both closed.
Close(c) == /\ outClosed' = [outClosed EXCEPT ![c] = TRUE]
            /\ connOpen' = [connOpen EXCEPT ![c] = FALSE]

HandlerCloses(c) ==
  /\ handler[c] = "closing"
  /\ Goto(c, "gone")
  /\ Close(c)
  /\ UNCHANGED <<publisherVars, hubVars, crashed,
                 backlog, writer, out, since, joined, queued, dropped>>

-----------------------------------------------------------------------------
(* writeLoop, one goroutine for each client.                               *)

WriterAt(c, w) == writer' = [writer EXCEPT ![c] = w]

\* A closed channel still yields what is buffered.
TakeFrame(c) ==
  /\ writer[c] = "receive" /\ out[c] # <<>>
  /\ out' = [out EXCEPT ![c] = Tail(@)]
  /\ WriterAt(c, "write")
  /\ UNCHANGED <<publisherVars, hubVars, crashed,
                 handler, backlog, outClosed, connOpen, since, joined, queued, dropped>>

FrameWritten(c) ==
  /\ writer[c] = "write" /\ connOpen[c]
  /\ WriterAt(c, "receive")
  /\ UNCHANGED <<publisherVars, hubVars, crashed,
                 handler, backlog, out, outClosed, connOpen, since, joined, queued, dropped>>

\* The peer is gone, the connection closed, or the browser too slow for the
\* write deadline of 5 s: the writer closes and returns.
WriteFails(c) ==
  /\ writer[c] = "write"
  /\ WriterAt(c, "done")
  /\ Close(c)
  /\ UNCHANGED <<publisherVars, hubVars, crashed,
                 handler, backlog, out, since, joined, queued, dropped>>

WriterReturns(c) ==
  /\ writer[c] = "receive" /\ outClosed[c] /\ out[c] = <<>>
  /\ WriterAt(c, "done")
  /\ UNCHANGED <<publisherVars, hubVars, crashed,
                 handler, backlog, out, outClosed, connOpen, since, joined, queued, dropped>>

-----------------------------------------------------------------------------
PublishStep == Record \/ PublishReturns \/ \E c \in Clients : FanOut(c) \/ FanOutPanics(c)

HandlerStep(c) == \/ SendBacklog(c) \/ BacklogPanics(c) \/ BacklogSent(c)
                  \/ ReadFails(c) \/ Unregister(c) \/ HandlerCloses(c)

WriterStep(c) == TakeFrame(c) \/ FrameWritten(c) \/ WriteFails(c) \/ WriterReturns(c)

\* Nothing is left to do: the process is gone, or stdin is silent and every
\* browser has left.
Stopped ==
  \/ crashed
  \/ /\ publisher = "idle" /\ published = MaxVerdicts
     /\ \A c \in Clients : handler[c] \in {"gone", "panicked"} /\ writer[c] = "done"

Next ==
  \/ /\ ~crashed
     /\ \/ Persist \/ PublishStep
        \/ \E c \in Clients : Register(c) \/ HandlerStep(c) \/ WriterStep(c) \/ PeerLeaves(c)
  \/ Stopped /\ UNCHANGED vars

SafetySpec == Init /\ [][Next]_vars

\* The goroutines of Publish and of the handlers run.  Nothing is assumed of
\* the writers, which wait for browsers, nor of stdin and the browsers.
Spec ==
  /\ SafetySpec
  /\ WF_vars(~crashed /\ PublishStep)
  /\ \A c \in Clients : WF_vars(~crashed /\ HandlerStep(c))

-----------------------------------------------------------------------------
Elements(s) == {s[i] : i \in 1 .. Len(s)}

\* Every variable holds a value of its type, the channels within their buffer.
TypeOK ==
  /\ publisher \in {"idle", "recording", "sending"}
  /\ published \in Nat
  /\ targets \subseteq Clients /\ clients \subseteq Clients
  /\ rows \in Seq(Nat) /\ ring \in Seq(Nat)
  /\ crashed \in BOOLEAN
  /\ handler \in [Clients -> HandlerStates]
  /\ backlog \in [Clients -> Seq(Nat)]
  /\ writer \in [Clients -> {"none", "receive", "write", "done"}]
  /\ out \in [Clients -> Seq(Nat)]
  /\ \A c \in Clients : Len(out[c]) <= SendBuffer
  /\ outClosed \in [Clients -> BOOLEAN]
  /\ connOpen \in [Clients -> BOOLEAN]
  /\ since \in [Clients -> Nat]
  /\ joined \in [Clients -> Nat]
  /\ queued \in [Clients -> Seq(Nat)]
  /\ dropped \in [Clients -> SUBSET Nat]

\* The ring holds the newest verdicts, in order and without a gap, whether or
\* not the store took them (server.go 44-46, 130-134).
RingIsNewest ==
  /\ Len(ring) = IF Recorded < RingSize THEN Recorded ELSE RingSize
  /\ \A i \in 1 .. Len(ring) : ring[i] = Recorded - Len(ring) + i

\* "so we can't miss a verdict published between snapshot and register"
\* (server.go 189-191): for a registered client, each verdict from the oldest
\* of its backlog on was queued, was dropped for lack of room, or is still to
\* be sent by its handler or by Publish, exactly one of these and once.  (A
\* handler that panicked stays registered: its rest counts as still to be sent.)
NoneMissed ==
  \A c \in clients :
    LET live == IF c \in targets THEN {published} ELSE {} IN
    /\ Elements(queued[c]) \cup dropped[c] \cup Elements(backlog[c]) \cup live
         = since[c] .. Recorded
    /\ Len(queued[c]) + Cardinality(dropped[c]) + Len(backlog[c]) + Cardinality(live)
         = Recorded + 1 - since[c]

\* The backlog is queued in order, and so are the live verdicts: the only
\* verdict that can overtake another is a live one, published after the client
\* registered, and only one of the backlog.
OrderKept ==
  \A c \in Clients : \A i, j \in 1 .. Len(queued[c]) :
    i < j /\ queued[c][i] > queued[c][j] =>
      queued[c][j] <= joined[c] /\ joined[c] < queued[c][i]

\* "drop rather than stall the whole stream" (server.go 231-232): Publish
\* returns although no writer ever takes a frame.
PublishNeverStalls == publisher = "sending" ~> publisher = "idle" \/ crashed

\* A client whose channel is closed leaves the set of clients, whoever closed
\* it, unless the process or its handler panicked.
ClosedLeavesHub ==
  \A c \in Clients :
    outClosed[c] ~> c \notin clients \/ crashed \/ handler[c] = "panicked"

\* "Safe for concurrent use: Publish ... and the HTTP handlers ... all go
\* through the mutex" (server.go 41-43): no send meets a closed channel.
SafeForConcurrentUse == ~crashed

\* "ringSize is how many recent verdicts a freshly-connected browser receives"
\* (server.go 29): none of the backlog is dropped on the way.
BacklogReceived ==
  \A c \in Clients : \A v \in dropped[c] : v > joined[c]
=============================================================================
