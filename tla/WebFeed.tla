------------------------------ MODULE WebFeed ------------------------------
(***************************************************************************)
(* One page of the web UI, src/exectrace/web/src/lib/useVerdicts.ts,       *)
(* composed with the hub (LiveServer) and with the query of the store that *)
(* serves its history (internal/store/store.go 95-149): the page loads the *)
(* history, then follows the websocket, and connects again 1.5 s after it  *)
(* is closed.  Each of its connections is another client of the hub.       *)
(*                                                                         *)
(* A verdict's time is a number: the scorer stamps whole seconds, when a   *)
(* worker is done, so times may be equal or out of order.                  *)
(*                                                                         *)
(* OnMessageRaisesMark and OnMessageAtMark are mutants of OnMessage.       *)
(***************************************************************************)
EXTENDS Naturals, Sequences, FiniteSets, SequencesExt

CONSTANTS Clients,       \* the connections the page may make
          RingSize, SendBuffer, MaxVerdicts, MaxFailures,   \* the hub's
          HistoryLimit,  \* the limit the page asks for, 500
          MaxItems,      \* MAX_ITEMS, 1000
          Times          \* the times verdicts carry, milliseconds since 1970

ASSUME FeedAssumption ==
  HistoryLimit \in Nat \ {0} /\ MaxItems \in Nat \ {0} /\ Times \subseteq Nat

ASSUME HubAssumption ==
  /\ RingSize \in Nat \ {0} /\ SendBuffer \in Nat \ {0}
  /\ MaxVerdicts \in Nat /\ MaxFailures \in Nat

VARIABLES
  \* the hub
  publisher, published, targets, rows, ring, clients, crashed,
  handler, backlog, writer, out, outClosed, connOpen, since, joined, queued, dropped,
  \* the page
  ts,          \* ts[v]: the time verdict v is stamped with
  page,        \* loading, answered, connecting, open, waiting, unmounted
  answer,      \* the history the server answered with, newest first
  conn,        \* the page's connection
  hand,        \* hand[c]: the frame the writer of c has taken
  hwm,         \* the high-water mark
  items,       \* what the page shows, newest first
  \* history
  loaded,      \* the verdicts recorded from the history
  shown,       \* the verdicts recorded, from the history or live
  skipped,     \* those of the frames that were not recorded
  connects     \* how many connections the page has had

Hub == INSTANCE LiveServer

hubAll == <<publisher, published, targets, rows, ring, clients, crashed,
            handler, backlog, writer, out, outClosed, connOpen, since, joined, queued, dropped>>
pageVars == <<page, answer, conn, hwm, items, loaded, shown, skipped, connects>>
vars == <<hubAll, ts, pageVars, hand>>

Pages == {"loading", "answered", "connecting", "open", "waiting", "unmounted"}

Init ==
  /\ Hub!Init
  /\ ts \in [1 .. MaxVerdicts -> Times]
  /\ page = "loading" /\ answer = <<>>
  /\ conn = CHOOSE c \in Clients : TRUE
  /\ hand = [c \in Clients |-> 0]
  /\ hwm = 0 /\ items = <<>>
  /\ loaded = {} /\ shown = {} /\ skipped = {} /\ connects = 0

-----------------------------------------------------------------------------
(* The history                                                             *)

\* ORDER BY id DESC LIMIT: ids grow with the inserts.
Query(table, limit) == SubSeq(Reverse(table), 1, IF Len(table) < limit THEN Len(table) ELSE limit)

\* The server answers the fetch; it may publish more before the page gets it.
ServeHistory ==
  /\ page = "loading" /\ ~crashed
  /\ answer' = Query(rows, HistoryLimit)
  /\ page' = "answered"
  /\ UNCHANGED <<hubAll, ts, conn, hand, hwm, items, loaded, shown, skipped, connects>>

\* record: prepend, and cut at MAX_ITEMS.
Record(list, v) == SubSeq(<<v>> \o list, 1, IF Len(list) < MaxItems THEN Len(list) + 1 ELSE MaxItems)

\* Math.max over the rows.
HighWaterMark(rowsLoaded) ==
  CHOOSE m \in Times \cup {0} :
    /\ \A i \in DOMAIN rowsLoaded : ts[rowsLoaded[i]] <= m
    /\ m = 0 \/ \E i \in DOMAIN rowsLoaded : ts[rowsLoaded[i]] = m

\* The rows are recorded oldest first; only then does the page connect.
LoadHistory ==
  /\ page = "answered"
  /\ items' = FoldLeft(Record, items, Reverse(answer))
  /\ hwm' = HighWaterMark(answer)
  /\ loaded' = ToSet(answer)
  /\ shown' = shown \cup ToSet(answer)
  /\ answer' = <<>>
  /\ page' = "connecting"
  /\ UNCHANGED <<hubAll, ts, conn, hand, skipped, connects>>

\* No answer, or not one of rows: the page starts empty.
HistoryFails ==
  /\ page \in {"loading", "answered"}
  /\ answer' = <<>>
  /\ page' = "connecting"
  /\ UNCHANGED <<hubAll, ts, conn, hand, hwm, items, loaded, shown, skipped, connects>>

-----------------------------------------------------------------------------
(* The websocket                                                           *)

Connect(c) ==
  /\ page = "connecting"
  /\ Hub!Register(c)
  /\ page' = "open" /\ conn' = c
  /\ connects' = connects + 1
  /\ UNCHANGED <<ts, answer, hand, hwm, items, loaded, shown, skipped>>

\* onerror closes, and onclose sets the timer.
ConnectFails ==
  /\ page = "connecting"
  /\ page' = "waiting"
  /\ UNCHANGED <<hubAll, ts, answer, conn, hand, hwm, items, loaded, shown, skipped, connects>>

\* The connection breaks, or the server has closed it.
OnClose ==
  /\ page = "open"
  /\ page' = "waiting"
  /\ UNCHANGED <<hubAll, ts, answer, conn, hand, hwm, items, loaded, shown, skipped, connects>>

Retry ==
  /\ page = "waiting"
  /\ page' = "connecting"
  /\ UNCHANGED <<hubAll, ts, answer, conn, hand, hwm, items, loaded, shown, skipped, connects>>

\* The effect's cleanup, at any time.
Unmount ==
  /\ page # "unmounted"
  /\ page' = "unmounted" /\ answer' = <<>>
  /\ UNCHANGED <<hubAll, ts, conn, hand, hwm, items, loaded, shown, skipped, connects>>

\* The writer's frame in flight, to compose with the hub's TakeFrame.
TakeFrame(c) ==
  /\ Hub!TakeFrame(c)
  /\ hand' = [hand EXCEPT ![c] = Head(out[c])]
  /\ UNCHANGED <<ts, pageVars>>

OnMessageRaisesMark(v) ==
  \/ /\ ts[v] <= hwm
     /\ skipped' = skipped \cup {v}
     /\ UNCHANGED <<hwm, items, shown>>
  \/ /\ ts[v] > hwm
     /\ hwm' = ts[v]
     /\ items' = Record(items, v)
     /\ shown' = shown \cup {v}
     /\ skipped' = skipped

OnMessageAtMark(v) ==
  \/ /\ ts[v] < hwm
     /\ skipped' = skipped \cup {v}
     /\ UNCHANGED <<hwm, items, shown>>
  \/ /\ ts[v] >= hwm
     /\ items' = Record(items, v)
     /\ shown' = shown \cup {v}
     /\ UNCHANGED <<hwm, skipped>>

\* A frame at or below the mark is taken for one shown from the history.  The
\* mark itself is never raised here.
OnMessage(v) ==
  \/ /\ ts[v] <= hwm
     /\ skipped' = skipped \cup {v}
     /\ UNCHANGED <<hwm, items, shown>>
  \/ /\ ts[v] > hwm
     /\ items' = Record(items, v)
     /\ shown' = shown \cup {v}
     /\ UNCHANGED <<hwm, skipped>>

\* The frame reaches the page, unless this connection is not its any more.
FrameWritten(c) ==
  /\ Hub!FrameWritten(c)
  /\ hand' = [hand EXCEPT ![c] = 0]
  /\ IF page = "open" /\ conn = c
     THEN OnMessage(hand[c])
     ELSE UNCHANGED <<hwm, items, shown, skipped>>
  /\ UNCHANGED <<ts, page, answer, conn, loaded, connects>>

WriteFails(c) ==
  /\ Hub!WriteFails(c)
  /\ hand' = [hand EXCEPT ![c] = 0]
  /\ UNCHANGED <<ts, pageVars>>

-----------------------------------------------------------------------------
PublishStep == Hub!PublishStep /\ UNCHANGED <<ts, pageVars, hand>>

HandlerStep(c) == Hub!HandlerStep(c) /\ UNCHANGED <<ts, pageVars, hand>>

WriterStep(c) == \/ TakeFrame(c) \/ FrameWritten(c) \/ WriteFails(c)
                 \/ Hub!WriterReturns(c) /\ UNCHANGED <<ts, pageVars, hand>>

Stopped ==
  \/ crashed
  \/ /\ page = "unmounted"
     /\ publisher = "idle" /\ published = MaxVerdicts
     /\ \A c \in Clients : /\ handler[c] \in {"absent", "gone", "panicked"}
                           /\ writer[c] \in {"none", "done"}

Next ==
  \/ /\ ~crashed
     /\ \/ Hub!Persist /\ UNCHANGED <<ts, pageVars, hand>>
        \/ PublishStep
        \/ \E c \in Clients : \/ Connect(c) \/ HandlerStep(c) \/ WriterStep(c)
                              \/ Hub!PeerLeaves(c) /\ UNCHANGED <<ts, pageVars, hand>>
        \/ ServeHistory \/ LoadHistory \/ HistoryFails
        \/ ConnectFails \/ OnClose \/ Retry \/ Unmount
  \/ Stopped /\ UNCHANGED vars

Spec == Init /\ [][Next]_vars

-----------------------------------------------------------------------------
\* Nothing is left between the hub's record of c and the page.
Quiet(c) ==
  /\ handler[c] = "reading" /\ c \in clients \ targets
  /\ out[c] = <<>> /\ writer[c] = "receive"

\* The backlog overlaps the history, and every connection brings a backlog
\* again (useVerdicts.ts 31-33, 87-91): a page that has heard all the hub has to
\* say shows every verdict since the oldest of its backlog that is newer than
\* the whole history, whatever the order of their times, save those dropped.
UpToDate ==
  page = "open" /\ Quiet(conn) =>
    \A v \in (since[conn] .. Hub!Recorded) \ dropped[conn] :
      (\A h \in loaded : ts[v] > ts[h]) => v \in shown

\* "skipping the ws backlog that overlaps history" (useVerdicts.ts 32, 41-42):
\* whatever the order of the times, a verdict from the history is there once;
\* any other at most once for each connection.
NoDoubles ==
  \A v \in 1 .. MaxVerdicts :
    Cardinality({i \in DOMAIN items : items[i] = v}) <= IF v \in loaded THEN 1 ELSE connects

\* "already shown from history" (useVerdicts.ts 81).
SkippedWasLoaded == skipped \subseteq loaded
=============================================================================
