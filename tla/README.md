# A verification project for the exec-scoring pipeline

TLA+ modules, TLC configurations and TLAPS proofs for the program in `src/`: an eBPF sensor that
reports every `execve`, a scorer that asks a language model how risky each command is, and the
programs that report, store and show the verdicts.

    sensor (kernel ring) -> execguard -> scorer -> report / server -> browser, SQLite, Slack

Every arrow is a pipe of JSON lines, except the first (a BPF ring buffer) and the last (a
websocket, a database, a webhook).

## Inventory

### The scorer, `src/scorer` (modelled)

*Pending queue* (`buffer.go`). State: a ring of `capacity` slots with `head` and `count`, the next
sequence number `seq`, `dropped`, `closed`, a mutex and a condition variable. Operations: `Push`
(evicts the oldest event when full, signals *after* unlocking), `Pop` (waits on the condition
variable; numbers what it hands out), `Close` (broadcasts). Hard: the signal outside the lock, the
wrap-around under eviction, workers parked at the moment of `Close`. Correct when: what it holds
is always the newest events in order; the numbers given out are dense and in arrival order (the
writer depends on that); every event is accounted for; no worker sleeps while an event has nobody
to take it; `Close` drains first and then releases everyone.

*Result cache* (`cache.go`). State: a map and the insertion order. Operations: `Get`, `Put` with
FIFO eviction. Correct when: the two agree and stay within the capacity.

*Single-flight pool* (`main.go` 22-91). State: the cache, the table of commands in flight, three
atomic counters, one mutex; per worker the local variables of `resolve`. Operations: look up, wait
for another worker, claim, call the model, publish, wake the waiters. Hard: the model call runs
outside the mutex, between the claim and the publication; it may fail or take up to 60 s; an entry
may be evicted before a woken worker looks it up. Correct when: a command is asked for at most once
at a time and not while it is cached; failures never enter the cache; each result is the model's
for this very command, raised to the floor; no worker waits for a channel nobody will close.

*The process* (`main.go` 93-221). A reader (the main goroutine), the workers, and an ordered
writer, joined by the queue and by a bounded channel; then the shutdown sequence close queue,
wait for workers, close channel, wait for writer, print the summary. Hard: workers finish out of
order, the channel blocks, SIGINT comes at any time. Correct when: stdout is the popped events in
pop order, each once; nothing is sent on the closed channel; the process ends; the summary adds up.

*Prefilter, rule floors, bands, model client* (`prefilter.go`, `rules.go`, `verdict.go`, `llm.go`,
`mock.go`). Pure functions over strings and scores, and an HTTP exchange. Correct when: floors raise
and never lower; a verdict's band agrees with its score.

### The server, `src/exectrace/internal/server`, `cmd/server` (modelled), and the store (as they use it)

*Hub and clients* (`server.go`). State: the last 500 verdicts, the set of clients, per client a
channel of 256 frames and a writer goroutine. Operations: `Publish` (insert, append, snapshot the
clients under the lock, send after it), `handleWS` (register with a snapshot of the ring, send the
backlog, read until the peer leaves, unregister, close), `writeLoop` (closes on a write error).
Hard: the snapshot is used after the unlock, while clients are closed; the backlog is sent while
live verdicts come; channels fill up. Correct when: a client sees each verdict at most once, and
none is missed silently between registration and backlog; a client that leaves harms nobody else.

*Store* (`store.go`). State: a table of verdicts with a text timestamp. Operations: `Insert`,
`Query` (limit, band, since). Hard: timestamps compared as text. `Insert` is a step of the hub and the
page's query, newest first up to a limit, is part of the web feed.

### The sensor, `src/bpf`, `src/cmd/execguard` (modelled)

*Kernel side* (`execguard.bpf.c`). State: a ring buffer of 16 MB, and per CPU the record it is building.
Operations: at each `execve` reserve a record, reset its count, read the path, the terminal's name and up
to 20 arguments, submit. Hard: any CPU may be anywhere in this while others submit; a full ring gives the
exec up; reads of user memory fail one by one; reserved memory still holds an older record. Correct when:
a record shows nothing of another exec.

*User side* (`main.go`, `decode.go`). State: the ring reader, the record at hand. Operations: read, decode,
`-exclude`, `--tty-only`, encode; a signal's goroutine closes the reader. Hard: the reader waits for the
oldest record even when later ones are submitted; the close comes at any time. Correct when: lines
come in the order of reservation, no record stays behind for ever, a signal ends the program.

### The other programs (web feed, sink and report modelled)

*Web feed* (`web/src/lib/useVerdicts.ts`). State: the items shown, the high-water mark, the connection.
Operations: load the history, connect, take a frame (skipped at or below the mark), reconnect 1.5 s
after a close, unmount. Hard: history and backlog overlap and verdicts are published between the
two; every reconnect brings the backlog again; times are whole seconds and may be out of order. Correct
when: what the history lacks is shown, and what both hold is shown once.

*Slack sink* (`sink/slack.go`): a bounded channel, a sender goroutine, counters, `Close` that
drains. Hard: a send after `Close` panics and is recovered; the buffer at its limit; two callers of
`Close`. Correct when: each alert is counted once; a returned `Close` means that the channel is drained.

*Report program* (`cmd/report/main.go`, `report/`, `types/`): reads verdicts, tallies, prints those at
or above a threshold, alerts Slack, drains, summarises. Correct when: the summary accounts for every
alert; display and Slack rank bands alike; it exits.

*Analyzer* (`analyzer/`): `Score` with a cache, its mutex taken twice around an unlocked model call; its
two callers, `cmd/eval` and `cmd/report`, score one row after the other.

*Eval, compare, csv source, mock scorer* (`eval/`, `source/`, `mockp2/`,
`cmd/*`): sequential; thresholds, confusion matrices, a small lexer. Hard: boundaries of the
bands and zero denominators.

*Web components, vendored BPF headers, the generated bundle, the workshop example*: rendering,
third-party or unrelated; not modelled.

## Modules

| module | models | kind |
|---|---|---|
| `DropOldestFifo` | what the queue promises: a FIFO that loses its oldest event when full | abstract |
| `PendingQueue` | `buffer.go`, with the goroutines that use it | component |
| `PendingQueue_proofs` | its theorems | proofs |
| `ScoreCache` | `cache.go`, as operators on a cache value | operators |
| `ScoreOnce` | what the pool promises: a command is asked for once at a time, and not while remembered | abstract |
| `ScorerPool` | `pool.resolve` and its counters | component |
| `ScorerPool_proofs` | its theorems | proofs |
| `VerdictStream` | what the process promises: events come out in order or are lost before | abstract |
| `Scorer` | `main`: reader, workers, writer, shutdown; INSTANCEs `PendingQueue` and `ScorerPool` | composition |
| `Scorer_proofs` | its theorems; INSTANCEs the theorems of the two parts | proofs |
| `LiveServer` | `server.go`: `Publish`, `handleWS`, `writeLoop` | component |
| `LiveServer_proofs` | its theorems | proofs |
| `ExecStream` | what the sensor promises: execs in the order the kernel accepted them, lost only while a full ring is waiting, reported or filtered | abstract |
| `Sensor` | `execguard.bpf.c` on every CPU, with `cmd/execguard` | component |
| `Sensor_proofs` | its theorems | proofs |
| `WebFeed` | `useVerdicts.ts` with the store's query; INSTANCEs `LiveServer` | composition |
| `WebFeed_proofs` | its theorems; INSTANCEs the hub's | proofs |
| `SlackSink` | `sink/slack.go` | component |
| `SlackSink_proofs` | its theorems | proofs |
| `Report` | `cmd/report/main.go` with `report.go`'s tallies; INSTANCEs `SlackSink` | composition |
| `Report_proofs` | its theorems; INSTANCEs the sink's | proofs |
| `MC*` | constants, symmetry and a view for TLC | model |

### PendingQueue

`buf`, `head`, `count`, `seq`, `closed`, `dropped` are the fields of `queue`; slots are numbered
from 0 as in Go. An event is a number 1, 2, ... in the order of the pushes; 0 is the zero
`ExecEvent`. Each critical section is one action: `Push` (with room or by overflow), `Take`
(the part of `Pop` that hands out an event), `Wait` (the part that parks), `Exit` (`ok = false`),
`Close`. What happens outside the mutex is a step of its own: `Signal` after `Push`, `Broadcast`
after `Close`, so a worker may run between. The condition variable is modelled exactly as Go's:
`Signal` moves one parked worker, any of them, to runnable, or is lost when none is parked; a woken
worker takes the mutex again and re-checks, and another worker may have come first. Workers
share one program, the loop of `main.go` 130-142; `Return` is the rest of that loop. `pushed` and
`given` are history: the events pushed, and what Pop returned, in order.

### ScoreCache and ScorerPool

The cache is a record of a map (`items`) and a sequence (`order`). `ScorerPool` keeps for each
worker where it stands in `resolve` and its local variables; a command stands for its key. Atomic
increments are merged with the step they follow. The model call returns any score or fails, so
timeouts, unparsable answers and a cancelled context are all `ScoreError`. The prefilter's decision and the
floor of a command are constants: every assignment of them is a possible program input.

### Scorer

`main.go` 93-221. The queue and the pool are instantiated over the process's variables; each action
of the process is an action of the queue, of the pool, of both (`Send` ends both a `resolve` and a
`Pop`), or of neither. A line is malformed, not an exec, an exec without argv, or an exec of some
command: decoding itself is abstracted. The context is read only after a push, as in the code, so
a cancelled process leaves the loop after the next exec or at the end of stdin.

### LiveServer

`server.go` 120-144 and 182-269: the publisher goroutine of `cmd/server`, and for each browser the
goroutine of `handleWS` and that of `writeLoop`, joined by the channel `out`. Verdicts are numbered
in the order of their publication. Each critical section of `s.mu` is one action (`Record`,
`Register`, `Unregister`); the insert before it (`Persist`), each send of the loop over the snapshot
(`FanOut`) and each send of the backlog (`SendBacklog`) are steps of their own, so anything may
happen between. A send to a closed channel panics: in the publisher that ends the process
(`FanOutPanics`), in a handler `net/http` recovers it and the rest of `handleWS` never runs
(`BacklogPanics`). A write may fail at any time: a lost peer, a closed connection or the deadline.
`since`, `joined`, `queued` and `dropped` are history. A browser that connects again is another client.

### Sensor

An exec is its number; its strings are pairs of that number and a position, so that a byte of another exec
would be seen. The ring is the sequence of records reserved and not read yet, all of one size. `Reserve` is
lines 31-35 of `execguard.bpf.c`, with a record full of `Stale` bytes except for the count; `ReadHeader` reads
the path and the terminal; each `ReadArg` is one turn of the argv walk; `Submit` sets the ring's own flag.
A read either succeeds or leaves "", because the helpers clear the destination when they fail;
`BPF_CORE_READ_INTO` (`bpf_core_read.h` 399-436) follows every link though one before it failed, and the
last read then fails too. `Handle` is the rest of the loop of `main.go`: decode, filter, encode. `CloseReader` is the
signal's goroutine, between any two steps; what the ring still holds when the loop ends is lost, and
`ExecStream` allows that. The errors of `binary.Read` and `Encode` are left out: every record has the size of the struct,
and the next program is assumed to read stdout. The verifier has proved that the kernel program terminates.

### WebFeed

The page's variables are those of the effect in `useVerdicts.ts`; each of its connections is another
client of the hub, whose actions are `LiveServer`'s own. `hand` is the frame a writer has taken, so that
`FrameWritten` can hand it to the page when that connection is still the page's. `ServeHistory` and
`LoadHistory` are two steps, since verdicts are published between the server's answer and its arrival.
The time of each verdict is chosen in the initial state, in any order. Frames that do not parse, the arrival
times and the rate are left out.

### SlackSink and Report

`SlackSink` has any number of callers and the sender goroutine. An alert is numbered by its call of
`Maybe`, which is one action: queued, dropped because the buffer is full, or recovered from the
panic of a send on the closed channel. `Close` is what `sync.Once` makes of it: the first caller closes
the channel and waits for the sender, every other one waits for the first. `Report` is the main
goroutine as the only caller: `Handle` tallies, `Notify` calls `Maybe`, then `StdinEnds` closes the
sink, `PrintSummary` reads its counters, and `DeferredClose` closes it again. A verdict is its band;
"other" is any text that names none. The thresholds, and whether a webhook is configured, are chosen
in the initial state.

## Runs

| run | instance | shows |
|---|---|---|
| `queue` | 3 workers, 3 slots, 7 pushes | `HoldsNewest`, `SurvivorsInOrder`, `NoIdleWorker`, `WorkersExit`, refinement of `DropOldestFifo` with its fairness |
| `pool` | 3 workers, 3 calls, 2 commands for 1 cache entry, 1 prefiltered | `SingleFlight`, `ResultsGenuine`, `ScoredOncePerResidency`, `CacheAgrees`, `EveryCallReturns`, refinement of `ScoreOnce` |
| `scorer_safety` | 2 workers, queue of 1, channel of 1, 3 lines | `WrittenInOrder`, `NoVerdictLost`, `NoSendAfterClose`, `SummaryAddsUp` |
| `scorer_live` | the same, 2 lines | `ShutdownCompletes`, `EveryPopWritten`, refinement of `VerdictStream` |
| `hub` | 1 browser, ring of 3, send buffer of 2, 5 verdicts, a failing insert | `RingIsNewest`, `NoneMissed`, `OrderKept`, `PublishNeverStalls`, `ClosedLeavesHub` |
| `sensor` | 2 CPUs, ring of 2, 2 arguments, 3 execs | `OwnDataOnly`, refinement of `ExecStream`, `EndsOnSignal` |
| `feed` | 2 connections, ring of 1, send buffer of 1, 2 verdicts, 2 times | `UpToDate`, `NoDoubles` |
| `sink` | 3 callers, buffer of 2, 4 alerts | `EveryAlertCounted`, `ClosedMeansDrained`, `DeliveryFinal`, `EveryCloseReturns` |
| `report_loop` | buffer of 1, 4 verdicts, every pair of thresholds | `SummaryComplete`, `AlertsWereShown`, `ReportExits` |
| `hub_panic` | violated | finding 1 |
| `hub_backlog` | violated | finding 2 |
| `feed_skip` | violated | finding 3 |

Bounds. `MaxPushes`, `MaxCalls`, `MaxLines`, `MaxRisk`, `MaxVerdicts`, `MaxFailures` and `MaxAlerts` bound
what would be unbounded; the code has no such limits. Seven pushes into three slots move `head` twice around the ring with every
count, so each slot is written, evicted and taken at every phase. Three workers are the fewest for
which one takes the event another was woken for while a third stays parked. In the pool one worker leads, one waits, and the third evicts the
leader's entry; three calls suffice to ask for a command, evict it and ask again. In the process, a
queue and a channel of one overflow and block at once; two events in flight can finish in either
order. In the sink three callers are one that drains, one that waits for it and one that still alerts;
four alerts fill the buffer of two, hold one in flight and drop one. In the hub, as in the code, the ring is longer than the send buffer; five verdicts fill it and
evict twice, and let a verdict be published before, during and after a backlog. One browser is enough there,
because clients share nothing but the set and the snapshot; two connections of which one is dying are what
`feed` has. In `feed` the second verdict may come before, between or after the history, the backlog and the
live stream, with a time before, equal to or after the first's; a list of two is cut by the third frame. In `sensor` two
CPUs submit in either order and fill the ring, so a third exec is given up or reuses what they
left; `MaxExecs` bounds the execs; one exec has no terminal, one is excluded, and all but one may have unreadable strings.
Workers are interchangeable, so `scorer_safety` uses them as a symmetry set; the runs with liveness do not. `feed`
identifies states by a view without `queued`, `joined` and `skipped`, history that no action and neither property reads.

Each property has a mutant: a definition beside the one it changes (named in its comment), the
way a plausible slip would, such as an eviction that is not counted, a modulus forgotten, `Signal` where
`Broadcast` is due, a failure published to the cache. TLC finds the property violated when the
mutant replaces the original.

## Fairness

Weak fairness of each goroutine's own next step, and of the steps that follow an unlock. Go's
scheduler is preemptive and its mutex hands over to a waiter after 1 ms (starvation mode), so
a goroutine that can run does run. `Score` ends within the HTTP client's 60 s timeout. The writer's `Encode`
ends provided the next program reads stdout. Nothing is assumed of stdin: it may stay silent for ever, so
`Push`, `Close`, end of input and a signal have no fairness. In the hub the publisher and the
handlers are fair; the writers are not, since a browser may take nothing. The sink's sender is fair
because its HTTP client gives up after 3 s; nobody is obliged to call `Maybe` or `Close`. The liveness
properties are worth having because of that: `EveryPopWritten` holds while the reader is blocked. In the sensor each CPU's program is fair once it
has reserved, and so are the loop and the signal's goroutine; nothing obliges an exec or a signal to come. The web
feed is checked for safety only: the properties of the page are about what it shows once all is quiet. The number of calls is bounded, which matters
for `EveryCallReturns`: with unboundedly many calls a woken worker could find its entry evicted and the
command claimed again each time, and park for ever. The code has no protection against that and
the property is not claimed for unbounded runs.

## Findings

1. `server.go` 41-43 says "Safe for concurrent use". `Publish` sends to its snapshot outside the
   mutex; when a client's channel is closed in between, the send panics in the goroutine that
   reads stdin and the process ends. Run `hub_panic`: a browser that leaves, or that fails while
   its handler still waits, at the moment of a publication.
2. `server.go` 29 says that `ringSize` is "how many recent verdicts a freshly-connected browser
   receives". The backlog of up to 500 is sent without blocking into a channel of 256. Run `hub_backlog`.
3. `useVerdicts.ts` 81 skips a frame at or below the newest time of the history as "already shown from
   history". The scorer stamps whole seconds (`verdict.go` 66), so a verdict published after the history
   was served, within the same second as its newest row, or stamped earlier by a slower worker,
   is skipped and never shown. Run `feed_skip`.

A remark without a run: `main.go` 58-59 of the scorer says of a worker that waited for another one's call
"it will hit the now-populated cache". A failed call is not cached and an entry may be evicted in between; the
worker then asks the model itself, as `ScoredOncePerResidency` and `EveryCallReturns` allow for.

## Proofs

`PendingQueue_proofs`, for every number of workers, every capacity and every number of pushes:

- `TypeCorrect`, `EventsAccounted`. Types and `Accounting` are inductive together with the bounds
  on `count` and on what was given.
- `RingHoldsNewest`. `HoldsNewest` needs that two offsets below the capacity never fall into one
  slot (`SlotInjective`, a fact about `%`), that moving `head` renumbers the slots (`SlotShift`),
  and that a written slot leaves
  the others alone (`PlaceKeepsWindow`).
- `SurvivorsNumbered`. The events given are strictly increasing and older than what the ring
  holds, which follows from the window and is preserved by an eviction.
- `ShutdownOrderly` (nobody leaves before the ring is drained, nobody stays parked after `Close`), `NoWakeupLost`. A parked worker implies that buffered events are matched by
  runnable workers or by the reader's pending signal; the proof counts finite sets.
- `RefinesFifo`. Under the refinement mapping each step of the queue is a step of the FIFO or
  leaves it unchanged: the safety half of `ImplementsFifo`.

`ScorerPool_proofs`, for every number of workers, commands, cache size and number of calls:

- `PoolTypeCorrect`, `ScoredAlone`, `CacheInStep` come from one invariant, `PoolInv`: types of the
  workers and of the cache, the result a leader is about to publish is typed, `SingleFlight`,
  `NeverScoredWhileCached`, `ParkedHasLeader`, and the agreement of the cache's two parts. They are
  inductive only together: that a leader publishes into a cache without its command needs
  both single flight and the lookup in the same critical section as the claim.
- `CacheInStep` rests on lemmas about `Put`: at capacity the evicted key is the head of a
  duplicate-free sequence, so the map and the sequence lose the same key.
- `ResultsFromModel`: every result at rest is genuine, for the command it is filed under.
- `ScoredPerResidency`: the counters of successful calls and of evictions, related by presence.
- `RefinesScoreOnce`: the safety half of `ImplementsScoreOnce`. A command whose model call failed maps
  to a given-up attempt.

`SlackSink_proofs`, for every number of callers, every buffer and number of alerts, from the invariant
`SinkInv`: the types, the ledger `EveryAlertCounted`, and `Shutdown`, which says where `Close`,
`closeOnce` and the sender stand relative to each other.

- `SinkTypeCorrect`, `AlertsCounted`. The alert in flight followed by the channel is what remains
  of the accepted ones after the delivered (`FollowsAppend`, `FollowsNext`).
- `CloseDrains`, `StatsFinal`. A returned `Close` means that closeOnce is done, hence the sender is,
  hence the channel is empty and no step posts any more.

`Sensor_proofs`, for every number of CPUs, every capacity and number of execs and arguments:

- `LinesOwnData`. `OwnDataOnly` speaks of the record at hand only; what carries it there is `SensorInv`: no two records
  of the ring are of one exec and no two CPUs build one (`Unique`), a CPU past `Reserve` has a record that is not
  submitted (`Owned`), and a record is its own exec's up to its count, its path included once the header is written
  (`Contents`). So what a CPU writes lands in its own record (`MineIs`), and the reader, which takes submitted
  records only, never takes one away from a CPU. `LineOwn` is about the decoding: which string stands where, and that argv[0]
  is missing only together with the path.
- `RefinesExecStream`: the safety half of `ImplementsExecStream`. The pending execs are those of the ring's records, led
  by the one at hand (`ExecsAppend`, `ExecsHeadTail`): copying, submitting and reading are stutters, a reservation
  appends, a handled record leaves; an exec is lost only when a full ring of them is pending (`PendingCoversRing`). That an exec is filtered or reported for its own path and its own terminal is
  `HeaderOwn`, from `Contents`. That no exec is accepted after `main` has returned is `Detached`.

`Scorer_proofs`, for every number of workers, commands and lines, every queue, channel and cache size:

- Each step of the process is a step of the queue or leaves it alone, and the same for the pool. `PendingQueue_proofs`
  and `ScorerPool_proofs` are INSTANCEd over the process's variables, so what they prove holds here
  (`QueueHolds`, `PoolHolds`). It remains to follow a sequence number from `Pop` to stdout: `ProcessInv`.
- `OutputInOrder`, `EveryVerdictOwed`. The writer has written the numbers below `next` (`Output`); from `next` on each number is
  somewhere (`SomePlace`), in one of a worker, the channel and the pending map only (`OnePlace`), with the event it was
  popped with (`Flow`). `NoVerdictLost` alone is not inductive: a number in two places would be written twice, or
  leave a second copy in the map for ever.
- `ClosedAfterSenders` is `Standing`: where the main goroutine is against the workers and the writer.
- `SummaryCorrect`. Every number given was counted by the pool, except those of the workers that are not through `resolve`;
  at the end there are none, and the queue's `Accounting` gives the rest. The hypothesis is `Workers # {}`: `main.go` does not clamp
  `-workers`, and with 0 the buffered events appear nowhere in the summary line.
- `RefinesStream`: the safety half of `ImplementsStream`. An exec is owed from its push until it is written or evicted;
  events buffered, under way and lost are disjoint. Also with `Workers # {}`.
- `VerdictsGenuine`: the score, the command and the exec stay together through worker, channel and map. No run checks it
  under this name; `ResultsGenuine` is the part of it that concerns the pool.

`LiveServer_proofs`, for every number of browsers and verdicts, every ring and buffer, from `HubInv`:

- A registered client has been sent two intervals of verdicts: from the start of its backlog to where its handler
  stands, and from its registration to where `Publish` stands in its snapshot (`Reached`); what was queued or dropped for it
  is exactly that (`Sent`). `NoneMissed` says so of a client at rest; the invariant has to say it in the middle of a
  backlog and of a fan-out, and that each send takes the next verdict of its interval. A client that was closed keeps the
  weaker half, that nothing outside the intervals was sent to it.
- `RingHoldsRecent` is inductive with the types. `QueuedInOrder`: inside an interval the order is that of the sends; between
  the two only a live verdict can come first.

`Report_proofs`, for every buffer and number of verdicts: the main goroutine is the sink's only caller, so the sink's theorems
hold (`SinkOK`), and `SummaryAccountsForAll` needs in addition that the loop owes the sink the verdict in hand and no
other (`Owed`). `NothingHiddenAlerted` relates the two thresholds.

`WebFeed_proofs`, for every number of connections, every ring, buffer, list and history limit and every assignment of times, from
the hub's invariant and `FeedInv`:

- `PageUpToDate`. A frame the hub queued for the page's connection is in its channel or in the writer's hand, or the page has heard
  it: shown it, or seen that its time is not above the mark (`Delivered`). The mark is the latest time of the
  history (`MarkInv`), which takes the value of the fold by which the page computes it. The hypothesis is that no verdict is
  stamped 0, since 0 is the mark of a page without history; the scorer stamps the present.
- `ShownAtMostOnce`. A channel holds no verdict twice (`ChannelInv`), so a verdict still awaited on the current
  connection is on the page fewer times than there were connections (`ItemsInv`); a row of the history is behind the mark.
- The fold over the history is evaluated by induction: `InductiveSet` (a subset of `Nat` that contains 0 and each successor is
  all of it) is proved from the well-foundedness of `<`, and `FoldExists` and `FoldIs` from it.

Assumed: the constants' assumptions stated in the modules, in particular finitely many workers, and the two hypotheses
above. Every safety invariant and action property of the passing runs is stated by a theorem. The inductive
invariants were checked by TLC on the instances of the runs before they were proved.

Only model-checked: liveness (`WorkersExit`, `EveryCallReturns`, `ShutdownCompletes`, `EveryPopWritten`, `PublishNeverStalls`,
`ClosedLeavesHub`, `EveryCloseReturns`, `ReportExits`, `EndsOnSignal`) and the fairness of the four refinements, because both rest
on ENABLED, which the provers cannot expand. The library's induction rules take an operator and cannot be used
either; induction over a set, as in `InductiveSet`, can.

## Plan

Done: every component listed as modelled, with its runs, and the safety theorems of all of them. Left: a proof that the
page's list keeps the newest frames in order of arrival, for any cut of the list; no run states it yet.

## Not modelled

- The analyzer: its cache has the look-up and the insertion in two critical sections, but its callers, `cmd/eval` (line 93)
  and `cmd/report` (line 104), score one row after the other, so nothing interleaves. A concurrent caller would be an invention of the model.
- The strings behind the gate (`prefilter.go`, `rules.go`), `parseResult`, `splitArgv`, `sanitize`: text matched character by
  character. The pool takes their results as constants or choices, whatever they are.
- Eval, compare, the mock scorer, the csv source, replay: sequential, one pass over a file.
- The store's band and since filters: nothing in the repository sends them. `since` is compared as text, and a
  fractional one sorts before the whole second it starts in; the stored times are whole seconds.
- The vendored BPF headers, most of the repository's C lines: declarations of some two hundred kernel helpers and macros for every
  architecture. What the sensor calls of them (`BPF_CORE_READ_INTO`, `bpf_probe_read_user_str`, the ring's reserve and submit)
  is modelled from their text; the rest has no behaviour in this program.
- The web components, the generated bundle, the workshop example.

Of the modelled components: JSON
encoding, prompt building, HTTP, logging, wall-clock time, and the text of commands.
