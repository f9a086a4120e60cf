------------------------------- MODULE Sensor -------------------------------
(***************************************************************************)
(* The sensor: the eBPF program handle_execve, which runs on every CPU at  *)
(* each execve and builds a record in a ring buffer                        *)
(* (src/bpf/execguard.bpf.c), and the program that reads the records and   *)
(* prints them (src/cmd/execguard/main.go, decode.go).                     *)
(*                                                                         *)
(* An exec is named by its number.  A string of exec e is <<e, k>>: k = 0  *)
(* is the path of the executable, k > 0 the k-th argument; its bytes are   *)
(* left out, and so is truncation.  The ring is the sequence of the        *)
(* records reserved and not yet read: all records have the same size.      *)
(* Reserved memory is not cleared, so a new record holds Stale bytes, of   *)
(* whatever record lay there before.                                       *)
(*                                                                         *)
(* Definitions that no action uses (RecordKeepsCount, DiscardsWithoutArgs, *)
(* ReadClosedRetries) are mutants of the definition that follows.          *)
(***************************************************************************)
EXTENDS Naturals, Sequences, FiniteSets

CONSTANTS Cpus,       \* the CPUs, each of which may run the BPF program
          Capacity,   \* how many records fit into the ring
          MaxArgs,    \* MAX_ARGS
          MaxExecs,   \* bound: how many execs happen
          Ttyless,    \* the execs without a controlling terminal
          Excluded,   \* the execs whose path -exclude matches
          Resident    \* the execs whose strings are all in memory

ASSUME SensorAssumption ==
  /\ IsFiniteSet(Cpus)
  /\ Capacity \in Nat \ {0} /\ MaxArgs \in Nat \ {0} /\ MaxExecs \in Nat
  /\ \A S \in {Ttyless, Excluded, Resident} : S \subseteq 1 .. MaxExecs

VARIABLES ttyOnly,    \* the flag --tty-only
          started,    \* how many execs have happened
          attached,   \* the tracepoint is attached
          running,    \* the exec whose record a CPU is building, or 0
          filled,     \* the CPUs past the header of their record
          ring,       \* the records, oldest first
          loop,       \* where main stands
          raw,        \* the record main has read, while it handles it
          signalled,  \* SIGINT or SIGTERM has come
          rdClosed,   \* the ring reader is closed
          lines       \* the execs written to stdout, in order

kernelVars == <<started, attached, running, filled, ring>>
userVars == <<ttyOnly, loop, raw, signalled, rdClosed, lines>>
vars == <<kernelVars, userVars>>

Empty == <<>>
Stale == <<0, 0>>

RecordKeepsCount(e) == [exec |-> e, filename |-> Stale, argc |-> MaxArgs, tty |-> Stale,
                        argv |-> [i \in 1 .. MaxArgs |-> Stale], committed |-> FALSE]

\* struct event: `committed` is the ring's own flag, set by submit.
Record(e) == [exec |-> e, filename |-> Stale, argc |-> 0, tty |-> Stale,
              argv |-> [i \in 1 .. MaxArgs |-> Stale], committed |-> FALSE]

Init ==
  /\ ttyOnly \in BOOLEAN
  /\ started = 0 /\ attached = TRUE
  /\ running = [c \in Cpus |-> 0] /\ filled = {}
  /\ ring = <<>>
  /\ loop = "opening" /\ raw = Record(0)
  /\ signalled = FALSE /\ rdClosed = FALSE
  /\ lines = <<>>

-----------------------------------------------------------------------------
(* handle_execve                                                           *)

\* bpf_probe_read_user_str: the string, or "" when its page is not resident
\* (a read that fails clears its destination).
UserString(e, k) == IF e \in Resident THEN {<<e, k>>} ELSE {<<e, k>>, Empty}

\* BPF_CORE_READ_INTO: follow the links, then read the field.  After a link
\* that is NULL or unreadable every further read is near address 0, fails, and
\* clears its destination.
CoreReadInto(links, field) ==
  IF \A i \in DOMAIN links : links[i] THEN field ELSE Empty

\* Which of t->signal, ->tty and ->name can be read: a terminal may be hung up
\* meanwhile.
TtyLinks(e) == {links \in [1 .. 3 -> BOOLEAN] : e \in Ttyless => ~links[2]}

TtyName(e) == <<e, MaxArgs + 1>>

\* The place in the ring of the record a CPU is building.
Mine(c) == CHOOSE i \in DOMAIN ring : ring[i].exec = running[c]

\* An exec: reserve a record, and reset its count.
Reserve(c) ==
  /\ attached /\ running[c] = 0 /\ started < MaxExecs
  /\ Len(ring) < Capacity
  /\ started' = started + 1
  /\ running' = [running EXCEPT ![c] = started + 1]
  /\ ring' = Append(ring, Record(started + 1))
  /\ UNCHANGED <<attached, filled, userVars>>

\* No record: the program gives the exec up.
ReserveFails(c) ==
  /\ attached /\ running[c] = 0 /\ started < MaxExecs
  /\ Len(ring) = Capacity
  /\ started' = started + 1
  /\ UNCHANGED <<attached, running, filled, ring, userVars>>

ReadHeader(c) ==
  /\ running[c] # 0 /\ c \notin filled
  /\ \E name \in UserString(running[c], 0), links \in TtyLinks(running[c]) :
       ring' = [ring EXCEPT ![Mine(c)].filename = name,
                            ![Mine(c)].tty = CoreReadInto(links, TtyName(running[c]))]
  /\ filled' = filled \cup {c}
  /\ UNCHANGED <<started, attached, running, userVars>>

\* One turn of the argv walk: a pointer that is there, and its string.
ReadArg(c) ==
  /\ c \in filled
  /\ ring[Mine(c)].argc < MaxArgs
  /\ LET i == ring[Mine(c)].argc + 1 IN
     \E arg \in UserString(running[c], i) :
       ring' = [ring EXCEPT ![Mine(c)].argv[i] = arg, ![Mine(c)].argc = i]
  /\ UNCHANGED <<started, attached, running, filled, userVars>>

\* bpf_ringbuf_discard in place of bpf_ringbuf_submit.
DiscardsWithoutArgs(c) ==
  /\ c \in filled
  /\ ring' = IF ring[Mine(c)].argc > 0
             THEN [ring EXCEPT ![Mine(c)].committed = TRUE]
             ELSE SelectSeq(ring, LAMBDA r : r.exec # running[c])
  /\ running' = [running EXCEPT ![c] = 0]
  /\ filled' = filled \ {c}
  /\ UNCHANGED <<started, attached, userVars>>

\* The walk ends at MAX_ARGS, at a NULL pointer or at one that cannot be read.
Submit(c) ==
  /\ c \in filled
  /\ ring' = [ring EXCEPT ![Mine(c)].committed = TRUE]
  /\ running' = [running EXCEPT ![c] = 0]
  /\ filled' = filled \ {c}
  /\ UNCHANGED <<started, attached, userVars>>

-----------------------------------------------------------------------------
(* main of execguard                                                       *)

\* The program was attached before: records may be waiting.
OpenReader ==
  /\ loop = "opening"
  /\ loop' = "reading"
  /\ UNCHANGED <<kernelVars, ttyOnly, raw, signalled, rdClosed, lines>>

\* The reader hands out records in the order of their reservation, and waits
\* for one that is not submitted yet.
ReadRecord ==
  /\ loop = "reading" /\ ~rdClosed
  /\ ring # <<>> /\ Head(ring).committed
  /\ raw' = Head(ring)
  /\ ring' = Tail(ring)
  /\ loop' = "handling"
  /\ UNCHANGED <<started, attached, running, filled, ttyOnly, signalled, rdClosed, lines>>

\* decodeArgv and decodeEvent: an unreadable argv[0] is replaced by the path.
DecodeEvent(r) ==
  LET argv == SubSeq(r.argv, 1, r.argc) IN
  [exec |-> r.exec,
   executable |-> r.filename,
   argv |-> IF argv # <<>> /\ argv[1] = Empty /\ r.filename # Empty
            THEN [argv EXCEPT ![1] = r.filename] ELSE argv]

\* -exclude looks at the path that was read; "" matches nothing.
IsExcluded(executable) == executable # Empty /\ executable[1] \in Excluded

\* Decode, filter, encode; Encode waits for whoever reads stdout.
Handle ==
  /\ loop = "handling"
  /\ lines' = IF IsExcluded(DecodeEvent(raw).executable) \/ (ttyOnly /\ raw.tty = Empty)
              THEN lines ELSE Append(lines, DecodeEvent(raw).exec)
  /\ raw' = Record(0)
  /\ loop' = "reading"
  /\ UNCHANGED <<kernelVars, ttyOnly, signalled, rdClosed>>

\* SIGINT or SIGTERM; before the reader is open it would simply end the process.
Signal ==
  /\ loop # "opening" /\ ~signalled
  /\ signalled' = TRUE
  /\ UNCHANGED <<kernelVars, ttyOnly, loop, raw, rdClosed, lines>>

\* The signal's goroutine closes the reader under the loop's hands.
CloseReader ==
  /\ signalled /\ ~rdClosed
  /\ rdClosed' = TRUE
  /\ UNCHANGED <<kernelVars, ttyOnly, loop, raw, signalled, lines>>

ReadClosedRetries ==
  /\ loop = "reading" /\ rdClosed
  /\ loop' = "reading"
  /\ UNCHANGED <<kernelVars, ttyOnly, raw, signalled, rdClosed, lines>>

\* ErrClosed: what is left in the ring stays there.
ReadClosed ==
  /\ loop = "reading" /\ rdClosed
  /\ loop' = "returning"
  /\ UNCHANGED <<kernelVars, ttyOnly, raw, signalled, rdClosed, lines>>

\* The deferred calls: the reader, already closed, and the tracepoint.
Return ==
  /\ loop = "returning"
  /\ loop' = "returned"
  /\ attached' = FALSE
  /\ UNCHANGED <<started, running, filled, ring, ttyOnly, raw, signalled, rdClosed, lines>>

-----------------------------------------------------------------------------
BpfStep(c) == ReadHeader(c) \/ ReadArg(c) \/ Submit(c)

LoopStep == OpenReader \/ ReadRecord \/ Handle \/ ReadClosed \/ Return

Stopped == loop = "returned" /\ running = [c \in Cpus |-> 0]

Next ==
  \/ \E c \in Cpus : Reserve(c) \/ ReserveFails(c) \/ BpfStep(c)
  \/ LoopStep \/ Signal \/ CloseReader
  \/ Stopped /\ UNCHANGED vars

\* The verifier bounds the BPF program, which runs to its end; main and the
\* signal's goroutine run; the next program reads stdout.  Nothing obliges a
\* program to be started or a signal to come.
Spec ==
  /\ Init /\ [][Next]_vars
  /\ \A c \in Cpus : WF_vars(BpfStep(c))
  /\ WF_vars(LoopStep) /\ WF_vars(CloseReader)

-----------------------------------------------------------------------------
\* Ring memory is used again and never cleared (execguard.bpf.c 31-55): yet
\* no line shows a byte of another exec, or an argument at another place,
\* whichever reads failed; a missing argv[0] is replaced by the path alone, and
\* "the costly one to lose" (decode.go 14-21) is lost only with the path.
OwnDataOnly ==
  loop = "handling" =>
    LET line == DecodeEvent(raw) IN
    /\ line.executable \in UserString(line.exec, 0)
    /\ \A i \in DOMAIN line.argv :
         line.argv[i] \in UserString(line.exec, i) \cup (IF i = 1 THEN {<<line.exec, 0>>} ELSE {})
    /\ line.argv # <<>> /\ line.executable # Empty => line.argv[1] # Empty

\* The ring, the loop and its filters together are an ExecStream: in order
\* of reservation though CPUs submit in any order, none left behind an
\* unfinished one for ever, and none lost while the ring has room
\* (execguard.bpf.c 31-33, 57, main.go 67-95).
Pending == LET waiting == [i \in DOMAIN ring |-> ring[i].exec] IN
           IF loop = "handling" THEN <<raw.exec>> \o waiting ELSE waiting

Stream == INSTANCE ExecStream WITH
  pending <- Pending,
  stopped <- loop = "returned"

ImplementsExecStream == Stream!Spec

\* A signal ends the program, whatever the ring holds (main.go 58-72).
EndsOnSignal == signalled ~> loop = "returned"
=============================================================================
