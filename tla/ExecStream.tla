----------------------------- MODULE ExecStream -----------------------------
(***************************************************************************)
(* What the sensor promises the program that reads its lines: the execs    *)
(* come in the order in which the kernel accepted them, each at most once; *)
(* the kernel accepts each exec but while a full ring of them is waiting   *)
(* (src/bpf/execguard.bpf.c 31-33); one that was accepted is reported or   *)
(* filtered in the end, unless the sensor is stopped before; and --tty-only*)
(* lets no exec without a terminal through (src/cmd/execguard/main.go      *)
(* 67-95).                                                                 *)
(***************************************************************************)
EXTENDS Naturals, Sequences

CONSTANTS Capacity,   \* how many execs may wait before one is lost
          MaxExecs,   \* bound: how many execs happen
          Ttyless,    \* the execs without a controlling terminal
          Excluded    \* the execs whose executable -exclude matches

VARIABLES ttyOnly,    \* the flag --tty-only
          started,    \* how many execs have happened
          pending,    \* the execs accepted and not yet handled, in order
          lines,      \* the execs reported, in order
          stopped     \* the sensor has ended

vars == <<ttyOnly, started, pending, lines, stopped>>

Init == /\ ttyOnly \in BOOLEAN
        /\ started = 0 /\ pending = <<>> /\ lines = <<>> /\ stopped = FALSE

\* An exec happens.
Exec ==
  /\ ~stopped
  /\ started < MaxExecs
  /\ started' = started + 1
  /\ UNCHANGED <<ttyOnly, lines, stopped>>

Accept == Exec /\ pending' = Append(pending, started + 1)

\* It is lost only when so many are waiting that there is no room for it.
Lose == Exec /\ Len(pending) >= Capacity /\ UNCHANGED pending

Report ==
  /\ ~stopped /\ pending # <<>>
  /\ ttyOnly => Head(pending) \notin Ttyless
  /\ lines' = Append(lines, Head(pending))
  /\ pending' = Tail(pending)
  /\ UNCHANGED <<ttyOnly, started, stopped>>

\* A name that could not be read is empty, so --tty-only may drop any exec.
Filter ==
  /\ ~stopped /\ pending # <<>>
  /\ ttyOnly \/ Head(pending) \in Excluded
  /\ pending' = Tail(pending)
  /\ UNCHANGED <<ttyOnly, started, lines, stopped>>

Stop == /\ ~stopped
        /\ stopped' = TRUE
        /\ UNCHANGED <<ttyOnly, started, pending, lines>>

Handle == Report \/ Filter

Next == Accept \/ Lose \/ Handle \/ Stop

\* Nothing obliges a program to be started or the sensor to be stopped.
Spec == Init /\ [][Next]_vars /\ WF_vars(Handle)
=============================================================================
