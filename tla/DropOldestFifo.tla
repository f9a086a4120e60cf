--------------------------- MODULE DropOldestFifo ---------------------------
(***************************************************************************)
(* What the scorer's pending queue promises (src/scorer/buffer.go 5-9,     *)
(* 48-53), with no ring buffer, lock or condition variable: a bounded FIFO *)
(* whose overflow loses the oldest entry.  The survivors are numbered 0,   *)
(* 1, 2, ... in arrival order when they are taken, and a consumer is told  *)
(* "no more" only when the FIFO is shut and empty.                         *)
(*                                                                         *)
(* An event is named by its arrival number: nothing in the queue looks at  *)
(* what an event holds.                                                    *)
(***************************************************************************)
EXTENDS Naturals, Sequences

CONSTANTS Workers,    \* the consumers
          Capacity,   \* how many events may be pending
          MaxPushes   \* bound: how many events arrive

VARIABLES fifo,       \* the pending events, oldest first
          arrivals,   \* how many events have arrived
          lost,       \* how many were evicted
          given,      \* the <<seq, ev>> pairs handed out, in the order of the takes
          shut,       \* no event will arrive any more
          told        \* the consumers told that there is no more

vars == <<fifo, arrivals, lost, given, shut, told>>

Init == /\ fifo = <<>>
        /\ arrivals = 0
        /\ lost = 0
        /\ given = <<>>
        /\ shut = FALSE
        /\ told = {}

Arrive ==
  /\ ~shut
  /\ arrivals < MaxPushes
  /\ arrivals' = arrivals + 1
  /\ \/ /\ Len(fifo) < Capacity
        /\ fifo' = Append(fifo, arrivals + 1)
        /\ lost' = lost
     \/ /\ Len(fifo) = Capacity
        /\ fifo' = Append(Tail(fifo), arrivals + 1)
        /\ lost' = lost + 1
  /\ UNCHANGED <<given, shut, told>>

Take ==
  /\ fifo # <<>>
  /\ fifo' = Tail(fifo)
  /\ given' = Append(given, [seq |-> Len(given), ev |-> Head(fifo)])
  /\ UNCHANGED <<arrivals, lost, shut, told>>

Shut == /\ ~shut
        /\ shut' = TRUE
        /\ UNCHANGED <<fifo, arrivals, lost, given, told>>

Tell(w) == /\ shut
           /\ fifo = <<>>
           /\ told' = told \cup {w}
           /\ UNCHANGED <<fifo, arrivals, lost, given, shut>>

Next == Arrive \/ Take \/ Shut \/ \E w \in Workers : Tell(w)

(* What is pending is taken in the end, and every consumer of a shut FIFO  *)
(* is told.  Nothing obliges an event to arrive or the FIFO to be shut.    *)
Spec == /\ Init
        /\ [][Next]_vars
        /\ WF_vars(Take)
        /\ \A w \in Workers : WF_vars(Tell(w))
=============================================================================
