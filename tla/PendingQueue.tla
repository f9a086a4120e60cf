---------------------------- MODULE PendingQueue ----------------------------
(***************************************************************************)
(* The bounded drop-oldest queue of src/scorer/buffer.go between the       *)
(* scorer's stdin reader, which pushes, and its worker goroutines, which   *)
(* pop: a ring buffer under a mutex, with a condition variable for the     *)
(* workers that found it empty.                                            *)
(*                                                                         *)
(* One action is one critical section of the mutex.  Push and Close wake   *)
(* waiters AFTER they released the mutex (buffer.go 44-45, 77-78), so the  *)
(* wake-up is an action of its own and workers run in between.  An event   *)
(* is named by its arrival number, starting at 1.                          *)
(*                                                                         *)
(* Definitions that no action uses (SlotUnwrapped, OverflowUncounted, ...) *)
(* are mutants of the definition that follows them: plausible bugs, each   *)
(* of which one of the properties below must notice.                       *)
(***************************************************************************)
EXTENDS Naturals, Sequences, FiniteSets

CONSTANTS Workers,    \* the goroutines that pop
          Capacity,   \* len(q.buf)
          MaxPushes   \* bound: how many events the reader pushes

\* newQueue raises a capacity below 1 to 1 (buffer.go 26-28)
ASSUME CapacityAssumption == Capacity \in Nat \ {0}
ASSUME WorkersAssumption == IsFiniteSet(Workers)
ASSUME MaxPushesAssumption == MaxPushes \in Nat

VARIABLES buf,        \* the slots, 0 .. Capacity-1
          head,       \* index of the oldest element
          count,      \* number of elements buffered
          seq,        \* the sequence number the next Pop hands out
          closed,
          dropped,    \* events evicted
          reader,     \* what the reader goroutine does next
          worker,     \* worker[w]: where worker w stands
          pushed,     \* history: events pushed so far
          given       \* history: the (seq, ev) pairs Pop returned, in order

ring == <<buf, head, count>>
vars == <<buf, head, count, seq, closed, dropped, reader, worker, pushed, given>>

\* ExecEvent{}, the zero value an unused slot holds
ZeroEvent == 0

Slots == 0 .. Capacity - 1

ReaderStates == {"run", "signal", "broadcast", "done"}

\* pop: about to take the mutex inside Pop; wait: parked in notEmpty.Wait;
\* busy: working on the event it popped; exited: Pop returned ok = false
WorkerStates == {"pop", "wait", "busy", "exited"}

In(s) == {w \in Workers : worker[w] = s}

-----------------------------------------------------------------------------
Init ==
  /\ buf = [i \in Slots |-> ZeroEvent]
  /\ head = 0
  /\ count = 0
  /\ seq = 0
  /\ closed = FALSE
  /\ dropped = 0
  /\ reader = "run"
  /\ worker = [w \in Workers |-> "pop"]
  /\ pushed = 0
  /\ given = <<>>

SlotUnwrapped(h, k) == h + k

\* The ring index arithmetic.
Slot(h, k) == (h + k) % Capacity

PlaceFromOldHead(h, n) ==
  /\ head' = h
  /\ buf' = [buf EXCEPT ![Slot(head, n)] = pushed + 1]
  /\ count' = n + 1

\* The new event goes behind n events that start at index h.
Place(h, n) ==
  /\ head' = h
  /\ buf' = [buf EXCEPT ![Slot(h, n)] = pushed + 1]
  /\ count' = n + 1

PushWithRoom ==
  /\ count # Capacity
  /\ Place(head, count)
  /\ UNCHANGED <<seq, dropped>>

OverflowUncounted ==
  /\ count = Capacity
  /\ Place(Slot(head, 1), count - 1)
  /\ UNCHANGED <<seq, dropped>>

OverflowTakesNumber ==
  /\ count = Capacity
  /\ Place(Slot(head, 1), count - 1)
  /\ dropped' = dropped + 1
  /\ seq' = seq + 1

\* A full ring drops its oldest element to make room.
PushOverflow ==
  /\ count = Capacity
  /\ Place(Slot(head, 1), count - 1)
  /\ dropped' = dropped + 1
  /\ seq' = seq

\* The critical section of Push.
Push ==
  /\ reader = "run"
  /\ pushed < MaxPushes
  /\ PushWithRoom \/ PushOverflow
  /\ pushed' = pushed + 1
  /\ reader' = "signal"
  /\ UNCHANGED <<closed, worker, given>>

SignalIfWasEmpty ==
  /\ reader = "signal"
  /\ reader' = "run"
  /\ \/ count = 1 /\ \E w \in In("wait") : worker' = [worker EXCEPT ![w] = "pop"]
     \/ (count # 1 \/ In("wait") = {}) /\ UNCHANGED worker
  /\ UNCHANGED <<ring, seq, closed, dropped, pushed, given>>

\* notEmpty.Signal(), after Push's unlock: one waiter, if any, is made runnable
\* and competes for the mutex again.
Signal ==
  /\ reader = "signal"
  /\ reader' = "run"
  /\ \/ \E w \in In("wait") : worker' = [worker EXCEPT ![w] = "pop"]
     \/ In("wait") = {} /\ UNCHANGED worker
  /\ UNCHANGED <<ring, seq, closed, dropped, pushed, given>>

\* "release the reference for GC"
Release == buf' = [buf EXCEPT ![head] = ZeroEvent]

\* Pop on a non-empty queue: the oldest event, numbered now.
Take(w) ==
  /\ worker[w] = "pop"
  /\ count > 0
  /\ Release
  /\ head' = Slot(head, 1)
  /\ count' = count - 1
  /\ seq' = seq + 1
  /\ given' = Append(given, [seq |-> seq, ev |-> buf[head]])
  /\ worker' = [worker EXCEPT ![w] = "busy"]
  /\ UNCHANGED <<closed, dropped, reader, pushed>>

\* Pop on an empty open queue: Wait joins the wait list before it unlocks, so
\* checking and parking are one step.
Wait(w) ==
  /\ worker[w] = "pop"
  /\ count = 0
  /\ ~closed
  /\ worker' = [worker EXCEPT ![w] = "wait"]
  /\ UNCHANGED <<ring, seq, closed, dropped, reader, pushed, given>>

\* Pop on an empty closed queue returns ok = false and the worker returns.
Exit(w) ==
  /\ worker[w] = "pop"
  /\ count = 0
  /\ closed
  /\ worker' = [worker EXCEPT ![w] = "exited"]
  /\ UNCHANGED <<ring, seq, closed, dropped, reader, pushed, given>>

\* The worker has dealt with its event and calls Pop again.
Return(w) ==
  /\ worker[w] = "busy"
  /\ worker' = [worker EXCEPT ![w] = "pop"]
  /\ UNCHANGED <<ring, seq, closed, dropped, reader, pushed, given>>

\* The critical section of Close.
Close ==
  /\ reader = "run"
  /\ closed' = TRUE
  /\ reader' = "broadcast"
  /\ UNCHANGED <<ring, seq, dropped, worker, pushed, given>>

SignalAtClose ==
  /\ reader = "broadcast"
  /\ reader' = "done"
  /\ \/ \E w \in In("wait") : worker' = [worker EXCEPT ![w] = "pop"]
     \/ In("wait") = {} /\ UNCHANGED worker
  /\ UNCHANGED <<ring, seq, closed, dropped, pushed, given>>

\* notEmpty.Broadcast(), after Close's unlock.
Broadcast ==
  /\ reader = "broadcast"
  /\ reader' = "done"
  /\ worker' = [w \in Workers |-> IF worker[w] = "wait" THEN "pop" ELSE worker[w]]
  /\ UNCHANGED <<ring, seq, closed, dropped, pushed, given>>

Terminated == reader = "done" /\ In("exited") = Workers

WorkerStep(w) == Take(w) \/ Wait(w) \/ Exit(w) \/ Return(w)

Next == \/ Push \/ Signal \/ Close \/ Broadcast
        \/ \E w \in Workers : WorkerStep(w)
        \/ Terminated /\ UNCHANGED vars

\* A runnable goroutine is scheduled in the end, and sync.Mutex's starvation
\* mode lets each one that wants the mutex have it.  Nothing obliges stdin to
\* deliver a line or to end: Push and Close are not fair.
Fairness == /\ WF_vars(Signal)
            /\ WF_vars(Broadcast)
            /\ \A w \in Workers : WF_vars(WorkerStep(w))

SafetySpec == Init /\ [][Next]_vars
Spec == SafetySpec /\ Fairness

-----------------------------------------------------------------------------
\* The k-th buffered event, k = 0 the oldest.
Buffered(k) == buf[Slot(head, k)]

\* Every variable holds a value of the type its Go declaration gives it.
TypeOK ==
  /\ buf \in [Slots -> Nat]
  /\ head \in Slots
  /\ count \in 0 .. Capacity
  /\ seq \in Nat
  /\ closed \in BOOLEAN
  /\ dropped \in Nat
  /\ reader \in ReaderStates
  /\ worker \in [Workers -> WorkerStates]
  /\ pushed \in Nat
  /\ given \in Seq([seq : Nat, ev : Nat])

\* Every event pushed was handed out, was counted as dropped, or is buffered
\* (Push's dropped++ against count--, Pop's seq++ against count--).
Accounting == pushed = dropped + seq + count

\* Backpressure costs the oldest events only: whatever the wrap-around of head
\* and the evictions, the ring holds the latest `count' events in order.
HoldsNewest == \A k \in 0 .. count - 1 : Buffered(k) = pushed - count + 1 + k

\* A slot outside the live window holds no event ("release the reference for
\* GC", buffer.go 66): neither Pop nor an eviction leaves one behind.
SlotsReleased ==
  \A k \in count .. Capacity - 1 : Buffered(k) = ZeroEvent

\* The sequence numbers Pop hands out are 0, 1, 2, ... and follow the arrival
\* order; an evicted event consumes none (buffer.go 51-53).
SurvivorsInOrder ==
  /\ Len(given) = seq
  /\ \A i \in 1 .. Len(given) : given[i].seq = i - 1 /\ given[i].ev \in 1 .. pushed - count
  /\ \A i, j \in 1 .. Len(given) : i < j => given[i].ev < given[j].ev

\* No lost wake-up and no idle capacity: while a worker is parked, every
\* buffered event has a runnable worker or a signal on its way, although Push
\* signals outside the mutex and another worker may steal the event.
NoIdleWorker ==
  In("wait") # {} =>
    count <= Cardinality(In("pop")) + (IF reader = "signal" THEN 1 ELSE 0)

\* After Close's broadcast nobody is parked for good.
NobodyParkedAfterClose == reader = "done" => In("wait") = {}

\* Close only lets workers go once the buffer is drained (buffer.go 49).
DrainedBeforeExit == In("exited") # {} => closed /\ count = 0

\* Once the reader closes the queue every worker drains out and exits, so
\* main's wg.Wait returns.
WorkersExit == closed ~> (In("exited") = Workers)

-----------------------------------------------------------------------------
\* The ring, read as the FIFO it implements.
Promise == INSTANCE DropOldestFifo WITH
  fifo     <- [k \in 1 .. count |-> Buffered(k - 1)],
  arrivals <- pushed,
  lost     <- dropped,
  shut     <- closed,
  told     <- In("exited")

\* The ring buffer with its lock and condition variable implements the
\* drop-oldest FIFO, fairness included.
ImplementsFifo == Promise!Spec
=============================================================================
