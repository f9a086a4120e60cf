------------------------ MODULE PendingQueue_proofs ------------------------
(* Proofs about PendingQueue, for every set of workers, capacity and bound. *)
EXTENDS PendingQueue, SequenceTheorems, FiniteSetTheorems, TLAPS

\* An index stays in the ring, and wraps at most once (the `% len(q.buf)' of
\* buffer.go 38, 42 and 67).
LEMMA SlotWraps ==
  ASSUME NEW h \in Slots, NEW k \in 0 .. Capacity
  PROVE  /\ Slot(h, k) \in Slots
         /\ Slot(h, k) = IF h + k < Capacity THEN h + k ELSE h + k - Capacity
  BY CapacityAssumption DEF Slot, Slots

-----------------------------------------------------------------------------
LEMMA InitTypeOK == Init => TypeOK
<1> SUFFICES ASSUME Init PROVE TypeOK
    OBVIOUS
<1>1. head \in Slots /\ count \in 0 .. Capacity
  BY CapacityAssumption DEF Init, Slots
<1>2. buf \in [Slots -> Nat]
  BY DEF Init, ZeroEvent
<1>3. given \in Seq([seq : Nat, ev : Nat])
  BY DEF Init
<1> QED
  BY <1>1, <1>2, <1>3 DEF Init, TypeOK, ReaderStates, WorkerStates

LEMMA PlaceTypeOK ==
  ASSUME TypeOK, NEW h \in Slots, NEW n \in 0 .. Capacity - 1, Place(h, n)
  PROVE  buf' \in [Slots -> Nat] /\ head' \in Slots /\ count' \in 0 .. Capacity
<1>1. Slot(h, n) \in Slots
  BY SlotWraps, CapacityAssumption
<1>2. buf' \in [Slots -> Nat]
  BY <1>1 DEF Place, TypeOK
<1> QED
  BY <1>2, CapacityAssumption DEF Place

LEMMA PushTypeOK == TypeOK /\ Push => TypeOK'
<1> SUFFICES ASSUME TypeOK, Push PROVE TypeOK'
    OBVIOUS
<1>1. Slot(head, 1) \in Slots /\ head \in Slots /\ count \in 0 .. Capacity
  BY SlotWraps, CapacityAssumption DEF TypeOK
<1>2. buf' \in [Slots -> Nat] /\ head' \in Slots /\ count' \in 0 .. Capacity
  <2>1. CASE count # Capacity
    BY <1>1, <2>1, PlaceTypeOK, CapacityAssumption DEF Push, PushWithRoom, PushOverflow
  <2>2. CASE count = Capacity
    BY <1>1, <2>2, PlaceTypeOK, CapacityAssumption DEF Push, PushWithRoom, PushOverflow
  <2> QED
    BY <2>1, <2>2
<1>3. dropped' \in Nat /\ pushed' \in Nat /\ reader' \in ReaderStates
  BY DEF Push, PushWithRoom, PushOverflow, TypeOK, ReaderStates
<1> QED
  BY <1>2, <1>3 DEF Push, PushWithRoom, PushOverflow, TypeOK

LEMMA TakeTypeOK == ASSUME NEW w \in Workers PROVE TypeOK /\ Take(w) => TypeOK'
<1> SUFFICES ASSUME TypeOK, Take(w) PROVE TypeOK'
    OBVIOUS
<1> USE CapacityAssumption DEF TypeOK, Take, Release
<1>1. Slot(head, 1) \in Slots
  BY SlotWraps
<1>2. buf' \in [Slots -> Nat] /\ head' \in Slots /\ count' \in 0 .. Capacity
  BY <1>1 DEF ZeroEvent, Release
<1>3. buf[head] \in Nat
  OBVIOUS
<1>4. given' \in Seq([seq : Nat, ev : Nat])
  BY <1>3, AppendProperties
<1>5. worker' \in [Workers -> WorkerStates]
  BY DEF WorkerStates
<1> QED
  BY <1>2, <1>4, <1>5

\* The type invariant is inductive by itself: every step of the reader and of
\* a worker keeps it.
LEMMA NextTypeOK == TypeOK /\ [Next]_vars => TypeOK'
<1> SUFFICES ASSUME TypeOK, [Next]_vars PROVE TypeOK'
    OBVIOUS
<1>1. CASE Push
  BY <1>1, PushTypeOK
<1>2. CASE Signal
  BY <1>2 DEF TypeOK, Signal, ring, In, ReaderStates, WorkerStates
<1>3. CASE Close
  BY <1>3 DEF TypeOK, Close, ring, ReaderStates
<1>4. CASE Broadcast
  BY <1>4 DEF TypeOK, Broadcast, ring, ReaderStates, WorkerStates
<1>5. ASSUME NEW w \in Workers, WorkerStep(w) PROVE TypeOK'
  <2>1. CASE Take(w)
    BY <2>1, TakeTypeOK
  <2>2. CASE Wait(w) \/ Exit(w) \/ Return(w)
    BY <2>2 DEF TypeOK, Wait, Exit, Return, ring, WorkerStates
  <2> QED
    BY <1>5, <2>1, <2>2 DEF WorkerStep
<1>6. CASE UNCHANGED vars
  BY <1>6 DEF TypeOK, vars
<1> QED
  BY <1>1, <1>2, <1>3, <1>4, <1>5, <1>6 DEF Next

\* The variables keep the types of the queue struct in every behaviour, for
\* every capacity, set of workers and number of pushes.
THEOREM TypeCorrect == SafetySpec => []TypeOK
<1>1. Init => TypeOK
  BY InitTypeOK
<1>2. TypeOK /\ [Next]_vars => TypeOK'
  BY NextTypeOK
<1> QED
  BY <1>1, <1>2, PTL DEF SafetySpec

-----------------------------------------------------------------------------
\* Pushed = dropped + handed out + buffered is kept by the critical sections
\* of Push and Pop and untouched by the rest.
LEMMA NextAccounting == TypeOK /\ Accounting /\ [Next]_vars => Accounting'
<1> SUFFICES ASSUME TypeOK, Accounting, [Next]_vars PROVE Accounting'
    OBVIOUS
<1> USE DEF Accounting
<1>1. CASE Push
  <2>1. pushed' = pushed + 1 /\ seq' = seq
    BY <1>1 DEF Push, PushWithRoom, PushOverflow
  <2>2. CASE count # Capacity
    <3>1. count' = count + 1 /\ dropped' = dropped
      BY <1>1, <2>2 DEF Push, PushWithRoom, PushOverflow, Place
    <3> QED
      BY <2>1, <3>1 DEF TypeOK
  <2>3. CASE count = Capacity
    <3>1. count' = (count - 1) + 1 /\ dropped' = dropped + 1
      BY <1>1, <2>3 DEF Push, PushWithRoom, PushOverflow, Place
    <3> QED
      BY <2>1, <3>1 DEF TypeOK
  <2> QED
    BY <2>2, <2>3
<1>2. CASE Signal \/ Close \/ Broadcast
  BY <1>2 DEF Signal, Close, Broadcast, ring
<1>3. ASSUME NEW w \in Workers, WorkerStep(w) PROVE Accounting'
  <2>1. CASE Take(w)
    BY <2>1 DEF Take, TypeOK
  <2>2. CASE Wait(w) \/ Exit(w) \/ Return(w)
    BY <2>2 DEF Wait, Exit, Return, ring
  <2> QED
    BY <1>3, <2>1, <2>2 DEF WorkerStep
<1>4. CASE UNCHANGED vars
  BY <1>4 DEF vars
<1> QED
  BY <1>1, <1>2, <1>3, <1>4 DEF Next

\* No event is unaccounted for: each one pushed was handed out, counted as
\* dropped, or is still buffered.
THEOREM EventsAccounted == SafetySpec => []Accounting
<1>1. Init => Accounting
  BY DEF Init, Accounting
<1> QED
  BY <1>1, TypeCorrect, NextAccounting, PTL DEF SafetySpec

-----------------------------------------------------------------------------
(* The ring: what it holds, and that what left it left in order.           *)

\* Moving the head on by one renumbers the elements by one.
LEMMA SlotShift ==
  ASSUME NEW h \in Slots, NEW k \in 0 .. Capacity - 1
  PROVE  Slot(Slot(h, 1), k) = Slot(h, k + 1)
<1>1. Slot(h, 1) \in Slots
  BY SlotWraps, CapacityAssumption
<1>2. Slot(h, 1) = IF h + 1 < Capacity THEN h + 1 ELSE h + 1 - Capacity
  BY SlotWraps, CapacityAssumption
<1>3. Slot(Slot(h, 1), k) =
         IF Slot(h, 1) + k < Capacity THEN Slot(h, 1) + k ELSE Slot(h, 1) + k - Capacity
  BY <1>1, SlotWraps, CapacityAssumption
<1>4. Slot(h, k + 1) =
         IF h + (k + 1) < Capacity THEN h + (k + 1) ELSE h + (k + 1) - Capacity
  BY SlotWraps, CapacityAssumption
<1> QED
  BY <1>2, <1>3, <1>4, CapacityAssumption DEF Slots

\* Two elements of the ring never share a slot.
LEMMA SlotInjective ==
  ASSUME NEW h \in Slots, NEW j \in 0 .. Capacity - 1, NEW k \in 0 .. Capacity - 1,
         j # k
  PROVE  Slot(h, j) # Slot(h, k)
<1>1. /\ Slot(h, j) = IF h + j < Capacity THEN h + j ELSE h + j - Capacity
      /\ Slot(h, k) = IF h + k < Capacity THEN h + k ELSE h + k - Capacity
  BY SlotWraps, CapacityAssumption
<1> QED
  BY <1>1, CapacityAssumption DEF Slots

\* The head is the slot of the oldest element, and one lap returns to it.
LEMMA SlotZero ==
  ASSUME NEW h \in Slots
  PROVE  Slot(h, 0) = h /\ Slot(h, Capacity) = h
<1>1. /\ Slot(h, 0) = IF h + 0 < Capacity THEN h + 0 ELSE h + 0 - Capacity
      /\ Slot(h, Capacity) =
           IF h + Capacity < Capacity THEN h + Capacity ELSE h + Capacity - Capacity
  BY SlotWraps, CapacityAssumption
<1> QED
  BY <1>1, CapacityAssumption DEF Slots

\* The window of n events from index h holds the newest n, the rest is zero.
Window(b, h, n, last) ==
  /\ \A k \in 0 .. n - 1 : b[Slot(h, k)] = last - n + 1 + k
  /\ \A k \in n .. Capacity - 1 : b[Slot(h, k)] = ZeroEvent

LEMMA WindowIsRing == Window(buf, head, count, pushed) <=> HoldsNewest /\ SlotsReleased
  BY DEF Window, HoldsNewest, SlotsReleased, Buffered

LEMMA PlaceKeepsWindow ==
  ASSUME TypeOK, NEW h \in Slots, NEW n \in 0 .. Capacity - 1,
         \A k \in 0 .. n - 1 : buf[Slot(h, k)] = pushed - n + 1 + k,
         \A k \in n + 1 .. Capacity - 1 : buf[Slot(h, k)] = ZeroEvent,
         Place(h, n)
  PROVE  Window(buf', h, n + 1, pushed + 1)
<1>1. \A k \in 0 .. Capacity - 1 : Slot(h, k) \in Slots
  BY SlotWraps, CapacityAssumption
<1>2. \A k \in 0 .. Capacity - 1 :
         buf'[Slot(h, k)] = IF k = n THEN pushed + 1 ELSE buf[Slot(h, k)]
  <2> TAKE k \in 0 .. Capacity - 1
  <2>1. CASE k = n
    BY <1>1, <2>1 DEF Place, TypeOK
  <2>2. CASE k # n
    <3>1. Slot(h, k) # Slot(h, n)
      BY <2>2, SlotInjective
    <3> QED
      BY <1>1, <2>2, <3>1 DEF Place, TypeOK
  <2> QED
    BY <2>1, <2>2
<1>3. ASSUME NEW k \in 0 .. n PROVE buf'[Slot(h, k)] = (pushed + 1) - (n + 1) + 1 + k
  <2>1. CASE k = n
    BY <1>2, <2>1, CapacityAssumption DEF TypeOK
  <2>2. CASE k # n
    <3>1. k \in 0 .. n - 1 /\ k \in 0 .. Capacity - 1
      BY <2>2, CapacityAssumption
    <3> QED
      BY <1>2, <2>2, <3>1 DEF TypeOK
  <2> QED
    BY <2>1, <2>2
<1>4. ASSUME NEW k \in n + 1 .. Capacity - 1 PROVE buf'[Slot(h, k)] = ZeroEvent
  BY <1>2, CapacityAssumption
<1> QED
  BY <1>3, <1>4, CapacityAssumption DEF Window

LEMMA PushKeepsWindow ==
  TypeOK /\ Window(buf, head, count, pushed) /\ Push
     => Window(buf', head', count', pushed')
<1> SUFFICES ASSUME TypeOK, Window(buf, head, count, pushed), Push
             PROVE  Window(buf', head', count', pushed')
    OBVIOUS
<1>1. head \in Slots /\ count \in 0 .. Capacity /\ Slot(head, 1) \in Slots
  BY SlotWraps, CapacityAssumption DEF TypeOK
<1>2. pushed' = pushed + 1 /\ pushed \in Nat
  BY DEF Push, PushWithRoom, PushOverflow, TypeOK
<1>3. CASE count # Capacity
  <2>1. Place(head, count)
    BY <1>3 DEF Push, PushWithRoom, PushOverflow
  <2>2. count \in 0 .. Capacity - 1
    BY <1>1, <1>3, CapacityAssumption
  <2>3. Window(buf', head, count + 1, pushed + 1)
    <3>1. \A k \in 0 .. count - 1 : buf[Slot(head, k)] = pushed - count + 1 + k
      BY DEF Window
    <3>2. \A k \in count + 1 .. Capacity - 1 : buf[Slot(head, k)] = ZeroEvent
      BY <1>1, CapacityAssumption DEF Window
    <3> QED
      BY <1>1, <2>1, <2>2, <3>1, <3>2, PlaceKeepsWindow
  <2> QED
    BY <1>2, <2>1, <2>3 DEF Place
<1>4. CASE count = Capacity
  <2> DEFINE h == Slot(head, 1)
             n == count - 1
  <2>1. Place(h, n)
    BY <1>4, CapacityAssumption DEF Push, PushWithRoom, PushOverflow
  <2>2. n \in 0 .. Capacity - 1
    BY <1>4, CapacityAssumption
  <2>3. ASSUME NEW k \in 0 .. n - 1 PROVE buf[Slot(h, k)] = pushed - n + 1 + k
    <3>1. Slot(h, k) = Slot(head, k + 1)
      BY <1>1, <1>4, SlotShift, CapacityAssumption
    <3>2. buf[Slot(head, k + 1)] = pushed - count + 1 + (k + 1)
      BY <1>1, <1>4, CapacityAssumption DEF Window
    <3> QED
      BY <1>1, <1>2, <3>1, <3>2
  \* The one slot left is the evicted element's, which Place overwrites.
  <2>4. \A k \in n + 1 .. Capacity - 1 : buf[Slot(h, k)] = ZeroEvent
    BY <1>4, CapacityAssumption
  <2>5. Window(buf', h, n + 1, pushed + 1)
    <3> HIDE DEF h, n
    <3> QED
      BY <1>1, <2>1, <2>2, <2>3, <2>4, PlaceKeepsWindow DEF h
  <2> QED
    BY <1>2, <2>1, <2>5 DEF Place
<1> QED
  BY <1>3, <1>4

LEMMA TakeKeepsWindow ==
  ASSUME NEW w \in Workers
  PROVE  TypeOK /\ Window(buf, head, count, pushed) /\ Take(w)
            => Window(buf', head', count', pushed')
<1> SUFFICES ASSUME TypeOK, Window(buf, head, count, pushed), Take(w)
             PROVE  Window(buf', head', count', pushed')
    OBVIOUS
<1>1. /\ head \in Slots /\ count \in 1 .. Capacity /\ pushed \in Nat
      /\ Slot(head, 1) \in Slots
  BY SlotWraps, CapacityAssumption DEF TypeOK, Take, Release
<1>2. /\ buf' = [buf EXCEPT ![head] = ZeroEvent] /\ head' = Slot(head, 1)
      /\ count' = count - 1 /\ pushed' = pushed
  BY DEF Take, Release
<1>3. \A k \in 1 .. Capacity - 1 : buf'[Slot(head, k)] = buf[Slot(head, k)]
  <2> TAKE k \in 1 .. Capacity - 1
  <2>1. Slot(head, k) \in Slots /\ Slot(head, k) # head
    BY <1>1, SlotWraps, SlotZero, SlotInjective, CapacityAssumption
  <2> QED
    BY <1>2, <2>1 DEF TypeOK
<1>4. buf'[Slot(head, Capacity)] = ZeroEvent
  BY <1>1, <1>2, SlotZero DEF TypeOK
<1>5. ASSUME NEW k \in 0 .. count' - 1
      PROVE  buf'[Slot(head', k)] = pushed' - count' + 1 + k
  <2>1. Slot(head', k) = Slot(head, k + 1) /\ k + 1 \in 1 .. Capacity - 1
    BY <1>1, <1>2, SlotShift, CapacityAssumption
  <2>2. buf[Slot(head, k + 1)] = pushed - count + 1 + (k + 1)
    BY <1>1, <1>2 DEF Window
  <2> QED
    BY <1>1, <1>2, <1>3, <2>1, <2>2
<1>6. ASSUME NEW k \in count' .. Capacity - 1 PROVE buf'[Slot(head', k)] = ZeroEvent
  <2>1. Slot(head', k) = Slot(head, k + 1) /\ k + 1 \in 1 .. Capacity
    BY <1>1, <1>2, SlotShift, CapacityAssumption
  <2>2. CASE k + 1 = Capacity
    BY <1>4, <2>1, <2>2
  <2>3. CASE k + 1 # Capacity
    <3>1. k + 1 \in 1 .. Capacity - 1 /\ k + 1 \in count .. Capacity - 1
      BY <1>1, <1>2, <2>1, <2>3, CapacityAssumption
    <3>2. buf[Slot(head, k + 1)] = ZeroEvent
      BY <3>1 DEF Window
    <3> QED
      BY <1>3, <2>1, <3>1, <3>2
  <2> QED
    BY <2>2, <2>3
<1> QED
  BY <1>5, <1>6 DEF Window

LEMMA NextKeepsWindow ==
  TypeOK /\ Window(buf, head, count, pushed) /\ [Next]_vars
     => Window(buf', head', count', pushed')
<1> SUFFICES ASSUME TypeOK, Window(buf, head, count, pushed), [Next]_vars
             PROVE  Window(buf', head', count', pushed')
    OBVIOUS
<1>1. CASE Push
  BY <1>1, PushKeepsWindow
<1>2. CASE Signal \/ Close \/ Broadcast
  BY <1>2 DEF Signal, Close, Broadcast, ring
<1>3. ASSUME NEW w \in Workers, WorkerStep(w)
      PROVE  Window(buf', head', count', pushed')
  <2>1. CASE Take(w)
    BY <2>1, TakeKeepsWindow
  <2>2. CASE Wait(w) \/ Exit(w) \/ Return(w)
    BY <2>2 DEF Wait, Exit, Return, ring
  <2> QED
    BY <1>3, <2>1, <2>2 DEF WorkerStep
<1>4. CASE UNCHANGED vars
  BY <1>4 DEF vars
<1> QED
  BY <1>1, <1>2, <1>3, <1>4 DEF Next

\* Whatever the wrap-around and the evictions, the ring holds the newest
\* events in arrival order and every other slot is released.
THEOREM RingHoldsNewest == SafetySpec => [](HoldsNewest /\ SlotsReleased)
<1> DEFINE Inv == TypeOK /\ Window(buf, head, count, pushed)
<1>1. Init => Inv
  <2> SUFFICES ASSUME Init PROVE Inv
      OBVIOUS
  <2>1. \A k \in 0 .. Capacity - 1 : Slot(0, k) \in Slots
    BY SlotWraps, CapacityAssumption DEF Slots
  <2> QED
    BY <2>1, InitTypeOK, CapacityAssumption DEF Init, Window
<1>2. Inv /\ [Next]_vars => Inv'
  BY NextTypeOK, NextKeepsWindow
<1>3. Inv => HoldsNewest /\ SlotsReleased
  BY WindowIsRing
<1> QED
  BY <1>1, <1>2, <1>3, PTL DEF SafetySpec

-----------------------------------------------------------------------------
(* The sequence numbers.                                                   *)

LEMMA TakeInOrder ==
  ASSUME NEW w \in Workers
  PROVE  /\ TypeOK /\ Accounting /\ HoldsNewest /\ SurvivorsInOrder
         /\ Take(w)
         => SurvivorsInOrder'
<1> SUFFICES ASSUME TypeOK, Accounting, HoldsNewest, SurvivorsInOrder, Take(w)
             PROVE  SurvivorsInOrder'
    OBVIOUS
<1> DEFINE new == [seq |-> seq, ev |-> buf[head]]
           n == Len(given)
<1>1. /\ head \in Slots /\ count \in 1 .. Capacity /\ pushed \in Nat /\ seq \in Nat
      /\ dropped \in Nat /\ count' = count - 1 /\ pushed' = pushed /\ seq' = seq + 1
  BY CapacityAssumption DEF TypeOK, Take, Release
<1>2. new.ev = pushed - count + 1 /\ new.seq = seq
  <2>1. buf[Slot(head, 0)] = pushed - count + 1 + 0
    BY <1>1 DEF HoldsNewest, Buffered
  <2> QED
    BY <1>1, <2>1, SlotZero
<1>3. new \in [seq : Nat, ev : Nat]
  BY <1>1 DEF TypeOK
<1>4. given \in Seq([seq : Nat, ev : Nat]) /\ n \in Nat /\ n = seq
  BY LenProperties DEF TypeOK, SurvivorsInOrder
<1>5. given' = Append(given, new)
  BY DEF Take, Release
<1> HIDE DEF new, n
<1>6. /\ Len(given') = n + 1
      /\ \A i \in 1 .. n : given'[i] = given[i]
      /\ given'[n + 1] = new
  BY <1>3, <1>4, <1>5, AppendProperties DEF n
<1>7. \A i \in 1 .. n : given[i].seq = i - 1 /\ given[i].ev \in 1 .. pushed - count
  BY DEF SurvivorsInOrder, n
<1>8. pushed' - count' = pushed - count + 1 /\ pushed - count \in Nat
  BY <1>1 DEF Accounting
<1>9. ASSUME NEW i \in 1 .. n + 1
      PROVE  given'[i].seq = i - 1 /\ given'[i].ev \in 1 .. pushed' - count'
  <2>1. CASE i = n + 1
    <3>1. given'[i] = new /\ i - 1 = seq
      BY <1>1, <1>4, <1>6, <2>1
    <3>2. new.ev \in 1 .. pushed' - count'
      BY <1>1, <1>2, <1>8
    <3> QED
      BY <1>2, <3>1, <3>2
  <2>2. CASE i \in 1 .. n
    BY <1>1, <1>6, <1>7, <1>8, <2>2
  <2> QED
    BY <1>4, <2>1, <2>2
<1>10. ASSUME NEW i \in 1 .. n + 1, NEW j \in 1 .. n + 1, i < j
       PROVE  given'[i].ev < given'[j].ev
  <2>1. i \in 1 .. n
    BY <1>4, <1>10
  <2>2. CASE j = n + 1
    BY <1>1, <1>2, <1>6, <1>7, <1>8, <2>1, <2>2
  <2>3. CASE j \in 1 .. n
    BY <1>6, <1>10, <2>1, <2>3 DEF SurvivorsInOrder, n
  <2> QED
    BY <1>4, <2>2, <2>3
<1> QED
  BY <1>1, <1>4, <1>6, <1>9, <1>10 DEF SurvivorsInOrder

LEMMA PushInOrder ==
  TypeOK /\ Accounting /\ SurvivorsInOrder /\ Push => SurvivorsInOrder'
<1> SUFFICES ASSUME TypeOK, Accounting, SurvivorsInOrder, Push
             PROVE  SurvivorsInOrder'
    OBVIOUS
<1>1. given' = given /\ seq' = seq /\ pushed' = pushed + 1
  BY DEF Push, PushWithRoom, PushOverflow
<1>2. count \in Nat /\ pushed \in Nat
  BY CapacityAssumption DEF TypeOK
<1>3. count' = count + 1 \/ count' = (count - 1) + 1
  BY DEF Push, PushWithRoom, PushOverflow, Place
<1>4. pushed' - count' = pushed - count \/ pushed' - count' = pushed - count + 1
  BY <1>1, <1>2, <1>3
<1>5. \A e \in 1 .. pushed - count : e \in 1 .. pushed' - count'
  BY <1>1, <1>2, <1>3, <1>4
<1> QED
  BY <1>1, <1>5 DEF SurvivorsInOrder

LEMMA NextInOrder ==
  TypeOK /\ Accounting /\ HoldsNewest /\ SurvivorsInOrder /\ [Next]_vars
     => SurvivorsInOrder'
<1> SUFFICES ASSUME TypeOK, Accounting, HoldsNewest, SurvivorsInOrder, [Next]_vars
             PROVE  SurvivorsInOrder'
    OBVIOUS
<1>1. CASE Push
  BY <1>1, PushInOrder
<1>2. CASE Signal \/ Close \/ Broadcast
  BY <1>2 DEF SurvivorsInOrder, Signal, Close, Broadcast, ring
<1>3. ASSUME NEW w \in Workers, WorkerStep(w) PROVE SurvivorsInOrder'
  <2>1. CASE Take(w)
    BY <2>1, TakeInOrder
  <2>2. CASE Wait(w) \/ Exit(w) \/ Return(w)
    BY <2>2 DEF SurvivorsInOrder, Wait, Exit, Return, ring
  <2> QED
    BY <1>3, <2>1, <2>2 DEF WorkerStep
<1>4. CASE UNCHANGED vars
  BY <1>4 DEF SurvivorsInOrder, vars
<1> QED
  BY <1>1, <1>2, <1>3, <1>4 DEF Next

\* The survivors are numbered 0, 1, 2, ... in arrival order, so the writer,
\* which waits for each number in turn, never waits for a dropped event.
THEOREM SurvivorsNumbered == SafetySpec => []SurvivorsInOrder
<1>1. Init => SurvivorsInOrder
  BY DEF Init, SurvivorsInOrder
<1> QED
  BY <1>1, TypeCorrect, EventsAccounted, RingHoldsNewest, NextInOrder, PTL DEF SafetySpec

-----------------------------------------------------------------------------
(* The wake-ups.                                                           *)

\* The parked workers against the reader's program counter: what Close and
\* Broadcast establish and no later step undoes.
Shutdown ==
  /\ closed <=> reader \in {"broadcast", "done"}
  /\ NobodyParkedAfterClose
  /\ DrainedBeforeExit

LEMMA NextShutdown == TypeOK /\ Shutdown /\ [Next]_vars => Shutdown'
<1> SUFFICES ASSUME TypeOK, Shutdown, [Next]_vars PROVE Shutdown'
    OBVIOUS
<1> USE DEF Shutdown, NobodyParkedAfterClose, DrainedBeforeExit, TypeOK, In
<1>1. CASE Push
  BY <1>1 DEF Push, PushWithRoom, PushOverflow
<1>2. CASE Signal
  BY <1>2 DEF Signal, ring
<1>3. CASE Close
  BY <1>3 DEF Close, ring
<1>4. CASE Broadcast
  BY <1>4 DEF Broadcast, ring
<1>5. ASSUME NEW w \in Workers, WorkerStep(w) PROVE Shutdown'
  <2>1. CASE Take(w)
    BY <2>1, CapacityAssumption DEF Take
  <2>2. CASE Wait(w)
    BY <2>2 DEF Wait, ring
  <2>3. CASE Exit(w)
    BY <2>3 DEF Exit, ring
  <2>4. CASE Return(w)
    BY <2>4 DEF Return, ring
  <2> QED
    BY <1>5, <2>1, <2>2, <2>3, <2>4 DEF WorkerStep
<1>6. CASE UNCHANGED vars
  BY <1>6 DEF vars
<1> QED
  BY <1>1, <1>2, <1>3, <1>4, <1>5, <1>6 DEF Next

\* Close is obeyed: no worker leaves before the ring is drained, and none is
\* still parked once Close has returned.
THEOREM ShutdownOrderly == SafetySpec => [](NobodyParkedAfterClose /\ DrainedBeforeExit)
<1>1. Init => Shutdown
  BY DEF Init, Shutdown, NobodyParkedAfterClose, DrainedBeforeExit, In
<1>2. Shutdown => NobodyParkedAfterClose /\ DrainedBeforeExit
  BY DEF Shutdown
<1> QED
  BY <1>1, <1>2, TypeCorrect, NextShutdown, PTL DEF SafetySpec

\* One worker that joins or leaves the runnable ones changes their number by 1.
LEMMA RunnableCount ==
  ASSUME TypeOK
  PROVE  /\ Cardinality(In("pop")) \in Nat
         /\ \A w \in Workers : \A s \in WorkerStates :
              worker' = [worker EXCEPT ![w] = s] =>
                Cardinality(In("pop")') =
                  IF worker[w] = "pop"
                  THEN IF s = "pop" THEN Cardinality(In("pop")) ELSE Cardinality(In("pop")) - 1
                  ELSE IF s = "pop" THEN Cardinality(In("pop")) + 1 ELSE Cardinality(In("pop"))
<1>1. IsFiniteSet(In("pop")) /\ Cardinality(In("pop")) \in Nat
  BY WorkersAssumption, FS_Subset, FS_CardinalityType DEF In
<1>2. ASSUME NEW w \in Workers, NEW s \in WorkerStates, worker' = [worker EXCEPT ![w] = s]
      PROVE  Cardinality(In("pop")') =
                IF worker[w] = "pop"
                THEN IF s = "pop" THEN Cardinality(In("pop")) ELSE Cardinality(In("pop")) - 1
                ELSE IF s = "pop" THEN Cardinality(In("pop")) + 1 ELSE Cardinality(In("pop"))
  <2>1. In("pop")' = IF s = "pop" THEN In("pop") \cup {w} ELSE In("pop") \ {w}
    BY <1>2 DEF In, TypeOK
  <2>2. w \in In("pop") <=> worker[w] = "pop"
    BY DEF In
  <2>3. /\ Cardinality(In("pop") \cup {w}) =
            IF w \in In("pop") THEN Cardinality(In("pop")) ELSE Cardinality(In("pop")) + 1
        /\ Cardinality(In("pop") \ {w}) =
            IF w \in In("pop") THEN Cardinality(In("pop")) - 1 ELSE Cardinality(In("pop"))
    BY <1>1, FS_AddElement, FS_RemoveElement
  <2> QED
    BY <2>1, <2>2, <2>3
<1> QED
  BY <1>1, <1>2

LEMMA NextNoIdleWorker == TypeOK /\ NoIdleWorker /\ [Next]_vars => NoIdleWorker'
<1> SUFFICES ASSUME TypeOK, NoIdleWorker, [Next]_vars, In("wait")' # {}
             PROVE  count' <= Cardinality(In("pop")') + (IF reader' = "signal" THEN 1 ELSE 0)
    BY DEF NoIdleWorker
<1> DEFINE c == Cardinality(In("pop"))
<1>0. c \in Nat /\ count \in Nat
  BY RunnableCount, CapacityAssumption DEF TypeOK
<1>1. CASE Push
  <2>1. worker' = worker /\ reader = "run" /\ reader' = "signal"
    BY <1>1 DEF Push, PushWithRoom, PushOverflow
  <2>2. In("wait") # {} /\ Cardinality(In("pop")') = c
    BY <2>1 DEF In
  <2>3. count <= c
    BY <1>0, <2>1, <2>2 DEF NoIdleWorker
  <2>4. count' = count + 1 \/ count' = (count - 1) + 1
    BY <1>1 DEF Push, PushWithRoom, PushOverflow, Place
  <2> QED
    BY <1>0, <2>1, <2>2, <2>3, <2>4
<1>2. CASE Signal
  <2>1. reader = "signal" /\ reader' = "run" /\ count' = count
    BY <1>2 DEF Signal, ring
  <2>2. In("wait") # {}
    BY <1>2 DEF Signal, In
  <2>3. PICK w \in In("wait") : worker' = [worker EXCEPT ![w] = "pop"]
    BY <1>2, <2>2 DEF Signal
  <2>4. Cardinality(In("pop")') = c + 1
    <3>1. w \in Workers /\ worker[w] = "wait" /\ "pop" \in WorkerStates
      BY <2>3 DEF In, WorkerStates
    <3> QED
      BY <2>3, <3>1, RunnableCount
  <2>5. count <= c + 1
    BY <1>0, <2>1, <2>2 DEF NoIdleWorker
  <2> QED
    BY <1>0, <2>1, <2>4, <2>5
<1>3. CASE Close
  <2>1. /\ worker' = worker /\ count' = count
        /\ reader = "run" /\ reader' = "broadcast"
    BY <1>3 DEF Close, ring
  <2>2. In("wait") # {} /\ Cardinality(In("pop")') = c
    BY <2>1 DEF In
  <2> QED
    BY <1>0, <2>1, <2>2 DEF NoIdleWorker
<1>4. CASE Broadcast
  <2>1. In("wait")' = {}
    BY <1>4 DEF Broadcast, In
  <2> QED
    BY <2>1
<1>5. ASSUME NEW w \in Workers, WorkerStep(w)
      PROVE  count' <= Cardinality(In("pop")') + (IF reader' = "signal" THEN 1 ELSE 0)
  <2> DEFINE pend == IF reader = "signal" THEN 1 ELSE 0
  <2>0. pend \in Nat /\ In("wait") = {v \in Workers : worker[v] = "wait"}
    BY DEF In
  <2>1. CASE Take(w)
    <3>1. /\ worker[w] = "pop" /\ worker' = [worker EXCEPT ![w] = "busy"]
          /\ count' = count - 1 /\ reader' = reader
      BY <2>1 DEF Take
    <3>2. In("wait") # {}
      BY <3>1 DEF In, TypeOK
    <3>3. Cardinality(In("pop")') = c - 1
      BY <3>1, RunnableCount DEF WorkerStates
    <3>4. count <= c + pend
      BY <3>2 DEF NoIdleWorker
    <3> QED
      BY <1>0, <2>0, <3>1, <3>3, <3>4
  <2>2. CASE Wait(w)
    <3>1. /\ worker[w] = "pop" /\ worker' = [worker EXCEPT ![w] = "wait"]
          /\ count' = 0 /\ reader' = reader
      BY <2>2 DEF Wait, ring
    <3>2. w \in In("pop") /\ IsFiniteSet(In("pop"))
      BY <3>1, WorkersAssumption, FS_Subset DEF In
    <3>3. c # 0
      BY <3>2, FS_EmptySet
    <3>4. Cardinality(In("pop")') = c - 1
      BY <3>1, RunnableCount DEF WorkerStates
    <3> QED
      BY <1>0, <2>0, <3>1, <3>3, <3>4
  <2>3. CASE Exit(w)
    <3>1. /\ worker[w] = "pop" /\ worker' = [worker EXCEPT ![w] = "exited"]
          /\ count' = 0 /\ reader' = reader
      BY <2>3 DEF Exit, ring
    <3>2. w \in In("pop") /\ IsFiniteSet(In("pop"))
      BY <3>1, WorkersAssumption, FS_Subset DEF In
    <3>3. c # 0
      BY <3>2, FS_EmptySet
    <3>4. Cardinality(In("pop")') = c - 1
      BY <3>1, RunnableCount DEF WorkerStates
    <3> QED
      BY <1>0, <2>0, <3>1, <3>3, <3>4
  <2>4. CASE Return(w)
    <3>1. /\ worker[w] = "busy" /\ worker' = [worker EXCEPT ![w] = "pop"]
          /\ count' = count /\ reader' = reader
      BY <2>4 DEF Return, ring
    <3>2. In("wait") # {}
      BY <3>1 DEF In, TypeOK
    <3>3. Cardinality(In("pop")') = c + 1
      BY <3>1, RunnableCount DEF WorkerStates
    <3>4. count <= c + pend
      BY <3>2 DEF NoIdleWorker
    <3> QED
      BY <1>0, <2>0, <3>1, <3>3, <3>4
  <2> QED
    BY <1>5, <2>1, <2>2, <2>3, <2>4 DEF WorkerStep
<1>6. CASE UNCHANGED vars
  <2>1. worker' = worker /\ count' = count /\ reader' = reader
    BY <1>6 DEF vars
  <2>2. In("wait") # {} /\ Cardinality(In("pop")') = c
    BY <2>1 DEF In
  <2> QED
    BY <2>1, <2>2 DEF NoIdleWorker
<1> QED
  BY <1>1, <1>2, <1>3, <1>4, <1>5, <1>6 DEF Next

\* No wake-up is lost: although Push signals after unlocking, a worker is
\* parked only while every buffered event has a runnable worker or a signal.
THEOREM NoWakeupLost == SafetySpec => []NoIdleWorker
<1>1. Init => NoIdleWorker
  BY DEF Init, NoIdleWorker, In
<1> QED
  BY <1>1, TypeCorrect, NextNoIdleWorker, PTL DEF SafetySpec

-----------------------------------------------------------------------------
(* The ring implements the drop-oldest FIFO (the safety part of            *)
(* ImplementsFifo; its fairness stays with TLC).                           *)

\* The FIFO of the newest n of `last' events, and the ring read as one.
Newest(n, last) == [k \in 1 .. n |-> last - n + k]
AsFifo == [k \in 1 .. count |-> Buffered(k - 1)]

LEMMA NewestIsSequence ==
  ASSUME NEW n \in Nat, NEW last \in Nat, n <= last
  PROVE  /\ Newest(n, last) \in Seq(Nat)
         /\ Len(Newest(n, last)) = n
         /\ \A k \in 1 .. n : Newest(n, last)[k] = last - n + k
<1>1. \A k \in 1 .. n : last - n + k \in Nat
  OBVIOUS
<1> QED
  BY <1>1 DEF Newest

LEMMA NewestAppend ==
  ASSUME NEW n \in Nat, NEW last \in Nat, n <= last
  PROVE  Append(Newest(n, last), last + 1) = Newest(n + 1, last + 1)
<1> DEFINE s == Newest(n, last)
           t == Newest(n + 1, last + 1)
<1>1. s \in Seq(Nat) /\ Len(s) = n /\ \A k \in 1 .. n : s[k] = last - n + k
  BY NewestIsSequence
<1>2. /\ t \in Seq(Nat) /\ Len(t) = n + 1
      /\ \A k \in 1 .. n + 1 : t[k] = (last + 1) - (n + 1) + k
  BY NewestIsSequence
<1> HIDE DEF s, t
<1>3. /\ Append(s, last + 1) \in Seq(Nat) /\ Len(Append(s, last + 1)) = n + 1
      /\ \A k \in 1 .. n : Append(s, last + 1)[k] = s[k]
      /\ Append(s, last + 1)[n + 1] = last + 1
  BY <1>1, AppendProperties
<1>4. \A k \in 1 .. n + 1 : Append(s, last + 1)[k] = t[k]
  BY <1>1, <1>2, <1>3
<1> QED
  BY <1>2, <1>3, <1>4, SeqEqual DEF s, t

LEMMA NewestTail ==
  ASSUME NEW n \in Nat \ {0}, NEW last \in Nat, n <= last
  PROVE  /\ Newest(n, last) # <<>>
         /\ Head(Newest(n, last)) = last - n + 1
         /\ Tail(Newest(n, last)) = Newest(n - 1, last)
<1> DEFINE s == Newest(n, last)
           t == Newest(n - 1, last)
<1>1. s \in Seq(Nat) /\ Len(s) = n /\ \A k \in 1 .. n : s[k] = last - n + k
  BY NewestIsSequence
<1>2. /\ t \in Seq(Nat) /\ Len(t) = n - 1
      /\ \A k \in 1 .. n - 1 : t[k] = last - (n - 1) + k
  BY NewestIsSequence
<1> HIDE DEF s, t
<1>3. s # <<>> /\ Head(s) = s[1]
  BY <1>1
<1>4. /\ Tail(s) \in Seq(Nat) /\ Len(Tail(s)) = n - 1
      /\ \A k \in 1 .. n - 1 : Tail(s)[k] = s[k + 1]
  BY <1>1, <1>3, HeadTailProperties
<1>5. \A k \in 1 .. n - 1 : Tail(s)[k] = t[k]
  BY <1>1, <1>2, <1>4
<1>6. Tail(s) = t
  BY <1>2, <1>4, <1>5, SeqEqual
<1> QED
  BY <1>1, <1>3, <1>6 DEF s, t

LEMMA RingAsFifo ==
  TypeOK /\ Accounting /\ HoldsNewest
    => AsFifo = Newest(count, pushed) /\ count <= pushed
<1> SUFFICES ASSUME TypeOK, Accounting, HoldsNewest
             PROVE  AsFifo = Newest(count, pushed) /\ count <= pushed
    OBVIOUS
<1>1. count \in Nat /\ pushed \in Nat /\ dropped \in Nat /\ seq \in Nat
  BY CapacityAssumption DEF TypeOK
<1>2. ASSUME NEW k \in 1 .. count PROVE Buffered(k - 1) = pushed - count + k
  <2>1. k - 1 \in 0 .. count - 1
    BY <1>1
  <2>2. Buffered(k - 1) = pushed - count + 1 + (k - 1)
    BY <2>1 DEF HoldsNewest
  <2> QED
    BY <1>1, <2>2
<1> QED
  BY <1>1, <1>2 DEF AsFifo, Newest, Accounting

\* What the refinement needs to know of a reachable state.
RefInv == /\ TypeOK /\ Accounting /\ HoldsNewest /\ SlotsReleased
          /\ SurvivorsInOrder /\ Shutdown

LEMMA RefInvHolds == SafetySpec => []RefInv
<1>1. Init => Shutdown
  BY DEF Init, Shutdown, NobodyParkedAfterClose, DrainedBeforeExit, In
<1>2. SafetySpec => []Shutdown
  BY <1>1, TypeCorrect, NextShutdown, PTL DEF SafetySpec
<1>3. (TypeOK /\ Accounting /\ HoldsNewest /\ SlotsReleased /\ SurvivorsInOrder /\ Shutdown)
         => RefInv
  BY DEF RefInv
<1> QED
  BY <1>2, <1>3, TypeCorrect, EventsAccounted, RingHoldsNewest, SurvivorsNumbered, PTL

LEMMA RefInvAsFifo ==
  /\ RefInv => AsFifo = Newest(count, pushed) /\ count <= pushed
  /\ RefInv' => AsFifo' = Newest(count', pushed')
<1>1. RefInv => AsFifo = Newest(count, pushed) /\ count <= pushed
  BY RingAsFifo DEF RefInv
<1>2. (RefInv => AsFifo = Newest(count, pushed) /\ count <= pushed)'
  BY <1>1, PTL
<1>3. Newest(count, pushed)' = Newest(count', pushed')
  BY DEF Newest
<1> QED
  BY <1>1, <1>2, <1>3

LEMMA InitRefines == Init => Promise!Init
<1> SUFFICES ASSUME Init PROVE Promise!Init
    OBVIOUS
<1>1. count = 0 /\ In("exited") = {}
  BY DEF Init, In
<1>2. [k \in 1 .. count |-> Buffered(k - 1)] = <<>>
  BY <1>1
<1> QED
  BY <1>1, <1>2 DEF Init, Promise!Init

LEMMA PushRefines == RefInv /\ RefInv' /\ Push => Promise!Arrive
<1> SUFFICES ASSUME RefInv, RefInv', Push PROVE Promise!Arrive
    OBVIOUS
<1>1. /\ AsFifo = Newest(count, pushed) /\ count <= pushed
      /\ AsFifo' = Newest(count', pushed')
  BY RefInvAsFifo
<1>2. /\ count \in 0 .. Capacity /\ pushed \in Nat /\ pushed' = pushed + 1
      /\ pushed < MaxPushes /\ ~closed
      /\ seq' = seq /\ given' = given /\ closed' = closed /\ worker' = worker
  BY DEF RefInv, TypeOK, Shutdown, Push, PushWithRoom, PushOverflow
<1>3. Len(AsFifo) = count
  BY <1>1, <1>2, NewestIsSequence, CapacityAssumption
<1>4. \/ /\ Len(AsFifo) < Capacity
         /\ AsFifo' = Append(AsFifo, pushed + 1)
         /\ dropped' = dropped
      \/ /\ Len(AsFifo) = Capacity
         /\ AsFifo' = Append(Tail(AsFifo), pushed + 1)
         /\ dropped' = dropped + 1
  <2>1. CASE count # Capacity
    <3>1. count' = count + 1 /\ dropped' = dropped
      BY <2>1 DEF Push, PushWithRoom, PushOverflow, Place
    <3>2. Append(Newest(count, pushed), pushed + 1) = Newest(count + 1, pushed + 1)
      <4>1. count \in Nat /\ pushed \in Nat /\ count <= pushed
        BY <1>1, <1>2, CapacityAssumption
      <4> QED
        BY <4>1, NewestAppend
    <3> QED
      BY <1>1, <1>2, <1>3, <2>1, <3>1, <3>2, CapacityAssumption
  <2>2. CASE count = Capacity
    <3>1. count' = (count - 1) + 1 /\ dropped' = dropped + 1
      BY <2>2 DEF Push, PushWithRoom, PushOverflow, Place
    <3>2. count \in Nat \ {0} /\ count - 1 \in Nat /\ count - 1 <= pushed
      BY <1>1, <1>2, <2>2, CapacityAssumption
    <3>3. Tail(AsFifo) = Newest(count - 1, pushed)
      BY <1>1, <1>2, <3>2, NewestTail
    <3>4. Append(Newest(count - 1, pushed), pushed + 1) = Newest((count - 1) + 1, pushed + 1)
      BY <1>2, <3>2, NewestAppend
    <3> QED
      BY <1>1, <1>2, <1>3, <2>2, <3>1, <3>3, <3>4
  <2> QED
    BY <2>1, <2>2
<1>5. In("exited")' = In("exited")
  BY <1>2 DEF In
<1> QED
  BY <1>2, <1>4, <1>5 DEF Promise!Arrive, AsFifo

LEMMA TakeRefines ==
  ASSUME NEW w \in Workers
  PROVE  RefInv /\ RefInv' /\ Take(w) => Promise!Take
<1> SUFFICES ASSUME RefInv, RefInv', Take(w) PROVE Promise!Take
    OBVIOUS
<1>1. /\ AsFifo = Newest(count, pushed) /\ count <= pushed
      /\ AsFifo' = Newest(count', pushed')
  BY RefInvAsFifo
<1>2. /\ count \in Nat \ {0} /\ pushed \in Nat /\ count' = count - 1 /\ pushed' = pushed
      /\ dropped' = dropped /\ closed' = closed /\ head \in Slots
  BY CapacityAssumption DEF RefInv, TypeOK, Take
<1>3. /\ AsFifo # <<>> /\ Head(AsFifo) = pushed - count + 1
      /\ AsFifo' = Tail(AsFifo)
  BY <1>1, <1>2, NewestTail
<1>4. buf[head] = pushed - count + 1
  <2>1. Buffered(0) = pushed - count + 1 + 0
    BY <1>2 DEF RefInv, HoldsNewest
  <2> QED
    BY <1>2, <2>1, SlotZero DEF Buffered
<1>5. given' = Append(given, [seq |-> Len(given), ev |-> Head(AsFifo)])
  BY <1>3, <1>4 DEF Take, RefInv, SurvivorsInOrder
<1>6. In("exited")' = In("exited")
  BY DEF In, Take, RefInv, TypeOK
<1> QED
  BY <1>2, <1>3, <1>5, <1>6 DEF Promise!Take, AsFifo

LEMMA NextRefines == RefInv /\ RefInv' /\ [Next]_vars => [Promise!Next]_(Promise!vars)
<1> SUFFICES ASSUME RefInv, RefInv', [Next]_vars PROVE [Promise!Next]_(Promise!vars)
    OBVIOUS
<1>1. CASE Push
  BY <1>1, PushRefines DEF Promise!Next
<1>2. CASE Signal
  <2>1. In("exited")' = In("exited")
    BY <1>2 DEF Signal, In, RefInv, TypeOK
  <2> QED
    BY <1>2, <2>1 DEF Signal, ring, Promise!vars, Buffered
<1>3. CASE Close
  <2>1. In("exited")' = In("exited") /\ ~closed
    BY <1>3 DEF Close, In, RefInv, Shutdown
  <2> QED
    BY <1>3, <2>1 DEF Close, ring, Promise!Next, Promise!Shut, Buffered
<1>4. CASE Broadcast
  <2>1. In("exited")' = In("exited")
    BY <1>4 DEF Broadcast, In, RefInv, TypeOK
  <2> QED
    BY <1>4, <2>1 DEF Broadcast, ring, Promise!vars, Buffered
<1>5. ASSUME NEW w \in Workers, WorkerStep(w) PROVE [Promise!Next]_(Promise!vars)
  <2>1. CASE Take(w)
    BY <2>1, TakeRefines DEF Promise!Next
  <2>2. CASE Wait(w) \/ Return(w)
    <3>1. In("exited")' = In("exited")
      BY <2>2 DEF Wait, Return, In, RefInv, TypeOK
    <3> QED
      BY <2>2, <3>1 DEF Wait, Return, ring, Promise!vars, Buffered
  <2>3. CASE Exit(w)
    <3>1. In("exited")' = In("exited") \cup {w}
      BY <2>3 DEF Exit, In, RefInv, TypeOK
    <3>2. [k \in 1 .. count |-> Buffered(k - 1)] = <<>>
      BY <2>3 DEF Exit
    <3> QED
      BY <2>3, <3>1, <3>2 DEF Exit, ring, Promise!Next, Promise!Tell, Buffered
  <2> QED
    BY <1>5, <2>1, <2>2, <2>3 DEF WorkerStep
<1>6. CASE UNCHANGED vars
  <2>1. In("exited")' = In("exited")
    BY <1>6 DEF vars, In
  <2> QED
    BY <1>6, <2>1 DEF vars, Promise!vars, Buffered
<1> QED
  BY <1>1, <1>2, <1>3, <1>4, <1>5, <1>6 DEF Next

\* The lock, the condition variable and the ring buffer add no behaviour to
\* the drop-oldest FIFO: each step is a step of it or leaves it alone.
THEOREM RefinesFifo == SafetySpec => Promise!Init /\ [][Promise!Next]_(Promise!vars)
<1> QED
  BY InitRefines, RefInvHolds, NextRefines, PTL DEF SafetySpec
=============================================================================
