----------------------------- MODULE ScoreOnce -----------------------------
(***************************************************************************)
(* What the scorer's pool promises the model it calls (src/scorer/main.go  *)
(* 25-27), without workers, locks or channels: a command is asked about    *)
(* once at a time, never while its result is remembered; a result is       *)
(* remembered until room is needed for another one; a failed call leaves   *)
(* nothing behind.                                                         *)
(***************************************************************************)
EXTENDS Naturals, FiniteSets

CONSTANTS Commands, MaxRisk, CacheSize

VARIABLES memo,     \* the remembered results, by command
          asking    \* the commands the model is being asked about

vars == <<memo, asking>>

Known == DOMAIN memo

Init == memo = <<>> /\ asking = {}

Ask(c) == /\ c \notin Known \cup asking
          /\ asking' = asking \cup {c}
          /\ memo' = memo

\* The result is remembered next to those kept; one is given up only when
\* there is no room.
Learn(c) ==
  /\ c \in asking
  /\ asking' = asking \ {c}
  /\ \E risk \in 0 .. MaxRisk, given_up \in SUBSET Known :
       /\ Cardinality(given_up) = (IF Cardinality(Known) < CacheSize THEN 0 ELSE 1)
       /\ memo' = [k \in (Known \ given_up) \cup {c} |-> IF k = c THEN risk ELSE memo[k]]

Fail(c) == /\ c \in asking
           /\ asking' = asking \ {c}
           /\ memo' = memo

Next == \E c \in Commands : Ask(c) \/ Learn(c) \/ Fail(c)

SafetySpec == Init /\ [][Next]_vars

\* Whatever is asked is answered, one way or the other.
Spec == SafetySpec /\ \A c \in Commands : WF_vars(Learn(c) \/ Fail(c))
=============================================================================
