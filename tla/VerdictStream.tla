---------------------------- MODULE VerdictStream ----------------------------
(***************************************************************************)
(* What the scorer promises the programs around it in the pipeline         *)
(* (src/scorer/main.go, src/scorer/README.md): each exec it accepts is     *)
(* written once, in input order, or is lost to overflow; nothing is        *)
(* written twice, late or after the end, and it ends with nothing owed.    *)
(* An exec is named by its place among the accepted ones.                  *)
(***************************************************************************)
EXTENDS Naturals, Sequences

CONSTANTS MaxLines    \* bound: how many execs arrive

VARIABLES accepted,   \* how many execs were accepted
          lost,       \* those evicted
          written,    \* those written, in writing order
          ended       \* the program is done

vars == <<accepted, lost, written, ended>>

Written == {written[i] : i \in 1 .. Len(written)}

\* Accepted, not lost, not yet written.
Owed == (1 .. accepted) \ (lost \cup Written)

Init == accepted = 0 /\ lost = {} /\ written = <<>> /\ ended = FALSE

\* A new exec may cost an older one its place.
Accept ==
  /\ ~ended
  /\ accepted < MaxLines
  /\ accepted' = accepted + 1
  /\ lost' = lost \/ \E e \in Owed : lost' = lost \cup {e}
  /\ UNCHANGED <<written, ended>>

\* The oldest exec owed is written.
Write ==
  /\ ~ended
  /\ \E e \in Owed : /\ \A f \in Owed : e <= f
                     /\ written' = Append(written, e)
  /\ UNCHANGED <<accepted, lost, ended>>

End == /\ Owed = {}
       /\ ended' = TRUE
       /\ UNCHANGED <<accepted, lost, written>>

Next == Accept \/ Write \/ End

SafetySpec == Init /\ [][Next]_vars

\* What is owed is written in the end.
Spec == SafetySpec /\ WF_vars(Write)
=============================================================================
