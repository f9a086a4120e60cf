------------------------------ MODULE MCScorer ------------------------------
(* Small instances of Scorer for TLC.                                      *)
EXTENDS Scorer, TLC

CONSTANTS ls, curl

\* ls is decided by the prefilter, curl is not.
MCCommands == {ls, curl}
MCBenign == {ls}
MCFloor == (ls :> 0) @@ (curl :> 0)

Symmetry == Permutations(Workers)
=============================================================================
