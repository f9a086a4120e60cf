---------------------------- MODULE MCScorerPool ----------------------------
(* Small instances of ScorerPool for TLC.                                  *)
EXTENDS ScorerPool, TLC

CONSTANTS ls, curl, nmap

\* ls is prefiltered; curl has a floor above every unfloored score, nmap none.
MCCommands == {ls, curl, nmap}
MCBenign == {ls}
MCFloor == (ls :> 0) @@ (curl :> 1) @@ (nmap :> 0)
=============================================================================
