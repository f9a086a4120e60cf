--------------------------- MODULE MCPendingQueue ---------------------------
(* A small instance of PendingQueue for TLC.                               *)
EXTENDS PendingQueue, TLC
=============================================================================
