----------------------------- MODULE MCSlackSink -----------------------------
(* A small instance of SlackSink for TLC.                                  *)
EXTENDS SlackSink, TLC
=============================================================================
