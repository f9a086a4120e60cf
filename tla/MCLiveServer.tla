---------------------------- MODULE MCLiveServer ----------------------------
(* Small instances of LiveServer for TLC.                                  *)
EXTENDS LiveServer, TLC
=============================================================================
