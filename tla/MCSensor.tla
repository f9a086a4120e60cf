------------------------------ MODULE MCSensor ------------------------------
(* Small instances of Sensor for TLC.                                      *)
EXTENDS Sensor, TLC
=============================================================================
