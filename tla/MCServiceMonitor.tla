-------------------------- MODULE MCServiceMonitor ---------------------------
(* Instance of ServiceMonitor for TLC.                                       *)
EXTENDS ServiceMonitor

CONSTANTS s1, s2
=============================================================================
