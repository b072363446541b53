--------------------------- MODULE MCVncConnection --------------------------
(* Instance of VncConnection for TLC.                                       *)
EXTENDS VncConnection

CONSTANTS h1, h2, c1
=============================================================================
