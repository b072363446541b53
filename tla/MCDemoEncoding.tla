--------------------------- MODULE MCDemoEncoding ---------------------------
(* Instance of DemoEncoding for TLC.                                         *)
EXTENDS DemoEncoding

CONSTANTS red, green
=============================================================================
