------------------------- MODULE MCDemoServerProcess ------------------------
(* Instance of DemoServerProcess for TLC.                                   *)
EXTENDS DemoServerProcess

CONSTANTS h1, h2
=============================================================================
