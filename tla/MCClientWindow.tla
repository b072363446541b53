--------------------------- MODULE MCClientWindow ---------------------------
(* Instance of ClientWindow for TLC.                                        *)
EXTENDS ClientWindow

CONSTANT h1
=============================================================================
