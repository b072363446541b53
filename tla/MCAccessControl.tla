-------------------------- MODULE MCAccessControl ---------------------------
(* Instance of AccessControl for TLC.                                       *)
EXTENDS AccessControl, TLC

CONSTANTS r1, r2, r3
=============================================================================
