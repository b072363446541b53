---------------------------- MODULE MCKeyMapLock -----------------------------
(* Instance of KeyMapLock for TLC.                                           *)
EXTENDS KeyMapLock

CONSTANTS ScreenLock, InputLock
=============================================================================
