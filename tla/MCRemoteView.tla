---------------------------- MODULE MCRemoteView ----------------------------
(* Instance of RemoteView for TLC.                                          *)
EXTENDS RemoteView
=============================================================================
