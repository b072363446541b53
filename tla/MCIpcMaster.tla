---------------------------- MODULE MCIpcMaster ----------------------------
(* Instances of IpcMaster for TLC.                                          *)
EXTENDS IpcMaster, TLC

Symmetry == Permutations(Ids)
============================================================================
