-------------------------- MODULE MCConfigStoreQuit -------------------------
(***************************************************************************)
(* ConfigStore with a history variable: the list that was in force when    *)
(* settings were applied last, or in the beginning.                        *)
(***************************************************************************)
EXTENDS MCConfigStore

VARIABLE appliedACL

QuitInit == Init /\ appliedACL = acl

QuitNext == Next /\ appliedACL' = IF \E c \in Consoles : Finish(c) THEN acl' ELSE appliedACL

QuitSpec == QuitInit /\ [][QuitNext]_<<vars, appliedACL>>

\* "make sure to revert the LogonACL" (imc/src/MainWindow.cpp:627): when no console is
\* left, the list is the one of the last time settings were applied (or of the beginning).
QuitRevertsACL == Quiet => acl = appliedACL
=============================================================================
