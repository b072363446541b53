--------------------------- MODULE MCConfigStore ----------------------------
(***************************************************************************)
(* Two groups of settings, one setting without a parent key, which comes   *)
(* with a file, and one group that takes the place of a setting.           *)
(***************************************************************************)
EXTENDS ConfigStore, TLC

MCLogonACL == <<"Authentication", "LogonACL">>
MCEncodedLogonACL == <<"Authentication", "EncodedLogonACL">>
MCLock == <<"Service", "LockWithDesktopSwitching">>
MCAutostart == <<"Service", "Autostart">>
MCKeyAuth == <<"Authentication", "KeyAuthenticationEnabled">>
MCExtra == <<"Extra">>

MCEditable == {MCLock \o <<"x">>}
MCEditableTop == {MCExtra}

MCDefaults == [p \in {<<"Authentication">>, MCKeyAuth, <<"Service">>, MCAutostart} |->
                 IF Len(p) = 1 THEN Map ELSE "1"]

\* A file of another computer, with its list; a file that has the binary list as a string
\* and a setting without a parent key.
MCFiles == {[k \in {MCEncodedLogonACL, MCLock, MCAutostart} |->
                CASE k = MCLock -> "1" [] k = MCAutostart -> "" [] OTHER -> "list2"],
            [k \in {MCLogonACL, MCExtra} |-> "1"]}

MCSymmetry == Permutations(Consoles)

=============================================================================
