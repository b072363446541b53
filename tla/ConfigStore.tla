---------------------------- MODULE ConfigStore -----------------------------
(***************************************************************************)
(* The management console (imc) on Windows: consoles, windows and command  *)
(* lines, that load, change, export and apply the configuration in the     *)
(* registry, together with the access control list for logons.             *)
(*                                                                         *)
(* The list is a binary value of the same registry key as the settings of  *)
(* "Authentication".  Loading the settings therefore reads it as a string, *)
(* and writing that string back would destroy it.  A copy in base64, the   *)
(* setting EncodedLogonACL, is what is saved, exported and reverted to.    *)
(***************************************************************************)
EXTENDS ConfigTree, FiniteSets

CONSTANTS
  Consoles,  \* processes of imc
  LogonACL, EncodedLogonACL, \* the two settings, as paths
  Editable,  \* the other paths that are set in a window or at a command line
  Defaults,  \* ItalcConfiguration::defaultConfiguration(), a tree
  Acls,      \* the lists, in base64
  NoACL,     \* there is none in the registry
  Garbled,   \* a list that was overwritten with a string
  Files,     \* the settings files there are in the beginning
  MaxEdits   \* bound: settings and lists edited

ASSUME AclsAssumption ==
  /\ Acls \subseteq Values /\ Empty \notin Acls
  /\ {NoACL, Garbled} \cap Values = {} /\ NoACL # Garbled
ASSUME PathsAssumption ==
  /\ \A p \in {LogonACL, EncodedLogonACL} : IsKey(p) /\ Len(p) = 2
  /\ EncodedLogonACL # LogonACL /\ EncodedLogonACL[1] = LogonACL[1]
  /\ \A k \in Editable : IsKey(k)
  /\ LogonACL \notin Editable /\ LogonACL \notin DOMAIN Defaults
ASSUME StringsAssumption ==
  /\ WellFormed(Defaults)
  /\ \A p \in DOMAIN Defaults : Defaults[p] \in Values \cup {Map}
  /\ \A f \in Files : \A k \in DOMAIN f : IsKey(k) /\ f[k] \in Values
ASSUME BoundsAssumption == MaxEdits \in Nat

VARIABLES
  at,        \* console: "off", "window", "applying" in a window or "command"
  config,    \* console: ItalcCore::config
  changed,   \* console: m_configChanged, its window offers to apply or to reset
  settings,  \* the registry's settings but LogonACL
  acl,       \* LogonACL in the registry
  file,      \* the settings file
  edits,     \* counts towards MaxEdits
  saved,     \* history: the paths and strings that were flushed last
  fresh,     \* history: there was no key to set the list in when it was saved last
  disturbed  \* history: two consoles ran at a time, or one was killed

vars == <<at, config, changed, settings, acl, file, edits, saved, fresh, disturbed>>

StringsOf(t) == [p \in Strings(t) |-> t[p]]

----------------------------------------------------------------------------
(* What the actions are made of.                                            *)

\* LogonAclSettings::acl()
AclRead == IF acl = NoACL THEN Empty ELSE acl

\* The registry has the key "Authentication" when something is stored below it.
HasKey == acl # NoACL \/ \E k \in DOMAIN settings : Len(k) > 1 /\ k[1] = LogonACL[1]

\* Mutant of AclSet: a list that is there stays.
AclSetFirst(t) == IF acl # NoACL \/ ~HasKey THEN acl ELSE Value(t, EncodedLogonACL)

\* LogonAclSettings::setACL(), which opens the key and does not create it.
AclSet(t) == IF Value(t, EncodedLogonACL) = Empty \/ ~HasKey THEN acl
             ELSE Value(t, EncodedLogonACL)

\* A program's configuration when it starts, ItalcCore::init() or MainWindow::reset(): the
\* binary list is read as some string.
Registry == IF acl = NoACL THEN settings
            ELSE [k \in DOMAIN settings \cup {LogonACL} |->
                    IF k = LogonACL THEN Empty ELSE settings[k]]

\* Mutant of Loaded: what is stored does not win.
LoadedDefaults == Merge(LoadSettings(Registry), Defaults)

Loaded == Merge(Defaults, LoadSettings(Registry))

\* Mutant of Prepared: the string of the binary list stays.
PreparedNot(t) == t

\* applyConfiguration() up to setACL(), of what was merged before.
Prepared(t) == RemoveValue(t, LogonACL)

\* A setting that is flushed at the path of the binary list takes its place.
Flush(c) ==
  LET t == config[c]
  IN /\ acl' = IF LogonACL \in Strings(t) THEN Garbled ELSE AclSet(t)
     /\ settings' = FlushSettings(settings, RemoveValue(t, LogonACL))
     /\ saved' = StringsOf(t)
     /\ fresh' = IF EncodedLogonACL \in Strings(t) THEN ~HasKey ELSE fresh

Enter(c, place) ==
  /\ at' = [at EXCEPT ![c] = place]
  /\ disturbed' = \/ disturbed
                  \/ place # "off" /\ \E d \in Consoles \ {c} : at[d] # "off"

Edited == edits < MaxEdits /\ edits' = edits + 1

UnchangedStore == UNCHANGED <<settings, saved, fresh>>

----------------------------------------------------------------------------

Init ==
  /\ at = [c \in Consoles |-> "off"]
  /\ config = [c \in Consoles |-> NoTree]
  /\ changed = [c \in Consoles |-> FALSE]
  /\ acl \in Acls \cup {NoACL}
  /\ \/ settings = NoTree
     \/ acl # NoACL /\ settings = [k \in {EncodedLogonACL} |-> acl]
  /\ file \in Files
  /\ edits = 0
  /\ saved = NoTree
  /\ fresh = FALSE
  /\ disturbed = FALSE

\* MainWindow::reset(): the configuration is that of the registry again, and so is the list.
Reset(c) ==
  /\ config' = [config EXCEPT ![c] = RemoveValue(Loaded, LogonACL)]
  /\ acl' = AclSet(config'[c])
  /\ UNCHANGED <<file, edits>> /\ UnchangedStore

\* "if local configuration is incomplete, re-enable the apply button"
Open(c) ==
  /\ at[c] = "off"
  /\ Enter(c, "window")
  /\ Reset(c)
  /\ changed' = [changed EXCEPT ![c] =
                   Cardinality(Levels(LoadSettings(Registry))) < Cardinality(Levels(Loaded))]

ResetButton(c) ==
  /\ at[c] = "window" /\ changed[c]
  /\ Reset(c)
  /\ changed' = [changed EXCEPT ![c] = FALSE]
  /\ UNCHANGED <<at, disturbed>>

Edit(c, k, v) ==
  /\ at[c] = "window"
  /\ Edited
  /\ config' = [config EXCEPT ![c] = SetValue(@, k, v)]
  /\ changed' = [changed EXCEPT ![c] = @ \/ config' # config]
  /\ UNCHANGED <<at, acl, file, disturbed>> /\ UnchangedStore

\* The editor of Windows changes the list in the registry at once, and creates its key.
EditACL(c, a) ==
  /\ at[c] = "window"
  /\ Edited
  /\ acl' = a
  /\ changed' = [changed EXCEPT ![c] = @ \/ a # Value(config[c], EncodedLogonACL)]
  /\ UNCHANGED <<at, config, file, disturbed>> /\ UnchangedStore

Apply(c) ==
  /\ at[c] = "window" /\ changed[c]
  /\ at' = [at EXCEPT ![c] = "applying"]
  /\ config' = [config EXCEPT ![c] = Prepared(SetValue(@, EncodedLogonACL, AclRead))]
  /\ UNCHANGED <<changed, acl, file, edits, disturbed>> /\ UnchangedStore

\* The rest of applyConfiguration(), after the calls that change the system.
Finish(c) ==
  /\ at[c] \in {"applying", "command"}
  /\ at' = [at EXCEPT ![c] = IF @ = "command" THEN "off" ELSE "window"]
  /\ Flush(c)
  /\ config' = [config EXCEPT ![c] = IF at'[c] = "off" THEN NoTree ELSE @]
  /\ changed' = [changed EXCEPT ![c] = FALSE]
  /\ UNCHANGED <<file, edits, disturbed>>

\* imc -applysettings
ApplySettings(c) ==
  /\ at[c] = "off"
  /\ Enter(c, "command")
  /\ config' = [config EXCEPT ![c] = Prepared(Merge(Loaded, LoadXml(NoTree, file)))]
  /\ UNCHANGED <<changed, acl, file, edits>> /\ UnchangedStore

\* imc -setconfigvalue
SetConfigValue(c, k, v) ==
  /\ at[c] = "off"
  /\ Enter(c, "command")
  /\ Edited
  /\ config' = [config EXCEPT ![c] = Prepared(SetValue(Loaded, k, v))]
  /\ UNCHANGED <<changed, acl, file>> /\ UnchangedStore

SaveToFile(c) ==
  /\ at[c] = "window"
  /\ config' = [config EXCEPT ![c] =
                  SetValue(RemoveValue(@, LogonACL), EncodedLogonACL, AclRead)]
  /\ file' = SaveXml(config'[c])
  /\ UNCHANGED <<at, changed, acl, edits, disturbed>> /\ UnchangedStore

LoadFromFile(c) ==
  /\ at[c] = "window"
  /\ config' = [config EXCEPT ![c] = RemoveValue(LoadXml(@, file), LogonACL)]
  /\ acl' = AclSet(config'[c])
  /\ changed' = [changed EXCEPT ![c] = TRUE]
  /\ UNCHANGED <<at, file, edits, disturbed>> /\ UnchangedStore

\* closeEvent(): "make sure to revert the LogonACL".
Close(c) ==
  /\ at[c] = "window"
  /\ Enter(c, "off")
  /\ acl' = AclSet(RemoveValue(Loaded, LogonACL))
  /\ config' = [config EXCEPT ![c] = NoTree]
  /\ changed' = [changed EXCEPT ![c] = FALSE]
  /\ UNCHANGED <<file, edits>> /\ UnchangedStore

Kill(c) ==
  /\ at[c] # "off"
  /\ at' = [at EXCEPT ![c] = "off"]
  /\ config' = [config EXCEPT ![c] = NoTree]
  /\ changed' = [changed EXCEPT ![c] = FALSE]
  /\ disturbed' = TRUE
  /\ UNCHANGED <<acl, file, edits>> /\ UnchangedStore

Next ==
  \E c \in Consoles :
    \/ Open(c) \/ ResetButton(c) \/ Apply(c) \/ Finish(c) \/ ApplySettings(c)
    \/ SaveToFile(c) \/ LoadFromFile(c) \/ Close(c) \/ Kill(c)
    \/ \E k \in Editable, v \in Values \ Acls : Edit(c, k, v) \/ SetConfigValue(c, k, v)
    \/ \E a \in Acls : EditACL(c, a)

Spec == Init /\ [][Next]_vars

----------------------------------------------------------------------------
(* Properties.                                                              *)

Strs == Values \cup {Map}

\* Types, and that every configuration is a tree: what is above a path is a map.
TypeOK ==
  /\ at \in [Consoles -> {"off", "window", "applying", "command"}]
  /\ DOMAIN config = Consoles
  /\ changed \in [Consoles -> BOOLEAN]
  /\ \A c \in Consoles : /\ IsTree(config[c])
                         /\ \A p \in DOMAIN config[c] : config[c][p] \in Strs
  /\ \A k \in DOMAIN settings : settings[k] \in Values
  /\ \A k \in DOMAIN file : file[k] \in Values
  /\ acl \in Values \cup {NoACL, Garbled}
  /\ edits \in 0..MaxEdits
  /\ fresh \in BOOLEAN /\ disturbed \in BOOLEAN

Quiet == ~disturbed /\ \A c \in Consoles : at[c] = "off"

Stored == Value(LoadSettings(settings), EncodedLogonACL)

\* The binary list is never overwritten with the string that loading made of it
\* (imc/src/MainWindow.cpp:170: "always make sure we do not have a LogonACL string in our
\* config"), in whatever order consoles are opened, applied, killed, import and export.
ACLStaysBinary == acl # Garbled

\* When no console is left, the list in force is the one that is saved, if one is: an
\* edited list that was not applied has been reverted, an applied or imported one has not.
\* Only the flush that finds no key to set the list in saves one and leaves none in force,
\* until the next window or command line (ImcCore.cpp:86-95, LogonAclSettings.h:86-93).
StoredACLInForce == Quiet => Stored \in {Empty, acl} \/ (fresh /\ acl = NoACL)

\* "if EncodedLogonACL is empty, nothing is done in setACL()" (ImcCore.cpp:88): a list that
\* is saved when no console is left is in force.
SavedACLInForce == Quiet => Stored \in {Empty, acl}

\* A window that is opened shows what was applied last, whichever way it got there: every
\* string, with or without a parent key, over the defaults, whichever console applied it and
\* although others ran or were killed.  The exception: flushing removes nothing, so a group
\* that was there stays and hides a string of its name.
SavedIsLoaded ==
  [][\A c \in Consoles : Open(c) =>
       \A p \in DOMAIN saved :
         Value(config'[c], p) = saved[p] \/ Shadowed(settings, Key(p))]_vars

\* What Object says of a key without a parent key: it is in the toplevel data map, where
\* value() reads it.
WhatIsSetIsRead ==
  [][\A c \in Consoles, k \in Editable, v \in Values \ Acls :
       SetConfigValue(c, k, v) => Value(config'[c], k) = v]_vars

=============================================================================
