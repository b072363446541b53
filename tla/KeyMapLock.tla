----------------------------- MODULE KeyMapLock ------------------------------
(***************************************************************************)
(* The keyboard of a locked computer under X11: the slave processes that   *)
(* lock it (ScreenLock, InputLock and the fullscreen DemoClient) each own  *)
(* an InputDeviceBlocker, which saves the key map of the X server, empties *)
(* it, and puts the saved one back when the process ends.  The key map is  *)
(* one for all processes; s_refCnt counts the blockers of one process      *)
(* only, and every slave has one (in its LockWidget).                      *)
(***************************************************************************)
EXTENDS Naturals

CONSTANTS Ids,       \* the slaves that lock
          MaxProcs   \* bound: processes launched

ASSUME ProcsAssumption == MaxProcs \in Nat

Nobody == 0
Procs == 1..MaxProcs

VARIABLES
  entry,        \* ItalcSlaveManager: the process of an id, or Nobody
  created,      \* how many were launched
  state,        \* process: life cycle
  told,         \* process: it was told to quit, or lost its master
  keyMap,       \* the key map of the X server
  origKeyTable, \* process: InputDeviceBlocker::m_origKeyTable
  met,          \* history: those that had saved the map when a process emptied it
  crossed,      \* history: a process ended before one that saved what it had emptied
  killed        \* history: the processes that ended without their destructors

history == <<met, crossed, killed>>
lockVars == <<entry, created, state, told, keyMap, origKeyTable, history>>

LockTypeOK ==
  /\ entry \in [Ids -> {Nobody} \cup Procs]
  /\ created \in {Nobody} \cup Procs
  /\ state \in [Procs -> {"unborn", "starting", "saved", "locked", "dead"}]
  /\ told \in [Procs -> BOOLEAN]
  /\ keyMap \in {"original", "empty"}
  /\ origKeyTable \in [Procs -> {"none", "original", "empty"}]
  /\ met \in [Procs -> SUBSET Procs]
  /\ crossed \in BOOLEAN
  /\ killed \subseteq Procs

LockInit ==
  /\ entry = [id \in Ids |-> Nobody]
  /\ created = 0
  /\ state = [p \in Procs |-> "unborn"]
  /\ told = [p \in Procs |-> FALSE]
  /\ keyMap = "original"
  /\ origKeyTable = [p \in Procs |-> "none"]
  /\ met = [p \in Procs |-> {}]
  /\ crossed = FALSE
  /\ killed = {}

Over(p) == state[p] \in {"unborn", "dead"}

\* The processes other than p that saved the key map and will restore it.
Others(p) == {q \in Procs \ {p} : state[q] \in {"saved", "locked"}}

----------------------------------------------------------------------------
\* lockScreen(), lockInput(), startDemo(): createSlave() stops the slave with
\* the same id, without waiting for its end, and launches another.
Lock(id) ==
  /\ created < MaxProcs
  /\ created' = created + 1
  /\ entry' = [entry EXCEPT ![id] = created + 1]
  /\ told' = [p \in Procs |-> told[p] \/ p = entry[id]]
  /\ state' = [state EXCEPT ![created + 1] = "starting"]
  /\ UNCHANGED <<keyMap, origKeyTable, history>>

\* unlockScreen(), unlockInput(), stopDemo()
Unlock(id) ==
  /\ entry[id] # Nobody
  /\ entry' = [entry EXCEPT ![id] = Nobody]
  /\ told' = [told EXCEPT ![entry[id]] = TRUE]
  /\ UNCHANGED <<created, state, keyMap, origKeyTable, history>>

\* Mutant of SaveKeyMapTable: after setEmptyKeyMapTable().
SaveEmptiedKeyMapTable(p) == origKeyTable' = [origKeyTable EXCEPT ![p] = "empty"]

SaveKeyMapTable(p) == origKeyTable' = [origKeyTable EXCEPT ![p] = keyMap]

\* setEnabled( true ), in the constructor of LockWidget: two runs of xmodmap.
Enable(p) ==
  /\ state[p] = "starting"
  /\ SaveKeyMapTable(p)
  /\ state' = [state EXCEPT ![p] = "saved"]
  /\ UNCHANGED <<entry, created, told, keyMap, history>>

SetEmptyKeyMapTable(p) ==
  /\ state[p] = "saved"
  /\ keyMap' = "empty"
  /\ state' = [state EXCEPT ![p] = "locked"]
  /\ met' = [met EXCEPT ![p] = Others(p)]
  /\ UNCHANGED <<entry, created, told, origKeyTable, crossed, killed>>

\* Mutant of RestoreKeyMapTable: restored whether or not the process quits.
RestoreUntold(p) == state[p] = "locked" /\ keyMap' = origKeyTable[p] /\ UNCHANGED state

\* The slave got Quit: its widget and blocker are destroyed.
RestoreKeyMapTable(p) ==
  /\ state[p] = "locked"
  /\ told[p]
  /\ keyMap' = origKeyTable[p]
  /\ state' = [state EXCEPT ![p] = "dead"]

Disable(p) ==
  /\ RestoreKeyMapTable(p)
  /\ crossed' = (crossed \/ ~(Others(p) \subseteq met[p]))
  /\ UNCHANGED <<entry, created, told, origKeyTable, met, killed>>

\* The process crashes, or is killed when it does not quit within 5 seconds.
Kill(p) ==
  /\ ~Over(p)
  /\ state' = [state EXCEPT ![p] = "dead"]
  /\ killed' = killed \cup {p}
  /\ UNCHANGED <<entry, created, told, keyMap, origKeyTable, met, crossed>>

----------------------------------------------------------------------------
LockNext ==
  \/ \E id \in Ids : Lock(id) \/ Unlock(id)
  \/ \E p \in Procs : Enable(p) \/ SetEmptyKeyMapTable(p) \/ Disable(p) \/ Kill(p)

LockSpec == LockInit /\ [][LockNext]_lockVars

----------------------------------------------------------------------------
(* Properties.                                                              *)

\* Once every locking process is gone the keyboard works again, however they
\* overlapped, unless one was killed, or ended before one that had saved the key
\* map it emptied: "dump our original keytable from stdin"
\* (InputDeviceBlocker.cpp:54-84, 148).
KeyboardBack ==
  (\A p \in Procs : Over(p)) /\ killed = {} /\ ~crossed => keyMap = "original"

\* "dump our original keytable from stdin" (InputDeviceBlocker.cpp:148): the
\* keyboard works again when every lock ended properly.
RestoredInTheEnd == (\A p \in Procs : Over(p)) /\ killed = {} => keyMap = "original"

\* A locked keyboard works again only by the proper end of a lock that had saved
\* the original key map before this one emptied it, never by one that was asked
\* for later, crashed or still lasts (InputDeviceBlocker.cpp:66-82).
UnlockedByEarlierOnly ==
  \A p \in Procs : state[p] = "locked" /\ keyMap # "empty" =>
    \E q \in met[p] \ killed : state[q] = "dead" /\ origKeyTable[q] = "original"
=============================================================================
