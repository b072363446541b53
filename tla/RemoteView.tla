----------------------------- MODULE RemoteView -----------------------------
(***************************************************************************)
(* The keyboard of a remote control window: VncView turns the keys of the  *)
(* teacher into key events for the computer and remembers the modifiers it *)
(* has pressed there, to release them when it has to (lib/src/VncView.cpp);*)
(* under Windows SystemKeyTrapper takes the Super key before anybody else  *)
(* and hands it over a little later (lib/src/SystemKeyTrapper.cpp).        *)
(*                                                                         *)
(* There is one such window at a time (MainWindow.cpp:501).  Its connection*)
(* is what VncConnection promises: events are accepted while it is         *)
(* connected, and fired in order, or lost with a connection.               *)
(***************************************************************************)
EXTENDS Naturals, Sequences

CONSTANTS
  Keyboard, \* the keys of the teacher's keyboard
  MaxQueue  \* bound: nothing is typed while more events than that wait

ASSUME KeyboardAssumption == Keyboard \subseteq {"Control", "Alt", "Super", "Delete"}
ASSUME MaxQueueAssumption == MaxQueue \in Nat

VARIABLES
  windows,       \* it is the Windows build
  open,          \* the window exists
  focus,         \* and has the keyboard focus
  viewOnly,      \* m_viewOnly
  viewOnlyFocus, \* m_viewOnlyFocus
  initDone,      \* m_initDone: the first image has arrived, the event filter is installed
  mods,          \* m_mods
  trapped,       \* __trapped_keys: presses (TRUE) and releases of Super
  polls,         \* a timer calls checkForTrappedKeys()
  held,          \* the keys the teacher holds
  connected,     \* m_state = Connected
  queue,         \* m_eventQueue
  remote,        \* the keys that are down at the computer
  intact,        \* history: every key event has reached the computer, or will
  strayed        \* history: modifiers that were down when the view lost the keyboard

viewVars == <<windows, open, focus, viewOnly, viewOnlyFocus, initDone, polls>>
connVars == <<connected, queue, remote, intact>>
vars == <<viewVars, connVars, mods, trapped, held, strayed>>

Modifiers == {"Control", "Alt", "Super"}
Keys == Modifiers \cup {"Delete"}
KeyEvents == [key : Keys, down : BOOLEAN]

TypeOK ==
  /\ windows \in BOOLEAN /\ open \in BOOLEAN /\ focus \in BOOLEAN
  /\ viewOnly \in BOOLEAN /\ viewOnlyFocus \in BOOLEAN /\ initDone \in BOOLEAN
  /\ polls \in BOOLEAN /\ connected \in BOOLEAN /\ intact \in BOOLEAN
  /\ mods \subseteq Modifiers /\ strayed \subseteq Modifiers
  /\ trapped \in Seq(BOOLEAN)
  /\ held \subseteq Keyboard /\ remote \subseteq Keys
  /\ queue \in Seq(KeyEvents)

\* The window is opened for remote control, or for viewing only.
Init ==
  /\ windows \in BOOLEAN /\ viewOnly \in BOOLEAN
  /\ open = TRUE /\ focus = TRUE /\ viewOnlyFocus = TRUE /\ initDone = FALSE
  /\ polls = (windows /\ ~viewOnly)
  /\ mods = {} /\ trapped = <<>> /\ held \in SUBSET Keyboard
  /\ connected = FALSE /\ queue = <<>> /\ remote = {}
  /\ intact = TRUE /\ strayed = {}

----------------------------------------------------------------------------
(* The connection.                                                          *)

Press(k) == <<[key |-> k, down |-> TRUE]>>
Release(k) == <<[key |-> k, down |-> FALSE]>>

Apply(keys, e) == IF e.down THEN keys \cup {e.key} ELSE keys \ {e.key}

\* What is down once es are applied where keys were: the last event counts.
Touched(es, k) == \E i \in 1..Len(es) : es[i].key = k
Pressed(es, k) ==
  \E i \in 1..Len(es) : /\ es[i].key = k /\ es[i].down
                        /\ \A j \in 1..Len(es) : j > i => es[j].key # k
After(es, keys) == {k \in Keys : Pressed(es, k) \/ (k \in keys /\ ~Touched(es, k))}

\* What is down at the computer when the queue has been fired.
InTheEnd == After(queue, remote)

\* ItalcVncConnection::keyEvent(), for each of es.
Send(es) ==
  /\ queue' = IF connected THEN queue \o es ELSE queue
  /\ intact' = (intact /\ (connected \/ es = <<>>))
  /\ UNCHANGED <<connected, remote>>

Fire ==
  /\ connected /\ queue # <<>>
  /\ remote' = Apply(remote, Head(queue)) /\ queue' = Tail(queue)
  /\ UNCHANGED <<viewVars, connected, intact, mods, trapped, held, strayed>>

Connect ==
  /\ open /\ ~connected /\ connected' = TRUE
  /\ UNCHANGED <<viewVars, queue, remote, intact, mods, trapped, held, strayed>>

\* The connection is lost, with the events that were fired in vain; the computer
\* may release what the client held.
Disconnect ==
  /\ connected /\ connected' = FALSE
  /\ \E n \in 0..Len(queue) : queue' = SubSeq(queue, n + 1, Len(queue))
  /\ remote' \in {remote, {}}
  /\ intact' = (intact /\ queue' = queue /\ remote' = remote)
  /\ UNCHANGED <<viewVars, mods, trapped, held, strayed>>

\* The first image.
FirstImage ==
  /\ open /\ connected /\ ~initDone /\ initDone' = TRUE
  /\ strayed' = IF viewOnly THEN strayed \cup mods ELSE strayed
  /\ UNCHANGED <<windows, open, focus, viewOnly, viewOnlyFocus, polls, connVars,
                 mods, trapped, held>>

----------------------------------------------------------------------------
(* The keys.                                                                *)

Pending == IF trapped = <<>> THEN {} ELSE {"Super"}

\* A modifier that is not down any more, or was pressed again, has not strayed.
Recover == strayed' = strayed \cap (mods' \cup Pending)

\* unpressModifiers(), one event for each, in the order of their codes.
ReleaseOf(k) == IF k \in mods THEN Release(k) ELSE <<>>
Unpress == ReleaseOf("Control") \o ReleaseOf("Alt") \o ReleaseOf("Super")

\* Mutant of CtrlAltDel: one release is forgotten.
CtrlAltDelHeld ==
  Press("Control") \o Press("Alt") \o Press("Delete")
    \o Release("Delete") \o Release("Control")

CtrlAltDel ==
  Press("Control") \o Press("Alt") \o Press("Delete")
    \o Release("Delete") \o Release("Alt") \o Release("Control")

\* keyEventHandler(): Super and Delete stand for Ctrl, Alt and Del ...
HandleCtrlAltDel(k) ==
  /\ k = "Delete" /\ "Super" \in mods
  /\ Send(Unpress \o CtrlAltDel) /\ mods' = {}

\* ... a modifier is remembered; one that was not known to be down releases all ...
HandlePress(k) ==
  /\ ~(k = "Delete" /\ "Super" \in mods)
  /\ Send(Press(k)) /\ mods' = mods \cup ({k} \cap Modifiers)

HandleRelease(k) ==
  /\ LET unknown == k \in Modifiers \ mods IN
       /\ Send((IF unknown THEN Unpress ELSE <<>>) \o Release(k))
       /\ mods' = IF unknown THEN {} ELSE mods \ {k}

\* The hook takes Super while the trapper is enabled, that is, not view only.
Trapped(k) == windows /\ k = "Super" /\ ~viewOnly

\* Mutants of Eaten: the filter is not installed, or it eats every release.
EatenNever(down) == FALSE
EatenUp(down) == (viewOnly \/ ~down) /\ initDone

\* eventFilter(), installed with the first image.
Eaten(down) == viewOnly /\ initDone

Key(k, down) ==
  /\ Len(queue) <= MaxQueue /\ Len(trapped) <= MaxQueue
  /\ IF down THEN k \notin held /\ held' = held \cup {k} ELSE k \in held /\ held' = held \ {k}
  /\ \/ ~(open /\ focus) /\ UNCHANGED <<connVars, mods, trapped, strayed>>
     \/ /\ open /\ focus /\ Trapped(k)
        /\ trapped' = Append(trapped, down)
        /\ UNCHANGED <<connVars, mods, strayed>>
     \/ /\ open /\ focus /\ ~Trapped(k) /\ Eaten(down)
        /\ UNCHANGED <<connVars, mods, trapped, strayed>>
     \/ /\ open /\ focus /\ ~Trapped(k) /\ ~Eaten(down)
        /\ IF down THEN HandleCtrlAltDel(k) \/ HandlePress(k) ELSE HandleRelease(k)
        /\ Recover
        /\ UNCHANGED trapped
  /\ UNCHANGED viewVars

TrappedKeys == [i \in 1..Len(trapped) |-> [key |-> "Super", down |-> trapped[i]]]

\* checkForTrappedKeys(), with checkKeyEvent() of each; the timer is never stopped.
CheckForTrappedKeys ==
  /\ open /\ polls /\ trapped # <<>>
  /\ Send(TrappedKeys)
  /\ mods' = IF trapped[Len(trapped)] THEN mods \cup {"Super"} ELSE mods \ {"Super"}
  /\ trapped' = <<>>
  /\ Recover
  /\ UNCHANGED <<viewVars, held>>

----------------------------------------------------------------------------
(* The window.                                                              *)

\* setViewOnly()
SetViewOnly(vo) ==
  /\ viewOnly' = vo
  /\ polls' = (polls \/ (windows /\ ~vo))
  /\ strayed' = IF vo THEN strayed \cup mods \cup Pending ELSE strayed

ToggleViewOnly ==
  /\ open /\ focus /\ SetViewOnly(~viewOnly)
  /\ UNCHANGED <<windows, open, focus, viewOnlyFocus, initDone, connVars, mods, trapped, held>>

\* focusOutEvent()
FocusOut ==
  /\ open /\ focus /\ focus' = FALSE
  /\ viewOnlyFocus' = viewOnly
  /\ SetViewOnly(TRUE)
  /\ UNCHANGED <<windows, open, initDone, connVars, mods, trapped, held>>

\* focusInEvent()
FocusIn ==
  /\ open /\ ~focus /\ focus' = TRUE
  /\ SetViewOnly(viewOnly /\ viewOnlyFocus)
  /\ UNCHANGED <<windows, open, viewOnlyFocus, initDone, connVars, mods, trapped, held>>

\* ~VncView(): the modifiers are released, then the thread is told to stop.
Close ==
  /\ open /\ open' = FALSE
  /\ Send(Unpress) /\ mods' = {} /\ polls' = FALSE
  /\ UNCHANGED <<windows, focus, viewOnly, viewOnlyFocus, initDone, trapped, held, strayed>>

----------------------------------------------------------------------------
Next ==
  \/ Fire \/ Connect \/ Disconnect \/ FirstImage
  \/ \E k \in Keyboard, down \in BOOLEAN : Key(k, down)
  \/ CheckForTrappedKeys
  \/ ToggleViewOnly \/ FocusOut \/ FocusIn \/ Close

Spec == Init /\ [][Next]_vars

----------------------------------------------------------------------------
(* Properties.                                                              *)

\* m_mods are the modifiers that are down at the computer once the queue is
\* fired, unless an event was lost with the connection or dropped without one
\* (VncView.cpp:463-508, 217-230); so unpressModifiers() misses none.
ModifiersAreKnown ==
  intact /\ open => InTheEnd \cap Modifiers = mods

\* A modifier the teacher does not hold is not down at the computer either, for
\* longer than events travel, unless it was when the view lost the keyboard: view
\* only, or another window's focus, does not release it (VncView.cpp:188-195).
StuckOnlyIfLeft ==
  intact /\ open => (InTheEnd \cap Modifiers) \ held \subseteq strayed \cup Pending

\* A view that is view only, and stays so, sends nothing, but for keys that were
\* trapped before, and before the first image brings the event filter
\* (VncView.cpp:137-146, 784-788; SystemKeyTrapper.cpp:179-183).
ViewOnlyIsSilent ==
  [][ viewOnly /\ viewOnly' /\ initDone /\ trapped = <<>> /\ open'
        => Len(queue') <= Len(queue) ]_vars
=============================================================================
