---------------------------- MODULE ClientWindow ----------------------------
(***************************************************************************)
(* A client's window in the teacher's application (ima/src/Client.cpp):    *)
(* its mode, the commands that take the computer into it, and reload(),    *)
(* which keeps the connection while the window is visible and stops it     *)
(* while it is hidden.  The connection is VncConnection, with one host.    *)
(*                                                                         *)
(* The computer runs the slaves the commands ask for.  Demo servers do not *)
(* occur here, so no command is refused.                                   *)
(***************************************************************************)
EXTENDS VncConnection

CONSTANT
  ReloadInterval \* ClassroomManager::updateInterval(), in the ticks of Timeout

ASSUME ReloadIntervalAssumption == ReloadInterval \in Nat \ {0}

VARIABLES
  mode,     \* m_mode
  visible,  \* the window is
  reloadIn, \* ticks until reload()
  slaves,   \* the slaves that run at the computer
  agreed,   \* history: every command since the last change to overview was
            \* accepted, and none was fired into a connection that was lost
  terminated \* history: a thread was terminated

windowVars == <<mode, visible, reloadIn, slaves, agreed, terminated>>
allVars == <<vars, windowVars>>

Modes == {"overview", "demo", "locked"}

\* The events of a window: its own commands.
Orders == [n : Nat, cmd : {"lock", "unlock", "startDemo", "stopDemo"}, host : Hosts]

WindowTypeOK ==
  /\ eventQueue \in Seq(Orders) /\ inHand \in Seq(Orders)
  /\ mode \in Modes
  /\ visible \in BOOLEAN /\ agreed \in BOOLEAN /\ terminated \in BOOLEAN
  /\ reloadIn \in 0..ReloadInterval
  /\ slaves \subseteq {"ScreenLock", "DemoClient"}

WindowInit ==
  /\ Init
  /\ mode = "overview"
  /\ visible = TRUE /\ reloadIn = 0
  /\ slaves = {} /\ agreed = TRUE /\ terminated = FALSE

----------------------------------------------------------------------------
(* The computer.                                                            *)

Execute(cmd) ==
  CASE cmd = "lock" -> slaves \cup {"ScreenLock"}
    [] cmd = "unlock" -> slaves \ {"ScreenLock"}
    [] cmd = "startDemo" -> slaves \cup {"DemoClient"}
    [] cmd = "stopDemo" -> slaves \ {"DemoClient"}

\* A command is fired, and executed if the connection still is.
FireCommand ==
  /\ Fire
  /\ IF session # NoHost
     THEN slaves' = Execute(inHand[1].cmd) /\ UNCHANGED agreed
     ELSE agreed' = FALSE /\ UNCHANGED slaves
  /\ UNCHANGED <<mode, visible, reloadIn, terminated>>

\* The thread is terminated, with the command it fires.
TerminateThread ==
  /\ Terminate
  /\ agreed' = (agreed /\ inHand = <<>>)
  /\ terminated' = TRUE
  /\ UNCHANGED <<mode, visible, reloadIn, slaves>>

----------------------------------------------------------------------------
(* The window.                                                              *)

\* Commands that end a mode, and that begin one.
Leaving(m) == CASE m = "demo" -> <<"stopDemo">> [] m = "locked" -> <<"unlock">> [] OTHER -> <<>>
Entering(m) == CASE m = "demo" -> <<"startDemo">> [] m = "locked" -> <<"lock">> [] OTHER -> <<>>

\* Mutant of Again: the mode did not change, so nothing is sent.
AgainNothing == <<>>

\* changeMode( Mode_Overview ) in this mode: the way back if commands were lost.
Again == <<"stopDemo", "unlock">>

\* changeMode()
ChangeMode(m) ==
  /\ mode' = m
  /\ IF m # mode
     THEN /\ EnqueueEvents(Leaving(mode) \o Entering(m))
          /\ agreed' = (agreed /\ state = "Connected")
     ELSE IF m = "overview"
     THEN /\ EnqueueEvents(Again)
          /\ agreed' = (agreed \/ state = "Connected")
     ELSE UNCHANGED <<eventQueue, accepted, agreed>>
  /\ UNCHANGED <<threadVars, host, interrupted, up, fired, calls, reloadIn, slaves, terminated>>

PressMode(m) == visible /\ ChangeMode(m) /\ UNCHANGED visible

\* closeEvent()
Close == visible /\ ChangeMode("overview") /\ visible' = FALSE

\* Its classroom, or the main window with all of them, is hidden.
Hide ==
  /\ visible /\ visible' = FALSE
  /\ UNCHANGED <<vars, mode, reloadIn, slaves, agreed, terminated>>

\* It is shown again.
Show ==
  /\ ~visible /\ visible' = TRUE
  /\ UNCHANGED <<vars, mode, reloadIn, slaves, agreed, terminated>>

\* Mutant of Reconnect: the thread takes care of that.
ReconnectNot == UNCHANGED vars

\* What reload() does with the connection of a visible client.
Reconnect ==
  IF state \in {"Connected", "Connecting"} THEN UNCHANGED vars
  ELSE Reset(host) /\ UNCHANGED calls

\* reload(), which starts its timer first.
Reload ==
  /\ reloadIn = 0
  /\ reloadIn' = ReloadInterval
  /\ IF visible THEN Reconnect ELSE Stop /\ UNCHANGED calls
  /\ UNCHANGED <<mode, visible, slaves, agreed, terminated>>

----------------------------------------------------------------------------
\* Time goes on when no timer is due.
TickAll ==
  /\ reloadIn # 0 /\ reloadIn' = reloadIn - 1
  /\ Countdown
  /\ UNCHANGED <<host, pc, state, interrupted, calls, queueVars>>
  /\ UNCHANGED <<mode, visible, slaves, agreed, terminated>>

WindowNext ==
  \/ (Thread \/ InitOk \/ InitFails \/ \E h \in Hosts : HostDown(h) \/ HostUp(h))
       /\ UNCHANGED windowVars
  \/ FireCommand \/ TerminateThread
  \/ \E m \in Modes : PressMode(m)
  \/ Close \/ Hide \/ Show \/ Reload \/ TickAll

WindowSpec == WindowInit /\ [][WindowNext]_allVars

(* The thread and the event loop run, time goes on.  With WindowNetworkFair  *)
(* the network also answers, one way or the other.                           *)
WindowFair ==
  /\ WF_allVars(Thread /\ UNCHANGED windowVars)
  /\ WF_allVars(TerminateThread) /\ WF_allVars(Reload) /\ WF_allVars(TickAll)
WindowNetworkFair ==
  /\ WF_allVars((InitOk \/ InitFails) /\ UNCHANGED windowVars) /\ WF_allVars(FireCommand)

WindowFairSpec == WindowSpec /\ WindowFair
WindowNetworkSpec == WindowFairSpec /\ WindowNetworkFair

----------------------------------------------------------------------------
(* Properties.                                                              *)

Expected == CASE mode = "overview" -> {} [] mode = "demo" -> {"DemoClient"}
              [] mode = "locked" -> {"ScreenLock"}

\* Once all commands are fired the computer is in the mode of its window, unless
\* one was dropped or lost; pressing overview again makes up for that: "if
\* connection was lost while sending commands such as stop-demo, there should be
\* a way for switching back into normal mode" (Client.cpp:630-632).  Connections
\* that come and go in between, or are stopped, do not matter.
ModeIsReached ==
  agreed /\ eventQueue = <<>> /\ inHand = <<>> => slaves = Expected

\* A visible client whose computer answers is connected, again and again if it
\* must be, however often it was hidden, shown and cut off before
\* (Client.cpp:997-1030), unless a thread was terminated, which leaves m_state
\* behind and reload() content with it.
VisibleIsConnected ==
  <>[](visible /\ up = Hosts /\ ~terminated) => []<>(state = "Connected" /\ session # NoHost)

\* A client whose window was closed is not left in a demo or locked: "make sure, client isn't
\* forgotten by teacher after being hidden" (Client.cpp:691).
HiddenIsFree ==
  <>[](~visible /\ mode = "overview" /\ up = Hosts /\ agreed /\ ~terminated)
    => <>[](slaves = {})
=============================================================================
