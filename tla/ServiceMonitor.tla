--------------------------- MODULE ServiceMonitor ----------------------------
(***************************************************************************)
(* The Windows service that keeps a core server running in the session at  *)
(* the console (ica/src/WindowsService.cpp:728-794), and the core server   *)
(* as far as the service sees it: a process that ends when it finds the    *)
(* event Global\SessionEventUltra set.  The event resets itself when the   *)
(* server has seen it, and a server that starts resets it first.           *)
(*                                                                         *)
(* Time is counted in units of five seconds, the length of the wait in     *)
(* isRunning() and of the Sleep().  The wait of one second in the loop is  *)
(* too short to count.                                                     *)
(***************************************************************************)
EXTENDS Naturals

CONSTANTS Sessions,     \* with a user or a logon screen
          Invalid,      \* SESSION_INVALID: no session is attached to the console
          MaxChanges,   \* bound: changes of the session and of the desktop
          MaxFaults     \* bound: crashes, logoffs and failed starts

ASSUME SessionAssumption == Invalid \notin Sessions /\ MaxChanges \in Nat /\ MaxFaults \in Nat

VARIABLES
  session,    \* WTSGetActiveConsoleSessionId()
  locked,     \* the desktop of the screen lock is active
  stopEvent,  \* s_stopServiceEvent
  pc, then,   \* where monitorSessions() is, and where it goes after stop()
  waited,     \* how long it waits at pc
  sessionId, oldSessionId,
  age,        \* lastServiceStart.elapsed(), up to ten seconds
  shutdown,   \* hShutdownEvent
  server,     \* the process of m_subProcessHandle
  orphans,    \* servers that run and that nobody has a handle of
  changes, faults

monVars == <<pc, then, waited, sessionId, oldSessionId>>
envVars == <<session, locked, stopEvent, changes>>
vars == <<envVars, monVars, age, shutdown, server, orphans, faults>>

StartTime == 2   \* lastServiceStart.elapsed() < 10000
StopTime == 2    \* WaitForSingleObject( m_subProcessHandle, 10000 )
PollTime == 1    \* WaitForSingleObject( m_subProcessHandle, 5000 )
Times == 0..StopTime

\* busy: how long it starts or ends; slow: it took StartTime to start; attached:
\* it was started for a session, and not in any that has a winlogon.exe.
Servers == [state : {"none", "starting", "running", "ending", "dead"},
            session : Sessions \cup {Invalid}, busy : Times,
            slow : BOOLEAN, attached : BOOLEAN]
NoServer == [state |-> "none", session |-> Invalid, busy |-> 0, slow |-> FALSE, attached |-> FALSE]
Alive(s) == s.state \in {"starting", "running", "ending"}

TypeOK ==
  /\ session \in Sessions \cup {Invalid} /\ locked \in BOOLEAN /\ stopEvent \in BOOLEAN
  /\ pc \in {"idle", "look", "check", "signal", "poll", "stop", "sleep", "launch", "end"}
  /\ then \in {"sleep", "launch", "end"} /\ waited \in Times
  /\ sessionId \in Sessions \cup {Invalid} /\ oldSessionId \in Sessions \cup {Invalid}
  /\ age \in 0..StartTime /\ shutdown \in BOOLEAN /\ server \in Servers /\ orphans \in Nat
  /\ changes \in 0..MaxChanges /\ faults \in 0..MaxFaults

Init ==
  /\ session \in Sessions \cup {Invalid} /\ locked = FALSE /\ stopEvent = FALSE
  /\ pc = "idle" /\ then = "end" /\ waited = 0
  /\ sessionId = Invalid /\ oldSessionId = Invalid
  /\ age = 0 /\ shutdown = FALSE /\ server = NoServer /\ orphans = 0
  /\ changes = 0 /\ faults = 0

Goto(l) == pc' = l /\ waited' = 0
Stop(l) == Goto("stop") /\ then' = l

\* Mutant of Start: stop() is not called first.
StartAtOnce == Goto("launch") /\ UNCHANGED then

\* start() begins with stop()
Start == Stop("launch")

----------------------------------------------------------------------------
(* monitorSessions()                                                        *)

\* WaitForSingleObject( s_stopServiceEvent, 1000 ) == WAIT_TIMEOUT
Look ==
  /\ pc = "idle" /\ ~stopEvent
  /\ sessionId' = session
  /\ Goto("look")
  /\ UNCHANGED <<envVars, then, oldSessionId, age, shutdown, server, orphans, faults>>

\* The session is another one: it is ignored, or the server of the old one is
\* told to end, or there was none.  Otherwise isRunning() is called.
SessionChanged ==
  /\ pc = "look" /\ sessionId # oldSessionId
  /\ \/ locked /\ Goto("idle") /\ UNCHANGED then
     \/ ~locked /\ oldSessionId # Invalid /\ Goto("signal") /\ UNCHANGED then
     \/ ~locked /\ oldSessionId = Invalid /\ Start
  /\ UNCHANGED <<envVars, sessionId, oldSessionId, age, shutdown, server, orphans, faults>>

SessionUnchanged ==
  /\ pc = "look" /\ sessionId = oldSessionId
  /\ Goto("check")
  /\ UNCHANGED <<envVars, then, sessionId, oldSessionId, age, shutdown, server, orphans, faults>>

\* isRunning(), which takes five seconds if it is
Check ==
  /\ pc = "check"
  /\ \/ ~Alive(server) /\ Start
     \/ Alive(server) /\ waited = PollTime /\ Goto("idle") /\ UNCHANGED then
  /\ UNCHANGED <<envVars, sessionId, oldSessionId, age, shutdown, server, orphans, faults>>

\* Mutant of StartingUp: the event is set once.
StartingUpNever == FALSE

StartingUp == age < StartTime

\* do SetEvent while it may still be starting up
Signal ==
  /\ pc = "signal"
  /\ shutdown' = TRUE
  /\ IF StartingUp THEN Goto("poll") /\ UNCHANGED then ELSE Stop("sleep")
  /\ UNCHANGED <<envVars, sessionId, oldSessionId, age, server, orphans, faults>>

\* ... and isRunning()
Poll ==
  /\ pc = "poll"
  /\ \/ ~Alive(server) /\ Stop("sleep")
     \/ Alive(server) /\ waited = PollTime /\ Goto("signal") /\ UNCHANGED then
  /\ UNCHANGED <<envVars, sessionId, oldSessionId, age, shutdown, server, orphans, faults>>

Terminates == pc = "stop" /\ Alive(server) /\ waited = StopTime

\* stop(): without a handle, or once the process has ended, there is no wait.
StopServer ==
  /\ pc = "stop"
  /\ ~Alive(server) \/ Terminates
  /\ server' = NoServer
  /\ Goto(then)
  /\ UNCHANGED <<envVars, then, sessionId, oldSessionId, age, shutdown, orphans, faults>>

\* Sleep( 5000 ), and what follows it
Sleep ==
  /\ pc = "sleep" /\ waited = 1
  /\ IF sessionId # Invalid
     THEN Goto("launch") /\ UNCHANGED oldSessionId
     ELSE Goto("idle") /\ oldSessionId' = sessionId
  /\ UNCHANGED <<envVars, then, sessionId, age, shutdown, server, orphans, faults>>

\* Mutant of Remembered: the session is forgotten.
RememberedNot == UNCHANGED oldSessionId

Remembered == oldSessionId' = sessionId

StartedFor(s) == [NoServer EXCEPT !.state = "starting", !.session = s,
                                  !.attached = (sessionId # Invalid)]

\* start( sessionId ): the server runs where winlogon.exe is found, for
\* SESSION_INVALID in any session.  It may fail, and then there is no handle.
Launch ==
  /\ pc = "launch"
  /\ Goto("idle")
  /\ Remembered
  /\ age' = 0
  /\ orphans' = orphans + (IF Alive(server) THEN 1 ELSE 0)
  /\ \/ /\ \E s \in Sessions :
             /\ sessionId \in {s, Invalid}
             /\ server' = StartedFor(s)
        /\ UNCHANGED faults
     \/ /\ faults < MaxFaults
        /\ faults' = faults + 1
        /\ UNCHANGED server
  /\ UNCHANGED <<envVars, then, sessionId, shutdown>>

\* "Service shutdown"
Shutdown ==
  /\ pc = "idle" /\ stopEvent
  /\ shutdown' = TRUE
  /\ Stop("end")
  /\ UNCHANGED <<envVars, sessionId, oldSessionId, age, server, orphans, faults>>

Monitor ==
  \/ Look \/ SessionChanged \/ SessionUnchanged \/ Check \/ Signal \/ Poll
  \/ StopServer \/ Sleep \/ Launch \/ Shutdown

----------------------------------------------------------------------------
(* The core server.                                                         *)

\* OpenEvent() and ResetEvent(): from now on the server waits for the event.
Ready == shutdown' = FALSE

Waiting(s) == [s EXCEPT !.state = "running", !.slow = (s.busy >= StartTime), !.busy = 0]

Started ==
  /\ server.state = "starting"
  /\ server' = Waiting(server)
  /\ Ready
  /\ UNCHANGED <<envVars, monVars, age, orphans, faults>>

\* WaitForSingleObject( hShutdownEvent, INFINITE )
TakeEvent ==
  /\ server.state = "running" /\ shutdown
  /\ server' = [server EXCEPT !.state = "ending", !.busy = 0]
  /\ shutdown' = FALSE
  /\ UNCHANGED <<envVars, monVars, age, orphans, faults>>

Exit ==
  /\ server.state = "ending"
  /\ server' = [server EXCEPT !.state = "dead"]
  /\ UNCHANGED <<envVars, monVars, age, shutdown, orphans, faults>>

Crash ==
  /\ Alive(server)
  /\ faults < MaxFaults /\ faults' = faults + 1
  /\ server' = [server EXCEPT !.state = "dead"]
  /\ UNCHANGED <<envVars, monVars, age, shutdown, orphans>>

\* LogoffEventFilter: WM_QUERYENDSESSION
Logoff ==
  /\ Alive(server)
  /\ faults < MaxFaults /\ faults' = faults + 1
  /\ shutdown' = TRUE
  /\ UNCHANGED <<envVars, monVars, age, server, orphans>>

----------------------------------------------------------------------------
(* The world.                                                               *)

ChangeSession(s) ==
  /\ s # session /\ changes < MaxChanges
  /\ session' = s /\ changes' = changes + 1
  /\ UNCHANGED <<locked, stopEvent, monVars, age, shutdown, server, orphans, faults>>

\* The screen lock's desktop becomes the active one, or another.
SwitchDesktop ==
  /\ locked \/ changes < MaxChanges
  /\ locked' = ~locked /\ changes' = IF locked THEN changes ELSE changes + 1
  /\ UNCHANGED <<session, stopEvent, monVars, age, shutdown, server, orphans, faults>>

\* SERVICE_CONTROL_STOP or SERVICE_CONTROL_SHUTDOWN
StopService ==
  /\ ~stopEvent /\ pc # "end"
  /\ stopEvent' = TRUE
  /\ UNCHANGED <<session, locked, changes, monVars, age, shutdown, server, orphans, faults>>

\* How long the monitor stays where it is; none of the other steps takes time.
Patience == [idle |-> StopTime, check |-> PollTime, poll |-> PollTime, sleep |-> 1, stop |-> StopTime]

\* Five seconds pass, unless the monitor or the server has something to do.
Tick ==
  /\ pc \in DOMAIN Patience
  /\ pc = "idle" \/ waited < Patience[pc]
  /\ pc \in {"check", "poll", "stop"} => Alive(server)
  /\ ~(server.state = "running" /\ shutdown)
  /\ waited' = IF pc = "idle" THEN 0 ELSE waited + 1
  /\ age' = IF age < StartTime THEN age + 1 ELSE age
  /\ server' = IF server.state \in {"starting", "ending"} /\ server.busy < StopTime
               THEN [server EXCEPT !.busy = @ + 1] ELSE server
  /\ UNCHANGED <<envVars, pc, then, sessionId, oldSessionId, shutdown, orphans, faults>>

Next ==
  \/ Monitor \/ Tick
  \/ Started \/ TakeEvent \/ Exit \/ Crash \/ Logoff
  \/ \E s \in Sessions \cup {Invalid} : ChangeSession(s)
  \/ SwitchDesktop \/ StopService

Spec == Init /\ [][Next]_vars

(* The service's thread runs, time passes, and a core server that starts or  *)
(* ends does so in the end.                                                  *)
Fairness == WF_vars(Monitor) /\ WF_vars(Tick) /\ WF_vars(Started) /\ WF_vars(TakeEvent) /\ WF_vars(Exit)

FairSpec == Spec /\ Fairness

----------------------------------------------------------------------------
(* Properties                                                               *)

\* There is at most one core server at any time, which is the one the service
\* has a handle of, and none after the service has stopped
\* (WindowsService.cpp:51-84, 790-791).
OneServer == orphans = 0 /\ (pc = "end" => ~Alive(server))

\* A core server that needs less than ten seconds to start and to end always gets
\* to end by itself, however early it is told to: it is only terminated if it was
\* slow, or if the service is stopped while it starts, or if it was started while
\* no session was attached to the console (WindowsService.cpp:758-770).
EndsByItself ==
  [][Terminates /\ pc' # "stop" =>
       \/ server.slow \/ server.busy = StopTime
       \/ then = "end"
       \/ ~server.attached]_vars

\* Once a session stays at the console, a core server runs there for good, if the
\* screen lock does not stay active and the service is not stopped
\* (WindowsService.cpp:741-786).
FollowsConsole ==
  \A s \in Sessions :
    <>[](session = s /\ ~locked /\ ~stopEvent) =>
      <>[](server.state = "running" /\ server.session = s)
=============================================================================
