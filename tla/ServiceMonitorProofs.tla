------------------------ MODULE ServiceMonitorProofs -------------------------
(* Theorems about ServiceMonitor for any sessions and bounds.                *)
EXTENDS ServiceMonitor, TLAPS

\* A server that is told to end and has a session takes the event before time
\* passes, unless it was slow; from then on it is as old as the wait for it.
InGoodTime ==
  \/ server.slow
  \/ server.state = "starting" /\ server.busy = StartTime
  \/ server.state = "running" /\ shutdown /\ waited = 0
  \/ server.state = "ending" /\ waited <= server.busy

\* The server of the handle is the only one; it is as old as its start.
Custody ==
  /\ orphans = 0
  /\ pc \in {"sleep", "launch", "end"} => server = NoServer
  /\ server.state = "starting" => server.busy = age /\ ~server.slow
  /\ oldSessionId = Invalid => ~server.attached

\* What stop() finds.
Stopping ==
  /\ pc = "stop" /\ then = "launch" => ~Alive(server) \/ ~server.attached
  /\ pc = "stop" /\ then = "sleep" /\ Alive(server) => InGoodTime

ServiceInv == TypeOK /\ Custody /\ Stopping

----------------------------------------------------------------------------
LEMMA TimesAre == Times = 0..2 /\ 0 \in Times /\ \A t \in Times : t < 2 => t + 1 \in Times
BY DEF Times, StopTime

LEMMA NoServerIsServer == NoServer \in Servers
BY TimesAre DEF NoServer, Servers

LEMMA StartedForIs ==
  ASSUME NEW s \in Sessions
  PROVE  /\ StartedFor(s) \in Servers
         /\ StartedFor(s).state = "starting" /\ StartedFor(s).busy = 0 /\ ~StartedFor(s).slow
         /\ sessionId = Invalid => ~StartedFor(s).attached
<1> DEFINE a == (sessionId # Invalid)
           n == [NoServer EXCEPT !.state = "starting", !.session = s, !.attached = a]
<1>1. a \in BOOLEAN /\ (sessionId = Invalid => a = FALSE)
  OBVIOUS
<1> HIDE DEF a
<1>2. n \in Servers
  BY <1>1, NoServerIsServer DEF Servers
<1>3. n.state = "starting" /\ n.busy = 0 /\ ~n.slow /\ n.attached = a
  BY DEF NoServer
<1>4. StartedFor(s) = n
  BY DEF StartedFor, a
<1> HIDE DEF n
<1> QED
  BY <1>1, <1>2, <1>3, <1>4

LEMMA WaitingIs ==
  ASSUME NEW s \in Servers
  PROVE  /\ Waiting(s) \in Servers
         /\ Waiting(s).state = "running" /\ Waiting(s).attached = s.attached
         /\ s.busy = 2 => Waiting(s).slow
<1> DEFINE b == (s.busy >= StartTime)
           n == [s EXCEPT !.state = "running", !.slow = b, !.busy = 0]
<1>1. b \in BOOLEAN /\ (s.busy = 2 => b = TRUE)
  BY DEF StartTime
<1> HIDE DEF b
<1>2. n \in Servers
  BY <1>1, TimesAre DEF Servers
<1>3. n.state = "running" /\ n.slow = b /\ n.attached = s.attached
  BY DEF Servers
<1>4. Waiting(s) = n
  BY DEF Waiting, b
<1> HIDE DEF n
<1> QED
  BY <1>1, <1>2, <1>3, <1>4

LEMMA InitImpliesInv == Init => ServiceInv
<1> SUFFICES ASSUME Init PROVE ServiceInv
    OBVIOUS
<1>1. TypeOK
  <2>1. server \in Servers
    BY NoServerIsServer DEF Init
  <2>2. /\ waited \in Times /\ age \in 0..StartTime /\ orphans \in Nat
        /\ changes \in 0..MaxChanges /\ faults \in 0..MaxFaults
    BY SessionAssumption, TimesAre DEF Init, StartTime
  <2> QED
    BY <2>1, <2>2 DEF Init, TypeOK
<1>2. Custody /\ Stopping
  BY DEF Init, Custody, Stopping, NoServer, Alive
<1> QED
  BY <1>1, <1>2 DEF ServiceInv

\* The process' record stays one: one step for each that changes it.
LEMMA StepKeepsServer == TypeOK /\ [Next]_vars => server' \in Servers
<1> SUFFICES ASSUME TypeOK, [Next]_vars PROVE server' \in Servers
    OBVIOUS
<1>0. server \in Servers /\ server.busy \in Times
  BY DEF TypeOK, Servers
<1>1. CASE StopServer
  BY <1>1, NoServerIsServer DEF StopServer
<1>2. CASE Launch
  <2>1. CASE UNCHANGED server
    BY <2>1, <1>0
  <2>2. CASE \E s \in Sessions : server' = StartedFor(s)
    BY <2>2, StartedForIs
  <2> QED
    BY <1>2, <2>1, <2>2 DEF Launch
<1>3. CASE Started
  BY <1>3, <1>0, WaitingIs DEF Started
<1>4. CASE TakeEvent \/ Exit \/ Crash
  BY <1>4, <1>0, TimesAre DEF TakeEvent, Exit, Crash, Servers
<1>5. CASE Tick
  <2>1. CASE server.busy < 2
    <3>1. [server EXCEPT !.busy = @ + 1] \in Servers
      BY <2>1, <1>0, TimesAre DEF Servers
    <3> QED
      BY <1>5, <3>1, <1>0 DEF Tick
  <2>2. CASE ~(server.busy < 2)
    BY <1>5, <2>2, <1>0 DEF Tick, StopTime
  <2> QED
    BY <2>1, <2>2
<1>6. CASE UNCHANGED server
  BY <1>6, <1>0
<1>7. StopServer \/ Launch \/ Started \/ TakeEvent \/ Exit \/ Crash \/ Tick \/ UNCHANGED server
  BY DEF Next, Monitor, Look, SessionChanged, SessionUnchanged, Check, Signal, Poll, Sleep,
         Shutdown, Logoff, ChangeSession, SwitchDesktop, StopService, vars
<1> QED
  BY <1>1, <1>2, <1>3, <1>4, <1>5, <1>6, <1>7

\* The numbers stay in their bounds: no wait is longer than Patience says.
LEMMA StepKeepsNumbers ==
  TypeOK /\ [Next]_vars =>
    /\ waited' \in Times /\ age' \in 0..StartTime /\ orphans' \in Nat
    /\ changes' \in 0..MaxChanges /\ faults' \in 0..MaxFaults
<1> SUFFICES ASSUME TypeOK, [Next]_vars
             PROVE  /\ waited' \in Times /\ age' \in 0..StartTime /\ orphans' \in Nat
                    /\ changes' \in 0..MaxChanges /\ faults' \in 0..MaxFaults
    OBVIOUS
<1> USE DEF envVars, monVars, Goto, Stop, Start
<1>0. /\ waited \in Times /\ age \in 0..StartTime /\ orphans \in Nat
      /\ changes \in 0..MaxChanges /\ faults \in 0..MaxFaults
  BY DEF TypeOK
<1>1. CASE Look \/ SessionChanged \/ SessionUnchanged \/ Check \/ Signal \/ Poll
  BY <1>0, <1>1, TimesAre DEF Look, SessionChanged, SessionUnchanged, Check, Signal, Poll
<1>2. CASE StopServer \/ Sleep \/ Shutdown \/ Started \/ TakeEvent \/ Exit
  BY <1>0, <1>2, TimesAre DEF StopServer, Sleep, Shutdown, Started, TakeEvent, Exit
<1>3. CASE Launch
  BY <1>0, <1>3, TimesAre, SessionAssumption DEF Launch, StartTime
<1>4. CASE Crash \/ Logoff
  BY <1>0, <1>4, SessionAssumption DEF Crash, Logoff
<1>5. CASE Tick
  <2>1. age' \in 0..StartTime
    BY <1>0, <1>5 DEF Tick, StartTime
  <2>2. waited' \in Times
    BY <1>0, <1>5, TimesAre DEF Tick, Patience, StopTime, PollTime
  <2> QED
    BY <1>0, <1>5, <2>1, <2>2 DEF Tick
<1>6. CASE (\E s \in Sessions \cup {Invalid} : ChangeSession(s)) \/ SwitchDesktop \/ StopService
  BY <1>0, <1>6, SessionAssumption DEF ChangeSession, SwitchDesktop, StopService
<1>7. CASE UNCHANGED vars
  BY <1>0, <1>7 DEF vars
<1> QED
  BY <1>1, <1>2, <1>3, <1>4, <1>5, <1>6, <1>7 DEF Next, Monitor

LEMMA StepKeepsTypes == TypeOK /\ [Next]_vars => TypeOK'
<1> SUFFICES ASSUME TypeOK, [Next]_vars PROVE TypeOK'
    OBVIOUS
<1>0. /\ server' \in Servers /\ waited' \in Times /\ age' \in 0..StartTime /\ orphans' \in Nat
      /\ changes' \in 0..MaxChanges /\ faults' \in 0..MaxFaults
  BY StepKeepsServer, StepKeepsNumbers
<1>1. session' \in Sessions \cup {Invalid}
  BY DEF TypeOK, Next, Monitor, Look, SessionChanged, SessionUnchanged, Check, Signal, Poll, StopServer,
         Sleep, Launch, Shutdown, Started, TakeEvent, Exit, Crash, Logoff, Tick,
         ChangeSession, SwitchDesktop, StopService, vars, envVars, monVars
<1>4. stopEvent' \in BOOLEAN /\ locked' \in BOOLEAN /\ shutdown' \in BOOLEAN
  BY Zenon DEF TypeOK, Next, Monitor, Look, SessionChanged, SessionUnchanged, Check, Signal, Poll, StopServer,
         Sleep, Launch, Shutdown, Started, TakeEvent, Exit, Crash, Logoff, Tick,
         ChangeSession, SwitchDesktop, StopService, Ready, vars, envVars, monVars
<1>2. sessionId' \in Sessions \cup {Invalid} /\ oldSessionId' \in Sessions \cup {Invalid}
  BY DEF TypeOK, Next, Monitor, Look, SessionChanged, SessionUnchanged, Check, Signal, Poll, StopServer,
         Sleep, Launch, Remembered, Shutdown, Started, TakeEvent, Exit, Crash, Logoff, Tick,
         ChangeSession, SwitchDesktop, StopService, vars, envVars, monVars
<1>3. /\ pc' \in {"idle", "look", "check", "signal", "poll", "stop", "sleep", "launch", "end"}
      /\ then' \in {"sleep", "launch", "end"}
  BY DEF TypeOK, Next, Monitor, Look, SessionChanged, SessionUnchanged, Check, Signal, Poll, StopServer,
         Sleep, Launch, Shutdown, Started, TakeEvent, Exit, Crash, Logoff, Tick,
         ChangeSession, SwitchDesktop, StopService, Goto, Stop, Start, vars, envVars, monVars
<1> QED
  BY <1>0, <1>1, <1>2, <1>3, <1>4 DEF TypeOK

LEMMA StepKeepsInv == ServiceInv /\ [Next]_vars => ServiceInv'
<1> SUFFICES ASSUME ServiceInv, [Next]_vars PROVE Custody' /\ Stopping'
  BY StepKeepsTypes DEF ServiceInv
<1>0. /\ Custody /\ Stopping
      /\ server \in Servers /\ server.busy \in 0..2 /\ age \in 0..2 /\ waited \in 0..2
  BY TimesAre DEF ServiceInv, TypeOK, Servers, StartTime
<1> USE SessionAssumption, <1>0
    DEF Custody, Stopping, InGoodTime, Alive, envVars, monVars,
        StartTime, StopTime, PollTime, Goto, Stop, Start
<1>1. CASE Look \/ SessionUnchanged \/ Shutdown
  BY <1>1 DEF Look, SessionUnchanged, Shutdown
\* The session changed: a server of no session is stopped, another one signalled.
<1>2. CASE SessionChanged
  BY <1>2 DEF SessionChanged
<1>3. CASE Check \/ Poll
  BY <1>3 DEF Check, Poll
\* The last SetEvent() comes when the server has started, or was slow.
<1>4. CASE Signal
  <2>1. Custody'
    BY <1>4 DEF Signal
  <2>2. CASE StartingUp
    BY <1>4, <2>1, <2>2 DEF Signal
  <2>3. CASE ~StartingUp
    <3>1. server.state = "starting" => server.busy = 2
      BY <2>3 DEF StartingUp
    <3>2. pc' = "stop" /\ then' = "sleep" /\ shutdown' /\ waited' = 0 /\ server' = server
      BY <1>4, <2>3 DEF Signal
    <3> QED
      BY <2>1, <3>1, <3>2
  <2> QED
    BY <2>2, <2>3
<1>5. CASE StopServer
  BY <1>5 DEF StopServer, NoServer
<1>6. CASE Sleep
  BY <1>6 DEF Sleep, NoServer
<1>7. CASE Launch
  <2>1. server = NoServer /\ ~Alive(server)
    BY <1>7 DEF Launch, NoServer
  <2>2. pc' = "idle" /\ orphans' = 0 /\ age' = 0 /\ oldSessionId' = sessionId
    BY <1>7, <2>1 DEF Launch, Remembered
  <2>3. CASE UNCHANGED server
    BY <2>1, <2>2, <2>3 DEF NoServer
  <2>4. ASSUME NEW s \in Sessions, server' = StartedFor(s)
        PROVE  Custody' /\ Stopping'
    <3>1. server'.busy = 0 /\ ~server'.slow /\ (sessionId = Invalid => ~server'.attached)
      BY <2>4, StartedForIs
    <3> QED
      BY <2>2, <3>1
  <2> QED
    BY <1>7, <2>3, <2>4 DEF Launch
<1>8. CASE Started
  <2>1. /\ server.state = "starting" /\ server'.state = "running"
        /\ server'.attached = server.attached
        /\ server.busy = 2 => server'.slow
    BY <1>8, WaitingIs DEF Started
  <2>2. UNCHANGED <<pc, then, waited, oldSessionId, orphans, age>>
    BY <1>8 DEF Started
  <2>3. pc \notin {"sleep", "launch", "end"}
    BY <2>1 DEF NoServer
  <2>4. CASE pc = "stop" /\ then = "sleep"
    BY <2>1, <2>2, <2>4
  <2> QED
    BY <2>1, <2>2, <2>3, <2>4
<1>9. CASE TakeEvent
  BY <1>9 DEF TakeEvent, Servers, NoServer
<1>10. CASE Exit \/ Crash
  BY <1>10 DEF Exit, Crash, Servers, NoServer
<1>11. CASE Logoff
  BY <1>11 DEF Logoff, Servers, NoServer
\* Time passes for the server and for the one who waits for it.
<1>12. CASE Tick
  <2>1. /\ UNCHANGED <<pc, then, orphans, oldSessionId, shutdown>>
        /\ waited' \in {0, waited + 1} /\ age' = (IF age < 2 THEN age + 1 ELSE age)
        /\ ~(server.state = "running" /\ shutdown)
    BY <1>12 DEF Tick
  <2>2. /\ server'.state = server.state /\ server'.slow = server.slow
        /\ server'.attached = server.attached
    BY <1>12 DEF Tick, Servers
  <2>3. server.state \in {"starting", "ending"} =>
          server'.busy = (IF server.busy < 2 THEN server.busy + 1 ELSE server.busy)
    BY <1>12 DEF Tick, Servers
  <2>4. pc \in {"sleep", "launch", "end"} => server' = NoServer
    <3>1. NoServer.state = "none"
      BY DEF NoServer
    <3>2. server.state \notin {"starting", "ending"} => server' = server
      BY <1>12 DEF Tick
    <3> QED
      BY <3>1, <3>2
  <2>5. waited' \in 0..2
    <3>1. waited' \in Times
      BY StepKeepsNumbers DEF ServiceInv
    <3> QED
      BY <3>1, TimesAre
  <2>6. Custody'
    BY <2>1, <2>2, <2>3, <2>4
  <2>7. pc = "stop" /\ then = "sleep" /\ Alive(server') => InGoodTime'
    BY <2>1, <2>2, <2>3, <2>5
  <2> QED
    BY <2>1, <2>2, <2>6, <2>7
<1>13. CASE (\E s \in Sessions \cup {Invalid} : ChangeSession(s)) \/ SwitchDesktop \/ StopService
  BY <1>13 DEF ChangeSession, SwitchDesktop, StopService
<1>14. CASE UNCHANGED vars
  BY <1>14 DEF vars
<1> QED
  BY <1>1, <1>2, <1>3, <1>4, <1>5, <1>6, <1>7, <1>8, <1>9, <1>10, <1>11, <1>12, <1>13, <1>14
     DEF Next, Monitor

\* The invariant of monitorSessions(): the server it has a handle of is the only
\* one, and stop() finds it dead, slow, of no session, or about to see the event
\* (WindowsService.cpp:728-794).
THEOREM ServiceInvariant == Spec => []ServiceInv
BY InitImpliesInv, StepKeepsInv, PTL DEF Spec

\* The types (the state of monitorSessions() and of the process it starts).
THEOREM TypeCorrect == Spec => []TypeOK
<1>1. ServiceInv => TypeOK
  BY DEF ServiceInv
<1> QED
  BY <1>1, ServiceInvariant, PTL

\* No server is lost, and none outlives the service: start() stops what is there
\* (WindowsService.cpp:51-84, 790-791).
THEOREM ServersAreOne == Spec => []OneServer
<1>1. ServiceInv => OneServer
  BY DEF ServiceInv, Custody, OneServer, Alive, NoServer
<1> QED
  BY <1>1, ServiceInvariant, PTL

\* SetEvent() repeated for ten seconds reaches every server that needs less to
\* start and to end (WindowsService.cpp:758-770).
THEOREM ServersEndThemselves == Spec => EndsByItself
<1>1. ServiceInv /\ [Next]_vars =>
        [Terminates /\ pc' # "stop" =>
           \/ server.slow \/ server.busy = StopTime
           \/ then = "end"
           \/ ~server.attached]_vars
  <2> SUFFICES ASSUME ServiceInv, Terminates
               PROVE  \/ server.slow \/ server.busy = StopTime
                      \/ then = "end" \/ ~server.attached
    OBVIOUS
  <2>1. server.busy \in 0..2
    BY TimesAre DEF ServiceInv, TypeOK, Servers
  <2> QED
    BY <2>1 DEF ServiceInv, TypeOK, Stopping, InGoodTime, Alive, Terminates, StopTime, StartTime
<1> QED
  BY <1>1, ServiceInvariant, PTL DEF Spec, EndsByItself
=============================================================================
