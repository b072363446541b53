-------------------------- MODULE DemoServerProcess -------------------------
(***************************************************************************)
(* The demo server as a whole: DemoServerMaster in the core service, the   *)
(* demo server processes it starts and stops, and who may watch            *)
(* (ica/src/DemoServerMaster, DemoServerSlave, DemoServer, ItalcCoreServer *)
(* inside the demo server's process).                                      *)
(*                                                                         *)
(* Messages obey SlaveMessaging: each process has its own inbox, in order. *)
(* stopSlave() appends Quit and lets go of the process, which ends when it *)
(* has joined its client threads, or is killed five seconds later.         *)
(*                                                                         *)
(* A client thread holds ItalcCoreServer::m_dataMutex for its whole        *)
(* authentication; the main thread takes it to replace the list of allowed *)
(* addresses.  With the mutex held it asks the user about a DSA key and    *)
(* reports the first failure of a host by the tray icon: blocking calls    *)
(* into the main thread.                                                   *)
(***************************************************************************)
EXTENDS Naturals, Sequences

CONSTANTS
  Hosts,     \* the computers, each with at most one viewer per server
  NoHost,    \* m_dataMutex is free
  Methods,   \* the authentication methods viewers choose
  MaxProcs,  \* bound: demo servers started
  MaxInbox   \* bound: messages under way when an update is sent

ASSUME HostsAssumption == NoHost \notin Hosts
ASSUME MethodsAssumption == Methods \subseteq {"HostBased", "CommonSecret", "DSA"}
ASSUME BoundsAssumption == MaxProcs \in Nat /\ MaxInbox \in Nat

VARIABLES
  allowedHosts, \* DemoServerMaster::m_allowedHosts
  launched,     \* demo servers started so far
  current,      \* the one m_processes has an entry for, or 0
  told,         \* history: a list was sent to it
  port,         \* the process that listens at the destination port, or 0
  inbox,        \* process: messages under way
  main,         \* process: where its main thread is
  newList,      \* process: the list setAllowedIPs() is in, or {}
  server,       \* process: m_demoServer
  allowedIPs,   \* process: ItalcCoreServer::m_allowedIPs
  dataMutex,    \* process: the host whose thread holds m_dataMutex
  failedHosts,  \* process: m_failedAuthHosts
  pc            \* process, host: where the thread of its viewer is

masterVars == <<allowedHosts, launched, current, told>>
clientVars == <<dataMutex, failedHosts, pc>>
processVars == <<masterVars, port, inbox, main, newList, server, allowedIPs, clientVars>>

Procs == 1..MaxProcs
List(S) == [cmd |-> "UpdateAllowedHosts", hosts |-> S]
Command(c) == [cmd |-> c]

\* Where the thread of a viewer waits for the main thread to execute its call.
Calls == {"createDialog", "sendAsk", "stopDialog", "create", "send"}
Places == {"none", "lock", "auth", "wait", "answered", "watch"} \cup Calls

Messages == {List(S) : S \in SUBSET Hosts} \cup {Command("StartDemoServer"), Command("Quit")}

ProcessTypeOK ==
  /\ allowedHosts \subseteq Hosts
  /\ launched \in 0..MaxProcs /\ current \in 0..launched
  /\ told \in BOOLEAN
  /\ port \in 0..MaxProcs
  /\ inbox \in [Procs -> Seq(Messages)]
  /\ main \in [Procs -> {"unborn", "loop", "setAllowedIPs", "closing", "gone"}]
  /\ newList \in [Procs -> SUBSET Hosts]
  /\ server \in [Procs -> {"none", "listening", "failed"}]
  /\ allowedIPs \in [Procs -> SUBSET Hosts]
  /\ dataMutex \in [Procs -> Hosts \cup {NoHost}]
  /\ failedHosts \in [Procs -> SUBSET Hosts]
  /\ pc \in [Procs -> [Hosts -> Places]]

ProcessInit ==
  /\ allowedHosts = {}
  /\ launched = 0 /\ current = 0 /\ told = FALSE
  /\ port = 0
  /\ inbox = [p \in Procs |-> <<>>]
  /\ main = [p \in Procs |-> "unborn"]
  /\ newList = [p \in Procs |-> {}]
  /\ server = [p \in Procs |-> "none"]
  /\ allowedIPs = [p \in Procs |-> {}]
  /\ dataMutex = [p \in Procs |-> NoHost]
  /\ failedHosts = [p \in Procs |-> {}]
  /\ pc = [p \in Procs |-> [h \in Hosts |-> "none"]]

Alive(p) == main[p] \notin {"unborn", "gone"}

----------------------------------------------------------------------------
(* The core service.                                                        *)

\* stopSlave() and createSlave(): what inbox becomes.
Quit(ib) == IF current = 0 THEN ib
            ELSE [ib EXCEPT ![current] = Append(@, Command("Quit"))]

Start ==
  /\ launched < MaxProcs
  /\ launched' = launched + 1
  /\ current' = launched + 1
  /\ told' = FALSE
  /\ inbox' = [Quit(inbox) EXCEPT ![launched + 1] = <<Command("StartDemoServer")>>]
  /\ main' = [main EXCEPT ![launched + 1] = "loop"]
  /\ UNCHANGED <<allowedHosts, port, newList, server, allowedIPs, clientVars>>

Stop ==
  /\ current # 0
  /\ inbox' = Quit(inbox)
  /\ current' = 0 /\ told' = FALSE
  /\ UNCHANGED <<allowedHosts, launched, port, main, newList, server, allowedIPs, clientVars>>

\* sendMessage(), which does nothing when there is no process.
UpdateAllowedHosts(S) ==
  IF current = 0 THEN UNCHANGED <<inbox, told>>
  ELSE /\ Len(inbox[current]) < MaxInbox
       /\ inbox' = [inbox EXCEPT ![current] = Append(@, List(S))]
       /\ told' = TRUE

AllowHost(h) ==
  /\ allowedHosts' = allowedHosts \cup {h}
  /\ UpdateAllowedHosts(allowedHosts \cup {h})
  /\ UNCHANGED <<launched, current, port, main, newList, server, allowedIPs, clientVars>>

\* Mutant of UnallowHost: the list is sent before the host is removed from it.
UnallowHostLate(h) ==
  /\ allowedHosts' = allowedHosts \ {h}
  /\ UpdateAllowedHosts(allowedHosts)
  /\ UNCHANGED <<launched, current, port, main, newList, server, allowedIPs, clientVars>>

UnallowHost(h) ==
  /\ allowedHosts' = allowedHosts \ {h}
  /\ UpdateAllowedHosts(allowedHosts \ {h})
  /\ UNCHANGED <<launched, current, port, main, newList, server, allowedIPs, clientVars>>

\* The launcher's finished(): the process of the entry is gone.
Finished ==
  /\ current # 0 /\ main[current] = "gone"
  /\ current' = 0 /\ told' = FALSE
  /\ UNCHANGED <<allowedHosts, launched, port, inbox, main, newList, server,
                 allowedIPs, clientVars>>

\* Mutant of MayBeKilled: stop() asks politely and that is all.
MayBeKilledNever(p) == FALSE

\* The launcher kills what has not ended five seconds after stop().
MayBeKilled(p) == p # current

\* The end of a process, with its threads, its memory, its messages and its socket.
Gone(p) ==
  /\ main' = [main EXCEPT ![p] = "gone"]
  /\ inbox' = [inbox EXCEPT ![p] = <<>>]
  /\ port' = IF port = p THEN 0 ELSE port
  /\ pc' = [pc EXCEPT ![p] = [h \in Hosts |-> "none"]]
  /\ dataMutex' = [dataMutex EXCEPT ![p] = NoHost]
  /\ server' = [server EXCEPT ![p] = "none"]
  /\ newList' = [newList EXCEPT ![p] = {}]
  /\ allowedIPs' = [allowedIPs EXCEPT ![p] = {}]
  /\ failedHosts' = [failedHosts EXCEPT ![p] = {}]
  /\ UNCHANGED masterVars

Kill(p) == Alive(p) /\ MayBeKilled(p) /\ Gone(p)

Crash(p) == Alive(p) /\ p = current /\ Gone(p)

----------------------------------------------------------------------------
(* The main thread of a demo server.                                        *)

Receive(p, m) ==
  /\ main[p] = "loop"
  /\ inbox[p] # <<>> /\ Head(inbox[p]) = m
  /\ inbox' = [inbox EXCEPT ![p] = Tail(@)]

NewServer(p) == IF port = 0 THEN "listening" ELSE "failed"

\* new DemoServer(): it listens, unless another process still does.
StartDemoServer(p) ==
  /\ Receive(p, Command("StartDemoServer"))
  /\ server' = [server EXCEPT ![p] = NewServer(p)]
  /\ port' = IF port = 0 THEN p ELSE port
  /\ UNCHANGED <<masterVars, main, newList, allowedIPs, clientVars>>

\* The names are resolved; setAllowedIPs() wants the mutex.
CallSetAllowedIPs(p, S) ==
  /\ Receive(p, List(S))
  /\ main' = [main EXCEPT ![p] = "setAllowedIPs"]
  /\ newList' = [newList EXCEPT ![p] = S]
  /\ UNCHANGED <<masterVars, port, server, allowedIPs, clientVars>>

\* Mutant of NewIPs: the addresses are added to the list.
NewIPsAdded(p) == allowedIPs[p] \cup newList[p]

NewIPs(p) == newList[p]

SetAllowedIPs(p) ==
  /\ main[p] = "setAllowedIPs"
  /\ dataMutex[p] = NoHost
  /\ allowedIPs' = [allowedIPs EXCEPT ![p] = NewIPs(p)]
  /\ main' = [main EXCEPT ![p] = "loop"]
  /\ newList' = [newList EXCEPT ![p] = {}]
  /\ UNCHANGED <<masterVars, port, inbox, server, clientVars>>

\* The event loop ends; ~DemoServer() deletes the clients.
ReceiveQuit(p) ==
  /\ Receive(p, Command("Quit"))
  /\ main' = [main EXCEPT ![p] = "closing"]
  /\ UNCHANGED <<masterVars, port, newList, server, allowedIPs, clientVars>>

\* ~DemoServerClient() has waited for every thread.
Close(p) ==
  /\ main[p] = "closing"
  /\ \A h \in Hosts : pc[p][h] = "none"
  /\ Gone(p)

----------------------------------------------------------------------------
(* The threads of the viewers.                                              *)

Goto(p, h, l) == pc' = [pc EXCEPT ![p][h] = l]

serverVars == <<masterVars, port, inbox, main, newList, server, allowedIPs>>

\* incomingConnection(), in the main thread.
Connect(p, h) ==
  /\ server[p] = "listening" /\ main[p] = "loop"
  /\ pc[p][h] = "none"
  /\ Goto(p, h, "lock")
  /\ UNCHANGED <<serverVars, dataMutex, failedHosts>>

Lock(p, h) ==
  /\ pc[p][h] = "lock"
  /\ dataMutex[p] = NoHost
  /\ dataMutex' = [dataMutex EXCEPT ![p] = h]
  /\ Goto(p, h, "auth")
  /\ UNCHANGED <<serverVars, failedHosts>>

\* Mutant of Return: an early return without unlocking.
ReturnKeepsMutex(p, h, l) == Goto(p, h, l) /\ UNCHANGED dataMutex

\* Return from authSecTypeItalc(), which unlocks the mutex.
Return(p, h, l) == Goto(p, h, l) /\ dataMutex' = [dataMutex EXCEPT ![p] = NoHost]

HostBased(p, h) ==
  /\ "HostBased" \in Methods
  /\ pc[p][h] = "auth"
  /\ Return(p, h, IF h \in allowedIPs[p] THEN "watch" ELSE "none")
  /\ UNCHANGED <<serverVars, failedHosts>>

\* errorMsgAuth(): the host is reported unless it was before, by the tray icon,
\* which may be there already, and the handshake has failed.
ErrorMsgAuth(p, h) ==
  /\ failedHosts' = [failedHosts EXCEPT ![p] = @ \cup {h}]
  /\ \/ h \in failedHosts[p] /\ Return(p, h, "none")
     \/ /\ h \notin failedHosts[p]
        /\ \E l \in {"create", "send"} : Goto(p, h, l)
        /\ UNCHANGED dataMutex

\* The secret does not convince, or the signature.
Fail(p, h) ==
  /\ Methods \ {"HostBased"} # {}
  /\ pc[p][h] = "auth"
  /\ ErrorMsgAuth(p, h)
  /\ UNCHANGED serverVars

\* The secret convinces, or the signature of one the user need not be asked about.
Convince(p, h) ==
  /\ Methods \ {"HostBased"} # {}
  /\ pc[p][h] = "auth"
  /\ Return(p, h, "watch")
  /\ UNCHANGED <<serverVars, failedHosts>>

\* The signature convinces and the user is asked.  The dialog is not created
\* while nobody is logged on: an earlier one may get the question.
AskUser(p, h) ==
  /\ "DSA" \in Methods
  /\ pc[p][h] = "auth"
  /\ \E l \in {"createDialog", "sendAsk"} : Goto(p, h, l)
  /\ UNCHANGED <<serverVars, dataMutex, failedHosts>>

\* createSlave(), sendMessage() and stopSlave() are executed by the main thread,
\* when it is back in its event loop.
Executed(p, h, call, l) ==
  /\ pc[p][h] = call
  /\ main[p] = "loop"
  /\ Goto(p, h, l)
  /\ UNCHANGED <<serverVars, dataMutex, failedHosts>>

CreateAccessDialog(p, h) == Executed(p, h, "createDialog", "sendAsk")
SendAsk(p, h) == Executed(p, h, "sendAsk", "wait")

\* The main thread handles ReportChoice.
Answer(p, h) == Executed(p, h, "wait", "answered")

\* The choice is returned: access, or the failure is reported.
ReturnChoice(p, h) ==
  /\ pc[p][h] = "answered"
  /\ \/ Return(p, h, "watch") /\ UNCHANGED failedHosts
     \/ ErrorMsgAuth(p, h)
  /\ UNCHANGED serverVars

\* No answer came in 30 seconds: the dialog is stopped and access refused.
Expire(p, h) ==
  /\ pc[p][h] = "wait"
  /\ Goto(p, h, "stopDialog")
  /\ UNCHANGED <<serverVars, dataMutex, failedHosts>>

StopAccessDialog(p, h) ==
  /\ pc[p][h] = "stopDialog"
  /\ main[p] = "loop"
  /\ ErrorMsgAuth(p, h)
  /\ UNCHANGED serverVars

CreateTrayIcon(p, h) == Executed(p, h, "create", "send")

ShowTrayMessage(p, h) ==
  /\ pc[p][h] = "send"
  /\ main[p] = "loop"
  /\ Return(p, h, "none")
  /\ UNCHANGED <<serverVars, failedHosts>>

\* The viewer leaves, or the event loop of its thread is told to exit.
Leave(p, h) ==
  /\ pc[p][h] = "watch"
  /\ Goto(p, h, "none")
  /\ UNCHANGED <<serverVars, dataMutex, failedHosts>>

----------------------------------------------------------------------------
Main(p) == \/ StartDemoServer(p) \/ SetAllowedIPs(p) \/ ReceiveQuit(p) \/ Close(p)
           \/ \E S \in SUBSET Hosts : CallSetAllowedIPs(p, S)

Authenticate(p, h) ==
  \/ HostBased(p, h) \/ Convince(p, h) \/ AskUser(p, h) \/ Fail(p, h)
  \/ CreateAccessDialog(p, h) \/ SendAsk(p, h) \/ ReturnChoice(p, h)
  \/ Expire(p, h) \/ StopAccessDialog(p, h)
  \/ CreateTrayIcon(p, h) \/ ShowTrayMessage(p, h)

ProcessNext ==
  \/ Start \/ Stop \/ Finished
  \/ \E h \in Hosts : AllowHost(h) \/ UnallowHost(h)
  \/ \E p \in Procs : \/ Kill(p) \/ Crash(p) \/ Main(p)
                      \/ \E h \in Hosts : \/ Connect(p, h) \/ Lock(p, h)
                                          \/ Authenticate(p, h) \/ Answer(p, h)
                                          \/ Leave(p, h)

ProcessSpec == ProcessInit /\ [][ProcessNext]_processVars

(* Threads run whenever they can: what a handshake reads from the viewer     *)
(* comes or its read expires after five seconds.  The user need not answer.  *)
(* A mutex is not fair, so a thread that waits for it gets it if it is free  *)
(* again and again.  Threads told to exit leave; the kill timer fires.       *)
ProcessFairness ==
  \A p \in Procs :
    /\ WF_processVars(StartDemoServer(p)) /\ WF_processVars(ReceiveQuit(p)) /\ WF_processVars(Close(p))
    /\ WF_processVars(\E S \in SUBSET Hosts : CallSetAllowedIPs(p, S))
    /\ SF_processVars(SetAllowedIPs(p))
    /\ WF_processVars(Kill(p))
    /\ \A h \in Hosts : /\ SF_processVars(Lock(p, h)) /\ WF_processVars(Authenticate(p, h))
                        /\ WF_processVars(main[p] = "closing" /\ Leave(p, h))

ProcessFairSpec == ProcessSpec /\ ProcessFairness

----------------------------------------------------------------------------
(* Properties.                                                              *)

IsList(m) == m.cmd = "UpdateAllowedHosts"
ListsUnderWay(p) ==
  {inbox[p][i].hosts : i \in {j \in 1..Len(inbox[p]) : IsList(inbox[p][j])}}
    \cup (IF main[p] = "setAllowedIPs" THEN {newList[p]} ELSE {})

\* Whom the server admits by address, the core service allows, or a list that
\* takes it back is under way: nothing allowed before a restart, or in a list
\* that came late, lets anybody in (DemoServerMaster.h:43-53, DemoServerSlave.cpp:104-128).
NoStaleAdmission ==
  [][\A p \in Procs, h \in Hosts :
       p = current /\ HostBased(p, h) /\ pc'[p][h] = "watch" =>
         h \in allowedHosts \/ \E S \in ListsUnderWay(p) : h \notin S]_processVars

\* Once the lists are handled the server has the one of the core service, if
\* it was ever told one (DemoServerMaster.cpp:68-73, DemoServerSlave.cpp:125).
ServerKnowsTheList ==
  \A p \in Procs : p = current /\ told /\ Alive(p) /\ ListsUnderWay(p) = {} =>
    allowedIPs[p] = allowedHosts

\* The main thread gets to replace the list whatever the viewers do, unless it
\* waits for a thread that waits for it, to ask the user or to report a failure,
\* or the process ends (DemoServerSlave.cpp:124-125, ItalcCoreServer.h:57-61).
UpdateWaitsForCallOnly ==
  \A p \in Procs : main[p] = "setAllowedIPs" ~>
    main[p] # "setAllowedIPs" \/ \E h \in Hosts : pc[p][h] \in Calls

\* "now we can use the list of IP addresses for host-based authentication"
\* (DemoServerSlave.cpp:124): the main thread gets to replace the list, unless
\* the process ends.
UpdateTakesEffect ==
  \A p \in Procs : main[p] = "setAllowedIPs" ~> main[p] # "setAllowedIPs"

\* A server that was stopped ends and frees the port, whatever its threads wait
\* for (QtSlaveLauncher.cpp:92-99).
StoppedServerEnds ==
  \A p \in Procs : p <= launched /\ p # current ~> main[p] = "gone" /\ port # p
=============================================================================
