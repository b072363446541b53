----------------------------- MODULE IpcMaster -----------------------------
(***************************************************************************)
(* Ipc::Master, its launchers and its slave processes (lib/src/Ipc).       *)
(*                                                                         *)
(* The master keeps one entry per slave id: the launcher of the process    *)
(* that serves the id, the socket registered for it, and the messages that *)
(* wait for a socket.  Every launch starts a new operating system process, *)
(* an incarnation, numbered here in the order of the createSlave() calls.  *)
(* An incarnation connects, is asked to identify itself, and is registered *)
(* under the id it answers with.                                           *)
(*                                                                         *)
(* All operations of the master run on its own thread (calls from other    *)
(* threads are BlockingQueuedConnection invocations), so each is one       *)
(* action; incarnations, their channels and the kill timers interleave.    *)
(***************************************************************************)
EXTENDS Naturals, Sequences

CONSTANTS Ids,       \* slave ids ("ScreenLock", "DemoClient", ...)
          NoId,      \* no id: a process not launched yet
          MaxProcs,  \* bound: createSlave() calls in a behaviour
          MaxMsgs    \* bound: sendMessage() calls in a behaviour

ASSUME IdAssumption == NoId \notin Ids
ASSUME BoundsAssumption == MaxProcs \in Nat /\ MaxMsgs \in Nat

Nobody == 0
Procs == 1..MaxProcs
Seqs == 1..MaxMsgs

VARIABLES
  \* ---- the master
  master,          \* "up", or "gone" once ~Master() ran
  slaveLauncher,   \* entry: the incarnation its launcher runs (Nobody: no entry)
  sock,            \* entry: the incarnation at the other end of its socket
  pendingMessages, \* entry: messages waiting for a socket
  \* ---- the incarnations
  created,         \* how many were launched
  slaveId,         \* incarnation: the id on its command line
  state,           \* incarnation: life cycle of the process
  process,         \* incarnation: QtSlaveLauncher::m_process and its kill timer
  conn,            \* incarnation: the master's end of its connection
  toSlave,         \* incarnation: bytes under way to it, in messages
  toMaster,        \* incarnation: bytes under way from it
  \* ---- history
  sent,            \* the n-th sendMessage(): its id, and the incarnation the entry held
  handled          \* incarnation: numbers of the messages it handled, in order

masterVars == <<master, slaveLauncher, sock, pendingMessages>>
procVars == <<created, slaveId, state, process>>
chanVars == <<conn, toSlave, toMaster>>
histVars == <<sent, handled>>
vars == <<masterVars, procVars, chanVars, histVars>>

States == {"unborn", "starting", "connected", "dead", "failed"}
Live == {"starting", "connected"}

Identify == [cmd |-> "Identify", n |-> 0]
Quit == [cmd |-> "Quit", n |-> 0]
Ping == [cmd |-> "Ping", n |-> 0]
Message(n) == [cmd |-> "Message", n |-> n]
Messages == {Message(n) : n \in Seqs}
ToSlaveMsgs == {Identify, Quit, Ping} \cup Messages

TypeOK ==
  /\ master \in {"up", "gone"}
  /\ slaveLauncher \in [Ids -> {Nobody} \cup Procs]
  /\ sock \in [Ids -> {Nobody} \cup Procs]
  /\ pendingMessages \in [Ids -> Seq(Messages)]
  /\ created \in {Nobody} \cup Procs
  /\ slaveId \in [Procs -> Ids \cup {NoId}]
  /\ state \in [Procs -> States]
  /\ process \in [Procs -> {"none", "running", "killTimer", "finished"}]
  /\ conn \in [Procs -> {"none", "backlog", "open", "closed"}]
  /\ toSlave \in [Procs -> Seq(ToSlaveMsgs)]
  /\ toMaster \in [Procs -> Seq({"Identify", "Ping", "Report"})]
  /\ sent \in Seq([id : Ids, slave : Procs])
  /\ Len(sent) <= MaxMsgs
  /\ handled \in [Procs -> Seq(Seqs)]

Init ==
  /\ master = "up"
  /\ slaveLauncher = [id \in Ids |-> Nobody]
  /\ sock = [id \in Ids |-> Nobody]
  /\ pendingMessages = [id \in Ids |-> <<>>]
  /\ created = 0
  /\ slaveId = [p \in Procs |-> NoId]
  /\ state = [p \in Procs |-> "unborn"]
  /\ process = [p \in Procs |-> "none"]
  /\ conn = [p \in Procs |-> "none"]
  /\ toSlave = [p \in Procs |-> <<>>]
  /\ toMaster = [p \in Procs |-> <<>>]
  /\ sent = <<>>
  /\ handled = [p \in Procs |-> <<>>]

----------------------------------------------------------------------------
(* Operations of the master.                                               *)

Contains(id) == slaveLauncher[id] # Nobody

\* m_process is a QPointer: NULL once finished() has deleted the QProcess.
LauncherRunning(p) == process[p] \in {"running", "killTimer"}

IsSlaveRunning(id) == Contains(id) /\ LauncherRunning(slaveLauncher[id])

\* stopSlave() for every id of S: Quit is sent when the slave runs (and lost
\* with the entry when there is no socket yet), the kill timer is armed, the
\* socket is deleted.  What it does to the entry itself is left to the caller.
StopSockets(S) ==
  /\ toSlave' = [p \in Procs |->
        IF \E id \in S : sock[id] = p /\ IsSlaveRunning(id)
        THEN Append(toSlave[p], Quit) ELSE toSlave[p]]
  /\ conn' = [p \in Procs |->
        IF \E id \in S : sock[id] = p THEN "closed" ELSE conn[p]]

\* Mutant of ArmKillTimers: stop() relies on Quit and the closed socket.
ArmNoKillTimers(S) == process

ArmKillTimers(S) ==
  [p \in Procs |-> IF \E id \in S : slaveLauncher[id] = p /\ IsSlaveRunning(id)
                   THEN "killTimer" ELSE process[p]]

\* Mutant of SetEntry: the messages queued for the predecessor stay.
SetEntryKeepsPending(id, p) ==
  /\ slaveLauncher' = [slaveLauncher EXCEPT ![id] = p]
  /\ sock' = [sock EXCEPT ![id] = Nobody]
  /\ UNCHANGED pendingMessages

\* What an entry holds after m_processes.remove( id ), or with launcher p fresh.
SetEntry(id, p) ==
  /\ slaveLauncher' = [slaveLauncher EXCEPT ![id] = p]
  /\ sock' = [sock EXCEPT ![id] = Nobody]
  /\ pendingMessages' = [pendingMessages EXCEPT ![id] = <<>>]

StopSlave(id) ==
  /\ master = "up"
  /\ Contains(id)
  /\ StopSockets({id})
  /\ process' = ArmKillTimers({id})
  /\ SetEntry(id, Nobody)
  /\ UNCHANGED <<master, created, slaveId, state, toMaster, histVars>>

\* createSlave(): stopSlave(id), then a fresh entry and a new process.
CreateSlave(id) ==
  /\ master = "up"
  /\ created < MaxProcs
  /\ StopSockets({id})
  /\ created' = created + 1
  /\ SetEntry(id, created + 1)
  /\ slaveId' = [slaveId EXCEPT ![created + 1] = id]
  /\ state' = [state EXCEPT ![created + 1] = "starting"]
  /\ process' = [ArmKillTimers({id}) EXCEPT ![created + 1] = "running"]
  /\ UNCHANGED <<master, toMaster, histVars>>

\* sendMessage() to an existing entry; to a missing one it only warns.
SendMessage(id) ==
  /\ master = "up"
  /\ Contains(id)
  /\ Len(sent) < MaxMsgs
  /\ sent' = Append(sent, [id |-> id, slave |-> slaveLauncher[id]])
  /\ LET m == Message(Len(sent) + 1) IN
     IF sock[id] # Nobody
     THEN /\ toSlave' = [toSlave EXCEPT ![sock[id]] = Append(@, m)]
          /\ UNCHANGED pendingMessages
     ELSE /\ pendingMessages' = [pendingMessages EXCEPT ![id] = Append(@, m)]
          /\ UNCHANGED toSlave
  /\ UNCHANGED <<master, slaveLauncher, sock, procVars, conn, toMaster, handled>>

\* ~Master(): stopSlave() for all ids; then the server deletes its sockets.
\* The kill timers die with the event loop (see KillTimerFires).
DestroyMaster ==
  /\ master = "up"
  /\ master' = "gone"
  /\ toSlave' = [p \in Procs |->
        IF \E id \in Ids : sock[id] = p /\ IsSlaveRunning(id)
        THEN Append(toSlave[p], Quit) ELSE toSlave[p]]
  /\ conn' = [p \in Procs |-> IF conn[p] = "none" THEN "none" ELSE "closed"]
  /\ process' = ArmKillTimers(Ids)
  /\ slaveLauncher' = [id \in Ids |-> Nobody]
  /\ sock' = [id \in Ids |-> Nobody]
  /\ pendingMessages' = [id \in Ids |-> <<>>]
  /\ UNCHANGED <<created, slaveId, state, toMaster, histVars>>

AcceptConnection(p) ==
  /\ master = "up"
  /\ conn[p] = "backlog"
  /\ conn' = [conn EXCEPT ![p] = "open"]
  /\ toSlave' = [toSlave EXCEPT ![p] = Append(@, Identify)]
  /\ UNCHANGED <<masterVars, procVars, toMaster, histVars>>

\* Mutants of SendPendingMessages: without clear(); without the loop.
SendPendingKeepsThem(s) ==
  /\ toSlave' = [p \in Procs |->
        IF slaveId[p] \in Ids /\ s[slaveId[p]] = p
        THEN toSlave[p] \o pendingMessages[slaveId[p]] ELSE toSlave[p]]
  /\ UNCHANGED pendingMessages
SendPendingNever(s) == UNCHANGED <<toSlave, pendingMessages>>

\* sendPendingMessages() with the sockets s: flush every entry that has one.
SendPendingMessages(s) ==
  /\ toSlave' = [p \in Procs |->
        IF slaveId[p] \in Ids /\ s[slaveId[p]] = p
        THEN toSlave[p] \o pendingMessages[slaveId[p]] ELSE toSlave[p]]
  /\ pendingMessages' = [id \in Ids |->
        IF s[id] # Nobody THEN <<>> ELSE pendingMessages[id]]

\* Mutants of Registrable: one of the two conditions dropped.
RegistrableIfFree(p) == sock[slaveId[p]] = Nobody
RegistrableIfContained(p) == Contains(slaveId[p])

Registrable(p) == Contains(slaveId[p]) /\ sock[slaveId[p]] = Nobody

ReceiveIdentify(p) ==
  /\ Head(toMaster[p]) = "Identify"
  /\ \/ /\ Registrable(p)
        /\ sock' = [sock EXCEPT ![slaveId[p]] = p]
        /\ SendPendingMessages([sock EXCEPT ![slaveId[p]] = p])
        /\ UNCHANGED conn
     \/ /\ ~Registrable(p)                       \* delete sock; break
        /\ conn' = [conn EXCEPT ![p] = "closed"]
        /\ UNCHANGED <<sock, pendingMessages, toSlave>>

\* Ping is echoed; any other message goes to handleMessage(), which the
\* subclass implements (ItalcSlaveManager) and which leaves this state alone.
ReceiveOther(p) ==
  /\ Head(toMaster[p]) # "Identify"
  /\ toSlave' = IF Head(toMaster[p]) = "Ping"
                THEN [toSlave EXCEPT ![p] = Append(@, Ping)] ELSE toSlave
  /\ UNCHANGED <<sock, pendingMessages, conn>>

\* receiveMessage() reads a socket whether or not its slave still lives.
ReceiveMessage(p) ==
  /\ master = "up"
  /\ conn[p] = "open"
  /\ toMaster[p] # <<>>
  /\ toMaster' = [toMaster EXCEPT ![p] = Tail(@)]
  /\ ReceiveIdentify(p) \/ ReceiveOther(p)
  /\ UNCHANGED <<master, slaveLauncher, procVars, histVars>>

\* QProcess::finished(): the launcher and its process object are deleted.
ProcessFinished(p) ==
  /\ master = "up"
  /\ state[p] = "dead"
  /\ LauncherRunning(p)
  /\ process' = [process EXCEPT ![p] = "finished"]
  /\ UNCHANGED <<masterVars, created, slaveId, state, chanVars, histVars>>

\* The 5 second timer of QtSlaveLauncher::stop() terminates and kills.
KillTimerFires(p) ==
  /\ master = "up"
  /\ process[p] = "killTimer"
  /\ state[p] \in Live
  /\ state' = [state EXCEPT ![p] = "dead"]
  /\ UNCHANGED <<masterVars, created, slaveId, process, chanVars, histVars>>

----------------------------------------------------------------------------
(* Steps of a slave process.                                               *)

\* QProcess::start() fails: finished() is never emitted.
StartFails(p) ==
  /\ state[p] = "starting"
  /\ state' = [state EXCEPT ![p] = "failed"]
  /\ UNCHANGED <<masterVars, created, slaveId, process, chanVars, histVars>>

\* The constructor of Slave connects; without a master error() quits it.
Connect(p) ==
  /\ state[p] = "starting"
  /\ IF master = "up"
     THEN /\ state' = [state EXCEPT ![p] = "connected"]
          /\ conn' = [conn EXCEPT ![p] = "backlog"]
     ELSE /\ state' = [state EXCEPT ![p] = "dead"]
          /\ UNCHANGED conn
  /\ UNCHANGED <<masterVars, created, slaveId, process, toSlave, toMaster, histVars>>

\* m_pingTimer; bound: one ping of a slave in flight.
MasterPing(p) ==
  /\ state[p] = "connected"
  /\ \A i \in 1..Len(toMaster[p]) : toMaster[p][i] # "Ping"
  /\ \A i \in 1..Len(toSlave[p]) : toSlave[p][i] # Ping
  /\ toMaster' = [toMaster EXCEPT ![p] = Append(@, "Ping")]
  /\ UNCHANGED <<masterVars, procVars, conn, toSlave, histVars>>

\* Slave::receiveMessage().  A command of the slave's own protocol may be
\* answered (AccessDialog reports a choice; UnknownCommand if not handled).
SlaveReceive(p) ==
  /\ state[p] = "connected"
  /\ toSlave[p] # <<>>
  /\ toSlave' = [toSlave EXCEPT ![p] = Tail(@)]
  /\ LET m == Head(toSlave[p]) IN
     \/ /\ m.cmd = "Quit"
        /\ state' = [state EXCEPT ![p] = "dead"]
        /\ UNCHANGED <<toMaster, handled>>
     \/ /\ m.cmd = "Identify"
        /\ toMaster' = [toMaster EXCEPT ![p] = Append(@, "Identify")]
        /\ UNCHANGED <<state, handled>>
     \/ /\ m.cmd = "Ping"
        /\ UNCHANGED <<state, toMaster, handled>>
     \/ /\ m.cmd = "Message"
        /\ handled' = [handled EXCEPT ![p] = Append(@, m.n)]
        /\ toMaster' \in {toMaster, [toMaster EXCEPT ![p] = Append(@, "Report")]}
        /\ UNCHANGED state
  /\ UNCHANGED <<masterVars, created, slaveId, process, conn, sent>>

\* The master closed the connection: error() is connected to quit().  What
\* was still under way may be lost.
SlaveError(p) ==
  /\ state[p] = "connected"
  /\ conn[p] = "closed"
  /\ state' = [state EXCEPT ![p] = "dead"]
  /\ UNCHANGED <<masterVars, created, slaveId, process, chanVars, histVars>>

\* The process ends by itself: it crashed, or its window was closed.
Exit(p) ==
  /\ state[p] \in Live
  /\ state' = [state EXCEPT ![p] = "dead"]
  /\ UNCHANGED <<masterVars, created, slaveId, process, chanVars, histVars>>

----------------------------------------------------------------------------
MasterNext ==
  \/ \E id \in Ids : CreateSlave(id) \/ StopSlave(id) \/ SendMessage(id)
  \/ \E p \in Procs : \/ AcceptConnection(p) \/ ReceiveMessage(p)
                      \/ ProcessFinished(p) \/ KillTimerFires(p)
  \/ DestroyMaster

SlaveNext(p) == \/ StartFails(p) \/ Connect(p) \/ MasterPing(p)
                \/ SlaveReceive(p) \/ SlaveError(p) \/ Exit(p)

Next == MasterNext \/ \E p \in Procs : SlaveNext(p)

Spec == Init /\ [][Next]_vars

(* The event loops of the master and of every slave keep running and timers *)
(* fire; nothing obliges a caller to create, stop or send, or a slave to    *)
(* crash.  Fairness of SlaveReceive also says that a handler returns (the   *)
(* user answers a dialog shown from one).                                   *)
Fairness == \A p \in Procs :
  /\ WF_vars(AcceptConnection(p)) /\ WF_vars(ReceiveMessage(p))
  /\ WF_vars(KillTimerFires(p)) /\ WF_vars(Connect(p))
  /\ WF_vars(SlaveReceive(p)) /\ WF_vars(SlaveError(p))

FairSpec == Spec /\ Fairness

----------------------------------------------------------------------------
(* Properties.                                                              *)

\* A socket is registered only in an entry that exists, for a process that was
\* launched for the entry's id, and it is the open end of that process'
\* connection: no stopSlave(), rejection or re-creation leaves a deleted socket
\* behind in m_processes (Master.cpp:120-157, 275-292).
SocketsOfKin ==
  \A id \in Ids : sock[id] # Nobody =>
    /\ Contains(id)
    /\ slaveId[sock[id]] = id
    /\ conn[sock[id]] = "open"

\* Messages wait in an entry only while it has no socket: what was queued before
\* the slave identified itself is flushed with the registration, so later
\* messages, which go to the socket directly, cannot overtake it
\* (Master.cpp:191-200, 304-324).
PendingWaitsForSocket ==
  \A id \in Ids : pendingMessages[id] # <<>> => Contains(id) /\ sock[id] = Nobody

\* A report the master can still read comes from the process registered for the
\* id it serves, so that handleMessage() never gets an empty or a wrong slave id
\* (Master.cpp:247-256, 296); an unregistered process has nothing to report.
ReportsAttributable ==
  \A p \in Procs :
    (conn[p] = "open" /\ \E i \in 1..Len(toMaster[p]) : toMaster[p][i] = "Report")
      => sock[slaveId[p]] = p

\* The master as seen by the users of sendMessage(): see SlaveMessaging.
Messaging == INSTANCE SlaveMessaging

\* Every step of the master and of its slaves is a step of the promise, or is
\* invisible to it: at most once, in order, to a process of the right id, never
\* to a successor of the addressee (Master.cpp:86-207, Slave.cpp:58-107).
MessagingSpec == Messaging!Spec

\* A process that no entry refers to any more comes to its end, by Quit, by its
\* closed connection, or by the kill timer, whatever it was doing when it was
\* stopped, and even when the master goes away ("close socket so that client
\* quits even if quit message isn't processed", Master.cpp:138).
Orphan(p) == state[p] \in Live /\ \A id \in Ids : slaveLauncher[id] # p
OrphansDie == \A p \in Procs : Orphan(p) ~> state[p] \notin Live

\* A message is handled, by whichever process, or the process it was sent to
\* ends: no message stays in pendingMessages or in a channel for ever while its
\* addressee lives (Master.cpp:191-200, 275-286).
Handled(n) == \E p \in Procs : \E i \in 1..Len(handled[p]) : handled[p][i] = n
SentIsHandledOrSlaveEnds ==
  \A n \in Seqs : n <= Len(sent) ~>
    Handled(n) \/ (n <= Len(sent) /\ state[sent[n].slave] \notin Live)
============================================================================
