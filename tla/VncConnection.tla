---------------------------- MODULE VncConnection ---------------------------
(***************************************************************************)
(* ItalcVncConnection (lib/src/ItalcVncConnection.cpp): a thread that      *)
(* connects to a host, and again whenever the connection is lost, until it *)
(* is told to stop; its owner, in the main thread, tells it to and queues  *)
(* events (commands, keys) that the thread sends between two updates.      *)
(*                                                                         *)
(* stop() does not wait.  A timer terminates the thread ten seconds later, *)
(* unless it has finished.  A thread is terminated where it waits for the  *)
(* network, never while it holds m_mutex.                                  *)
(*                                                                         *)
(* The network is a set of hosts that answer and let us in.  What is sent  *)
(* into a connection whose host has gone is lost.                          *)
(***************************************************************************)
EXTENDS Naturals, Sequences

CONSTANTS
  Hosts,
  NoHost,     \* no session
  Commands,   \* what events say
  Timeout,    \* ThreadTerminationTimeout
  MaxEvents,  \* bound: events accepted
  MaxCalls    \* bound: calls of start(), stop() and reset()

ASSUME NoHostAssumption == NoHost \notin Hosts
ASSUME TimeoutAssumption == Timeout \in Nat \ {0}
ASSUME BoundsAssumption == MaxEvents \in Nat /\ MaxCalls \in Nat

VARIABLES
  host,        \* m_host
  pc,          \* where the thread is
  state,       \* m_state
  interrupted, \* QThread's request of an interruption
  terminateIn, \* m_terminateTimer: ticks left, or Off
  eventQueue,  \* m_eventQueue
  inHand,      \* the event being fired, or <<>>
  target,      \* the host m_cl connects to
  session,     \* the host m_cl is connected to, or NoHost
  up,          \* the hosts that answer
  accepted,    \* events queued so far
  fired,       \* history: number of the last event that was fired
  calls        \* calls so far

threadVars == <<pc, state, terminateIn, inHand, target, session>>
vars == <<threadVars, host, interrupted, eventQueue, up, accepted, fired, calls>>

Off == Timeout + 1
States == {"Disconnected", "Connecting", "Failed", "Connected"}
Events == [n : 1..MaxEvents, cmd : Commands, host : Hosts]

TypeOK ==
  /\ host \in Hosts
  /\ pc \in {"stopped", "run", "attempt", "init", "sleep", "loop", "drain", "fire", "end"}
  /\ state \in States
  /\ interrupted \in BOOLEAN
  /\ terminateIn \in 0..Off
  /\ eventQueue \in Seq(Events)
  /\ inHand \in Seq(Events)
  /\ target \in Hosts /\ session \in Hosts \cup {NoHost}
  /\ up \subseteq Hosts
  /\ accepted \in 0..MaxEvents /\ fired \in 0..MaxEvents
  /\ calls \in 0..MaxCalls

Init ==
  /\ host \in Hosts /\ target = host
  /\ pc = "stopped" /\ state = "Disconnected"
  /\ interrupted = FALSE /\ terminateIn = Off
  /\ eventQueue = <<>> /\ inHand = <<>>
  /\ session = NoHost
  /\ up \in SUBSET Hosts
  /\ accepted = 0 /\ fired = 0 /\ calls = 0

Running == pc # "stopped"

----------------------------------------------------------------------------
(* The thread.                                                              *)

ownerVars == <<host, interrupted, up, accepted, calls>>

\* The end of run(), which stops the timer.
RunEnds ==
  /\ pc' = "stopped" /\ state' = "Disconnected"
  /\ terminateIn' = Off

\* run() and the beginning of doConnection().
Run ==
  /\ pc = "run"
  /\ IF interrupted THEN RunEnds
     ELSE pc' = "attempt" /\ state' = "Connecting" /\ UNCHANGED terminateIn
  /\ UNCHANGED <<ownerVars, eventQueue, inHand, target, session, fired>>

\* Try to connect, to the host known now.
Attempt ==
  /\ pc = "attempt"
  /\ IF interrupted THEN pc' = "end" /\ UNCHANGED target
                    ELSE pc' = "init" /\ target' = host
  /\ UNCHANGED <<ownerVars, state, terminateIn, eventQueue, inHand, session, fired>>

\* rfbInitClient() returns.
InitOk ==
  /\ pc = "init" /\ target \in up
  /\ pc' = "loop" /\ state' = "Connected" /\ session' = target
  /\ UNCHANGED <<ownerVars, terminateIn, eventQueue, inHand, target, fired>>

InitFails ==
  /\ pc = "init" /\ target \notin up
  /\ state' = "Failed"
  /\ pc' = IF interrupted THEN "end" ELSE "sleep"
  /\ UNCHANGED <<ownerVars, terminateIn, eventQueue, inHand, target, session, fired>>

Sleep ==
  /\ pc = "sleep"
  /\ pc' = "attempt"
  /\ UNCHANGED <<ownerVars, state, terminateIn, eventQueue, inHand, target, session, fired>>

\* The top of the main loop, up to the events: updates are received.
Loop ==
  /\ pc = "loop"
  /\ pc' = IF interrupted \/ session = NoHost THEN "end" ELSE "drain"
  /\ UNCHANGED <<ownerVars, state, terminateIn, eventQueue, inHand, target, session, fired>>

Dequeue ==
  /\ pc = "drain" /\ eventQueue # <<>>
  /\ inHand' = <<Head(eventQueue)>>
  /\ eventQueue' = Tail(eventQueue)
  /\ pc' = "fire"
  /\ UNCHANGED <<ownerVars, state, terminateIn, target, session, fired>>

Fire ==
  /\ pc = "fire"
  /\ fired' = inHand[1].n
  /\ inHand' = <<>>
  /\ pc' = "drain"
  /\ UNCHANGED <<ownerVars, state, terminateIn, eventQueue, target, session>>

Drained ==
  /\ pc = "drain" /\ eventQueue = <<>>
  /\ pc' = "loop"
  /\ UNCHANGED <<ownerVars, state, terminateIn, eventQueue, inHand, target, session, fired>>

\* The end of doConnection().
End ==
  /\ pc = "end"
  /\ pc' = "run" /\ state' = "Disconnected" /\ session' = NoHost
  /\ UNCHANGED <<ownerVars, terminateIn, eventQueue, inHand, target, fired>>

\* The timer fires: the thread ends where it is, and m_state says what it said.
Terminate ==
  /\ terminateIn = 0
  /\ pc \in {"init", "loop", "fire"}
  /\ pc' = "stopped" /\ session' = NoHost /\ inHand' = <<>>
  /\ terminateIn' = Off
  /\ UNCHANGED <<ownerVars, state, eventQueue, target, fired>>

----------------------------------------------------------------------------
(* What the owner calls.                                                    *)

\* Mutant of RequestInterruption: no timer is started.
RequestInterruptionOnly ==
  interrupted' = (Running \/ interrupted) /\ UNCHANGED terminateIn

\* stop(), which does nothing when the thread does not run.
RequestInterruption ==
  IF Running THEN interrupted' = TRUE /\ terminateIn' = Timeout
             ELSE UNCHANGED <<interrupted, terminateIn>>

queueVars == <<eventQueue, inHand, target, session, up, accepted, fired>>

\* QThread::start(), which does nothing when the thread runs.
Start ==
  /\ IF Running THEN UNCHANGED <<pc, interrupted>>
                ELSE pc' = "run" /\ interrupted' = FALSE
  /\ UNCHANGED <<host, state, terminateIn, queueVars>>

Stop ==
  /\ RequestInterruption
  /\ UNCHANGED <<host, pc, state, queueVars>>

\* reset(): only the host is changed, or stop(), setHost() and start().
Reset(h) ==
  /\ host' = h
  /\ IF Running
     THEN /\ IF state = "Connected" THEN RequestInterruption
                                    ELSE UNCHANGED <<interrupted, terminateIn>>
          /\ UNCHANGED pc
     ELSE pc' = "run" /\ interrupted' = FALSE /\ UNCHANGED terminateIn
  /\ UNCHANGED <<state, queueVars>>

\* Mutant of Enqueue: the newest event comes first.
EnqueueFirst(cs) ==
  eventQueue' = [i \in 1..Len(cs) |-> [n |-> accepted + i, cmd |-> cs[i], host |-> host]]
                  \o eventQueue

Enqueue(cs) ==
  eventQueue' = eventQueue \o
    [i \in 1..Len(cs) |-> [n |-> accepted + i, cmd |-> cs[i], host |-> host]]

\* enqueueEvent(), for each of cs; dropped unless we are connected.
EnqueueEvents(cs) ==
  IF state = "Connected"
  THEN /\ accepted + Len(cs) <= MaxEvents
       /\ Enqueue(cs)
       /\ accepted' = accepted + Len(cs)
  ELSE UNCHANGED <<eventQueue, accepted>>

----------------------------------------------------------------------------
(* Time and the network.                                                    *)

\* The timer is due before time goes on.
Countdown ==
  /\ terminateIn # 0
  /\ terminateIn' = IF terminateIn = Off THEN Off ELSE terminateIn - 1

Tick ==
  /\ terminateIn # Off /\ Countdown
  /\ UNCHANGED <<host, pc, state, interrupted, calls, queueVars>>

HostDown(h) ==
  /\ h \in up
  /\ up' = up \ {h}
  /\ session' = IF session = h THEN NoHost ELSE session
  /\ UNCHANGED <<host, pc, state, interrupted, terminateIn, eventQueue, inHand,
                 target, accepted, fired, calls>>

HostUp(h) ==
  /\ h \notin up
  /\ up' = up \cup {h}
  /\ UNCHANGED <<host, pc, state, interrupted, terminateIn, eventQueue, inHand,
                 target, session, accepted, fired, calls>>

----------------------------------------------------------------------------
Thread == Run \/ Attempt \/ Sleep \/ Loop \/ Dequeue \/ Drained \/ End
Network == InitOk \/ InitFails \/ Fire

Call ==
  \/ calls < MaxCalls /\ calls' = calls + 1 /\ (Start \/ Stop \/ \E h \in Hosts : Reset(h))
  \/ /\ \E c \in Commands : EnqueueEvents(<<c>>)
     /\ UNCHANGED <<threadVars, host, interrupted, up, fired, calls>>

Next == \/ Thread \/ Network \/ Terminate \/ Call \/ Tick
        \/ \E h \in Hosts : HostDown(h) \/ HostUp(h)

Spec == Init /\ [][Next]_vars

(* The thread runs and timers fire; the network may keep it for ever.        *)
FairSpec == Spec /\ WF_vars(Thread) /\ WF_vars(Terminate) /\ WF_vars(Tick)

----------------------------------------------------------------------------
(* Properties.                                                              *)

\* Events are fired in the order in which they were accepted, none twice, over
\* all connections and whatever was stopped, lost or terminated in between
\* (ItalcVncConnection.cpp:666-685, 729-738).
FiredInOrder ==
  LET waiting == inHand \o eventQueue IN
    \A i \in 1..Len(waiting) :
      waiting[i].n > (IF i = 1 THEN fired ELSE waiting[i - 1].n)

\* "terminate thread in background after timeout" (ItalcVncConnection.cpp:391):
\* a thread told to stop ends, although the network may keep it for ever, once
\* it is told no more.
StopEnds == interrupted ~> ~Running \/ ~interrupted
=============================================================================
