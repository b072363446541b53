--------------------------- MODULE SlaveMessaging ---------------------------
(***************************************************************************)
(* What Ipc::Master promises its users about sendMessage(): a message is   *)
(* handled at most once, in the order of the calls, by a process launched  *)
(* for the id it was sent to, and never by one launched after the process  *)
(* the entry held when it was sent.  Messages may be lost: their slave may *)
(* be stopped, or die.  There are no sockets, queues or launchers here.    *)
(***************************************************************************)
EXTENDS Naturals, Sequences

CONSTANTS Ids, NoId, MaxProcs

VARIABLES slaveId,   \* incarnation: the id it serves
          sent,      \* the n-th message: its id, and the newest incarnation of it
          handled    \* incarnation: numbers of the messages it handled

vars == <<slaveId, sent, handled>>

Procs == 1..MaxProcs

Init == /\ slaveId = [p \in Procs |-> NoId]
        /\ sent = <<>>
        /\ handled = [p \in Procs |-> <<>>]

\* A process is launched for an id.
Launch(p, id) ==
  /\ slaveId[p] = NoId
  /\ slaveId' = [slaveId EXCEPT ![p] = id]
  /\ UNCHANGED <<sent, handled>>

\* A message is sent to the process p launched for an id.
Send(p) ==
  /\ slaveId[p] \in Ids
  /\ sent' = Append(sent, [id |-> slaveId[p], slave |-> p])
  /\ UNCHANGED <<slaveId, handled>>

\* The process p may handle the n-th message.
MayHandle(p, n) ==
  /\ sent[n].id = slaveId[p]
  /\ p <= sent[n].slave
  /\ \A i \in 1..Len(handled[p]) : handled[p][i] < n
  /\ \A q \in Procs : \A i \in 1..Len(handled[q]) : handled[q][i] # n

Handle(p, n) ==
  /\ MayHandle(p, n)
  /\ handled' = [handled EXCEPT ![p] = Append(@, n)]
  /\ UNCHANGED <<slaveId, sent>>

Next == \E p \in Procs : \/ \E id \in Ids : Launch(p, id)
                         \/ Send(p)
                         \/ \E n \in 1..Len(sent) : Handle(p, n)

Spec == Init /\ [][Next]_vars
=============================================================================
