--------------------------- MODULE IpcMasterProofs ---------------------------
(* Theorems about IpcMaster for every set of ids and every bound.            *)
EXTENDS IpcMaster, TLAPS

(* The kinds of message the master sends, and what a Message carries. *)
LEMMA MessageKinds ==
  /\ {Identify, Quit, Ping} \subseteq ToSlaveMsgs
  /\ Messages \subseteq ToSlaveMsgs
  /\ \A n \in Seqs : Message(n) \in Messages
  /\ \A m \in ToSlaveMsgs : m.cmd = "Message" => m.n \in Seqs /\ m = Message(m.n)
BY DEF Messages, Message, ToSlaveMsgs, Identify, Quit, Ping

(* There is room for the incarnation that is launched next. *)
LEMMA NextIsProc ==
  ASSUME created \in {Nobody} \cup Procs, created < MaxProcs
  PROVE  created + 1 \in Procs /\ created + 1 > created /\ created + 1 # Nobody
BY BoundsAssumption DEF Procs, Nobody

(* The type invariant (lib/src/Ipc/Master.cpp, Slave.cpp), one step per action. *)
THEOREM TypeCorrect == Spec => []TypeOK
<1> USE IdAssumption, BoundsAssumption, MessageKinds DEF Nobody, Procs, States, Live
<1>1. Init => TypeOK
  BY DEF Init, TypeOK
<1>2. TypeOK /\ [Next]_vars => TypeOK'
  <2> SUFFICES ASSUME TypeOK, [Next]_vars PROVE TypeOK'
    OBVIOUS
  <2> USE DEF TypeOK
  <2>1. ASSUME NEW id \in Ids, CreateSlave(id) PROVE TypeOK'
    <3>1. created + 1 \in Procs /\ created' = created + 1
      BY <2>1 DEF CreateSlave
    <3>2. toSlave' \in [Procs -> Seq(ToSlaveMsgs)]
      BY <2>1 DEF CreateSlave, StopSockets
    <3>3. conn' \in [Procs -> {"none", "backlog", "open", "closed"}]
      BY <2>1 DEF CreateSlave, StopSockets
    <3>4. process' \in [Procs -> {"none", "running", "killTimer", "finished"}]
      <4>1. ArmKillTimers({id}) \in [Procs -> {"none", "running", "killTimer", "finished"}]
        BY DEF ArmKillTimers
      <4> QED BY <2>1, <4>1 DEF CreateSlave
    <3>5. /\ slaveLauncher' \in [Ids -> {Nobody} \cup Procs]
          /\ sock' \in [Ids -> {Nobody} \cup Procs]
          /\ pendingMessages' \in [Ids -> Seq(Messages)]
      BY <2>1, <3>1 DEF CreateSlave, SetEntry
    <3>6. slaveId' \in [Procs -> Ids \cup {NoId}] /\ state' \in [Procs -> States]
      BY <2>1, <3>1 DEF CreateSlave
    <3> QED BY <2>1, <3>1, <3>2, <3>3, <3>4, <3>5, <3>6 DEF CreateSlave, histVars
  <2>2. ASSUME NEW id \in Ids, StopSlave(id) PROVE TypeOK'
    BY <2>2 DEF StopSlave, StopSockets, ArmKillTimers, SetEntry, histVars
  <2>3. ASSUME NEW id \in Ids, SendMessage(id) PROVE TypeOK'
    <3>1. Len(sent) + 1 \in Seqs
      BY <2>3 DEF SendMessage, Seqs
    <3>2. Message(Len(sent) + 1) \in Messages
      BY <3>1
    <3>3. slaveLauncher[id] \in Procs
      BY <2>3 DEF SendMessage, Contains
    <3>4. [id |-> id, slave |-> slaveLauncher[id]] \in [id : Ids, slave : Procs]
      BY <3>3
    <3>5. sent' \in Seq([id : Ids, slave : Procs]) /\ Len(sent') <= MaxMsgs
      BY <2>3, <3>4 DEF SendMessage
    <3>6. CASE sock[id] # Nobody
      <4>1. sock[id] \in Procs /\ Message(Len(sent) + 1) \in ToSlaveMsgs
        BY <3>2, <3>6
      <4>2. Append(toSlave[sock[id]], Message(Len(sent) + 1)) \in Seq(ToSlaveMsgs)
        BY <4>1
      <4>3. /\ toSlave' = [toSlave EXCEPT ![sock[id]] =
                             Append(toSlave[sock[id]], Message(Len(sent) + 1))]
            /\ UNCHANGED pendingMessages
        BY <2>3, <3>6 DEF SendMessage
      <4>4. toSlave' \in [Procs -> Seq(ToSlaveMsgs)]
        BY <4>1, <4>2, <4>3
      <4> QED BY <2>3, <3>5, <4>3, <4>4 DEF SendMessage, procVars
    <3>7. CASE sock[id] = Nobody
      <4>1. Append(pendingMessages[id], Message(Len(sent) + 1)) \in Seq(Messages)
        BY <3>2
      <4>2. pendingMessages' \in [Ids -> Seq(Messages)] /\ UNCHANGED toSlave
        BY <2>3, <3>7, <4>1 DEF SendMessage
      <4> QED BY <2>3, <3>5, <4>2 DEF SendMessage, procVars
    <3> QED BY <3>6, <3>7
  <2>4. ASSUME NEW p \in Procs, AcceptConnection(p) PROVE TypeOK'
    <3>1. Append(toSlave[p], Identify) \in Seq(ToSlaveMsgs)
      OBVIOUS
    <3>2. toSlave' \in [Procs -> Seq(ToSlaveMsgs)]
      BY <2>4, <3>1 DEF AcceptConnection
    <3> QED BY <2>4, <3>2 DEF AcceptConnection, masterVars, procVars, histVars
  <2>5. ASSUME NEW p \in Procs, ReceiveMessage(p) PROVE TypeOK'
    <3>1. toMaster' \in [Procs -> Seq({"Identify", "Ping", "Report"})]
      <4>1. Tail(toMaster[p]) \in Seq({"Identify", "Ping", "Report"})
        BY <2>5 DEF ReceiveMessage
      <4> QED BY <2>5, <4>1 DEF ReceiveMessage
    <3>2. ASSUME ReceiveIdentify(p), Registrable(p) PROVE TypeOK'
      <4>1. \A id \in Ids : pendingMessages[id] \in Seq(ToSlaveMsgs)
        OBVIOUS
      <4>2. \A q \in Procs, id \in Ids :
              toSlave[q] \o pendingMessages[id] \in Seq(ToSlaveMsgs)
        BY <4>1
      <4> DEFINE s == [sock EXCEPT ![slaveId[p]] = p]
      <4>3. sock' = s /\ SendPendingMessages(s) /\ UNCHANGED conn
        BY <3>2 DEF ReceiveIdentify
      <4>4. sock' \in [Ids -> {Nobody} \cup Procs]
        BY <4>3
      <4> HIDE DEF s
      <4>5. toSlave' \in [Procs -> Seq(ToSlaveMsgs)]
        BY <4>2, <4>3 DEF SendPendingMessages
      <4>6. pendingMessages' \in [Ids -> Seq(Messages)]
        BY <4>3 DEF SendPendingMessages
      <4> QED BY <2>5, <3>1, <4>3, <4>4, <4>5, <4>6 DEF ReceiveMessage, procVars, histVars
    <3>3. ASSUME ReceiveIdentify(p), ~Registrable(p) PROVE TypeOK'
      <4>1. /\ conn' \in [Procs -> {"none", "backlog", "open", "closed"}]
            /\ UNCHANGED <<sock, pendingMessages, toSlave>>
        BY <3>3 DEF ReceiveIdentify
      <4> QED BY <2>5, <3>1, <4>1 DEF ReceiveMessage, procVars, histVars
    <3>4. ASSUME ReceiveOther(p) PROVE TypeOK'
      <4>1. Append(toSlave[p], Ping) \in Seq(ToSlaveMsgs)
        OBVIOUS
      <4>2. toSlave' \in [Procs -> Seq(ToSlaveMsgs)]
        BY <3>4, <4>1 DEF ReceiveOther
      <4> QED BY <2>5, <3>1, <3>4, <4>2
              DEF ReceiveMessage, ReceiveOther, procVars, histVars
    <3> QED BY <2>5, <3>2, <3>3, <3>4 DEF ReceiveMessage
  <2>6. ASSUME NEW p \in Procs, ProcessFinished(p) \/ KillTimerFires(p) PROVE TypeOK'
    BY <2>6 DEF ProcessFinished, KillTimerFires, masterVars, chanVars, histVars
  <2>7. ASSUME DestroyMaster PROVE TypeOK'
    BY <2>7 DEF DestroyMaster, ArmKillTimers, histVars
  <2>8. ASSUME NEW p \in Procs, StartFails(p) \/ Connect(p) PROVE TypeOK'
    BY <2>8 DEF StartFails, Connect, masterVars, chanVars, histVars
  <2>9. ASSUME NEW p \in Procs, MasterPing(p) PROVE TypeOK'
    <3>1. Append(toMaster[p], "Ping") \in Seq({"Identify", "Ping", "Report"})
      OBVIOUS
    <3>2. toMaster' \in [Procs -> Seq({"Identify", "Ping", "Report"})]
      BY <2>9, <3>1 DEF MasterPing
    <3> QED BY <2>9, <3>2 DEF MasterPing, masterVars, procVars, histVars
  <2>12. ASSUME NEW p \in Procs, SlaveReceive(p) PROVE TypeOK'
    <3> DEFINE m == Head(toSlave[p])
    <3>1. m \in ToSlaveMsgs /\ Tail(toSlave[p]) \in Seq(ToSlaveMsgs)
      BY <2>12 DEF SlaveReceive
    <3>2. toSlave' \in [Procs -> Seq(ToSlaveMsgs)]
      BY <2>12, <3>1 DEF SlaveReceive
    <3>3. \A r \in {"Identify", "Report"} :
            Append(toMaster[p], r) \in Seq({"Identify", "Ping", "Report"})
      OBVIOUS
    <3>4. toMaster' \in [Procs -> Seq({"Identify", "Ping", "Report"})]
      BY <2>12, <3>3 DEF SlaveReceive
    <3>5. m.cmd = "Message" => Append(handled[p], m.n) \in Seq(Seqs)
      BY <3>1
    <3>6. handled' \in [Procs -> Seq(Seqs)]
      BY <2>12, <3>5 DEF SlaveReceive
    <3>7. state' \in [Procs -> States]
      <4>1. state' = state \/ state' = [state EXCEPT ![p] = "dead"]
        BY <2>12 DEF SlaveReceive
      <4> QED BY <4>1
    <3> QED BY <2>12, <3>2, <3>4, <3>6, <3>7 DEF SlaveReceive, masterVars
  <2>10. ASSUME NEW p \in Procs, SlaveError(p) \/ Exit(p) PROVE TypeOK'
    BY <2>10 DEF SlaveError, Exit, masterVars, chanVars, histVars
  <2>11. CASE UNCHANGED vars
    BY <2>11 DEF vars, masterVars, procVars, chanVars, histVars
  <2> QED
    BY <2>1, <2>2, <2>3, <2>4, <2>5, <2>6, <2>7, <2>8, <2>9,
       <2>10, <2>11, <2>12
    DEF Next, MasterNext, SlaveNext
<1>3. QED
  BY <1>1, <1>2, PTL DEF Spec

------------------------------------------------------------------------------
(* Where a message is.  n is carried by a queue s of messages, was handled by *)
(* p, or belongs to p: handled by it or under way to it.                      *)

Carries(s, n) == \E i \in 1..Len(s) : s[i].cmd = "Message" /\ s[i].n = n
HandledBy(p, n) == \E i \in 1..Len(handled[p]) : handled[p][i] = n
Owns(p, n) == HandledBy(p, n) \/ Carries(toSlave[p], n)

Sorted(s) == \A i, j \in 1..Len(s) :
  i < j /\ s[i].cmd = "Message" /\ s[j].cmd = "Message" => s[i].n < s[j].n

(* The inductive invariant behind MessagingSpec.                              *)

\* Numbers of incarnations grow: an entry holds the newest of its id.
Launches ==
  /\ \A p \in Procs : p > created =>
        slaveId[p] = NoId /\ state[p] = "unborn" /\ conn[p] = "none"
  /\ \A p \in Procs : state[p] \in {"unborn", "starting"} => conn[p] = "none"
  /\ \A p \in Procs : p <= created => slaveId[p] \in Ids
  /\ \A id \in Ids : Contains(id) => slaveId[slaveLauncher[id]] = id
  /\ \A id \in Ids, p \in Procs : Contains(id) /\ slaveId[p] = id => p <= slaveLauncher[id]

\* A process whose open connection is not registered has got no message yet.
Fresh == \A p \in Procs :
  conn[p] # "closed" /\ (\A id \in Ids : sock[id] # p) => \A n \in Seqs : ~Owns(p, n)

\* A message is only ever with the right processes.
Addressed ==
  /\ \A p \in Procs, n \in Seqs : Owns(p, n) =>
        n <= Len(sent) /\ sent[n].id = slaveId[p] /\ p <= sent[n].slave
  /\ \A id \in Ids, n \in Seqs : Carries(pendingMessages[id], n) =>
        n <= Len(sent) /\ sent[n] = [id |-> id, slave |-> slaveLauncher[id]]

Ordered ==
  /\ \A p \in Procs : \A m, n \in Seqs :
        HandledBy(p, m) /\ Carries(toSlave[p], n) => m < n
  /\ \A p \in Procs : Sorted(toSlave[p])
  /\ \A id \in Ids : Sorted(pendingMessages[id])

\* A message is in one place.
Unique ==
  /\ \A p, q \in Procs, n \in Seqs : Owns(p, n) /\ Owns(q, n) => p = q
  /\ \A p \in Procs, id \in Ids, n \in Seqs :
        ~(Owns(p, n) /\ Carries(pendingMessages[id], n))

Delivery == Launches /\ SocketsOfKin /\ PendingWaitsForSocket
            /\ Fresh /\ Addressed /\ Ordered /\ Unique

------------------------------------------------------------------------------
(* Lemmas about queues.                                                       *)

LEMMA CarriesAppend ==
  ASSUME NEW S, NEW s \in Seq(S), NEW m \in S, NEW n
  PROVE  Carries(Append(s, m), n) <=> Carries(s, n) \/ (m.cmd = "Message" /\ m.n = n)
<1>1. \A i \in 1..Len(s) : Append(s, m)[i] = s[i]
  OBVIOUS
<1>2. Append(s, m)[Len(s) + 1] = m /\ Len(Append(s, m)) = Len(s) + 1
  OBVIOUS
<1>3. \A i \in 1..(Len(s) + 1) : i \in 1..Len(s) \/ i = Len(s) + 1
  OBVIOUS
<1>4. Len(s) + 1 \in 1..(Len(s) + 1) /\ 1..Len(s) \subseteq 1..(Len(s) + 1)
  OBVIOUS
<1> HIDE DEF Carries
<1> QED BY <1>1, <1>2, <1>3, <1>4 DEF Carries

\* A queue without its head carries no other messages, all newer than the head.
LEMMA CarriesTail ==
  ASSUME NEW S, NEW s \in Seq(S), s # <<>>, NEW n
  PROVE  /\ Carries(Tail(s), n) => Carries(s, n)
         /\ Head(s).cmd = "Message" => Carries(s, Head(s).n)
         /\ Sorted(s) => Sorted(Tail(s))
         /\ Sorted(s) /\ Head(s).cmd = "Message" /\ Carries(Tail(s), n) => Head(s).n < n
<1>1. /\ Len(s) \in Nat \ {0} /\ Len(Tail(s)) = Len(s) - 1 /\ Head(s) = s[1]
      /\ \A i \in 1..(Len(s) - 1) : Tail(s)[i] = s[i + 1]
      /\ \A i \in 1..(Len(s) - 1) : i + 1 \in 1..Len(s) /\ 1 < i + 1
      /\ 1 \in 1..Len(s)
  OBVIOUS
<1>2. Sorted(s) => Sorted(Tail(s))
  BY <1>1 DEF Sorted
<1> QED BY <1>1, <1>2 DEF Carries, Sorted

\* Two queues in a row carry what each of them carries.
LEMMA CarriesConcat ==
  ASSUME NEW S, NEW s \in Seq(S), NEW t \in Seq(S), NEW n
  PROVE  Carries(s \o t, n) <=> Carries(s, n) \/ Carries(t, n)
<1>1. /\ Len(s \o t) = Len(s) + Len(t) /\ Len(s) \in Nat /\ Len(t) \in Nat
      /\ \A i \in 1..Len(s) : (s \o t)[i] = s[i]
      /\ \A i \in 1..Len(t) : (s \o t)[Len(s) + i] = t[i]
  OBVIOUS
<1>2. ASSUME Carries(s \o t, n) PROVE Carries(s, n) \/ Carries(t, n)
  <2>1. PICK i \in 1..(Len(s) + Len(t)) :
          (s \o t)[i].cmd = "Message" /\ (s \o t)[i].n = n
    BY <1>1, <1>2 DEF Carries
  <2>2. CASE i \in 1..Len(s)
    BY <1>1, <2>1, <2>2 DEF Carries
  <2>3. CASE i \notin 1..Len(s)
    <3>1. i - Len(s) \in 1..Len(t) /\ i = Len(s) + (i - Len(s))
      BY <1>1, <2>3
    <3>2. (s \o t)[i] = t[i - Len(s)]
      BY <1>1, <3>1
    <3> QED BY <2>1, <3>1, <3>2 DEF Carries
  <2> QED BY <2>2, <2>3
<1>3. ASSUME Carries(s, n) PROVE Carries(s \o t, n)
  BY <1>1, <1>3 DEF Carries
<1>4. ASSUME Carries(t, n) PROVE Carries(s \o t, n)
  <2>1. PICK i \in 1..Len(t) : t[i].cmd = "Message" /\ t[i].n = n
    BY <1>4 DEF Carries
  <2>2. Len(s) + i \in 1..(Len(s) + Len(t)) /\ (s \o t)[Len(s) + i] = t[i]
    BY <1>1, <2>1
  <2> QED BY <1>1, <2>1, <2>2 DEF Carries
<1> QED BY <1>2, <1>3, <1>4

\* A message newer than all in a sorted queue may be appended.
LEMMA SortedAppend ==
  ASSUME NEW S, NEW s \in Seq(S), NEW m \in S, Sorted(s),
         m.cmd = "Message" => \A n : Carries(s, n) => n < m.n
  PROVE  Sorted(Append(s, m))
<1>1. /\ Len(s) \in Nat /\ Len(Append(s, m)) = Len(s) + 1 /\ Append(s, m)[Len(s) + 1] = m
      /\ \A i \in 1..Len(s) : Append(s, m)[i] = s[i]
  OBVIOUS
<1>2. SUFFICES ASSUME NEW i \in 1..(Len(s) + 1), NEW j \in 1..(Len(s) + 1), i < j,
                      Append(s, m)[i].cmd = "Message", Append(s, m)[j].cmd = "Message"
               PROVE  Append(s, m)[i].n < Append(s, m)[j].n
  BY <1>1 DEF Sorted
<1>3. i \in 1..Len(s) /\ Append(s, m)[i] = s[i]
  BY <1>1, <1>2
<1>4. CASE j \in 1..Len(s)
  BY <1>1, <1>2, <1>3, <1>4 DEF Sorted
<1>5. CASE j = Len(s) + 1
  <2>1. Carries(s, s[i].n)
    BY <1>2, <1>3 DEF Carries
  <2> QED BY <1>1, <1>2, <1>3, <1>5, <2>1
<1> QED BY <1>4, <1>5

\* A queue without messages, followed by a sorted one.
LEMMA SortedConcat ==
  ASSUME NEW S, NEW s \in Seq(S), NEW t \in Seq(S), \A n : ~Carries(s, n), Sorted(t)
  PROVE  Sorted(s \o t)
<1>1. /\ Len(s \o t) = Len(s) + Len(t) /\ Len(s) \in Nat /\ Len(t) \in Nat
      /\ \A i \in 1..Len(s) : (s \o t)[i] = s[i]
      /\ \A i \in 1..Len(t) : (s \o t)[Len(s) + i] = t[i]
  OBVIOUS
<1>2. \A i \in 1..Len(s) : s[i].cmd # "Message"
  BY DEF Carries
<1>3. SUFFICES ASSUME NEW i \in 1..(Len(s) + Len(t)), NEW j \in 1..(Len(s) + Len(t)), i < j,
                      (s \o t)[i].cmd = "Message", (s \o t)[j].cmd = "Message"
               PROVE  (s \o t)[i].n < (s \o t)[j].n
  BY <1>1 DEF Sorted
<1>4. i \notin 1..Len(s)
  BY <1>1, <1>2, <1>3
<1>5. /\ i - Len(s) \in 1..Len(t) /\ i = Len(s) + (i - Len(s))
      /\ j - Len(s) \in 1..Len(t) /\ j = Len(s) + (j - Len(s))
  BY <1>1, <1>3, <1>4
<1>6. (s \o t)[i] = t[i - Len(s)] /\ (s \o t)[j] = t[j - Len(s)]
  BY <1>1, <1>5
<1>7. i - Len(s) < j - Len(s)
  BY <1>1, <1>3
<1> QED BY <1>3, <1>5, <1>6, <1>7 DEF Sorted

\* Only messages of the run are carried.
LEMMA CarriedInSeqs ==
  ASSUME TypeOK
  PROVE  /\ \A p \in Procs : \A n : Owns(p, n) => n \in Seqs
         /\ \A p \in Procs : \A n : Carries(toSlave[p], n) => n \in Seqs
         /\ \A id \in Ids : \A n : Carries(pendingMessages[id], n) => n \in Seqs
<1>1. \A s \in Seq(ToSlaveMsgs) : \A n : Carries(s, n) => n \in Seqs
  BY MessageKinds DEF Carries
<1>2. \A id \in Ids : pendingMessages[id] \in Seq(ToSlaveMsgs)
  BY MessageKinds DEF TypeOK
<1>3. \A p \in Procs : toSlave[p] \in Seq(ToSlaveMsgs) /\ handled[p] \in Seq(Seqs)
  BY DEF TypeOK
<1> QED BY <1>1, <1>2, <1>3 DEF Owns, HandledBy

\* The invariant Delivery holds at first.
LEMMA DeliveryInit == Init => Delivery
<1> SUFFICES ASSUME Init PROVE Delivery
  OBVIOUS
<1>1. /\ \A p \in Procs : toSlave[p] = <<>> /\ handled[p] = <<>>
      /\ \A id \in Ids : pendingMessages[id] = <<>> /\ slaveLauncher[id] = Nobody
                         /\ sock[id] = Nobody
      /\ \A p \in Procs : ~(p <= created)
  BY BoundsAssumption DEF Init, Procs
<1>2. \A n : ~Carries(<<>>, n)
  BY DEF Carries
<1>3. Sorted(<<>>)
  BY DEF Sorted
<1>4. \A p \in Procs, n \in Seqs : ~Owns(p, n)
  BY <1>1, <1>2 DEF Owns, HandledBy
<1>5. Launches
  BY <1>1 DEF Launches, Contains, Init
<1>6. SocketsOfKin /\ PendingWaitsForSocket
  BY <1>1 DEF SocketsOfKin, PendingWaitsForSocket
<1>7. Fresh /\ Addressed /\ Unique
  BY <1>1, <1>2, <1>4 DEF Fresh, Addressed, Unique
<1>8. Ordered
  BY <1>1, <1>2, <1>3 DEF Ordered
<1> QED BY <1>5, <1>6, <1>7, <1>8 DEF Delivery

\* Steps that send, flush and handle no message: queues get control messages or
\* are cleared, the ids of processes that own a message stay.
LEMMA QuietStep ==
  ASSUME TypeOK, TypeOK', Addressed, Ordered, Unique,
         UNCHANGED <<sent, handled>>,
         \A p \in Procs : \/ toSlave'[p] = toSlave[p]
                          \/ \E m \in {Identify, Quit, Ping} : toSlave'[p] = Append(toSlave[p], m),
         \A id \in Ids : \/ pendingMessages'[id] = <<>>
                         \/ /\ pendingMessages'[id] = pendingMessages[id]
                            /\ slaveLauncher'[id] = slaveLauncher[id],
         \A p \in Procs : slaveId'[p] = slaveId[p] \/ \A n \in Seqs : ~Owns(p, n)
  PROVE  /\ \A p \in Procs, n \in Seqs : Owns(p, n)' <=> Owns(p, n)
         /\ Addressed' /\ Ordered' /\ Unique'
<1>1. \A p \in Procs : toSlave[p] \in Seq(ToSlaveMsgs) /\ toSlave'[p] \in Seq(ToSlaveMsgs)
  BY DEF TypeOK
<1>2. \A m \in {Identify, Quit, Ping} : m \in ToSlaveMsgs /\ m.cmd # "Message"
  BY MessageKinds DEF Identify, Quit, Ping
<1>3. \A p \in Procs : \A n : Carries(toSlave'[p], n) <=> Carries(toSlave[p], n)
  <2>1. ASSUME NEW p \in Procs, NEW n, NEW m \in {Identify, Quit, Ping}
        PROVE  Carries(Append(toSlave[p], m), n) <=> Carries(toSlave[p], n)
    BY <1>1, <1>2, CarriesAppend
  <2> QED BY <2>1
<1>4. \A p \in Procs : Sorted(toSlave[p]) => Sorted(toSlave'[p])
  BY <1>1, <1>2, SortedAppend
<1>5. \A id \in Ids : \A n : Carries(pendingMessages'[id], n) =>
         Carries(pendingMessages[id], n) /\ slaveLauncher'[id] = slaveLauncher[id]
  BY DEF Carries
<1>6. \A id \in Ids : Sorted(pendingMessages[id]) => Sorted(pendingMessages'[id])
  BY DEF Sorted
<1>7. \A p \in Procs : \A n : HandledBy(p, n)' <=> HandledBy(p, n)
  BY DEF HandledBy
<1>8. \A p \in Procs, n \in Seqs : Owns(p, n)' <=> Owns(p, n)
  BY <1>3, <1>7 DEF Owns
<1>9. Addressed'
  <2>1. ASSUME NEW p \in Procs, NEW n \in Seqs, Owns(p, n)'
        PROVE  n <= Len(sent)' /\ sent'[n].id = slaveId'[p] /\ p <= sent'[n].slave
    <3>1. Owns(p, n) /\ slaveId'[p] = slaveId[p]
      BY <1>8, <2>1
    <3>2. n <= Len(sent) /\ sent[n].id = slaveId[p] /\ p <= sent[n].slave
      BY <3>1 DEF Addressed
    <3> QED BY <3>1, <3>2
  <2>2. ASSUME NEW id \in Ids, NEW n \in Seqs, Carries(pendingMessages'[id], n)
        PROVE  n <= Len(sent)' /\ sent'[n] = [id |-> id, slave |-> slaveLauncher'[id]]
    <3>1. Carries(pendingMessages[id], n) /\ slaveLauncher'[id] = slaveLauncher[id]
      BY <1>5, <2>2
    <3>2. n <= Len(sent) /\ sent[n] = [id |-> id, slave |-> slaveLauncher[id]]
      BY <3>1 DEF Addressed
    <3> QED BY <3>1, <3>2
  <2> QED BY <2>1, <2>2 DEF Addressed
<1>10. Ordered'
  BY <1>3, <1>4, <1>6, <1>7 DEF Ordered
<1>11. Unique'
  BY <1>5, <1>8 DEF Unique
<1> QED BY <1>8, <1>9, <1>10, <1>11

------------------------------------------------------------------------------
(* A process is asked for its id once and answers once.                       *)

Has(s, x) == \E i \in 1..Len(s) : s[i] = x
Once(s, x) == \A i, j \in 1..Len(s) : s[i] = x /\ s[j] = x => i = j

IdentifiesOnce == \A p \in Procs :
  /\ Has(toSlave[p], Identify) \/ Has(toMaster[p], "Identify") =>
        conn[p] \in {"open", "closed"} /\ \A id \in Ids : sock[id] # p
  /\ ~(Has(toSlave[p], Identify) /\ Has(toMaster[p], "Identify"))
  /\ Once(toSlave[p], Identify) /\ Once(toMaster[p], "Identify")

\* What a queue has, and how often, when a message is appended.
LEMMA HasAppend ==
  ASSUME NEW S, NEW s \in Seq(S), NEW m \in S, NEW x
  PROVE  /\ Has(Append(s, m), x) <=> Has(s, x) \/ m = x
         /\ Once(s, x) /\ (m = x => ~Has(s, x)) => Once(Append(s, m), x)
<1>1. /\ Len(s) \in Nat /\ Len(Append(s, m)) = Len(s) + 1 /\ Append(s, m)[Len(s) + 1] = m
      /\ \A i \in 1..Len(s) : Append(s, m)[i] = s[i]
      /\ \A i \in 1..(Len(s) + 1) : i \in 1..Len(s) \/ i = Len(s) + 1
      /\ Len(s) + 1 \in 1..(Len(s) + 1) /\ 1..Len(s) \subseteq 1..(Len(s) + 1)
  OBVIOUS
<1>2. Has(Append(s, m), x) <=> Has(s, x) \/ m = x
  BY <1>1 DEF Has
<1>3. ASSUME Once(s, x), m = x => ~Has(s, x) PROVE Once(Append(s, m), x)
  BY <1>1, <1>3 DEF Has, Once
<1> QED BY <1>2, <1>3

\* What a queue has when its head is taken.
LEMMA HasTail ==
  ASSUME NEW S, NEW s \in Seq(S), s # <<>>, NEW x
  PROVE  /\ Has(Tail(s), x) => Has(s, x)
         /\ Has(s, Head(s))
         /\ Once(s, x) => Once(Tail(s), x)
         /\ Once(s, x) /\ Head(s) = x => ~Has(Tail(s), x)
<1>1. /\ Len(s) \in Nat \ {0} /\ Len(Tail(s)) = Len(s) - 1 /\ Head(s) = s[1]
      /\ \A i \in 1..(Len(s) - 1) : Tail(s)[i] = s[i + 1]
      /\ \A i \in 1..(Len(s) - 1) : i + 1 \in 1..Len(s) /\ 1 # i + 1
      /\ 1 \in 1..Len(s)
  OBVIOUS
<1>2. Has(Tail(s), x) => Has(s, x)
  BY <1>1 DEF Has
<1>3. Has(s, Head(s))
  BY <1>1 DEF Has
<1>4. Once(s, x) => Once(Tail(s), x)
  BY <1>1 DEF Once
<1>5. Once(s, x) /\ Head(s) = x => ~Has(Tail(s), x)
  BY <1>1 DEF Has, Once
<1> QED BY <1>2, <1>3, <1>4, <1>5

\* Appending a queue without x.
LEMMA HasConcat ==
  ASSUME NEW S, NEW s \in Seq(S), NEW t \in Seq(S), NEW x, ~Has(t, x)
  PROVE  /\ Has(s \o t, x) <=> Has(s, x)
         /\ Once(s, x) => Once(s \o t, x)
<1>1. /\ Len(s \o t) = Len(s) + Len(t) /\ Len(s) \in Nat /\ Len(t) \in Nat
      /\ \A i \in 1..Len(s) : (s \o t)[i] = s[i]
      /\ \A i \in 1..Len(t) : (s \o t)[Len(s) + i] = t[i]
  OBVIOUS
<1>2. \A i \in 1..(Len(s) + Len(t)) : (s \o t)[i] = x => i \in 1..Len(s)
  <2> SUFFICES ASSUME NEW i \in 1..(Len(s) + Len(t)), i \notin 1..Len(s)
               PROVE  (s \o t)[i] # x
    OBVIOUS
  <2>1. i - Len(s) \in 1..Len(t) /\ i = Len(s) + (i - Len(s))
    BY <1>1
  <2>2. (s \o t)[i] = t[i - Len(s)]
    BY <1>1, <2>1
  <2> QED BY <2>1, <2>2 DEF Has
<1>3. 1..Len(s) \subseteq 1..(Len(s) + Len(t))
  BY <1>1
<1> QED BY <1>1, <1>2, <1>3 DEF Has, Once

\* No step has a process identify itself a second time.
LEMMA IdentifiesOnceStep ==
  TypeOK /\ Launches /\ SocketsOfKin /\ IdentifiesOnce /\ [Next]_vars => IdentifiesOnce'
<1> SUFFICES ASSUME TypeOK, Launches, SocketsOfKin, IdentifiesOnce, [Next]_vars PROVE IdentifiesOnce'
  OBVIOUS
<1>1. /\ \A p \in Procs : toSlave[p] \in Seq(ToSlaveMsgs)
      /\ \A p \in Procs : toMaster[p] \in Seq({"Identify", "Ping", "Report"})
      /\ {Identify, Quit, Ping} \cup Messages \subseteq ToSlaveMsgs
      /\ Identify \notin {Quit, Ping} \cup Messages
  BY DEF TypeOK, ToSlaveMsgs, Messages, Message, Identify, Quit, Ping
<1>2. \A p \in Procs, m \in {Quit, Ping} \cup Messages :
        /\ Has(Append(toSlave[p], m), Identify) <=> Has(toSlave[p], Identify)
        /\ Once(toSlave[p], Identify) => Once(Append(toSlave[p], m), Identify)
  <2> SUFFICES ASSUME NEW p \in Procs, NEW m \in {Quit, Ping} \cup Messages
               PROVE  /\ Has(Append(toSlave[p], m), Identify) <=> Has(toSlave[p], Identify)
                      /\ Once(toSlave[p], Identify) => Once(Append(toSlave[p], m), Identify)
    OBVIOUS
  <2>1. m \in ToSlaveMsgs /\ m # Identify /\ toSlave[p] \in Seq(ToSlaveMsgs)
    BY <1>1
  <2> QED BY <2>1, HasAppend
\* Other messages reach slaves, sockets are closed or unregistered.
<1>f. ASSUME UNCHANGED toMaster,
             \A p \in Procs : \/ toSlave'[p] = toSlave[p]
                              \/ \E m \in {Quit, Ping} \cup Messages :
                                   toSlave'[p] = Append(toSlave[p], m),
             \A p \in Procs : conn'[p] \in {conn[p], "closed", "backlog"}
                              /\ (conn'[p] = "backlog" => conn[p] \in {"none", "backlog"}),
             \A id \in Ids : sock'[id] \in {sock[id], Nobody}
      PROVE  IdentifiesOnce'
  <2> SUFFICES ASSUME NEW p \in Procs
               PROVE  /\ Has(toSlave'[p], Identify) \/ Has(toMaster[p], "Identify") =>
                            conn'[p] \in {"open", "closed"} /\ \A id \in Ids : sock'[id] # p
                      /\ ~(Has(toSlave'[p], Identify) /\ Has(toMaster[p], "Identify"))
                      /\ Once(toSlave'[p], Identify) /\ Once(toMaster[p], "Identify")
    BY <1>f DEF IdentifiesOnce, Has, Once
  <2>1. /\ Has(toSlave'[p], Identify) <=> Has(toSlave[p], Identify)
        /\ Once(toSlave[p], Identify) => Once(toSlave'[p], Identify)
    BY <1>2, <1>f
  <2>2. p # Nobody
    BY DEF Procs, Nobody
  <2> QED BY <1>f, <2>1, <2>2 DEF IdentifiesOnce
<1> USE DEF Nobody
<1>3. ASSUME NEW id \in Ids, CreateSlave(id) \/ StopSlave(id) PROVE IdentifiesOnce'
  <2>1. UNCHANGED toMaster /\ (\A jd \in Ids : sock'[jd] \in {sock[jd], Nobody})
    BY <1>3 DEF CreateSlave, StopSlave, SetEntry, TypeOK
  <2>2. /\ \A p \in Procs : toSlave'[p] = toSlave[p] \/ toSlave'[p] = Append(toSlave[p], Quit)
        /\ \A p \in Procs : conn'[p] \in {conn[p], "closed"}
    BY <1>3 DEF CreateSlave, StopSlave, StopSockets
  <2> QED BY <1>f, <2>1, <2>2
<1>4. ASSUME NEW id \in Ids, SendMessage(id) PROVE IdentifiesOnce'
  <2>1. Message(Len(sent) + 1) \in Messages
    <3>1. Len(sent) + 1 \in Seqs
      BY <1>4, BoundsAssumption DEF SendMessage, TypeOK, Seqs
    <3> QED BY <3>1 DEF Messages
  <2>2. \A p \in Procs : toSlave'[p] \in {toSlave[p], Append(toSlave[p], Message(Len(sent) + 1))}
    BY <1>4 DEF SendMessage, TypeOK
  <2> QED BY <1>4, <1>f, <2>1, <2>2 DEF SendMessage
<1>5. ASSUME DestroyMaster PROVE IdentifiesOnce'
  <2>1. \A p \in Procs : toSlave'[p] = toSlave[p] \/ toSlave'[p] = Append(toSlave[p], Quit)
    BY <1>5 DEF DestroyMaster
  <2> QED BY <1>5, <1>f, <2>1 DEF DestroyMaster
<1>6. ASSUME NEW p \in Procs, AcceptConnection(p) PROVE IdentifiesOnce'
  <2>1. /\ conn[p] = "backlog" /\ conn' = [conn EXCEPT ![p] = "open"]
        /\ toSlave' = [toSlave EXCEPT ![p] = Append(@, Identify)]
        /\ UNCHANGED <<sock, toMaster, slaveLauncher>>
    BY <1>6 DEF AcceptConnection, masterVars
  <2>2. ~Has(toSlave[p], Identify) /\ ~Has(toMaster[p], "Identify")
    BY <2>1 DEF IdentifiesOnce
  <2>3. Once(Append(toSlave[p], Identify), Identify)
    BY <1>1, <2>2, HasAppend DEF IdentifiesOnce
  <2>4. \A id \in Ids : sock[id] # p
    BY <2>1 DEF SocketsOfKin, Procs
  <2> QED BY <2>1, <2>2, <2>3, <2>4 DEF IdentifiesOnce, TypeOK, Has, Once
\* What reading p's queue leaves of it.
<1>7. ASSUME NEW p \in Procs, ReceiveMessage(p)
      PROVE  /\ \A q \in Procs : Has(toMaster'[q], "Identify") => Has(toMaster[q], "Identify")
             /\ \A q \in Procs : Once(toMaster'[q], "Identify")
             /\ Head(toMaster[p]) = "Identify" =>
                  Has(toMaster[p], "Identify") /\ ~Has(toMaster'[p], "Identify")
  <2>1. toMaster' = [toMaster EXCEPT ![p] = Tail(@)] /\ toMaster[p] # <<>>
    BY <1>7 DEF ReceiveMessage
  <2>2. /\ Has(Tail(toMaster[p]), "Identify") => Has(toMaster[p], "Identify")
        /\ Has(toMaster[p], Head(toMaster[p]))
        /\ Once(Tail(toMaster[p]), "Identify")
        /\ Head(toMaster[p]) = "Identify" => ~Has(Tail(toMaster[p]), "Identify")
    BY <1>1, <2>1, HasTail DEF IdentifiesOnce
  <2> QED BY <2>1, <2>2 DEF IdentifiesOnce, TypeOK
<1>8. ASSUME NEW p \in Procs, ReceiveMessage(p), ReceiveIdentify(p) PROVE IdentifiesOnce'
  <2>1. /\ Has(toMaster[p], "Identify") /\ ~Has(toMaster'[p], "Identify")
        /\ ~Has(toSlave[p], Identify) /\ \A id \in Ids : sock[id] # p
        /\ conn[p] = "open"
    BY <1>7, <1>8 DEF ReceiveIdentify, ReceiveMessage, IdentifiesOnce
  <2>2. \A id \in Ids : pendingMessages[id] \in Seq(ToSlaveMsgs)
                        /\ ~Has(pendingMessages[id], Identify)
    BY <1>1 DEF TypeOK, Has
  <2>3. \A q \in Procs, id \in Ids :
           LET t == toSlave[q] \o pendingMessages[id]
           IN  /\ Has(t, Identify) <=> Has(toSlave[q], Identify)
               /\ Once(toSlave[q], Identify) => Once(t, Identify)
    BY <1>1, <2>2, HasConcat
  <2>4. \A q \in Procs : \/ toSlave'[q] = toSlave[q]
                         \/ \E id \in Ids : toSlave'[q] = toSlave[q] \o pendingMessages[id]
    BY <1>8 DEF ReceiveIdentify, SendPendingMessages
  <2>5. \A q \in Procs : /\ Has(toSlave'[q], Identify) <=> Has(toSlave[q], Identify)
                         /\ Once(toSlave'[q], Identify)
    <3> SUFFICES ASSUME NEW q \in Procs
                 PROVE  /\ Has(toSlave'[q], Identify) <=> Has(toSlave[q], Identify)
                        /\ Once(toSlave'[q], Identify)
      OBVIOUS
    <3>1. Once(toSlave[q], Identify)
      BY DEF IdentifiesOnce
    <3>2. CASE toSlave'[q] = toSlave[q]
      BY <3>1, <3>2
    <3>3. ASSUME NEW id \in Ids, toSlave'[q] = toSlave[q] \o pendingMessages[id]
          PROVE  /\ Has(toSlave'[q], Identify) <=> Has(toSlave[q], Identify)
                 /\ Once(toSlave'[q], Identify)
      BY <2>3, <3>1, <3>3
    <3> QED BY <2>4, <3>2, <3>3
  <2>6. /\ \A id \in Ids : sock'[id] \in {sock[id], p}
        /\ \A q \in Procs : q # p => conn'[q] = conn[q]
    BY <1>8 DEF ReceiveIdentify, TypeOK
  <2> SUFFICES ASSUME NEW q \in Procs
               PROVE  /\ Has(toSlave'[q], Identify) \/ Has(toMaster'[q], "Identify") =>
                            conn'[q] \in {"open", "closed"} /\ \A id \in Ids : sock'[id] # q
                      /\ ~(Has(toSlave'[q], Identify) /\ Has(toMaster'[q], "Identify"))
                      /\ Once(toSlave'[q], Identify) /\ Once(toMaster'[q], "Identify")
    BY DEF IdentifiesOnce, Has, Once
  <2>7. CASE q = p
    BY <1>7, <1>8, <2>1, <2>5, <2>7
  <2>8. CASE q # p
    BY <1>7, <1>8, <2>5, <2>6, <2>8 DEF IdentifiesOnce
  <2> QED BY <2>7, <2>8
<1>9. ASSUME NEW p \in Procs, ReceiveMessage(p), ReceiveOther(p) PROVE IdentifiesOnce'
  <2>1. \A q \in Procs : toSlave'[q] = toSlave[q] \/ toSlave'[q] = Append(toSlave[q], Ping)
    BY <1>9 DEF ReceiveOther, TypeOK
  <2>2. \A q \in Procs : /\ Has(toSlave'[q], Identify) <=> Has(toSlave[q], Identify)
                         /\ Once(toSlave'[q], Identify)
    BY <1>2, <2>1 DEF IdentifiesOnce
  <2>3. UNCHANGED <<sock, conn>>
    BY <1>9 DEF ReceiveOther
  <2> SUFFICES ASSUME NEW q \in Procs
               PROVE  /\ Has(toSlave'[q], Identify) \/ Has(toMaster'[q], "Identify") =>
                            conn'[q] \in {"open", "closed"} /\ \A id \in Ids : sock'[id] # q
                      /\ ~(Has(toSlave'[q], Identify) /\ Has(toMaster'[q], "Identify"))
                      /\ Once(toSlave'[q], Identify) /\ Once(toMaster'[q], "Identify")
    BY DEF IdentifiesOnce, Has, Once
  <2> QED BY <1>7, <1>9, <2>2, <2>3 DEF IdentifiesOnce
<1>10. ASSUME NEW p \in Procs, MasterPing(p) PROVE IdentifiesOnce'
  <2>1. /\ toMaster' = [toMaster EXCEPT ![p] = Append(@, "Ping")]
        /\ UNCHANGED <<sock, conn, toSlave>>
    BY <1>10 DEF MasterPing, masterVars
  <2>2. /\ Has(Append(toMaster[p], "Ping"), "Identify") <=> Has(toMaster[p], "Identify")
        /\ Once(toMaster[p], "Identify") => Once(Append(toMaster[p], "Ping"), "Identify")
    BY <1>1, HasAppend
  <2>3. \A q \in Procs : /\ Has(toMaster'[q], "Identify") <=> Has(toMaster[q], "Identify")
                         /\ Once(toMaster'[q], "Identify")
    BY <2>1, <2>2 DEF IdentifiesOnce, TypeOK
  <2> SUFFICES ASSUME NEW q \in Procs
               PROVE  /\ Has(toSlave[q], Identify) \/ Has(toMaster'[q], "Identify") =>
                            conn[q] \in {"open", "closed"} /\ \A id \in Ids : sock[id] # q
                      /\ ~(Has(toSlave[q], Identify) /\ Has(toMaster'[q], "Identify"))
                      /\ Once(toSlave[q], Identify) /\ Once(toMaster'[q], "Identify")
    BY <2>1 DEF IdentifiesOnce, Has, Once
  <2> QED BY <2>3 DEF IdentifiesOnce
<1>11. ASSUME NEW p \in Procs, SlaveReceive(p) PROVE IdentifiesOnce'
  <2> DEFINE m == Head(toSlave[p])
  <2>1. /\ toSlave[p] # <<>> /\ toSlave' = [toSlave EXCEPT ![p] = Tail(@)]
        /\ UNCHANGED <<sock, conn>>
    BY <1>11 DEF SlaveReceive, masterVars
  <2>2. /\ Has(Tail(toSlave[p]), Identify) => Has(toSlave[p], Identify)
        /\ Once(Tail(toSlave[p]), Identify)
        /\ m = Identify => Has(toSlave[p], Identify) /\ ~Has(Tail(toSlave[p]), Identify)
    BY <1>1, <2>1, HasTail DEF IdentifiesOnce
  <2>3. m.cmd = "Identify" => m = Identify
    <3>1. m \in ToSlaveMsgs
      BY <1>1, <2>1
    <3> QED BY <3>1 DEF ToSlaveMsgs, Messages, Message, Identify, Quit, Ping
  <2>4. \A r \in {"Identify", "Report"} :
           /\ Has(Append(toMaster[p], r), "Identify") <=>
                 Has(toMaster[p], "Identify") \/ r = "Identify"
           /\ Once(toMaster[p], "Identify") /\ (r = "Identify" => ~Has(toMaster[p], "Identify"))
                => Once(Append(toMaster[p], r), "Identify")
    BY <1>1, HasAppend
  <2>5. CASE m.cmd = "Identify"
    <3>1. toMaster' = [toMaster EXCEPT ![p] = Append(@, "Identify")]
      BY <1>11, <2>5 DEF SlaveReceive
    <3>2. /\ ~Has(toMaster[p], "Identify") /\ conn[p] \in {"open", "closed"}
          /\ \A id \in Ids : sock[id] # p
      BY <2>2, <2>3, <2>5 DEF IdentifiesOnce
    <3>3. Once(Append(toMaster[p], "Identify"), "Identify")
      BY <2>4, <3>2 DEF IdentifiesOnce
    <3> SUFFICES ASSUME NEW q \in Procs
                 PROVE  /\ Has(toSlave'[q], Identify) \/ Has(toMaster'[q], "Identify") =>
                              conn[q] \in {"open", "closed"} /\ \A id \in Ids : sock[id] # q
                        /\ ~(Has(toSlave'[q], Identify) /\ Has(toMaster'[q], "Identify"))
                        /\ Once(toSlave'[q], Identify) /\ Once(toMaster'[q], "Identify")
      BY <2>1 DEF IdentifiesOnce, Has, Once
    <3>4. CASE q = p
      <4>1. toSlave'[q] = Tail(toSlave[p]) /\ toMaster'[q] = Append(toMaster[p], "Identify")
        BY <2>1, <3>1, <3>4 DEF TypeOK
      <4> QED BY <2>2, <2>3, <2>5, <3>2, <3>3, <3>4, <4>1
    <3>5. CASE q # p
      <4>1. toSlave'[q] = toSlave[q] /\ toMaster'[q] = toMaster[q]
        BY <2>1, <3>1, <3>5 DEF TypeOK
      <4> QED BY <4>1 DEF IdentifiesOnce
    <3> QED BY <3>4, <3>5
  <2>6. CASE m.cmd # "Identify"
    <3>1. toMaster' \in {toMaster, [toMaster EXCEPT ![p] = Append(@, "Report")]}
      BY <1>11, <2>6 DEF SlaveReceive
    <3>2. \A q \in Procs : /\ Has(toMaster'[q], "Identify") <=> Has(toMaster[q], "Identify")
                           /\ Once(toMaster'[q], "Identify")
      BY <2>4, <3>1 DEF IdentifiesOnce, TypeOK
    <3>3. \A q \in Procs : /\ Has(toSlave'[q], Identify) => Has(toSlave[q], Identify)
                           /\ Once(toSlave'[q], Identify)
      BY <2>1, <2>2 DEF IdentifiesOnce, TypeOK
    <3> SUFFICES ASSUME NEW q \in Procs
                 PROVE  /\ Has(toSlave'[q], Identify) \/ Has(toMaster'[q], "Identify") =>
                              conn'[q] \in {"open", "closed"} /\ \A id \in Ids : sock'[id] # q
                        /\ ~(Has(toSlave'[q], Identify) /\ Has(toMaster'[q], "Identify"))
                        /\ Once(toSlave'[q], Identify) /\ Once(toMaster'[q], "Identify")
      BY DEF IdentifiesOnce, Has, Once
    <3> QED BY <2>1, <3>2, <3>3 DEF IdentifiesOnce
  <2> QED BY <2>5, <2>6
<1>12. ASSUME NEW p \in Procs,
              \/ ProcessFinished(p) \/ KillTimerFires(p) \/ StartFails(p)
              \/ Connect(p) \/ SlaveError(p) \/ Exit(p)
       PROVE  IdentifiesOnce'
  <2>1. UNCHANGED <<sock, toSlave, toMaster>>
    BY <1>12 DEF ProcessFinished, KillTimerFires, StartFails, Connect, SlaveError, Exit,
                 masterVars, chanVars
  <2>2. CASE UNCHANGED conn
    BY <1>f, <2>1, <2>2
  <2>3. CASE Connect(p)
    <3>1. conn' \in {conn, [conn EXCEPT ![p] = "backlog"]} /\ conn[p] = "none"
      BY <2>3 DEF Connect, Launches
    <3> QED BY <1>f, <2>1, <3>1 DEF TypeOK
  <2> QED BY <1>12, <2>2, <2>3
          DEF ProcessFinished, KillTimerFires, StartFails, SlaveError, Exit, chanVars
<1>13. CASE UNCHANGED vars
  BY <1>f, <1>13 DEF vars, masterVars, procVars, chanVars
<1> QED
  BY <1>3, <1>4, <1>5, <1>6, <1>8, <1>9, <1>10, <1>11, <1>12, <1>13
  DEF Next, MasterNext, SlaveNext, ReceiveMessage

\* The invariant Delivery, one step per action.
LEMMA DeliveryStep ==
  TypeOK /\ TypeOK' /\ IdentifiesOnce /\ Delivery /\ [Next]_vars => Delivery'
<1> SUFFICES ASSUME TypeOK, TypeOK', IdentifiesOnce, Delivery, [Next]_vars PROVE Delivery'
  OBVIOUS
<1> USE IdAssumption, BoundsAssumption DEF Nobody
<1> USE DEF Delivery
<1>0. /\ created \in {0} \cup Procs
      /\ \A p \in Procs : p \in Nat /\ p # 0
      /\ \A p \in Procs : p > created \/ p <= created
      /\ \A p \in Procs : slaveId[p] \in Ids => p <= created
  BY DEF Procs, Launches, TypeOK
\* A registered socket is open, so closing other sockets leaves it alone.
<1>k. \A id, jd \in Ids : sock[id] # Nobody /\ sock[id] = sock[jd] => id = jd
  BY DEF SocketsOfKin
<1>1. ASSUME NEW id \in Ids, CreateSlave(id) PROVE Delivery'
  <2> DEFINE q == created + 1
  <2>0. created \in {Nobody} \cup Procs /\ created < MaxProcs
    BY <1>1 DEF CreateSlave, TypeOK
  <2>1. q \in Procs /\ q > created /\ q # Nobody
    BY <2>0, NextIsProc
  <2>2. conn[q] = "none" /\ slaveId[q] = NoId /\ state[q] = "unborn"
    BY <2>1 DEF Launches
  <2>3. \A jd \in Ids : sock[jd] # q
    BY <2>1, <2>2 DEF SocketsOfKin
  <2>4. \A n \in Seqs : ~Owns(q, n)
    BY <2>1, <2>2, <2>3 DEF Fresh
  <2>5. /\ created' = q
        /\ slaveLauncher' = [slaveLauncher EXCEPT ![id] = q]
        /\ sock' = [sock EXCEPT ![id] = Nobody]
        /\ pendingMessages' = [pendingMessages EXCEPT ![id] = <<>>]
        /\ slaveId' = [slaveId EXCEPT ![q] = id]
        /\ state' = [state EXCEPT ![q] = "starting"]
        /\ conn' = [p \in Procs |-> IF sock[id] = p THEN "closed" ELSE conn[p]]
        /\ UNCHANGED <<sent, handled>>
    BY <1>1 DEF CreateSlave, SetEntry, StopSockets, histVars
  <2>6. \A p \in Procs : toSlave'[p] = toSlave[p] \/ toSlave'[p] = Append(toSlave[p], Quit)
    BY <1>1 DEF CreateSlave, StopSockets
  <2> HIDE DEF q
  <2>7. /\ \A jd \in Ids : \/ pendingMessages'[jd] = <<>>
                           \/ /\ pendingMessages'[jd] = pendingMessages[jd]
                              /\ slaveLauncher'[jd] = slaveLauncher[jd]
        /\ \A p \in Procs : slaveId'[p] = slaveId[p] \/ \A n \in Seqs : ~Owns(p, n)
    BY <2>4, <2>5 DEF TypeOK
  <2>8. /\ \A p \in Procs, n \in Seqs : Owns(p, n)' <=> Owns(p, n)
        /\ Addressed' /\ Ordered' /\ Unique'
    BY <2>5, <2>6, <2>7, QuietStep
  <2>9. Launches'
    <3>1. \A p \in Procs : p > created' => p > created /\ p # q /\ sock[id] # p
      BY <1>0, <2>1, <2>5, <2>3 DEF q, Launches, SocketsOfKin
    <3>2. \A p \in Procs : p <= created' => p <= created \/ p = q
      BY <1>0, <2>1, <2>5 DEF q
    <3>3. \A p \in Procs : p <= created => p # q /\ p <= q
      BY <1>0, <2>1 DEF q
    <3>4. \A p \in Procs : p > created' =>
             slaveId'[p] = NoId /\ state'[p] = "unborn" /\ conn'[p] = "none"
      BY <2>5, <3>1 DEF Launches, TypeOK
    <3>5. \A p \in Procs : p <= created' => slaveId'[p] \in Ids
      BY <2>5, <3>2 DEF Launches, TypeOK
    <3>6. ASSUME NEW jd \in Ids, slaveLauncher'[jd] # Nobody
          PROVE  /\ slaveId'[slaveLauncher'[jd]] = jd
                 /\ \A p \in Procs : slaveId'[p] = jd => p <= slaveLauncher'[jd]
      <4>1. CASE jd = id
        <5>1. slaveLauncher'[jd] = q
          BY <2>5, <4>1 DEF TypeOK
        <5>2. \A p \in Procs : slaveId'[p] = jd => p = q \/ p <= created
          BY <1>0, <2>5 DEF TypeOK
        <5> QED BY <1>0, <2>1, <2>5, <3>3, <4>1, <5>1, <5>2 DEF TypeOK
      <4>2. CASE jd # id
        <5>1. slaveLauncher'[jd] = slaveLauncher[jd] /\ Contains(jd)
          BY <2>5, <3>6, <4>2 DEF TypeOK, Contains
        <5>2. slaveLauncher[jd] # q /\ slaveLauncher[jd] \in Procs
          BY <2>2, <5>1 DEF Launches, TypeOK, Contains
        <5> QED BY <2>5, <4>2, <5>1, <5>2 DEF Launches, TypeOK
      <4> QED BY <4>1, <4>2
    <3>7. \A p \in Procs : state'[p] \in {"unborn", "starting"} => conn'[p] = "none"
      <4>1. \A p \in Procs : conn[p] = "none" => conn'[p] = "none"
        BY <1>0, <2>5 DEF SocketsOfKin
      <4> QED BY <2>2, <2>5, <4>1, SMTT(30) DEF Launches, TypeOK
    <3> QED BY <3>4, <3>5, <3>6, <3>7 DEF Launches, Contains
  <2>10. SocketsOfKin'
    <3> SUFFICES ASSUME NEW jd \in Ids, sock'[jd] # Nobody
                 PROVE  /\ slaveLauncher'[jd] # Nobody
                        /\ slaveId'[sock'[jd]] = jd
                        /\ conn'[sock'[jd]] = "open"
      BY DEF SocketsOfKin, Contains
    <3>1. jd # id /\ sock'[jd] = sock[jd] /\ sock[jd] \in Procs /\ sock[jd] # q
      BY <2>3, <2>5 DEF TypeOK
    <3>2. sock[id] # sock[jd]
      BY <1>k, <3>1
    <3> QED BY <2>5, <3>1, <3>2 DEF SocketsOfKin, Contains, TypeOK
  <2>11. PendingWaitsForSocket'
    BY <2>5, <2>1 DEF PendingWaitsForSocket, Contains, TypeOK
  <2>12. Fresh'
    <3> SUFFICES ASSUME NEW p \in Procs, conn'[p] # "closed",
                        \A jd \in Ids : sock'[jd] # p, NEW n \in Seqs
                 PROVE  ~Owns(p, n)
      BY <2>8 DEF Fresh
    <3>1. sock[id] # p /\ conn[p] # "closed"
      BY <2>5
    <3>2. \A jd \in Ids : sock[jd] # p
      BY <2>5, <3>1 DEF TypeOK
    <3> QED BY <3>1, <3>2 DEF Fresh
  <2> QED BY <2>8, <2>9, <2>10, <2>11, <2>12
<1>2. ASSUME NEW id \in Ids, StopSlave(id) PROVE Delivery'
  <2>5. /\ slaveLauncher' = [slaveLauncher EXCEPT ![id] = Nobody]
        /\ sock' = [sock EXCEPT ![id] = Nobody]
        /\ pendingMessages' = [pendingMessages EXCEPT ![id] = <<>>]
        /\ conn' = [p \in Procs |-> IF sock[id] = p THEN "closed" ELSE conn[p]]
        /\ UNCHANGED <<created, slaveId, state, sent, handled>>
    BY <1>2 DEF StopSlave, SetEntry, StopSockets, histVars
  <2>6. \A p \in Procs : toSlave'[p] = toSlave[p] \/ toSlave'[p] = Append(toSlave[p], Quit)
    BY <1>2 DEF StopSlave, StopSockets
  <2>7. /\ \A jd \in Ids : \/ pendingMessages'[jd] = <<>>
                           \/ /\ pendingMessages'[jd] = pendingMessages[jd]
                              /\ slaveLauncher'[jd] = slaveLauncher[jd]
        /\ \A p \in Procs : slaveId'[p] = slaveId[p]
    BY <2>5 DEF TypeOK
  <2>8. /\ \A p \in Procs, n \in Seqs : Owns(p, n)' <=> Owns(p, n)
        /\ Addressed' /\ Ordered' /\ Unique'
    BY <2>5, <2>6, <2>7, QuietStep
  <2>9. Launches'
    <3>1. \A p \in Procs : conn[p] = "none" => conn'[p] = "none"
      BY <1>0, <2>5 DEF SocketsOfKin
    <3> QED BY <2>5, <3>1 DEF Launches, Contains, TypeOK
  <2>10. SocketsOfKin'
    <3> SUFFICES ASSUME NEW jd \in Ids, sock'[jd] # Nobody
                 PROVE  /\ slaveLauncher'[jd] # Nobody
                        /\ slaveId'[sock'[jd]] = jd
                        /\ conn'[sock'[jd]] = "open"
      BY DEF SocketsOfKin, Contains
    <3>1. jd # id /\ sock'[jd] = sock[jd] /\ sock[jd] \in Procs
      BY <2>5 DEF TypeOK
    <3>2. sock[id] # sock[jd]
      BY <1>k, <3>1
    <3> QED BY <2>5, <3>1, <3>2 DEF SocketsOfKin, Contains, TypeOK
  <2>11. PendingWaitsForSocket'
    BY <2>5 DEF PendingWaitsForSocket, Contains, TypeOK
  <2>12. Fresh'
    <3> SUFFICES ASSUME NEW p \in Procs, conn'[p] # "closed",
                        \A jd \in Ids : sock'[jd] # p, NEW n \in Seqs
                 PROVE  ~Owns(p, n)
      BY <2>8 DEF Fresh
    <3>1. sock[id] # p /\ conn[p] # "closed"
      BY <2>5
    <3>2. \A jd \in Ids : sock[jd] # p
      BY <2>5, <3>1 DEF TypeOK
    <3> QED BY <3>1, <3>2 DEF Fresh
  <2> QED BY <2>8, <2>9, <2>10, <2>11, <2>12
<1>3. ASSUME DestroyMaster PROVE Delivery'
  <2>1. /\ slaveLauncher' = [id \in Ids |-> Nobody]
        /\ sock' = [id \in Ids |-> Nobody]
        /\ pendingMessages' = [id \in Ids |-> <<>>]
        /\ conn' = [p \in Procs |-> IF conn[p] = "none" THEN "none" ELSE "closed"]
        /\ UNCHANGED <<created, slaveId, state, sent, handled>>
    BY <1>3 DEF DestroyMaster, histVars
  <2>2. \A p \in Procs : toSlave'[p] = toSlave[p] \/ toSlave'[p] = Append(toSlave[p], Quit)
    BY <1>3 DEF DestroyMaster
  <2>3. /\ \A p \in Procs, n \in Seqs : Owns(p, n)' <=> Owns(p, n)
        /\ Addressed' /\ Ordered' /\ Unique'
    BY <2>1, <2>2, QuietStep
  <2>4. Launches' /\ SocketsOfKin' /\ PendingWaitsForSocket'
    BY <2>1 DEF Launches, SocketsOfKin, PendingWaitsForSocket, Contains
  <2>5. Fresh'
    BY <2>1, <2>3 DEF Fresh, SocketsOfKin
  <2> QED BY <2>3, <2>4, <2>5
<1>4. ASSUME NEW p \in Procs, AcceptConnection(p) PROVE Delivery'
  <2>1. /\ conn' = [conn EXCEPT ![p] = "open"] /\ conn[p] = "backlog"
        /\ UNCHANGED <<slaveLauncher, sock, pendingMessages, created, slaveId, state,
                       sent, handled>>
    BY <1>4 DEF AcceptConnection, masterVars, procVars, histVars
  <2>2. \A q \in Procs : toSlave'[q] = toSlave[q] \/ toSlave'[q] = Append(toSlave[q], Identify)
    BY <1>4 DEF AcceptConnection, TypeOK
  <2>3. /\ \A q \in Procs, n \in Seqs : Owns(q, n)' <=> Owns(q, n)
        /\ Addressed' /\ Ordered' /\ Unique'
    BY <2>1, <2>2, QuietStep
  <2>4. Launches' /\ SocketsOfKin' /\ PendingWaitsForSocket'
    BY <2>1 DEF Launches, SocketsOfKin, PendingWaitsForSocket, Contains, TypeOK
  <2>5. Fresh'
    <3> SUFFICES ASSUME NEW q \in Procs, NEW n \in Seqs, conn'[q] # "closed",
                        \A id \in Ids : sock'[id] # q
                 PROVE  ~Owns(q, n)'
      BY DEF Fresh
    <3>1. conn[q] # "closed"
      BY <2>1 DEF TypeOK
    <3>2. ~Owns(q, n)
      BY <2>1, <3>1 DEF Fresh
    <3> QED BY <2>3, <3>2
  <2> QED BY <2>3, <2>4, <2>5
\* Steps that touch neither the entries nor the ids, and close connections at most.
<1>f. ASSUME UNCHANGED <<slaveLauncher, sock, pendingMessages, created, slaveId, sent, handled>>,
             \A q \in Procs : \/ toSlave'[q] = toSlave[q]
                              \/ \E m \in {Identify, Quit, Ping} :
                                   toSlave'[q] = Append(toSlave[q], m),
             \A q \in Procs : conn'[q] = conn[q] \/ (q <= created /\ \A id \in Ids : sock[id] # q),
             \A q \in Procs : conn'[q] # "closed" => conn[q] # "closed",
             \A q \in Procs : state'[q] = state[q] \/ state[q] # "unborn",
             \A q \in Procs : state'[q] \in {"unborn", "starting"} => conn'[q] = "none"
      PROVE  Delivery'
  <2>1. /\ \A q \in Procs, n \in Seqs : Owns(q, n)' <=> Owns(q, n)
        /\ Addressed' /\ Ordered' /\ Unique'
    BY <1>f, QuietStep
  <2>2. Launches' /\ SocketsOfKin' /\ PendingWaitsForSocket'
    BY <1>0, <1>f DEF Launches, SocketsOfKin, PendingWaitsForSocket, Contains, TypeOK
  <2>3. Fresh'
    BY <1>f, <2>1 DEF Fresh, TypeOK
  <2> QED BY <2>1, <2>2, <2>3
<1>5. ASSUME NEW p \in Procs, ReceiveMessage(p), ReceiveIdentify(p), ~Registrable(p)
      PROVE  Delivery'
  <2>1. /\ conn' = [conn EXCEPT ![p] = "closed"] /\ conn[p] = "open"
        /\ UNCHANGED <<slaveLauncher, sock, pendingMessages, toSlave, created, slaveId,
                       state, sent, handled>>
    BY <1>5 DEF ReceiveMessage, ReceiveIdentify, procVars, histVars
  <2>2. p <= created /\ slaveId[p] \in Ids
    BY <1>0, <2>1 DEF Launches
  <2>3. \A id \in Ids : sock[id] # p
    <3>1. Has(toMaster[p], "Identify")
      BY <1>5, HasTail DEF ReceiveMessage, ReceiveIdentify, TypeOK
    <3> QED BY <3>1 DEF IdentifiesOnce
  <2> QED BY <1>f, <2>1, <2>2, <2>3 DEF TypeOK, Launches
<1>6. ASSUME NEW p \in Procs, ReceiveMessage(p), ReceiveOther(p) PROVE Delivery'
  <2>1. UNCHANGED <<slaveLauncher, sock, pendingMessages, created, slaveId, state, conn,
                    sent, handled>>
    BY <1>6 DEF ReceiveMessage, ReceiveOther, procVars, histVars
  <2>2. \A q \in Procs : toSlave'[q] = toSlave[q] \/ toSlave'[q] = Append(toSlave[q], Ping)
    BY <1>6 DEF ReceiveOther, TypeOK
  <2> QED BY <1>f, <2>1, <2>2 DEF Launches
<1>7. ASSUME NEW p \in Procs,
             \/ ProcessFinished(p) \/ KillTimerFires(p) \/ StartFails(p)
             \/ MasterPing(p) \/ SlaveError(p) \/ Exit(p)
      PROVE  Delivery'
  <2>1. /\ UNCHANGED <<slaveLauncher, sock, pendingMessages, created, slaveId, conn, toSlave,
                       sent, handled>>
        /\ \/ UNCHANGED state
           \/ state[p] # "unborn" /\ \E x \in {"dead", "failed"} : state' = [state EXCEPT ![p] = x]
    BY <1>7 DEF ProcessFinished, KillTimerFires, StartFails, MasterPing, SlaveError, Exit,
                Live, masterVars, procVars, chanVars, histVars
  <2> QED BY <1>f, <2>1 DEF Launches, TypeOK
<1>8. ASSUME NEW p \in Procs, Connect(p) PROVE Delivery'
  <2>1. /\ UNCHANGED <<slaveLauncher, sock, pendingMessages, created, slaveId, toSlave,
                       sent, handled>>
        /\ state[p] = "starting"
        /\ \E x \in {"connected", "dead"} : state' = [state EXCEPT ![p] = x]
        /\ conn' \in {conn, [conn EXCEPT ![p] = "backlog"]}
    BY <1>8 DEF Connect, masterVars, histVars
  <2>2. conn[p] = "none" /\ p <= created /\ \A id \in Ids : sock[id] # p
    BY <1>0, <2>1 DEF Launches, SocketsOfKin
  <2> QED BY <1>f, <2>1, <2>2 DEF Launches, TypeOK
\* The remaining steps send, flush or handle a message.
<1>9. ASSUME NEW id \in Ids, SendMessage(id) PROVE Delivery'
  <2> DEFINE k == Len(sent) + 1
             r == [id |-> id, slave |-> slaveLauncher[id]]
  <2>1. /\ k \in Seqs /\ Len(sent) \in Nat /\ slaveLauncher[id] \in Procs
        /\ Message(k) \in ToSlaveMsgs /\ Message(k).cmd = "Message" /\ Message(k).n = k
    <3>1. k \in Seqs /\ slaveLauncher[id] \in Procs
      BY <1>9 DEF SendMessage, TypeOK, Seqs, Contains
    <3> QED BY <3>1, MessageKinds DEF Message, TypeOK
  <2>2. /\ Len(sent') = k /\ sent'[k] = r
        /\ \A n \in Seqs : n <= Len(sent) => n <= k /\ n < k /\ n # k /\ sent'[n] = sent[n]
    <3>1. sent' = Append(sent, r)
      BY <1>9 DEF SendMessage
    <3>2. sent \in Seq([id : Ids, slave : Procs]) /\ r \in [id : Ids, slave : Procs]
      BY <2>1 DEF TypeOK
    <3>3. Len(sent') = k /\ sent'[k] = r /\ \A n \in 1..Len(sent) : sent'[n] = sent[n]
      BY <3>1, <3>2
    <3> QED BY <2>1, <3>3 DEF Seqs
  <2>3. /\ \A q \in Procs : ~Owns(q, k)
        /\ \A jd \in Ids : ~Carries(pendingMessages[jd], k)
    BY <2>1, <2>2 DEF Addressed
  <2>4. UNCHANGED <<slaveLauncher, sock, created, slaveId, state, conn, handled>>
    BY <1>9 DEF SendMessage, procVars
  <2>5. \A q \in Procs : \A n : HandledBy(q, n)' <=> HandledBy(q, n)
    BY <2>4 DEF HandledBy
  <2>6. Launches' /\ SocketsOfKin'
    BY <2>4 DEF Launches, SocketsOfKin, Contains
  <2> HIDE DEF k, r
  <2>7. CASE sock[id] # Nobody
    <3> DEFINE q == sock[id]
    <3>1. /\ q \in Procs /\ toSlave' = [toSlave EXCEPT ![q] = Append(@, Message(k))]
          /\ UNCHANGED pendingMessages
      BY <1>9, <2>7 DEF SendMessage, TypeOK, k
    <3>2. slaveId[q] = id /\ q <= slaveLauncher[id]
      BY <1>9, <2>7, <3>1 DEF SocketsOfKin, Launches, Contains, SendMessage
    <3> HIDE DEF q
    <3>3. /\ toSlave[q] \in Seq(ToSlaveMsgs) /\ toSlave'[q] = Append(toSlave[q], Message(k))
          /\ \A p \in Procs : p # q => toSlave'[p] = toSlave[p]
      BY <3>1 DEF TypeOK
    <3>4. \A n : Carries(toSlave'[q], n) <=> Carries(toSlave[q], n) \/ n = k
      BY <2>1, <3>3, CarriesAppend
    <3>5. \A p \in Procs, n \in Seqs : Owns(p, n)' <=> Owns(p, n) \/ (p = q /\ n = k)
      BY <2>5, <3>3, <3>4 DEF Owns
    <3>6. \A n : Carries(toSlave[q], n) => n < k
      BY <2>2, <3>1, CarriedInSeqs DEF Addressed, Owns
    <3>7. Sorted(toSlave'[q])
      BY <2>1, <3>1, <3>3, <3>6, SortedAppend DEF Ordered
    <3>8. PendingWaitsForSocket'
      BY <2>4, <3>1 DEF PendingWaitsForSocket, Contains
    <3>9. Fresh'
      BY <2>4, <2>7, <3>5 DEF Fresh, q
    <3>10. Addressed'
      BY <2>1, <2>2, <2>4, <3>1, <3>2, <3>5 DEF Addressed, r
    <3>11. Ordered'
      <4>1. \A m \in Seqs : HandledBy(q, m) => m < k
        BY <2>1, <2>2, <3>1 DEF Addressed, Owns, k, Seqs
      <4>2. \A p \in Procs : \A m, n \in Seqs :
               HandledBy(p, m)' /\ Carries(toSlave'[p], n) => m < n
        BY <2>5, <3>3, <3>4, <4>1 DEF Ordered
      <4>3. \A p \in Procs : Sorted(toSlave'[p])
        BY <3>3, <3>7 DEF Ordered
      <4> QED BY <3>1, <4>2, <4>3 DEF Ordered
    <3>12. Unique'
      BY <2>3, <3>1, <3>5 DEF Unique
    <3> QED BY <2>6, <3>8, <3>9, <3>10, <3>11, <3>12
  <2>8. CASE sock[id] = Nobody
    <3>1. /\ pendingMessages' = [pendingMessages EXCEPT ![id] = Append(@, Message(k))]
          /\ UNCHANGED toSlave
      BY <1>9, <2>8 DEF SendMessage, k
    <3>2. /\ pendingMessages[id] \in Seq(ToSlaveMsgs)
          /\ pendingMessages'[id] = Append(pendingMessages[id], Message(k))
          /\ \A jd \in Ids : jd # id => pendingMessages'[jd] = pendingMessages[jd]
      BY <3>1, MessageKinds DEF TypeOK
    <3>3. \A n : Carries(pendingMessages'[id], n) <=> Carries(pendingMessages[id], n) \/ n = k
      BY <2>1, <3>2, CarriesAppend
    <3>4. \A p \in Procs, n \in Seqs : Owns(p, n)' <=> Owns(p, n)
      BY <2>5, <3>1 DEF Owns
    <3>5. \A n : Carries(pendingMessages[id], n) => n < k
      BY <2>2, CarriedInSeqs DEF Addressed
    <3>6. Sorted(pendingMessages'[id])
      BY <2>1, <3>2, <3>5, SortedAppend DEF Ordered
    <3>7. PendingWaitsForSocket'
      BY <1>9, <2>4, <2>8, <3>2 DEF PendingWaitsForSocket, Contains, SendMessage
    <3>8. Fresh'
      BY <2>4, <3>4 DEF Fresh
    <3>9. Addressed'
      <4>1. \A p \in Procs, n \in Seqs : Owns(p, n)' =>
               n <= Len(sent') /\ sent'[n].id = slaveId'[p] /\ p <= sent'[n].slave
        BY <2>2, <2>4, <3>4 DEF Addressed
      <4>2. \A jd \in Ids, n \in Seqs : Carries(pendingMessages'[jd], n) =>
               n <= Len(sent') /\ sent'[n] = [id |-> jd, slave |-> slaveLauncher'[jd]]
        <5> SUFFICES ASSUME NEW jd \in Ids, NEW n \in Seqs, Carries(pendingMessages'[jd], n)
                     PROVE  n <= Len(sent') /\ sent'[n] = [id |-> jd, slave |-> slaveLauncher'[jd]]
          OBVIOUS
        <5>1. CASE Carries(pendingMessages[jd], n)
          BY <2>2, <2>4, <5>1 DEF Addressed
        <5>2. CASE jd = id /\ n = k
          BY <2>1, <2>2, <2>4, <5>2 DEF r, Seqs
        <5> QED BY <3>2, <3>3, <5>1, <5>2
      <4> QED BY <4>1, <4>2 DEF Addressed
    <3>10. Ordered'
      BY <2>5, <3>1, <3>2, <3>6 DEF Ordered
    <3>11. Unique'
      BY <2>3, <3>2, <3>3, <3>4 DEF Unique
    <3> QED BY <2>6, <3>7, <3>8, <3>9, <3>10, <3>11
  <2> QED BY <2>7, <2>8
<1>10. ASSUME NEW p \in Procs, ReceiveMessage(p), ReceiveIdentify(p), Registrable(p)
       PROVE  Delivery'
  <2> DEFINE id == slaveId[p]
             s == [sock EXCEPT ![id] = p]
  <2>1. /\ sock' = s /\ SendPendingMessages(s)
        /\ UNCHANGED <<slaveLauncher, created, slaveId, state, conn, sent, handled>>
        /\ conn[p] = "open" /\ Contains(id) /\ sock[id] = Nobody
    BY <1>10 DEF ReceiveMessage, ReceiveIdentify, Registrable, procVars, histVars
  <2>2. id \in Ids /\ p # Nobody /\ id # NoId
    BY <1>0, <2>1 DEF Launches
  <2>3. \A jd \in Ids : sock[jd] # p
    <3>1. Has(toMaster[p], "Identify")
      BY <1>10, HasTail DEF ReceiveMessage, ReceiveIdentify, TypeOK
    <3> QED BY <3>1 DEF IdentifiesOnce
  <2>4. \A n \in Seqs : ~Owns(p, n)
    BY <2>1, <2>3 DEF Fresh
  <2> HIDE DEF id
  <2>5. /\ s[id] = p /\ \A jd \in Ids : jd # id => s[jd] = sock[jd]
        /\ \A jd \in Ids : s[jd] # Nobody /\ jd # id => pendingMessages[jd] = <<>>
    BY <2>2 DEF TypeOK, PendingWaitsForSocket
  <2>6. \A q \in Procs : q # p /\ slaveId[q] \in Ids /\ s[slaveId[q]] = q =>
           slaveId[q] # id /\ pendingMessages[slaveId[q]] = <<>>
    BY <1>0, <2>5
  <2> HIDE DEF s
  <2>7. /\ toSlave'[p] = toSlave[p] \o pendingMessages[id]
        /\ \A q \in Procs : q # p => toSlave'[q] \in {toSlave[q], toSlave[q] \o <<>>}
    BY <2>1, <2>2, <2>5, <2>6 DEF SendPendingMessages, id
  <2>8. \A q \in Procs : q # p => toSlave'[q] = toSlave[q]
    BY <2>7 DEF TypeOK
  <2>9. /\ pendingMessages'[id] = <<>>
        /\ \A jd \in Ids : jd # id => pendingMessages'[jd] = pendingMessages[jd]
    BY <2>1, <2>2, <2>5 DEF SendPendingMessages
  <2>10. /\ toSlave[p] \in Seq(ToSlaveMsgs) /\ pendingMessages[id] \in Seq(ToSlaveMsgs)
         /\ \A n : ~Carries(toSlave[p], n)
    <3>1. toSlave[p] \in Seq(ToSlaveMsgs) /\ pendingMessages[id] \in Seq(ToSlaveMsgs)
      BY <2>2, MessageKinds DEF TypeOK
    <3>2. \A n : ~Carries(toSlave[p], n)
      BY <2>4, CarriedInSeqs DEF Owns
    <3> QED BY <3>1, <3>2
  <2>11. \A n : Carries(toSlave'[p], n) <=> Carries(pendingMessages[id], n)
    BY <2>7, <2>10, CarriesConcat
  <2>12. Sorted(toSlave'[p])
    BY <2>2, <2>7, <2>10, SortedConcat DEF Ordered
  <2>13. \A q \in Procs : \A n : HandledBy(q, n)' <=> HandledBy(q, n)
    BY <2>1 DEF HandledBy
  <2>14. /\ \A n \in Seqs : Owns(p, n)' <=> Carries(pendingMessages[id], n)
         /\ \A q \in Procs, n \in Seqs : q # p => (Owns(q, n)' <=> Owns(q, n))
    BY <2>4, <2>8, <2>11, <2>13 DEF Owns
  <2>15. /\ \A n : ~Carries(pendingMessages'[id], n)
         /\ Sorted(pendingMessages'[id])
    BY <2>9 DEF Carries, Sorted
  <2>16. Launches'
    BY <2>1 DEF Launches, Contains
  <2>17. SocketsOfKin' /\ PendingWaitsForSocket'
    <3>1. SocketsOfKin'
      BY <2>1, <2>2, <2>5 DEF SocketsOfKin, Contains, id
    <3>2. PendingWaitsForSocket'
      BY <2>1, <2>5, <2>9 DEF PendingWaitsForSocket, Contains
    <3> QED BY <3>1, <3>2
  <2>18. Fresh'
    <3> SUFFICES ASSUME NEW q \in Procs, conn'[q] # "closed",
                        \A jd \in Ids : sock'[jd] # q, NEW n \in Seqs
                 PROVE  ~Owns(q, n)'
      BY DEF Fresh
    <3>1. q # p
      BY <2>1, <2>2, <2>5
    <3>2. \A jd \in Ids : sock[jd] # q
      BY <1>0, <2>1, <2>2, <2>5
    <3> QED BY <2>1, <2>14, <3>1, <3>2 DEF Fresh
  <2>19. Addressed'
    <3>1. \A n \in Seqs : Owns(p, n)' =>
             n <= Len(sent) /\ sent[n].id = slaveId[p] /\ p <= sent[n].slave
      <4> SUFFICES ASSUME NEW n \in Seqs, Carries(pendingMessages[id], n)
                   PROVE  n <= Len(sent) /\ sent[n].id = slaveId[p] /\ p <= sent[n].slave
        BY <2>14
      <4>1. n <= Len(sent) /\ sent[n] = [id |-> id, slave |-> slaveLauncher[id]]
        BY <2>2 DEF Addressed
      <4>2. sent[n].id = id /\ sent[n].slave = slaveLauncher[id]
        BY <4>1
      <4>3. p <= slaveLauncher[id]
        BY <2>1, <2>2 DEF Launches, id
      <4> QED BY <4>1, <4>2, <4>3 DEF id
    <3>2. \A q \in Procs, n \in Seqs : Owns(q, n)' =>
             n <= Len(sent) /\ sent[n].id = slaveId[q] /\ q <= sent[n].slave
      BY <2>14, <3>1 DEF Addressed
    <3>3. \A jd \in Ids, n \in Seqs : Carries(pendingMessages'[jd], n) =>
             Carries(pendingMessages[jd], n)
      BY <2>9, <2>15
    <3> QED BY <2>1, <3>2, <3>3 DEF Addressed
  <2>20. Ordered'
    <3>1. \A m \in Seqs : ~HandledBy(p, m)
      BY <2>4 DEF Owns
    <3> QED BY <2>8, <2>9, <2>12, <2>13, <2>15, <3>1 DEF Ordered
  <2>21. Unique'
    <3>1. \A n \in Seqs, jd \in Ids :
             Carries(pendingMessages[id], n) /\ Carries(pendingMessages[jd], n) => jd = id
      <4>1. ASSUME NEW jd \in Ids, NEW n \in Seqs, Carries(pendingMessages[jd], n)
            PROVE  sent[n].id = jd
        <5>1. sent[n] = [id |-> jd, slave |-> slaveLauncher[jd]]
          BY <4>1 DEF Addressed
        <5> QED BY <5>1
      <4> QED BY <2>2, <4>1
    <3>2. \A q \in Procs, n \in Seqs : q # p => ~(Owns(p, n)' /\ Owns(q, n)')
      BY <2>2, <2>14 DEF Unique
    <3>3. \A q, r \in Procs, n \in Seqs : Owns(q, n)' /\ Owns(r, n)' => q = r
      BY <2>14, <3>2 DEF Unique
    <3>4. \A q \in Procs, jd \in Ids, n \in Seqs :
             ~(Owns(q, n)' /\ Carries(pendingMessages'[jd], n))
      BY <2>9, <2>14, <2>15, <3>1 DEF Unique
    <3> QED BY <3>3, <3>4 DEF Unique
  <2> QED BY <2>16, <2>17, <2>18, <2>19, <2>20, <2>21
<1>11. ASSUME NEW p \in Procs, SlaveReceive(p) PROVE Delivery'
  <2> DEFINE m == Head(toSlave[p])
  <2>1. /\ toSlave[p] # <<>> /\ toSlave' = [toSlave EXCEPT ![p] = Tail(@)]
        /\ state[p] = "connected" /\ \E x \in {"connected", "dead"} : state' = [state EXCEPT ![p] = x]
        /\ UNCHANGED <<slaveLauncher, sock, pendingMessages, created, slaveId, conn, sent>>
    BY <1>11 DEF SlaveReceive, masterVars, TypeOK
  <2>2. /\ toSlave[p] \in Seq(ToSlaveMsgs) /\ m \in ToSlaveMsgs
        /\ toSlave'[p] = Tail(toSlave[p])
        /\ \A q \in Procs : q # p => toSlave'[q] = toSlave[q]
    BY <2>1 DEF TypeOK
  <2>3. /\ \A n : Carries(toSlave'[p], n) => Carries(toSlave[p], n)
        /\ Sorted(toSlave'[p])
        /\ m.cmd = "Message" => /\ Carries(toSlave[p], m.n) /\ m.n \in Seqs
                                /\ \A n : Carries(toSlave'[p], n) => m.n < n
    BY <2>1, <2>2, CarriesTail, MessageKinds DEF Ordered
  <2>4. /\ \A q \in Procs : q # p => handled'[q] = handled[q]
        /\ \/ handled'[p] = handled[p]
           \/ m.cmd = "Message" /\ handled'[p] = Append(handled[p], m.n)
    BY <1>11, SMTT(30) DEF SlaveReceive, TypeOK
  <2> HIDE DEF m
  <2>5. /\ \A q \in Procs : \A n : q # p => (HandledBy(q, n)' <=> HandledBy(q, n))
        /\ \A n : HandledBy(p, n)' => HandledBy(p, n) \/ (m.cmd = "Message" /\ n = m.n)
    <3>1. handled[p] \in Seq(Seqs)
      BY DEF TypeOK
    <3>2. \A n : m.cmd = "Message" /\ handled'[p] = Append(handled[p], m.n) /\ HandledBy(p, n)'
             => HandledBy(p, n) \/ n = m.n
      BY <2>3, <3>1 DEF HandledBy
    <3> QED BY <2>4, <3>2 DEF HandledBy
  <2>6. \A q \in Procs, n \in Seqs : Owns(q, n)' => Owns(q, n)
    BY <2>2, <2>3, <2>5 DEF Owns
  <2>7. Launches' /\ SocketsOfKin' /\ PendingWaitsForSocket'
    BY <2>1 DEF Launches, SocketsOfKin, PendingWaitsForSocket, Contains, TypeOK
  <2>8. Fresh' /\ Addressed' /\ Unique'
    BY <2>1, <2>6 DEF Fresh, Addressed, Unique
  <2>9. Ordered'
    <3>1. \A k, n \in Seqs : HandledBy(p, k)' /\ Carries(toSlave'[p], n) => k < n
      BY <2>3, <2>5 DEF Ordered
    <3>2. \A q \in Procs : \A k, n \in Seqs : HandledBy(q, k)' /\ Carries(toSlave'[q], n) => k < n
      BY <2>2, <2>5, <3>1 DEF Ordered
    <3>3. \A q \in Procs : Sorted(toSlave'[q])
      BY <2>2, <2>3 DEF Ordered
    <3> QED BY <2>1, <3>2, <3>3 DEF Ordered
  <2> QED BY <2>7, <2>8, <2>9
<1>12. CASE UNCHANGED vars
  BY <1>f, <1>12 DEF vars, masterVars, procVars, chanVars, histVars, Launches
<1> QED
  BY <1>1, <1>2, <1>3, <1>4, <1>5, <1>6, <1>7, <1>8, <1>9, <1>10, <1>11, <1>12
  DEF Next, MasterNext, SlaveNext, ReceiveMessage

------------------------------------------------------------------------------
(* The theorems.                                                              *)

(* TypeOK, Delivery and IdentifiesOnce together are inductive.                *)
THEOREM DeliveryInvariant == Spec => [](TypeOK /\ IdentifiesOnce /\ Delivery)
<1>1. Init => IdentifiesOnce /\ Delivery
  <2>1. Init => IdentifiesOnce
    BY DEF Init, IdentifiesOnce, Has, Once
  <2> QED BY <2>1, DeliveryInit
<1>2. TypeOK /\ TypeOK' /\ IdentifiesOnce /\ Delivery /\ [Next]_vars
        => IdentifiesOnce' /\ Delivery'
  BY DeliveryStep, IdentifiesOnceStep DEF Delivery
<1> QED BY <1>1, <1>2, TypeCorrect, PTL DEF Spec

(* The registered socket of an entry is the open connection of a process of   *)
(* the entry's id, in every behaviour (Master.cpp:120-157, 275-292).          *)
THEOREM SocketsAreOfKin == Spec => []SocketsOfKin
<1>1. Delivery => SocketsOfKin
  BY DEF Delivery
<1> QED BY <1>1, DeliveryInvariant, PTL

(* What waits in an entry waits for its first socket (Master.cpp:191-200).    *)
THEOREM PendingWaits == Spec => []PendingWaitsForSocket
<1>1. Delivery => PendingWaitsForSocket
  BY DEF Delivery
<1> QED BY <1>1, DeliveryInvariant, PTL

\* Only a process that has handled a message has anything to report.
ReportsAnswer ==
  \A p \in Procs : Has(toMaster[p], "Report") => \E n \in Seqs : HandledBy(p, n)

LEMMA ReportsAnswerStep == TypeOK /\ ReportsAnswer /\ [Next]_vars => ReportsAnswer'
<1> SUFFICES ASSUME TypeOK, ReportsAnswer, [Next]_vars PROVE ReportsAnswer'
  OBVIOUS
<1>1. \A p \in Procs : toMaster[p] \in Seq({"Identify", "Ping", "Report"})
  BY DEF TypeOK
<1>2. ASSUME NEW p \in Procs, NEW m \in {"Identify", "Ping"}
      PROVE  Has(Append(toMaster[p], m), "Report") => Has(toMaster[p], "Report")
  BY <1>1, HasAppend
<1>3. ASSUME NEW p \in Procs, toMaster[p] # <<>>
      PROVE  Has(Tail(toMaster[p]), "Report") => Has(toMaster[p], "Report")
  BY <1>1, <1>3, HasTail
\* Steps that handle nothing and bring no report to any queue.
<1>q. ASSUME UNCHANGED handled,
             \A p \in Procs : Has(toMaster'[p], "Report") => Has(toMaster[p], "Report")
      PROVE  ReportsAnswer'
  BY <1>q DEF ReportsAnswer, HandledBy
<1>4. CASE UNCHANGED <<toMaster, handled>>
  BY <1>4, <1>q
<1>5. ASSUME NEW p \in Procs, ReceiveMessage(p) PROVE ReportsAnswer'
  <2>1. /\ toMaster[p] # <<>> /\ toMaster' = [toMaster EXCEPT ![p] = Tail(@)]
        /\ UNCHANGED handled
    BY <1>5 DEF ReceiveMessage, histVars
  <2> QED BY <1>3, <1>q, <2>1 DEF TypeOK
<1>6. ASSUME NEW p \in Procs, MasterPing(p) PROVE ReportsAnswer'
  <2>1. toMaster' = [toMaster EXCEPT ![p] = Append(@, "Ping")] /\ UNCHANGED handled
    BY <1>6 DEF MasterPing, histVars
  <2> QED BY <1>2, <1>q, <2>1 DEF TypeOK
<1>7. ASSUME NEW p \in Procs, SlaveReceive(p) PROVE ReportsAnswer'
  <2> DEFINE m == Head(toSlave[p])
  <2>1. m \in ToSlaveMsgs
    BY <1>7 DEF SlaveReceive, TypeOK
  <2>2. CASE m.cmd # "Message"
    <3>1. /\ UNCHANGED handled
          /\ toMaster' = toMaster \/ toMaster' = [toMaster EXCEPT ![p] = Append(@, "Identify")]
      BY <1>7, <2>2 DEF SlaveReceive
    <3> QED BY <1>2, <1>q, <3>1 DEF TypeOK
  <2>3. CASE m.cmd = "Message"
    <3>1. /\ handled' = [handled EXCEPT ![p] = Append(@, m.n)]
          /\ toMaster' \in {toMaster, [toMaster EXCEPT ![p] = Append(@, "Report")]}
      BY <1>7, <2>3 DEF SlaveReceive
    <3>2. m.n \in Seqs /\ handled[p] \in Seq(Seqs)
      BY <2>1, <2>3, MessageKinds DEF TypeOK
    <3> HIDE DEF m
    <3>3. \E n \in Seqs : HandledBy(p, n)'
      <4>1. handled'[p] = Append(handled[p], m.n)
        BY <3>1 DEF TypeOK
      <4>2. /\ Len(handled'[p]) = Len(handled[p]) + 1 /\ Len(handled[p]) \in Nat
            /\ handled'[p][Len(handled[p]) + 1] = m.n
        BY <3>2, <4>1
      <4> QED BY <3>2, <4>2 DEF HandledBy
    <3>4. \A q \in Procs \ {p} : toMaster'[q] = toMaster[q] /\ handled'[q] = handled[q]
      BY <3>1 DEF TypeOK
    <3> QED BY <3>2, <3>3, <3>4 DEF ReportsAnswer, HandledBy
  <2> QED BY <2>2, <2>3
<1>8. ASSUME \/ UNCHANGED vars \/ DestroyMaster
             \/ \E id \in Ids : CreateSlave(id) \/ StopSlave(id) \/ SendMessage(id)
             \/ \E p \in Procs :
                  \/ AcceptConnection(p) \/ ProcessFinished(p) \/ KillTimerFires(p)
                  \/ StartFails(p) \/ Connect(p) \/ SlaveError(p) \/ Exit(p)
      PROVE  UNCHANGED <<toMaster, handled>>
  BY <1>8 DEF vars, DestroyMaster, CreateSlave, StopSlave, SendMessage, AcceptConnection,
     ProcessFinished, KillTimerFires, StartFails, Connect, SlaveError, Exit,
     chanVars, histVars
<1> QED BY <1>4, <1>5, <1>6, <1>7, <1>8 DEF Next, MasterNext, SlaveNext

(* A report that can still be read comes from the process registered for the  *)
(* id it serves (Master.cpp:247-256, 296): a message was handled, so the      *)
(* process is not Fresh, and its open connection is a socket of kin.          *)
THEOREM ReportsAreAttributable == Spec => []ReportsAttributable
<1>1. Init => ReportsAnswer
  BY DEF Init, ReportsAnswer, Has
<1>2. Delivery /\ ReportsAnswer => ReportsAttributable
  <2> SUFFICES ASSUME Delivery, ReportsAnswer, NEW p \in Procs, conn[p] = "open",
                      Has(toMaster[p], "Report")
               PROVE  sock[slaveId[p]] = p
    BY DEF ReportsAttributable, Has
  <2>1. PICK n \in Seqs : Owns(p, n)
    BY DEF ReportsAnswer, Owns
  <2>2. PICK id \in Ids : sock[id] = p
    BY <2>1 DEF Delivery, Fresh
  <2>3. slaveId[p] = id
    BY <2>2 DEF Delivery, SocketsOfKin, Procs, Nobody
  <2> QED BY <2>2, <2>3
<1> QED BY <1>1, <1>2, ReportsAnswerStep, DeliveryInvariant, PTL DEF Spec

(* A step is a step of the promise SlaveMessaging or leaves it alone.         *)
LEMMA MessagingStep ==
  TypeOK /\ Delivery /\ [Next]_vars => [Messaging!Next]_(Messaging!vars)
<1> SUFFICES ASSUME TypeOK, Delivery, [Next]_vars
             PROVE  Messaging!Next \/ UNCHANGED <<slaveId, sent, handled>>
  BY DEF Messaging!vars
<1> USE DEF Nobody, Delivery
<1>1. ASSUME NEW id \in Ids, CreateSlave(id) PROVE Messaging!Next
  <2>1. created + 1 \in Procs /\ slaveId[created + 1] = NoId
    <3>1. created + 1 \in Procs /\ created + 1 > created
      BY <1>1, BoundsAssumption DEF CreateSlave, TypeOK, Procs
    <3> QED BY <3>1 DEF Launches
  <2>2. Messaging!Launch(created + 1, id)
    BY <1>1, <2>1 DEF CreateSlave, histVars, Messaging!Launch
  <2> QED BY <2>1, <2>2 DEF Messaging!Next, Messaging!Procs, Procs
<1>2. ASSUME NEW id \in Ids, SendMessage(id) PROVE Messaging!Next
  <2>1. slaveLauncher[id] \in Procs /\ slaveId[slaveLauncher[id]] = id
    BY <1>2 DEF SendMessage, Contains, Launches, TypeOK
  <2>2. Messaging!Send(slaveLauncher[id])
    BY <1>2, <2>1 DEF SendMessage, procVars, Messaging!Send
  <2> QED BY <2>1, <2>2 DEF Messaging!Next, Messaging!Procs, Procs
<1>3. ASSUME NEW p \in Procs, SlaveReceive(p)
      PROVE  Messaging!Next \/ UNCHANGED <<slaveId, sent, handled>>
  <2> DEFINE m == Head(toSlave[p])
  <2>1. toSlave[p] # <<>> /\ toSlave[p] \in Seq(ToSlaveMsgs) /\ m \in ToSlaveMsgs
    BY <1>3 DEF SlaveReceive, TypeOK
  <2>2. CASE m.cmd # "Message"
    BY <1>3, <2>2 DEF SlaveReceive
  <2>3. CASE m.cmd = "Message"
    <3>1. m.n \in Seqs /\ Carries(toSlave[p], m.n)
      BY <2>1, <2>3, MessageKinds, CarriesTail
    <3>2. handled' = [handled EXCEPT ![p] = Append(@, m.n)] /\ UNCHANGED <<slaveId, sent>>
      BY <1>3, <2>3 DEF SlaveReceive
    <3> HIDE DEF m
    <3>3. m.n \in 1..Len(sent) /\ sent[m.n].id = slaveId[p] /\ p <= sent[m.n].slave
      <4>1. Owns(p, m.n)
        BY <3>1 DEF Owns
      <4>2. m.n <= Len(sent) /\ sent[m.n].id = slaveId[p] /\ p <= sent[m.n].slave
        BY <3>1, <4>1 DEF Addressed
      <4>3. m.n \in Nat /\ m.n >= 1 /\ Len(sent) \in Nat
        BY <3>1 DEF Seqs, TypeOK
      <4> QED BY <4>2, <4>3
    <3>4. \A i \in 1..Len(handled[p]) : handled[p][i] < m.n
      <4> SUFFICES ASSUME NEW i \in 1..Len(handled[p]) PROVE handled[p][i] < m.n
        OBVIOUS
      <4>1. handled[p][i] \in Seqs /\ HandledBy(p, handled[p][i])
        BY DEF TypeOK, HandledBy
      <4> QED BY <3>1, <4>1 DEF Ordered
    <3>5. \A q \in Procs : \A i \in 1..Len(handled[q]) : handled[q][i] # m.n
      <4> SUFFICES ASSUME NEW q \in Procs, NEW i \in 1..Len(handled[q]), handled[q][i] = m.n
                   PROVE  FALSE
        OBVIOUS
      <4>1. q = p
        BY <3>1 DEF Unique, Owns, HandledBy
      <4> QED BY <3>1, <3>4, <4>1 DEF Seqs
    <3>6. Messaging!Handle(p, m.n)
      BY <3>2, <3>3, <3>4, <3>5
      DEF Messaging!Handle, Messaging!MayHandle, Messaging!Procs, Procs
    <3> QED BY <3>3, <3>6 DEF Messaging!Next, Messaging!Procs, Procs
  <2> QED BY <2>2, <2>3
<1>4. ASSUME \/ UNCHANGED vars \/ DestroyMaster
             \/ \E id \in Ids : StopSlave(id)
             \/ \E p \in Procs :
                  \/ AcceptConnection(p) \/ ReceiveMessage(p) \/ ProcessFinished(p)
                  \/ KillTimerFires(p) \/ StartFails(p) \/ Connect(p) \/ MasterPing(p)
                  \/ SlaveError(p) \/ Exit(p)
      PROVE  UNCHANGED <<slaveId, sent, handled>>
  BY <1>4 DEF vars, DestroyMaster, StopSlave, AcceptConnection, ReceiveMessage,
     ProcessFinished, KillTimerFires, StartFails, Connect, MasterPing, SlaveError, Exit,
     procVars, histVars
<1> QED BY <1>1, <1>2, <1>3, <1>4 DEF Next, MasterNext, SlaveNext

(* IpcMaster implements SlaveMessaging: whatever the interleaving of calls,   *)
(* sockets, crashes and timers, a message is handled at most once, in order,  *)
(* and never by a successor of the process it was meant for.                  *)
THEOREM MessagingRefined == Spec => MessagingSpec
<1>1. Init => Messaging!Init
  BY DEF Init, Messaging!Init, Messaging!Procs, Procs
<1> QED BY <1>1, MessagingStep, DeliveryInvariant, PTL DEF Spec, MessagingSpec, Messaging!Spec
==============================================================================
