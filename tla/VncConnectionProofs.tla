------------------------- MODULE VncConnectionProofs ------------------------
(***************************************************************************)
(* Proofs about VncConnection: the types, and that events are fired in the *)
(* order in which they were accepted, for any hosts, commands and bounds;  *)
(* and about ClientWindow, which extends it: the computer gets into the    *)
(* mode of its window, for any timeouts and number of commands.            *)
(***************************************************************************)
EXTENDS ClientWindow, SequenceTheorems, TLAPS

USE NoHostAssumption, TimeoutAssumption, BoundsAssumption

\* What a queue becomes when an event is taken from its front or put at its end.
LEMMA QueueSteps ==
  ASSUME NEW S, NEW q \in Seq(S), NEW e \in S
  PROVE /\ <<>> \in Seq(S) /\ <<e>> \in Seq(S)
        /\ q # <<>> => /\ Head(q) \in S /\ Head(q) = q[1]
                       /\ Tail(q) \in Seq(S)
                       /\ Len(Tail(q)) = Len(q) - 1
                       /\ \A i \in 1..Len(q) - 1 : Tail(q)[i] = q[i + 1]
        /\ q \o <<e>> \in Seq(S)
        /\ Len(q \o <<e>>) = Len(q) + 1
        /\ \A i \in 1..Len(q) : (q \o <<e>>)[i] = q[i]
        /\ (q \o <<e>>)[Len(q) + 1] = e
  OBVIOUS

\* The one event enqueueEvent() is called with, as Enqueue puts it.
LEMMA OneEvent ==
  ASSUME NEW c \in Commands
  PROVE [i \in 1..Len(<<c>>) |-> [n |-> accepted + i, cmd |-> <<c>>[i], host |-> host]]
          = <<[n |-> accepted + 1, cmd |-> c, host |-> host]>>
  OBVIOUS

\* A queue behind one event.
LEMMA EventThenQueue ==
  ASSUME NEW S, NEW p \in Seq(S), NEW q \in Seq(S), Len(p) = 1
  PROVE /\ Len(p \o q) = 1 + Len(q)
        /\ (p \o q)[1] = p[1]
        /\ \A i \in 2..Len(q) + 1 : (p \o q)[i] = q[i - 1]
<1>1. /\ Len(p \o q) = Len(p) + Len(q)
      /\ \A i \in 1..Len(p) + Len(q) :
           (p \o q)[i] = IF i <= Len(p) THEN p[i] ELSE q[i - Len(p)]
  BY ConcatProperties
<1> QED BY <1>1

\* The events under way are of a set of numbered ones.
Numbered(S) ==
  /\ eventQueue \in Seq(S) /\ inHand \in Seq(S)
  /\ \A e \in S : e.n \in Nat
  /\ fired \in Nat /\ accepted \in Nat

LEMMA NumbersUnderWay ==
  ASSUME NEW S, Numbered(S)
  PROVE /\ \A i \in 1..Len(eventQueue) : eventQueue[i].n \in Nat
        /\ inHand # <<>> => inHand[1].n \in Nat
        /\ Len(eventQueue) \in Nat /\ fired \in Nat /\ accepted \in Nat
<1>1. \A i \in 1..Len(eventQueue) : eventQueue[i] \in S
  BY DEF Numbered
<1>2. inHand # <<>> => inHand[1] \in S
  BY DEF Numbered
<1> QED BY <1>1, <1>2 DEF Numbered

LEMMA EventsAreNumbered == TypeOK => Numbered(Events)
BY DEF TypeOK, Events, Numbered

LEMMA NumberedEvents ==
  ASSUME TypeOK
  PROVE /\ \A i \in 1..Len(eventQueue) : eventQueue[i].n \in Nat
        /\ inHand # <<>> => inHand[1].n \in Nat
        /\ Len(eventQueue) \in Nat /\ fired \in Nat /\ accepted \in Nat
BY EventsAreNumbered, NumbersUnderWay

\* The numbers of the events between the last one fired and the last accepted
\* grow: first the event in hand, which is there while it is fired, then the
\* queue.
Hand ==
  /\ pc = "fire" <=> inHand # <<>>
  /\ Len(inHand) <= 1
  /\ inHand # <<>> =>
       /\ fired < inHand[1].n /\ inHand[1].n <= accepted
       /\ \A i \in 1..Len(eventQueue) : inHand[1].n < eventQueue[i].n

Queue ==
  /\ fired <= accepted
  /\ \A i \in 1..Len(eventQueue) : fired < eventQueue[i].n /\ eventQueue[i].n <= accepted
  /\ \A i, j \in 1..Len(eventQueue) : i < j => eventQueue[i].n < eventQueue[j].n

Order == Hand /\ Queue

LEMMA DequeueKeepsOrder ==
  ASSUME NEW S, Numbered(S), Order, Dequeue
  PROVE  Order'
<1>0. eventQueue \in Seq(S) /\ Head(eventQueue) \in S
  BY DEF Numbered, Dequeue
<1>1. /\ inHand = <<>> /\ inHand' = <<eventQueue[1]>> /\ Len(eventQueue) > 0
      /\ Len(eventQueue') = Len(eventQueue) - 1
      /\ \A i \in 1..Len(eventQueue) - 1 : eventQueue'[i] = eventQueue[i + 1]
      /\ accepted' = accepted /\ fired' = fired
  BY <1>0, QueueSteps DEF Dequeue, Order, Hand, ownerVars
<1>2. Hand'
  BY <1>1, NumbersUnderWay DEF Dequeue, Order, Hand, Queue
<1>3. Queue'
  <2>1. \A i \in 1..Len(eventQueue') :
          i + 1 \in 1..Len(eventQueue) /\ eventQueue'[i] = eventQueue[i + 1]
    BY <1>1
  <2>2. \A i, j \in 1..Len(eventQueue') : i < j => i + 1 < j + 1
    OBVIOUS
  <2> QED BY <1>1, <2>1, <2>2, NumbersUnderWay DEF Order, Queue
<1> QED BY <1>2, <1>3 DEF Order

LEMMA FireKeepsOrder ==
  ASSUME NEW S, Numbered(S), Order, Fire
  PROVE  Order'
BY NumbersUnderWay DEF Fire, Order, Hand, Queue, ownerVars

\* Events with the next numbers, put at the end.
LEMMA AppendKeepsOrder ==
  ASSUME NEW S, Numbered(S), Order,
         NEW t \in Seq(S), \A i \in 1..Len(t) : t[i].n = accepted + i,
         eventQueue' = eventQueue \o t, accepted' = accepted + Len(t),
         UNCHANGED <<pc, inHand, fired>>
  PROVE  Order'
<1> DEFINE l == Len(eventQueue)
           m == Len(t)
<1>1. /\ l \in Nat /\ m \in Nat /\ Len(eventQueue') = l + m
      /\ \A i \in 1..l : eventQueue'[i] = eventQueue[i]
      /\ \A i \in l + 1..l + m : i - l \in 1..m /\ eventQueue'[i] = t[i - l]
  <2>1. eventQueue \in Seq(S)
    BY DEF Numbered
  <2>2. /\ Len(eventQueue \o t) = l + m
        /\ \A i \in 1..l + m :
             (eventQueue \o t)[i] = IF i <= l THEN eventQueue[i] ELSE t[i - l]
    BY <2>1, ConcatProperties
  <2>3. l \in Nat /\ m \in Nat
    BY <2>1
  <2> QED BY <2>2, <2>3
<1>2. \A i \in 1..l : /\ eventQueue'[i].n = eventQueue[i].n /\ eventQueue[i].n \in Nat
                       /\ fired < eventQueue'[i].n /\ eventQueue'[i].n <= accepted
  BY <1>1, NumbersUnderWay DEF Order, Queue
<1>3. \A i \in l + 1..l + m : eventQueue'[i].n = accepted + (i - l)
  BY <1>1
<1>4. accepted \in Nat /\ fired \in Nat /\ fired <= accepted
  BY NumbersUnderWay DEF Order, Queue
<1>5. \A i \in 1..l + m : i \in 1..l \/ i \in l + 1..l + m
  BY <1>1
<1> HIDE DEF l, m
<1>6. \A i \in 1..l + m : fired < eventQueue'[i].n /\ eventQueue'[i].n <= accepted + m
  <2> SUFFICES ASSUME NEW i \in 1..l + m
               PROVE  fired < eventQueue'[i].n /\ eventQueue'[i].n <= accepted + m
    OBVIOUS
  <2>1. CASE i \in 1..l
    BY <2>1, <1>1, <1>2, <1>4
  <2>2. CASE i \in l + 1..l + m
    <3>1. eventQueue'[i].n = accepted + (i - l)
      BY <2>2, <1>3
    <3>2. i \in Nat /\ l \in Nat /\ m \in Nat /\ l < i /\ i <= l + m
      BY <2>2, <1>1
    <3> QED BY <3>1, <3>2, <1>4
  <2> QED BY <1>5, <2>1, <2>2
<1>7. \A i, j \in 1..l + m : i < j => eventQueue'[i].n < eventQueue'[j].n
  <2> SUFFICES ASSUME NEW i \in 1..l + m, NEW j \in 1..l + m, i < j
               PROVE  eventQueue'[i].n < eventQueue'[j].n
    OBVIOUS
  <2>1. CASE j \in 1..l
    <3>1. i \in 1..l
      BY <2>1, <1>1
    <3>2. eventQueue[i].n < eventQueue[j].n
      BY <2>1, <3>1 DEF Order, Queue, l
    <3> QED BY <2>1, <3>1, <3>2, <1>2
  <2>2. CASE i \in 1..l /\ j \in l + 1..l + m
    <3>1. eventQueue'[i].n \in Nat /\ eventQueue'[i].n <= accepted
      BY <2>2, <1>2
    <3>2. eventQueue'[j].n = accepted + (j - l)
      BY <2>2, <1>3
    <3>3. j \in Nat /\ l \in Nat /\ l < j
      BY <2>2, <1>1
    <3>4. accepted + (j - l) \in Nat /\ accepted < accepted + (j - l)
      BY <3>3, <1>4
    <3>5. \A x \in Nat, y \in Nat : x <= accepted /\ accepted < y => x < y
      BY <1>4
    <3>6. eventQueue'[i].n < accepted + (j - l)
      BY <3>1, <3>4, <3>5
    <3> QED BY <3>2, <3>6
  <2>3. CASE i \in l + 1..l + m /\ j \in l + 1..l + m
    <3>1. eventQueue'[i].n = accepted + (i - l) /\ eventQueue'[j].n = accepted + (j - l)
      BY <2>3, <1>3
    <3>2. i \in Nat /\ j \in Nat /\ l \in Nat
      BY <2>3, <1>1
    <3> QED BY <3>1, <3>2, <1>4
  <2>4. ~(i \in l + 1..l + m /\ j \in 1..l)
    BY <1>1
  <2> QED BY <1>5, <2>1, <2>2, <2>3, <2>4
<1>8. accepted' = accepted + m
  BY DEF m
<1>9. Queue'
  <2>1. fired' = fired /\ fired <= accepted + m /\ Len(eventQueue') = l + m
    BY <1>1, <1>4
  <2> QED BY <2>1, <1>6, <1>7, <1>8 DEF Queue
<1>10. Hand'
  <2>1. /\ pc' = "fire" <=> inHand' # <<>>
        /\ Len(inHand') <= 1
    BY DEF Order, Hand
  <2>2. ASSUME inHand # <<>>
        PROVE  /\ fired' < inHand'[1].n /\ inHand'[1].n <= accepted'
               /\ \A i \in 1..l + m : inHand'[1].n < eventQueue'[i].n
    <3>1. /\ inHand[1].n \in Nat /\ fired < inHand[1].n /\ inHand[1].n <= accepted
          /\ \A i \in 1..l : inHand[1].n < eventQueue[i].n
      BY <2>2, NumbersUnderWay DEF Order, Hand, l
    <3>2. inHand[1].n <= accepted + m
      BY <3>1, <1>1, <1>4
    <3>3. ASSUME NEW i \in 1..l + m PROVE inHand[1].n < eventQueue'[i].n
      <4>1. CASE i \in 1..l
        BY <4>1, <3>1, <1>2
      <4>2. CASE i \in l + 1..l + m
        <5>1. eventQueue'[i].n = accepted + (i - l)
          BY <4>2, <1>3
        <5>2. i \in Nat /\ l \in Nat /\ l < i
          BY <4>2, <1>1
        <5>3. accepted + (i - l) \in Nat /\ accepted < accepted + (i - l)
          BY <5>2, <1>4
        <5>4. \A x \in Nat, y \in Nat : x <= accepted /\ accepted < y => x < y
          BY <1>4
        <5>5. inHand[1].n < accepted + (i - l)
          BY <3>1, <5>3, <5>4
        <5> QED BY <5>1, <5>5
      <4> QED BY <1>5, <4>1, <4>2
    <3> QED BY <3>1, <3>2, <3>3, <1>8
  <2> QED BY <2>1, <2>2, <1>1 DEF Hand
<1> QED BY <1>9, <1>10 DEF Order

(* The types, with the event in hand (ItalcVncConnection.cpp:376-741).         *)
THEOREM TypeCorrect == Spec => [](TypeOK /\ (pc = "fire" <=> inHand # <<>>))
<1> DEFINE Types == TypeOK /\ (pc = "fire" <=> inHand # <<>>)
<1>1. Init => Types
  <2> SUFFICES ASSUME Init PROVE Types
    OBVIOUS
  <2>1. eventQueue \in Seq(Events) /\ inHand \in Seq(Events)
    BY DEF Init
  <2>2. terminateIn \in 0..Off /\ state \in States
    BY DEF Init, Off, States
  <2>3. accepted \in 0..MaxEvents /\ fired \in 0..MaxEvents /\ calls \in 0..MaxCalls
    BY DEF Init
  <2>4. pc # "fire" /\ inHand = <<>>
    BY DEF Init
  <2>5. host \in Hosts /\ target \in Hosts /\ session = NoHost /\ up \in SUBSET Hosts
        /\ pc = "stopped" /\ interrupted \in BOOLEAN
    BY DEF Init
  <2> QED BY <2>1, <2>2, <2>3, <2>4, <2>5 DEF TypeOK
<1>2. Types /\ [Next]_vars => Types'
  <2> SUFFICES ASSUME Types, [Next]_vars PROVE Types'
    OBVIOUS
  <2> USE DEF TypeOK, Off, States
  <2>1. CASE Thread
    <3> USE DEF ownerVars, RunEnds
    <3>1. CASE Run BY <3>1 DEF Run
    <3>2. CASE Attempt BY <3>2 DEF Attempt
    <3>3. CASE Sleep BY <3>3 DEF Sleep
    <3>4. CASE Loop BY <3>4 DEF Loop
    <3>5. CASE Dequeue
      <4>1. Head(eventQueue) \in Events /\ Tail(eventQueue) \in Seq(Events)
        BY <3>5 DEF Dequeue
      <4>2. <<Head(eventQueue)>> \in Seq(Events) /\ <<Head(eventQueue)>> # <<>>
        BY <4>1
      <4> QED BY <3>5, <4>1, <4>2 DEF Dequeue
    <3>6. CASE Drained BY <3>6 DEF Drained
    <3>7. CASE End BY <3>7 DEF End
    <3> QED BY <2>1, <3>1, <3>2, <3>3, <3>4, <3>5, <3>6, <3>7 DEF Thread
  <2>2. CASE Network
    <3> USE DEF ownerVars
    <3>1. CASE InitOk BY <3>1 DEF InitOk
    <3>2. CASE InitFails BY <3>2 DEF InitFails
    <3>3. CASE Fire
      <4>1. <<>> \in Seq(Events)
        OBVIOUS
      <4>2. inHand[1] \in Events
        BY <3>3 DEF Fire
      <4>3. inHand[1].n \in 0..MaxEvents
        BY <4>2 DEF Events
      <4> QED BY <3>3, <4>1, <4>3 DEF Fire
    <3> QED BY <2>2, <3>1, <3>2, <3>3 DEF Network
  <2>3. CASE Terminate
    <3>1. <<>> \in Seq(Events)
      OBVIOUS
    <3> QED BY <2>3, <3>1 DEF Terminate, ownerVars
  <2>4. CASE Call
    <3> USE DEF queueVars, Running, RequestInterruption
    <3>1. ASSUME calls < MaxCalls, calls' = calls + 1,
                 Start \/ Stop \/ \E h \in Hosts : Reset(h)
          PROVE Types'
      <4>0. calls' \in 0..MaxCalls
        BY <3>1
      <4>4. RequestInterruption => interrupted' \in BOOLEAN /\ terminateIn' \in 0..Off
        <5>1. Timeout \in 0..Off
          OBVIOUS
        <5> HIDE DEF Off
        <5>2. RequestInterruption => interrupted' \in BOOLEAN
          OBVIOUS
        <5>3. RequestInterruption => terminateIn' \in 0..Off
          BY <5>1
        <5> QED BY <5>2, <5>3
      <4>1. CASE Start
        <5>1. /\ pc' \in {pc, "run"} /\ (pc' = "fire" <=> pc = "fire")
              /\ interrupted' \in BOOLEAN
          BY <4>1 DEF Start
        <5> QED BY <4>0, <4>1, <5>1 DEF Start
      <4>2. CASE Stop
        <5>1. interrupted' \in BOOLEAN /\ terminateIn' \in 0..Off
          BY <4>2, <4>4 DEF Stop
        <5> QED BY <4>0, <4>2, <5>1 DEF Stop
      <4>3. ASSUME NEW h \in Hosts, Reset(h) PROVE Types'
        <5>1. /\ pc' \in {pc, "run"} /\ (pc' = "fire" <=> pc = "fire")
              /\ interrupted' \in BOOLEAN /\ terminateIn' \in 0..Off /\ host' \in Hosts
          BY <4>3, <4>4 DEF Reset
        <5> QED BY <4>0, <4>3, <5>1 DEF Reset
      <4> QED BY <3>1, <4>1, <4>2, <4>3
    <3>2. ASSUME NEW c \in Commands, EnqueueEvents(<<c>>),
                 UNCHANGED <<threadVars, host, interrupted, up, fired, calls>>
          PROVE Types'
      <4>1. CASE state = "Connected"
        <5> DEFINE e == [n |-> accepted + 1, cmd |-> c, host |-> host]
        <5>1. accepted + 1 <= MaxEvents /\ accepted' = accepted + 1
              /\ eventQueue' = eventQueue \o <<e>>
          BY <3>2, <4>1, OneEvent DEF EnqueueEvents, Enqueue
        <5>2. e \in Events
          BY <5>1 DEF Events
        <5>3. eventQueue' \in Seq(Events)
          BY <5>1, <5>2, QueueSteps
        <5> QED BY <3>2, <5>1, <5>3 DEF threadVars
      <4>2. CASE state # "Connected"
        BY <3>2, <4>2 DEF EnqueueEvents, threadVars
      <4> QED BY <4>1, <4>2
    <3> QED BY <2>4, <3>1, <3>2 DEF Call
  <2>5. CASE Tick BY <2>5 DEF Tick, Countdown, queueVars
  <2>6. CASE \E h \in Hosts : HostDown(h) \/ HostUp(h)
    BY <2>6 DEF HostDown, HostUp
  <2>7. CASE UNCHANGED vars BY <2>7 DEF vars, threadVars
  <2> QED BY <2>1, <2>2, <2>3, <2>4, <2>5, <2>6, <2>7 DEF Next
<1> QED BY <1>1, <1>2, PTL DEF Spec

(* The inductive invariant: events wait in the order of their numbers, all of  *)
(* them newer than the last one fired (ItalcVncConnection.cpp:666-685).        *)
THEOREM OrderInvariant == Spec => [](TypeOK /\ Order)
<1>1. Init => Order
  BY DEF Init, Order, Hand, Queue
<1>2. TypeOK /\ Order /\ TypeOK' /\ [Next]_vars => Order'
  <2> SUFFICES ASSUME TypeOK, Order, TypeOK', [Next]_vars PROVE Order'
    OBVIOUS
  <2> USE DEF TypeOK
  <2>1. CASE UNCHANGED <<eventQueue, inHand, accepted, fired>> /\ (pc = "fire" <=> pc' = "fire")
    BY <2>1 DEF Order, Hand, Queue
  <2>2. CASE Dequeue
    BY <2>2, EventsAreNumbered, DequeueKeepsOrder
  <2>3. CASE Fire
    BY <2>3, EventsAreNumbered, FireKeepsOrder
  <2>4. CASE Terminate
    BY <2>4 DEF Terminate, Order, Hand, Queue, ownerVars
  <2>5. ASSUME NEW c \in Commands, EnqueueEvents(<<c>>), UNCHANGED <<threadVars, fired>>
        PROVE Order'
    <3>1. CASE state = "Connected"
      <4> DEFINE e == [n |-> accepted + 1, cmd |-> c, host |-> host]
      <4>1. /\ accepted' = accepted + 1 /\ accepted + 1 <= MaxEvents
            /\ eventQueue' = eventQueue \o <<e>>
        BY <2>5, <3>1, OneEvent DEF EnqueueEvents, Enqueue
      <4>2. e \in Events
        BY <4>1 DEF Events
      <4>3. /\ <<e>> \in Seq(Events) /\ Len(<<e>>) = 1
            /\ \A i \in 1..Len(<<e>>) : <<e>>[i].n = accepted + i
        BY <4>2
      <4> HIDE DEF e
      <4> QED BY <2>5, <4>1, <4>3, EventsAreNumbered, AppendKeepsOrder DEF threadVars
    <3>2. CASE state # "Connected"
      BY <2>5, <3>2, <2>1 DEF EnqueueEvents, threadVars
    <3> QED BY <3>1, <3>2
  <2>6. CASE Run \/ Attempt \/ Sleep \/ Loop \/ Drained \/ End \/ InitOk \/ InitFails
    BY <2>6, <2>1 DEF Run, RunEnds, Attempt, Sleep, Loop, Drained, End, InitOk, InitFails, ownerVars
  <2>7. CASE Start \/ Stop \/ \E h \in Hosts : Reset(h)
    BY <2>7, <2>1 DEF Start, Stop, Reset, queueVars, Running
  <2>8. CASE Tick \/ \E h \in Hosts : HostDown(h) \/ HostUp(h)
    BY <2>8, <2>1 DEF Tick, HostDown, HostUp, queueVars
  <2>9. CASE UNCHANGED vars
    BY <2>9, <2>1 DEF vars, threadVars
  <2> QED BY <2>2, <2>3, <2>4, <2>5, <2>6, <2>7, <2>8, <2>9
          DEF Next, Thread, Network, Call
<1> QED BY <1>1, <1>2, TypeCorrect, PTL DEF Spec

\* What waits in this order is fired in this order.
LEMMA OrderIsFiredInOrder ==
  ASSUME NEW S, Numbered(S), Order
  PROVE  FiredInOrder
<1> DEFINE waiting == inHand \o eventQueue
<1>1. CASE inHand = <<>>
  <2>1. waiting = eventQueue
    <3>1. eventQueue \in Seq(S)
      BY DEF Numbered
    <3> QED BY <1>1, <3>1
  <2>2. \A i \in 1..Len(eventQueue) :
          eventQueue[i].n > (IF i = 1 THEN fired ELSE eventQueue[i - 1].n)
    <3> SUFFICES ASSUME NEW i \in 1..Len(eventQueue)
                 PROVE eventQueue[i].n > (IF i = 1 THEN fired ELSE eventQueue[i - 1].n)
      OBVIOUS
    <3>1. CASE i = 1
      BY <3>1, NumbersUnderWay DEF Order, Queue
    <3>2. CASE i # 1
      <4>1. i - 1 \in 1..Len(eventQueue) /\ i - 1 < i
        BY <3>2, NumbersUnderWay
      <4> QED BY <3>2, <4>1, NumbersUnderWay DEF Order, Queue
    <3> QED BY <3>1, <3>2
  <2> QED BY <2>1, <2>2 DEF FiredInOrder
<1>2. CASE inHand # <<>>
  <2>1. Len(inHand) = 1
    <3>1. Len(inHand) \in Nat \ {0}
      BY <1>2, EmptySeq DEF Numbered
    <3>2. Len(inHand) <= 1
      BY DEF Order, Hand
    <3>3. \A n \in Nat \ {0} : n <= 1 => n = 1
      OBVIOUS
    <3> QED BY <3>1, <3>2, <3>3, Zenon
  <2>2. /\ Len(waiting) = Len(eventQueue) + 1
        /\ waiting[1] = inHand[1]
        /\ \A i \in 2..Len(eventQueue) + 1 : waiting[i] = eventQueue[i - 1]
    <3>1. inHand \in Seq(S) /\ eventQueue \in Seq(S)
      BY DEF Numbered
    <3> QED BY <2>1, <3>1, EventThenQueue
  <2>3. \A i \in 1..Len(waiting) :
          waiting[i].n > (IF i = 1 THEN fired ELSE waiting[i - 1].n)
    <3> SUFFICES ASSUME NEW i \in 1..Len(waiting)
                 PROVE waiting[i].n > (IF i = 1 THEN fired ELSE waiting[i - 1].n)
      OBVIOUS
    <3> HIDE DEF waiting
    <3>0. i \in 1..Len(eventQueue) + 1
      BY <2>2
    <3>1. CASE i = 1
      BY <1>2, <2>2, <3>1, NumbersUnderWay DEF Order, Hand
    <3>2. CASE i = 2
      <4>1. waiting[i] = eventQueue[1] /\ 1 \in 1..Len(eventQueue) /\ waiting[i - 1] = inHand[1]
        BY <2>2, <3>0, <3>2, NumbersUnderWay
      <4> QED BY <1>2, <4>1, <3>2, NumbersUnderWay DEF Order, Hand
    <3>3. CASE i > 2
      <4>1. /\ waiting[i] = eventQueue[i - 1] /\ waiting[i - 1] = eventQueue[i - 2]
            /\ i - 1 \in 1..Len(eventQueue) /\ i - 2 \in 1..Len(eventQueue) /\ i - 2 < i - 1
        BY <2>2, <3>0, <3>3, NumbersUnderWay
      <4> QED BY <4>1, <3>3, NumbersUnderWay DEF Order, Queue
    <3> QED BY <3>0, <3>1, <3>2, <3>3, NumbersUnderWay
  <2> QED BY <2>3 DEF FiredInOrder
<1> QED BY <1>1, <1>2

(* Events are fired in the order in which they were accepted, none twice       *)
(* (ItalcVncConnection.cpp:666-685, 729-738).                                  *)
THEOREM FiringIsOrdered == Spec => []FiredInOrder
<1>1. TypeOK /\ Order => FiredInOrder
  BY EventsAreNumbered, OrderIsFiredInOrder
<1> QED BY <1>1, OrderInvariant, PTL

----------------------------------------------------------------------------
(* The window: of the commands of one kind only the last one counts         *)
(* (ima/src/Client.cpp:593-644).                                            *)

\* What takes a computer into a mode and out of it, and the slave that shows it.
Kinds == {[mode |-> "locked", slave |-> "ScreenLock", on |-> "lock", off |-> "unlock"],
          [mode |-> "demo", slave |-> "DemoClient", on |-> "startDemo", off |-> "stopDemo"]}

\* The command of the kind that fits the mode of the window.
Fitting(k) == IF mode = k.mode THEN k.on ELSE k.off

OfKind(e, k) == e.cmd \in {k.on, k.off}
NoneIn(q, k) == \A i \in 1..Len(q) : ~OfKind(q[i], k)
LastIn(q, k, c) == \E i \in 1..Len(q) :
  q[i].cmd = c /\ \A j \in 1..Len(q) : j > i => ~OfKind(q[j], k)

\* The last command of the kind that was not executed fits, or there is none and
\* the computer is where the window says.
Destined(k) ==
  \/ LastIn(eventQueue, k, Fitting(k))
  \/ /\ NoneIn(eventQueue, k)
     /\ IF inHand # <<>> /\ OfKind(inHand[1], k)
        THEN inHand[1].cmd = Fitting(k)
        ELSE k.slave \in slaves <=> mode = k.mode

AllDestined == agreed => \A k \in Kinds : Destined(k)

WindowTypes ==
  /\ WindowTypeOK
  /\ host \in Hosts /\ accepted \in Nat
  /\ pc = "fire" <=> inHand # <<>>

\* What is put at the end of a queue.
LEMMA Concatenated ==
  ASSUME NEW q \in Seq(Orders), NEW t \in Seq(Orders), NEW k, NEW c
  PROVE  /\ q \o t \in Seq(Orders)
         /\ LastIn(t, k, c) => LastIn(q \o t, k, c)
         /\ NoneIn(t, k) => /\ LastIn(q, k, c) => LastIn(q \o t, k, c)
                            /\ NoneIn(q, k) => NoneIn(q \o t, k)
<1>1. /\ Len(q) \in Nat /\ Len(t) \in Nat
      /\ Len(q \o t) = Len(q) + Len(t)
      /\ \A i \in 1..Len(q) + Len(t) :
           (q \o t)[i] = IF i <= Len(q) THEN q[i] ELSE t[i - Len(q)]
  BY ConcatProperties
<1> DEFINE qt == q \o t
<1>2. /\ \A i \in 1..Len(q) : i \in 1..Len(qt) /\ qt[i] = q[i]
      /\ \A i \in 1..Len(t) : Len(q) + i \in 1..Len(qt) /\ qt[Len(q) + i] = t[i]
      /\ \A i \in 1..Len(qt) : \/ i \in 1..Len(q)
                               \/ i - Len(q) \in 1..Len(t) /\ qt[i] = t[i - Len(q)]
  BY <1>1
<1>3. qt \in Seq(Orders)
  OBVIOUS
<1> HIDE DEF qt
<1>4. ASSUME LastIn(t, k, c) PROVE LastIn(qt, k, c)
  <2>1. PICK i \in 1..Len(t) : t[i].cmd = c /\ \A j \in 1..Len(t) : j > i => ~OfKind(t[j], k)
    BY <1>4 DEF LastIn
  <2>2. ASSUME NEW j \in 1..Len(qt), j > Len(q) + i PROVE ~OfKind(qt[j], k)
    <3>1. j - Len(q) \in 1..Len(t) /\ qt[j] = t[j - Len(q)] /\ j - Len(q) > i
      BY <1>1, <1>2, <2>2
    <3> QED BY <2>1, <3>1
  <2>3. Len(q) + i \in 1..Len(qt) /\ qt[Len(q) + i].cmd = c
    BY <1>2, <2>1
  <2> QED BY <2>2, <2>3 DEF LastIn
<1>5. ASSUME NoneIn(t, k), LastIn(q, k, c) PROVE LastIn(qt, k, c)
  <2>1. PICK i \in 1..Len(q) : q[i].cmd = c /\ \A j \in 1..Len(q) : j > i => ~OfKind(q[j], k)
    BY <1>5 DEF LastIn
  <2>2. \A j \in 1..Len(qt) : j > i => ~OfKind(qt[j], k)
    BY <1>2, <1>5, <2>1 DEF NoneIn
  <2>3. i \in 1..Len(qt) /\ qt[i].cmd = c
    BY <1>2, <2>1
  <2> QED BY <2>2, <2>3 DEF LastIn
<1>6. ASSUME NoneIn(t, k), NoneIn(q, k) PROVE NoneIn(qt, k)
  BY <1>2, <1>6 DEF NoneIn
<1> QED BY <1>3, <1>4, <1>5, <1>6 DEF qt

\* What is taken from the front of a queue.
LEMMA Taken ==
  ASSUME NEW q \in Seq(Orders), q # <<>>, NEW k, NEW c
  PROVE  /\ Head(q) \in Orders /\ Tail(q) \in Seq(Orders)
         /\ LastIn(q, k, c) => \/ LastIn(Tail(q), k, c)
                               \/ Head(q).cmd = c /\ NoneIn(Tail(q), k)
         /\ NoneIn(q, k) => ~OfKind(Head(q), k) /\ NoneIn(Tail(q), k)
<1>1. /\ Len(q) \in Nat \ {0} /\ Len(Tail(q)) = Len(q) - 1 /\ Head(q) = q[1]
      /\ \A i \in 1..(Len(q) - 1) : Tail(q)[i] = q[i + 1]
      /\ Head(q) \in Orders /\ Tail(q) \in Seq(Orders)
  OBVIOUS
<1>2. NoneIn(q, k) => ~OfKind(Head(q), k) /\ NoneIn(Tail(q), k)
  BY <1>1 DEF NoneIn
<1>3. ASSUME NEW i \in 1..Len(q), q[i].cmd = c, \A j \in 1..Len(q) : j > i => ~OfKind(q[j], k)
      PROVE  LastIn(Tail(q), k, c) \/ (Head(q).cmd = c /\ NoneIn(Tail(q), k))
  <2>1. CASE i = 1
    BY <1>1, <1>3, <2>1 DEF NoneIn
  <2>2. CASE i # 1
    <3>1. i - 1 \in 1..Len(Tail(q)) /\ Tail(q)[i - 1] = q[i]
      BY <1>1, <2>2
    <3>2. \A j \in 1..Len(Tail(q)) : j > i - 1 => ~OfKind(Tail(q)[j], k)
      BY <1>1, <1>3
    <3> QED BY <1>3, <3>1, <3>2 DEF LastIn
  <2> QED BY <2>1, <2>2
<1> QED BY <1>1, <1>2, <1>3 DEF LastIn

\* The commands of a change of mode m to n.
Sent(m, n) == IF m # n THEN Leaving(m) \o Entering(n) ELSE Again

\* The last command of each kind fits the new mode, and a kind of which there is
\* none has nothing to do with either mode.
LEMMA ModeCommands ==
  ASSUME NEW m \in Modes, NEW n \in Modes, NEW k \in Kinds, m # n \/ n = "overview"
  PROVE  LET cs == Sent(m, n)
             c == IF n = k.mode THEN k.on ELSE k.off
         IN  /\ cs \in Seq({"lock", "unlock", "startDemo", "stopDemo"})
             /\ \/ \E i \in 1..Len(cs) :
                     cs[i] = c /\ \A j \in 1..Len(cs) : j > i => cs[j] \notin {k.on, k.off}
                \/ /\ \A i \in 1..Len(cs) : cs[i] \notin {k.on, k.off}
                   /\ m # k.mode /\ n # k.mode
<1> DEFINE cs == Sent(m, n)
           Cmds == {"lock", "unlock", "startDemo", "stopDemo"}
<1>1. \/ n = "overview" /\ cs = <<"stopDemo", "unlock">>
      \/ n = "overview" /\ m = "demo" /\ cs = <<"stopDemo">>
      \/ n = "overview" /\ m = "locked" /\ cs = <<"unlock">>
      \/ n = "demo" /\ m = "overview" /\ cs = <<"startDemo">>
      \/ n = "demo" /\ m = "locked" /\ cs = <<"unlock", "startDemo">>
      \/ n = "locked" /\ m = "overview" /\ cs = <<"lock">>
      \/ n = "locked" /\ m = "demo" /\ cs = <<"stopDemo", "lock">>
  <2>1. m \in {"overview", "demo", "locked"} /\ n \in {"overview", "demo", "locked"}
    BY DEF Modes
  <2>2. CASE m = n
    BY <2>2 DEF Sent, Again
  <2>3. CASE m # n
    <3>1. /\ Leaving("demo") = <<"stopDemo">> /\ Leaving("locked") = <<"unlock">>
          /\ Leaving("overview") = <<>>
          /\ Entering("demo") = <<"startDemo">> /\ Entering("locked") = <<"lock">>
          /\ Entering("overview") = <<>>
      BY DEF Leaving, Entering
    <3>2. /\ <<>> \o <<"startDemo">> = <<"startDemo">> /\ <<>> \o <<"lock">> = <<"lock">>
          /\ <<"stopDemo">> \o <<>> = <<"stopDemo">> /\ <<"unlock">> \o <<>> = <<"unlock">>
          /\ <<"stopDemo">> \o <<"lock">> = <<"stopDemo", "lock">>
          /\ <<"unlock">> \o <<"startDemo">> = <<"unlock", "startDemo">>
      <4>1. \A a \in Cmds : <<>> \o <<a>> = <<a>> /\ <<a>> \o <<>> = <<a>>
        BY ConcatEmptySeq
      <4>2. ASSUME NEW a \in Cmds, NEW b \in Cmds PROVE <<a>> \o <<b>> = <<a, b>>
        <5>1. /\ <<a>> \in Seq(Cmds) /\ <<b>> \in Seq(Cmds) /\ <<a, b>> \in Seq(Cmds)
              /\ Len(<<a>>) = 1 /\ Len(<<b>>) = 1 /\ Len(<<a, b>>) = 2
          OBVIOUS
        <5>2. \A i \in 1..2 : (<<a>> \o <<b>>)[i] = <<a, b>>[i]
          BY <5>1, ConcatProperties
        <5>3. <<a>> \o <<b>> \in Seq(Cmds) /\ Len(<<a>> \o <<b>>) = 2
          BY <5>1, ConcatProperties
        <5> HIDE DEF Cmds
        <5> QED BY <5>1, <5>2, <5>3, SeqEqual
      <4> QED BY <4>1, <4>2
    <3>3. cs = Leaving(m) \o Entering(n)
      BY <2>3 DEF Sent
    <3> HIDE DEF cs
    <3>4. CASE m = "overview"
      BY <2>1, <2>3, <3>1, <3>2, <3>3, <3>4
    <3>5. CASE m = "demo"
      BY <2>1, <2>3, <3>1, <3>2, <3>3, <3>5
    <3>6. CASE m = "locked"
      BY <2>1, <2>3, <3>1, <3>2, <3>3, <3>6
    <3> QED BY <2>1, <3>4, <3>5, <3>6
  <2> QED BY <2>2, <2>3
<1>2. \/ k = [mode |-> "locked", slave |-> "ScreenLock", on |-> "lock", off |-> "unlock"]
      \/ k = [mode |-> "demo", slave |-> "DemoClient", on |-> "startDemo", off |-> "stopDemo"]
  BY DEF Kinds
<1> HIDE DEF cs
<1>3. ASSUME NEW a \in Cmds, NEW b \in Cmds, cs = <<a, b>>
      PROVE  cs \in Seq(Cmds) /\ Len(cs) = 2 /\ cs[1] = a /\ cs[2] = b
  BY <1>3
<1>4. ASSUME NEW a \in Cmds, cs = <<a>> PROVE cs \in Seq(Cmds) /\ Len(cs) = 1 /\ cs[1] = a
  BY <1>4
<1>5. cs \in Seq(Cmds)
  BY <1>1, <1>3, <1>4
<1> DEFINE C == IF n = k.mode THEN k.on ELSE k.off
<1>6. ASSUME NEW a \in Cmds, NEW b \in Cmds, cs = <<a, b>>, b = C \/ (a = C /\ b \notin {k.on, k.off})
      PROVE  \E i \in 1..Len(cs) :
               cs[i] = C /\ \A j \in 1..Len(cs) : j > i => cs[j] \notin {k.on, k.off}
  <2>1. 1..Len(cs) = {1, 2} /\ cs[1] = a /\ cs[2] = b
    BY <1>3, <1>6
  <2> HIDE DEF C
  <2> QED BY <2>1, <1>6
<1>7. ASSUME NEW a \in Cmds, cs = <<a>>
      PROVE  /\ a = C => \E i \in 1..Len(cs) :
                  cs[i] = C /\ \A j \in 1..Len(cs) : j > i => cs[j] \notin {k.on, k.off}
             /\ a \notin {k.on, k.off} => \A i \in 1..Len(cs) : cs[i] \notin {k.on, k.off}
  <2>1. 1..Len(cs) = {1} /\ cs[1] = a
    BY <1>4, <1>7
  <2> HIDE DEF C
  <2> QED BY <2>1
<1>8. \/ \E i \in 1..Len(cs) :
           cs[i] = C /\ \A j \in 1..Len(cs) : j > i => cs[j] \notin {k.on, k.off}
      \/ /\ \A i \in 1..Len(cs) : cs[i] \notin {k.on, k.off}
         /\ m # k.mode /\ n # k.mode
  BY <1>1, <1>2, <1>6, <1>7
<1> QED BY <1>5, <1>8 DEF cs

\* Commands, as they are put into the queue.
Stamped(cs) == [i \in 1..Len(cs) |-> [n |-> accepted + i, cmd |-> cs[i], host |-> host]]

\* They are events, in the order of the commands.
LEMMA StampedCommands ==
  ASSUME WindowTypes, NEW cs \in Seq({"lock", "unlock", "startDemo", "stopDemo"})
  PROVE  /\ Stamped(cs) \in Seq(Orders) /\ Len(Stamped(cs)) = Len(cs)
         /\ \A i \in 1..Len(cs) : Stamped(cs)[i].cmd = cs[i] /\ Stamped(cs)[i].n = accepted + i
<1>1. Len(cs) \in Nat /\ \A i \in 1..Len(cs) : cs[i] \in {"lock", "unlock", "startDemo", "stopDemo"}
  OBVIOUS
<1>2. \A i \in 1..Len(cs) : [n |-> accepted + i, cmd |-> cs[i], host |-> host] \in Orders
  BY <1>1 DEF Orders, WindowTypes
<1>3. Stamped(cs) \in [1..Len(cs) -> Orders]
  BY <1>2 DEF Stamped
<1>4. Stamped(cs) \in Seq(Orders)
  BY <1>1, <1>3
<1>5. Len(Stamped(cs)) = Len(cs)
  BY <1>1, <1>3, <1>4
<1> QED BY <1>4, <1>5 DEF Stamped

\* What a change of the mode does to the queue.
LEMMA ModeChange ==
  ASSUME WindowTypes, NEW m \in Modes, ChangeMode(m)
  PROVE  /\ mode' = m /\ UNCHANGED <<pc, inHand, host, slaves, fired>>
         /\ \/ UNCHANGED <<eventQueue, accepted>> /\ (agreed' => agreed /\ m = mode)
            \/ /\ mode # m \/ m = "overview"
               /\ eventQueue' = eventQueue \o Stamped(Sent(mode, m))
               /\ accepted' = accepted + Len(Sent(mode, m))
               /\ m # mode => (agreed' => agreed)
<1>1. mode' = m /\ UNCHANGED <<pc, inHand, host, slaves, fired>>
  BY DEF ChangeMode, threadVars
<1>2. CASE m # mode
  <2>1. Leaving(mode) \o Entering(m) = Sent(mode, m)
    BY <1>2 DEF Sent
  <2>2. EnqueueEvents(Sent(mode, m)) /\ agreed' = (agreed /\ state = "Connected")
    BY <1>2, <2>1 DEF ChangeMode
  <2>3. CASE state = "Connected"
    BY <1>1, <1>2, <2>2, <2>3 DEF EnqueueEvents, Enqueue, Stamped
  <2>4. CASE state # "Connected"
    BY <1>1, <1>2, <2>2, <2>4 DEF EnqueueEvents
  <2> QED BY <2>3, <2>4
<1>3. CASE m = mode /\ m = "overview"
  <2>1. EnqueueEvents(Sent(mode, m)) /\ agreed' = (agreed \/ state = "Connected")
    BY <1>3 DEF ChangeMode, Sent
  <2>2. CASE state = "Connected"
    BY <1>1, <1>3, <2>1, <2>2 DEF EnqueueEvents, Enqueue, Stamped
  <2>3. CASE state # "Connected"
    BY <1>1, <1>3, <2>1, <2>3 DEF EnqueueEvents
  <2> QED BY <2>2, <2>3
<1>4. CASE m = mode /\ m # "overview"
  BY <1>1, <1>4 DEF ChangeMode
<1> QED BY <1>2, <1>3, <1>4

\* A step of the window other than a change of the mode, or of the connection.
LEMMA OtherSteps ==
  ASSUME WindowTypes, [WindowNext]_allVars
  PROVE  \/ \E m \in Modes : ChangeMode(m) /\ visible' \in BOOLEAN
         \/ FireCommand
         \/ TerminateThread
         \/ Dequeue /\ UNCHANGED windowVars
         \/ /\ UNCHANGED <<eventQueue, accepted, inHand, fired, slaves, mode, agreed>>
            /\ pc = "fire" <=> pc' = "fire"
            /\ host' \in Hosts /\ visible' \in BOOLEAN /\ reloadIn' \in 0..ReloadInterval
            /\ terminated' = terminated
<1> USE ReloadIntervalAssumption DEF WindowTypes, WindowTypeOK
<1>1. CASE Thread /\ UNCHANGED windowVars
  <2>1. CASE Dequeue
    BY <1>1, <2>1
  <2>2. CASE Run \/ Attempt \/ Sleep \/ Loop \/ Drained \/ End
    BY <1>1, <2>2 DEF Run, RunEnds, Attempt, Sleep, Loop, Drained, End, ownerVars, windowVars
  <2> QED BY <1>1, <2>1, <2>2 DEF Thread
<1>2. CASE (InitOk \/ InitFails) /\ UNCHANGED windowVars
  BY <1>2 DEF InitOk, InitFails, ownerVars, windowVars
<1>3. CASE (\E h \in Hosts : HostDown(h) \/ HostUp(h)) /\ UNCHANGED windowVars
  BY <1>3 DEF HostDown, HostUp, windowVars
<1>4. CASE (\E m \in Modes : PressMode(m)) \/ Close
  BY <1>4 DEF PressMode, Close, Modes
<1>5. CASE Hide \/ Show
  BY <1>5 DEF Hide, Show, vars, threadVars
<1>6. CASE Reload
  <2>1. /\ UNCHANGED <<mode, visible, slaves, agreed, terminated>>
        /\ reloadIn' \in 0..ReloadInterval
    BY <1>6 DEF Reload
  <2>2. UNCHANGED vars \/ Reset(host) \/ Stop
    BY <1>6 DEF Reload, Reconnect
  <2>3. CASE UNCHANGED vars
    BY <2>1, <2>3 DEF vars, threadVars
  <2>4. CASE Reset(host)
    BY <2>1, <2>4 DEF Reset, queueVars, Running
  <2>5. CASE Stop
    BY <2>1, <2>5 DEF Stop, queueVars
  <2> QED BY <2>2, <2>3, <2>4, <2>5
<1>7. CASE TickAll
  BY <1>7 DEF TickAll, queueVars
<1>8. CASE UNCHANGED allVars
  BY <1>8 DEF allVars, vars, threadVars, windowVars
<1> QED BY <1>1, <1>2, <1>3, <1>4, <1>5, <1>6, <1>7, <1>8 DEF WindowNext

\* Every step keeps the types.
LEMMA WindowTypesStep == WindowTypes /\ [WindowNext]_allVars => WindowTypes'
<1> SUFFICES ASSUME WindowTypes, [WindowNext]_allVars PROVE WindowTypes'
  OBVIOUS
<1> USE DEF WindowTypes, WindowTypeOK
<1>b. agreed' \in BOOLEAN /\ terminated' \in BOOLEAN
  <2>1. CASE UNCHANGED <<agreed, terminated>>
    BY <2>1
  <2>2. CASE FireCommand
    <3>1. agreed' = FALSE \/ agreed' = agreed
      BY <2>2 DEF FireCommand
    <3>2. terminated' = terminated
      BY <2>2 DEF FireCommand
    <3> QED BY <3>1, <3>2
  <2>3. CASE TerminateThread
    <3>1. agreed' = (agreed /\ inHand = <<>>) /\ terminated' = TRUE
      BY <2>3 DEF TerminateThread
    <3> QED BY <3>1, Zenon
  <2>4. ASSUME NEW m \in Modes, ChangeMode(m) PROVE agreed' \in BOOLEAN /\ terminated' \in BOOLEAN
    <3>1. /\ \/ agreed' = (agreed /\ state = "Connected")
             \/ agreed' = (agreed \/ state = "Connected")
             \/ agreed' = agreed
          /\ terminated' = terminated
      BY <2>4 DEF ChangeMode
    <3> QED BY <3>1, Zenon
  <2> QED BY <2>1, <2>2, <2>3, <2>4
          DEF WindowNext, PressMode, Close, Hide, Show, Reload, TickAll, windowVars, allVars, Modes
<1>1. ASSUME NEW m \in Modes, ChangeMode(m), visible' \in BOOLEAN PROVE WindowTypes'
  <2>1. mode' = m /\ UNCHANGED <<pc, inHand, host, slaves, reloadIn>>
    BY <1>1 DEF ChangeMode, threadVars
  <2>2. eventQueue' \in Seq(Orders) /\ accepted' \in Nat
    <3> DEFINE cs == Sent(mode, m)
    <3>1. CASE UNCHANGED <<eventQueue, accepted>>
      BY <3>1
    <3>2. CASE /\ mode # m \/ m = "overview"
               /\ eventQueue' = eventQueue \o Stamped(cs) /\ accepted' = accepted + Len(cs)
      <4>1. \E k \in Kinds : TRUE
        BY DEF Kinds
      <4>2. cs \in Seq({"lock", "unlock", "startDemo", "stopDemo"})
        BY <3>2, <4>1, ModeCommands
      <4> HIDE DEF cs
      <4>3. Stamped(cs) \in Seq(Orders) /\ Len(cs) \in Nat
        BY <4>2, StampedCommands
      <4> QED BY <3>2, <4>3, Concatenated
    <3> QED BY <1>1, <3>1, <3>2, ModeChange
  <2> QED BY <1>b, <1>1, <2>1, <2>2
<1>2. CASE FireCommand
  <2>1. inHand[1] \in Orders
    BY <1>2 DEF FireCommand, Fire
  <2>2. inHand[1].cmd \in {"lock", "unlock", "startDemo", "stopDemo"}
    BY <2>1 DEF Orders
  <2>3. slaves' \in SUBSET {"ScreenLock", "DemoClient"}
    BY <1>2, <2>2 DEF FireCommand, Execute
  <2>4. /\ UNCHANGED <<eventQueue, accepted, host, mode, visible, reloadIn>>
        /\ inHand' = <<>> /\ pc' = "drain" /\ <<>> \in Seq(Orders)
    BY <1>2 DEF FireCommand, Fire, ownerVars
  <2> QED BY <1>b, <2>3, <2>4
<1>3. CASE TerminateThread
  <2>1. <<>> \in Seq(Orders)
    OBVIOUS
  <2> QED BY <1>b, <1>3, <2>1 DEF TerminateThread, Terminate, ownerVars
<1>4. CASE Dequeue /\ UNCHANGED windowVars
  <2>1. Head(eventQueue) \in Orders /\ Tail(eventQueue) \in Seq(Orders)
    BY <1>4 DEF Dequeue
  <2>2. <<Head(eventQueue)>> \in Seq(Orders) /\ <<Head(eventQueue)>> # <<>>
    BY <2>1
  <2> QED BY <1>4, <2>1, <2>2 DEF Dequeue, ownerVars, windowVars
<1>5. CASE /\ UNCHANGED <<eventQueue, accepted, inHand, fired, slaves, mode, agreed>>
           /\ pc = "fire" <=> pc' = "fire"
           /\ host' \in Hosts /\ visible' \in BOOLEAN /\ reloadIn' \in 0..ReloadInterval
           /\ terminated' = terminated
  BY <1>5
<1> QED BY <1>1, <1>2, <1>3, <1>4, <1>5, OtherSteps

\* Every step keeps what the commands under way lead to.
LEMMA AllDestinedStep ==
  WindowTypes /\ AllDestined /\ [WindowNext]_allVars => AllDestined'
<1> SUFFICES ASSUME WindowTypes, AllDestined, [WindowNext]_allVars, agreed', NEW k \in Kinds
             PROVE  Destined(k)'
  BY DEF AllDestined
<1> USE DEF WindowTypes, WindowTypeOK
<1>1. ASSUME NEW m \in Modes, ChangeMode(m) PROVE Destined(k)'
  <2>1. mode' = m /\ UNCHANGED <<inHand, slaves>> /\ mode \in Modes
    BY <1>1, ModeChange
  <2>2. CASE UNCHANGED eventQueue /\ (agreed' => agreed /\ m = mode)
    BY <2>1, <2>2 DEF AllDestined, Destined, Fitting
  <2>3. CASE /\ mode # m \/ m = "overview"
             /\ eventQueue' = eventQueue \o Stamped(Sent(mode, m))
             /\ m # mode => (agreed' => agreed)
    <3> DEFINE cs == Sent(mode, m)
               c == IF m = k.mode THEN k.on ELSE k.off
               t == Stamped(cs)
    <3>1. /\ cs \in Seq({"lock", "unlock", "startDemo", "stopDemo"})
          /\ \/ \E i \in 1..Len(cs) :
                  cs[i] = c /\ \A j \in 1..Len(cs) : j > i => cs[j] \notin {k.on, k.off}
             \/ /\ \A i \in 1..Len(cs) : cs[i] \notin {k.on, k.off}
                /\ mode # k.mode /\ m # k.mode
      BY <2>1, <2>3, ModeCommands
    <3>2. Fitting(k)' = c
      BY <2>1 DEF Fitting
    <3> HIDE DEF cs
    <3>3. /\ t \in Seq(Orders) /\ Len(t) = Len(cs)
          /\ \A i \in 1..Len(cs) : t[i].cmd = cs[i]
      BY <3>1, StampedCommands
    <3>e. eventQueue' = eventQueue \o t
      BY <2>3 DEF cs
    <3> HIDE DEF c, t
    <3>4. CASE \E i \in 1..Len(cs) :
                 cs[i] = c /\ \A j \in 1..Len(cs) : j > i => cs[j] \notin {k.on, k.off}
      <4>1. LastIn(t, k, c)
        BY <3>3, <3>4 DEF LastIn, OfKind
      <4>2. LastIn(eventQueue', k, c)
        BY <3>3, <3>e, <4>1, Concatenated
      <4> QED BY <3>2, <4>2 DEF Destined
    <3>5. CASE /\ \A i \in 1..Len(cs) : cs[i] \notin {k.on, k.off}
               /\ mode # k.mode /\ m # k.mode
      <4>1. NoneIn(t, k)
        BY <3>3, <3>5 DEF NoneIn, OfKind
      <4>2. c = k.off /\ Fitting(k) = k.off
        BY <3>5 DEF c, Fitting
      <4>3. /\ LastIn(eventQueue, k, c) => LastIn(eventQueue', k, c)
            /\ NoneIn(eventQueue, k) => NoneIn(eventQueue', k)
        BY <3>3, <3>e, <4>1, Concatenated
      <4>4. agreed
        <5>1. m # mode \/ \E i \in 1..Len(cs) : cs[i] = k.off
          <6>1. CASE m = mode
            <7>1. cs = <<"stopDemo", "unlock">>
              BY <2>1, <6>1 DEF cs, Sent, Again
            <7>2. Len(cs) = 2 /\ cs[1] = "stopDemo" /\ cs[2] = "unlock"
              BY <7>1
            <7> QED BY <3>5, <7>2 DEF Kinds
          <6> QED BY <6>1
        <5> QED BY <2>3, <3>5, <5>1
      <4>5. Destined(k) /\ Fitting(k) = c /\ Fitting(k)' = c
        BY <3>2, <4>2, <4>4 DEF AllDestined
      <4>6. CASE LastIn(eventQueue, k, c)
        BY <4>3, <4>5, <4>6 DEF Destined
      <4>7. CASE ~LastIn(eventQueue, k, c)
        <5>1. NoneIn(eventQueue, k) /\ NoneIn(eventQueue', k)
          BY <4>3, <4>5, <4>7 DEF Destined
        <5>2. ~(mode = k.mode) /\ ~(mode' = k.mode)
          BY <2>1, <3>5
        <5> QED BY <2>1, <4>5, <4>7, <5>1, <5>2 DEF Destined
      <4> QED BY <4>6, <4>7
    <3> QED BY <3>1, <3>4, <3>5
  <2> QED BY <1>1, <2>2, <2>3, ModeChange
<1>2. CASE FireCommand
  <2>1. /\ inHand # <<>> /\ inHand' = <<>> /\ UNCHANGED <<eventQueue, mode>>
    BY <1>2 DEF FireCommand, Fire, ownerVars
  <2>2. agreed /\ slaves' = Execute(inHand[1].cmd)
    BY <1>2 DEF FireCommand
  <2>3. Destined(k)
    BY <2>2 DEF AllDestined
  <2>4. CASE LastIn(eventQueue, k, Fitting(k))
    BY <2>1, <2>4 DEF Destined, Fitting
  <2>5. CASE ~LastIn(eventQueue, k, Fitting(k))
    <3>1. inHand[1].cmd \in {"lock", "unlock", "startDemo", "stopDemo"}
      <4>1. inHand[1] \in Orders
        BY <2>1
      <4> QED BY <4>1 DEF Orders
    <3>2. NoneIn(eventQueue, k)'
      BY <2>1, <2>3, <2>5 DEF Destined
    <3>3. k.slave \in slaves' <=> mode = k.mode
      <4>1. CASE OfKind(inHand[1], k)
        <5>1. inHand[1].cmd = Fitting(k)
          BY <2>1, <2>3, <2>5, <4>1 DEF Destined
        <5> QED BY <2>2, <3>1, <5>1 DEF Execute, Fitting, Kinds
      <4>2. CASE ~OfKind(inHand[1], k)
        <5>1. k.slave \in slaves <=> mode = k.mode
          BY <2>3, <2>5, <4>2 DEF Destined
        <5>2. k.slave \in slaves' <=> k.slave \in slaves
          BY <2>2, <3>1, <4>2 DEF OfKind, Execute, Kinds
        <5> QED BY <5>1, <5>2
      <4> QED BY <4>1, <4>2
    <3> QED BY <2>1, <3>2, <3>3 DEF Destined
  <2> QED BY <2>4, <2>5
<1>3. CASE TerminateThread
  <2>1. agreed /\ inHand = <<>> /\ inHand' = <<>> /\ UNCHANGED <<eventQueue, mode, slaves>>
    BY <1>3 DEF TerminateThread, Terminate, ownerVars
  <2> QED BY <2>1 DEF AllDestined, Destined, Fitting
<1>4. CASE Dequeue /\ UNCHANGED windowVars
  <2>1. /\ inHand = <<>> /\ inHand' = <<Head(eventQueue)>> /\ eventQueue # <<>>
        /\ eventQueue' = Tail(eventQueue) /\ UNCHANGED <<mode, slaves, agreed>>
    BY <1>4 DEF Dequeue, windowVars
  <2>2. Destined(k)
    BY <2>1 DEF AllDestined
  <2>3. inHand' # <<>> /\ inHand'[1] = Head(eventQueue)
    BY <2>1
  <2>4. Fitting(k)' = Fitting(k) /\ Fitting(k) \in {k.on, k.off}
    BY <2>1 DEF Fitting
  <2>5. CASE LastIn(eventQueue, k, Fitting(k))
    <3>1. \/ LastIn(eventQueue', k, Fitting(k))
          \/ Head(eventQueue).cmd = Fitting(k) /\ NoneIn(eventQueue', k)
      BY <2>1, <2>5, Taken
    <3> QED BY <2>3, <2>4, <3>1 DEF Destined, OfKind
  <2>6. CASE ~LastIn(eventQueue, k, Fitting(k))
    <3>1. NoneIn(eventQueue, k) /\ (k.slave \in slaves <=> mode = k.mode)
      BY <2>1, <2>2, <2>6 DEF Destined
    <3>2. ~OfKind(Head(eventQueue), k) /\ NoneIn(eventQueue', k)
      BY <2>1, <3>1, Taken
    <3> QED BY <2>1, <2>3, <3>1, <3>2 DEF Destined
  <2> QED BY <2>5, <2>6
<1>5. CASE UNCHANGED <<eventQueue, inHand, slaves, mode, agreed>>
  BY <1>5 DEF AllDestined, Destined, Fitting
<1> QED BY <1>1, <1>2, <1>3, <1>4, <1>5, OtherSteps

\* The inductive invariant of the window: whatever is lost, stopped, terminated
\* or connected again, the commands under way lead to the mode of the window
\* (Client.cpp:593-644).
THEOREM WindowInvariant == WindowSpec => [](WindowTypes /\ AllDestined)
<1>1. WindowInit => WindowTypes
  <2> SUFFICES ASSUME WindowInit PROVE WindowTypes
    OBVIOUS
  <2>1. agreed \in BOOLEAN /\ terminated \in BOOLEAN /\ visible \in BOOLEAN
    BY Zenon DEF WindowInit
  <2>2. <<>> \in Seq(Orders)
    OBVIOUS
  <2> QED BY <2>1, <2>2, ReloadIntervalAssumption
          DEF WindowInit, Init, WindowTypes, WindowTypeOK, Modes
<1>2. WindowInit => AllDestined
  BY DEF WindowInit, Init, AllDestined, Destined, NoneIn, Kinds
<1> QED BY <1>1, <1>2, WindowTypesStep, AllDestinedStep, PTL DEF WindowSpec

\* Once all commands are fired the computer is in the mode of its window, unless
\* one was dropped or lost (Client.cpp:630-632).
THEOREM ModeComes == WindowSpec => []ModeIsReached
<1>1. WindowTypes /\ AllDestined => ModeIsReached
  <2> SUFFICES ASSUME WindowTypes, AllDestined, agreed, eventQueue = <<>>, inHand = <<>>
               PROVE  slaves = Expected
    BY DEF ModeIsReached
  <2>1. \A k \in Kinds : k.slave \in slaves <=> mode = k.mode
    BY DEF AllDestined, Destined, LastIn
  <2>2. /\ "ScreenLock" \in slaves <=> mode = "locked"
        /\ "DemoClient" \in slaves <=> mode = "demo"
    BY <2>1 DEF Kinds
  <2>3. mode \in Modes /\ slaves \subseteq {"ScreenLock", "DemoClient"}
    BY DEF WindowTypes, WindowTypeOK
  <2> QED BY <2>2, <2>3 DEF Expected, Modes
<1> QED BY <1>1, WindowInvariant, PTL

----------------------------------------------------------------------------
(* The order of a window's commands, several of which may be enqueued at    *)
(* once.                                                                    *)

\* The order, with the type it needs: here no bound limits the numbers.
WindowOrder == fired \in Nat /\ Order

LEMMA WindowOrderStep ==
  WindowTypes /\ WindowTypes' /\ WindowOrder /\ [WindowNext]_allVars => WindowOrder'
<1> SUFFICES ASSUME WindowTypes, WindowTypes', fired \in Nat, Order, [WindowNext]_allVars
             PROVE  fired' \in Nat /\ Order'
  BY DEF WindowOrder
<1>0. Numbered(Orders)
  BY DEF Numbered, Orders, WindowTypes, WindowTypeOK
<1>1. ASSUME NEW m \in Modes, ChangeMode(m) PROVE fired' \in Nat /\ Order'
  <2> DEFINE cs == Sent(mode, m)
  <2>1. CASE UNCHANGED <<eventQueue, accepted>>
    BY <1>1, <2>1, ModeChange DEF Order, Hand, Queue
  <2>2. CASE /\ mode # m \/ m = "overview"
             /\ eventQueue' = eventQueue \o Stamped(cs) /\ accepted' = accepted + Len(cs)
    <3>1. \E k \in Kinds : TRUE
      BY DEF Kinds
    <3>2. mode \in Modes
      BY DEF WindowTypes, WindowTypeOK
    <3>3. cs \in Seq({"lock", "unlock", "startDemo", "stopDemo"})
      BY <2>2, <3>1, <3>2, ModeCommands
    <3> HIDE DEF cs
    <3>4. /\ Stamped(cs) \in Seq(Orders) /\ Len(Stamped(cs)) = Len(cs)
          /\ \A i \in 1..Len(Stamped(cs)) : Stamped(cs)[i].n = accepted + i
      BY <3>3, StampedCommands
    <3>5. UNCHANGED <<pc, inHand, fired>>
      BY <1>1, ModeChange
    <3> QED BY <1>0, <2>2, <3>4, <3>5, AppendKeepsOrder
  <2> QED BY <1>1, <2>1, <2>2, ModeChange
<1>2. CASE FireCommand
  <2>1. Fire /\ inHand # <<>>
    BY <1>2 DEF FireCommand, Fire, Order, Hand
  <2>2. fired' \in Nat
    BY <1>0, <2>1, NumbersUnderWay DEF Fire
  <2> QED BY <1>0, <2>1, <2>2, FireKeepsOrder
<1>3. CASE TerminateThread
  BY <1>3 DEF TerminateThread, Terminate, Order, Hand, Queue, ownerVars
<1>4. CASE Dequeue /\ UNCHANGED windowVars
  <2>1. fired' \in Nat
    BY <1>4 DEF Dequeue
  <2> QED BY <1>0, <1>4, <2>1, DequeueKeepsOrder
<1>5. CASE UNCHANGED <<eventQueue, accepted, inHand, fired>> /\ (pc = "fire" <=> pc' = "fire")
  BY <1>5 DEF Order, Hand, Queue
<1> QED BY <1>1, <1>2, <1>3, <1>4, <1>5, OtherSteps

(* Of a window, too, events are fired in the order in which they were accepted, *)
(* none twice, whatever reload() stops and connects again meanwhile             *)
(* (ItalcVncConnection.cpp:666-685, 729-738; Client.cpp:593-644, 976-1036).      *)
THEOREM WindowFiresInOrder == WindowSpec => []FiredInOrder
<1>1. WindowInit => WindowOrder
  BY DEF WindowOrder, WindowInit, Init, Order, Hand, Queue
<1>2. WindowTypes /\ WindowOrder => FiredInOrder
  <2>1. WindowTypes /\ fired \in Nat => Numbered(Orders)
    BY DEF Numbered, Orders, WindowTypes, WindowTypeOK
  <2> QED BY <2>1, OrderIsFiredInOrder DEF WindowOrder
<1>3. WindowSpec => []WindowTypes
  BY WindowInvariant, PTL
<1> QED BY <1>1, <1>2, <1>3, WindowOrderStep, PTL DEF WindowSpec
=============================================================================
