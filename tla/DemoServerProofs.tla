-------------------------- MODULE DemoServerProofs --------------------------
(* Theorems about the demo server: DemoServerClient for any tiles and any     *)
(* number of paints, DemoServerProcess for any computers and any number of    *)
(* processes.                                                                 *)
EXTENDS DemoServerClient, DemoServerProcess, TLAPS

Events == {Rect(t) : t \in Tiles} \cup {Slot("sendUpdates"), Slot("delete")}

\* m_dataMutex: one thread at a time is in sendUpdates().
Exclusive == \A a, b \in sending : a = b

\* An update or snapshot shows a tile once.
Once(s) == \A u, v \in s : u.tile = v.tile => u = v

\* What the viewer shows, what is under way to it, what is about to be written
\* and what is on the screen are of increasing age.
Ordered ==
  /\ \A t \in Tiles : viewer[t] <= image[t]
  /\ \A i \in 1..Len(updates) :
       /\ Once(updates[i])
       /\ \A u \in updates[i] : viewer[u.tile] <= u.paint /\ u.paint <= image[u.tile]
       /\ \A j \in 1..Len(updates) : i < j =>
            \A u \in updates[i], v \in updates[j] : u.tile = v.tile => u.paint <= v.paint
  /\ \A th \in sending :
       /\ Once(snapshot[th])
       /\ \A v \in snapshot[th] :
            /\ viewer[v.tile] <= v.paint /\ v.paint <= image[v.tile]
            /\ \A i \in 1..Len(updates) : \A u \in updates[i] : u.tile = v.tile => u.paint <= v.paint

\* The tile will be recorded.
Coming(t) == t \in painted \/ InQueue(Rect(t))

\* sendUpdates() has read the recorded tiles, and what was painted since is coming.
Snapshots ==
  thread = "loop" => \A th \in sending :
    /\ \A u \in snapshot[th] : u.tile \in changed
    /\ \A t \in changed : \E u \in snapshot[th] : u.tile = t /\ (u.paint = image[t] \/ Coming(t))

\* An update after the k-th shows the tile as it is on the screen.
Carried(t, k) ==
  \E j \in 1..Len(updates) : k < j /\ [tile |-> t, paint |-> image[t]] \in updates[j]

\* A tile the viewer shows, or will show, as it no longer is, is repainted later.
Superseded ==
  thread = "loop" => \A t \in Tiles :
    /\ viewer[t] = image[t] \/ Coming(t) \/ t \in changed \/ Carried(t, 0)
    /\ \A k \in 1..Len(updates) : \A u \in updates[k] :
         u.tile = t => u.paint = image[t] \/ Coming(t) \/ t \in changed \/ Carried(t, k)

UpdateInv == TypeOK /\ Exclusive /\ Ordered /\ Snapshots /\ Superseded

----------------------------------------------------------------------------
(* Queues and records                                                       *)

LEMMA EventsDiffer ==
  /\ \A s, t : Rect(s) = Rect(t) => s = t
  /\ \A t : Rect(t) # Slot("sendUpdates") /\ Rect(t) # Slot("delete")
<1>1. \A t : Rect(t).slot = "updateRect" /\ Rect(t).tile = t
  BY DEF Rect
<1>2. Slot("sendUpdates").slot = "sendUpdates" /\ Slot("delete").slot = "delete"
  BY DEF Slot
<1> QED
  BY <1>1, <1>2

\* What is posted is in the queue, with all that was there.
LEMMA Posted ==
  ASSUME NEW S, NEW q \in Seq(S), NEW e \in S
  PROVE  /\ Append(q, e) \in Seq(S)
         /\ \E i \in 1..Len(Append(q, e)) : Append(q, e)[i] = e
         /\ \A x : (\E i \in 1..Len(q) : q[i] = x)
                     => \E i \in 1..Len(Append(q, e)) : Append(q, e)[i] = x
<1>1. Len(Append(q, e)) = Len(q) + 1 /\ Append(q, e)[Len(q) + 1] = e
  OBVIOUS
<1>2. \A i \in 1..Len(q) : Append(q, e)[i] = q[i] /\ i \in 1..Len(Append(q, e))
  OBVIOUS
<1> QED
  BY <1>1, <1>2

\* What is handled leaves the queue, and nothing else does.
LEMMA Handled ==
  ASSUME NEW S, NEW q \in Seq(S), q # <<>>
  PROVE  /\ Tail(q) \in Seq(S) /\ Head(q) \in S
         /\ \A x : x # Head(q) /\ (\E i \in 1..Len(q) : q[i] = x)
                     => \E i \in 1..Len(Tail(q)) : Tail(q)[i] = x
<1>1. Len(Tail(q)) = Len(q) - 1 /\ \A i \in 1..Len(Tail(q)) : Tail(q)[i] = q[i + 1]
  OBVIOUS
<1>2. ASSUME NEW x, x # Head(q), NEW i \in 1..Len(q), q[i] = x
      PROVE  \E k \in 1..Len(Tail(q)) : Tail(q)[k] = x
  <2>1. i # 1
    BY <1>2
  <2>2. i - 1 \in 1..Len(Tail(q)) /\ Tail(q)[i - 1] = x
    BY <1>1, <1>2, <2>1
  <2> QED
    BY <2>2
<1> QED
  BY <1>2

----------------------------------------------------------------------------
LEMMA InitImpliesInv == Init => UpdateInv
<1> SUFFICES ASSUME Init PROVE UpdateInv
    OBVIOUS
<1>1. TypeOK
  <2>1. image \in [Tiles -> Paints] /\ viewer \in [Tiles -> Paints]
    BY MaxPaintsAssumption DEF Init, InitWith, Paints
  <2>2. timers \in [Threads -> [retry : Nat, extra : Nat]] /\ snapshot \in [Threads -> SUBSET PaintedTile]
    BY DEF Init, InitWith
  <2>3. /\ mainQueue \in Seq({Rect(t) : t \in Tiles} \cup {Slot("sendUpdates"), Slot("delete")})
        /\ updates \in Seq(SUBSET PaintedTile)
    BY DEF Init, InitWith
  <2> QED
    BY <2>1, <2>2, <2>3 DEF Init, InitWith, TypeOK
<1>2. Exclusive /\ Ordered /\ Snapshots /\ Superseded
  BY DEF Init, InitWith, Exclusive, Ordered, Snapshots, Superseded
<1> QED
  BY <1>1, <1>2 DEF UpdateInv

----------------------------------------------------------------------------
(* Types                                                                     *)

\* Timers are started and expire.
LEMMA TimersStay ==
  ASSUME NEW th \in Threads, NEW tm \in [Threads -> [retry : Nat, extra : Nat]]
  PROVE  /\ Retry(th, tm) \in [Threads -> [retry : Nat, extra : Nat]]
         /\ [tm EXCEPT ![th].extra = @ + 1] \in [Threads -> [retry : Nat, extra : Nat]]
         /\ tm[th].retry > 0 => [tm EXCEPT ![th].retry = @ - 1] \in [Threads -> [retry : Nat, extra : Nat]]
         /\ tm[th].extra > 0 => [tm EXCEPT ![th].extra = @ - 1] \in [Threads -> [retry : Nat, extra : Nat]]
<1> DEFINE R == [retry : Nat, extra : Nat]
<1>1. \A r \in R : r.retry \in Nat /\ r.extra \in Nat
  OBVIOUS
<1>2. \A r \in R, n \in Nat : [r EXCEPT !.retry = n] \in R /\ [r EXCEPT !.extra = n] \in R
  OBVIOUS
<1>3. tm[th] \in R
  OBVIOUS
<1>4. \A r \in R : [tm EXCEPT ![th] = r] \in [Threads -> R]
  OBVIOUS
<1>5. tm[th].retry \in Nat /\ tm[th].extra \in Nat
  BY <1>1, <1>3
<1> HIDE DEF R
<1>6. /\ [tm[th] EXCEPT !.retry = tm[th].retry + 1] \in R /\ [tm[th] EXCEPT !.extra = tm[th].extra + 1] \in R
      /\ tm[th].retry > 0 => [tm[th] EXCEPT !.retry = tm[th].retry - 1] \in R
      /\ tm[th].extra > 0 => [tm[th] EXCEPT !.extra = tm[th].extra - 1] \in R
  <2>1. \A n \in Nat : [tm[th] EXCEPT !.retry = n] \in R /\ [tm[th] EXCEPT !.extra = n] \in R
    BY <1>2, <1>3
  <2>2. /\ tm[th].retry + 1 \in Nat /\ tm[th].extra + 1 \in Nat
        /\ tm[th].retry > 0 => tm[th].retry - 1 \in Nat
        /\ tm[th].extra > 0 => tm[th].extra - 1 \in Nat
    BY <1>5
  <2> QED
    BY <2>1, <2>2
<1> QED
  BY <1>4, <1>6 DEF Retry, R

LEMMA SendKeepsTypes ==
  ASSUME TypeOK, NEW th \in Threads, NEW p \in BOOLEAN,
         NEW tm \in [Threads -> [retry : Nat, extra : Nat]], BeginSend(th, p, tm)
  PROVE  /\ pending' \in BOOLEAN /\ misused' \in BOOLEAN /\ sending' \subseteq Threads
         /\ updates' = updates
         /\ timers' \in [Threads -> [retry : Nat, extra : Nat]]
         /\ snapshot' \in [Threads -> SUBSET PaintedTile]
<1>1. timers' \in [Threads -> [retry : Nat, extra : Nat]]
  <2>1. Retry(th, tm) \in [Threads -> [retry : Nat, extra : Nat]]
    BY TimersStay
  <2>2. timers' \in {Retry(th, tm), tm}
    BY DEF BeginSend
  <2> QED
    BY <2>1, <2>2
<1>2. {[tile |-> t, paint |-> image[t]] : t \in changed} \in SUBSET PaintedTile
  <2>1. \A t \in changed : t \in Tiles /\ image[t] \in Paints
    BY DEF TypeOK
  <2>2. \A t \in changed : [tile |-> t, paint |-> image[t]] \in PaintedTile
    BY <2>1 DEF PaintedTile
  <2> QED
    BY <2>2
<1>3. snapshot' \in [Threads -> SUBSET PaintedTile]
  BY <1>2 DEF BeginSend, TypeOK
<1>4. sending' \subseteq Threads /\ pending' \in BOOLEAN /\ updates' = updates
  BY DEF BeginSend, TypeOK
<1>5. misused' \in BOOLEAN
  BY Zenon DEF BeginSend, TypeOK
<1> QED
  BY <1>1, <1>3, <1>4, <1>5

\* A step of the threads that does not paint: what sendUpdates() does is above.
LEMMA StepKeepsTypes == TypeOK /\ [Next]_vars => TypeOK'
<1> SUFFICES ASSUME TypeOK, [Next]_vars PROVE TypeOK'
    OBVIOUS
<1>0. /\ mainQueue \in Seq(Events) /\ Slot("sendUpdates") \in Events /\ Slot("delete") \in Events
      /\ \A t \in Tiles : Rect(t) \in Events
      /\ timers \in [Threads -> [retry : Nat, extra : Nat]] /\ "main" \in Threads /\ "client" \in Threads
      /\ updates \in Seq(SUBSET PaintedTile)
  BY DEF TypeOK, Events, Threads
<1> USE DEF imgVars, sendVars
<1>1. ASSUME NEW t \in Tiles, Paint(t) PROVE TypeOK'
  <2>1. image' \in [Tiles -> Paints]
    BY <1>1, MaxPaintsAssumption DEF Paint, TypeOK, Paints
  <2> QED
    BY <1>1, <2>1 DEF Paint, TypeOK
<1>2. ASSUME NEW t \in Tiles, Announce(t) PROVE TypeOK'
  <2>1. mainQueue' \in Seq(Events)
    BY <1>0, <1>2, Posted DEF Announce
  <2>2. wraps' \in BOOLEAN
    BY <1>2, Zenon DEF Announce, Detach, TypeOK
  <2> QED
    BY <1>2, <2>1, <2>2 DEF Announce, TypeOK, Events
<1>3. ASSUME NEW t \in Tiles, UpdateRect(t) PROVE TypeOK'
  <2>1. mainQueue' \in Seq(Events)
    BY <1>0, <1>3, Handled DEF UpdateRect
  <2> QED
    BY <1>3, <2>1 DEF UpdateRect, TypeOK, Events
<1>4. ASSUME NEW th \in Threads, EndSend(th) PROVE TypeOK'
  <2>1. timers' \in [Threads -> [retry : Nat, extra : Nat]]
    BY <1>0, <1>4, TimersStay DEF EndSend
  <2>2. updates' \in Seq(SUBSET PaintedTile)
    BY <1>0, <1>4, Posted DEF EndSend, TypeOK
  <2>3. snapshot' \in [Threads -> SUBSET PaintedTile]
    BY <1>4 DEF EndSend, TypeOK
  <2> QED
    BY <1>4, <2>1, <2>2, <2>3 DEF EndSend, TypeOK
<1>5. ASSUME NEW kind \in {"retry", "extra"}, ClientTimer(kind) PROVE TypeOK'
  <2>1. timers' \in [Threads -> [retry : Nat, extra : Nat]]
    BY <1>0, <1>5, TimersStay DEF ClientTimer, Expired
  <2>2. mainQueue' \in Seq(Events)
    BY <1>0, <1>5, Posted DEF ClientTimer
  <2> QED
    BY <1>5, <2>1, <2>2 DEF ClientTimer, TypeOK, Events
<1>6. ASSUME NEW kind \in {"retry", "extra"}, MainTimer(kind) PROVE TypeOK'
  <2>1. Expired("main", kind) \in [Threads -> [retry : Nat, extra : Nat]]
    BY <1>0, <1>6, TimersStay DEF MainTimer, Expired
  <2>2. BeginSend("main", pending, Expired("main", kind)) /\ pending \in BOOLEAN
    BY <1>6 DEF MainTimer, TypeOK
  <2>3. /\ pending' \in BOOLEAN /\ misused' \in BOOLEAN /\ sending' \subseteq Threads
        /\ updates' = updates /\ snapshot' \in [Threads -> SUBSET PaintedTile]
        /\ timers' \in [Threads -> [retry : Nat, extra : Nat]]
    BY <1>0, <2>1, <2>2, SendKeepsTypes
  <2> QED
    BY <1>6, <2>3 DEF MainTimer, TypeOK
<1>7. CASE ProcessClient
  <2>1. /\ pending' \in BOOLEAN /\ misused' \in BOOLEAN /\ sending' \subseteq Threads
        /\ updates' = updates /\ snapshot' \in [Threads -> SUBSET PaintedTile]
        /\ timers' \in [Threads -> [retry : Nat, extra : Nat]]
    BY <1>0, <1>7, SendKeepsTypes DEF ProcessClient
  <2> QED
    BY <1>7, <2>1 DEF ProcessClient, TypeOK
<1>8. CASE SendQueued
  <2>1. /\ pending' \in BOOLEAN /\ misused' \in BOOLEAN /\ sending' \subseteq Threads
        /\ updates' = updates /\ snapshot' \in [Threads -> SUBSET PaintedTile]
        /\ timers' \in [Threads -> [retry : Nat, extra : Nat]]
    <3>1. pending \in BOOLEAN
      BY DEF TypeOK
    <3> QED
      BY <1>0, <1>8, <3>1, SendKeepsTypes DEF SendQueued
  <2>2. mainQueue' \in Seq(Events)
    BY <1>0, <1>8, Handled DEF SendQueued
  <2> QED
    BY <1>8, <2>1, <2>2 DEF SendQueued, TypeOK, Events
<1>9. CASE Handshake \/ EnterLoop
  BY <1>9 DEF Handshake, EnterLoop, KeyFrame, TypeOK
<1>10. CASE EndThread
  <2>1. timers' \in [Threads -> [retry : Nat, extra : Nat]]
    BY <1>0, <1>10 DEF EndThread
  <2>2. mainQueue' \in Seq(Events)
    BY <1>0, <1>10, Posted DEF EndThread
  <2>3. misused' \in BOOLEAN
    BY <1>10, Zenon DEF EndThread, TypeOK
  <2> QED
    BY <1>10, <2>1, <2>2, <2>3 DEF EndThread, TypeOK, Events
<1>11. CASE DeleteClient
  <2>1. timers' \in [Threads -> [retry : Nat, extra : Nat]] /\ mainQueue' \in Seq(Events)
    BY <1>11 DEF DeleteClient
  <2> QED
    BY <1>11, <2>1 DEF DeleteClient, TypeOK, Events
<1>12. CASE ViewerReceives
  <2>1. updates' \in Seq(SUBSET PaintedTile) /\ Head(updates) \in SUBSET PaintedTile
    BY <1>0, <1>12, Handled DEF ViewerReceives
  <2>2. \A t \in Tiles : (\E u \in Head(updates) : u.tile = t)
          => (CHOOSE u \in Head(updates) : u.tile = t).paint \in Paints
    BY <2>1 DEF PaintedTile
  <2>3. viewer' \in [Tiles -> Paints]
    BY <1>12, <2>2 DEF ViewerReceives, TypeOK
  <2> QED
    BY <1>12, <2>1, <2>3 DEF ViewerReceives, TypeOK
<1>13. CASE UNCHANGED vars
  BY <1>13 DEF vars, TypeOK
<1> QED
  BY <1>1, <1>2, <1>3, <1>4, <1>5, <1>6, <1>7, <1>8, <1>9, <1>10, <1>11, <1>12, <1>13 DEF Next

----------------------------------------------------------------------------
(* Mutual exclusion and the order of what is shown                           *)

LEMMA StepKeepsExclusive == Exclusive /\ [Next]_vars => Exclusive'
<1> SUFFICES ASSUME Exclusive, [Next]_vars PROVE Exclusive'
    OBVIOUS
<1>1. \/ UNCHANGED sending
      \/ \E th \in Threads : sending' = sending \ {th}
      \/ sending = {} /\ \E th \in Threads : sending' = sending \cup {th}
  BY DEF Next, Paint, Announce, UpdateRect, EndSend, ClientTimer, MainTimer, Handshake, EnterLoop,
         ProcessClient, EndThread, SendQueued, DeleteClient, ViewerReceives, BeginSend, Unlocked,
         Threads, vars, imgVars, sendVars
<1> QED
  BY <1>1 DEF Exclusive

\* sendUpdates() begins: what it reads is what is on the screen.
LEMMA SendKeepsOrdered ==
  ASSUME TypeOK, Ordered, NEW th \in Threads, NEW p, NEW tm, BeginSend(th, p, tm),
         UNCHANGED <<image, viewer>>
  PROVE  Ordered'
<1>1. updates' = updates
  BY DEF BeginSend
<1>2. CASE UNCHANGED <<sending, snapshot>>
  BY <1>1, <1>2 DEF Ordered
<1>3. CASE ~UNCHANGED <<sending, snapshot>>
  <2> DEFINE read == {[tile |-> t, paint |-> image[t]] : t \in changed}
  <2>1. sending' = {th} /\ snapshot'[th] = read
    BY <1>3 DEF BeginSend, Unlocked, TypeOK
  <2>2. \A v \in read : v.tile \in Tiles /\ v.paint = image[v.tile]
    BY DEF TypeOK
  <2>3. Once(read)
    BY DEF Once
  <2>4. \A t \in Tiles : image[t] \in Nat /\ viewer[t] \in Nat
    BY MaxPaintsAssumption DEF TypeOK, Paints
  <2> HIDE DEF read
  <2>5. \A v \in read :
          /\ viewer[v.tile] <= v.paint /\ v.paint <= image[v.tile]
          /\ \A i \in 1..Len(updates) : \A u \in updates[i] : u.tile = v.tile => u.paint <= v.paint
    BY <2>2, <2>4 DEF Ordered
  <2> QED
    BY <1>1, <2>1, <2>3, <2>5 DEF Ordered
<1> QED
  BY <1>2, <1>3

LEMMA StepKeepsOrdered == TypeOK /\ Exclusive /\ Ordered /\ [Next]_vars => Ordered'
<1> SUFFICES ASSUME TypeOK, Exclusive, Ordered, [Next]_vars PROVE Ordered'
    OBVIOUS
<1>0. /\ \A t \in Tiles : image[t] \in Nat /\ viewer[t] \in Nat
      /\ updates \in Seq(SUBSET PaintedTile)
      /\ \A i \in 1..Len(updates) : \A u \in updates[i] : u.tile \in Tiles /\ u.paint \in Nat
      /\ \A th \in sending : \A v \in snapshot[th] : v.tile \in Tiles /\ v.paint \in Nat
  <2>1. \A u \in PaintedTile : u.tile \in Tiles /\ u.paint \in Nat
    BY MaxPaintsAssumption DEF PaintedTile, Paints
  <2>2. \A i \in 1..Len(updates) : updates[i] \subseteq PaintedTile
    BY DEF TypeOK
  <2>3. \A th \in sending : snapshot[th] \subseteq PaintedTile
    BY DEF TypeOK
  <2>4. \A t \in Tiles : image[t] \in Nat /\ viewer[t] \in Nat
    BY MaxPaintsAssumption DEF TypeOK, Paints
  <2> QED
    BY <2>1, <2>2, <2>3, <2>4 DEF TypeOK
<1> USE DEF imgVars, sendVars
\* A tile gets newer.
<1>1. ASSUME NEW t \in Tiles, Paint(t) PROVE Ordered'
  <2>1. \A s \in Tiles : image'[s] >= image[s] /\ image'[s] \in Nat
    BY <1>0, <1>1 DEF Paint, TypeOK
  <2>2. UNCHANGED <<viewer, updates, sending, snapshot>>
    BY <1>1 DEF Paint
  <2> QED
    BY <1>0, <2>1, <2>2 DEF Ordered
\* What was read becomes the last update.
<1>2. ASSUME NEW th \in Threads, EndSend(th) PROVE Ordered'
  <2>1. sending' = {} /\ UNCHANGED <<image, viewer>>
    BY <1>2 DEF EndSend, Exclusive
  <2>2. CASE updates' = updates
    BY <2>1, <2>2 DEF Ordered
  <2>3. CASE updates' = Append(updates, snapshot[th])
    <3>1. th \in sending /\ snapshot[th] \subseteq PaintedTile
      BY <1>2 DEF EndSend, TypeOK
    <3>2. /\ Len(updates') = Len(updates) + 1 /\ Len(updates) \in Nat
          /\ updates'[Len(updates) + 1] = snapshot[th]
          /\ \A i \in 1..Len(updates) : updates'[i] = updates[i]
      BY <1>0, <2>3, <3>1
    <3>3. ASSUME NEW i \in 1..Len(updates')
          PROVE  /\ Once(updates'[i])
                 /\ \A u \in updates'[i] : viewer[u.tile] <= u.paint /\ u.paint <= image[u.tile]
      BY <3>1, <3>2 DEF Ordered
    <3>4. ASSUME NEW i \in 1..Len(updates'), NEW j \in 1..Len(updates'), i < j,
                 NEW u \in updates'[i], NEW v \in updates'[j], u.tile = v.tile
          PROVE  u.paint <= v.paint
      <4>1. i \in 1..Len(updates) /\ u \in updates[i]
        BY <3>2, <3>4
      <4>2. CASE j = Len(updates) + 1
        BY <3>1, <3>2, <3>4, <4>1, <4>2 DEF Ordered
      <4>3. CASE j \in 1..Len(updates)
        BY <3>2, <3>4, <4>1, <4>3 DEF Ordered
      <4> QED
        BY <3>2, <4>2, <4>3
    <3> QED
      BY <2>1, <3>3, <3>4 DEF Ordered
  <2> QED
    BY <1>2, <2>2, <2>3 DEF EndSend
\* The first update is shown.
<1>3. CASE ViewerReceives
  <2>1. /\ UNCHANGED <<image, sending, snapshot>> /\ updates # <<>>
        /\ Len(updates') = Len(updates) - 1 /\ Len(updates) \in Nat
        /\ \A i \in 1..Len(updates') : updates'[i] = updates[i + 1] /\ i + 1 \in 1..Len(updates)
        /\ Head(updates) = updates[1] /\ 1 \in 1..Len(updates)
    BY <1>0, <1>3 DEF ViewerReceives
  <2>2. ASSUME NEW t \in Tiles
        PROVE  viewer'[t] = viewer[t] \/ \E u \in updates[1] : u.tile = t /\ viewer'[t] = u.paint
    <3>1. viewer'[t] = IF \E u \in updates[1] : u.tile = t
                       THEN (CHOOSE u \in updates[1] : u.tile = t).paint ELSE viewer[t]
      BY <1>3, <2>1 DEF ViewerReceives
    <3> QED
      BY <3>1
  <2>3. \A t \in Tiles : viewer'[t] <= image[t]
    BY <2>1, <2>2 DEF Ordered
  <2>4. ASSUME NEW i \in 1..Len(updates'), NEW u \in updates'[i] PROVE viewer'[u.tile] <= u.paint
    <3>1. u \in updates[i + 1] /\ i + 1 \in 1..Len(updates) /\ 1 < i + 1 /\ u.tile \in Tiles
      BY <1>0, <2>1
    <3> QED
      BY <2>1, <2>2, <3>1 DEF Ordered
  <2>5. ASSUME NEW th \in sending, NEW u \in snapshot[th] PROVE viewer'[u.tile] <= u.paint
    BY <1>0, <2>1, <2>2 DEF Ordered
  <2>6. \A i \in 1..Len(updates') :
          Once(updates'[i]) /\ \A u \in updates'[i] : u.paint <= image[u.tile]
    BY <2>1 DEF Ordered
  <2>8. ASSUME NEW i \in 1..Len(updates'), NEW j \in 1..Len(updates'), i < j
        PROVE  \A u \in updates'[i], v \in updates'[j] : u.tile = v.tile => u.paint <= v.paint
    <3>1. i + 1 \in 1..Len(updates) /\ j + 1 \in 1..Len(updates) /\ i + 1 < j + 1
      BY <2>1, <2>8
    <3> QED
      BY <2>1, <3>1 DEF Ordered
  <2>7. \A th \in sending : \A v \in snapshot[th] :
          \A i \in 1..Len(updates') : \A u \in updates'[i] : u.tile = v.tile => u.paint <= v.paint
    BY <2>1 DEF Ordered
  <2> QED
    BY <2>1, <2>3, <2>4, <2>5, <2>6, <2>7, <2>8 DEF Ordered
<1>4. CASE ProcessClient
  BY <1>4, SendKeepsOrdered DEF ProcessClient, Threads
<1>5. CASE SendQueued
  BY <1>5, SendKeepsOrdered DEF SendQueued, Threads
<1>6. ASSUME NEW kind \in {"retry", "extra"}, MainTimer(kind) PROVE Ordered'
  BY <1>6, SendKeepsOrdered DEF MainTimer, Threads
<1>7. CASE UNCHANGED <<image, viewer, updates, sending, snapshot>>
  BY <1>7 DEF Ordered
<1>8. \/ \E t \in Tiles : Paint(t)
      \/ \E th \in Threads : EndSend(th)
      \/ \E kind \in {"retry", "extra"} : MainTimer(kind)
      \/ ProcessClient \/ SendQueued \/ ViewerReceives
      \/ UNCHANGED <<image, viewer, updates, sending, snapshot>>
  BY DEF Next, Announce, UpdateRect, ClientTimer, Handshake, EnterLoop, EndThread, DeleteClient, vars
<1> QED
  BY <1>1, <1>2, <1>3, <1>4, <1>5, <1>6, <1>7, <1>8

----------------------------------------------------------------------------
(* Nothing is forgotten                                                      *)

\* A tile that is coming keeps coming until it is recorded.
LEMMA ComingStays ==
  ASSUME TypeOK, [Next]_vars, thread = "loop", thread' = "loop", NEW s \in Tiles, Coming(s)
  PROVE  Coming(s)' \/ s \in changed'
<1>0. /\ mainQueue \in Seq(Events) /\ Slot("sendUpdates") \in Events /\ Slot("delete") \in Events
      /\ \A t \in Tiles : Rect(t) \in Events
  BY DEF TypeOK, Events
<1> USE DEF imgVars, sendVars
<1>1. CASE mainQueue' = mainQueue /\ painted \subseteq painted'
  BY <1>1 DEF Coming, InQueue
<1>2. ASSUME NEW t \in Tiles, Announce(t) PROVE Coming(s)'
  <2>1. mainQueue' = Append(mainQueue, Rect(t)) /\ painted' = painted \ {t}
    BY <1>2 DEF Announce
  <2>2. InQueue(Rect(t))' /\ (InQueue(Rect(s)) => InQueue(Rect(s))')
    BY <1>0, <2>1, Posted DEF InQueue
  <2> QED
    BY <2>1, <2>2 DEF Coming
<1>3. ASSUME NEW t \in Tiles, UpdateRect(t) PROVE Coming(s)' \/ s \in changed'
  <2>1. CASE s = t
    BY <1>3, <2>1 DEF UpdateRect
  <2>2. CASE s # t
    <3>1. InQueue(Rect(s)) => InQueue(Rect(s))'
      BY <1>0, <1>3, <2>2, Handled, EventsDiffer DEF UpdateRect, InQueue
    <3> QED
      BY <1>3, <3>1 DEF UpdateRect, Coming
  <2> QED
    BY <2>1, <2>2
<1>4. CASE SendQueued
  <2>1. InQueue(Rect(s)) => InQueue(Rect(s))'
    BY <1>0, <1>4, Handled, EventsDiffer DEF SendQueued, InQueue
  <2> QED
    BY <1>4, <2>1 DEF SendQueued, Coming
<1>5. ASSUME NEW kind \in {"retry", "extra"}, ClientTimer(kind) PROVE Coming(s)'
  <2>1. InQueue(Rect(s)) => InQueue(Rect(s))'
    BY <1>0, <1>5, Posted DEF ClientTimer, InQueue
  <2> QED
    BY <1>5, <2>1 DEF ClientTimer, Coming
<1>6. \/ mainQueue' = mainQueue /\ painted \subseteq painted'
      \/ \E t \in Tiles : Announce(t) \/ UpdateRect(t)
      \/ \E kind \in {"retry", "extra"} : ClientTimer(kind)
      \/ SendQueued
  BY DEF Next, Paint, EndSend, MainTimer, Handshake, EnterLoop, ProcessClient, EndThread,
         DeleteClient, ViewerReceives, vars
<1> QED
  BY <1>1, <1>2, <1>3, <1>4, <1>5, <1>6

\* sendUpdates() begins: it reads what is recorded.
LEMMA SendKeepsSnapshots ==
  ASSUME TypeOK, Snapshots, NEW th \in Threads, NEW p, NEW tm, BeginSend(th, p, tm),
         UNCHANGED <<image, changed, thread, painted>>,
         thread = "loop" => \A s \in Tiles : Coming(s) => Coming(s)'
  PROVE  Snapshots'
<1> SUFFICES ASSUME thread = "loop"
             PROVE  \A a \in sending' :
                      /\ \A u \in snapshot'[a] : u.tile \in changed
                      /\ \A t \in changed : \E u \in snapshot'[a] :
                            u.tile = t /\ (u.paint = image[t] \/ Coming(t)')
  BY DEF Snapshots
<1>1. CASE UNCHANGED <<sending, snapshot>>
  BY <1>1 DEF Snapshots, TypeOK
<1>2. CASE ~UNCHANGED <<sending, snapshot>>
  <2> DEFINE read == {[tile |-> t, paint |-> image[t]] : t \in changed}
  <2>1. sending' = {th} /\ snapshot'[th] = read
    BY <1>2 DEF BeginSend, Unlocked, TypeOK
  <2>2. \A u \in read : u.tile \in changed
    OBVIOUS
  <2>3. ASSUME NEW t \in changed PROVE \E u \in read : u.tile = t /\ u.paint = image[t]
    <3>1. [tile |-> t, paint |-> image[t]] \in read
      OBVIOUS
    <3> QED
      BY <3>1
  <2> QED
    BY <2>1, <2>2, <2>3
<1> QED
  BY <1>1, <1>2

LEMMA StepKeepsSnapshots == TypeOK /\ Exclusive /\ Snapshots /\ [Next]_vars => Snapshots'
<1> SUFFICES ASSUME TypeOK, Exclusive, Snapshots, [Next]_vars PROVE Snapshots'
    OBVIOUS
<1> USE DEF imgVars, sendVars
<1>1. CASE sending' = {}
  BY <1>1 DEF Snapshots
<1>2. ASSUME NEW t \in Tiles, Paint(t) PROVE Snapshots'
  <2>1. /\ \A s \in Tiles : s # t => image'[s] = image[s]
        /\ Coming(t)' /\ \A s : Coming(s) => Coming(s)'
    BY <1>2 DEF Paint, TypeOK, Coming, InQueue
  <2>2. UNCHANGED <<thread, sending, snapshot, changed>> /\ changed \subseteq Tiles
    BY <1>2 DEF Paint, TypeOK
  <2> QED
    BY <2>1, <2>2 DEF Snapshots
<1>3. CASE ProcessClient
  <2>1. \A s : Coming(s) => Coming(s)'
    BY <1>3 DEF ProcessClient, Coming, InQueue
  <2> QED
    BY <1>3, <2>1, SendKeepsSnapshots DEF ProcessClient, Threads
<1>4. ASSUME NEW kind \in {"retry", "extra"}, MainTimer(kind) PROVE Snapshots'
  <2>1. \A s : Coming(s) => Coming(s)'
    BY <1>4 DEF MainTimer, Coming, InQueue
  <2> QED
    BY <1>4, <2>1, SendKeepsSnapshots DEF MainTimer, Threads
<1>5. CASE SendQueued
  <2>1. mainQueue \in Seq(Events)
    BY DEF TypeOK, Events
  <2>2. \A s : Coming(s) => Coming(s)'
    BY <1>5, <2>1, Handled, EventsDiffer DEF SendQueued, Coming, InQueue
  <2> QED
    BY <1>5, <2>2, SendKeepsSnapshots DEF SendQueued, Threads
<1>6. ASSUME NEW t \in Tiles, Announce(t) PROVE Snapshots'
  <2>1. UNCHANGED <<image, thread, sending, snapshot, changed>> /\ changed \subseteq Tiles
    BY <1>6 DEF Announce, TypeOK
  <2>2. ASSUME thread = "loop", NEW s \in Tiles, Coming(s) PROVE Coming(s)'
    <3>1. mainQueue \in Seq(Events) /\ Rect(t) \in Events
      BY DEF TypeOK, Events
    <3>2. mainQueue' = Append(mainQueue, Rect(t)) /\ painted' = painted \ {t}
      BY <1>6, <2>2 DEF Announce
    <3>3. InQueue(Rect(t))' /\ (InQueue(Rect(s)) => InQueue(Rect(s))')
      BY <3>1, <3>2, Posted DEF InQueue
    <3> QED
      BY <2>2, <3>2, <3>3 DEF Coming
  <2> QED
    BY <2>1, <2>2 DEF Snapshots
<1>7. ASSUME NEW kind \in {"retry", "extra"}, ClientTimer(kind) PROVE Snapshots'
  <2>1. UNCHANGED <<image, thread, sending, snapshot, changed>> /\ changed \subseteq Tiles
    BY <1>7 DEF ClientTimer, TypeOK
  <2>2. \A s : Coming(s) => Coming(s)'
    <3>1. mainQueue \in Seq(Events) /\ Slot("sendUpdates") \in Events
      BY DEF TypeOK, Events
    <3> QED
      BY <1>7, <3>1, Posted DEF ClientTimer, Coming, InQueue
  <2> QED
    BY <2>1, <2>2 DEF Snapshots
<1>8. CASE ViewerReceives \/ UNCHANGED vars
  BY <1>8 DEF ViewerReceives, vars, Snapshots, Coming, InQueue
<1>9. CASE thread' # "loop"
  BY <1>9 DEF Snapshots
<1>10. \/ sending' = {} \/ thread' # "loop"
       \/ \E t \in Tiles : Paint(t) \/ Announce(t)
       \/ \E kind \in {"retry", "extra"} : MainTimer(kind) \/ ClientTimer(kind)
       \/ ProcessClient \/ SendQueued \/ ViewerReceives \/ UNCHANGED vars
  BY DEF Next, UpdateRect, EndSend, Handshake, EnterLoop, EndThread, DeleteClient, Unlocked, Exclusive
<1> QED
  BY <1>1, <1>2, <1>3, <1>4, <1>5, <1>6, <1>7, <1>8, <1>9, <1>10

LEMMA StepKeepsSuperseded ==
  UpdateInv /\ [Next]_vars => Superseded'
<1> SUFFICES ASSUME UpdateInv, [Next]_vars, thread' = "loop"
             PROVE  Superseded'
  BY DEF Superseded
<1> USE DEF UpdateInv, imgVars, sendVars
<1>0. /\ updates \in Seq(SUBSET PaintedTile) /\ changed \subseteq Tiles
      /\ \A i \in 1..Len(updates) : \A u \in updates[i] : u.tile \in Tiles
  <2>1. \A i \in 1..Len(updates) : updates[i] \subseteq PaintedTile
    BY DEF TypeOK
  <2> QED
    BY <2>1 DEF TypeOK, PaintedTile
\* The key frame.
<1>1. CASE thread # "loop"
  <2>1. changed' = Tiles
    BY <1>1 DEF Next, Paint, Announce, UpdateRect, EndSend, ClientTimer, MainTimer, Handshake, EnterLoop,
                KeyFrame, ProcessClient, EndThread, SendQueued, DeleteClient, ViewerReceives, vars
  <2> QED
    BY <2>1 DEF Superseded
<1>2. ASSUME thread = "loop", NEW t \in Tiles, Paint(t) PROVE Superseded'
  <2>1. Coming(t)' /\ \A s : Coming(s) => Coming(s)'
    BY <1>2 DEF Paint, Coming, InQueue
  <2>2. \A s \in Tiles : s # t => image'[s] = image[s]
    BY <1>2 DEF Paint, TypeOK
  <2>3. UNCHANGED <<viewer, updates, changed>>
    BY <1>2 DEF Paint
  <2> QED
    BY <1>2, <2>1, <2>2, <2>3 DEF Superseded, Carried
\* What is cleared was written as it is, or is coming.
<1>3. ASSUME thread = "loop", NEW th \in Threads, EndSend(th) PROVE Superseded'
  <2>1. /\ th \in sending /\ UNCHANGED <<image, viewer, painted, mainQueue>>
        /\ updates' = Append(updates, snapshot[th]) /\ snapshot[th] \subseteq PaintedTile
    BY <1>3 DEF EndSend, TypeOK
  <2>2. /\ Len(updates') = Len(updates) + 1 /\ Len(updates) \in Nat
        /\ updates'[Len(updates) + 1] = snapshot[th]
        /\ \A i \in 1..Len(updates) : updates'[i] = updates[i]
    BY <1>0, <2>1
  <2>3. \A s : Coming(s)' = Coming(s)
    BY <2>1 DEF Coming, InQueue
  <2>4. ASSUME NEW s \in changed, ~Coming(s), NEW k \in 0..Len(updates) PROVE Carried(s, k)'
    <3>1. PICK u \in snapshot[th] : u.tile = s /\ u.paint = image[s]
      BY <1>3, <2>1, <2>4 DEF Snapshots
    <3>2. u = [tile |-> s, paint |-> image[s]]
      BY <2>1, <3>1 DEF PaintedTile
    <3>3. Len(updates) + 1 \in 1..Len(updates') /\ k < Len(updates) + 1
      BY <2>2
    <3> QED
      BY <2>1, <2>2, <3>1, <3>2, <3>3 DEF Carried
  <2>5. ASSUME NEW s, NEW k \in 0..Len(updates), Carried(s, k) PROVE Carried(s, k)'
    <3>1. \A j \in 1..Len(updates) : j \in 1..Len(updates')
      BY <2>2
    <3> QED
      BY <2>1, <2>2, <2>5, <3>1 DEF Carried
  <2>6. ASSUME NEW s \in Tiles PROVE viewer'[s] = image'[s] \/ Coming(s)' \/ Carried(s, 0)'
    <3>1. 0 \in 0..Len(updates)
      BY <2>2
    <3>2. viewer[s] = image[s] \/ Coming(s) \/ s \in changed \/ Carried(s, 0)
      BY <1>3 DEF Superseded
    <3> QED
      BY <2>1, <2>3, <2>4, <2>5, <3>1, <3>2
  <2>7. ASSUME NEW k \in 1..Len(updates'), NEW u \in updates'[k]
        PROVE  u.paint = image'[u.tile] \/ Coming(u.tile)' \/ Carried(u.tile, k)'
    <3>1. CASE k \in 1..Len(updates)
      <4>1. k \in 0..Len(updates) /\ u \in updates[k] /\ u.tile \in Tiles
        BY <1>0, <2>2, <3>1
      <4>2. u.paint = image[u.tile] \/ Coming(u.tile) \/ u.tile \in changed \/ Carried(u.tile, k)
        BY <1>3, <3>1, <4>1 DEF Superseded
      <4> QED
        BY <2>1, <2>3, <2>4, <2>5, <4>1, <4>2
    <3>2. CASE k = Len(updates) + 1
      <4>1. u \in snapshot[th]
        BY <2>2, <3>2
      <4>2. u.tile \in changed
        BY <1>3, <2>1, <4>1 DEF Snapshots
      <4>3. PICK v \in snapshot[th] : v.tile = u.tile /\ (v.paint = image[u.tile] \/ Coming(u.tile))
        BY <1>3, <2>1, <4>2 DEF Snapshots
      <4>4. u = v
        BY <2>1, <4>1, <4>3 DEF Ordered, Once
      <4> QED
        BY <2>1, <2>3, <4>3, <4>4
    <3> QED
      BY <2>2, <3>1, <3>2
  <2> QED
    BY <2>6, <2>7 DEF Superseded
\* What is shown is as it is, or superseded by what follows it.
<1>4. ASSUME thread = "loop", ViewerReceives PROVE Superseded'
  <2>1. /\ UNCHANGED <<image, painted, mainQueue, changed>> /\ updates # <<>>
        /\ Len(updates') = Len(updates) - 1 /\ Len(updates) \in Nat
        /\ \A i \in 1..Len(updates') : updates'[i] = updates[i + 1] /\ i + 1 \in 1..Len(updates)
        /\ Head(updates) = updates[1] /\ 1 \in 1..Len(updates)
    BY <1>0, <1>4 DEF ViewerReceives
  <2>2. \A s : Coming(s)' = Coming(s)
    BY <2>1 DEF Coming, InQueue
  <2>3. ASSUME NEW s, NEW k \in Nat, Carried(s, k + 1) PROVE Carried(s, k)'
    <3>1. PICK j \in 1..Len(updates) : k + 1 < j /\ [tile |-> s, paint |-> image[s]] \in updates[j]
      BY <2>3 DEF Carried
    <3>2. j - 1 \in 1..Len(updates') /\ k < j - 1 /\ updates'[j - 1] = updates[j]
      BY <2>1, <3>1
    <3> QED
      BY <2>1, <3>1, <3>2 DEF Carried
  <2>4. ASSUME NEW s \in Tiles
        PROVE  viewer'[s] = image'[s] \/ Coming(s)' \/ s \in changed' \/ Carried(s, 0)'
    <3>1. CASE \E u \in updates[1] : u.tile = s
      <4>1. PICK u \in updates[1] : u.tile = s /\ viewer'[s] = u.paint
        <5>1. viewer'[s] = (CHOOSE u \in updates[1] : u.tile = s).paint
          BY <1>4, <2>1, <3>1 DEF ViewerReceives
        <5> QED
          BY <3>1, <5>1
      <4>2. u.paint = image[s] \/ Coming(s) \/ s \in changed \/ Carried(s, 1)
        BY <1>4, <2>1, <4>1 DEF Superseded
      <4>3. Carried(s, 1) => Carried(s, 0)'
        BY <2>3
      <4> QED
        BY <2>1, <2>2, <4>1, <4>2, <4>3
    <3>2. CASE ~\E u \in updates[1] : u.tile = s
      <4>1. viewer'[s] = viewer[s]
        BY <1>4, <2>1, <3>2 DEF ViewerReceives
      <4>2. ASSUME Carried(s, 0) PROVE Carried(s, 1)
        <5>1. PICK j \in 1..Len(updates) : [tile |-> s, paint |-> image[s]] \in updates[j]
          BY <4>2 DEF Carried
        <5>2. [tile |-> s, paint |-> image[s]].tile = s
          OBVIOUS
        <5>3. j # 1
          BY <3>2, <5>1, <5>2
        <5>4. 1 < j
          BY <5>3
        <5> QED
          BY <5>1, <5>4 DEF Carried
      <4>3. Carried(s, 1) => Carried(s, 0)'
        BY <2>3
      <4>4. viewer[s] = image[s] \/ Coming(s) \/ s \in changed \/ Carried(s, 0)
        BY <1>4 DEF Superseded
      <4> QED
        BY <2>1, <2>2, <4>1, <4>2, <4>3, <4>4
    <3> QED
      BY <3>1, <3>2
  <2>5. ASSUME NEW k \in 1..Len(updates'), NEW u \in updates'[k]
        PROVE  u.paint = image'[u.tile] \/ Coming(u.tile)' \/ u.tile \in changed' \/ Carried(u.tile, k)'
    <3>1. k + 1 \in 1..Len(updates) /\ u \in updates[k + 1] /\ u.tile \in Tiles /\ k \in Nat
      BY <1>0, <2>1
    <3>2. u.paint = image[u.tile] \/ Coming(u.tile) \/ u.tile \in changed \/ Carried(u.tile, k + 1)
      BY <1>4, <3>1 DEF Superseded
    <3>3. Carried(u.tile, k + 1) => Carried(u.tile, k)'
      BY <2>3, <3>1
    <3> QED
      BY <2>1, <2>2, <3>2, <3>3
  <2> QED
    BY <2>4, <2>5 DEF Superseded
\* The other steps change neither what is shown nor what is on the screen.
<1>5. ASSUME thread = "loop", UNCHANGED <<image, viewer, updates>>, changed \subseteq changed'
      PROVE  Superseded'
  <2>1. \A s \in Tiles : Coming(s) => Coming(s)' \/ s \in changed'
    BY <1>5, ComingStays
  <2>2. \A s, k : Carried(s, k)' = Carried(s, k)
    BY <1>5 DEF Carried
  <2> QED
    BY <1>5, <2>1, <2>2 DEF Superseded
<1>6. \/ thread # "loop"
      \/ \E t \in Tiles : Paint(t)
      \/ \E th \in Threads : EndSend(th)
      \/ ViewerReceives
      \/ UNCHANGED <<image, viewer, updates>> /\ changed \subseteq changed'
  BY DEF Next, Announce, UpdateRect, ClientTimer, MainTimer, Handshake, EnterLoop, ProcessClient,
         EndThread, SendQueued, DeleteClient, BeginSend, vars
<1> QED
  BY <1>1, <1>2, <1>3, <1>4, <1>5, <1>6

LEMMA StepKeepsInv == UpdateInv /\ [Next]_vars => UpdateInv'
BY StepKeepsTypes, StepKeepsExclusive, StepKeepsOrdered, StepKeepsSnapshots, StepKeepsSuperseded
   DEF UpdateInv

----------------------------------------------------------------------------
\* The invariant of a demo server's client: what is shown, under way, read,
\* recorded and announced follow each other (DemoServer.cpp:245-250, 309-510).
THEOREM UpdateInvariant == Spec => []UpdateInv
BY InitImpliesInv, StepKeepsInv, PTL DEF Spec

\* The types of a client, its threads and its queues (DemoServer.cpp:195-220).
THEOREM TypeCorrect == Spec => []TypeOK
<1>1. UpdateInv => TypeOK
  BY DEF UpdateInv
<1> QED
  BY <1>1, UpdateInvariant, PTL

\* What the viewer does not show yet is recorded, announced or under way
\* (DemoServer.cpp:245-250, 309-345, 498-510).
THEOREM PaintsAreNotForgotten == Spec => []NothingForgotten
<1>1. UpdateInv => NothingForgotten
  BY DEF UpdateInv, Superseded, Coming, Carried, NothingForgotten
<1> QED
  BY <1>1, UpdateInvariant, PTL

\* The mutex of sendUpdates() keeps updates in the order of what they show
\* (DemoServer.cpp:309-311).
THEOREM ViewersNeverGoBack == Spec => ViewerNeverGoesBack
<1>1. UpdateInv /\ [Next]_vars => [\A t \in Tiles : viewer'[t] >= viewer[t]]_vars
  <2> SUFFICES ASSUME UpdateInv, [Next]_vars, NEW t \in Tiles PROVE viewer'[t] >= viewer[t]
      OBVIOUS
  <2>0. viewer[t] \in Nat
    BY MaxPaintsAssumption DEF UpdateInv, TypeOK, Paints
  <2>1. CASE UNCHANGED viewer
    BY <2>0, <2>1
  <2>2. CASE ViewerReceives
    <3>1. updates # <<>> /\ Head(updates) = updates[1] /\ 1 \in 1..Len(updates)
      BY <2>2 DEF ViewerReceives, UpdateInv, TypeOK
    <3>2. updates[1] \subseteq PaintedTile
      BY <3>1 DEF UpdateInv, TypeOK
    <3>3. viewer'[t] = IF \E u \in updates[1] : u.tile = t
                       THEN (CHOOSE u \in updates[1] : u.tile = t).paint ELSE viewer[t]
      BY <2>2, <3>1 DEF ViewerReceives
    <3>4. \A u \in updates[1] : u.tile = t => viewer[t] <= u.paint /\ u.paint \in Nat
      BY <3>1, <3>2, MaxPaintsAssumption DEF UpdateInv, Ordered, PaintedTile, Paints
    <3> QED
      BY <2>0, <3>3, <3>4
  <2>3. UNCHANGED viewer \/ ViewerReceives
    BY DEF Next, Paint, Announce, UpdateRect, EndSend, ClientTimer, MainTimer, Handshake, EnterLoop,
           ProcessClient, EndThread, SendQueued, DeleteClient, vars
  <2> QED
    BY <2>1, <2>2, <2>3
<1> QED
  BY <1>1, UpdateInvariant, PTL DEF Spec, ViewerNeverGoesBack

----------------------------------------------------------------------------
(* The process: what inboxes hold.                                          *)

NoListIn(s) == \A i \in 1..Len(s) : ~IsList(s[i])

\* L is the last list in s.
LastIn(s, L) == \E i \in 1..Len(s) :
  s[i] = List(L) /\ \A j \in 1..Len(s) : j > i => ~IsList(s[j])

\* Which messages are lists, and that they tell their hosts.
LEMMA MessageTypes ==
  /\ Command("StartDemoServer") \in Messages /\ Command("Quit") \in Messages
  /\ \A S \in SUBSET Hosts : List(S) \in Messages /\ IsList(List(S))
  /\ ~IsList(Command("StartDemoServer")) /\ ~IsList(Command("Quit"))
  /\ \A S, T \in SUBSET Hosts : List(S) = List(T) => S = T
  /\ \A m \in Messages : IsList(m) => m.hosts \in SUBSET Hosts /\ m = List(m.hosts)
BY DEF Messages, List, Command, IsList

\* What is sent: a list is then the last one, anything else leaves that alone.
LEMMA ListAppended ==
  ASSUME NEW s \in Seq(Messages), NEW m \in Messages, NEW L \in SUBSET Hosts
  PROVE  /\ ~IsList(m) => /\ NoListIn(s) => NoListIn(Append(s, m))
                          /\ LastIn(s, L) => LastIn(Append(s, m), L)
         /\ LastIn(Append(s, List(L)), L)
<1>1. ASSUME NEW x \in Messages
      PROVE  /\ Len(s) \in Nat /\ Len(Append(s, x)) = Len(s) + 1
             /\ Append(s, x)[Len(s) + 1] = x
             /\ \A i \in 1..Len(s) : Append(s, x)[i] = s[i]
  OBVIOUS
<1>2. \A i \in 1..(Len(s) + 1) : i \in 1..Len(s) \/ i = Len(s) + 1
  BY <1>1, MessageTypes
<1>3. ~IsList(m) /\ NoListIn(s) => NoListIn(Append(s, m))
  BY <1>1, <1>2 DEF NoListIn
<1>4. ~IsList(m) /\ LastIn(s, L) => LastIn(Append(s, m), L)
  BY <1>1, <1>2 DEF LastIn
<1>5. LastIn(Append(s, List(L)), L)
  BY <1>1, <1>2, MessageTypes DEF LastIn
<1> QED BY <1>3, <1>4, <1>5

\* What is received: the last list stays the last one, or is the one received.
LEMMA ListTaken ==
  ASSUME NEW s \in Seq(Messages), s # <<>>, NEW L \in SUBSET Hosts
  PROVE  /\ NoListIn(s) => NoListIn(Tail(s)) /\ ~IsList(Head(s))
         /\ LastIn(s, L) => \/ LastIn(Tail(s), L)
                            \/ Head(s) = List(L) /\ NoListIn(Tail(s))
<1>1. /\ Len(s) \in Nat \ {0} /\ Len(Tail(s)) = Len(s) - 1 /\ Head(s) = s[1]
      /\ \A i \in 1..(Len(s) - 1) : Tail(s)[i] = s[i + 1]
  OBVIOUS
<1>2. NoListIn(s) => NoListIn(Tail(s)) /\ ~IsList(Head(s))
  BY <1>1 DEF NoListIn
<1>3. ASSUME NEW i \in 1..Len(s), s[i] = List(L),
             \A j \in 1..Len(s) : j > i => ~IsList(s[j])
      PROVE  LastIn(Tail(s), L) \/ (Head(s) = List(L) /\ NoListIn(Tail(s)))
  <2>1. CASE i = 1
    BY <1>1, <1>3, <2>1 DEF NoListIn
  <2>2. CASE i # 1
    <3>1. i - 1 \in 1..Len(Tail(s)) /\ Tail(s)[i - 1] = s[i]
      BY <1>1, <2>2
    <3>2. \A j \in 1..Len(Tail(s)) : j > i - 1 => ~IsList(Tail(s)[j])
      BY <1>1, <1>3
    <3> QED BY <1>3, <3>1, <3>2 DEF LastIn
  <2> QED BY <2>1, <2>2
<1> QED BY <1>2, <1>3 DEF LastIn

----------------------------------------------------------------------------
(* The types of the process' state (DemoServerMaster.cpp, DemoServerSlave.cpp). *)

\* A process that is not there yet, or any more.
LaunchedAndGone ==
  \A p \in Procs : /\ p > launched => main[p] = "unborn"
                   /\ ~Alive(p) => allowedIPs[p] = {}

\* The thread of a viewer moves on, and may take or free the mutex and note a failure.
LEMMA ViewerStep ==
  ASSUME NEW p \in Procs, NEW h \in Hosts,
         Connect(p, h) \/ Lock(p, h) \/ Authenticate(p, h) \/ Answer(p, h) \/ Leave(p, h)
  PROVE  /\ UNCHANGED serverVars
         /\ \E l \in Places : Goto(p, h, l)
         /\ \/ UNCHANGED dataMutex
            \/ \E k \in Hosts \cup {NoHost} : dataMutex' = [dataMutex EXCEPT ![p] = k]
         /\ \/ UNCHANGED failedHosts
            \/ failedHosts' = [failedHosts EXCEPT ![p] = @ \cup {h}]
<1> DEFINE Moves(l) == /\ l \in Places /\ Goto(p, h, l)
                       /\ UNCHANGED dataMutex \/ dataMutex' = [dataMutex EXCEPT ![p] = NoHost]
           Noted == UNCHANGED failedHosts \/ failedHosts' = [failedHosts EXCEPT ![p] = @ \cup {h}]
<1>1. CASE Connect(p, h) \/ Lock(p, h) \/ Leave(p, h)
  BY <1>1 DEF Connect, Lock, Leave, Places
<1>2. ASSUME ErrorMsgAuth(p, h) PROVE (\E l \in Places : Moves(l)) /\ Noted
  BY <1>2 DEF ErrorMsgAuth, Return, Places, Calls
<1>3. CASE HostBased(p, h) \/ Convince(p, h) \/ ShowTrayMessage(p, h)
  <2>1. \E l \in {"watch", "none"} : Return(p, h, l)
    BY <1>3 DEF HostBased, Convince, ShowTrayMessage
  <2> QED BY <1>3, <2>1 DEF HostBased, Convince, ShowTrayMessage, Return, Places
<1>4. CASE Fail(p, h) \/ ReturnChoice(p, h) \/ StopAccessDialog(p, h)
  <2>1. (\E l \in Places : Moves(l)) /\ Noted
    BY <1>2, <1>4 DEF Fail, ReturnChoice, StopAccessDialog, Return, Places
  <2> QED BY <1>4, <2>1 DEF Fail, ReturnChoice, StopAccessDialog
<1>5. CASE \/ AskUser(p, h) \/ CreateAccessDialog(p, h) \/ SendAsk(p, h)
           \/ Answer(p, h) \/ Expire(p, h) \/ CreateTrayIcon(p, h)
  BY <1>5 DEF AskUser, CreateAccessDialog, SendAsk, Answer, Expire, CreateTrayIcon,
              Executed, Places, Calls
<1> QED BY <1>1, <1>3, <1>4, <1>5 DEF Authenticate

\* Every step keeps the types.
LEMMA ProcessTypesStep ==
  ProcessTypeOK /\ LaunchedAndGone /\ [ProcessNext]_processVars
    => ProcessTypeOK' /\ LaunchedAndGone'
<1> SUFFICES ASSUME ProcessTypeOK, LaunchedAndGone, [ProcessNext]_processVars
             PROVE  ProcessTypeOK' /\ LaunchedAndGone'
  OBVIOUS
<1> USE BoundsAssumption DEF ProcessTypeOK, Procs
<1>a. /\ Command("StartDemoServer") \in Messages /\ Command("Quit") \in Messages
      /\ \A S \in SUBSET Hosts : List(S) \in Messages
  BY MessageTypes
<1>b. \A p \in Procs : inbox[p] \in Seq(Messages)
  OBVIOUS
<1>c. \A p \in Procs : /\ Append(inbox[p], Command("Quit")) \in Seq(Messages)
                       /\ \A S \in SUBSET Hosts : Append(inbox[p], List(S)) \in Seq(Messages)
  BY <1>a, <1>b
<1>q. Quit(inbox) \in [Procs -> Seq(Messages)]
  BY <1>c DEF Quit
<1> DEFINE Types == ProcessTypeOK' /\ LaunchedAndGone'
<1>1. CASE Start
  <2>1. launched + 1 \in Procs /\ ~(launched + 1 <= launched)
    BY <1>1 DEF Start
  <2>2. <<Command("StartDemoServer")>> \in Seq(Messages)
    BY <1>a
  <2>3. inbox' \in [Procs -> Seq(Messages)]
    BY <1>1, <1>q, <2>1, <2>2 DEF Start
  <2>b. told' \in BOOLEAN
    BY <1>1, Zenon DEF Start
  <2>c. /\ allowedHosts' \subseteq Hosts
        /\ launched' \in 0..MaxProcs /\ current' \in 0..launched'
        /\ main' \in [Procs -> {"unborn", "loop", "setAllowedIPs", "closing", "gone"}]
    BY <1>1, <2>1 DEF Start
  <2>4. ProcessTypeOK'
    BY <1>1, <2>b, <2>c, <2>3 DEF Start, clientVars
  <2>5. LaunchedAndGone'
    BY <1>1, <2>1 DEF Start, LaunchedAndGone, Alive
  <2> QED BY <2>4, <2>5
<1>2. CASE Stop \/ Finished
  <2>b. told' \in BOOLEAN
    BY <1>2, Zenon DEF Stop, Finished
  <2>c. inbox' \in [Procs -> Seq(Messages)] /\ current' \in 0..launched'
    BY <1>2, <1>q DEF Stop, Finished
  <2>1. ProcessTypeOK'
    BY <1>2, <2>b, <2>c DEF Stop, Finished, clientVars
  <2> QED BY <1>2, <2>1 DEF Stop, Finished, LaunchedAndGone, Alive
<1>3. ASSUME NEW h \in Hosts, AllowHost(h) \/ UnallowHost(h) PROVE Types
  <2>1. PICK S \in SUBSET Hosts : UpdateAllowedHosts(S) /\ allowedHosts' = S
    BY <1>3 DEF AllowHost, UnallowHost
  <2>a. told' \in BOOLEAN
    BY <2>1, Zenon DEF UpdateAllowedHosts
  <2>b. inbox' \in [Procs -> Seq(Messages)]
    <3>1. CASE current = 0
      BY <2>1, <3>1 DEF UpdateAllowedHosts
    <3>2. CASE current # 0
      <4>1. current \in Procs
        BY <3>2
      <4>2. Append(inbox[current], List(S)) \in Seq(Messages)
        BY <4>1, <1>c
      <4>3. inbox' = [inbox EXCEPT ![current] = Append(inbox[current], List(S))]
        BY <2>1, <3>2 DEF UpdateAllowedHosts
      <4> HIDE DEF Procs
      <4> QED BY <4>1, <4>2, <4>3
    <3> QED BY <3>1, <3>2
  <2>2. inbox' \in [Procs -> Seq(Messages)] /\ told' \in BOOLEAN
    BY <2>a, <2>b
  <2>3. UNCHANGED <<launched, current, port, main, newList, server, allowedIPs, clientVars>>
    BY <1>3 DEF AllowHost, UnallowHost
  <2>4. ProcessTypeOK'
    BY <2>1, <2>2, <2>3 DEF clientVars
  <2> QED BY <2>3, <2>4 DEF LaunchedAndGone, Alive
<1>4. ASSUME NEW p \in Procs, Gone(p), Alive(p) PROVE Types
  <2>1. ProcessTypeOK'
    <3>1. <<>> \in Seq(Messages) /\ [h \in Hosts |-> "none"] \in [Hosts -> {"none"}]
      OBVIOUS
    <3> QED BY <1>4, <3>1 DEF Gone, masterVars, Places
  <2> QED BY <1>4, <2>1 DEF Gone, LaunchedAndGone, Alive, masterVars
<1>5. ASSUME NEW p \in Procs, Kill(p) \/ Crash(p) \/ Close(p) PROVE Types
  BY <1>4, <1>5 DEF Kill, Crash, Close, Alive
<1>6. ASSUME NEW p \in Procs, NEW m \in Messages, Receive(p, m)
      PROVE  inbox' \in [Procs -> Seq(Messages)] /\ main[p] = "loop"
  <2>1. Tail(inbox[p]) \in Seq(Messages)
    BY <1>6, <1>b DEF Receive
  <2> QED BY <1>6, <2>1 DEF Receive
<1>7. ASSUME NEW p \in Procs, StartDemoServer(p) PROVE Types
  <2>1. inbox' \in [Procs -> Seq(Messages)]
    BY <1>6, <1>7, <1>a DEF StartDemoServer
  <2>2. ProcessTypeOK'
    BY <1>7, <2>1 DEF StartDemoServer, NewServer, masterVars, clientVars
  <2> QED BY <1>7, <2>2 DEF StartDemoServer, LaunchedAndGone, Alive, masterVars
<1>8. ASSUME NEW p \in Procs, NEW S \in SUBSET Hosts, CallSetAllowedIPs(p, S) PROVE Types
  <2>1. inbox' \in [Procs -> Seq(Messages)] /\ main[p] = "loop"
    BY <1>6, <1>8, <1>a DEF CallSetAllowedIPs
  <2>2. ProcessTypeOK'
    BY <1>8, <2>1 DEF CallSetAllowedIPs, masterVars, clientVars
  <2> QED BY <1>8, <2>1, <2>2 DEF CallSetAllowedIPs, LaunchedAndGone, Alive, masterVars
<1>9. ASSUME NEW p \in Procs, SetAllowedIPs(p) PROVE Types
  <2>1. ProcessTypeOK'
    BY <1>9 DEF SetAllowedIPs, NewIPs, masterVars, clientVars
  <2> QED BY <1>9, <2>1 DEF SetAllowedIPs, LaunchedAndGone, Alive, masterVars
<1>10. ASSUME NEW p \in Procs, ReceiveQuit(p) PROVE Types
  <2>1. inbox' \in [Procs -> Seq(Messages)] /\ main[p] = "loop"
    BY <1>6, <1>10, <1>a DEF ReceiveQuit
  <2>2. ProcessTypeOK'
    BY <1>10, <2>1 DEF ReceiveQuit, masterVars, clientVars
  <2> QED BY <1>10, <2>1, <2>2 DEF ReceiveQuit, LaunchedAndGone, Alive, masterVars
<1>11. ASSUME NEW p \in Procs, NEW h \in Hosts,
              Connect(p, h) \/ Lock(p, h) \/ Authenticate(p, h) \/ Answer(p, h) \/ Leave(p, h)
       PROVE  Types
  <2>1. UNCHANGED serverVars
    BY <1>11, ViewerStep
  <2>2. \E l \in Places : Goto(p, h, l)
    BY <1>11, ViewerStep
  <2>3. pc' \in [Procs -> [Hosts -> Places]]
    BY <2>2 DEF Goto
  <2>a. /\ \/ UNCHANGED dataMutex
           \/ \E k \in Hosts \cup {NoHost} : dataMutex' = [dataMutex EXCEPT ![p] = k]
        /\ \/ UNCHANGED failedHosts
           \/ failedHosts' = [failedHosts EXCEPT ![p] = @ \cup {h}]
    BY <1>11, ViewerStep
  <2>4. /\ dataMutex' \in [Procs -> Hosts \cup {NoHost}]
        /\ failedHosts' \in [Procs -> SUBSET Hosts]
    <3>1. dataMutex \in [Procs -> Hosts \cup {NoHost}] /\ failedHosts \in [Procs -> SUBSET Hosts]
      OBVIOUS
    <3>2. failedHosts[p] \cup {h} \in SUBSET Hosts
      BY <3>1
    <3> HIDE DEF ProcessTypeOK, Procs
    <3>3. dataMutex' \in [Procs -> Hosts \cup {NoHost}]
      BY <2>a, <3>1
    <3>4. failedHosts' \in [Procs -> SUBSET Hosts]
      BY <2>a, <3>1, <3>2
    <3> QED BY <3>3, <3>4
  <2>5. ProcessTypeOK'
    BY <2>1, <2>3, <2>4 DEF serverVars, masterVars
  <2> QED BY <2>1, <2>5 DEF serverVars, masterVars, LaunchedAndGone, Alive
<1>12. CASE UNCHANGED processVars
  BY <1>12 DEF processVars, masterVars, clientVars, LaunchedAndGone, Alive
<1> QED BY <1>1, <1>2, <1>3, <1>5, <1>7, <1>8, <1>9, <1>10, <1>11, <1>12
        DEF ProcessNext, Main

\* The state of the processes keeps its types, and a process that is not there
\* admits nobody (DemoServerMaster.cpp:47-74, DemoServerSlave.cpp:79-128).
THEOREM ProcessTypeCorrect == ProcessSpec => [](ProcessTypeOK /\ LaunchedAndGone)
<1>1. ProcessInit => ProcessTypeOK /\ LaunchedAndGone
  <2> SUFFICES ASSUME ProcessInit PROVE ProcessTypeOK /\ LaunchedAndGone
    OBVIOUS
  <2>1. told \in BOOLEAN
    BY Zenon DEF ProcessInit
  <2>2. /\ launched \in 0..MaxProcs /\ current \in 0..launched /\ port \in 0..MaxProcs
        /\ <<>> \in Seq(Messages)
    BY BoundsAssumption DEF ProcessInit
  <2>3. pc \in [Procs -> [Hosts -> Places]]
    BY DEF ProcessInit, Places
  <2>4. ProcessTypeOK
    BY <2>1, <2>2, <2>3 DEF ProcessInit, ProcessTypeOK
  <2> QED BY <2>4 DEF ProcessInit, LaunchedAndGone, Alive
<1> QED BY <1>1, ProcessTypesStep, PTL DEF ProcessSpec

----------------------------------------------------------------------------
(* The list of allowed hosts on its way (DemoServerMaster.cpp:68-73,         *)
(* DemoServerSlave.cpp:104-128).                                            *)

NoQuitIn(s) == \A i \in 1..Len(s) : s[i] # Command("Quit")

\* What process p ends up with, once it has handled what is under way, is L.
Settles(p, L) ==
  \/ LastIn(inbox[p], L)
  \/ /\ NoListIn(inbox[p])
     /\ main[p] = "setAllowedIPs" => newList[p] = L
     /\ main[p] # "setAllowedIPs" => allowedIPs[p] = L

\* The process of the entry was not asked to quit.  It has, or gets, the list of
\* the core service, or was never told one and admits nobody.
InformedOf(p) ==
  /\ main[p] \in {"loop", "setAllowedIPs"}
  /\ NoQuitIn(inbox[p])
  /\ told => Settles(p, allowedHosts)
  /\ ~told => NoListIn(inbox[p]) /\ main[p] # "setAllowedIPs" /\ allowedIPs[p] = {}

Informed == \A p \in Procs : p = current /\ Alive(p) => InformedOf(p)

\* A message that does not end the process.
LEMMA NoQuitAppended ==
  ASSUME NEW s \in Seq(Messages), NEW m \in Messages
  PROVE  m # Command("Quit") /\ NoQuitIn(s) => NoQuitIn(Append(s, m))
<1>1. /\ Len(s) \in Nat /\ Len(Append(s, m)) = Len(s) + 1
      /\ Append(s, m)[Len(s) + 1] = m
      /\ \A i \in 1..Len(s) : Append(s, m)[i] = s[i]
  OBVIOUS
<1>2. \A i \in 1..(Len(s) + 1) : i \in 1..Len(s) \/ i = Len(s) + 1
  BY <1>1
<1> QED BY <1>1, <1>2 DEF NoQuitIn

\* A message received from an inbox without Quit.
LEMMA QuitTaken ==
  ASSUME NEW s \in Seq(Messages), s # <<>>, NoQuitIn(s)
  PROVE  NoQuitIn(Tail(s)) /\ Head(s) # Command("Quit")
<1>1. /\ Len(s) \in Nat \ {0} /\ Len(Tail(s)) = Len(s) - 1 /\ Head(s) = s[1]
      /\ \A i \in 1..(Len(s) - 1) : Tail(s)[i] = s[i + 1]
  OBVIOUS
<1> QED BY <1>1 DEF NoQuitIn

\* A step that leaves alone what the invariant says of a process.
LEMMA InformedStays ==
  ASSUME NEW p \in Procs, InformedOf(p), UNCHANGED <<told, allowedHosts>>,
         inbox'[p] = inbox[p], main'[p] = main[p], newList'[p] = newList[p],
         allowedIPs'[p] = allowedIPs[p]
  PROVE  InformedOf(p)'
BY DEF InformedOf, Settles

\* Every step keeps the list of the core service on its way to the process.
LEMMA InformedStep ==
  ProcessTypeOK /\ LaunchedAndGone /\ Informed /\ [ProcessNext]_processVars => Informed'
<1> SUFFICES ASSUME ProcessTypeOK, LaunchedAndGone, Informed, [ProcessNext]_processVars,
                    NEW p \in Procs, p = current', Alive(p)'
             PROVE  InformedOf(p)'
  BY DEF Informed
<1> USE DEF ProcessTypeOK
<1>a. /\ \A q \in Procs : inbox[q] \in Seq(Messages)
      /\ inbox \in [Procs -> Seq(Messages)]
      /\ main \in [Procs -> {"unborn", "loop", "setAllowedIPs", "closing", "gone"}]
      /\ newList \in [Procs -> SUBSET Hosts] /\ allowedIPs \in [Procs -> SUBSET Hosts]
      /\ allowedHosts \in SUBSET Hosts
  OBVIOUS
<1> DEFINE Same == /\ UNCHANGED <<told, allowedHosts, current>> /\ inbox'[p] = inbox[p]
                   /\ main'[p] = main[p] /\ newList'[p] = newList[p]
                   /\ allowedIPs'[p] = allowedIPs[p]
<1>b. ASSUME Same PROVE InformedOf(p)'
  BY <1>b, InformedStays DEF Informed, Alive
<1>1. CASE Start
  <2>1. p = launched + 1 /\ main[p] = "unborn" /\ told' = FALSE
    BY <1>1, BoundsAssumption DEF Start, LaunchedAndGone, Procs
  <2>2. allowedIPs[p] = {}
    BY <2>1 DEF LaunchedAndGone, Alive
  <2>3. main'[p] = "loop" /\ allowedIPs'[p] = {}
    BY <1>1, <1>a, <2>1, <2>2 DEF Start
  <2>4. inbox'[p] = <<Command("StartDemoServer")>>
    <3>1. DOMAIN Quit(inbox) = Procs
      BY <1>a DEF Quit
    <3> QED BY <1>1, <2>1, <3>1 DEF Start
  <2>5. NoListIn(inbox'[p]) /\ NoQuitIn(inbox'[p])
    BY <2>4, MessageTypes DEF NoListIn, NoQuitIn, Command
  <2> QED BY <2>1, <2>3, <2>5 DEF InformedOf
<1>2. CASE Stop \/ Finished
  BY <1>2 DEF Stop, Finished, Procs
<1>3. ASSUME NEW h \in Hosts, AllowHost(h) \/ UnallowHost(h) PROVE InformedOf(p)'
  <2>1. /\ UpdateAllowedHosts(allowedHosts') /\ allowedHosts' \in SUBSET Hosts
        /\ UNCHANGED <<current, main, newList, allowedIPs>>
    BY <1>3, <1>a DEF AllowHost, UnallowHost
  <2>2. current \in Procs /\ current # 0 /\ p = current
    BY <2>1 DEF Procs
  <2>3. told' = TRUE /\ inbox'[p] = Append(inbox[p], List(allowedHosts'))
    BY <2>1, <2>2, <1>a DEF UpdateAllowedHosts
  <2>4. InformedOf(p)
    BY <2>1, <2>2 DEF Informed, Alive
  <2>5. LastIn(inbox'[p], allowedHosts')
    <3>1. inbox[p] \in Seq(Messages) /\ Command("Quit") \in Messages
      BY <1>a, MessageTypes
    <3>2. LastIn(Append(inbox[p], List(allowedHosts')), allowedHosts')
      BY <2>1, <3>1, ListAppended
    <3> QED BY <2>3, <3>2
  <2>6. List(allowedHosts') \in Messages /\ List(allowedHosts') # Command("Quit")
    BY <2>1, MessageTypes
  <2>7. NoQuitIn(inbox'[p])
    BY <2>3, <2>4, <2>6, <1>a, NoQuitAppended DEF InformedOf
  <2> QED BY <2>1, <2>3, <2>4, <2>5, <2>7 DEF InformedOf, Settles
<1>4. ASSUME NEW q \in Procs, Gone(q) PROVE InformedOf(p)'
  <2>1. q # p
    BY <1>4, <1>a DEF Gone, Alive
  <2>2. Same
    BY <1>4, <2>1, <1>a DEF Gone, masterVars
  <2> QED BY <1>b, <2>2
<1>5. ASSUME NEW q \in Procs, Kill(q) \/ Crash(q) \/ Close(q) PROVE InformedOf(p)'
  BY <1>4, <1>5 DEF Kill, Crash, Close
<1>6. ASSUME NEW q \in Procs, NEW m \in Messages, Receive(q, m)
      PROVE  /\ q # p => inbox'[p] = inbox[p]
             /\ q = p => /\ inbox'[p] = Tail(inbox[p]) /\ inbox[p] # <<>>
                         /\ Head(inbox[p]) = m /\ main[p] = "loop"
  BY <1>6, <1>a DEF Receive
<1>7. ASSUME NEW q \in Procs, StartDemoServer(q) PROVE InformedOf(p)'
  <2>1. UNCHANGED <<masterVars, main, newList, allowedIPs>>
        /\ Receive(q, Command("StartDemoServer"))
    BY <1>7 DEF StartDemoServer
  <2>2. Command("StartDemoServer") \in Messages /\ ~IsList(Command("StartDemoServer"))
    BY MessageTypes
  <2>3. CASE q # p
    BY <1>b, <1>6, <2>1, <2>2, <2>3 DEF masterVars
  <2>4. CASE q = p
    <3>1. InformedOf(p)
      BY <2>1 DEF Informed, Alive, masterVars
    <3>2. /\ inbox'[p] = Tail(inbox[p]) /\ inbox[p] # <<>>
          /\ Head(inbox[p]) = Command("StartDemoServer")
      BY <1>6, <2>1, <2>2, <2>4
    <3>3. NoQuitIn(inbox'[p])
      BY <3>1, <3>2, <1>a, QuitTaken DEF InformedOf
    <3>4. NoListIn(inbox[p]) => NoListIn(inbox'[p])
      BY <3>2, <1>a, ListTaken
    <3>5. LastIn(inbox[p], allowedHosts) => LastIn(inbox'[p], allowedHosts)
      BY <3>2, <2>2, <1>a, ListTaken, MessageTypes
    <3> QED BY <2>1, <3>1, <3>3, <3>4, <3>5 DEF InformedOf, Settles, masterVars
  <2> QED BY <2>3, <2>4
<1>8. ASSUME NEW q \in Procs, NEW S \in SUBSET Hosts, CallSetAllowedIPs(q, S)
      PROVE  InformedOf(p)'
  <2>1. /\ UNCHANGED <<masterVars, allowedIPs>> /\ Receive(q, List(S))
        /\ main' = [main EXCEPT ![q] = "setAllowedIPs"]
        /\ newList' = [newList EXCEPT ![q] = S]
    BY <1>8 DEF CallSetAllowedIPs
  <2>2. List(S) \in Messages /\ IsList(List(S))
    BY MessageTypes
  <2>3. CASE q # p
    BY <1>b, <1>6, <1>a, <2>1, <2>2, <2>3 DEF masterVars
  <2>4. CASE q = p
    <3>1. /\ inbox'[p] = Tail(inbox[p]) /\ inbox[p] # <<>>
          /\ Head(inbox[p]) = List(S) /\ main[p] = "loop"
      BY <1>6, <2>1, <2>2, <2>4
    <3>2. InformedOf(p)
      BY <2>1, <3>1 DEF Informed, Alive, masterVars
    <3>3. NoQuitIn(inbox'[p])
      BY <3>1, <3>2, <1>a, QuitTaken DEF InformedOf
    <3>4. ~NoListIn(inbox[p])
      BY <3>1, <2>2, <1>a, ListTaken
    <3>5. told /\ LastIn(inbox[p], allowedHosts)
      BY <3>2, <3>4 DEF InformedOf, Settles
    <3>6. \/ LastIn(inbox'[p], allowedHosts)
          \/ S = allowedHosts /\ NoListIn(inbox'[p])
      <4>1. inbox[p] \in Seq(Messages) /\ allowedHosts \in SUBSET Hosts
        BY <1>a
      <4>2. \/ LastIn(Tail(inbox[p]), allowedHosts)
            \/ Head(inbox[p]) = List(allowedHosts) /\ NoListIn(Tail(inbox[p]))
        BY <3>1, <3>5, <4>1, ListTaken
      <4>3. List(S) = List(allowedHosts) => S = allowedHosts
        BY DEF List
      <4> QED BY <3>1, <4>2, <4>3
    <3>7. main'[p] = "setAllowedIPs" /\ newList'[p] = S
      BY <2>1, <2>4, <1>a
    <3>8. UNCHANGED <<told, allowedHosts>>
      BY <2>1 DEF masterVars
    <3> QED BY <3>3, <3>5, <3>6, <3>7, <3>8 DEF InformedOf, Settles
  <2> QED BY <2>3, <2>4
<1>9. ASSUME NEW q \in Procs, SetAllowedIPs(q) PROVE InformedOf(p)'
  <2>1. /\ UNCHANGED <<masterVars, inbox>> /\ main[q] = "setAllowedIPs"
        /\ allowedIPs' = [allowedIPs EXCEPT ![q] = newList[q]]
        /\ main' = [main EXCEPT ![q] = "loop"]
        /\ newList' = [newList EXCEPT ![q] = {}]
    BY <1>9 DEF SetAllowedIPs, NewIPs
  <2>2. CASE q # p
    BY <1>b, <1>a, <2>1, <2>2 DEF masterVars
  <2>3. CASE q = p
    <3>1. InformedOf(p)
      BY <2>1, <2>3 DEF Informed, Alive, masterVars
    <3>2. main'[p] = "loop" /\ allowedIPs'[p] = newList[p]
      BY <1>a, <2>1, <2>3
    <3> QED BY <2>1, <2>3, <3>1, <3>2 DEF InformedOf, Settles, masterVars
  <2> QED BY <2>2, <2>3
<1>10. ASSUME NEW q \in Procs, ReceiveQuit(q) PROVE InformedOf(p)'
  <2>1. /\ UNCHANGED <<masterVars, newList, allowedIPs>> /\ Receive(q, Command("Quit"))
        /\ main' = [main EXCEPT ![q] = "closing"]
    BY <1>10 DEF ReceiveQuit
  <2>2. CASE q # p
    BY <1>b, <1>6, <1>a, <2>1, <2>2, MessageTypes DEF masterVars
  <2>3. CASE q = p
    <3>1. /\ inbox[p] # <<>> /\ Head(inbox[p]) = Command("Quit") /\ main[p] = "loop"
      BY <1>6, <2>1, <2>3, MessageTypes
    <3>2. InformedOf(p)
      BY <2>1, <3>1 DEF Informed, Alive, masterVars
    <3> QED BY <3>1, <3>2, <1>a, QuitTaken DEF InformedOf
  <2> QED BY <2>2, <2>3
<1>11. ASSUME NEW q \in Procs, NEW h \in Hosts,
              Connect(q, h) \/ Lock(q, h) \/ Authenticate(q, h) \/ Answer(q, h) \/ Leave(q, h)
       PROVE  InformedOf(p)'
  <2>1. UNCHANGED serverVars
    BY <1>11, ViewerStep
  <2> QED BY <1>b, <2>1 DEF serverVars, masterVars
<1>12. CASE UNCHANGED processVars
  BY <1>b, <1>12 DEF processVars, masterVars
<1> QED BY <1>1, <1>2, <1>3, <1>5, <1>7, <1>8, <1>9, <1>10, <1>11, <1>12
        DEF ProcessNext, Main

\* The inductive invariant behind the two theorems that follow.
LEMMA InformedCorrect ==
  ProcessSpec => [](ProcessTypeOK /\ LaunchedAndGone /\ Informed)
<1>1. ProcessInit => Informed
  BY DEF ProcessInit, Informed, Alive
<1> QED BY <1>1, InformedStep, ProcessTypeCorrect, PTL DEF ProcessSpec

\* Once the lists are handled a server that was told one has the one of the core
\* service: messages arrive in order, and nothing else writes the list.
THEOREM ServerIsInformed == ProcessSpec => []ServerKnowsTheList
<1>1. ProcessTypeOK /\ Informed => ServerKnowsTheList
  <2> SUFFICES ASSUME ProcessTypeOK, Informed, NEW p \in Procs, p = current, told,
                      Alive(p), ListsUnderWay(p) = {}
               PROVE  allowedIPs[p] = allowedHosts
    BY DEF ServerKnowsTheList
  <2>1. NoListIn(inbox[p]) /\ main[p] # "setAllowedIPs"
    BY DEF ListsUnderWay, NoListIn
  <2>2. Settles(p, allowedHosts)
    BY DEF Informed, InformedOf
  <2>3. ~LastIn(inbox[p], allowedHosts)
    BY <2>1, MessageTypes DEF LastIn, NoListIn, ProcessTypeOK
  <2> QED BY <2>1, <2>2, <2>3 DEF Settles
<1> QED BY <1>1, InformedCorrect, PTL

\* Nobody is admitted by an address that the core service does not allow, unless
\* the list that takes it back is under way.
THEOREM NobodyAllowedBefore == ProcessSpec => NoStaleAdmission
<1> DEFINE Fresh(p, h) == h \in allowedHosts \/ \E S \in ListsUnderWay(p) : h \notin S
           Admitted == \A p \in Procs, h \in Hosts :
                         p = current /\ HostBased(p, h) /\ pc'[p][h] = "watch" => Fresh(p, h)
<1>1. ProcessTypeOK /\ LaunchedAndGone /\ Informed => Admitted
  <2> SUFFICES ASSUME ProcessTypeOK, LaunchedAndGone, Informed,
                      NEW p \in Procs, NEW h \in Hosts,
                      p = current, HostBased(p, h), pc'[p][h] = "watch"
               PROVE  Fresh(p, h)
    OBVIOUS
  <2>1. h \in allowedIPs[p]
    <3>1. pc' = [pc EXCEPT ![p][h] = IF h \in allowedIPs[p] THEN "watch" ELSE "none"]
      BY DEF HostBased, Return, Goto
    <3>2. pc'[p][h] = IF h \in allowedIPs[p] THEN "watch" ELSE "none"
      BY <3>1 DEF ProcessTypeOK
    <3> QED BY <3>2
  <2>2. Alive(p) /\ InformedOf(p)
    BY <2>1 DEF LaunchedAndGone, Informed
  <2>3. Settles(p, allowedHosts)
    BY <2>1, <2>2 DEF InformedOf
  <2>4. ASSUME LastIn(inbox[p], allowedHosts) PROVE allowedHosts \in ListsUnderWay(p)
    <3>1. PICK i \in 1..Len(inbox[p]) : inbox[p][i] = List(allowedHosts)
      BY <2>4 DEF LastIn
    <3>2. IsList(inbox[p][i]) /\ inbox[p][i].hosts = allowedHosts
      BY <3>1 DEF IsList, List
    <3> QED BY <3>2 DEF ListsUnderWay
  <2>5. ASSUME main[p] = "setAllowedIPs", newList[p] = allowedHosts
        PROVE  allowedHosts \in ListsUnderWay(p)
    BY <2>5 DEF ListsUnderWay
  <2> QED BY <2>1, <2>3, <2>4, <2>5 DEF Settles
<1>2. Admitted => [\A p \in Procs, h \in Hosts :
        p = current /\ HostBased(p, h) /\ pc'[p][h] = "watch" =>
          h \in allowedHosts \/ \E S \in ListsUnderWay(p) : h \notin S]_processVars
  OBVIOUS
<1> QED BY <1>1, <1>2, InformedCorrect, PTL DEF NoStaleAdmission
=============================================================================
