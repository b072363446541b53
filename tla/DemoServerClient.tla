-------------------------- MODULE DemoServerClient --------------------------
(***************************************************************************)
(* A client of the demo server (ica/src/DemoServer.cpp): how the changes   *)
(* of the teacher's screen reach a viewer.                                 *)
(*                                                                         *)
(* Four actors: the VNC connection paints tiles of the image and emits     *)
(* imageUpdated(); the main thread owns the DemoServerClient object and    *)
(* runs its queued slots; the client thread owns the socket and answers    *)
(* requests; the viewer asks again after every update.  m_dataMutex is     *)
(* held by a thread throughout sendUpdates().                              *)
(*                                                                         *)
(* A single shot timer belongs to the thread that started it, but its slot *)
(* runs in the thread of the receiver, which is the main thread.           *)
(***************************************************************************)
EXTENDS Naturals, Sequences

CONSTANTS Tiles,      \* parts of the screen
          MaxPaints   \* bound: paints of a tile

ASSUME MaxPaintsAssumption == MaxPaints \in Nat

VARIABLES
  image,     \* tile: number of its last paint
  wraps,     \* m_image wraps the framebuffer libvncclient paints into
  painted,   \* tiles painted and not yet announced by imageUpdated()
  mainQueue, \* events posted to the main thread: a tile, "send" or "delete"
  timers,    \* thread: its single shots, [retry: of 50 ms, extra: of 1000 ms]
  changed,   \* m_changedRects
  pending,   \* m_updatesPending
  sending,   \* the threads inside sendUpdates(), which lock m_dataMutex
  snapshot,  \* thread: the tiles it writes, as it read them from the image
  thread,    \* where run() is
  request,   \* an update request of the viewer is under way
  updates,   \* updates under way to it: sets of painted tiles
  viewer,    \* tile: the paint the viewer shows
  misused    \* history: sendUpdates() used the socket after run() destroyed it

sendVars == <<timers, pending, sending, snapshot, updates, misused>>
imgVars == <<image, wraps>>
vars == <<imgVars, painted, mainQueue, changed, thread, request, viewer, sendVars>>

Threads == {"main", "client"}
Paints == 0..MaxPaints
Rect(t) == [slot |-> "updateRect", tile |-> t]
Slot(s) == [slot |-> s]
PaintedTile == [tile : Tiles, paint : Paints]

TypeOK ==
  /\ image \in [Tiles -> Paints] /\ wraps \in BOOLEAN
  /\ viewer \in [Tiles -> Paints]
  /\ painted \subseteq Tiles /\ changed \subseteq Tiles
  /\ mainQueue \in Seq({Rect(t) : t \in Tiles} \cup {Slot("sendUpdates"), Slot("delete")})
  /\ timers \in [Threads -> [retry : Nat, extra : Nat]]
  /\ pending \in BOOLEAN /\ request \in BOOLEAN /\ misused \in BOOLEAN
  /\ sending \subseteq Threads
  /\ snapshot \in [Threads -> SUBSET PaintedTile]
  /\ thread \in {"handshake", "connected", "loop", "ended", "deleted"}
  /\ updates \in Seq(SUBSET PaintedTile)

\* A viewer comes when the tiles have been painted so often.
InitWith(paints) ==
  /\ image = paints /\ wraps = TRUE
  /\ viewer = [t \in Tiles |-> 0]
  /\ painted = {} /\ changed = {}
  /\ mainQueue = <<>>
  /\ timers = [th \in Threads |-> [retry |-> 0, extra |-> 0]]
  /\ pending = FALSE /\ request = FALSE /\ misused = FALSE
  /\ sending = {} /\ snapshot = [th \in Threads |-> {}]
  /\ thread = "handshake"
  /\ updates = <<>>

Init == InitWith([t \in Tiles |-> 0])

----------------------------------------------------------------------------
(* sendUpdates()                                                            *)

\* Mutant of Retry: wait for the next request.
RetryNever(th, tm) == tm

\* QTimer::singleShot( 50, this, SLOT( sendUpdates() ) )
Retry(th, tm) == [tm EXCEPT ![th].retry = @ + 1]

\* Mutant of Unlocked: m_dataMutex is not taken.
UnlockedAlways == TRUE

Unlocked == sending = {}

\* sendUpdates() called by thread th with m_updatesPending = p and timers tm:
\* either nothing changed, or all changed rects are read as they look now.
BeginSend(th, p, tm) ==
  /\ Unlocked /\ th \notin sending
  /\ pending' = p
  /\ UNCHANGED updates
  /\ \/ /\ changed = {}
        /\ timers' = IF p THEN Retry(th, tm) ELSE tm
        /\ UNCHANGED <<sending, snapshot, misused>>
     \/ /\ changed # {}
        /\ timers' = tm
        /\ sending' = sending \cup {th}
        /\ snapshot' = [snapshot EXCEPT ![th] = {[tile |-> t, paint |-> image[t]] : t \in changed}]
        /\ misused' = (misused \/ thread = "ended")

\* They are written; a timer makes sure that an update is sent once more.
EndSend(th) ==
  /\ th \in sending
  /\ updates' = IF thread = "ended" THEN updates ELSE Append(updates, snapshot[th])
  /\ changed' = {}
  /\ timers' = IF pending THEN [timers EXCEPT ![th].extra = @ + 1] ELSE timers
  /\ pending' = FALSE
  /\ sending' = sending \ {th}
  /\ snapshot' = [snapshot EXCEPT ![th] = {}]
  /\ UNCHANGED <<imgVars, painted, mainQueue, thread, request, viewer, misused>>

----------------------------------------------------------------------------
(* The thread of the VNC connection.                                        *)

\* Once m_image no longer wraps the framebuffer, the memory libvncclient paints
\* into is freed with the last copy of the old image: what it paints is not modelled.
Paint(t) ==
  /\ wraps
  /\ image[t] < MaxPaints
  /\ image' = [image EXCEPT ![t] = @ + 1]
  /\ painted' = painted \cup {t}
  /\ UNCHANGED <<wraps, mainQueue, changed, thread, request, viewer, sendVars>>

\* "simple color-reduction": m_image.scanLine() detaches m_image from the memory
\* it wraps when sendUpdates() holds the copy of it that image() returned for a rect.
Detach == wraps' \in {wraps, wraps /\ sending = {}}

\* hookUpdateFB(); imageUpdated() is a queued connection once run() has made it.
Announce(t) ==
  /\ t \in painted
  /\ Detach
  /\ painted' = painted \ {t}
  /\ mainQueue' = IF thread \in {"connected", "loop", "ended"}
                  THEN Append(mainQueue, Rect(t)) ELSE mainQueue
  /\ UNCHANGED <<image, changed, thread, request, viewer, sendVars>>

----------------------------------------------------------------------------
(* The client thread.                                                       *)

\* Protocol version, authentication, ServerInit; then the signals of the VNC
\* connection are connected.
Handshake ==
  /\ thread = "handshake"
  /\ thread' = "connected"
  /\ UNCHANGED <<imgVars, painted, mainQueue, changed, request, viewer, sendVars>>

\* Mutant of KeyFrame: only what changes from now on is sent.
NoKeyFrame == UNCHANGED changed

\* first time send a key-frame
KeyFrame == changed' = Tiles

EnterLoop ==
  /\ thread = "connected"
  /\ Unlocked
  /\ KeyFrame
  /\ thread' = "loop"
  /\ request' = TRUE                  \* the viewer has got ServerInit
  /\ UNCHANGED <<imgVars, painted, mainQueue, viewer, sendVars>>

\* readyRead(): an update request is read, and answered if there is something.
ProcessClient ==
  /\ thread = "loop"
  /\ request
  /\ request' = FALSE
  /\ BeginSend("client", TRUE, timers)
  /\ UNCHANGED <<imgVars, painted, mainQueue, changed, thread, viewer>>

Expired(th, kind) == [timers EXCEPT ![th][kind] = @ - 1]

\* timeout() is emitted in this thread; the slot is queued to the main thread.
ClientTimer(kind) ==
  /\ thread = "loop"
  /\ timers["client"][kind] > 0
  /\ "client" \notin sending
  /\ timers' = Expired("client", kind)
  /\ mainQueue' = Append(mainQueue, Slot("sendUpdates"))
  /\ UNCHANGED <<imgVars, painted, changed, thread, request, viewer,
                 pending, sending, snapshot, updates, misused>>

\* The handshake fails, or the connection ends: run() returns, which destroys
\* the socket and the timers of the thread, and calls deleteLater().
EndThread ==
  /\ thread \in {"handshake", "loop"}
  /\ "client" \notin sending
  /\ thread' = "ended"
  /\ misused' = (misused \/ "main" \in sending)
  /\ timers' = [timers EXCEPT !["client"] = [retry |-> 0, extra |-> 0]]
  /\ mainQueue' = Append(mainQueue, Slot("delete"))
  /\ UNCHANGED <<imgVars, painted, changed, request, viewer, pending, sending, snapshot, updates>>

----------------------------------------------------------------------------
(* The main thread.                                                         *)

UpdateRect(t) ==
  /\ "main" \notin sending /\ Unlocked
  /\ mainQueue # <<>> /\ Head(mainQueue) = Rect(t)
  /\ mainQueue' = Tail(mainQueue)
  /\ changed' = changed \cup {t}
  /\ UNCHANGED <<imgVars, painted, thread, request, viewer, sendVars>>

SendQueued ==
  /\ mainQueue # <<>> /\ Head(mainQueue) = Slot("sendUpdates")
  /\ mainQueue' = Tail(mainQueue)
  /\ BeginSend("main", pending, timers)
  /\ UNCHANGED <<imgVars, painted, changed, thread, request, viewer>>

\* A timer started by sendUpdates() in the main thread calls it directly.
MainTimer(kind) ==
  /\ timers["main"][kind] > 0
  /\ BeginSend("main", pending, Expired("main", kind))
  /\ UNCHANGED <<imgVars, painted, mainQueue, changed, thread, request, viewer>>

\* The object is deleted with everything posted to it or connected to it.
DeleteClient ==
  /\ "main" \notin sending
  /\ mainQueue # <<>> /\ Head(mainQueue) = Slot("delete")
  /\ mainQueue' = <<>>
  /\ thread' = "deleted"
  /\ timers' = [th \in Threads |-> [retry |-> 0, extra |-> 0]]
  /\ UNCHANGED <<imgVars, painted, changed, request, viewer, pending, sending, snapshot, updates, misused>>

----------------------------------------------------------------------------
\* The viewer shows an update and asks for the next one.
ViewerReceives ==
  /\ updates # <<>>
  /\ viewer' = [t \in Tiles |->
       IF \E u \in Head(updates) : u.tile = t
       THEN (CHOOSE u \in Head(updates) : u.tile = t).paint ELSE viewer[t]]
  /\ updates' = Tail(updates)
  /\ request' = TRUE
  /\ UNCHANGED <<imgVars, painted, mainQueue, changed, thread, timers, pending, sending,
                 snapshot, misused>>

----------------------------------------------------------------------------
Next ==
  \/ \E t \in Tiles : Paint(t) \/ Announce(t) \/ UpdateRect(t)
  \/ \E th \in Threads : EndSend(th)
  \/ \E kind \in {"retry", "extra"} : ClientTimer(kind) \/ MainTimer(kind)
  \/ Handshake \/ EnterLoop \/ ProcessClient \/ EndThread
  \/ SendQueued \/ DeleteClient \/ ViewerReceives

Spec == Init /\ [][Next]_vars

(* Both event loops run, timers fire, the network delivers.  Nothing obliges *)
(* the screen to change or the connection to end.                            *)
Fairness ==
  /\ \A t \in Tiles : WF_vars(Announce(t)) /\ WF_vars(UpdateRect(t))
  /\ \A th \in Threads : WF_vars(EndSend(th))
  /\ \A kind \in {"retry", "extra"} : WF_vars(ClientTimer(kind)) /\ SF_vars(MainTimer(kind))
  /\ WF_vars(EnterLoop) /\ WF_vars(ProcessClient) /\ WF_vars(SendQueued)
  /\ WF_vars(ViewerReceives)

FairSpec == Spec /\ Fairness

----------------------------------------------------------------------------
(* Properties.                                                              *)

InQueue(e) == \E i \in 1..Len(mainQueue) : mainQueue[i] = e

\* While the viewer shows an older paint of a tile than the screen has, the
\* newer one is on its way: the rect is recorded or about to be, or an update
\* carries it.  Nothing is lost between writing the rects and clearing them, as
\* long as m_image wraps the framebuffer (DemoServer.cpp:245-250, 309-345, 498-510).
NothingForgotten ==
  thread = "loop" /\ wraps => \A t \in Tiles : viewer[t] # image[t] =>
    \/ t \in painted \cup changed
    \/ InQueue(Rect(t))
    \/ \E i \in 1..Len(updates) : [tile |-> t, paint |-> image[t]] \in updates[i]

\* The viewer never shows an older paint after a newer one, whichever thread
\* read the image first and wrote it first (DemoServer.cpp:309-311).
ViewerNeverGoesBack == [][\A t \in Tiles : viewer'[t] >= viewer[t]]_vars

\* Every paint is shown, or superseded, unless the connection ends or m_image no
\* longer wraps the framebuffer (DemoServer.cpp:313-320, 499-507).
ShownInTheEnd ==
  \A t \in Tiles, n \in Paints \ {0} :
    thread = "loop" /\ image[t] = n ~> viewer[t] >= n \/ thread # "loop" \/ ~wraps

\* "framebuffer image which just wraps the allocated memory"
\* (ItalcVncConnection.cpp:125-126): the demo server reads what is on the screen.
ImageWrapsFramebuffer == wraps

\* "connection has to be done in DemoServerClient-thread-context as we're
\* writing to socket" (DemoServer.h:105-107): sendUpdates() writes to it while
\* its thread keeps it alive.
SocketOutlivesSending == ~misused
=============================================================================
