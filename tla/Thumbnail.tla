------------------------------ MODULE Thumbnail -----------------------------
(***************************************************************************)
(* The picture a client's window shows of its computer: the connection's   *)
(* thread receives it into m_image, and the main thread scales it when the *)
(* window is painted and m_scaledScreenNeedsUpdate says that there is      *)
(* something new.  The connection is VncConnection; the window is visible  *)
(* and in overview mode (ItalcVncConnection.cpp, ima/src/Client.cpp).      *)
(*                                                                         *)
(* The VNC server sends what it was asked for: every change, since         *)
(* libvncclient asks for the next one after each update, and the whole     *)
(* screen again on request.                                                *)
(***************************************************************************)
EXTENDS VncConnection

CONSTANTS
  Screens, \* what a computer's screen shows
  Black,   \* a framebuffer that nothing was received into
  Nothing  \* no picture, or that of a computer that is not connected

ASSUME PicturesAssumption == Black \notin Screens /\ Nothing \notin Screens \cup {Black}

VARIABLES
  screen,      \* of each computer
  asked,       \* a full update was requested and has not come
  image,       \* m_image
  initialized, \* m_framebufferInitialized
  finishing,   \* the thread is between framebufferUpdateComplete() and the flag
  needs,       \* m_scaledScreenNeedsUpdate
  notified,    \* framebufferUpdateComplete() waits for the main thread
  updated,     \* m_framebufferUpdated
  repaint,     \* update() was called
  scaling,     \* what rescaleScreen() is at work for: "paint", "resize" or "no"
  scaled,      \* m_scaledScreen
  shown        \* what the window shows

receiveVars == <<asked, image, initialized, finishing, notified>>
paintVars == <<updated, repaint, scaling, scaled, shown>>
thumbVars == <<screen, receiveVars, paintVars, needs>>
allVars == <<vars, thumbVars>>

ThumbInit ==
  /\ Init
  /\ screen \in [Hosts -> Screens]
  /\ asked = FALSE /\ finishing = FALSE /\ notified = FALSE
  /\ image = Nothing /\ initialized = FALSE
  /\ needs = FALSE /\ updated = FALSE /\ repaint = TRUE /\ scaling = "no"
  /\ scaled = Nothing /\ shown = Nothing

----------------------------------------------------------------------------
(* The connection's thread.                                                 *)

\* run() and doConnection() begin; the last connection's picture is none any more.
BeginConnection ==
  /\ Run
  /\ initialized' = (initialized /\ interrupted)
  /\ UNCHANGED <<screen, asked, image, finishing, needs, notified, paintVars>>

\* The framebuffer is new, and the whole screen is requested.
Connect ==
  /\ InitOk
  /\ image' = Black /\ asked' = TRUE
  /\ UNCHANGED <<screen, initialized, finishing, needs, notified, paintVars>>

\* An update is received, up to framebufferUpdateComplete().
Receive ==
  /\ pc = "loop" /\ ~finishing /\ ~interrupted
  /\ session # NoHost
  /\ asked \/ image # screen[session]
  /\ image' = screen[session] /\ asked' = FALSE
  /\ initialized' = TRUE /\ notified' = TRUE
  /\ finishing' = TRUE
  /\ UNCHANGED <<vars, screen, needs, paintVars>>

\* The end of finishFrameBufferUpdate().
Finish ==
  /\ finishing /\ finishing' = FALSE
  /\ needs' = TRUE
  /\ UNCHANGED <<vars, screen, asked, image, initialized, notified, paintVars>>

\* Mutant of AskAgain: the server sends the changes anyway.
AskNever == UNCHANGED asked

\* A full update is requested, when the last one was ten intervals ago.
AskAgain == asked' \in {asked, TRUE}

\* The main loop goes on, or ends.
GoOn ==
  /\ ~finishing /\ Loop
  /\ IF pc' = "drain" THEN AskAgain ELSE UNCHANGED asked
  /\ UNCHANGED <<screen, image, initialized, finishing, needs, notified, paintVars>>

Elsewhere ==
  /\ \/ Attempt \/ Sleep \/ Dequeue \/ Drained \/ End \/ InitFails \/ Fire
     \/ ~finishing /\ Terminate
  /\ UNCHANGED thumbVars

----------------------------------------------------------------------------
(* The window, in the main thread: nothing else runs there while it scales. *)

MainThread == scaling = "no"

\* setUpdateFlag()
SetUpdateFlag ==
  /\ MainThread /\ notified
  /\ notified' = FALSE /\ updated' = TRUE
  /\ UNCHANGED <<vars, screen, asked, image, initialized, finishing, needs,
                 repaint, scaling, scaled, shown>>

\* stop() drops the scaled picture of a thread that runs.
Drop == scaled' = IF Running THEN Nothing ELSE scaled

\* reload() of a visible client.
Reload ==
  /\ MainThread
  /\ \/ /\ state = "Connected" /\ updated
        /\ UNCHANGED <<vars, scaled>>
     \/ /\ state = "Connecting"
        /\ UNCHANGED <<vars, scaled>>
     \/ /\ state \notin {"Connected", "Connecting"}
        /\ Reset(host) /\ UNCHANGED <<calls, scaled>>
  /\ updated' = (updated /\ state # "Connected")
  /\ repaint' = TRUE
  /\ UNCHANGED <<screen, receiveVars, needs, scaling, shown>>

\* Other calls of the connection: the window was hidden, its host was changed.
Owner ==
  /\ MainThread
  /\ calls < MaxCalls /\ calls' = calls + 1
  /\ \/ Start /\ UNCHANGED scaled
     \/ Stop /\ Drop
     \/ \E h \in Hosts : Reset(h) /\ IF state = "Connected" THEN Drop ELSE UNCHANGED scaled
  /\ UNCHANGED <<screen, receiveVars, needs, updated, repaint, scaling, shown>>

QueueEvent ==
  /\ MainThread
  /\ \E c \in Commands : EnqueueEvents(<<c>>)
  /\ UNCHANGED <<threadVars, host, interrupted, up, fired, calls, thumbVars>>

\* rescaleScreen() begins, for paintEvent() or resizeEvent(), if it has to.
Scalable == image # Nothing /\ initialized

RescaleFor(event) == scaling' = event /\ scaled' = image

\* paintEvent() of a window that is uncovered, resized or updated.
Paint ==
  /\ MainThread /\ repaint /\ repaint' = FALSE
  /\ LET picture == state = "Connected" /\ Running /\ initialized
         rescale == picture /\ Scalable /\ needs IN
       /\ IF rescale THEN RescaleFor("paint") ELSE UNCHANGED <<scaling, scaled>>
       /\ shown' = IF rescale THEN shown ELSE IF picture THEN scaled ELSE Nothing
  /\ UNCHANGED <<vars, screen, receiveVars, needs, updated>>

\* resizeEvent(), to which a repaint belongs.
Resize ==
  /\ MainThread
  /\ repaint' = TRUE /\ needs' = TRUE
  /\ IF Scalable THEN RescaleFor("resize") ELSE UNCHANGED <<scaling, scaled>>
  /\ UNCHANGED <<vars, screen, receiveVars, updated, shown>>

\* The end of rescaleScreen(): the flag is cleared after the image was scaled.
EndScaling ==
  /\ ~MainThread /\ scaling' = "no"
  /\ needs' = FALSE
  /\ shown' = IF scaling = "paint" THEN scaled ELSE shown
  /\ UNCHANGED <<vars, screen, receiveVars, updated, repaint, scaled>>

----------------------------------------------------------------------------
(* The computers and time.                                                  *)

Outside ==
  \/ \E h \in Hosts : (HostDown(h) \/ HostUp(h)) /\ UNCHANGED thumbVars
  \/ Tick /\ UNCHANGED thumbVars
  \/ /\ \E h \in Hosts, s \in Screens : screen' = [screen EXCEPT ![h] = s]
     /\ UNCHANGED <<vars, receiveVars, paintVars, needs>>

ThumbThread == BeginConnection \/ Connect \/ Receive \/ Finish \/ GoOn \/ Elsewhere
ThumbWindow == SetUpdateFlag \/ Reload \/ Owner \/ QueueEvent \/ Paint \/ Resize \/ EndScaling

ThumbNext == ThumbThread \/ ThumbWindow \/ Outside

ThumbSpec == ThumbInit /\ [][ThumbNext]_allVars

(* The thread runs; the event loop takes every event in turn.                *)
ThumbFair ==
  /\ WF_allVars(BeginConnection \/ GoOn \/ (Elsewhere /\ Thread)) /\ WF_allVars(Finish)
  /\ SF_allVars(SetUpdateFlag) /\ SF_allVars(Reload) /\ SF_allVars(Paint)
  /\ WF_allVars(EndScaling)

ThumbFairSpec == ThumbSpec /\ ThumbFair

----------------------------------------------------------------------------
(* Properties.                                                              *)

\* What is sent arrives, the thread asks for a full update again and again, and
\* it does not lose every race: at times it sets the flag before the main thread
\* has taken its signal, while nothing is scaled.
UpdatesArrive ==
  /\ SF_allVars(Receive) /\ WF_allVars(Elsewhere /\ Fire)
  /\ SF_allVars(GoOn /\ asked')
  /\ SF_allVars(Finish /\ notified /\ MainThread)

\* A window shows the screen of the computer it stays connected to, once that
\* does not change: an update whose flag is cleared by the scaling that it
\* overtook, or set after the window was painted, is made up for, since the thread
\* will "regularly request full updates" (ItalcVncConnection.cpp:662-671, 500-502,
\* 721-723).
ThumbnailFresh ==
  /\ UpdatesArrive
  /\ <>[](session # NoHost /\ state = "Connected" /\ ~interrupted)
  /\ <>[][UNCHANGED screen]_allVars
  => <>[](session # NoHost /\ shown = screen[session])
=============================================================================
