--------------------------- MODULE AccessControl ----------------------------
(***************************************************************************)
(* How the core service decides who may see the desktop: authSecTypeItalc, *)
(* DesktopAccessPermission, ItalcSlaveManager::execAccessDialog() and the  *)
(* access dialog slave (ica/src).                                          *)
(*                                                                         *)
(* Every request is a connection served by a thread of the VNC server.     *)
(* With the iTALC security type the thread holds m_dataMutex for the whole *)
(* handshake, the dialog included.  The logon method of UltraVNC asks for  *)
(* permission too, but without the mutex; x11vnc never asks after a logon. *)
(* All threads share m_accessDialogChoice, which the main thread sets when *)
(* the dialog reports, and the one entry Ipc::Master has for the dialog:   *)
(* createSlave() and stopSlave() drop what its predecessor had to show or  *)
(* to say.  Messages obey SlaveMessaging (see IpcMaster).                  *)
(***************************************************************************)
EXTENDS Naturals, Sequences

CONSTANTS Requests,
          Methods,     \* the authentication methods requests may choose
          NoRequest,   \* m_dataMutex is free
          NoAnswer     \* m_accessDialogChoice = -1, or a question not answered

ItalcMethods == {"DSA", "HostBased", "CommonSecret"}

ASSUME MethodsAssumption == Methods \subseteq ItalcMethods \cup {"Logon"}
ASSUME NoRequestAssumption == NoRequest \notin Requests
ASSUME NoAnswerAssumption == NoAnswer \notin {"Yes", "No"}

VARIABLES
  config,    \* the three settings DesktopAccessPermission looks at
  dataMutex, \* ItalcCoreServer::m_dataMutex: the request that holds it
  pc,        \* request: where its thread is
  choice,    \* ItalcSlaveManager::m_accessDialogChoice
  loggedOn,  \* a user is logged on
  entry,     \* Ipc::Master has an entry for IdAccessDialog
  asks,      \* the requests its process still has to ask about, first on screen
  reports,   \* choices it reported and the main thread has not read
  alive,     \* its process runs
  exempt,    \* history, request: it needs no consent
  said       \* history, request: what the user answered about it

dialogVars == <<entry, asks, reports, alive>>
vars == <<config, dataMutex, pc, choice, loggedOn, dialogVars, exempt, said>>

Config == [keyAsks : BOOLEAN, logonAsks : BOOLEAN, sameUserFree : BOOLEAN]
Decided == {"granted", "denied"}
\* Inside execAccessDialog(): before the choice is reset, before createSlave(),
\* before sendMessage(), in the loop, after the loop, after 30 seconds.
Asking == {"reset", "create", "send", "wait", "return", "expired"}

TypeOK ==
  /\ config \in Config
  /\ dataMutex \in Requests \cup {NoRequest}
  /\ pc \in [Requests -> {"idle", "lock", "ask"} \cup Asking \cup Decided]
  /\ choice \in {NoAnswer, "Yes", "No"}
  /\ loggedOn \in BOOLEAN
  /\ entry \in BOOLEAN /\ alive \in BOOLEAN
  /\ asks \in Seq(Requests)
  /\ reports \in Seq({"Yes", "No"})
  /\ exempt \in [Requests -> BOOLEAN]
  /\ said \in [Requests -> {NoAnswer, "Yes", "No"}]

Init ==
  /\ config \in Config
  /\ dataMutex = NoRequest
  /\ pc = [r \in Requests |-> "idle"]
  /\ choice = NoAnswer
  /\ loggedOn \in BOOLEAN
  /\ entry = FALSE /\ alive = FALSE
  /\ asks = <<>> /\ reports = <<>>
  /\ exempt = [r \in Requests |-> FALSE]
  /\ said = [r \in Requests |-> NoAnswer]

Goto(r, l) == pc' = [pc EXCEPT ![r] = l]

----------------------------------------------------------------------------
(* The threads of the VNC server.                                           *)

\* Mutant of Lock: two handshakes may run at a time.
LockNothing(r) == UNCHANGED dataMutex

Lock(r) == dataMutex = NoRequest /\ dataMutex' = r

\* Mutant of Decide: an early return without unlocking.
DecideKeepsMutex(r, d) == Goto(r, d) /\ UNCHANGED dataMutex

\* Return from the handshake; QMutexLocker lets go of the mutex.
Decide(r, d) ==
  /\ Goto(r, d)
  /\ dataMutex' = IF dataMutex = r THEN NoRequest ELSE dataMutex

\* The exceptions of DesktopAccessPermission::ask(), and the methods that do
\* not call it.
NoConsentNeeded(method, local, sameUser) ==
  \/ method \in {"HostBased", "CommonSecret"}
  \/ local
  \/ method = "DSA" /\ ~config.keyAsks
  \/ method = "Logon" /\ ~config.logonAsks
  \/ method = "Logon" /\ config.sameUserFree /\ sameUser

\* The handshake begins: which method, from where and for whom.
BeginWith(r, method, local, sameUser) ==
  /\ pc[r] = "idle"
  /\ Goto(r, IF method \in ItalcMethods THEN "lock" ELSE "ask")
  /\ exempt' = [exempt EXCEPT ![r] = NoConsentNeeded(method, local, sameUser)]
  /\ UNCHANGED <<config, dataMutex, choice, loggedOn, dialogVars, said>>

Begin(r) ==
  \E method \in Methods, local \in BOOLEAN, sameUser \in BOOLEAN :
    BeginWith(r, method, local, sameUser)

\* QMutexLocker l( &m_dataMutex )
Acquire(r) ==
  /\ pc[r] = "lock"
  /\ Lock(r)
  /\ Goto(r, "ask")
  /\ UNCHANGED <<config, choice, loggedOn, dialogVars, exempt, said>>

\* The signature, the password, the secret or the address does not convince.
Refuse(r) ==
  /\ pc[r] = "ask"
  /\ Decide(r, "denied")
  /\ UNCHANGED <<config, choice, loggedOn, dialogVars, exempt, said>>

\* It does, and DesktopAccessPermission looks for exceptions.
Ask(r) ==
  /\ pc[r] = "ask"
  /\ IF exempt[r] THEN Decide(r, "granted")
                  ELSE Goto(r, "reset") /\ UNCHANGED dataMutex
  /\ UNCHANGED <<config, choice, loggedOn, dialogVars, exempt, said>>

\* Mutants of ResetChoice: the last answer is still there; 0 instead of -1.
ResetChoiceNot(r) == UNCHANGED choice
ResetChoiceToZero(r) == choice' = "0"

ResetChoice(r) == choice' = NoAnswer

ExecAccessDialog(r) ==
  /\ pc[r] = "reset"
  /\ ResetChoice(r)
  /\ Goto(r, "create")
  /\ UNCHANGED <<config, dataMutex, loggedOn, dialogVars, exempt, said>>

\* Blocking calls, executed by the main thread.  createSlave() does nothing
\* when no user is logged on.
CreateDialog(r) ==
  /\ pc[r] = "create"
  /\ IF loggedOn
     THEN entry' = TRUE /\ alive' = TRUE /\ asks' = <<>> /\ reports' = <<>>
     ELSE UNCHANGED dialogVars
  /\ Goto(r, "send")
  /\ UNCHANGED <<config, dataMutex, choice, loggedOn, exempt, said>>

SendAsk(r) ==
  /\ pc[r] = "send"
  /\ asks' = IF entry /\ alive THEN Append(asks, r) ELSE asks
  /\ Goto(r, "wait")
  /\ UNCHANGED <<config, dataMutex, choice, loggedOn, entry, reports, alive, exempt, said>>

\* The loop ends because an answer is there.
LeaveLoop(r) ==
  /\ pc[r] = "wait"
  /\ choice # NoAnswer
  /\ Goto(r, "return")
  /\ UNCHANGED <<config, dataMutex, choice, loggedOn, dialogVars, exempt, said>>

\* m_accessDialogChoice is read again; -1 has the bit of ChoiceNo.
ReturnChoice(r) ==
  /\ pc[r] = "return"
  /\ Decide(r, IF choice = "Yes" THEN "granted" ELSE "denied")
  /\ UNCHANGED <<config, choice, loggedOn, dialogVars, exempt, said>>

\* No answer was there at the last look, and 30 seconds are over.
Timeout(r) ==
  /\ pc[r] = "wait"
  /\ choice = NoAnswer
  /\ Goto(r, "expired")
  /\ UNCHANGED <<config, dataMutex, choice, loggedOn, dialogVars, exempt, said>>

StopDialog == entry' = FALSE /\ alive' = FALSE /\ asks' = <<>> /\ reports' = <<>>

GiveUp(r) ==
  /\ pc[r] = "expired"
  /\ StopDialog
  /\ Decide(r, "denied")
  /\ UNCHANGED <<config, choice, loggedOn, exempt, said>>

----------------------------------------------------------------------------
(* The main thread, the dialog and its user.                                *)

\* handleMessage(): ReportChoice from the registered dialog.
ReportChoice ==
  /\ reports # <<>>
  /\ choice' = Head(reports)
  /\ reports' = Tail(reports)
  /\ UNCHANGED <<config, dataMutex, pc, loggedOn, entry, asks, alive, exempt, said>>

\* The modal dialog returns; the next Ask, if any, is shown after it.
UserAnswers(a) ==
  /\ alive /\ asks # <<>>
  /\ asks' = Tail(asks)
  /\ reports' = Append(reports, a)
  /\ said' = [said EXCEPT ![Head(asks)] = a]
  /\ UNCHANGED <<config, dataMutex, pc, choice, loggedOn, entry, alive, exempt>>

\* The process fails to start, crashes or goes with its session.
DialogDies ==
  /\ alive
  /\ alive' = FALSE
  /\ asks' = <<>>
  /\ UNCHANGED <<config, dataMutex, pc, choice, loggedOn, entry, reports, exempt, said>>

LogOnOrOff ==
  /\ loggedOn' = ~loggedOn
  /\ UNCHANGED <<config, dataMutex, pc, choice, dialogVars, exempt, said>>

----------------------------------------------------------------------------
Thread(r) == \/ Acquire(r) \/ Refuse(r) \/ Ask(r) \/ ExecAccessDialog(r)
             \/ CreateDialog(r) \/ SendAsk(r) \/ LeaveLoop(r)
             \/ ReturnChoice(r) \/ Timeout(r) \/ GiveUp(r)

Next == \/ \E r \in Requests : Begin(r) \/ Thread(r)
        \/ ReportChoice \/ \E a \in {"Yes", "No"} : UserAnswers(a)
        \/ DialogDies \/ LogOnOrOff

Spec == Init /\ [][Next]_vars

(* Threads run, and the 30 seconds pass.  Nothing is assumed of the user, of *)
(* the dialog or of the main thread beyond executing blocking calls.  Weak   *)
(* fairness of Acquire is enough: a request locks once, so the mutex, once   *)
(* nobody overtakes any more, stays free for the one that waits for it.      *)
FairSpec == Spec /\ \A r \in Requests : WF_vars(Thread(r))

----------------------------------------------------------------------------
(* Properties.                                                              *)

\* Whoever is granted access was exempt, or the user agreed to that very
\* request: not to an earlier one, not to one asked meanwhile, not in an answer
\* that came after the 30 seconds (ItalcSlaveManager.cpp:225-252, 297-308).
GrantedByUser ==
  \A r \in Requests : pc[r] = "granted" => exempt[r] \/ said[r] = "Yes"

\* The question on screen is about a request that still waits for its answer:
\* execAccessDialog() takes the dialog away when it gives up, and no other
\* handshake gets in between (ItalcSlaveManager.cpp:244-248,
\* ItalcCoreServer.cpp:251).
QuestionIsOpen ==
  \A i \in 1..Len(asks) : pc[asks[i]] \in {"wait", "expired"}

\* An answer that is under way or was read is the answer to the request that
\* waits: nobody else can pick it up (ItalcSlaveManager.cpp:229, 303).
AnswerIsFresh ==
  \A r \in Requests : pc[r] \in {"wait", "return", "expired"} =>
    /\ choice # NoAnswer => choice = said[r]
    /\ \A i \in 1..Len(reports) : reports[i] = said[r]

\* The decision on a request, as its user sees it: see AccessDecision.
Decision == INSTANCE AccessDecision WITH
  decision <- [r \in Requests |-> IF pc[r] \in Decided THEN pc[r] ELSE "open"]

\* Every step is a step of AccessDecision or invisible to it (the whole of
\* ItalcCoreServer.cpp:249-339 and ItalcSlaveManager.cpp:225-308).
DecisionSpec == Decision!Spec

\* Every request that begins is decided, though the user never answers, no
\* user is logged on, or the dialog dies: the wait is limited, and the mutex
\* is handed on (ItalcSlaveManager.cpp:239-249, ItalcCoreServer.cpp:251).
EveryRequestDecided ==
  \A r \in Requests : pc[r] # "idle" ~> pc[r] \in Decided
=============================================================================
