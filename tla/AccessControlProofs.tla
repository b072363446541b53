------------------------- MODULE AccessControlProofs -------------------------
(* Theorems about AccessControl and AuthHandshake, for every set of requests *)
(* and of clients.                                                            *)
EXTENDS AuthHandshake, TLAPS

\* Only the methods of the iTALC security type lead to a question: x11vnc, or
\* UltraVNC with the logon method switched off.
ItalcOnly == Methods \subseteq ItalcMethods

Waiting == {"wait", "expired"}
BeforeQuestion == {"idle", "lock", "ask", "reset", "create", "send"}

\* The mutex is held exactly by the thread inside the handshake.
MutexHeld ==
  \A r \in Requests : pc[r] \in {"ask"} \cup Asking <=> dataMutex = r

\* Nobody answers before the question, and the choice was reset before it.
NothingSaidYet ==
  \A r \in Requests :
    /\ pc[r] \in BeforeQuestion => said[r] = NoAnswer
    /\ pc[r] \in {"create", "send"} => choice = NoAnswer
    /\ pc[r] = "idle" => exempt[r] = FALSE

\* At most one question is on screen, that of the holder of the mutex.
OneQuestion ==
  asks = <<>> \/ /\ dataMutex \in Requests
                 /\ asks = <<dataMutex>>
                 /\ pc[dataMutex] \in Waiting
                 /\ said[dataMutex] = NoAnswer
                 /\ choice = NoAnswer
                 /\ reports = <<>>

\* At most one answer is under way, that to the holder of the mutex.
OneReport ==
  reports = <<>> \/ /\ dataMutex \in Requests
                    /\ reports = <<said[dataMutex]>>
                    /\ said[dataMutex] \in {"Yes", "No"}
                    /\ pc[dataMutex] \in Waiting
                    /\ choice = NoAnswer
                    /\ asks = <<>>

\* The choice, once there, is what the user said to the request that waits.
ChoiceIsAnswer ==
  \A r \in Requests :
    pc[r] \in Waiting \cup {"return"} /\ choice # NoAnswer => choice = said[r]

Handshake ==
  /\ MutexHeld /\ NothingSaidYet /\ OneQuestion /\ OneReport
  /\ ChoiceIsAnswer /\ GrantedByUser

-----------------------------------------------------------------------------
(* The type invariant (ItalcCoreServer.cpp:249-339, ItalcSlaveManager.cpp).   *)
THEOREM TypeCorrect == Spec => []TypeOK
<1>e. <<>> \in Seq(Requests) /\ <<>> \in Seq({"Yes", "No"})
  OBVIOUS
<1> USE <1>e, NoRequestAssumption, NoAnswerAssumption DEF Asking, Decided
<1>1. Init => TypeOK
  BY DEF Init, TypeOK
<1>2. TypeOK /\ [Next]_vars => TypeOK'
  <2> SUFFICES ASSUME TypeOK, [Next]_vars PROVE TypeOK'
    OBVIOUS
  <2> USE DEF TypeOK, Goto, dialogVars
  <2>1. ASSUME NEW r \in Requests, Begin(r) PROVE TypeOK'
    BY <2>1 DEF Begin, BeginWith, NoConsentNeeded, Config
  <2>2. ASSUME NEW r \in Requests, Acquire(r) PROVE TypeOK'
    BY <2>2 DEF Acquire, Lock
  <2>3. ASSUME NEW r \in Requests, Refuse(r) PROVE TypeOK'
    BY <2>3 DEF Refuse, Decide
  <2>4. ASSUME NEW r \in Requests, Ask(r) PROVE TypeOK'
    BY <2>4 DEF Ask, Decide
  <2>5. ASSUME NEW r \in Requests, ExecAccessDialog(r) PROVE TypeOK'
    BY <2>5 DEF ExecAccessDialog, ResetChoice
  <2>6. ASSUME NEW r \in Requests, CreateDialog(r) PROVE TypeOK'
    BY <2>6 DEF CreateDialog
  <2>7. ASSUME NEW r \in Requests, SendAsk(r) PROVE TypeOK'
    BY <2>7 DEF SendAsk
  <2>8. ASSUME NEW r \in Requests, LeaveLoop(r) PROVE TypeOK'
    BY <2>8 DEF LeaveLoop
  <2>9. ASSUME NEW r \in Requests, ReturnChoice(r) PROVE TypeOK'
    BY <2>9 DEF ReturnChoice, Decide
  <2>10. ASSUME NEW r \in Requests, Timeout(r) PROVE TypeOK'
    BY <2>10 DEF Timeout
  <2>11. ASSUME NEW r \in Requests, GiveUp(r) PROVE TypeOK'
    BY <2>11 DEF GiveUp, StopDialog, Decide
  <2>12. CASE ReportChoice
    <3>1. Head(reports) \in {"Yes", "No"} /\ Tail(reports) \in Seq({"Yes", "No"})
      BY <2>12 DEF ReportChoice
    <3> QED BY <2>12, <3>1 DEF ReportChoice
  <2>13. ASSUME NEW a \in {"Yes", "No"}, UserAnswers(a) PROVE TypeOK'
    <3>1. Head(asks) \in Requests /\ Tail(asks) \in Seq(Requests)
      BY <2>13 DEF UserAnswers
    <3>2. Append(reports, a) \in Seq({"Yes", "No"})
      OBVIOUS
    <3> QED BY <2>13, <3>1, <3>2 DEF UserAnswers
  <2>14. CASE DialogDies
    BY <2>14 DEF DialogDies
  <2>15. CASE LogOnOrOff
    BY <2>15 DEF LogOnOrOff
  <2>16. CASE UNCHANGED vars
    BY <2>16 DEF vars
  <2> QED
    BY <2>1, <2>2, <2>3, <2>4, <2>5, <2>6, <2>7, <2>8, <2>9, <2>10, <2>11,
       <2>12, <2>13, <2>14, <2>15, <2>16 DEF Next, Thread
<1> QED BY <1>1, <1>2, PTL DEF Spec

(* What Head, Tail and Append do to the sequences of one or no element that  *)
(* a dialog works with.                                                       *)
LEMMA ShortSequences ==
  ASSUME NEW S, NEW e \in S
  PROVE  /\ Head(<<e>>) = e /\ Tail(<<e>>) = <<>> /\ Append(<<>>, e) = <<e>>
         /\ <<e>> # <<>> /\ Len(<<e>>) = 1 /\ Len(<<>>) = 0
OBVIOUS

(* The inductive invariant: with the methods of iTALC alone, the mutex keeps  *)
(* one question and one answer in the system (ItalcCoreServer.cpp:251,         *)
(* ItalcSlaveManager.cpp:225-252).                                             *)
THEOREM HandshakeInvariant == ItalcOnly => (Spec => []Handshake)
<1> SUFFICES ASSUME ItalcOnly PROVE Spec => []Handshake
  OBVIOUS
<1> USE NoRequestAssumption, NoAnswerAssumption
    DEF Asking, Decided, Waiting, BeforeQuestion
<1>1. Init => Handshake
  BY DEF Init, Handshake, MutexHeld, NothingSaidYet, OneQuestion, OneReport,
         ChoiceIsAnswer, GrantedByUser
<1>2. TypeOK /\ Handshake /\ [Next]_vars => Handshake'
  <2> SUFFICES ASSUME TypeOK, Handshake, [Next]_vars PROVE Handshake'
    OBVIOUS
  <2> USE DEF TypeOK, Goto, dialogVars, Handshake, MutexHeld, NothingSaidYet,
              OneQuestion, OneReport, ChoiceIsAnswer, GrantedByUser
  <2>1. ASSUME NEW r \in Requests, Begin(r) PROVE Handshake'
    <3>1. pc' = [pc EXCEPT ![r] = "lock"]
      BY <2>1 DEF Begin, BeginWith, ItalcOnly
    <3> QED BY <2>1, <3>1 DEF Begin, BeginWith
  <2>2. ASSUME NEW r \in Requests, Acquire(r) PROVE Handshake'
    BY <2>2 DEF Acquire, Lock
  <2>3. ASSUME NEW r \in Requests, Refuse(r) PROVE Handshake'
    BY <2>3 DEF Refuse, Decide
  <2>4. ASSUME NEW r \in Requests, Ask(r) PROVE Handshake'
    BY <2>4 DEF Ask, Decide
  <2>5. ASSUME NEW r \in Requests, ExecAccessDialog(r) PROVE Handshake'
    BY <2>5 DEF ExecAccessDialog, ResetChoice
  <2>6. ASSUME NEW r \in Requests, CreateDialog(r) PROVE Handshake'
    BY <2>6 DEF CreateDialog
  <2>7. ASSUME NEW r \in Requests, SendAsk(r) PROVE Handshake'
    BY <2>7, ShortSequences DEF SendAsk
  <2>8. ASSUME NEW r \in Requests, LeaveLoop(r) PROVE Handshake'
    BY <2>8 DEF LeaveLoop
  <2>9. ASSUME NEW r \in Requests, ReturnChoice(r) PROVE Handshake'
    BY <2>9 DEF ReturnChoice, Decide
  <2>10. ASSUME NEW r \in Requests, Timeout(r) PROVE Handshake'
    BY <2>10 DEF Timeout
  <2>11. ASSUME NEW r \in Requests, GiveUp(r) PROVE Handshake'
    BY <2>11 DEF GiveUp, StopDialog, Decide
  <2>12. CASE ReportChoice
    BY <2>12, ShortSequences DEF ReportChoice
  <2>13. ASSUME NEW a \in {"Yes", "No"}, UserAnswers(a) PROVE Handshake'
    <3>1. /\ dataMutex \in Requests /\ asks = <<dataMutex>> /\ reports = <<>>
          /\ pc[dataMutex] \in Waiting /\ said[dataMutex] = NoAnswer /\ choice = NoAnswer
      BY <2>13 DEF UserAnswers
    <3>2. asks' = <<>> /\ reports' = <<a>> /\ said' = [said EXCEPT ![dataMutex] = a]
      BY <2>13, <3>1, ShortSequences DEF UserAnswers
    <3>3. UNCHANGED <<config, dataMutex, pc, choice, exempt>>
      BY <2>13 DEF UserAnswers
    <3>4. MutexHeld' /\ OneQuestion' /\ OneReport' /\ ChoiceIsAnswer'
      BY <3>1, <3>2, <3>3
    <3>5. NothingSaidYet'
      BY <3>1, <3>2, <3>3
    <3>6. GrantedByUser'
      BY <3>1, <3>2, <3>3
    <3> QED BY <3>4, <3>5, <3>6
  <2>14. CASE DialogDies
    BY <2>14 DEF DialogDies
  <2>15. CASE LogOnOrOff
    BY <2>15 DEF LogOnOrOff
  <2>16. CASE UNCHANGED vars
    BY <2>16 DEF vars
  <2> QED
    BY <2>1, <2>2, <2>3, <2>4, <2>5, <2>6, <2>7, <2>8, <2>9, <2>10, <2>11,
       <2>12, <2>13, <2>14, <2>15, <2>16 DEF Next, Thread
<1> QED BY <1>1, <1>2, TypeCorrect, PTL DEF Spec

(* Nobody is granted access by an answer to another request                   *)
(* (ItalcSlaveManager.cpp:225-252, 297-308).                                   *)
THEOREM GrantsAreAnswered == ItalcOnly => (Spec => []GrantedByUser)
<1>1. Handshake => GrantedByUser
  BY DEF Handshake
<1> QED BY <1>1, HandshakeInvariant, PTL

(* The question on screen is about a request that still waits                 *)
(* (ItalcSlaveManager.cpp:244-248).                                            *)
THEOREM QuestionsAreOpen == ItalcOnly => (Spec => []QuestionIsOpen)
<1>1. TypeOK /\ Handshake => QuestionIsOpen
  <2> SUFFICES ASSUME TypeOK, Handshake, NEW i \in 1..Len(asks)
               PROVE  pc[asks[i]] \in Waiting
    BY DEF QuestionIsOpen, Waiting
  <2>1. asks # <<>>
    OBVIOUS
  <2>2. asks = <<dataMutex>> /\ pc[dataMutex] \in Waiting
    BY <2>1 DEF Handshake, OneQuestion
  <2> QED BY <2>2
<1> QED BY <1>1, TypeCorrect, HandshakeInvariant, PTL

(* An answer under way or read is that to the request that waits              *)
(* (ItalcSlaveManager.cpp:229, 303).                                           *)
THEOREM AnswersAreFresh == ItalcOnly => (Spec => []AnswerIsFresh)
<1> USE NoRequestAssumption DEF Waiting, Asking
<1>1. TypeOK /\ Handshake => AnswerIsFresh
  <2> SUFFICES ASSUME TypeOK, Handshake, NEW r \in Requests,
                      pc[r] \in Waiting \cup {"return"}
               PROVE  /\ choice # NoAnswer => choice = said[r]
                      /\ \A i \in 1..Len(reports) : reports[i] = said[r]
    BY DEF AnswerIsFresh
  <2>1. choice # NoAnswer => choice = said[r]
    BY DEF Handshake, ChoiceIsAnswer
  <2>2. dataMutex = r
    BY DEF Handshake, MutexHeld
  <2>3. ASSUME NEW i \in 1..Len(reports) PROVE reports[i] = said[r]
    <3>1. reports # <<>>
      OBVIOUS
    <3>2. reports = <<said[r]>>
      BY <2>2, <3>1 DEF Handshake, OneReport
    <3> QED BY <3>2
  <2> QED BY <2>1, <2>3
<1> QED BY <1>1, TypeCorrect, HandshakeInvariant, PTL

(* The handshake implements AccessDecision: every step of a thread, of the    *)
(* dialog or of its user is a step of the promise, or changes nothing in it   *)
(* (ItalcCoreServer.cpp:249-339, ItalcSlaveManager.cpp:225-308).               *)
THEOREM DecisionRefined == ItalcOnly => (Spec => DecisionSpec)
<1> SUFFICES ASSUME ItalcOnly PROVE Spec => DecisionSpec
  OBVIOUS
<1> DEFINE decision == [r \in Requests |-> IF pc[r] \in Decided THEN pc[r] ELSE "open"]
<1> USE NoRequestAssumption, NoAnswerAssumption
    DEF Asking, Decided, Waiting, BeforeQuestion
<1>1. Init => Decision!Init
  BY DEF Init, Decision!Init
<1>2. TypeOK /\ Handshake /\ [Next]_vars => [Decision!Next]_Decision!vars
  <2> SUFFICES ASSUME TypeOK, Handshake, [Next]_vars
               PROVE  Decision!Next \/ UNCHANGED Decision!vars
    BY DEF Decision!Next, Decision!vars
  <2> USE DEF TypeOK, Goto
  <2>s. ASSUME UNCHANGED <<exempt, said>>,
               \A q \in Requests : pc'[q] \in Decided \/ pc[q] \in Decided => pc'[q] = pc[q]
        PROVE  UNCHANGED Decision!vars
    <3>1. decision' = decision
      BY <2>s
    <3> QED BY <2>s, <3>1 DEF Decision!vars
  <2>d. ASSUME NEW r \in Requests, pc[r] \notin Decided, Decide(r, "denied"),
               UNCHANGED <<exempt, said>>
        PROVE  Decision!Deny(r)
    BY <2>d DEF Decide, Decision!Deny
  <2>g. ASSUME NEW r \in Requests, pc[r] \notin Decided, Decide(r, "granted"),
               exempt[r] \/ said[r] = "Yes", UNCHANGED <<exempt, said>>
        PROVE  Decision!Grant(r)
    BY <2>g DEF Decide, Decision!Grant
  <2>1. ASSUME NEW r \in Requests, Begin(r) PROVE Decision!Exempt(r) \/ UNCHANGED Decision!vars
    <3>1. pc' = [pc EXCEPT ![r] = "lock"] /\ pc[r] = "idle" /\ UNCHANGED said
      BY <2>1 DEF Begin, BeginWith, ItalcOnly
    <3>2. decision' = decision
      BY <3>1
    <3>3. PICK b \in BOOLEAN : exempt' = [exempt EXCEPT ![r] = b]
      BY <2>1 DEF Begin, BeginWith, NoConsentNeeded, Config
    <3>4. exempt[r] = FALSE
      BY <3>1 DEF Handshake, NothingSaidYet
    <3>5. CASE b
      BY <3>1, <3>2, <3>3, <3>5 DEF Decision!Exempt
    <3>6. CASE ~b
      <4>1. exempt' = exempt
        BY <3>3, <3>4, <3>6
      <4> QED BY <3>1, <3>2, <4>1 DEF Decision!vars
    <3> QED BY <3>5, <3>6
  <2>2. ASSUME NEW r \in Requests,
               Acquire(r) \/ ExecAccessDialog(r) \/ CreateDialog(r) \/ SendAsk(r)
                 \/ LeaveLoop(r) \/ Timeout(r)
        PROVE  UNCHANGED Decision!vars
    BY <2>2, <2>s DEF Acquire, ExecAccessDialog, CreateDialog, SendAsk, LeaveLoop, Timeout
  <2>3. ASSUME NEW r \in Requests, Refuse(r) PROVE Decision!Deny(r)
    BY <2>3, <2>d DEF Refuse
  <2>4. ASSUME NEW r \in Requests, Ask(r) PROVE Decision!Grant(r) \/ UNCHANGED Decision!vars
    <3>1. CASE exempt[r]
      BY <2>4, <2>g, <3>1 DEF Ask
    <3>2. CASE ~exempt[r]
      BY <2>4, <2>s, <3>2 DEF Ask
    <3> QED BY <3>1, <3>2
  <2>5. ASSUME NEW r \in Requests, ReturnChoice(r) PROVE Decision!Grant(r) \/ Decision!Deny(r)
    <3>1. CASE choice = "Yes"
      <4>1. said[r] = "Yes"
        BY <2>5, <3>1 DEF ReturnChoice, Handshake, ChoiceIsAnswer
      <4> QED BY <2>5, <2>g, <3>1, <4>1 DEF ReturnChoice
    <3>2. CASE choice # "Yes"
      BY <2>5, <2>d, <3>2 DEF ReturnChoice
    <3> QED BY <3>1, <3>2
  <2>6. ASSUME NEW r \in Requests, GiveUp(r) PROVE Decision!Deny(r)
    BY <2>6, <2>d DEF GiveUp
  <2>7. ASSUME NEW a \in {"Yes", "No"}, UserAnswers(a) PROVE Decision!Answer(Head(asks))
    <3>1. asks # <<>>
      BY <2>7 DEF UserAnswers
    <3>2. /\ dataMutex \in Requests /\ asks = <<dataMutex>>
          /\ pc[dataMutex] \in Waiting /\ said[dataMutex] = NoAnswer
      BY <3>1 DEF Handshake, OneQuestion
    <3>3. Head(asks) = dataMutex
      BY <3>2
    <3> QED BY <2>7, <3>2, <3>3 DEF UserAnswers, Decision!Answer
  <2>8. CASE ReportChoice \/ DialogDies \/ LogOnOrOff \/ UNCHANGED vars
    BY <2>8, <2>s DEF ReportChoice, DialogDies, LogOnOrOff, vars
  <2>9. ASSUME NEW a \in {"Yes", "No"}, UserAnswers(a) PROVE Head(asks) \in Requests
    BY <2>9 DEF UserAnswers
  <2> QED
    BY <2>1, <2>2, <2>3, <2>4, <2>5, <2>6, <2>7, <2>8, <2>9
    DEF Next, Thread, Decision!Next
<1> QED
  BY <1>1, <1>2, TypeCorrect, HandshakeInvariant, PTL DEF Spec, DecisionSpec, Decision!Spec

-----------------------------------------------------------------------------
(* The dialogue with the client.                                              *)

Peers == hasSecret \in BOOLEAN /\ client \in [Requests -> Clients]

LEMMA PeersStay == HSpec => []Peers
<1>1. HInit => Peers
  BY DEF HInit, Peers
<1>2. Peers /\ [HNext]_hVars => Peers'
  <2> SUFFICES ASSUME Peers, [HNext]_hVars PROVE UNCHANGED peerVars
    BY DEF Peers, peerVars
  <2>1. ASSUME NEW r \in Requests, HBegin(r) \/ Permission(r) PROVE UNCHANGED peerVars
    BY <2>1 DEF HBegin, Permission, dialogueVars
  <2>2. ASSUME NEW r \in Requests, HAcquire(r) \/ SendResult(r) PROVE UNCHANGED peerVars
    BY <2>2 DEF HAcquire, SendResult
  <2>3. ASSUME NEW r \in Requests,
               \/ ReadType(r) \/ ReadName(r) \/ ReadRole(r)
               \/ ReadSignature(r) \/ ReadSecret(r)
        PROVE  UNCHANGED peerVars
    BY <2>3 DEF ReadType, ReadName, ReadRole, ReadSignature, ReadSecret, ServerReads
  <2>4. ASSUME NEW r \in Requests, ClientThread(r) \/ Disconnect(r)
        PROVE  UNCHANGED peerVars
    BY <2>4 DEF ClientThread, ReadList, SendName, ReadChallenge, Sign, ReadResult,
                Disconnect
  <2>5. CASE (Dialog /\ UNCHANGED dialogueVars) \/ UNCHANGED hVars
    BY <2>5 DEF dialogueVars, hVars
  <2> QED BY <2>1, <2>2, <2>3, <2>4, <2>5 DEF HNext, Server
<1> QED BY <1>1, <1>2, PTL DEF HSpec

(* A client settles for a type that is offered.                               *)
LEMMA ChosenIsOffered ==
  ASSUME Peers, NEW r \in Requests
  PROVE  Chosen(client[r]) \in Offered /\ Chosen(client[r]) \in ItalcMethods
BY ClientsAssumption DEF Peers, Chosen, Offered, ItalcMethods, Client

(* Every step of the dialogue is a step of AccessControl or leaves it alone:  *)
(* what it promises holds with any client (ItalcCoreServer.cpp:249-339).       *)
THEOREM HandshakeRefined == HSpec => Spec
<1>1. HInit => Init
  BY DEF HInit
<1>2. Peers /\ [HNext]_hVars => [Next]_vars
  <2> SUFFICES ASSUME Peers, [HNext]_hVars PROVE Next \/ UNCHANGED vars
    OBVIOUS
  <2>1. ASSUME NEW r \in Requests, HBegin(r) PROVE Begin(r)
    BY <2>1, ChosenIsOffered, ItalcMethodsAssumption DEF HBegin, Begin
  <2>2. ASSUME NEW r \in Requests, Server(r) PROVE Thread(r) \/ UNCHANGED vars
    BY <2>2 DEF Server, HAcquire, ReadType, ReadName, ReadRole, ReadSignature,
                ReadSecret, Permission, SendResult, Conclude, Thread
  <2>3. ASSUME NEW r \in Requests, ClientThread(r) \/ Disconnect(r)
        PROVE  UNCHANGED vars
    BY <2>3 DEF ClientThread, ReadList, SendName, ReadChallenge, Sign, ReadResult,
                Disconnect
  <2> QED BY <2>1, <2>2, <2>3 DEF HNext, Dialog, hVars, Next
<1> QED BY <1>1, <1>2, PeersStay, PTL DEF HSpec, Spec

(* What Rest, Append and concatenation do to a stream.                        *)
LEMMA StreamTypes ==
  ASSUME NEW S, NEW s \in Seq(S), NEW t \in Seq(S), NEW e \in S
  PROVE  Rest(s) \in Seq(S) /\ s \o t \in Seq(S) /\ Append(s, e) \in Seq(S)
         /\ <<e>> \in Seq(S) /\ <<>> \in Seq(S)
BY DEF Rest

LEMMA HeadType ==
  ASSUME NEW S, NEW s \in Seq(S), s # <<>>
  PROVE  Head(s) \in S
OBVIOUS

(* The items a client may write: its own choice, key and secret.               *)
HonestItem(r) ==
  {m \in Item : /\ m.is = "type" => m.value = Chosen(client[r])
                /\ m.is = "signature" => m.value \in {client[r].key, Nothing}
                /\ m.is = "secret" => m.value = client[r].secret}

HeardFrom(r) == [type : {Nothing, Chosen(client[r])}, role : {Nothing, "some"}]

\* The server knows the client's choice, and asks for what proves it.
InStep ==
  /\ \A r \in Requests : up[r] \in Seq(HonestItem(r))
  /\ \A r \in Requests : heard[r] \in HeardFrom(r)
  /\ \A r \in Requests :
       /\ stage[r] \in {"role", "signature"} => heard[r].type = "DSA"
       /\ stage[r] = "secret" => heard[r].type = "CommonSecret"

Dialogue == DialogueTypeOK /\ InStep /\ GrantedIsProved

LEMMA ItemTypes ==
  ASSUME Peers, NEW r \in Requests
  PROVE  /\ Msg("type", Chosen(client[r])) \in HonestItem(r)
         /\ Msg("name", "some") \in HonestItem(r)
         /\ Msg("role", "some") \in HonestItem(r)
         /\ Msg("signature", client[r].key) \in HonestItem(r)
         /\ Msg("signature", Nothing) \in HonestItem(r)
         /\ Msg("secret", client[r].secret) \in HonestItem(r)
         /\ Msg("list", "some") \in Item /\ Msg("challenge", "some") \in Item
         /\ Msg("result", "ok") \in Item /\ Msg("result", "failed") \in Item
         /\ HonestItem(r) \subseteq Item
<1>1. client[r].key \in Values /\ client[r].secret \in Values
  BY ClientsAssumption DEF Peers, Client, Values
<1>2. Chosen(client[r]) \in Values
  BY ChosenIsOffered DEF Values
<1> QED BY <1>1, <1>2 DEF Msg, Item, Kinds, HonestItem, Values

(* What the client writes is honest.                                          *)
LEMMA WritesAreHonest ==
  ASSUME Peers, NEW r \in Requests, NEW s \in Seq(HonestItem(r))
  PROVE  /\ s \o <<Msg("type", Chosen(client[r]))>> \in Seq(HonestItem(r))
         /\ s \o Credentials(client[r]) \in Seq(HonestItem(r))
         /\ s \o <<Msg("role", "some")>> \in Seq(HonestItem(r))
         /\ s \o <<Msg("signature", client[r].key)>> \in Seq(HonestItem(r))
         /\ s \o <<Msg("signature", Nothing)>> \in Seq(HonestItem(r))
<1>1. Credentials(client[r]) \in Seq(HonestItem(r))
  BY ItemTypes, StreamTypes DEF Credentials
<1> QED BY <1>1, ItemTypes, StreamTypes

(* What a read of the server leaves behind.                                   *)
LEMMA ServerReadsStep ==
  ASSUME Peers, Dialogue, NEW r \in Requests, NEW kind \in Kinds, NEW v,
         ServerReads(r, kind, v)
  PROVE  /\ up' \in [Requests -> Seq(Item)]
         /\ \A q \in Requests : up'[q] \in Seq(HonestItem(q))
         /\ spoilt' \in [Requests -> BOOLEAN]
         /\ UNCHANGED <<peerVars, cpc>>
         /\ v # Nothing => \E m \in HonestItem(r) : m.is = kind /\ m.value = v
<1>1. up[r] \in Seq(HonestItem(r)) /\ up[r] \in Seq(Item)
  BY DEF Dialogue, DialogueTypeOK, InStep
<1>2. Rest(up[r]) \in Seq(HonestItem(r)) /\ Rest(up[r]) \in Seq(Item)
  BY <1>1 DEF Rest
<1>3. up' = [up EXCEPT ![r] = Rest(up[r])] /\ v = Got(up[r], kind)
  BY DEF ServerReads
<1>4. up' \in [Requests -> Seq(Item)]
  BY <1>2, <1>3 DEF Dialogue, DialogueTypeOK
<1>5. \A q \in Requests : up'[q] \in Seq(HonestItem(q))
  BY <1>2, <1>3 DEF Dialogue, DialogueTypeOK, InStep
<1>6. v # Nothing => \E m \in HonestItem(r) : m.is = kind /\ m.value = v
  BY <1>1, <1>3, HeadType DEF Got
<1>7. spoilt' \in [Requests -> BOOLEAN] /\ UNCHANGED <<peerVars, cpc>>
  BY DEF ServerReads, Dialogue, DialogueTypeOK
<1> QED BY <1>4, <1>5, <1>6, <1>7

(* Server and client stay in step, and a grant rests on credentials           *)
(* (ItalcCoreServer.cpp:273-327, 396-404, 453-464).                            *)
THEOREM DialogueInvariant == HSpec => []Dialogue
<1> USE ItalcMethodsAssumption DEF Decided, Asking
<1>1. HInit /\ TypeOK => Dialogue
  BY StreamTypes DEF HInit, Init, Dialogue, DialogueTypeOK, InStep, GrantedIsProved,
         HeardFrom, Writing, HonestItem
<1>2. TypeOK' /\ Peers /\ Dialogue /\ [HNext]_hVars => Dialogue'
  <2> SUFFICES ASSUME TypeOK', Peers, Dialogue, [HNext]_hVars PROVE Dialogue'
    OBVIOUS
  <2>0. ASSUME UNCHANGED peerVars
        PROVE  /\ hasSecret' \in BOOLEAN /\ client' \in [Requests -> Clients]
               /\ \A q \in Requests : /\ HonestItem(q)' = HonestItem(q)
                                      /\ HeardFrom(q)' = HeardFrom(q)
                                      /\ Convinces(client[q])' = Convinces(client[q])
    BY <2>0 DEF Peers, peerVars, HonestItem, HeardFrom, Convinces, Chosen, Offered
  <2>u. ASSUME UNCHANGED dialogueVars,
               \A q \in Requests : pc'[q] \in Asking \cup {"granted"} =>
                                     pc[q] \in Asking \cup {"granted"}
        PROVE  Dialogue'
    BY <2>u, <2>0 DEF Dialogue, DialogueTypeOK, InStep, GrantedIsProved, dialogueVars,
                      peerVars, streamVars
  <2>1. ASSUME NEW r \in Requests, HBegin(r) PROVE Dialogue'
    <3>1. pc' = [pc EXCEPT ![r] = "lock"] /\ UNCHANGED dialogueVars
      BY <2>1, ChosenIsOffered DEF HBegin, BeginWith, Goto
    <3> QED BY <3>1, <2>u DEF Dialogue, DialogueTypeOK, TypeOK
  <2>2. ASSUME NEW r \in Requests, Permission(r) PROVE Dialogue'
    <3>1. pc[r] \in Asking /\ \A q \in Requests \ {r} : pc'[q] = pc[q]
      BY <2>2 DEF Permission, ExecAccessDialog, CreateDialog, SendAsk, LeaveLoop,
                  ReturnChoice, Timeout, GiveUp, Goto, Decide, Dialogue, DialogueTypeOK,
                  TypeOK
    <3> QED BY <2>2, <3>1, <2>u DEF Permission
  <2>3. CASE Dialog /\ UNCHANGED dialogueVars
    <3>1. UNCHANGED pc
      BY <2>3 DEF Dialog, ReportChoice, UserAnswers, DialogDies, LogOnOrOff
    <3> QED BY <2>3, <3>1, <2>u
  <2>4. CASE UNCHANGED hVars
    BY <2>4, <2>u DEF hVars, vars
  <2>t. ASSUME NEW r \in Requests, NEW m \in Item, Tell(r, m)
        PROVE  down' \in [Requests -> Seq(Item)]
    <3>1. Append(down[r], m) \in Seq(Item)
      BY DEF Dialogue, DialogueTypeOK
    <3> QED BY <3>1, <2>t DEF Tell, Dialogue, DialogueTypeOK
  <2>5. ASSUME NEW r \in Requests, HAcquire(r) PROVE Dialogue'
    <3>1. pc' = [pc EXCEPT ![r] = "ask"]
      BY <2>5 DEF HAcquire, Acquire, Goto
    <3>2. down' \in [Requests -> Seq(Item)]
      BY <2>5, <2>t, ItemTypes DEF HAcquire
    <3>3. /\ stage' = [stage EXCEPT ![r] = "type"]
          /\ UNCHANGED <<peerVars, cpc, heard, up, spoilt>>
      BY <2>5 DEF HAcquire, ServerAt
    <3>4. DialogueTypeOK'
      BY <3>2, <3>3, <2>0 DEF Dialogue, DialogueTypeOK, peerVars
    <3>5. InStep'
      BY <3>3, <2>0 DEF Dialogue, DialogueTypeOK, InStep
    <3>6. GrantedIsProved'
      BY <3>1, <3>3, <2>0 DEF Dialogue, DialogueTypeOK, TypeOK, GrantedIsProved
    <3> QED BY <3>4, <3>5, <3>6 DEF Dialogue
  <2>6. ASSUME NEW r \in Requests, SendResult(r) PROVE Dialogue'
    <3>1. down' \in [Requests -> Seq(Item)]
      <4>1. Msg("result", IF pc[r] = "granted" THEN "ok" ELSE "failed") \in Item
        BY ItemTypes
      <4> QED BY <2>6, <4>1, <2>t DEF SendResult
    <3>2. UNCHANGED <<vars, pc>>
      BY <2>6 DEF SendResult, vars
    <3> QED BY <2>6, <3>1, <3>2, <2>0
            DEF SendResult, ServerAt, Dialogue, DialogueTypeOK, InStep,
                GrantedIsProved, peerVars
  <2>d. ASSUME NEW r \in Requests, NEW b \in BOOLEAN, Conclude(r, b),
               b => Convinces(client[r]), UNCHANGED peerVars
        PROVE  /\ GrantedIsProved'
               /\ stage' = [stage EXCEPT ![r] = "verdict"] /\ UNCHANGED heard
    <3>1. CASE b
      <4>1. \E l \in {"granted", "reset"} : pc' = [pc EXCEPT ![r] = l]
        BY <2>d, <3>1 DEF Conclude, Ask, Decide, Goto
      <4> QED BY <2>d, <3>1, <4>1, <2>0
              DEF Conclude, ServerAt, Dialogue, DialogueTypeOK, TypeOK, GrantedIsProved
    <3>2. CASE ~b
      <4>1. pc' = [pc EXCEPT ![r] = "denied"]
        BY <2>d, <3>2 DEF Conclude, Refuse, Decide, Goto
      <4> QED BY <2>d, <3>2, <4>1, <2>0
              DEF Conclude, ServerAt, Dialogue, DialogueTypeOK, TypeOK, GrantedIsProved
    <3> QED BY <3>1, <3>2
  <2>r. ASSUME NEW r \in Requests, NEW kind \in Kinds, NEW v, ServerReads(r, kind, v),
               NEW s \in {"name", "role", "signature", "secret", "verdict"},
               stage' = [stage EXCEPT ![r] = s],
               NEW h \in HeardFrom(r), heard' = [heard EXCEPT ![r] = h],
               s \in {"role", "signature"} => h.type = "DSA",
               s = "secret" => h.type = "CommonSecret",
               down' \in [Requests -> Seq(Item)], GrantedIsProved'
        PROVE  Dialogue'
    <3>1. /\ up' \in [Requests -> Seq(Item)]
          /\ \A q \in Requests : up'[q] \in Seq(HonestItem(q))
          /\ spoilt' \in [Requests -> BOOLEAN]
          /\ UNCHANGED <<peerVars, cpc>>
      BY <2>r, ServerReadsStep
    <3>2. h \in [type : ItalcMethods \cup {Nothing}, role : {Nothing, "some"}]
      BY <2>r, ChosenIsOffered DEF HeardFrom
    <3>3. DialogueTypeOK'
      BY <2>r, <3>1, <3>2, <2>0 DEF Dialogue, DialogueTypeOK
    <3>4. InStep'
      BY <2>r, <3>1, <2>0 DEF Dialogue, DialogueTypeOK, InStep
    <3> QED BY <2>r, <3>3, <3>4 DEF Dialogue
  <2>h. ASSUME NEW r \in Requests
        PROVE  /\ heard[r] \in HeardFrom(r)
               /\ heard = [heard EXCEPT ![r] = heard[r]]
    BY DEF Dialogue, DialogueTypeOK, InStep
  <2>p. ASSUME UNCHANGED <<vars, peerVars>> PROVE GrantedIsProved'
    BY <2>p, <2>0 DEF Dialogue, GrantedIsProved, vars
  <2>7. ASSUME NEW r \in Requests, ReadType(r) PROVE Dialogue'
    <3>1. PICK t \in Values :
             /\ ServerReads(r, "type", t)
             /\ \/ /\ ServesType(t)
                   /\ heard' = [heard EXCEPT ![r].type = t]
                   /\ ServerAt(r, "name") /\ UNCHANGED vars
                \/ Refuse(r) /\ ServerAt(r, "verdict") /\ UNCHANGED heard
      BY <2>7 DEF ReadType
    <3>2. /\ t # Nothing => t = Chosen(client[r])
          /\ UNCHANGED peerVars
      BY <3>1, ServerReadsStep DEF Kinds, HonestItem
    <3>3. down' \in [Requests -> Seq(Item)]
      BY <2>7 DEF ReadType, Dialogue, DialogueTypeOK
    <3>4. CASE /\ ServesType(t) /\ heard' = [heard EXCEPT ![r].type = t]
               /\ ServerAt(r, "name") /\ UNCHANGED vars
      <4> DEFINE h == [heard[r] EXCEPT !.type = t]
      <4>1. t = Chosen(client[r])
        BY <3>2, <3>4 DEF ServesType, Offered, ItalcMethods, Nothing
      <4>2. h \in HeardFrom(r) /\ heard' = [heard EXCEPT ![r] = h]
        BY <2>h, <3>4, <4>1 DEF HeardFrom
      <4>3. GrantedIsProved'
        BY <3>2, <3>4, <2>p
      <4> QED BY <3>1, <3>3, <3>4, <4>2, <4>3, <2>r DEF ServerAt, Kinds
    <3>5. CASE Refuse(r) /\ ServerAt(r, "verdict") /\ UNCHANGED heard
      <4>1. GrantedIsProved'
        BY <3>2, <3>5, <2>d DEF Conclude
      <4>2. heard' = [heard EXCEPT ![r] = heard[r]]
        BY <2>h, <3>5
      <4> QED BY <3>1, <3>3, <3>5, <4>1, <4>2, <2>h, <2>r DEF ServerAt, Kinds
    <3> QED BY <3>1, <3>4, <3>5
  <2>e. ASSUME NEW r \in Requests, NEW kind \in Kinds, NEW v, ServerReads(r, kind, v),
               NEW b \in BOOLEAN, Conclude(r, b), b => Convinces(client[r]),
               UNCHANGED down
        PROVE  Dialogue'
    <3>1. UNCHANGED peerVars
      BY <2>e, ServerReadsStep
    <3>2. /\ GrantedIsProved' /\ UNCHANGED heard
          /\ stage' = [stage EXCEPT ![r] = "verdict"]
      BY <2>e, <3>1, <2>d
    <3>3. heard' = [heard EXCEPT ![r] = heard[r]] /\ down' \in [Requests -> Seq(Item)]
      BY <2>e, <2>h, <3>2 DEF Dialogue, DialogueTypeOK
    <3> QED BY <2>e, <3>2, <3>3, <2>h, <2>r
  <2>8. ASSUME NEW r \in Requests, ReadSignature(r) PROVE Dialogue'
    <3>1. PICK s \in Values : ServerReads(r, "signature", s) /\ Conclude(r, Verified(r, s))
      BY <2>8 DEF ReadSignature
    <3>2. Verified(r, s) => Convinces(client[r])
      <4>1. s # Nothing => s \in {client[r].key, Nothing}
        BY <3>1, ServerReadsStep DEF Kinds, HonestItem
      <4>2. Chosen(client[r]) = "DSA"
        <5>1. heard[r].type = "DSA" /\ heard[r] \in HeardFrom(r)
          BY <2>8 DEF ReadSignature, Dialogue, InStep
        <5> QED BY <5>1 DEF HeardFrom, Nothing
      <4> QED BY <4>1, <4>2 DEF Verified, Convinces, Nothing
    <3>3. UNCHANGED down /\ Verified(r, s) \in BOOLEAN
      BY <2>8 DEF ReadSignature, Verified
    <3> QED BY <3>1, <3>2, <3>3, <2>e DEF Kinds
  <2>9. ASSUME NEW r \in Requests, ReadSecret(r) PROVE Dialogue'
    <3>1. PICK s \in Values : ServerReads(r, "secret", s) /\ Conclude(r, s = "right")
      BY <2>9 DEF ReadSecret
    <3>2. s = "right" => Convinces(client[r])
      <4>1. s # Nothing => s = client[r].secret
        BY <3>1, ServerReadsStep DEF Kinds, HonestItem
      <4>2. Chosen(client[r]) = "CommonSecret"
        <5>1. heard[r].type = "CommonSecret" /\ heard[r] \in HeardFrom(r)
          BY <2>9 DEF ReadSecret, Dialogue, InStep
        <5> QED BY <5>1 DEF HeardFrom, Nothing
      <4> QED BY <4>1, <4>2 DEF Convinces, Nothing
    <3>3. UNCHANGED down
      BY <2>9 DEF ReadSecret
    <3> QED BY <3>1, <3>2, <3>3, <2>e DEF Kinds
  <2>10. ASSUME NEW r \in Requests, ReadName(r) PROVE Dialogue'
    <3>1. PICK n \in Values : ServerReads(r, "name", n)
      BY <2>10 DEF ReadName
    <3>2. "name" \in Kinds /\ UNCHANGED peerVars
      BY <3>1, ServerReadsStep DEF Kinds
    <3>h. heard[r].type \in {Nothing, Chosen(client[r])}
      BY <2>h DEF HeardFrom
    <3>3. CASE /\ heard[r].type = "HostBased" /\ Conclude(r, client[r].listed)
               /\ UNCHANGED down
      <4>1. client[r].listed \in BOOLEAN
        BY ClientsAssumption DEF Peers, Client
      <4>2. client[r].listed => Convinces(client[r])
        BY <3>h, <3>3 DEF Convinces, Nothing
      <4> QED BY <3>1, <3>2, <3>3, <4>1, <4>2, <2>e
    <3>4. CASE /\ heard[r].type = "DSA" /\ Tell(r, Msg("challenge", "some"))
               /\ ServerAt(r, "role") /\ UNCHANGED <<vars, heard>>
      <4>1. down' \in [Requests -> Seq(Item)]
        BY <3>4, ItemTypes, <2>t
      <4>2. GrantedIsProved' /\ heard' = [heard EXCEPT ![r] = heard[r]]
        BY <3>2, <3>4, <2>p, <2>h
      <4> QED BY <3>1, <3>2, <3>4, <4>1, <4>2, <2>h, <2>r DEF ServerAt
    <3>5. CASE /\ heard[r].type = "CommonSecret" /\ ServerAt(r, "secret")
               /\ UNCHANGED <<vars, heard, down>>
      <4>1. down' \in [Requests -> Seq(Item)]
        BY <3>5 DEF Dialogue, DialogueTypeOK
      <4>2. GrantedIsProved' /\ heard' = [heard EXCEPT ![r] = heard[r]]
        BY <3>2, <3>5, <2>p, <2>h
      <4> QED BY <3>1, <3>2, <3>5, <4>1, <4>2, <2>h, <2>r DEF ServerAt
    <3> QED BY <2>10, <3>3, <3>4, <3>5 DEF ReadName
  <2>11. ASSUME NEW r \in Requests, ReadRole(r) PROVE Dialogue'
    <3>1. PICK u \in Values :
             /\ ServerReads(r, "role", u)
             /\ heard' = [heard EXCEPT ![r].role = IF u = "some" THEN u ELSE Nothing]
      BY <2>11 DEF ReadRole
    <3>2. "role" \in Kinds /\ UNCHANGED peerVars
      BY <3>1, ServerReadsStep DEF Kinds
    <3> DEFINE h == [heard[r] EXCEPT !.role = IF u = "some" THEN u ELSE Nothing]
    <3>3. h \in HeardFrom(r) /\ heard' = [heard EXCEPT ![r] = h]
      BY <3>1, <2>h DEF HeardFrom
    <3>4. h.type = "DSA"
      BY <2>11, <2>h DEF ReadRole, Dialogue, InStep, HeardFrom
    <3>5. GrantedIsProved' /\ down' \in [Requests -> Seq(Item)]
      BY <2>11, <3>2, <2>p DEF ReadRole, Dialogue, DialogueTypeOK
    <3>6. stage' = [stage EXCEPT ![r] = "signature"]
      BY <2>11 DEF ReadRole, ServerAt
    <3> HIDE DEF h
    <3> QED BY <3>1, <3>2, <3>3, <3>4, <3>5, <3>6, <2>r
  <2>c. ASSUME NEW r \in Requests, UNCHANGED <<vars, peerVars, stage, heard>>,
               NEW u \in Seq(HonestItem(r)), up' = [up EXCEPT ![r] = u],
               NEW d \in Seq(Item), down' = [down EXCEPT ![r] = d],
               NEW l \in Writing \cup {"result"} \cup Finished,
               cpc' = [cpc EXCEPT ![r] = l],
               spoilt' \in [Requests -> BOOLEAN]
        PROVE  Dialogue'
    <3>1. u \in Seq(Item)
      BY <2>c, ItemTypes
    <3>2. DialogueTypeOK'
      BY <2>c, <3>1, <2>0 DEF Dialogue, DialogueTypeOK
    <3>3. InStep'
      BY <2>c, <2>0 DEF Dialogue, DialogueTypeOK, InStep
    <3> QED BY <2>c, <3>2, <3>3, <2>p DEF Dialogue
  <2>q. ASSUME NEW r \in Requests
        PROVE  /\ up[r] \in Seq(HonestItem(r)) /\ up = [up EXCEPT ![r] = up[r]]
               /\ down[r] \in Seq(Item) /\ down = [down EXCEPT ![r] = down[r]]
               /\ Rest(down[r]) \in Seq(Item) /\ <<>> \in Seq(Item)
    BY DEF Dialogue, DialogueTypeOK, InStep, Rest
  <2> USE DEF ClientAt, Write, ClientReads, Writing, Finished
  <2>s. ASSUME UNCHANGED spoilt PROVE spoilt' \in [Requests -> BOOLEAN]
    BY <2>s DEF Dialogue, DialogueTypeOK
  <2>12. ASSUME NEW r \in Requests, ReadList(r) PROVE Dialogue'
    BY <2>12, <2>c, <2>q, <2>s, WritesAreHonest DEF ReadList
  <2>13. ASSUME NEW r \in Requests, SendName(r) PROVE Dialogue'
    BY <2>13, <2>c, <2>q, <2>s, WritesAreHonest DEF SendName
  <2>14. ASSUME NEW r \in Requests, ReadChallenge(r) PROVE Dialogue'
    BY <2>14, <2>c, <2>q, <2>s, WritesAreHonest DEF ReadChallenge
  <2>15. ASSUME NEW r \in Requests, Sign(r) PROVE Dialogue'
    BY <2>15, <2>c, <2>q, <2>s, WritesAreHonest DEF Sign
  <2>16. ASSUME NEW r \in Requests, ReadResult(r) PROVE Dialogue'
    BY <2>16, <2>c, <2>q, <2>s DEF ReadResult
  <2>17. ASSUME NEW r \in Requests, Disconnect(r) PROVE Dialogue'
    <3>1. spoilt' \in [Requests -> BOOLEAN]
      BY <2>17 DEF Disconnect, Dialogue, DialogueTypeOK
    <3> QED BY <2>17, <3>1, <2>c, <2>q DEF Disconnect
  <2> QED
    BY <2>1, <2>2, <2>3, <2>4, <2>5, <2>6, <2>7, <2>8, <2>9, <2>10, <2>11,
       <2>12, <2>13, <2>14, <2>15, <2>16, <2>17 DEF HNext, Server, ClientThread
<1>3. HSpec => []TypeOK
  BY TypeCorrect, HandshakeRefined, PTL
<1> QED BY <1>1, <1>2, <1>3, PeersStay, PTL DEF HSpec

(* The type invariant of the dialogue (ItalcVncConnection.cpp:767-833).        *)
THEOREM DialogueTypeCorrect == HSpec => []DialogueTypeOK
<1>1. Dialogue => DialogueTypeOK
  BY DEF Dialogue
<1> QED BY <1>1, DialogueInvariant, PTL

(* Nobody is granted access, or asked about, without credentials of the type   *)
(* agreed on (ItalcCoreServer.cpp:273-327, 396-404, 453-464).                   *)
THEOREM GrantsAreProved == HSpec => []GrantedIsProved
<1>1. Dialogue => GrantedIsProved
  BY DEF Dialogue
<1> QED BY <1>1, DialogueInvariant, PTL

-----------------------------------------------------------------------------
(* What is under way between a server and a client of which no item was      *)
(* late.  t is the type agreed on, c the client; stages of the server and     *)
(* places of the client say how many items were written and read.             *)

Keyed(t, c) == t = "DSA" /\ c.key # "none"

\* What the client writes, in order, and how much of it there is.
ScriptLength(t, c) == CASE t = "CommonSecret" -> 3 [] Keyed(t, c) -> 4 [] OTHER -> 2
Script(t, c, i) ==
  CASE i = 1 -> Msg("type", t)
    [] i = 2 -> Msg("name", "some")
    [] i = 3 /\ t = "CommonSecret" -> Msg("secret", c.secret)
    [] i = 3 /\ t # "CommonSecret" -> Msg("role", "some")
    [] OTHER -> Msg("signature", c.key)

\* How much a client that is at l has written.
Written(t, c, l) ==
  CASE l = "list" -> 0
    [] l = "name" -> 1
    [] l = "challenge" -> 2
    [] l = "sign" -> 3
    [] OTHER -> ScriptLength(t, c)

\* How much of it a server at stage s has read.
Taken(t, c, s) ==
  CASE s \in {"none", "type"} -> 0
    [] s = "name" -> 1
    [] s \in {"role", "secret"} -> 2
    [] s = "signature" /\ Keyed(t, c) -> 3
    [] s = "signature" /\ ~Keyed(t, c) -> 2
    [] OTHER -> ScriptLength(t, c)

\* What the server writes: the list, a challenge, the result.
Reply(t, p, i) ==
  CASE i = 1 -> Msg("list", "some")
    [] i = 2 /\ t = "DSA" -> Msg("challenge", "some")
    [] OTHER -> Msg("result", IF p = "granted" THEN "ok" ELSE "failed")

\* How much a server at stage s has written, and a client at l has read.
Sent(t, s) ==
  CASE s = "none" -> 0
    [] s \in {"type", "name"} -> 1
    [] OTHER -> (IF t = "DSA" THEN 2 ELSE 1) + (IF s \in {"closed", "serving"} THEN 1 ELSE 0)

Received(t, c, l) ==
  CASE l = "list" -> 0
    [] l \in {"name", "challenge"} -> 1
    [] l = "sign" -> 2
    [] OTHER -> (IF Keyed(t, c) THEN 2 ELSE 1) + (IF l \in Finished THEN 1 ELSE 0)

\* The streams hold what was written and not yet read.
UpHolds(t, c, s, l, u) ==
  /\ Len(u) + Taken(t, c, s) = Written(t, c, l)
  /\ \A i \in 1..Len(u) : u[i] = Script(t, c, Taken(t, c, s) + i)

DownHolds(t, c, p, s, l, d) ==
  /\ Len(d) + Received(t, c, l) = Sent(t, s)
  /\ \A i \in 1..Len(d) : d[i] = Reply(t, p, Received(t, c, l) + i)

\* The places of a client of which no item was late.
Place(t, c, l) == l # "signNothing" /\ (l \in {"challenge", "sign"} => Keyed(t, c))

\* How far the thread is, and how far the dialogue.
Phase(p, s) ==
  /\ p \in {"idle", "lock"} <=> s = "none"
  /\ p = "ask" <=> s \in {"type", "name", "role", "signature", "secret"}
  /\ s \in {"closed", "serving"} => p \in Decided

\* What the server has heard so far.
Heard(t, c, s, h) ==
  /\ s = "name" => h.type = t
  /\ s = "signature" /\ Keyed(t, c) => h.role = "some"

-----------------------------------------------------------------------------
(* Streams: what a read takes, and what a write adds.                         *)

\* The counts are numbers.
LEMMA Counts ==
  ASSUME NEW t, NEW c, NEW s, NEW l
  PROVE  /\ ScriptLength(t, c) \in Nat /\ Written(t, c, l) \in Nat /\ Taken(t, c, s) \in Nat
         /\ Sent(t, s) \in Nat /\ Received(t, c, l) \in Nat
BY DEF ScriptLength, Written, Taken, Sent, Received

\* What Rest takes.
LEMMA RestOf ==
  ASSUME NEW S, NEW s \in Seq(S), s # <<>>
  PROVE  /\ Rest(s) \in Seq(S) /\ Len(Rest(s)) + 1 = Len(s) /\ Head(s) = s[1]
         /\ \A i \in 1..Len(Rest(s)) : i + 1 \in 1..Len(s) /\ Rest(s)[i] = s[i + 1]
BY DEF Rest

\* The server reads the next item of the script.
LEMMA UpRead ==
  ASSUME NEW t, NEW c, NEW s, NEW s2, NEW l, NEW S, NEW u \in Seq(S),
         UpHolds(t, c, s, l, u), u # <<>>, Taken(t, c, s2) = Taken(t, c, s) + 1
  PROVE  UpHolds(t, c, s2, l, Rest(u)) /\ Head(u) = Script(t, c, Taken(t, c, s) + 1)
<1> DEFINE k == Taken(t, c, s)  w == Written(t, c, l)
<1>1. k \in Nat /\ w \in Nat /\ Len(u) \in Nat
  BY Counts
<1>w. Len(u) + k = w
  BY DEF UpHolds
<1>2. \A i \in 1..Len(u) : u[i] = Script(t, c, k + i)
  BY DEF UpHolds
<1>r. Len(Rest(u)) + 1 = Len(u) /\ Head(u) = u[1] /\ Len(Rest(u)) \in Nat
  BY RestOf
<1>3. \A i \in 1..Len(Rest(u)) : i + 1 \in 1..Len(u) /\ Rest(u)[i] = u[i + 1]
  BY RestOf
<1> HIDE DEF k, w
<1>4. Head(u) = Script(t, c, k + 1)
  <2>1. 1 \in 1..Len(u)
    BY <1>1, <1>r
  <2> QED BY <1>2, <1>r, <2>1
<1>5. ASSUME NEW i \in 1..Len(Rest(u)) PROVE Rest(u)[i] = Script(t, c, (k + 1) + i)
  <2>1. k + (i + 1) = (k + 1) + i
    BY <1>1, <1>r
  <2> QED BY <1>2, <1>3, <2>1
<1>6. Len(Rest(u)) + (k + 1) = w
  BY <1>1, <1>r, <1>w
<1> QED BY <1>4, <1>5, <1>6 DEF UpHolds, k, w

\* It reads nothing, where there is nothing to come.
LEMMA UpDry ==
  ASSUME NEW t, NEW c, NEW s, NEW s2, NEW l,
         UpHolds(t, c, s, l, <<>>), Taken(t, c, s2) = Taken(t, c, s)
  PROVE  UpHolds(t, c, s2, l, Rest(<<>>))
BY DEF UpHolds, Rest

\* The client writes on.
LEMMA UpWrite ==
  ASSUME NEW t, NEW c, NEW s, NEW l, NEW l2, NEW S, NEW u \in Seq(S), NEW v \in Seq(S),
         UpHolds(t, c, s, l, u), Written(t, c, l2) = Written(t, c, l) + Len(v),
         \A i \in 1..Len(v) : v[i] = Script(t, c, Written(t, c, l) + i)
  PROVE  UpHolds(t, c, s, l2, u \o v)
<1> DEFINE k == Taken(t, c, s)  w == Written(t, c, l)
<1>1. k \in Nat /\ w \in Nat /\ Len(u) \in Nat /\ Len(v) \in Nat
  BY Counts
<1>w. Len(u) + k = w
  BY DEF UpHolds
<1>2. \A i \in 1..Len(u) : u[i] = Script(t, c, k + i)
  BY DEF UpHolds
<1>r. Len(u \o v) = Len(u) + Len(v)
  OBVIOUS
<1>3. \A i \in 1..Len(u) + Len(v) :
           (u \o v)[i] = IF i <= Len(u) THEN u[i] ELSE v[i - Len(u)]
  OBVIOUS
<1>4. \A i \in 1..Len(v) : v[i] = Script(t, c, w + i)
  OBVIOUS
<1> HIDE DEF k, w
<1>5. ASSUME NEW i \in 1..Len(u \o v) PROVE (u \o v)[i] = Script(t, c, k + i)
  <2>1. CASE i <= Len(u)
    BY <1>1, <1>2, <1>r, <1>3, <2>1
  <2>2. CASE ~(i <= Len(u))
    <3>1. i - Len(u) \in 1..Len(v) /\ (u \o v)[i] = v[i - Len(u)]
      BY <1>1, <1>r, <1>3, <2>2
    <3>2. i \in Nat
      BY <1>1, <1>r
    <3>3. w + (i - Len(u)) = k + i
      BY <1>1, <1>w, <3>2
    <3> QED BY <1>4, <3>1, <3>3
  <2> QED BY <2>1, <2>2
<1>6. Len(u \o v) + k = w + Len(v)
  BY <1>1, <1>w, <1>r
<1> QED BY <1>5, <1>6 DEF UpHolds, k, w

\* It writes one item.
LEMMA UpWriteOne ==
  ASSUME NEW t, NEW c, NEW s, NEW l, NEW l2, NEW S, NEW u \in Seq(S), NEW m \in S,
         UpHolds(t, c, s, l, u), Written(t, c, l2) = Written(t, c, l) + 1,
         m = Script(t, c, Written(t, c, l2))
  PROVE  UpHolds(t, c, s, l2, u \o <<m>>)
<1>1. /\ <<m>> \in Seq(S) /\ Len(<<m>>) = 1
      /\ \A i \in 1..1 : i = 1 /\ <<m>>[i] = m
  OBVIOUS
<1>2. \A i \in 1..Len(<<m>>) : <<m>>[i] = Script(t, c, Written(t, c, l) + i)
  BY <1>1
<1>3. Written(t, c, l2) = Written(t, c, l) + Len(<<m>>)
  BY <1>1
<1> QED BY <1>1, <1>2, <1>3, UpWrite

\* The client reads the next reply.
LEMMA DownRead ==
  ASSUME NEW t, NEW c, NEW p, NEW s, NEW l, NEW l2, NEW S, NEW d \in Seq(S),
         DownHolds(t, c, p, s, l, d), d # <<>>,
         Received(t, c, l2) = Received(t, c, l) + 1
  PROVE  DownHolds(t, c, p, s, l2, Rest(d)) /\ Head(d) = Reply(t, p, Received(t, c, l) + 1)
<1> DEFINE k == Received(t, c, l)  w == Sent(t, s)
<1>1. k \in Nat /\ w \in Nat /\ Len(d) \in Nat
  BY Counts
<1>w. Len(d) + k = w
  BY DEF DownHolds
<1>2. \A i \in 1..Len(d) : d[i] = Reply(t, p, k + i)
  BY DEF DownHolds
<1>r. Len(Rest(d)) + 1 = Len(d) /\ Head(d) = d[1] /\ Len(Rest(d)) \in Nat
  BY RestOf
<1>3. \A i \in 1..Len(Rest(d)) : i + 1 \in 1..Len(d) /\ Rest(d)[i] = d[i + 1]
  BY RestOf
<1> HIDE DEF k, w
<1>4. Head(d) = Reply(t, p, k + 1)
  <2>1. 1 \in 1..Len(d)
    BY <1>1, <1>r
  <2> QED BY <1>2, <1>r, <2>1
<1>5. ASSUME NEW i \in 1..Len(Rest(d)) PROVE Rest(d)[i] = Reply(t, p, (k + 1) + i)
  <2>1. k + (i + 1) = (k + 1) + i
    BY <1>1, <1>r
  <2> QED BY <1>2, <1>3, <2>1
<1>6. Len(Rest(d)) + (k + 1) = w
  BY <1>1, <1>r, <1>w
<1> QED BY <1>4, <1>5, <1>6 DEF DownHolds, k, w

\* The server writes on.
LEMMA DownWrite ==
  ASSUME NEW t, NEW c, NEW p, NEW s, NEW s2, NEW l, NEW S, NEW d \in Seq(S), NEW m \in S,
         DownHolds(t, c, p, s, l, d), Sent(t, s2) = Sent(t, s) + 1,
         m = Reply(t, p, Sent(t, s2))
  PROVE  DownHolds(t, c, p, s2, l, Append(d, m))
<1> DEFINE k == Received(t, c, l)
<1>1. k \in Nat /\ Sent(t, s) \in Nat
  BY Counts
<1>l. Len(d) \in Nat
  OBVIOUS
<1>2. /\ Len(d) + k = Sent(t, s)
      /\ \A i \in 1..Len(d) : d[i] = Reply(t, p, k + i)
  BY DEF DownHolds
<1>3. /\ Len(Append(d, m)) = Len(d) + 1
      /\ \A i \in 1..Len(d) : Append(d, m)[i] = d[i]
      /\ Append(d, m)[Len(d) + 1] = m
  OBVIOUS
<1> HIDE DEF k
<1>4. k + (Len(d) + 1) = Sent(t, s2)
  BY <1>l, <1>1, <1>2
<1>5. ASSUME NEW i \in 1..Len(d) + 1 PROVE Append(d, m)[i] = Reply(t, p, k + i)
  <2>1. CASE i \in 1..Len(d)
    BY <1>2, <1>3, <2>1
  <2>2. CASE i = Len(d) + 1
    BY <1>3, <1>4, <2>2
  <2> QED BY <1>l, <1>1, <2>1, <2>2
<1>6. Len(Append(d, m)) + k = Sent(t, s2)
  BY <1>l, <1>1, <1>2, <1>3
<1> QED BY <1>3, <1>5, <1>6 DEF DownHolds, k

\* Until the result is sent, nothing that was depends on the verdict.
LEMMA DownOpen ==
  ASSUME NEW t, NEW c, NEW p, NEW p2, NEW s, NEW s2, NEW l, NEW S, NEW d \in Seq(S),
         DownHolds(t, c, p, s, l, d), Sent(t, s2) = Sent(t, s), s \notin {"closed", "serving"}
  PROVE  DownHolds(t, c, p2, s2, l, d)
<1>1. /\ Received(t, c, l) \in Nat /\ Sent(t, s) \in Nat /\ Len(d) \in Nat
      /\ Len(d) + Received(t, c, l) = Sent(t, s)
  BY Counts DEF DownHolds
<1>2. Sent(t, s) <= 1 \/ (t = "DSA" /\ Sent(t, s) <= 2)
  BY DEF Sent
<1>3. ASSUME NEW i \in 1..Len(d) PROVE d[i] = Reply(t, p2, Received(t, c, l) + i)
  <2> DEFINE n == Received(t, c, l) + i
  <2>1. n = 1 \/ (n = 2 /\ t = "DSA")
    BY <1>1, <1>2
  <2>2. d[i] = Reply(t, p, n)
    BY DEF DownHolds
  <2> HIDE DEF n
  <2>3. Reply(t, p, n) = Reply(t, p2, n)
    BY <2>1 DEF Reply
  <2> QED BY <2>2, <2>3 DEF n
<1> QED BY <1>1, <1>3 DEF DownHolds

-----------------------------------------------------------------------------
(* One request at a time.                                                     *)

\* What a step of r leaves alone.
Others(r) ==
  \A q \in Requests \ {r} :
    /\ pc'[q] = pc[q] /\ stage'[q] = stage[q] /\ cpc'[q] = cpc[q]
    /\ up'[q] = up[q] /\ down'[q] = down[q] /\ heard'[q] = heard[q]
    /\ exempt'[q] = exempt[q] /\ spoilt'[q] = spoilt[q]

\* A thread decides about its own request only.
LEMMA ThreadsKeepApart ==
  ASSUME TypeOK, NEW r \in Requests, Server(r)
  PROVE  \A q \in Requests \ {r} : pc'[q] = pc[q] /\ exempt'[q] = exempt[q]
<1>1. CASE UNCHANGED vars
  BY <1>1 DEF vars
<1>2. CASE Thread(r)
  BY <1>2 DEF Thread, Acquire, Refuse, Ask, ExecAccessDialog, CreateDialog, SendAsk,
              LeaveLoop, ReturnChoice, Timeout, GiveUp, Goto, Decide, TypeOK
<1>3. Thread(r) \/ UNCHANGED vars
  BY DEF Server, HAcquire, ReadType, ReadName, ReadRole, ReadSignature, ReadSecret,
         Permission, SendResult, Conclude, Thread
<1> QED BY <1>1, <1>2, <1>3

\* So does a step of the dialogue.
LEMMA OneAtATime ==
  ASSUME Dialogue, NEW r \in Requests,
         HBegin(r) \/ Server(r) \/ ClientThread(r) \/ Disconnect(r)
  PROVE  Others(r) /\ UNCHANGED peerVars
<1> USE DEF DialogueTypeOK, Dialogue
<1>1. CASE HBegin(r)
  BY <1>1 DEF HBegin, BeginWith, Goto, TypeOK, dialogueVars, streamVars, peerVars, Others
<1>2. CASE Server(r)
  <2>1. \A q \in Requests \ {r} : pc'[q] = pc[q] /\ exempt'[q] = exempt[q]
    BY <1>2, ThreadsKeepApart
  <2>2. CASE HAcquire(r)
    BY <2>1, <2>2 DEF HAcquire, Tell, ServerAt, Others
  <2>3. CASE ReadType(r)
    BY <2>1, <2>3 DEF ReadType, ServerReads, ServerAt, Others
  <2>4. CASE ReadName(r)
    BY <2>1, <2>4 DEF ReadName, ServerReads, Conclude, Tell, ServerAt, Others
  <2>5. CASE ReadRole(r)
    BY <2>1, <2>5 DEF ReadRole, ServerReads, ServerAt, Others
  <2>6. CASE ReadSignature(r) \/ ReadSecret(r)
    BY <2>1, <2>6 DEF ReadSignature, ReadSecret, ServerReads, Conclude, ServerAt, Others
  <2>7. CASE Permission(r)
    BY <2>1, <2>7 DEF Permission, dialogueVars, streamVars, peerVars, Others
  <2>8. CASE SendResult(r)
    BY <2>1, <2>8 DEF SendResult, Tell, ServerAt, Others
  <2> QED BY <1>2, <2>2, <2>3, <2>4, <2>5, <2>6, <2>7, <2>8 DEF Server
<1>3. CASE ClientThread(r) \/ Disconnect(r)
  <2>1. UNCHANGED <<vars, peerVars, stage, heard>>
    BY <1>3 DEF ClientThread, ReadList, SendName, ReadChallenge, Sign, ReadResult, Disconnect
  <2>2. \A q \in Requests \ {r} : /\ cpc'[q] = cpc[q] /\ up'[q] = up[q]
                                  /\ down'[q] = down[q] /\ spoilt'[q] = spoilt[q]
    BY <1>3 DEF ClientThread, ReadList, SendName, ReadChallenge, Sign, ReadResult,
                Disconnect, ClientReads, Write, ClientAt
  <2> QED BY <2>1, <2>2 DEF Others, vars
<1> QED BY <1>1, <1>2, <1>3

-----------------------------------------------------------------------------
(* What holds of every request, spoilt or not.                                *)

\* The decision is made where the dialogue has come to.
PhaseOf(r) == Phase(pc[r], stage[r])
ResultOf(r) ==
  /\ \A i \in 1..Len(down[r]) : down[r][i] = Msg("result", "ok") => pc[r] = "granted"
  /\ cpc[r] = "accepted" => pc[r] = "granted"
ConsentOf(r) == pc[r] \in Asking => ~exempt[r]

Standing == \A r \in Requests : PhaseOf(r) /\ ResultOf(r) /\ ConsentOf(r)

\* A result that is written, or read.
LEMMA ResultsRead ==
  ASSUME NEW d \in Seq(Item)
  PROVE  /\ \A i \in 1..Len(Rest(d)) : Rest(d)[i] = Msg("result", "ok") =>
              \E j \in 1..Len(d) : d[j] = Msg("result", "ok")
         /\ Accepts(Got(d, "result")) => \E j \in 1..Len(d) : d[j] = Msg("result", "ok")
<1>1. CASE d = <<>>
  BY <1>1 DEF Rest, Got, Accepts, Nothing
<1>2. CASE d # <<>>
  <2>1. \A i \in 1..Len(Rest(d)) : i + 1 \in 1..Len(d) /\ Rest(d)[i] = d[i + 1]
    BY <1>2, RestOf
  <2>2. ASSUME Accepts(Got(d, "result")) PROVE \E j \in 1..Len(d) : d[j] = Msg("result", "ok")
    <3>1. Head(d) \in Item /\ Head(d) = d[1] /\ 1 \in 1..Len(d)
      BY <1>2
    <3>2. Head(d).is = "result" /\ Head(d).value = "ok"
      BY <2>2 DEF Accepts, Got, Nothing
    <3>3. Head(d) = Msg("result", "ok")
      BY <3>1, <3>2 DEF Msg, Item
    <3> QED BY <3>1, <3>3
  <2> QED BY <2>1, <2>2
<1> QED BY <1>1, <1>2

\* A result that is under way was written, or was there before.
LEMMA ResultsWritten ==
  ASSUME NEW d \in Seq(Item), NEW m \in Item
  PROVE  \A i \in 1..Len(Append(d, m)) : Append(d, m)[i] = Msg("result", "ok") =>
           m = Msg("result", "ok") \/ \E j \in 1..Len(d) : d[j] = Msg("result", "ok")
<1>1. ASSUME NEW i \in 1..Len(Append(d, m)), Append(d, m)[i] = Msg("result", "ok")
      PROVE  m = Msg("result", "ok") \/ \E j \in 1..Len(d) : d[j] = Msg("result", "ok")
  <2>1. i \in 1..Len(d) \/ i = Len(d) + 1
    OBVIOUS
  <2>2. CASE i \in 1..Len(d)
    BY <1>1, <2>2
  <2>3. CASE i = Len(d) + 1
    BY <1>1, <2>3
  <2> QED BY <2>1, <2>2, <2>3
<1> QED BY <1>1

\* The thread of the server.
LEMMA StandingServer ==
  ASSUME Peers, Dialogue, Standing, NEW r \in Requests, HBegin(r) \/ Server(r)
  PROVE  PhaseOf(r)' /\ ResultOf(r)' /\ ConsentOf(r)'
<1> USE DEF Asking, Decided, PhaseOf, ConsentOf, Phase
<1>d. down[r] \in Seq(Item)
  BY DEF Dialogue, DialogueTypeOK
<1>0. PhaseOf(r) /\ ResultOf(r) /\ ConsentOf(r)
  BY DEF Standing
<1> USE DEF Dialogue, DialogueTypeOK, TypeOK, Goto, Decide, ServerAt
<1>k. ASSUME UNCHANGED <<down, cpc>>, pc[r] # "granted" PROVE ResultOf(r)'
  BY <1>k, <1>0 DEF ResultOf
<1>1. CASE HBegin(r)
  <2>1. pc[r] = "idle" /\ pc'[r] = "lock" /\ UNCHANGED <<stage, down, cpc>>
    BY <1>1, ChosenIsOffered DEF HBegin, BeginWith, dialogueVars, streamVars
  <2> QED BY <2>1, <1>0, <1>k
<1>2. CASE HAcquire(r)
  <2>1. /\ pc[r] = "lock" /\ pc'[r] = "ask" /\ stage'[r] = "type" /\ UNCHANGED cpc
        /\ down'[r] = Append(down[r], Msg("list", "some"))
    BY <1>2 DEF HAcquire, Acquire, Tell
  <2>2. Msg("list", "some") # Msg("result", "ok") /\ Msg("list", "some") \in Item
    BY ItemTypes DEF Msg
  <2>3. ResultOf(r)'
    BY <2>1, <2>2, <1>0, <1>d, ResultsWritten DEF ResultOf
  <2> QED BY <2>1, <2>3
<1>c. ASSUME NEW b, Conclude(r, b), pc[r] = "ask"
      PROVE  /\ pc'[r] \in {"denied", "granted", "reset"} /\ stage'[r] = "verdict"
             /\ pc'[r] = "reset" => ~exempt'[r]
  BY <1>c DEF Conclude, Ask, Refuse
<1>r. ASSUME NEW kind, NEW v, ServerReads(r, kind, v), UNCHANGED down, pc[r] = "ask"
      PROVE  ResultOf(r)'
  BY <1>r, <1>k DEF ServerReads
<1>3. CASE ReadType(r)
  <2>1. /\ pc[r] = "ask"
        /\ \/ pc'[r] = "ask" /\ stage'[r] = "name"
           \/ pc'[r] = "denied" /\ stage'[r] = "verdict"
    BY <1>3 DEF ReadType, Refuse, vars
  <2>2. ResultOf(r)'
    BY <1>3, <1>r DEF ReadType
  <2> QED BY <2>1, <2>2
<1>4. CASE ReadName(r)
  <2>1. pc[r] = "ask" /\ UNCHANGED cpc
    BY <1>4 DEF ReadName, ServerReads
  <2>2. CASE /\ heard[r].type = "HostBased" /\ Conclude(r, client[r].listed)
             /\ UNCHANGED down
    BY <2>1, <2>2, <1>c, <1>k
  <2>3. CASE /\ heard[r].type = "DSA" /\ Tell(r, Msg("challenge", "some"))
             /\ ServerAt(r, "role") /\ UNCHANGED <<vars, heard>>
    <3>1. /\ pc'[r] = "ask" /\ stage'[r] = "role"
          /\ down'[r] = Append(down[r], Msg("challenge", "some"))
      BY <2>1, <2>3 DEF vars, Tell
    <3>2. Msg("challenge", "some") # Msg("result", "ok") /\ Msg("challenge", "some") \in Item
      BY ItemTypes DEF Msg
    <3>3. ResultOf(r)'
      BY <2>1, <3>1, <3>2, <1>0, <1>d, ResultsWritten DEF ResultOf
    <3> QED BY <3>1, <3>3
  <2>4. CASE /\ heard[r].type = "CommonSecret" /\ ServerAt(r, "secret")
             /\ UNCHANGED <<vars, heard, down>>
    <3>1. pc'[r] = "ask" /\ stage'[r] = "secret"
      BY <2>1, <2>4 DEF vars
    <3> QED BY <2>1, <2>4, <3>1, <1>k
  <2> QED BY <1>4, <2>2, <2>3, <2>4 DEF ReadName
<1>5. CASE ReadRole(r)
  <2>1. pc[r] = "ask" /\ pc'[r] = "ask" /\ stage'[r] = "signature"
    BY <1>5 DEF ReadRole, vars
  <2>2. ResultOf(r)'
    BY <1>5, <1>r DEF ReadRole
  <2> QED BY <2>1, <2>2
<1>6. CASE ReadSignature(r) \/ ReadSecret(r)
  <2>1. pc[r] = "ask" /\ UNCHANGED down /\ \E b : Conclude(r, b)
    BY <1>6 DEF ReadSignature, ReadSecret
  <2>2. ResultOf(r)'
    BY <1>6, <2>1, <1>r DEF ReadSignature, ReadSecret
  <2> QED BY <2>1, <2>2, <1>c
<1>7. CASE Permission(r)
  <2>1. /\ pc[r] \in Asking /\ pc'[r] \in Asking \cup Decided
        /\ UNCHANGED <<stage, down, cpc, exempt>>
    BY <1>7 DEF Permission, ExecAccessDialog, CreateDialog, SendAsk, LeaveLoop,
                ReturnChoice, Timeout, GiveUp, dialogueVars, streamVars
  <2> QED BY <2>1, <1>0, <1>k
<1>8. CASE SendResult(r)
  <2> DEFINE m == Msg("result", IF pc[r] = "granted" THEN "ok" ELSE "failed")
  <2>1. /\ pc[r] \in Decided /\ UNCHANGED <<pc, cpc, exempt>>
        /\ stage'[r] \in {"serving", "closed"} /\ down'[r] = Append(down[r], m)
    BY <1>8 DEF SendResult, Tell, vars
  <2>2. m \in Item /\ (m = Msg("result", "ok") => pc[r] = "granted")
    BY ItemTypes DEF Msg
  <2> HIDE DEF m
  <2>3. ResultOf(r)'
    BY <2>1, <2>2, <1>0, <1>d, ResultsWritten DEF ResultOf
  <2> QED BY <2>1, <2>3
<1> QED BY <1>1, <1>2, <1>3, <1>4, <1>5, <1>6, <1>7, <1>8 DEF Server

\* The thread of the client.
LEMMA StandingClient ==
  ASSUME Dialogue, Standing, NEW r \in Requests, ClientThread(r) \/ Disconnect(r)
  PROVE  PhaseOf(r)' /\ ResultOf(r)' /\ ConsentOf(r)'
<1>1. UNCHANGED <<pc, exempt, stage>>
  BY DEF ClientThread, ReadList, SendName, ReadChallenge, Sign, ReadResult, Disconnect, vars
<1>2. PhaseOf(r) /\ ResultOf(r) /\ ConsentOf(r)
  BY DEF Standing
<1>3. down[r] \in Seq(Item) /\ <<>> \in Seq(Item)
  BY DEF Dialogue, DialogueTypeOK
<1>4. \/ down'[r] = down[r] \/ down'[r] = Rest(down[r]) \/ down'[r] = <<>>
  BY DEF Dialogue, DialogueTypeOK, ClientThread, ReadList, SendName, ReadChallenge,
         Sign, ReadResult, Disconnect, ClientReads
<1>5. \A i \in 1..Len(down'[r]) : down'[r][i] = Msg("result", "ok") => pc[r] = "granted"
  <2>1. CASE down'[r] = down[r]
    BY <1>2, <2>1 DEF ResultOf
  <2>2. CASE down'[r] = Rest(down[r])
    BY <1>2, <1>3, <2>2, ResultsRead DEF ResultOf
  <2>3. CASE down'[r] = <<>>
    BY <2>3
  <2> QED BY <1>4, <2>1, <2>2, <2>3
<1>6. cpc'[r] = "accepted" => pc[r] = "granted"
  <2>1. CASE ReadResult(r)
    <3>1. cpc'[r] = "accepted" => Accepts(Got(down[r], "result"))
      BY <2>1 DEF ReadResult, ClientAt, Dialogue, DialogueTypeOK
    <3> QED BY <1>2, <1>3, <3>1, ResultsRead DEF ResultOf
  <2>2. CASE ~ReadResult(r)
    <3>1. cpc'[r] # "accepted"
      BY <2>2 DEF ClientThread, ReadList, SendName, ReadChallenge, Sign, Disconnect,
                  ClientAt, Dialogue, DialogueTypeOK
    <3> QED BY <3>1
  <2> QED BY <2>1, <2>2
<1> QED BY <1>1, <1>2, <1>5, <1>6 DEF PhaseOf, ResultOf, ConsentOf

\* Every step keeps what holds of every request.
LEMMA StandingStep == Peers /\ Dialogue /\ Standing /\ [HNext]_hVars => Standing'
<1> SUFFICES ASSUME Peers, Dialogue, Standing, [HNext]_hVars PROVE Standing'
  OBVIOUS
<1>1. ASSUME NEW r \in Requests, HBegin(r) \/ Server(r) \/ ClientThread(r) \/ Disconnect(r)
      PROVE  Standing'
  <2>1. PhaseOf(r)' /\ ResultOf(r)' /\ ConsentOf(r)'
    BY <1>1, StandingServer, StandingClient
  <2>2. ASSUME NEW q \in Requests \ {r} PROVE PhaseOf(q)' /\ ResultOf(q)' /\ ConsentOf(q)'
    <3>1. Others(r)
      BY <1>1, OneAtATime
    <3> QED BY <3>1 DEF Others, Standing, PhaseOf, ResultOf, ConsentOf
  <2> QED BY <2>1, <2>2 DEF Standing
<1>2. CASE (Dialog /\ UNCHANGED dialogueVars) \/ UNCHANGED hVars
  <2>1. UNCHANGED <<pc, exempt, stage, down, cpc>>
    BY <1>2 DEF Dialog, ReportChoice, UserAnswers, DialogDies, LogOnOrOff, dialogueVars,
                streamVars, hVars, vars
  <2> QED BY <2>1 DEF Standing, PhaseOf, ResultOf, ConsentOf
<1> QED BY <1>1, <1>2 DEF HNext

-----------------------------------------------------------------------------
(* What holds of a request of which no item was late.                         *)

\* Equal counts, equal streams.
LEMMA UpKeep ==
  ASSUME NEW t, NEW c, NEW s, NEW s2, NEW l, NEW l2, NEW u,
         UpHolds(t, c, s, l, u), Taken(t, c, s2) = Taken(t, c, s),
         Written(t, c, l2) = Written(t, c, l)
  PROVE  UpHolds(t, c, s2, l2, u)
BY DEF UpHolds

LEMMA DownKeep ==
  ASSUME NEW t, NEW c, NEW p, NEW s, NEW l, NEW l2, NEW d,
         DownHolds(t, c, p, s, l, d), Received(t, c, l2) = Received(t, c, l)
  PROVE  DownHolds(t, c, p, s, l2, d)
BY DEF DownHolds

\* The two sides of r, in the state or in the next one.
Agreed(t, c, convinces, p, s, l, u, d, h, e) ==
  /\ Place(t, c, l)
  /\ UpHolds(t, c, s, l, u)
  /\ DownHolds(t, c, p, s, l, d)
  /\ Heard(t, c, s, h)
  /\ p = "denied" => ~convinces \/ ~e
  /\ l = "accepted" => t # "DSA" \/ Keyed(t, c)
  /\ l = "refused" => ~convinces \/ p = "denied"

AgreedOn(r) == Agreed(Chosen(client[r]), client[r], Convinces(client[r]), pc[r], stage[r],
                      cpc[r], up[r], down[r], heard[r], exempt[r])

Understood == \A r \in Requests : ~spoilt[r] => AgreedOn(r)

\* The next state of AgreedOn, with the peers as they are.
LEMMA AgreedNext ==
  ASSUME UNCHANGED peerVars, NEW r \in Requests
  PROVE  AgreedOn(r)' <=> Agreed(Chosen(client[r]), client[r], Convinces(client[r]), pc'[r],
                                 stage'[r], cpc'[r], up'[r], down'[r], heard'[r], exempt'[r])
<1>1. client' = client /\ hasSecret' = hasSecret
  BY DEF peerVars
<1>2. Chosen(client[r])' = Chosen(client[r])
  BY <1>1 DEF Chosen, Offered
<1>3. Convinces(client[r])' = Convinces(client[r])
  BY <1>1, <1>2 DEF Convinces
<1> QED BY <1>1, <1>2, <1>3 DEF AgreedOn

\* Types of one request, and what its stage says of the type agreed on.
LEMMA LocalTypes ==
  ASSUME Peers, Dialogue, NEW r \in Requests
  PROVE  /\ client[r] \in Client /\ Chosen(client[r]) \in ItalcMethods
         /\ up[r] \in Seq(Item) /\ down[r] \in Seq(Item)
         /\ cpc[r] \in Writing \cup {"result"} \cup Finished
         /\ stage[r] \in {"role", "signature"} => Chosen(client[r]) = "DSA"
         /\ stage[r] = "secret" => Chosen(client[r]) = "CommonSecret"
<1>1. client[r] \in Client /\ Chosen(client[r]) \in ItalcMethods
  BY ClientsAssumption, ChosenIsOffered DEF Peers
<1>2. /\ up[r] \in Seq(Item) /\ down[r] \in Seq(Item)
      /\ cpc[r] \in Writing \cup {"result"} \cup Finished
  BY DEF Dialogue, DialogueTypeOK
<1>3. heard[r].type \in {Nothing, Chosen(client[r])}
  BY DEF Dialogue, InStep, HeardFrom
<1>4. /\ stage[r] \in {"role", "signature"} => Chosen(client[r]) = "DSA"
      /\ stage[r] = "secret" => Chosen(client[r]) = "CommonSecret"
  BY <1>3 DEF Dialogue, InStep, Nothing
<1> QED BY <1>1, <1>2, <1>4

\* What the server finds where it expects the next item of the script.
LEMMA ServerFinds ==
  ASSUME Peers, Dialogue, Understood, NEW r \in Requests, NEW kind, NEW v, NEW s2, NEW n \in Nat,
         ServerReads(r, kind, v), ~spoilt'[r],
         Taken(Chosen(client[r]), client[r], stage[r]) + 1 = n,
         Taken(Chosen(client[r]), client[r], s2) = n,
         n <= ScriptLength(Chosen(client[r]), client[r])
  PROVE  /\ UpHolds(Chosen(client[r]), client[r], s2, cpc[r], up'[r])
         /\ Script(Chosen(client[r]), client[r], n).is = kind
              => v = Script(Chosen(client[r]), client[r], n).value
<1> DEFINE t == Chosen(client[r])  c == client[r]
<1>1. up[r] \in Seq(Item) /\ cpc[r] \in Writing \cup {"result"} \cup Finished
  BY LocalTypes
<1>2. /\ ~spoilt[r] /\ (up[r] # <<>> \/ cpc[r] \notin Writing)
      /\ up'[r] = Rest(up[r]) /\ v = Got(up[r], kind)
  BY DEF ServerReads, Dialogue, DialogueTypeOK
<1>3. UpHolds(t, c, stage[r], cpc[r], up[r])
  BY <1>2 DEF Understood, AgreedOn, Agreed
<1> HIDE DEF t, c
<1>4. up[r] # <<>>
  <2> SUFFICES ASSUME up[r] = <<>> PROVE FALSE
    OBVIOUS
  <2>1. Written(t, c, cpc[r]) = ScriptLength(t, c)
    BY <1>1, <1>2 DEF Written, Writing, Finished
  <2>2. Taken(t, c, stage[r]) = ScriptLength(t, c)
    BY <1>3, <2>1, Counts DEF UpHolds
  <2> DEFINE k == Taken(t, c, stage[r])  w == ScriptLength(t, c)
  <2>3. k \in Nat /\ k = w
    BY <2>2, Counts
  <2>4. k + 1 = n /\ n <= w
    BY DEF t, c
  <2> HIDE DEF k, w
  <2> QED BY <2>3, <2>4
<1>n. Taken(t, c, stage[r]) + 1 = n
  BY DEF t, c
<1>5. Taken(t, c, s2) = Taken(t, c, stage[r]) + 1
  BY DEF t, c
<1> DEFINE s == stage[r]  l == cpc[r]  u == up[r]
<1>6. UpHolds(t, c, s2, l, Rest(u)) /\ Head(u) = Script(t, c, Taken(t, c, s) + 1)
  <2>1. /\ u \in Seq(Item) /\ u # <<>> /\ UpHolds(t, c, s, l, u)
        /\ Taken(t, c, s2) = Taken(t, c, s) + 1
    BY <1>1, <1>3, <1>4, <1>5
  <2> HIDE DEF s, l, u
  <2> QED BY <2>1, UpRead
<1>7. Head(up[r]) = Script(t, c, n)
  BY <1>n, <1>6
<1> QED BY <1>2, <1>4, <1>6, <1>7 DEF Got, t, c

\* What the client finds.
LEMMA ClientFinds ==
  ASSUME Peers, Dialogue, Understood, NEW r \in Requests, NEW l2,
         ClientReads(r), ~spoilt[r], cpc[r] \notin Finished,
         Received(Chosen(client[r]), client[r], l2)
           = Received(Chosen(client[r]), client[r], cpc[r]) + 1
  PROVE  /\ DownHolds(Chosen(client[r]), client[r], pc[r], stage[r], l2, down'[r])
         /\ down[r] # <<>>
         /\ Head(down[r]) = Reply(Chosen(client[r]), pc[r],
                                  Received(Chosen(client[r]), client[r], l2))
         /\ Received(Chosen(client[r]), client[r], cpc[r]) < Sent(Chosen(client[r]), stage[r])
<1> DEFINE t == Chosen(client[r])  c == client[r]
<1>1. down[r] \in Seq(Item) /\ cpc[r] \in Writing \cup {"result"} \cup Finished
  BY LocalTypes
<1>2. (down[r] # <<>> \/ stage[r] = "closed") /\ down'[r] = Rest(down[r])
  BY DEF ClientReads, Dialogue, DialogueTypeOK
<1>3. DownHolds(t, c, pc[r], stage[r], cpc[r], down[r]) /\ Place(t, c, cpc[r])
  BY DEF Understood, AgreedOn, Agreed
<1>4. Received(t, c, l2) = Received(t, c, cpc[r]) + 1
  OBVIOUS
<1> HIDE DEF t, c
<1> DEFINE n == Received(t, c, cpc[r])  k == Sent(t, stage[r])
<1>c. n \in Nat /\ k \in Nat
  BY Counts
<1>e. Len(down[r]) + n = k
  BY <1>3 DEF DownHolds
<1>l. Len(down[r]) \in Nat
  BY <1>1
<1>5. n \in Nat /\ k \in Nat /\ Len(down[r]) \in Nat /\ Len(down[r]) + n = k
  BY <1>c, <1>e, <1>l
<1>6. stage[r] = "closed" => n < k
  <2> SUFFICES ASSUME stage[r] = "closed" PROVE n < k
    OBVIOUS
  <2>1. k = IF t = "DSA" THEN 3 ELSE 2
    BY DEF Sent
  <2>2. n <= IF t = "DSA" THEN 2 ELSE 1
    BY <1>1, <1>3 DEF Received, Place, Keyed, Writing
  <2> QED BY <1>5, <2>1, <2>2
<1> HIDE DEF n, k
<1>7. down[r] # <<>> /\ n < k
  <2>1. down[r] = <<>> => n = k
    BY <1>5
  <2>2. down[r] # <<>> => n < k
    BY <1>1, <1>5
  <2> QED BY <1>2, <1>6, <2>1, <2>2, <1>5
<1> DEFINE p == pc[r]  s == stage[r]  l == cpc[r]  d == down[r]
<1>8. DownHolds(t, c, p, s, l2, Rest(d)) /\ Head(d) = Reply(t, p, Received(t, c, l) + 1)
  <2>1. /\ d \in Seq(Item) /\ d # <<>> /\ DownHolds(t, c, p, s, l, d)
        /\ Received(t, c, l2) = Received(t, c, l) + 1
    BY <1>1, <1>3, <1>4, <1>7
  <2> HIDE DEF p, s, l, d
  <2> QED BY <2>1, DownRead
<1> QED BY <1>2, <1>4, <1>7, <1>8 DEF t, c, n, k

\* A step that reads on: what is left to show when the stream from the client holds.
LEMMA Reading ==
  ASSUME Peers, Dialogue, Understood, NEW r \in Requests, NEW kind, NEW v,
         ServerReads(r, kind, v), ~spoilt'[r], pc[r] = "ask",
         UpHolds(Chosen(client[r]), client[r], stage'[r], cpc[r], up'[r]),
         DownHolds(Chosen(client[r]), client[r], pc'[r], stage'[r], cpc[r], down'[r]),
         Heard(Chosen(client[r]), client[r], stage'[r], heard'[r]),
         pc'[r] = "denied" => ~Convinces(client[r]) \/ ~exempt'[r]
  PROVE  AgreedOn(r)'
<1>1. /\ ~spoilt[r] /\ UNCHANGED cpc /\ UNCHANGED peerVars
  BY DEF ServerReads, Dialogue, DialogueTypeOK
<1>2. AgreedOn(r)
  BY <1>1 DEF Understood
<1>3. cpc[r] = "refused" => ~Convinces(client[r])
  BY <1>2 DEF AgreedOn, Agreed
<1>4. /\ Place(Chosen(client[r]), client[r], cpc[r])
      /\ cpc[r] = "accepted" => Chosen(client[r]) # "DSA" \/ Keyed(Chosen(client[r]), client[r])
  BY <1>2 DEF AgreedOn, Agreed
<1> QED BY <1>1, <1>3, <1>4, AgreedNext DEF Agreed

\* AgreedOn, unfolded.
LEMMA WhatIsAgreed ==
  ASSUME Dialogue, Understood, NEW r \in Requests, ~spoilt[r]
  PROVE  /\ DownHolds(Chosen(client[r]), client[r], pc[r], stage[r], cpc[r], down[r])
         /\ UpHolds(Chosen(client[r]), client[r], stage[r], cpc[r], up[r])
         /\ Heard(Chosen(client[r]), client[r], stage[r], heard[r])
         /\ Place(Chosen(client[r]), client[r], cpc[r])
         /\ pc[r] = "denied" => ~Convinces(client[r]) \/ ~exempt[r]
         /\ cpc[r] = "accepted" =>
              Chosen(client[r]) # "DSA" \/ Keyed(Chosen(client[r]), client[r])
         /\ cpc[r] = "refused" => ~Convinces(client[r]) \/ pc[r] = "denied"
BY DEF Understood, AgreedOn, Agreed

\* A verdict is not sent yet, and is a refusal only for want of credentials.
LEMMA Concluded ==
  ASSUME Dialogue, NEW r \in Requests, NEW b, Conclude(r, b)
  PROVE  /\ stage'[r] = "verdict" /\ heard' = heard
         /\ pc'[r] = "denied" => ~b
         /\ exempt' = exempt
BY DEF Conclude, Ask, Refuse, Goto, Decide, ServerAt, Dialogue, DialogueTypeOK, TypeOK

\* The type: the server reads the first item of the script.
LEMMA AgreedType ==
  ASSUME Peers, Dialogue, Standing, Understood, NEW r \in Requests, ReadType(r), ~spoilt'[r]
  PROVE  AgreedOn(r)'
<1> DEFINE t == Chosen(client[r])  c == client[r]
<1>1. PICK v \in Values :
         /\ ServerReads(r, "type", v)
         /\ IF ServesType(v)
            THEN /\ heard' = [heard EXCEPT ![r].type = v]
                 /\ ServerAt(r, "name") /\ UNCHANGED vars
            ELSE Refuse(r) /\ ServerAt(r, "verdict") /\ UNCHANGED heard
  BY DEF ReadType
<1>s. ServerReads(r, "type", v)
  BY <1>1
<1>2. pc[r] = "ask" /\ stage[r] = "type" /\ UNCHANGED down /\ ~spoilt[r] /\ down[r] \in Seq(Item)
  BY <1>1 DEF ReadType, ServerReads, Dialogue, DialogueTypeOK
<1>3. Taken(t, c, "type") = 0 /\ Taken(t, c, "name") = 1 /\ 0 < ScriptLength(t, c)
      /\ Sent(t, "type") = 1 /\ Sent(t, "name") = 1 /\ Script(t, c, 1) = Msg("type", t)
  BY DEF Taken, ScriptLength, Sent, Script
<1>4. UpHolds(t, c, "name", cpc[r], up'[r]) /\ v = t
  <2>1. Taken(t, c, "name") = 1 /\ Taken(t, c, stage[r]) + 1 = 1 /\ 1 <= ScriptLength(t, c)
    BY <1>2, <1>3, Counts
  <2>2. /\ UpHolds(t, c, "name", cpc[r], up'[r])
        /\ Script(t, c, 1).is = "type" => v = Script(t, c, 1).value
    BY <1>s, <2>1, ServerFinds
  <2> QED BY <1>3, <2>2 DEF Msg
<1>5. ServesType(v)
  BY <1>4, ChosenIsOffered DEF ServesType
<1>6. stage'[r] = "name" /\ UNCHANGED <<pc, exempt>> /\ heard'[r].type = t
  BY <1>1, <1>4, <1>5 DEF ServerAt, vars, Dialogue, DialogueTypeOK
<1>7. DownHolds(t, c, pc'[r], stage'[r], cpc[r], down'[r])
  <2>1. DownHolds(t, c, pc[r], stage[r], cpc[r], down[r])
    BY <1>2, WhatIsAgreed
  <2>2. Sent(t, "name") = Sent(t, stage[r]) /\ stage[r] \notin {"closed", "serving"}
    BY <1>2, <1>3
  <2> QED BY <1>2, <1>6, <2>1, <2>2, DownOpen
<1>8. Heard(t, c, stage'[r], heard'[r])
  BY <1>6 DEF Heard
<1> QED BY <1>1, <1>2, <1>4, <1>6, <1>7, <1>8, Reading

\* The name: it tells the three types apart.
LEMMA AgreedName ==
  ASSUME Peers, Dialogue, Standing, Understood, NEW r \in Requests, ReadName(r), ~spoilt'[r]
  PROVE  AgreedOn(r)'
<1> DEFINE t == Chosen(client[r])  c == client[r]
<1>1. PICK v \in Values : ServerReads(r, "name", v)
  BY DEF ReadName
<1>2. pc[r] = "ask" /\ stage[r] = "name" /\ ~spoilt[r] /\ down[r] \in Seq(Item)
  BY <1>1 DEF ReadName, ServerReads, Dialogue, DialogueTypeOK
<1>3. heard[r].type = t /\ DownHolds(t, c, pc[r], stage[r], cpc[r], down[r])
  BY <1>2, WhatIsAgreed DEF Heard
<1>4. /\ Taken(t, c, "name") = 1 /\ 1 < ScriptLength(t, c) /\ Sent(t, "name") = 1
      /\ Taken(t, c, "role") = 2 /\ Taken(t, c, "secret") = 2
  BY DEF Taken, ScriptLength, Sent
<1>5. ASSUME NEW s2, Taken(t, c, s2) = 2 PROVE UpHolds(t, c, s2, cpc[r], up'[r])
  <2>1. Taken(t, c, s2) = 2 /\ Taken(t, c, stage[r]) + 1 = 2 /\ 2 <= ScriptLength(t, c)
    BY <1>2, <1>4, <1>5, Counts
  <2> QED BY <1>1, <2>1, ServerFinds
<1>6. ASSUME NEW s2, NEW p2, Sent(t, s2) = 1 PROVE DownHolds(t, c, p2, s2, cpc[r], down[r])
  <2>1. Sent(t, s2) = Sent(t, stage[r]) /\ stage[r] \notin {"closed", "serving"}
    BY <1>2, <1>4, <1>6
  <2> QED BY <1>2, <1>3, <2>1, DownOpen
<1>7. CASE /\ heard[r].type = "HostBased" /\ Conclude(r, client[r].listed) /\ UNCHANGED down
  <2>1. /\ stage'[r] = "verdict" /\ pc'[r] = "denied" => ~c.listed
    BY <1>7, Concluded
  <2>2. stage'[r] = "verdict"
    BY <1>7, Concluded
  <2>3. Taken(t, c, "verdict") = 2 /\ Sent(t, "verdict") = 1 /\ t = "HostBased"
    BY <1>3, <1>7 DEF Taken, ScriptLength, Keyed, Sent
  <2>4. pc'[r] = "denied" => ~Convinces(c)
    BY <2>1, <2>2, <2>3 DEF Convinces
  <2>5. Heard(t, c, stage'[r], heard'[r])
    BY <2>2 DEF Heard
  <2> QED BY <1>1, <1>2, <1>5, <1>6, <1>7, <2>2, <2>3, <2>4, <2>5, Reading
<1>8. CASE /\ heard[r].type = "DSA" /\ Tell(r, Msg("challenge", "some"))
           /\ ServerAt(r, "role") /\ UNCHANGED <<vars, heard>>
  <2>1. /\ stage'[r] = "role" /\ UNCHANGED <<pc, exempt>>
        /\ down'[r] = Append(down[r], Msg("challenge", "some"))
    BY <1>8 DEF ServerAt, Tell, vars, Dialogue, DialogueTypeOK
  <2>2. t = "DSA" /\ Sent(t, "role") = 2 /\ Reply(t, pc[r], 2) = Msg("challenge", "some")
    BY <1>3, <1>8 DEF Sent, Reply
  <2>3. Msg("challenge", "some") \in Item
    BY ItemTypes
  <2>4. DownHolds(t, c, pc[r], "role", cpc[r], down'[r])
    <3>1. Sent(t, "role") = Sent(t, stage[r]) + 1
      BY <1>2, <1>4, <2>2
    <3>2. Msg("challenge", "some") = Reply(t, pc[r], Sent(t, "role"))
      BY <2>2
    <3> QED BY <1>2, <1>3, <2>1, <2>3, <3>1, <3>2, DownWrite
  <2>5. Heard(t, c, stage'[r], heard'[r])
    BY <2>1 DEF Heard
  <2> QED BY <1>1, <1>2, <1>4, <1>5, <2>1, <2>4, <2>5, Reading
<1>9. CASE /\ heard[r].type = "CommonSecret" /\ ServerAt(r, "secret")
           /\ UNCHANGED <<vars, heard, down>>
  <2>1. stage'[r] = "secret" /\ UNCHANGED <<pc, exempt, down>>
    BY <1>9 DEF ServerAt, vars, Dialogue, DialogueTypeOK
  <2>2. Sent(t, "secret") = 1
    BY <1>3, <1>9 DEF Sent
  <2>3. Heard(t, c, stage'[r], heard'[r])
    BY <2>1 DEF Heard
  <2> QED BY <1>1, <1>2, <1>4, <1>5, <1>6, <2>1, <2>2, <2>3, Reading
<1> QED BY <1>7, <1>8, <1>9 DEF ReadName

\* The role: a client without a key does not send it, and is past writing.
LEMMA AgreedRole ==
  ASSUME Peers, Dialogue, Standing, Understood, NEW r \in Requests, ReadRole(r), ~spoilt'[r]
  PROVE  AgreedOn(r)'
<1> DEFINE t == Chosen(client[r])  c == client[r]
<1>1. PICK v \in Values :
         /\ ServerReads(r, "role", v)
         /\ heard' = [heard EXCEPT ![r].role = IF v = "some" THEN v ELSE Nothing]
  BY DEF ReadRole
<1>s. ServerReads(r, "role", v)
  BY <1>1
<1>2. /\ pc[r] = "ask" /\ stage[r] = "role" /\ ~spoilt[r] /\ down[r] \in Seq(Item)
      /\ stage'[r] = "signature" /\ UNCHANGED <<pc, exempt, down>>
      /\ heard'[r].role = IF v = "some" THEN v ELSE Nothing
  BY <1>1 DEF ReadRole, ServerReads, ServerAt, vars, Dialogue, DialogueTypeOK
<1>3. t = "DSA" /\ up[r] \in Seq(Item) /\ cpc[r] \in Writing \cup {"result"} \cup Finished
  BY <1>2, LocalTypes
<1>4. /\ UpHolds(t, c, stage[r], cpc[r], up[r]) /\ Place(t, c, cpc[r])
      /\ DownHolds(t, c, pc[r], stage[r], cpc[r], down[r])
  BY <1>2, WhatIsAgreed
<1>5. /\ UpHolds(t, c, "signature", cpc[r], up'[r])
      /\ Keyed(t, c) => heard'[r].role = "some"
  <2>1. CASE Keyed(t, c)
    <3>1. /\ Taken(t, c, "role") = 2 /\ Taken(t, c, "signature") = 3 /\ ScriptLength(t, c) = 4
          /\ Script(t, c, 3) = Msg("role", "some")
      BY <1>3, <2>1 DEF Taken, ScriptLength, Script
    <3>2. /\ Taken(t, c, "signature") = 3 /\ Taken(t, c, stage[r]) + 1 = 3
          /\ 3 <= ScriptLength(t, c)
      BY <1>2, <3>1
    <3>3. /\ UpHolds(t, c, "signature", cpc[r], up'[r])
          /\ Script(t, c, 3).is = "role" => v = Script(t, c, 3).value
      BY <1>s, <3>2, ServerFinds
    <3> QED BY <1>2, <3>1, <3>2, <3>3 DEF Msg
  <2>2. CASE ~Keyed(t, c)
    <3>1. /\ Taken(t, c, "role") = 2 /\ Taken(t, c, "signature") = 2
      BY <2>2 DEF Taken
    <3>2. Written(t, c, cpc[r]) <= 2
      BY <1>3, <1>4, <2>2 DEF Written, ScriptLength, Place
    <3>3. up[r] = <<>>
      BY <1>2, <1>3, <1>4, <3>1, <3>2 DEF UpHolds
    <3>4. up'[r] = Rest(up[r])
      BY <1>1 DEF ServerReads, Dialogue, DialogueTypeOK
    <3>5. UpHolds(t, c, "signature", cpc[r], Rest(up[r]))
      BY <1>2, <1>4, <3>1, <3>3, UpDry
    <3> QED BY <2>2, <3>4, <3>5
  <2> QED BY <2>1, <2>2
<1>6. DownHolds(t, c, pc[r], "signature", cpc[r], down[r])
  <2>1. Sent(t, "signature") = Sent(t, stage[r]) /\ stage[r] \notin {"closed", "serving"}
    BY <1>2 DEF Sent
  <2> QED BY <1>2, <1>4, <2>1, DownOpen
<1>7. Heard(t, c, "signature", heard'[r])
  BY <1>5 DEF Heard
<1> QED BY <1>1, <1>2, <1>5, <1>6, <1>7, Reading

\* The signature, or nothing.
LEMMA AgreedSignature ==
  ASSUME Peers, Dialogue, Standing, Understood, NEW r \in Requests, ReadSignature(r), ~spoilt'[r]
  PROVE  AgreedOn(r)'
<1> DEFINE t == Chosen(client[r])  c == client[r]
<1>1. PICK v \in Values : ServerReads(r, "signature", v) /\ Conclude(r, Verified(r, v))
  BY DEF ReadSignature
<1>s. ServerReads(r, "signature", v)
  BY <1>1
<1>2. /\ pc[r] = "ask" /\ stage[r] = "signature" /\ ~spoilt[r] /\ down[r] \in Seq(Item)
      /\ UNCHANGED down
  BY <1>1 DEF ReadSignature, ServerReads, Dialogue, DialogueTypeOK
<1>3. t = "DSA" /\ up[r] \in Seq(Item) /\ cpc[r] \in Writing \cup {"result"} \cup Finished
  BY <1>2, LocalTypes
<1>4. /\ UpHolds(t, c, stage[r], cpc[r], up[r]) /\ Place(t, c, cpc[r])
      /\ DownHolds(t, c, pc[r], stage[r], cpc[r], down[r])
      /\ Heard(t, c, stage[r], heard[r])
  BY <1>2, WhatIsAgreed
<1>5. /\ UpHolds(t, c, "verdict", cpc[r], up'[r])
      /\ ~Verified(r, v) => ~Convinces(c)
  <2>1. CASE Keyed(t, c)
    <3>1. /\ Taken(t, c, "signature") = 3 /\ Taken(t, c, "verdict") = 4
          /\ ScriptLength(t, c) = 4 /\ Script(t, c, 4) = Msg("signature", c.key)
      BY <1>3, <2>1 DEF Taken, ScriptLength, Script
    <3>2. /\ Taken(t, c, "verdict") = 4 /\ Taken(t, c, stage[r]) + 1 = 4 /\ 4 <= ScriptLength(t, c)
      BY <1>2, <3>1
    <3>3. /\ UpHolds(t, c, "verdict", cpc[r], up'[r])
          /\ Script(t, c, 4).is = "signature" => v = Script(t, c, 4).value
      BY <1>s, <3>2, ServerFinds
    <3>4. v = c.key /\ heard[r].role = "some"
      BY <1>2, <1>4, <2>1, <3>1, <3>2, <3>3 DEF Msg, Heard
    <3> QED BY <1>3, <3>3, <3>4 DEF Verified, Convinces
  <2>2. CASE ~Keyed(t, c)
    <3>1. Taken(t, c, "signature") = 2 /\ Taken(t, c, "verdict") = 2
      BY <1>3, <2>2 DEF Taken, ScriptLength
    <3>2. Written(t, c, cpc[r]) <= 2
      BY <1>3, <1>4, <2>2 DEF Written, ScriptLength, Place
    <3>3. up[r] = <<>>
      BY <1>2, <1>3, <1>4, <3>1, <3>2 DEF UpHolds
    <3>4. up'[r] = Rest(up[r])
      BY <1>1 DEF ServerReads, Dialogue, DialogueTypeOK
    <3>5. UpHolds(t, c, "verdict", cpc[r], Rest(up[r]))
      BY <1>2, <1>4, <3>1, <3>3, UpDry
    <3>6. ~Convinces(c)
      BY <1>3, <2>2 DEF Convinces, Keyed
    <3> QED BY <3>4, <3>5, <3>6
  <2> QED BY <2>1, <2>2
<1>6. stage'[r] = "verdict" /\ (pc'[r] = "denied" => ~Verified(r, v))
  BY <1>1, Concluded
<1>7. DownHolds(t, c, pc'[r], "verdict", cpc[r], down[r])
  <2>1. Sent(t, "verdict") = Sent(t, stage[r]) /\ stage[r] \notin {"closed", "serving"}
    BY <1>2 DEF Sent
  <2> QED BY <1>2, <1>4, <2>1, DownOpen
<1>8. Heard(t, c, stage'[r], heard'[r])
  BY <1>6 DEF Heard
<1> QED BY <1>1, <1>2, <1>5, <1>6, <1>7, <1>8, Reading

\* The secret.
LEMMA AgreedSecret ==
  ASSUME Peers, Dialogue, Standing, Understood, NEW r \in Requests, ReadSecret(r), ~spoilt'[r]
  PROVE  AgreedOn(r)'
<1> DEFINE t == Chosen(client[r])  c == client[r]
<1>1. PICK v \in Values : ServerReads(r, "secret", v) /\ Conclude(r, v = "right")
  BY DEF ReadSecret
<1>s. ServerReads(r, "secret", v)
  BY <1>1
<1>2. /\ pc[r] = "ask" /\ stage[r] = "secret" /\ ~spoilt[r] /\ down[r] \in Seq(Item)
      /\ UNCHANGED down
  BY <1>1 DEF ReadSecret, ServerReads, Dialogue, DialogueTypeOK
<1>3. t = "CommonSecret"
  BY <1>2, LocalTypes
<1>4. DownHolds(t, c, pc[r], stage[r], cpc[r], down[r])
  BY <1>2, WhatIsAgreed
<1>5. UpHolds(t, c, "verdict", cpc[r], up'[r]) /\ v = c.secret
  <2>1. /\ Taken(t, c, "secret") = 2 /\ Taken(t, c, "verdict") = 3
        /\ ScriptLength(t, c) = 3 /\ Script(t, c, 3) = Msg("secret", c.secret)
    BY <1>3 DEF Taken, ScriptLength, Script, Keyed
  <2>2. /\ Taken(t, c, "verdict") = 3 /\ Taken(t, c, stage[r]) + 1 = 3 /\ 3 <= ScriptLength(t, c)
    BY <1>2, <2>1
  <2>3. /\ UpHolds(t, c, "verdict", cpc[r], up'[r])
        /\ Script(t, c, 3).is = "secret" => v = Script(t, c, 3).value
    BY <1>s, <2>2, ServerFinds
  <2> QED BY <2>1, <2>2, <2>3 DEF Msg
<1>6. stage'[r] = "verdict" /\ (pc'[r] = "denied" => v # "right")
  BY <1>1, Concluded
<1>7. DownHolds(t, c, pc'[r], "verdict", cpc[r], down[r])
  <2>1. Sent(t, "verdict") = Sent(t, stage[r]) /\ stage[r] \notin {"closed", "serving"}
    BY <1>2 DEF Sent
  <2> QED BY <1>2, <1>4, <2>1, DownOpen
<1>8. Heard(t, c, stage'[r], heard'[r])
  BY <1>6 DEF Heard
<1>9. pc'[r] = "denied" => ~Convinces(c)
  BY <1>3, <1>5, <1>6 DEF Convinces
<1> QED BY <1>1, <1>2, <1>5, <1>6, <1>7, <1>8, <1>9, Reading

\* The steps of the server that read nothing.
LEMMA AgreedSilently ==
  ASSUME Peers, Dialogue, Standing, Understood, NEW r \in Requests,
         HBegin(r) \/ HAcquire(r) \/ Permission(r) \/ SendResult(r), ~spoilt'[r]
  PROVE  AgreedOn(r)'
<1> DEFINE t == Chosen(client[r])  c == client[r]
<1>1. ~spoilt[r] /\ UNCHANGED <<cpc, up, heard>> /\ UNCHANGED peerVars
  BY DEF HBegin, HAcquire, Permission, SendResult, dialogueVars, streamVars
<1>2. /\ UpHolds(t, c, stage[r], cpc[r], up[r])
      /\ DownHolds(t, c, pc[r], stage[r], cpc[r], down[r])
      /\ Heard(t, c, stage[r], heard[r]) /\ Place(t, c, cpc[r])
      /\ cpc[r] = "accepted" => t # "DSA" \/ Keyed(t, c)
      /\ cpc[r] = "refused" => ~Convinces(c) \/ pc[r] = "denied"
      /\ pc[r] = "denied" => ~Convinces(c) \/ ~exempt[r]
  BY <1>1, WhatIsAgreed
<1>3. PhaseOf(r) /\ ConsentOf(r) /\ down[r] \in Seq(Item)
  BY LocalTypes DEF Standing
<1>4. SUFFICES /\ UpHolds(t, c, stage'[r], cpc[r], up[r])
               /\ DownHolds(t, c, pc'[r], stage'[r], cpc[r], down'[r])
               /\ Heard(t, c, stage'[r], heard[r])
               /\ pc'[r] = "denied" => ~Convinces(c) \/ ~exempt'[r]
               /\ cpc[r] = "refused" => ~Convinces(c) \/ pc'[r] = "denied"
  BY <1>1, <1>2, AgreedNext DEF Agreed
<1> USE DEF Dialogue, DialogueTypeOK, TypeOK
<1>5. CASE HBegin(r)
  <2>1. pc[r] = "idle" /\ pc'[r] = "lock" /\ UNCHANGED <<stage, down>>
    BY <1>5, ChosenIsOffered DEF HBegin, BeginWith, Goto, dialogueVars, streamVars
  <2>2. stage[r] = "none" /\ stage[r] \notin {"closed", "serving"}
    BY <1>3, <2>1 DEF PhaseOf, Phase
  <2>3. DownHolds(t, c, pc'[r], stage[r], cpc[r], down[r])
    BY <1>2, <1>3, <2>2, DownOpen
  <2> QED BY <1>2, <2>1, <2>3
<1>6. CASE HAcquire(r)
  <2>1. /\ pc[r] = "lock" /\ pc'[r] = "ask" /\ stage'[r] = "type"
        /\ down'[r] = Append(down[r], Msg("list", "some"))
    BY <1>6 DEF HAcquire, Acquire, Goto, Tell, ServerAt
  <2>2. stage[r] = "none"
    BY <1>3, <2>1 DEF PhaseOf, Phase
  <2>3. /\ Taken(t, c, "type") = Taken(t, c, "none") /\ Sent(t, "type") = 1
        /\ Sent(t, "none") = 0 /\ Reply(t, "ask", 1) = Msg("list", "some")
    BY DEF Taken, Sent, Reply
  <2>4. UpHolds(t, c, "type", cpc[r], up[r])
    BY <1>2, <2>2, <2>3, UpKeep
  <2>5. DownHolds(t, c, "ask", "none", cpc[r], down[r])
    BY <1>2, <1>3, <2>2, DownOpen
  <2>6. DownHolds(t, c, "ask", "type", cpc[r], down'[r])
    <3>1. Sent(t, "type") = Sent(t, "none") + 1
      BY <2>3
    <3>2. Msg("list", "some") = Reply(t, "ask", Sent(t, "type")) /\ Msg("list", "some") \in Item
      BY <2>3, ItemTypes
    <3> QED BY <1>3, <2>1, <2>5, <3>1, <3>2, DownWrite
  <2>7. Heard(t, c, "type", heard[r])
    BY DEF Heard
  <2> QED BY <1>2, <2>1, <2>4, <2>6, <2>7
<1>7. CASE Permission(r)
  <2>1. pc[r] \in Asking /\ UNCHANGED <<stage, down, exempt>>
    BY <1>7 DEF Permission, ExecAccessDialog, CreateDialog, SendAsk, LeaveLoop,
                ReturnChoice, Timeout, GiveUp, dialogueVars, streamVars, Asking
  <2>2. stage[r] \notin {"closed", "serving"} /\ ~exempt[r] /\ pc[r] # "denied"
    BY <1>3, <2>1 DEF PhaseOf, Phase, ConsentOf, Asking, Decided
  <2>3. DownHolds(t, c, pc'[r], stage[r], cpc[r], down[r])
    BY <1>2, <1>3, <2>2, DownOpen
  <2> QED BY <1>2, <2>1, <2>2, <2>3
<1>8. CASE SendResult(r)
  <2> DEFINE m == Msg("result", IF pc[r] = "granted" THEN "ok" ELSE "failed")
  <2>1. /\ stage[r] = "verdict" /\ stage'[r] \in {"serving", "closed"}
        /\ UNCHANGED <<pc, exempt>> /\ down'[r] = Append(down[r], m)
    BY <1>8 DEF SendResult, Tell, ServerAt, vars
  <2>2. m \in Item
    BY ItemTypes
  <2>3. /\ Taken(t, c, stage'[r]) = Taken(t, c, "verdict")
        /\ Sent(t, "verdict") = IF t = "DSA" THEN 2 ELSE 1
        /\ Sent(t, stage'[r]) = IF t = "DSA" THEN 3 ELSE 2
        /\ \A n \in Nat : n = (IF t = "DSA" THEN 3 ELSE 2) => Reply(t, pc[r], n) = m
    BY <2>1 DEF Taken, Sent, Reply
  <2> HIDE DEF m
  <2>4. UpHolds(t, c, stage'[r], cpc[r], up[r])
    BY <1>2, <2>1, <2>3, UpKeep
  <2>5. Sent(t, stage'[r]) = Sent(t, stage[r]) + 1 /\ m = Reply(t, pc[r], Sent(t, stage'[r]))
    BY <2>1, <2>3, Counts
  <2>6. DownHolds(t, c, pc[r], stage'[r], cpc[r], down'[r])
    BY <1>2, <1>3, <2>1, <2>2, <2>5, DownWrite
  <2>7. Heard(t, c, stage'[r], heard[r])
    BY <2>1 DEF Heard
  <2> QED BY <1>2, <2>1, <2>4, <2>6, <2>7
<1> QED BY <1>5, <1>6, <1>7, <1>8

\* The name, and the secret, come second and third.
LEMMA Writes ==
  ASSUME Peers, Dialogue, NEW r \in Requests
  PROVE  LET t == Chosen(client[r]) c == client[r] IN
         /\ \A i \in 1..Len(Credentials(c)) : Credentials(c)[i] = Script(t, c, 1 + i)
         /\ Len(Credentials(c)) = IF t = "CommonSecret" THEN 2 ELSE 1
         /\ Credentials(c) \in Seq(Item)
<1> DEFINE t == Chosen(client[r])  c == client[r]
           name == Msg("name", "some")  secret == Msg("secret", c.secret)
<1>1. name \in Item /\ secret \in Item
  BY ItemTypes
<1>2. Script(t, c, 2) = name /\ (t = "CommonSecret" => Script(t, c, 3) = secret)
  BY DEF Script
<1>3. Credentials(c) = <<name>> \o IF t = "CommonSecret" THEN <<secret>> ELSE <<>>
  BY DEF Credentials
<1> HIDE DEF t, c, name, secret
<1>4. CASE t = "CommonSecret"
  <2>1. Credentials(c) = <<name>> \o <<secret>>
    BY <1>3, <1>4
  <2>2. /\ <<name>> \o <<secret>> \in Seq(Item) /\ Len(<<name>> \o <<secret>>) = 2
        /\ (<<name>> \o <<secret>>)[1] = name /\ (<<name>> \o <<secret>>)[2] = secret
    BY <1>1
  <2>3. \A i \in 1..2 : i = 1 \/ i = 2
    OBVIOUS
  <2>4. ASSUME NEW i \in 1..2 PROVE Credentials(c)[i] = Script(t, c, 1 + i)
    <3>1. CASE i = 1
      BY <1>2, <2>1, <2>2, <3>1
    <3>2. CASE i = 2
      <4>1. 1 + i = 3 /\ Credentials(c)[i] = secret
        BY <2>1, <2>2, <3>2
      <4> QED BY <1>2, <1>4, <4>1
    <3> QED BY <2>3, <3>1, <3>2
  <2> QED BY <1>4, <2>1, <2>2, <2>4 DEF t, c
<1>5. CASE t # "CommonSecret"
  <2>1. Credentials(c) = <<name>>
    BY <1>3, <1>5
  <2> QED BY <1>1, <1>2, <1>5, <2>1 DEF t, c
<1> QED BY <1>4, <1>5

\* The client's steps.
LEMMA AgreedClient ==
  ASSUME Peers, Dialogue, Standing, Understood, NEW r \in Requests, ClientThread(r), ~spoilt'[r]
  PROVE  AgreedOn(r)'
<1> DEFINE t == Chosen(client[r])  c == client[r]
<1>1. ~spoilt[r] /\ UNCHANGED <<pc, stage, heard, exempt>> /\ UNCHANGED peerVars
  BY DEF ClientThread, ReadList, SendName, ReadChallenge, Sign, ReadResult, vars
<1>2. /\ UpHolds(t, c, stage[r], cpc[r], up[r])
      /\ DownHolds(t, c, pc[r], stage[r], cpc[r], down[r])
      /\ Heard(t, c, stage[r], heard[r]) /\ Place(t, c, cpc[r])
      /\ pc[r] = "denied" => ~Convinces(c) \/ ~exempt[r]
  BY <1>1, WhatIsAgreed
<1>3. /\ up[r] \in Seq(Item) /\ down[r] \in Seq(Item) /\ PhaseOf(r)
      /\ c \in Client /\ t \in ItalcMethods
  BY LocalTypes DEF Standing
<1>4. SUFFICES /\ Place(t, c, cpc'[r])
               /\ UpHolds(t, c, stage[r], cpc'[r], up'[r])
               /\ DownHolds(t, c, pc[r], stage[r], cpc'[r], down'[r])
               /\ cpc'[r] = "accepted" => t # "DSA" \/ Keyed(t, c)
               /\ cpc'[r] = "refused" => ~Convinces(c) \/ pc[r] = "denied"
  BY <1>1, <1>2, AgreedNext DEF Agreed
<1> USE DEF Dialogue, DialogueTypeOK, ClientAt, Write
<1>5. CASE ReadList(r)
  <2>1. /\ cpc[r] = "list" /\ ClientReads(r) /\ cpc'[r] = "name"
        /\ up'[r] = up[r] \o <<Msg("type", t)>>
    BY <1>5 DEF ReadList
  <2>2. /\ Written(t, c, "list") = 0 /\ Written(t, c, "name") = 1
        /\ Received(t, c, "list") = 0 /\ Received(t, c, "name") = 1
    BY DEF Written, Received
  <2>3. UpHolds(t, c, stage[r], "name", up'[r])
    <3>1. Msg("type", t) \in Item /\ Msg("type", t) = Script(t, c, 1)
      BY <2>1, <2>2, ItemTypes DEF Script
    <3>2. Written(t, c, "name") = Written(t, c, "list") + 1 /\ Written(t, c, "name") = 1
      BY <2>2
    <3>3. Msg("type", t) = Script(t, c, Written(t, c, "name"))
      BY <3>1, <3>2
    <3> QED BY <1>2, <1>3, <2>1, <2>2, <3>1, <3>2, <3>3, UpWriteOne
  <2>4. DownHolds(t, c, pc[r], stage[r], "name", down'[r])
    <3>1. Received(t, c, "name") = Received(t, c, cpc[r]) + 1 /\ cpc[r] \notin Finished
      BY <2>1, <2>2 DEF Finished
    <3> QED BY <1>1, <2>1, <3>1, ClientFinds
  <2> QED BY <2>1, <2>3, <2>4 DEF Place
<1>6. CASE SendName(r)
  <2>1. /\ cpc[r] = "name" /\ UNCHANGED down /\ up'[r] = up[r] \o Credentials(c)
        /\ cpc'[r] = IF Keyed(t, c) THEN "challenge" ELSE "result"
    BY <1>6 DEF SendName, Keyed
  <2>2. /\ Written(t, c, "name") = 1 /\ Received(t, c, cpc'[r]) = Received(t, c, "name")
        /\ Written(t, c, cpc'[r]) = 1 + IF t = "CommonSecret" THEN 2 ELSE 1
    <3>1. CASE Keyed(t, c)
      BY <2>1, <3>1 DEF Written, Received, Keyed
    <3>2. CASE ~Keyed(t, c)
      BY <2>1, <3>2 DEF Written, Received, ScriptLength, Finished
    <3> QED BY <3>1, <3>2
  <2>3. UpHolds(t, c, stage[r], cpc'[r], up'[r])
    <3>1. /\ Credentials(c) \in Seq(Item)
          /\ Len(Credentials(c)) = IF t = "CommonSecret" THEN 2 ELSE 1
          /\ \A i \in 1..Len(Credentials(c)) : Credentials(c)[i] = Script(t, c, 1 + i)
      BY Writes
    <3>2. /\ Written(t, c, cpc'[r]) = Written(t, c, "name") + Len(Credentials(c))
          /\ \A i \in 1..Len(Credentials(c)) :
               Credentials(c)[i] = Script(t, c, Written(t, c, "name") + i)
      BY <2>2, <3>1
    <3> QED BY <1>2, <1>3, <2>1, <3>1, <3>2, UpWrite
  <2>4. DownHolds(t, c, pc[r], stage[r], cpc'[r], down'[r])
    BY <1>2, <2>1, <2>2, DownKeep
  <2> QED BY <2>1, <2>3, <2>4 DEF Place
<1>7. CASE ReadChallenge(r)
  <2>1. /\ cpc[r] = "challenge" /\ ClientReads(r) /\ up'[r] = up[r] \o <<Msg("role", "some")>>
        /\ cpc'[r] = IF Got(down[r], "challenge") = "some" THEN "sign" ELSE "signNothing"
    BY <1>7 DEF ReadChallenge
  <2>2. Keyed(t, c) /\ t = "DSA"
    BY <1>2, <2>1 DEF Place, Keyed
  <2>3. /\ Received(t, c, "challenge") = 1 /\ Received(t, c, "sign") = 2
        /\ Written(t, c, "challenge") = 2 /\ Written(t, c, "sign") = 3
        /\ Reply(t, pc[r], 2) = Msg("challenge", "some")
    BY <2>2 DEF Received, Written, Reply
  <2>4. /\ DownHolds(t, c, pc[r], stage[r], "sign", down'[r]) /\ down[r] # <<>>
        /\ Head(down[r]) = Reply(t, pc[r], Received(t, c, "sign"))
    <3>1. Received(t, c, "sign") = Received(t, c, cpc[r]) + 1 /\ cpc[r] \notin Finished
      BY <2>1, <2>3 DEF Finished
    <3> QED BY <1>1, <2>1, <3>1, ClientFinds
  <2>5. cpc'[r] = "sign"
    <3>1. Head(down[r]) = Msg("challenge", "some")
      BY <2>3, <2>4
    <3> QED BY <2>1, <2>4, <3>1 DEF Got, Msg
  <2>6. UpHolds(t, c, stage[r], "sign", up'[r])
    <3>1. Msg("role", "some") \in Item /\ Msg("role", "some") = Script(t, c, 3)
      BY <2>1, <2>2, ItemTypes DEF Script
    <3>2. Written(t, c, "sign") = Written(t, c, "challenge") + 1 /\ Written(t, c, "sign") = 3
      BY <2>3
    <3>3. Msg("role", "some") = Script(t, c, Written(t, c, "sign"))
      BY <3>1, <3>2
    <3> QED BY <1>2, <1>3, <2>1, <2>2, <3>1, <3>2, <3>3, UpWriteOne
  <2> QED BY <2>2, <2>4, <2>5, <2>6 DEF Place
<1>8. CASE Sign(r)
  <2>1. cpc[r] = "sign" /\ Keyed(t, c) /\ t = "DSA"
    BY <1>2, <1>8 DEF Sign, Place, Keyed
  <2>2. /\ cpc'[r] = "result" /\ UNCHANGED down
        /\ up'[r] = up[r] \o <<Msg("signature", c.key)>>
    BY <1>8, <2>1 DEF Sign
  <2>3. /\ Written(t, c, "sign") = 3 /\ Written(t, c, "result") = 4
        /\ Received(t, c, "result") = Received(t, c, "sign")
    BY <2>1 DEF Written, Received, ScriptLength, Finished
  <2>4. UpHolds(t, c, stage[r], "result", up'[r])
    <3>1. Msg("signature", c.key) \in Item /\ Msg("signature", c.key) = Script(t, c, 4)
      BY <2>1, <2>2, ItemTypes DEF Script
    <3>2. Written(t, c, "result") = Written(t, c, "sign") + 1 /\ Written(t, c, "result") = 4
      BY <2>3
    <3>3. Msg("signature", c.key) = Script(t, c, Written(t, c, "result"))
      BY <3>1, <3>2
    <3> QED BY <1>2, <1>3, <2>1, <2>2, <3>1, <3>2, <3>3, UpWriteOne
  <2>5. DownHolds(t, c, pc[r], stage[r], "result", down'[r])
    BY <1>2, <2>1, <2>2, <2>3, DownKeep
  <2> QED BY <2>2, <2>4, <2>5 DEF Place
<1>9. CASE ReadResult(r)
  <2>1. /\ cpc[r] = "result" /\ ClientReads(r) /\ UNCHANGED up
        /\ cpc'[r] = IF Accepts(Got(down[r], "result")) THEN "accepted" ELSE "refused"
    BY <1>9 DEF ReadResult
  <2>2. /\ Written(t, c, cpc'[r]) = Written(t, c, "result")
        /\ Received(t, c, "result") = (IF Keyed(t, c) THEN 2 ELSE 1)
        /\ Received(t, c, cpc'[r]) = (IF Keyed(t, c) THEN 3 ELSE 2)
    BY <2>1 DEF Written, Received, Finished
  <2>3. UpHolds(t, c, stage[r], cpc'[r], up'[r])
    BY <1>2, <2>1, <2>2, UpKeep
  <2>4. /\ DownHolds(t, c, pc[r], stage[r], cpc'[r], down'[r]) /\ down[r] # <<>>
        /\ Head(down[r]) = Reply(t, pc[r], Received(t, c, cpc'[r]))
        /\ Received(t, c, "result") < Sent(t, stage[r])
    <3>1. Received(t, c, cpc'[r]) = Received(t, c, cpc[r]) + 1 /\ cpc[r] \notin Finished
      BY <2>1, <2>2 DEF Finished
    <3> QED BY <1>1, <2>1, <3>1, ClientFinds
  <2>5. CASE t = "DSA" /\ ~Keyed(t, c)
    <3>1. Head(down[r]) = Msg("challenge", "some")
      BY <2>2, <2>4, <2>5 DEF Reply
    <3>2. cpc'[r] = "refused"
      BY <2>1, <3>1 DEF Accepts, Got, Msg, Nothing
    <3>3. ~Convinces(c)
      BY <2>5 DEF Convinces, Keyed
    <3> QED BY <2>3, <2>4, <3>2, <3>3 DEF Place
  <2>6. CASE ~(t = "DSA" /\ ~Keyed(t, c))
    <3>1. Head(down[r]) = Msg("result", IF pc[r] = "granted" THEN "ok" ELSE "failed")
      BY <2>2, <2>4, <2>6 DEF Reply, Keyed
    <3>2. pc[r] \in Decided
      <4>1. stage[r] \in {"closed", "serving"}
        BY <2>2, <2>4, <2>6 DEF Sent, Keyed
      <4> QED BY <1>3, <4>1 DEF PhaseOf, Phase
    <3>3. cpc'[r] = "refused" => pc[r] = "denied"
      BY <2>1, <2>4, <3>1, <3>2 DEF Accepts, Got, Msg, Decided
    <3>4. Place(t, c, cpc'[r])
      BY <2>1 DEF Place
    <3> QED BY <2>3, <2>4, <2>6, <3>3, <3>4
  <2> QED BY <2>5, <2>6
<1> QED BY <1>5, <1>6, <1>7, <1>8, <1>9 DEF ClientThread

\* Every step keeps both sides agreed.
LEMMA UnderstoodStep ==
  Peers /\ Dialogue /\ Standing /\ Understood /\ [HNext]_hVars => Understood'
<1> SUFFICES ASSUME Peers, Dialogue, Standing, Understood, [HNext]_hVars PROVE Understood'
  OBVIOUS
<1>1. ASSUME NEW r \in Requests, HBegin(r) \/ Server(r) \/ ClientThread(r) \/ Disconnect(r)
      PROVE  Understood'
  <2>1. ~spoilt'[r] => AgreedOn(r)'
    <3>1. ~Disconnect(r) \/ spoilt'[r]
      BY DEF Disconnect, Dialogue, DialogueTypeOK
    <3> QED BY <1>1, <3>1, AgreedSilently, AgreedType, AgreedName, AgreedRole,
               AgreedSignature, AgreedSecret, AgreedClient DEF Server
  <2>2. ASSUME NEW q \in Requests \ {r}, ~spoilt'[q] PROVE AgreedOn(q)'
    <3>1. Others(r) /\ UNCHANGED peerVars
      BY <1>1, OneAtATime
    <3>2. AgreedOn(q)
      BY <2>2, <3>1 DEF Others, Understood
    <3> QED BY <3>1, <3>2, AgreedNext DEF Others, AgreedOn
  <2> QED BY <2>1, <2>2 DEF Understood
<1>2. CASE (Dialog /\ UNCHANGED dialogueVars) \/ UNCHANGED hVars
  <2>1. UNCHANGED <<pc, exempt, stage, cpc, up, down, heard, spoilt>> /\ UNCHANGED peerVars
    BY <1>2 DEF Dialog, ReportChoice, UserAnswers, DialogDies, LogOnOrOff, dialogueVars,
                streamVars, hVars, vars
  <2>2. ASSUME NEW q \in Requests, ~spoilt'[q] PROVE AgreedOn(q)'
    <3>1. AgreedOn(q)
      BY <2>1, <2>2 DEF Understood
    <3> QED BY <2>1, <3>1, AgreedNext DEF AgreedOn
  <2> QED BY <2>2 DEF Understood
<1> QED BY <1>1, <1>2 DEF HNext

(* The second inductive invariant of the dialogue: where both sides are, and   *)
(* what is under way between them (ItalcCoreServer.cpp:249-339,                *)
(* ItalcVncConnection.cpp:767-833).                                            *)
THEOREM UnderstandingInvariant == HSpec => [](Standing /\ Understood)
<1>1. HInit => Standing /\ Understood
  <2> SUFFICES ASSUME HInit, NEW r \in Requests
               PROVE  PhaseOf(r) /\ ResultOf(r) /\ ConsentOf(r) /\ AgreedOn(r)
    BY DEF Standing, Understood
  <2>1. /\ pc[r] = "idle" /\ stage[r] = "none" /\ cpc[r] = "list" /\ up[r] = <<>>
        /\ down[r] = <<>>
    BY DEF HInit, Init
  <2> QED BY <2>1 DEF PhaseOf, Phase, ResultOf, ConsentOf, Asking, Decided, AgreedOn, Agreed,
                      Place, UpHolds, DownHolds, Heard, Taken, Written, Sent, Received
<1> QED BY <1>1, StandingStep, UnderstoodStep, PeersStay, DialogueInvariant, PTL DEF HSpec

(* A client that goes on to the session has been granted access, and nothing   *)
(* of the handshake is left in the socket (ItalcVncConnection.cpp:767-833).    *)
THEOREM AcceptedMeansGranted == HSpec => []AcceptedIsGranted
<1>1. Peers /\ Dialogue /\ Standing /\ Understood => AcceptedIsGranted
  <2> SUFFICES ASSUME Peers, Dialogue, Standing, Understood, NEW r \in Requests,
                      cpc[r] = "accepted"
               PROVE  pc[r] = "granted" /\ (~spoilt[r] => up[r] = <<>> /\ down[r] = <<>>)
    BY DEF AcceptedIsGranted
  <2>1. pc[r] = "granted"
    BY DEF Standing, ResultOf
  <2>2. ASSUME ~spoilt[r] PROVE up[r] = <<>> /\ down[r] = <<>>
    <3> DEFINE t == Chosen(client[r])  c == client[r]
    <3>1. up[r] \in Seq(Item) /\ down[r] \in Seq(Item)
      BY LocalTypes
    <3>2. /\ UpHolds(t, c, stage[r], cpc[r], up[r])
          /\ DownHolds(t, c, pc[r], stage[r], cpc[r], down[r])
          /\ t # "DSA" \/ Keyed(t, c)
      BY <2>2, WhatIsAgreed
    <3>3. Received(t, c, cpc[r]) = IF t = "DSA" THEN 3 ELSE 2
      BY <3>2 DEF Received, Keyed, Finished
    <3>4. Len(up[r]) \in Nat /\ Len(down[r]) \in Nat
      BY <3>1
    <3>5. Len(down[r]) + Received(t, c, cpc[r]) = Sent(t, stage[r])
      BY <3>2 DEF DownHolds
    <3>6. Len(down[r]) = 0 /\ stage[r] \in {"closed", "serving"}
      BY <3>3, <3>4, <3>5 DEF Sent
    <3>7. Taken(t, c, stage[r]) = ScriptLength(t, c) /\ Written(t, c, cpc[r]) = ScriptLength(t, c)
      BY <3>6 DEF Taken, Written
    <3>8. Len(up[r]) + ScriptLength(t, c) = ScriptLength(t, c)
      BY <3>2, <3>7 DEF UpHolds
    <3> DEFINE n == ScriptLength(t, c)
    <3>9. n \in Nat /\ Len(up[r]) + n = n
      BY <3>8, Counts
    <3> HIDE DEF n
    <3>10. Len(up[r]) = 0
      BY <3>4, <3>9
    <3> QED BY <3>1, <3>6, <3>10
  <2> QED BY <2>1, <2>2
<1> QED BY <1>1, PeersStay, DialogueInvariant, UnderstandingInvariant, PTL

(* A client is refused for want of the credentials, by the user, or because an *)
(* item was late (ItalcCoreServer.cpp:261-339, ItalcVncConnection.cpp:767-833). *)
THEOREM RefusalsHaveReasons == HSpec => []RefusedForAReason
<1>1. Dialogue /\ Understood => RefusedForAReason
  BY WhatIsAgreed DEF RefusedForAReason
<1> QED BY <1>1, DialogueInvariant, UnderstandingInvariant, PTL
=============================================================================
