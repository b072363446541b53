---------------------------- MODULE AuthHandshake ----------------------------
(***************************************************************************)
(* The dialogue of the iTALC security type: ItalcCoreServer::              *)
(* authSecTypeItalc() and lvs_italcSecurityHandler() (ica/src) on one side *)
(* of a socket, ItalcVncConnection::handleSecTypeItalc() (lib/src) and     *)
(* rfbHandleAuthResult() of libvncclient on the other.                     *)
(*                                                                         *)
(* Both sides write QVariants and read them one by one; nothing in the     *)
(* stream says what comes next.  A read that fails, because the peer has   *)
(* closed the socket or nothing came for 20 seconds, returns an invalid    *)
(* QVariant, and a read of something of another type is converted to an    *)
(* empty value; in both cases the handshake goes on.  The server's side is *)
(* a thread of AccessControl, whose steps it takes.                        *)
(***************************************************************************)
EXTENDS AccessControl

CONSTANT Clients  \* the kinds of clients that may connect

Client == [prefers : ItalcMethods,                \* m_italcAuthType
           key     : {"right", "wrong", "none"},  \* its private key
           secret  : {"right", "wrong"},          \* its commonSecret()
           listed  : BOOLEAN]                     \* its address, by the server

ASSUME ClientsAssumption == Clients \subseteq Client
ASSUME ItalcMethodsAssumption == ItalcMethods \subseteq Methods

VARIABLES
  hasSecret, \* the server offers ItalcAuthCommonSecret
  client,    \* request: who it comes from
  cpc,       \* request: where the client's thread is
  stage,     \* request: what the server's thread reads next
  heard,     \* request: the type and the role read so far
  up, down,  \* request: items on their way to the server, to the client
  spoilt     \* history, request: an item came late, or the client went away

streamVars == <<up, down>>
peerVars == <<hasSecret, client>>
dialogueVars == <<peerVars, cpc, stage, heard, streamVars, spoilt>>
hVars == <<vars, dialogueVars>>

Nothing == "nothing"  \* what a failed read returns

Offered == IF hasSecret THEN ItalcMethods ELSE ItalcMethods \ {"CommonSecret"}

\* What the client makes of the list: what it was told to prefer, or the first
\* name in the order of the QMap.
Chosen(c) == IF c.prefers \in Offered THEN c.prefers
             ELSE IF hasSecret THEN "CommonSecret" ELSE "DSA"

\* The credentials that type asks for are right.
Convinces(c) == \/ Chosen(c) = "HostBased" /\ c.listed
                \/ Chosen(c) = "DSA" /\ c.key = "right"
                \/ Chosen(c) = "CommonSecret" /\ c.secret = "right"

Kinds == {"list", "type", "name", "challenge", "role", "signature", "secret",
          "result"}
Values ==
  {Nothing, "right", "wrong", "none", "some", "ok", "failed"} \cup ItalcMethods
Item == [is : Kinds, value : Values]
Msg(kind, v) == [is |-> kind, value |-> v]

Finished == {"accepted", "refused"}
Writing == {"list", "name", "challenge", "sign", "signNothing"}

DialogueTypeOK ==
  /\ TypeOK
  /\ hasSecret \in BOOLEAN
  /\ client \in [Requests -> Clients]
  /\ cpc \in [Requests -> Writing \cup {"result"} \cup Finished]
  /\ stage \in [Requests -> {"none", "type", "name", "role", "signature", "secret",
                             "verdict", "closed", "serving"}]
  /\ heard \in [Requests -> [type : ItalcMethods \cup {Nothing},
                            role : {Nothing, "some"}]]
  /\ up \in [Requests -> Seq(Item)] /\ down \in [Requests -> Seq(Item)]
  /\ spoilt \in [Requests -> BOOLEAN]

HInit ==
  /\ Init
  /\ hasSecret \in BOOLEAN
  /\ client \in [Requests -> Clients]
  /\ cpc = [r \in Requests |-> "list"]
  /\ stage = [r \in Requests |-> "none"]
  /\ heard = [r \in Requests |-> [type |-> Nothing, role |-> Nothing]]
  /\ up = [r \in Requests |-> <<>>] /\ down = [r \in Requests |-> <<>>]
  /\ spoilt = [r \in Requests |-> FALSE]

\* The value of the item at the head of a stream, to a reader who expects a kind.
Got(s, kind) == IF s # <<>> /\ Head(s).is = kind THEN Head(s).value ELSE Nothing

Rest(s) == IF s = <<>> THEN <<>> ELSE Tail(s)

----------------------------------------------------------------------------
(* The server's thread.                                                     *)

ServerAt(r, s) == stage' = [stage EXCEPT ![r] = s]
Tell(r, m) == down' = [down EXCEPT ![r] = Append(@, m)]

\* sdev.read(): the item at the head, or nothing after 20 seconds or from a
\* client that has gone.  It is late if it was still to be written.
ServerReads(r, kind, v) ==
  /\ v = Got(up[r], kind)
  /\ up' = [up EXCEPT ![r] = Rest(@)]
  /\ spoilt' = [spoilt EXCEPT ![r] = @ \/ (up[r] = <<>> /\ cpc[r] \in Writing)]
  /\ UNCHANGED <<peerVars, cpc>>

HBegin(r) ==
  /\ \E local \in BOOLEAN : BeginWith(r, Chosen(client[r]), local, FALSE)
  /\ UNCHANGED dialogueVars

HAcquire(r) ==
  /\ Acquire(r)
  /\ Tell(r, Msg("list", "some"))
  /\ ServerAt(r, "type")
  /\ UNCHANGED <<peerVars, cpc, heard, up, spoilt>>

\* supportedAuthTypes.values().contains( chosen ); a failed read is 0.
ServesType(t) == t \in Offered

ReadType(r) ==
  /\ pc[r] = "ask" /\ stage[r] = "type"
  /\ \E t \in Values :
       /\ ServerReads(r, "type", t)
       /\ IF ServesType(t)
          THEN /\ heard' = [heard EXCEPT ![r].type = t]
               /\ ServerAt(r, "name") /\ UNCHANGED vars
          ELSE Refuse(r) /\ ServerAt(r, "verdict") /\ UNCHANGED heard
  /\ UNCHANGED down

\* Access is decided by what was read last, and by DesktopAccessPermission.
Conclude(r, convinced) ==
  /\ IF convinced THEN Ask(r) ELSE Refuse(r)
  /\ ServerAt(r, "verdict")
  /\ UNCHANGED heard

\* The name is shown in the access dialog, nothing depends on it.
ReadName(r) ==
  /\ pc[r] = "ask" /\ stage[r] = "name"
  /\ \E n \in Values : ServerReads(r, "name", n)
  /\ \/ /\ heard[r].type = "HostBased"
        /\ Conclude(r, client[r].listed)
        /\ UNCHANGED down
     \/ /\ heard[r].type = "DSA"
        /\ Tell(r, Msg("challenge", "some"))
        /\ ServerAt(r, "role") /\ UNCHANGED <<vars, heard>>
     \/ /\ heard[r].type = "CommonSecret"
        /\ ServerAt(r, "secret") /\ UNCHANGED <<vars, heard, down>>

ReadRole(r) ==
  /\ pc[r] = "ask" /\ stage[r] = "role"
  /\ \E u \in Values :
       /\ ServerReads(r, "role", u)
       /\ heard' = [heard EXCEPT ![r].role = IF u = "some" THEN u ELSE Nothing]
  /\ ServerAt(r, "signature")
  /\ UNCHANGED <<vars, down>>

\* Mutant of Verified: only a signature of another key is refused.
VerifiedUnlessWrong(r, sig) == sig # "wrong"

\* verifySignature() with the public key of the role.
Verified(r, sig) == heard[r].role = "some" /\ sig = "right"

ReadSignature(r) ==
  /\ pc[r] = "ask" /\ stage[r] = "signature"
  /\ \E s \in Values : ServerReads(r, "signature", s) /\ Conclude(r, Verified(r, s))
  /\ UNCHANGED down

ReadSecret(r) ==
  /\ pc[r] = "ask" /\ stage[r] = "secret"
  /\ \E s \in Values : ServerReads(r, "secret", s) /\ Conclude(r, s = "right")
  /\ UNCHANGED down

\* The steps of AccessControl that follow: the dialog.
Permission(r) ==
  /\ \/ ExecAccessDialog(r) \/ CreateDialog(r) \/ SendAsk(r) \/ LeaveLoop(r)
     \/ ReturnChoice(r) \/ Timeout(r) \/ GiveUp(r)
  /\ UNCHANGED dialogueVars

\* The thread has left the handshake and the mutex; rfbClientSendString() closes
\* the socket after a refusal.
SendResult(r) ==
  /\ pc[r] \in Decided /\ stage[r] = "verdict"
  /\ Tell(r, Msg("result", IF pc[r] = "granted" THEN "ok" ELSE "failed"))
  /\ ServerAt(r, IF pc[r] = "granted" THEN "serving" ELSE "closed")
  /\ UNCHANGED <<vars, peerVars, cpc, heard, up, spoilt>>

----------------------------------------------------------------------------
(* The client's thread.                                                     *)

ClientAt(r, l) == cpc' = [cpc EXCEPT ![r] = l]

\* Blocks until something is there or the server has closed the socket.
ClientReads(r) ==
  /\ down[r] # <<>> \/ stage[r] = "closed"
  /\ down' = [down EXCEPT ![r] = Rest(@)]

Write(r, items) == up' = [up EXCEPT ![r] = @ \o items]

\* The list of types; the choice is written at once.
ReadList(r) ==
  /\ cpc[r] = "list"
  /\ ClientReads(r)
  /\ Write(r, <<Msg("type", Chosen(client[r]))>>)
  /\ ClientAt(r, "name")
  /\ UNCHANGED <<vars, peerVars, stage, heard, spoilt>>

\* Mutant of Credentials: no name is sent when nobody is logged on.
CredentialsNameless(c) ==
  IF Chosen(c) = "CommonSecret" THEN <<Msg("secret", c.secret)>> ELSE <<>>

\* The name, then the secret if it is what counts.
Credentials(c) ==
  <<Msg("name", "some")>>
    \o IF Chosen(c) = "CommonSecret" THEN <<Msg("secret", c.secret)>> ELSE <<>>

\* It takes a while to find out who is logged on.
SendName(r) ==
  /\ cpc[r] = "name"
  /\ Write(r, Credentials(client[r]))
  /\ ClientAt(r, IF Chosen(client[r]) = "DSA" /\ client[r].key # "none"
                 THEN "challenge" ELSE "result")
  /\ UNCHANGED <<vars, peerVars, stage, heard, down, spoilt>>

\* The role is written at once; what is signed is what was read.
ReadChallenge(r) ==
  /\ cpc[r] = "challenge"
  /\ ClientReads(r)
  /\ Write(r, <<Msg("role", "some")>>)
  /\ ClientAt(r, IF Got(down[r], "challenge") = "some" THEN "sign" ELSE "signNothing")
  /\ UNCHANGED <<vars, peerVars, stage, heard, spoilt>>

Sign(r) ==
  /\ cpc[r] \in {"sign", "signNothing"}
  /\ LET key == IF cpc[r] = "sign" THEN client[r].key ELSE Nothing
     IN  Write(r, <<Msg("signature", key)>>)
  /\ ClientAt(r, "result")
  /\ UNCHANGED <<vars, peerVars, stage, heard, down, spoilt>>

\* Mutant of Accepts: what is not known as a failure is a success.
AcceptsUnlessFailed(result) == result # "failed"

\* rfbHandleAuthResult() knows rfbVncAuthOK, and takes all else for a failure.  A
\* client without a key reads the type tag of the challenge here.
Accepts(result) == result = "ok"

ReadResult(r) ==
  /\ cpc[r] = "result"
  /\ ClientReads(r)
  /\ ClientAt(r, IF Accepts(Got(down[r], "result")) THEN "accepted" ELSE "refused")
  /\ UNCHANGED <<vars, peerVars, stage, heard, up, spoilt>>

\* Its window is closed, or the connection breaks.  What was written can still
\* be read.
Disconnect(r) ==
  /\ pc[r] # "idle" /\ cpc[r] \notin Finished
  /\ ClientAt(r, "refused")
  /\ down' = [down EXCEPT ![r] = <<>>]
  /\ spoilt' = [spoilt EXCEPT ![r] = TRUE]
  /\ UNCHANGED <<vars, peerVars, stage, heard, up>>

----------------------------------------------------------------------------
Server(r) == \/ HAcquire(r) \/ ReadType(r) \/ ReadName(r) \/ ReadRole(r)
             \/ ReadSignature(r) \/ ReadSecret(r) \/ Permission(r) \/ SendResult(r)

ClientThread(r) == \/ ReadList(r) \/ SendName(r) \/ ReadChallenge(r) \/ Sign(r)
                   \/ ReadResult(r)

Dialog == ReportChoice \/ (\E a \in {"Yes", "No"} : UserAnswers(a)) \/ DialogDies
          \/ LogOnOrOff

HNext == \/ \E r \in Requests : \/ HBegin(r) \/ Server(r)
                                \/ ClientThread(r) \/ Disconnect(r)
         \/ Dialog /\ UNCHANGED dialogueVars

HSpec == HInit /\ [][HNext]_hVars

(* Threads run; a read of the server fails after 20 seconds at the latest.   *)
(* The client has no such limit: that it ends depends on the server.          *)
HFairSpec == HSpec /\ \A r \in Requests : /\ WF_hVars(Server(r))
                                         /\ WF_hVars(ClientThread(r))

----------------------------------------------------------------------------
(* Properties.                                                              *)

\* Nobody is granted access, or even asked about, without the credentials of
\* the type agreed on, though items are late or missing and what is read is not
\* what was meant (ItalcCoreServer.cpp:273-327, 396-404, 453-464).
GrantedIsProved ==
  \A r \in Requests : pc[r] \in Asking \cup {"granted"} => Convinces(client[r])

\* A client that goes on to the session has been granted access, and, unless an
\* item was late, nothing of the handshake is left in the socket that the
\* session would read (ItalcVncConnection.cpp:767-833, libvncclient/rfbproto.c:
\* 545-586).
AcceptedIsGranted ==
  \A r \in Requests : cpc[r] = "accepted" =>
    /\ pc[r] = "granted"
    /\ ~spoilt[r] => up[r] = <<>> /\ down[r] = <<>>

\* Both sides mean the same by every item: a client is only refused for want of
\* the credentials, by the user, or because an item was late or the connection broke
\* (ItalcCoreServer.cpp:261-339, ItalcVncConnection.cpp:767-833).
RefusedForAReason ==
  \A r \in Requests : cpc[r] = "refused" =>
    \/ spoilt[r] \/ ~Convinces(client[r])
    \/ pc[r] = "denied" /\ ~exempt[r]

\* A handshake that has begun ends on both sides: neither waits for the other
\* for ever, nor for those that hold the mutex (ItalcCoreServer.cpp:251,
\* ItalcVncServer.cpp:107-124).
BothEndsFinish ==
  \A r \in Requests :
    pc[r] # "idle" ~> pc[r] \in Decided /\ cpc[r] \in Finished
=============================================================================
