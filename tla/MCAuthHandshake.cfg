\* Two handshakes with the security type of iTALC: a client of any kind, and the
\* teacher.
CONSTANTS
  r1 = r1  r2 = r2
  NoRequest = NoRequest  NoAnswer = NoAnswer
  Requests = {r1, r2}
  Methods = {"DSA", "HostBased", "CommonSecret"}
  Clients <- MCClients
SPECIFICATION MCSpec
INVARIANTS DialogueTypeOK GrantedByUser AnswerIsFresh
           GrantedIsProved AcceptedIsGranted RefusedForAReason
PROPERTIES DecisionSpec BothEndsFinish
CHECK_DEADLOCK FALSE
