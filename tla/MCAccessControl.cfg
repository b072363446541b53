\* Three handshakes with the security type of iTALC: all hold m_dataMutex.
CONSTANTS
  r1 = r1  r2 = r2  r3 = r3
  NoRequest = NoRequest  NoAnswer = NoAnswer
  Requests = {r1, r2, r3}
  Methods = {"DSA", "HostBased"}
SPECIFICATION FairSpec
INVARIANTS TypeOK GrantedByUser QuestionIsOpen AnswerIsFresh
PROPERTIES DecisionSpec EveryRequestDecided
CHECK_DEADLOCK FALSE
