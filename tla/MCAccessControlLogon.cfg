\* UltraVNC: a handshake of iTALC and a logon at the same time.
CONSTANTS
  r1 = r1  r2 = r2  r3 = r3
  NoRequest = NoRequest  NoAnswer = NoAnswer
  Requests = {r1, r2}
  Methods = {"DSA", "Logon"}
SPECIFICATION Spec
INVARIANTS GrantedByUser
CHECK_DEADLOCK FALSE
