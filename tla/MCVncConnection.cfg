\* Two hosts, three events, four calls of start, stop and reset.
CONSTANTS
  h1 = h1  h2 = h2  c1 = c1
  Hosts = {h1, h2}
  NoHost = NoHost
  Commands = {c1}
  Timeout = 2
  MaxEvents = 3
  MaxCalls = 4
SPECIFICATION FairSpec
INVARIANTS FiredInOrder
PROPERTIES StopEnds
CHECK_DEADLOCK FALSE
