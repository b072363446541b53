\* Two servers in a row, viewers of both kinds; lists are sent while fewer than two wait.
CONSTANTS
  h1 = h1  h2 = h2
  Hosts = {h1}
  NoHost = NoHost
  Methods = {"HostBased", "DSA"}
  MaxProcs = 2
  MaxInbox = 2
SPECIFICATION ProcessFairSpec
INVARIANTS ServerKnowsTheList
PROPERTIES NoStaleAdmission UpdateWaitsForCallOnly StoppedServerEnds
CHECK_DEADLOCK FALSE
