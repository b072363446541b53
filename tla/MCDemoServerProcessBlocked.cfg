\* A viewer that fails with another method, and a list.
CONSTANTS
  h1 = h1  h2 = h2
  Hosts = {h1}
  NoHost = NoHost
  Methods = {"HostBased", "DSA"}
  MaxProcs = 1
  MaxInbox = 2
SPECIFICATION ProcessFairSpec
PROPERTIES UpdateTakesEffect
CHECK_DEADLOCK FALSE
