\* Three commands; reload() twice within the timeout of stop().
CONSTANTS
  h1 = h1
  Hosts = {h1}
  NoHost = NoHost
  Commands = {"lock", "unlock", "startDemo", "stopDemo"}
  Timeout = 2
  ReloadInterval = 1
  MaxEvents = 3
  MaxCalls = 0
SPECIFICATION WindowNetworkSpec
INVARIANTS ModeIsReached
PROPERTIES VisibleIsConnected
CHECK_DEADLOCK FALSE
