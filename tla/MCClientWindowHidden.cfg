\* The commands of a closed window race the stop() of reload().
CONSTANTS
  h1 = h1
  Hosts = {h1}
  NoHost = NoHost
  Commands = {"lock", "unlock", "startDemo", "stopDemo"}
  Timeout = 2
  ReloadInterval = 1
  MaxEvents = 3
  MaxCalls = 0
SPECIFICATION WindowNetworkSpec
PROPERTIES HiddenIsFree
CHECK_DEADLOCK FALSE
