\* One computer with two screens, an event, a call of start, stop or reset.
CONSTANTS
  h1 = h1  h2 = h2  c1 = c1  s1 = s1  s2 = s2
  Hosts = {h1}
  NoHost = NoHost
  Commands = {c1}
  Screens = {s1, s2}
  Black = Black
  Nothing = Nothing
  Timeout = 1
  MaxEvents = 1
  MaxCalls = 1
SPECIFICATION ThumbFairSpec
PROPERTIES ThumbnailFresh
CHECK_DEADLOCK FALSE
