\* Two sessions, of which one may come back after the other.
CONSTANTS
  s1 = s1  s2 = s2
  Sessions = {s1, s2}  Invalid = Invalid
  MaxChanges = 3  MaxFaults = 1
SPECIFICATION FairSpec
INVARIANTS OneServer
PROPERTIES EndsByItself FollowsConsole
CHECK_DEADLOCK FALSE
