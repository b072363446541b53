\* Two ids, two launches, two messages; no symmetry, which liveness excludes.
CONSTANTS
  Ids = {i1, i2}
  NoId = none
  MaxProcs = 2
  MaxMsgs = 2
SPECIFICATION FairSpec
INVARIANTS SocketsOfKin PendingWaitsForSocket ReportsAttributable
PROPERTIES MessagingSpec OrphansDie SentIsHandledOrSlaveEnds
CHECK_DEADLOCK FALSE
