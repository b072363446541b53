\* One tile is enough.  Both properties are refuted; tlc -continue shows traces of each.
CONSTANTS
  t1 = t1  t2 = t2
  Tiles = {t1}
  MaxPaints = 1
SPECIFICATION Spec
INVARIANTS SocketOutlivesSending ImageWrapsFramebuffer
CHECK_DEADLOCK FALSE
