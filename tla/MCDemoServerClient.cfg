\* Two tiles, each painted twice, one of them once before the viewer comes.
CONSTANTS
  t1 = t1  t2 = t2
  Tiles = {t1, t2}
  MaxPaints = 2
SPECIFICATION MCSpec
INVARIANTS NothingForgotten
PROPERTIES ViewerNeverGoesBack ShownInTheEnd
CHECK_DEADLOCK FALSE
