\* Four locks of two kinds, one after the other or at the same time.
CONSTANTS
  ScreenLock = ScreenLock  InputLock = InputLock
  Ids = {ScreenLock, InputLock}
  MaxProcs = 4
SPECIFICATION LockSpec
INVARIANTS KeyboardBack UnlockedByEarlierOnly
CHECK_DEADLOCK FALSE
