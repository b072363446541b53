\* Locking the screen while the input is locked.
CONSTANTS
  ScreenLock = ScreenLock  InputLock = InputLock
  Ids = {ScreenLock, InputLock}
  MaxProcs = 2
SPECIFICATION LockSpec
INVARIANTS RestoredInTheEnd
CHECK_DEADLOCK FALSE
