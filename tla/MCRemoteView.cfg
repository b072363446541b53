\* A modifier, the Super key and Delete; keys are typed while up to two events wait.
CONSTANTS
  Keyboard = {"Control", "Super", "Delete"}
  MaxQueue = 1
SPECIFICATION Spec
INVARIANTS ModifiersAreKnown StuckOnlyIfLeft
PROPERTIES ViewOnlyIsSilent
CHECK_DEADLOCK FALSE
