SPECIFICATION Spec
CONSTANTS
  Parts = {"playback"}
INVARIANTS ConfirmedSinceSent
CHECK_DEADLOCK FALSE
