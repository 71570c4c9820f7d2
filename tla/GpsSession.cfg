SPECIFICATION Spec
CONSTANTS
  MaxInits = 2
  MaxStarts = 2
  MaxMsgs = 1
  Kinds = {"measurement", "iconOn", "iconOff"}
  Faults = {"open", "codec", "send", "die"}
INVARIANTS
  WakeLockBalanced
  LastReportIsTrue
  CleanupInOrder
  StartedAgrees
  CallbacksStored
CHECK_DEADLOCK FALSE
PROPERTY CallsReturn
