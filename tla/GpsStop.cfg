SPECIFICATION Spec
CONSTANTS
  MaxInits = 1
  MaxStarts = 1
  MaxMsgs = 0
  Kinds = {}
  Faults = {"die"}
PROPERTY StopReturns
CHECK_DEADLOCK FALSE
