SPECIFICATION Spec
CONSTANTS
  c1 = c1
  c2 = c2
  c3 = c3
  Cmds = {c1, c2, c3}
  None = None
  Kinds = {"scan", "hotlist", "change", "anqpo", "rtt"}
  CmdMax = 2
  EventCbMax = 4
  MayRefuse = {"hotlist", "change", "anqpo"}
  Overlap = FALSE
INVARIANTS HandlersAreLive WorkedOnIsLive RefsCountUsers
SYMMETRY Addresses
\* when every object is lost to the full table nothing can be started
CHECK_DEADLOCK FALSE
