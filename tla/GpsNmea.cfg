SPECIFICATION NmeaSpec
CONSTANTS
  Views <- MCViews
  NmeaMax = 3
  PerLine = 1
  MaxSvs = 3
  Interval = 1
  MaxEpochs = 2
  Backlog = 3
INVARIANTS
  NothingHeldBack
  WholeView
CHECK_DEADLOCK FALSE
