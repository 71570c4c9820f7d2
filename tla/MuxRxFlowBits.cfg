SPECIFICATION Spec
CONSTANTS
  NFrames = 3
  FrameLen <- MCFrameLen
  High = 4
  t1 = t1
  t2 = t2
  t3 = t3
  Threads = {t1, t2, t3}
  HangUps = 0
  MscBudget = 1
  MayClose = FALSE
  MayFail = FALSE
INVARIANT RxEnabledAgain
\* the modem falls silent, or the channel is closed
CHECK_DEADLOCK FALSE
