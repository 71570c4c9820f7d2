SPECIFICATION FairSpec
CONSTANTS
  NFrames = 3
  FrameLen <- MCFrameLen
  High = 4
  t1 = t1
  t2 = t2
  t3 = t3
  Threads = {t1, t2, t3}
  HangUps = 1
  MscBudget = 1
  MayClose = TRUE
  MayFail = TRUE
INVARIANTS PtyInOrder ListNotShared OnePusher ListBounded OffHasPusher
PROPERTY AllWritten
\* the modem falls silent, or the channel is closed
CHECK_DEADLOCK FALSE
