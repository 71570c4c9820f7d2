SPECIFICATION FairSpec
CONSTANTS
  c1 = c1
  c2 = c2
  Chan = {c1, c2}
  Asm = Asm
  AppBytes <- MCAppBytes
  ReadMax = 2
  N1 <- MCN1
  Retries = 2
  MscBudget = 3
  WakeBudget = 1
  MayFault = TRUE
  MayClose = TRUE
INVARIANTS FramesWhole ChannelDataInOrder OneReadAfterOff
PROPERTY AllSent
\* the applications fall silent, and a short write ends all transmission
CHECK_DEADLOCK FALSE
