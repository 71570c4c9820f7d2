SPECIFICATION FairSpec
CONSTANTS
  Byte <- MCByte
  BufSize = 8
  Lines <- MCLines
  FLAG = "F"
  UI = "i"
  Len7 <- MCLen7
  More <- MCMore
  LenHigh <- MCLenHigh
  N1 <- MCN1
  Fcs <- MCFcs
  MaxResync = 3
  Streams <- MCStreams
INVARIANTS DeliveredInOrder OnlySentFrames LossIsLocal
PROPERTY AllDelivered
\* the line is finite: both threads end up blocked in read() and pthread_cond_wait
CHECK_DEADLOCK FALSE
