SPECIFICATION FairSpec
CONSTANTS
  Byte <- MCByte
  BufSize = 7
  Lines <- MCLines
  FLAG = "F"
  ESC = "E"
  Compl <- MCCompl
  Escaped <- MCEscaped
  Crc <- MCCrc
  Streams <- MCStreams
INVARIANTS NoLostWakeup DeliveredInOrder OnlySentFrames
PROPERTIES ImplementsQueue AllDelivered
\* the line is finite: both threads end up blocked in read() and pthread_cond_wait
CHECK_DEADLOCK FALSE
