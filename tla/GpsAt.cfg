SPECIFICATION AtSpec
CONSTANTS
  MaxNum = 3
  MaxWait = 3
  SetsPerRead = 2
  MaxCount = 4
INVARIANT
  RoomIsLive
PROPERTY
  TestEnds
