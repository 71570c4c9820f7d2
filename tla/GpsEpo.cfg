SPECIFICATION EpoSpec
CONSTANTS
  Days = 6
  Period = 3
  Trigger = TRUE
  MaxRetry = 2
  MaxDay = 4
  Overlap = FALSE
  Truncated = FALSE
INVARIANTS
  PiecesInOrder
  ResumesInPlace
PROPERTY
  DownloadSettles
