SPECIFICATION FairSpec
CONSTANTS
  r1 = r1
  r2 = r2
  Reader <- MCReader
  QueueDepth = 2
  MaxFrameBytes = 2
  BufSizes <- MCSizes
  SharedFd = FALSE
  LostStops = FALSE
  CopyFaults = TRUE
  MaxTransactions = 3
CHECK_DEADLOCK FALSE
INVARIANTS
  TypeOK
  FramesWhole
  FramesInOrder
PROPERTIES
  QueueDrains
