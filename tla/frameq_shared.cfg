SPECIFICATION Spec
CONSTANTS
  r1 = r1
  r2 = r2
  Reader <- MCReader
  QueueDepth = 2
  MaxFrameBytes = 1
  BufSizes <- MCSizes
  SharedFd = TRUE
  LostStops = TRUE
  CopyFaults = TRUE
  MaxTransactions = 3
CHECK_DEADLOCK FALSE
INVARIANTS
  RingConsistent
  FramesAccountedFor
PROPERTIES
  ImplementsFifo
