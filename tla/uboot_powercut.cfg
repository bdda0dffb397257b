SPECIFICATION Spec
CONSTANTS
  Span = 4
  Essential = 3
  KernelChunks <- MCKernelChunks
  AttemptCap = 2
  MaxBoots = 4
  TornWrites = TRUE
  MaxI2cFaults = 0
  MmcFaults = TRUE
CHECK_DEADLOCK FALSE
INVARIANTS
  IInv
  PartialCopyStaysLatched
  NoBootOfPartialCopy
  CheckpointCovered
PROPERTIES
  ImplementsContract
