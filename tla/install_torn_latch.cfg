SPECIFICATION SpecAll
CONSTANTS
  Span = 3
  Essential = 2
  KernelChunks <- MCKernelChunks
  AttemptCap = 1
  MaxBoots = 4
  MaxI2cFaults = 0
  TornWrites = TRUE
  MmcFaults = FALSE
  RootNames <- MCRootNames
  ServiceFaults = FALSE
CHECK_DEADLOCK FALSE
INVARIANTS
  PartialCopyStaysLatched
