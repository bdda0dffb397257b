SPECIFICATION SpecAll
CONSTANTS
  Span = 3
  Essential = 2
  KernelChunks <- MCKernelChunks
  AttemptCap = 1
  MaxBoots = 2
  MaxI2cFaults = 0
  TornWrites = FALSE
  MmcFaults = FALSE
  RootNames <- MCRootNames
  ServiceFaults = FALSE
CHECK_DEADLOCK FALSE
INVARIANTS
  DoneClearsLatch
