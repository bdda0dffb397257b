SPECIFICATION FairSpec
CONSTANTS
  Span = 3
  Essential = 2
  KernelChunks <- MCKernelChunks
  AttemptCap = 1
  MaxBoots = 3
  TornWrites = TRUE
  MaxI2cFaults = 2
  MmcFaults = TRUE
CHECK_DEADLOCK FALSE
INVARIANTS
  AttemptsWithinCap
PROPERTIES
  BootCompletes
  RestoreEnds
  LatchActedOn
