SPECIFICATION FairSpecAll
CONSTANTS
  Span = 2
  Essential = 2
  KernelChunks <- MCKernelChunks
  AttemptCap = 1
  MaxBoots = 2
  MaxI2cFaults = 1
  TornWrites = TRUE
  MmcFaults = FALSE
  RootNames <- MCRootNames
  ServiceFaults = TRUE
CHECK_DEADLOCK FALSE
PROPERTIES
  
  BootScriptEnds
