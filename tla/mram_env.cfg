SPECIFICATION FairSpec
CONSTANTS
  NChunk = 3
  MaxEnv = 3
  MaxFaults = 3
  Junk = Junk
  Unloaded = Unloaded
  NoPart = NoPart
  NoFile = NoFile
  Bad = Bad
INVARIANTS
  IInv
  SavedEnvPersists
  MirrorMatches
  FallbackFindsMirror
  OneFaultKeepsACopy
  NoRollback
PROPERTIES
  EnvLoadEnds
