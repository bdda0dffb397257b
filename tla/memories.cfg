SPECIFICATION MCSpec
CONSTANTS
  Device = 7
  EnvSize = 2
  Word = 16
  Inputs <- MCInputs
  Images = {3, 7, 9, 12}
  MaxSets = 2
  MaxCuts = 1
CHECK_DEADLOCK FALSE
INVARIANTS
  RegionIsUBoots
  EnvUntouched
PROPERTIES
  OverlayCommitted
  StampKeepsRecords
