SPECIFICATION MCSpec
CONSTANTS
  MaxRuns = 5
  MaxEditRuns = 4
CHECK_DEADLOCK FALSE
INVARIANTS
  TrustedMirrorWhole
  RewriteRepairs
  NoDoubleHunk
  DuplicateIsRepairable
  WindowedMountsPayload
  EnvKeysOnce
  TableHasItsVersion
PROPERTIES
  CheckedCopies
