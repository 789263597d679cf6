CONSTANTS
  Base = 2
  DigitLimit = 3
  Near = 2
  Same = 1
  AddTo = 1
  CopyFrom = 2
  CopyTo = 2
  PairAddTo = 1
  PairCopyTo = 2
  MaxInstructions = 3
  CopySizes = {2}
  MaxAddress = 5
  Windows <- MCWindows
  Tables <- MCTables
SPECIFICATION Spec
INVARIANTS
  CachesAgree
  Lossless
  RefusalsJustified
PROPERTY ImplementsReplay
\* A window is coded once: "done", "rejected" and "failed" are final.
CHECK_DEADLOCK FALSE
