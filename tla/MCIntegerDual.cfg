CONSTANTS
  Base = 2
  DigitLimit = 6
  Near = 0
  Same = 0
  AddTo = 1
  CopyFrom = 2
  CopyTo = 2
  PairAddTo = 1
  PairCopyTo = 2
  WordBits = 8
  Problems <- MCProblems
  Denominators <- MCDenominators
  EqMultipliers <- MCEqMultipliers
  UbMultipliers <- MCUbMultipliers
  MaxCalls = 3
SPECIFICATION Spec
INVARIANTS
  BoundIsValid
  SuccessIsOptimal
\* The calls are few.
CHECK_DEADLOCK FALSE
