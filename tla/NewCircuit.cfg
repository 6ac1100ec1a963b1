SPECIFICATION NewCircuitSpec
CONSTANTS
  WordSize = 8
  Modulus = 3
  OverflowChecks = TRUE
  InputIndices <- FewIndices
  Constants <- SomeConstants
  Ops <- AllOps
  Circuits <- NoCircuits
  Handovers <- SmallHandovers
CHECK_DEADLOCK FALSE
INVARIANTS
  RenamedCopy
  FailsOnlyOnWrongUsages
  OutputsAndInputsKept
