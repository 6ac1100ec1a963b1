SPECIFICATION RebalanceSpec
CONSTANTS
  WordSize = 8
  Modulus = 3
  OverflowChecks = TRUE
  InputIndices <- FewIndices
  Constants <- SomeConstants
  Ops <- AllOps
  Circuits <- Difference
  Handovers = {}
CHECK_DEADLOCK FALSE
INVARIANT
  OutputsKeepValue
