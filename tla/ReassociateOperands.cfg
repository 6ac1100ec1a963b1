SPECIFICATION PassSpec
CONSTANTS
  WordSize = 8
  Modulus = 3
  OverflowChecks = TRUE
  InputIndices <- FewIndices
  Constants <- SomeConstants
  Ops <- AllOps
  Circuits <- SumOfProduct
  Handovers = {}
CHECK_DEADLOCK FALSE
INVARIANT
  UsedClosed
