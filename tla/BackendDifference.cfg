SPECIFICATION BackendSpec
CONSTANTS
  WordSize = 16
  Modulus = 3
  OverflowChecks = TRUE
  InputIndices <- FewIndices
  Constants <- SomeConstants
  Ops <- AllOps
  Circuits <- Difference
  Backends <- OnePlain
  Moduli <- Three
  Arguments <- SomeArguments
  NoiseWords = 10000
  MaxCalls = 1
CHECK_DEADLOCK FALSE
INVARIANT
  ResultsRight
