SPECIFICATION ContextSpec
CONSTANTS
  WordSize = 8
  Modulus = 3
  OverflowChecks = TRUE
  InputIndices <- OneArgument
  Constants <- SmallAndLarge
  Ops <- AllOps
  Modes <- OnlyLoose
  MaxExprs = 4
INVARIANTS
  NoDuplicates
  NoConstantOperation
PROPERTIES
  CombineSound
