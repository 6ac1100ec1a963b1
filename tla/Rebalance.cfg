SPECIFICATION RebalanceSpec
CONSTANTS
  WordSize = 8
  Modulus = 3
  OverflowChecks = TRUE
  InputIndices <- FiveIndices
  Constants <- SomeConstants
  Ops <- AllOps
  Circuits <- AllCircuits
  Handovers = {}
CHECK_DEADLOCK FALSE
INVARIANTS
  RebalanceTypeOK
  RootsKeepValue
  OutputsKeepValue
  TreesBalanced
  PanicsExplained
PROPERTIES
  MappedOnce
  RebalanceAnswers
