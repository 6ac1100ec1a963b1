SPECIFICATION BackendSpec
CONSTANTS
  WordSize = 16
  Modulus = 4
  OverflowChecks = TRUE
  InputIndices <- FewIndices
  Constants <- SomeConstants
  Ops <- AllOps
  Circuits <- SomeCircuits
  Backends <- SomeBackends
  Moduli <- TwoModuli
  Arguments <- SomeArguments
  NoiseWords = 64
  MaxCalls = 2
CHECK_DEADLOCK FALSE
INVARIANTS
  ResultsRight
  DepthsAreHeaviestPaths
  BudgetVerdict
  EvaluatesAsked
  EvaluableNeverPanics
PROPERTY
  CallsAnswered
