SPECIFICATION Spec
CONSTANTS
  WordSize = 8
  Modulus = 3
  OverflowChecks = TRUE
  InputIndices <- TwoArguments
  Constants <- OneConstant
  Ops <- OnlySub
  Modes <- PublicModes
  MaxExprs = 4
  MaxOutputs = 2
INVARIANTS
  CircuitsEvaluable
