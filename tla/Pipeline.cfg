SPECIFICATION PipelineSpec
CONSTANTS
  WordSize = 16
  Modulus = 4
  OverflowChecks = FALSE
  InputIndices <- TwoArguments
  Constants <- LargeConstant
  Ops <- OnlySub
  Modes <- TwoModes
  MaxExprs = 4
  MaxOutputs = 2
  Backends <- BothBackends
  Arguments <- SomeArguments
  NoiseWords = 10000
CHECK_DEADLOCK FALSE
INVARIANTS
  ProgramComputed
  StrictProgramsNeverPanic
  RefusedForDeclared
PROPERTY
  CombineSound
