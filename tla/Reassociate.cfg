SPECIFICATION PassSpec
CONSTANTS
  WordSize = 8
  Modulus = 3
  OverflowChecks = TRUE
  InputIndices <- MoreIndices
  Constants <- SomeConstants
  Ops <- AllOps
  Circuits <- SomeCircuits
  Handovers = {}
CHECK_DEADLOCK FALSE
INVARIANTS
  ReassociateTypeOK
  NoTombstoneToKill
  SeenSound
  LeavesProper
  OutputsKeepValue
  NothingUnused
PROPERTIES
  UsagesStayExact
  EveryRewriteEliminates
  PassAnswers
