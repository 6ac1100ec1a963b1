SPECIFICATION Spec
INVARIANTS
  JudgesAsAsked
  NeverLaxer
