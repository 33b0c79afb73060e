SPECIFICATION Spec
CONSTANT MaxSigterms = 1
INVARIANTS
  SigtermExitsZero
CHECK_DEADLOCK FALSE
