SPECIFICATION FairSpec
CONSTANT MaxSigterms = 3
INVARIANTS
  ErrorNeverExitsZero
  ZeroMeansNetworkClosed
PROPERTIES
  Terminates
CHECK_DEADLOCK FALSE
