SPECIFICATION FairSpec
CONSTANTS
  N = 3
  Links <- Triangle
  TxCount = 2
  Iterations = 3
  MaxRetries = 2
  MaxRpcFaults = 1
INVARIANTS
  
  
  MarkerIsHeardByRelay
  TimestampsAreFresh
  PropagationErrorsAreLosses

  
CHECK_DEADLOCK FALSE
