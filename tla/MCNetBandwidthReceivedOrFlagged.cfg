SPECIFICATION Spec
CONSTANTS
  N = 3
  Links <- Line
  TxCount = 2
  Iterations = 2
  MaxRetries = 2
  MaxRpcFaults = 0
INVARIANTS
  ReceivedOrFlagged
CHECK_DEADLOCK FALSE
