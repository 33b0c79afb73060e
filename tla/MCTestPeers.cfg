SPECIFICATION AnySpec
CONSTANTS
  ByteBits = 3
  Objects <- MCObjects
  Units = 2
  WaitVerack = TRUE
  RetryTimeouts = FALSE
  MaxSends = 2
  MaxConnects = 1
  MaxTalk = 1
  MaxTimeouts = 1
  MayDrop = TRUE
INVARIANTS
  
  
  VersionFirst
  BothWaysExact
  FullyConnectedOnReturn
PROPERTIES
  SerializeIsIdempotent
  SyncFlushes
  WaitsEnd
CHECK_DEADLOCK FALSE
