SPECIFICATION FairSpec
CONSTANTS
  MaxSize = 4
  MaxDegree = 2
  MaxSlots = 3
  ArgSpace <- MCArgSpace
INVARIANTS
  ValidationNeverFails
  PartialGraphIsSound
  ArgumentCheckIsExact
PROPERTIES
  Terminates
  ImplementsContract
CHECK_DEADLOCK FALSE
