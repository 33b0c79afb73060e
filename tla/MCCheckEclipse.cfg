SPECIFICATION FairSpec
CONSTANTS
  Honest = {m, h}
  Miner = m
  Blackholes = {b}
  Victim = v
  TxCount = 1
  MaxLost = 1

  
PROPERTIES
  Terminates
  ImplementsIsolationTest
CHECK_DEADLOCK FALSE
