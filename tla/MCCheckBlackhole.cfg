SPECIFICATION FairSpec
CONSTANTS
  Honest = {source, relay, control}
  Miner = source
  Blackholes = {blackhole}
  Victim = victim
  TxCount = 1
  MaxLost = 2
INVARIANTS
  BlackholeKeepsTx
PROPERTIES
  Terminates
  ImplementsIsolationTest
CHECK_DEADLOCK FALSE
