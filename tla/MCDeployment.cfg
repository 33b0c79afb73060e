SPECIFICATION AnySpec
CONSTANTS
  Honest = 5
  Reachable = 5
  Outbound = 1
  Extras = 1
  MaxInbound = 3
  MaxAttempts = 3
  Seeds <- MCSeeds
  N = 2
  Iterations = 3
  Maturity = 3
  HalvingInterval = 4
  Subsidy = 320
  MIN_UTXO_VALUE = 20
  Fee = 1
  MaxHeight = 9
  Launches = {l1, l2, l3}
  MaxTime = 2
  MaxFaults = 3
INVARIANTS
  ArmsAreTwins
  FundsSufficeWhileRewardsDo
  RepeatedOnlyAfterLoss
PROPERTIES
  LaunchesAreSeparate
  
CHECK_DEADLOCK FALSE
