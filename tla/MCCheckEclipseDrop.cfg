SPECIFICATION Spec
CONSTANTS
  Honest = {m, h}
  Miner = m
  Blackholes = {b}
  Victim = v
  TxCount = 1
  MaxLost = 0
INVARIANTS
  OnlyTemporaryLinkDropped
CHECK_DEADLOCK FALSE
