SPECIFICATION Spec
CONSTANTS
  Xfers = {x1, x2}
  Miner = Miner
  Work = Work
  NoThread = NoThread
  Own = Own
  b1 = b1
  Stored <- MCStored
  Amounts = {0, 2}
  Wants = {1, 2}
  MaxMsgs = 2
  Wrap = 8
  PoolFaults = TRUE
  StorageFaults = TRUE
SYMMETRY Symmetry
INVARIANTS TypeOK BlockMutex PoolMutex OnlyFirstFunded OursDistinct BalanceIsSum
PROPERTY WalkIsStable
CHECK_DEADLOCK FALSE
