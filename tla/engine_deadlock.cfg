SPECIFICATION FairSpec
CONSTANTS
  Xfers = {x1}
  Miner = Miner
  Work = Work
  NoThread = NoThread
  Own = Own
  b1 = b1
  Stored <- MCStored
  Amounts = {2}
  Wants = {1}
  MaxMsgs = 2
  Wrap = 8
  PoolFaults = FALSE
  StorageFaults = FALSE
PROPERTY TransfersEnd
CHECK_DEADLOCK FALSE
