CONSTANTS
  Keys = {1, 2}
  Default = 1
  MaxAmount = 2
  MaxOurs = 7
  XDAG_BLOCK_FIELDS = 10
  XFER_MAX_IN = 5
SPECIFICATION Spec
CHECK_DEADLOCK FALSE
INVARIANT TypeOK InputsCovered AllTransferred
