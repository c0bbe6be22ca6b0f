CONSTANTS
  Xfers = {x1}
  None = None
  MaxStarts = 2
  MaxMessages = 2
  MaxFields = 5
  BLOCK_FIELDS = 2
SPECIFICATION FairSpec
CHECK_DEADLOCK FALSE
INVARIANT OutAgrees InAgrees
PROPERTY LossNoticed
