SPECIFICATION Spec
CONSTANTS
  b1 = b1
  b2 = b2
  b3 = b3
  Blocks = {b1, b2, b3}
  FileOf <- MCFileOf
  Depth = 3
  None = None
  MaxTrouble = 2
  Serving = TRUE
  Faults = TRUE
INVARIANTS TypeOK ExactUndisturbed LossBounded
PROPERTY LeavesRepaired
CHECK_DEADLOCK FALSE
