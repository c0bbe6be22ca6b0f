CONSTANTS
  Key = {k1, k2, k3}
  Garbage = Garbage
  MaxRecords = 3
SPECIFICATION KeysSpec
CHECK_DEADLOCK FALSE
INVARIANT KeysTyped KeysKept DefaultStays
