SPECIFICATION FairSpec
CONSTANTS
  Xfers = {x1, x2}
  Conn = Conn
  Nobody = Nobody
  MaxConnects = 2
  MaxFaults = 1
  Spurious = TRUE
  UserLeaves = TRUE
INVARIANTS TypeOK OwnAnswer
PROPERTIES KeySafe DialogueEnds
CHECK_DEADLOCK FALSE
