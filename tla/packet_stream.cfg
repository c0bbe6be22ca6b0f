SPECIFICATION PacketFairSpec
CONSTANTS
  Procs = {reader, s1, s2}
  Reader = reader
  W = 4
  Sector = 2
  MaxLength = 3
  MaxPackets = 3
INVARIANTS SessionHeld PacketsWhole CountedIsSent
PROPERTIES FifoOrder Served ShutIsClosed
CHECK_DEADLOCK FALSE
